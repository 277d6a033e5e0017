----------------------------- MODULE TcpClient -----------------------------
(***************************************************************************)
(* A TCP connection that this kernel opens (net/socket.rs, net/tcp.rs,     *)
(* process_tcp of net/packet.rs, nic_send of net/syscall.rs) to a server   *)
(* on a network that may lose, duplicate and reorder segments.             *)
(*                                                                         *)
(* poll_nic hands received frames to process_tcp and then retransmits SYNs *)
(* that are due; nothing else is retransmitted.  The server is external:   *)
(* it answers as RFC 793 says.  Segments carry one unit of data; TcMod     *)
(* stands for 2^32.  Windows and congestion control are left out: a send   *)
(* that they refuse is one that does not happen.                           *)
(***************************************************************************)
EXTENDS Naturals, Sequences, SequencesExt

CONSTANTS
    TcMod,      \* the number of sequence numbers
    TcIsns,     \* initial sequence numbers of either side
    TcNetMax,   \* bound on segments on their way when one is sent that answers none
    TcBufMax,   \* bound on the data received
    TcNetworks  \* what the network and the two sides may do: see TcNetwork

(* faults: of the network; data: bound on the data either side sends;      *)
(* reset: whether the server may reset the connection.                     *)
TcNetwork == [faults : SUBSET {"lose", "duplicate", "reorder"}, data : Nat, reset : BOOLEAN]

ASSUME TcAssumption ==
    /\ TcMod \in Nat \ {0} /\ TcIsns \subseteq 0 .. TcMod - 1 /\ TcNetMax \in Nat /\ TcBufMax \in Nat
    /\ \A w \in TcNetworks : w \in TcNetwork

VARIABLES
    tc_net,   \* never changes: a member of TcNetworks
    tc_sock,  \* the socket and its TcpConnection
    tc_up,    \* segments to the server
    tc_down,  \* segments to this kernel
    tc_server \* external: the server's side

tcVars == <<tc_net, tc_sock, tc_up, tc_down, tc_server>>

Wrap(n) == n % TcMod
Since(a, b) == (a + TcMod - b) % TcMod     \* a.wrapping_sub(b)

Segment(flags, seq, ack, data) == [flags |-> flags, seq |-> seq, ack |-> ack, data |-> data]
TcRoom == Len(tc_up) + Len(tc_down) < TcNetMax

TcInit ==
    /\ tc_net \in TcNetworks
    /\ tc_sock = [state |-> "Bound", isn |-> 0, snd_una |-> 0, snd_nxt |-> 0, rcv_nxt |-> 0,
                  last_tx_ok |-> TRUE, sent |-> 0, recv_buf |-> <<>>]
    /\ tc_up = <<>> /\ tc_down = <<>>
    /\ \E iss \in TcIsns : tc_server = [state |-> "Listen", iss |-> iss, rcv_nxt |-> 0, sent |-> 0, got |-> 0]
-----------------------------------------------------------------------------
(* Socket::connect; the frame is not sent when the next hop is not known.  *)
TcConnect(isn, ok) ==
    /\ tc_sock.state = "Bound"
    /\ tc_sock' = [tc_sock EXCEPT !.state = "Connecting", !.isn = isn, !.snd_una = isn, !.snd_nxt = Wrap(isn + 1),
                                  !.last_tx_ok = ok]
    /\ tc_up' = IF ok THEN Append(tc_up, Segment({"SYN"}, isn, 0, 0)) ELSE tc_up
    /\ UNCHANGED <<tc_net, tc_down, tc_server>>

(* Mutant: only a SYN that could not be sent is sent again. *)
TcRexmitUnsent(ok) ==
    /\ tc_sock.state = "Connecting" /\ ~tc_sock.last_tx_ok /\ TcRoom
    /\ tc_sock' = [tc_sock EXCEPT !.last_tx_ok = ok]
    /\ tc_up' = IF ok THEN Append(tc_up, Segment({"SYN"}, tc_sock.snd_una, 0, 0)) ELSE tc_up
    /\ UNCHANGED <<tc_net, tc_down, tc_server>>

(* tcp_rexmit_pending, once the SYN is due. *)
TcRexmit(ok) ==
    /\ tc_sock.state = "Connecting" /\ TcRoom
    /\ tc_sock' = [tc_sock EXCEPT !.last_tx_ok = ok]
    /\ tc_up' = IF ok THEN Append(tc_up, Segment({"SYN"}, tc_sock.snd_una, 0, 0)) ELSE tc_up
    /\ UNCHANGED <<tc_net, tc_down, tc_server>>

(* The branches of process_tcp, in its order. *)
TcOnReset == tc_sock' = [tc_sock EXCEPT !.state = "Closed"] /\ UNCHANGED tc_up

TcOnSynAck(seg) ==
    /\ tc_sock' = [tc_sock EXCEPT !.state = "Connected", !.rcv_nxt = Wrap(seg.seq + 1), !.snd_una = seg.ack]
    /\ tc_up' = Append(tc_up, Segment({"ACK"}, tc_sock.snd_nxt, Wrap(seg.seq + 1), 0))

(* Mutant: the acknowledgement is added to what was acknowledged. *)
TcOnAckAdds(seg) ==
    /\ tc_sock' = [tc_sock EXCEPT !.snd_una = Wrap(@ + seg.ack),
            !.rcv_nxt = IF seg.data # 0 THEN Wrap(seg.seq + 1) ELSE @,
            !.recv_buf = IF seg.data # 0 THEN Append(@, seg.data) ELSE @]
    /\ UNCHANGED tc_up

TcOnAck(seg) ==
    /\ tc_sock' = [tc_sock EXCEPT !.snd_una = seg.ack,
            !.rcv_nxt = IF seg.data # 0 THEN Wrap(seg.seq + 1) ELSE @,
            !.recv_buf = IF seg.data # 0 THEN Append(@, seg.data) ELSE @]
    /\ UNCHANGED tc_up

(* process_tcp of the next segment *)
TcReceive ==
    /\ tc_down # <<>> /\ Len(tc_sock.recv_buf) < TcBufMax
    /\ LET seg == Head(tc_down)
           synack == tc_sock.state = "Connecting" /\ {"SYN", "ACK"} \subseteq seg.flags
           ack == tc_sock.state \in {"Connecting", "Connected"} /\ "ACK" \in seg.flags
       IN  CASE "RST" \in seg.flags -> TcOnReset
             [] "RST" \notin seg.flags /\ synack -> TcOnSynAck(seg)
             [] "RST" \notin seg.flags /\ ~synack /\ ack -> TcOnAck(seg)
             [] OTHER -> UNCHANGED <<tc_sock, tc_up>>
    /\ tc_down' = Tail(tc_down)
    /\ UNCHANGED <<tc_net, tc_server>>

(* nic_send *)
TcSend ==
    /\ tc_sock.state = "Connected" /\ tc_sock.sent < tc_net.data /\ TcRoom
    /\ tc_up' = Append(tc_up, Segment({"PSH", "ACK"}, tc_sock.snd_nxt, tc_sock.rcv_nxt, tc_sock.sent + 1))
    /\ tc_sock' = [tc_sock EXCEPT !.snd_nxt = Wrap(@ + 1), !.sent = @ + 1]
    /\ UNCHANGED <<tc_net, tc_down, tc_server>>
-----------------------------------------------------------------------------
(* The server: a SYN opens the connection and is answered as often as it   *)
(* comes; data is taken in order and acknowledged; what belongs to no      *)
(* connection is answered with a reset.                                    *)
Answer(server) == Segment({"ACK"}, Wrap(server.iss + 1 + server.sent), server.rcv_nxt, 0)

ServerReceive ==
    /\ tc_up # <<>>
    /\ tc_up' = Tail(tc_up)
    /\ LET seg == Head(tc_up)
       IN  \/ /\ seg.flags = {"SYN"} /\ tc_server.state \in {"Listen", "SynReceived"}
              /\ tc_server' = [tc_server EXCEPT !.state = "SynReceived", !.rcv_nxt = Wrap(seg.seq + 1)]
              /\ tc_down' = Append(tc_down, Segment({"SYN", "ACK"}, tc_server.iss, Wrap(seg.seq + 1), 0))
           \/ /\ seg.flags = {"SYN"} /\ tc_server.state = "Established"
              /\ tc_down' = Append(tc_down, Answer(tc_server))
              /\ UNCHANGED tc_server
           \/ /\ "ACK" \in seg.flags /\ tc_server.state \in {"SynReceived", "Established"}
              /\ LET new == seg.data # 0 /\ seg.seq = tc_server.rcv_nxt
                     next == [tc_server EXCEPT !.state = "Established",
                                  !.rcv_nxt = IF new THEN Wrap(@ + 1) ELSE @, !.got = IF new THEN @ + 1 ELSE @]
                 IN  /\ tc_server' = next
                     /\ tc_down' = IF seg.data # 0 THEN Append(tc_down, Answer(next)) ELSE tc_down
           \/ /\ tc_server.state = "Closed" \/ ("ACK" \in seg.flags /\ tc_server.state = "Listen")
              /\ tc_down' = Append(tc_down, [Answer(tc_server) EXCEPT !.flags = {"RST"}])
              /\ UNCHANGED tc_server
    /\ UNCHANGED <<tc_net, tc_sock>>

ServerSend ==
    /\ tc_server.state = "Established" /\ tc_server.sent < tc_net.data /\ TcRoom
    /\ tc_down' = Append(tc_down, [Answer(tc_server) EXCEPT !.data = tc_server.sent + 1])
    /\ tc_server' = [tc_server EXCEPT !.sent = @ + 1]
    /\ UNCHANGED <<tc_net, tc_sock, tc_up>>

ServerReset ==
    /\ tc_net.reset /\ tc_server.state \in {"SynReceived", "Established"} /\ TcRoom
    /\ tc_server' = [tc_server EXCEPT !.state = "Closed"]
    /\ tc_down' = Append(tc_down, [Answer(tc_server) EXCEPT !.flags = {"RST"}])
    /\ UNCHANGED <<tc_net, tc_sock, tc_up>>

(* The network: a segment is lost, comes twice, or is overtaken. *)
Disturbed(line) ==
    UNION {IF "lose" \in tc_net.faults THEN {RemoveAt(line, k)} ELSE {} : k \in DOMAIN line}
    \cup UNION {IF "duplicate" \in tc_net.faults /\ TcRoom THEN {InsertAt(line, k, line[k])} ELSE {} : k \in DOMAIN line}
    \cup UNION {IF "reorder" \in tc_net.faults /\ k > 1
                THEN {[line EXCEPT ![k] = line[k - 1], ![k - 1] = line[k]]} ELSE {} : k \in DOMAIN line}

NetworkFault ==
    \/ tc_up' \in Disturbed(tc_up) /\ UNCHANGED <<tc_net, tc_sock, tc_down, tc_server>>
    \/ tc_down' \in Disturbed(tc_down) /\ UNCHANGED <<tc_net, tc_sock, tc_up, tc_server>>

TcNext ==
    \/ \E isn \in TcIsns, ok \in BOOLEAN : TcConnect(isn, ok)
    \/ \E ok \in BOOLEAN : TcRexmit(ok)
    \/ TcReceive \/ TcSend \/ ServerReceive \/ ServerSend \/ ServerReset \/ NetworkFault

(* poll_nic is called in a loop while a connection is waited for: received *)
(* frames are handled and due SYNs are sent again, and sooner or later one *)
(* can be sent.  The network is fair: a segment that is sent again and     *)
(* again is received.                                                      *)
TcFairness == SF_tcVars(TcRexmit(TRUE)) /\ SF_tcVars(TcReceive) /\ SF_tcVars(ServerReceive)

TcSpec == TcInit /\ [][TcNext]_tcVars /\ TcFairness
-----------------------------------------------------------------------------
TcType ==
    /\ tc_sock.snd_una \in 0 .. TcMod - 1 /\ tc_sock.snd_nxt \in 0 .. TcMod - 1 /\ tc_sock.rcv_nxt \in 0 .. TcMod - 1
    /\ Len(tc_up) <= TcNetMax /\ Len(tc_down) <= TcNetMax

(* On every network, what is unacknowledged is at most the SYN and what    *)
(* was sent: snd_una stays between the initial sequence number and         *)
(* snd_nxt, across the wrap, although an old acknowledgement moves it back *)
(* (packet.rs:210).                                                        *)
TcUnacked ==
    tc_sock.state # "Bound" =>
        /\ tc_sock.snd_nxt = Wrap(tc_sock.isn + 1 + tc_sock.sent)
        /\ Since(tc_sock.snd_una, tc_sock.isn) <= 1 + tc_sock.sent

(* On every network without data, a connection has the sequence numbers    *)
(* of both sides right: the SYNs of both are acknowledged.                 *)
TcSynchronised ==
    tc_net.data = 0 /\ tc_sock.state = "Connected" =>
        tc_sock.snd_una = tc_sock.snd_nxt /\ tc_sock.rcv_nxt = Wrap(tc_server.iss + 1)

(* On a network that keeps the order and loses nothing, what was received  *)
(* is what the server sent, once and in order, and rcv_nxt acknowledges    *)
(* just that.                                                              *)
TcInOrder ==
    tc_net.faults = {} /\ tc_sock.state = "Connected" =>
        /\ tc_sock.recv_buf = [k \in 1 .. Len(tc_sock.recv_buf) |-> k]
        /\ tc_sock.rcv_nxt = Wrap(tc_server.iss + 1 + Len(tc_sock.recv_buf))

(* A connection that is being opened does not stay so, whatever the        *)
(* network loses: SYNs are retransmitted.                                  *)
TcConnects == tc_sock.state = "Connecting" ~> tc_sock.state \in {"Connected", "Closed"}

(* The sequence numbers of a connection are right on each network as far   *)
(* as the code takes care of its faults.                                   *)
TcNumbers == TcType /\ TcUnacked /\ TcSynchronised /\ TcInOrder
=============================================================================
