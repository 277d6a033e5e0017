----------------------------- MODULE NetSockets -----------------------------
(***************************************************************************)
(* Internet sockets on the loopback interface (net/socket.rs and the       *)
(* loopback half of net/syscall.rs).                                       *)
(*                                                                         *)
(* SOCKETS is one lock and every call is one step under the last time it   *)
(* takes it: what sys_connect and sys_sendto looked at before is looked at *)
(* again.  A send is the number of the send and its socket, and a receive  *)
(* takes one of them.  Ports are 0 .. NsPortMax, which stands for          *)
(* u16::MAX: NEXT_EPHEMERAL_PORT wraps to 0.                               *)
(***************************************************************************)
EXTENDS Naturals, Sequences, FiniteSets

CONSTANTS
    NsLimit,      \* bound on sockets created in any workload
    NsPortMax,    \* u16::MAX
    NsEphemeral,  \* the first ephemeral port, 49152
    NsWorkloads   \* what the programs do: see NsWorkload

NsCalls == {"bind", "listen", "connect", "accept", "send", "sendto", "recv", "close"}

(* calls: the calls made; types and reuseaddr: of the sockets; sockets,    *)
(* sends: bounds; again: whether a socket that is connected is connected   *)
(* again, which the code does not refuse.                                  *)
NsWorkload == [calls : SUBSET NsCalls, types : SUBSET {"Stream", "Dgram"}, reuse : SUBSET BOOLEAN,
               ips : SUBSET {"UNSPECIFIED", "LOOPBACK"}, ports : SUBSET (0 .. NsPortMax),
               sockets : 0 .. NsLimit, sends : Nat, again : BOOLEAN]

ASSUME NsAssumption ==
    /\ \A w \in NsWorkloads : w \in NsWorkload
    /\ NsLimit \in Nat /\ NsPortMax \in Nat /\ NsEphemeral \in 0 .. NsPortMax

NsIds == 1 .. NsLimit
NoId == 0
NoAddr == [ip |-> "none", port |-> 0]
Inet(ip, port) == [ip |-> ip, port |-> port]

VARIABLES
    ns_work,     \* never changes: a member of NsWorkloads
    sockets,     \* SOCKETS
    ns_next,     \* NEXT_SOCKET_ID
    ns_port,     \* NEXT_EPHEMERAL_PORT
    ns_sends,    \* history: number of sends that reached each socket
    ns_received  \* history: what each socket received, in order

nsVars == <<ns_work, sockets, ns_next, ns_port, ns_sends, ns_received>>

(* Socket::new *)
NsNew(type, reuse) ==
    [type |-> type, state |-> "Unbound", local |-> NoAddr, remote |-> NoAddr, recv_buf |-> <<>>,
     backlog |-> <<>>, max_backlog |-> 128, peer |-> NoId, reuseaddr |-> reuse]
NsNone == [NsNew("Stream", FALSE) EXCEPT !.state = "none"]

NsInit ==
    /\ ns_work \in NsWorkloads
    /\ sockets = [i \in NsIds |-> NsNone]
    /\ ns_next = 1
    /\ ns_port = NsEphemeral
    /\ ns_sends = [i \in NsIds |-> 0]
    /\ ns_received = [i \in NsIds |-> <<>>]

NsLive(i) == i # NoId /\ sockets[i].state # "none"
NsCall(call, i) == call \in ns_work.calls /\ NsLive(i)
NsPortAfter == (ns_port + 1) % (NsPortMax + 1)
-----------------------------------------------------------------------------
(* sys_socket, and setsockopt SO_REUSEADDR before anything else. *)
NsSocket(type, reuse) ==
    /\ ns_next <= ns_work.sockets
    /\ sockets' = [sockets EXCEPT ![ns_next] = NsNew(type, reuse)]
    /\ ns_next' = ns_next + 1
    /\ UNCHANGED <<ns_work, ns_port, ns_sends, ns_received>>

BindConflict(existing, ip, port) ==
    /\ existing # NoAddr /\ existing.port = port
    /\ existing.ip = "UNSPECIFIED" \/ ip = "UNSPECIFIED" \/ existing.ip = ip

(* sys_bind; port 0 asks for an ephemeral one, which is taken before the   *)
(* checks that may refuse it.                                              *)
NsBind(i, ip, asked) ==
    LET port == IF asked = 0 THEN ns_port ELSE asked
        conflict == ~sockets[i].reuseaddr /\
            \E j \in NsIds \ {i} : NsLive(j) /\ sockets[j].type = sockets[i].type /\ BindConflict(sockets[j].local, ip, port)
    IN  /\ NsCall("bind", i)
        /\ ns_port' = IF asked = 0 THEN NsPortAfter ELSE ns_port
        /\ sockets' = IF ~conflict /\ sockets[i].state = "Unbound"
                      THEN [sockets EXCEPT ![i].local = Inet(ip, port), ![i].state = "Bound"]
                      ELSE sockets
        /\ UNCHANGED <<ns_work, ns_next, ns_sends, ns_received>>

(* sys_listen *)
NsListen(i, backlog) ==
    /\ NsCall("listen", i) /\ sockets[i].type = "Stream" /\ sockets[i].state = "Bound"
    /\ sockets' = [sockets EXCEPT ![i].max_backlog = backlog, ![i].state = "Listening"]
    /\ UNCHANGED <<ns_work, ns_next, ns_port, ns_sends, ns_received>>

(* A stream listener or a datagram socket that a destination address       *)
(* reaches; the table is searched in the order of the ids.                 *)
Reaches(i, ip, port) ==
    sockets[i].local # NoAddr /\ sockets[i].local.port = port /\ sockets[i].local.ip \in {"UNSPECIFIED", ip}

First(i, S) == i \in S /\ \A j \in S : i <= j

NsListeners(port) ==
    {i \in NsIds : sockets[i].type = "Stream" /\ sockets[i].state = "Listening" /\ Reaches(i, "LOOPBACK", port)}

NsMayConnect(i) == ns_work.again \/ sockets[i].state \in {"Unbound", "Bound"}

(* Mutant: the accepted socket does not know its peer. *)
ConnectStreamOneSided(i, l, port) ==
    LET auto == sockets[i].state = "Unbound"
        local == IF auto THEN Inet("LOOPBACK", ns_port) ELSE sockets[i].local
    IN  /\ NsCall("connect", i) /\ NsMayConnect(i) /\ sockets[i].type = "Stream"
        /\ First(l, NsListeners(port)) /\ Len(sockets[l].backlog) < sockets[l].max_backlog /\ ns_next <= NsLimit
        /\ ns_port' = IF auto THEN NsPortAfter ELSE ns_port
        /\ sockets' = [sockets EXCEPT
                ![i].local = local, ![i].remote = Inet("LOOPBACK", port), ![i].peer = ns_next, ![i].state = "Connected",
                ![ns_next] = [NsNew("Stream", FALSE) EXCEPT !.state = "Connected", !.local = sockets[l].local, !.remote = local],
                ![l].backlog = Append(@, ns_next)]
        /\ ns_next' = ns_next + 1
        /\ UNCHANGED <<ns_work, ns_sends, ns_received>>

(* loopback_connect of a stream: ECONNREFUSED, EAGAIN, or a new socket     *)
(* that is the client's peer and waits in the backlog.                     *)
ConnectStream(i, l, port) ==
    LET auto == sockets[i].state = "Unbound"
        local == IF auto THEN Inet("LOOPBACK", ns_port) ELSE sockets[i].local
    IN  /\ NsCall("connect", i) /\ NsMayConnect(i) /\ sockets[i].type = "Stream"
        /\ First(l, NsListeners(port)) /\ Len(sockets[l].backlog) < sockets[l].max_backlog /\ ns_next <= NsLimit
        /\ ns_port' = IF auto THEN NsPortAfter ELSE ns_port
        /\ sockets' = [sockets EXCEPT
                ![i].local = local, ![i].remote = Inet("LOOPBACK", port), ![i].peer = ns_next, ![i].state = "Connected",
                ![ns_next] = [NsNew("Stream", FALSE) EXCEPT !.state = "Connected", !.local = sockets[l].local,
                                                            !.remote = local, !.peer = i],
                ![l].backlog = Append(@, ns_next)]
        /\ ns_next' = ns_next + 1
        /\ UNCHANGED <<ns_work, ns_sends, ns_received>>

(* loopback_connect of a datagram socket *)
ConnectDgram(i, port) ==
    LET auto == sockets[i].state = "Unbound"
    IN  /\ NsCall("connect", i) /\ sockets[i].type = "Dgram"
        /\ ns_port' = IF auto THEN NsPortAfter ELSE ns_port
        /\ sockets' = [sockets EXCEPT ![i].local = IF auto THEN Inet("LOOPBACK", ns_port) ELSE @,
                                      ![i].remote = Inet("LOOPBACK", port), ![i].state = "Connected"]
        /\ UNCHANGED <<ns_work, ns_next, ns_sends, ns_received>>

(* sys_accept: the caller learns the id and may use the socket. *)
NsAccept(i) ==
    /\ NsCall("accept", i) /\ sockets[i].state = "Listening" /\ sockets[i].backlog # <<>>
    /\ sockets' = [sockets EXCEPT ![i].backlog = Tail(@)]
    /\ UNCHANGED <<ns_work, ns_next, ns_port, ns_sends, ns_received>>

(* A program knows the sockets it made and the ones it accepted. *)
NsKnown(i) == \A l \in NsIds : \A k \in DOMAIN sockets[l].backlog : sockets[l].backlog[k] # i

(* The n-th send that reaches a socket, and where it came from. *)
Stamp(i, to) == [src |-> i, n |-> ns_sends[to] + 1]

(* Mutant: what was buffered is replaced. *)
NsSendReplaces(i) ==
    /\ NsCall("send", i) /\ NsKnown(i)
    /\ sockets[i].type = "Stream" /\ sockets[i].state = "Connected" /\ NsLive(sockets[i].peer)
    /\ ns_sends[sockets[i].peer] < ns_work.sends
    /\ sockets' = [sockets EXCEPT ![sockets[i].peer].recv_buf = <<Stamp(i, sockets[i].peer)>>]
    /\ ns_sends' = [ns_sends EXCEPT ![sockets[i].peer] = @ + 1]
    /\ UNCHANGED <<ns_work, ns_next, ns_port, ns_received>>

(* loopback_send of a stream: ENOTCONN, EPIPE, or the peer's buffer. *)
NsSend(i) ==
    /\ NsCall("send", i) /\ NsKnown(i)
    /\ sockets[i].type = "Stream" /\ sockets[i].state = "Connected" /\ NsLive(sockets[i].peer)
    /\ ns_sends[sockets[i].peer] < ns_work.sends
    /\ sockets' = [sockets EXCEPT ![sockets[i].peer].recv_buf = Append(@, Stamp(i, sockets[i].peer))]
    /\ ns_sends' = [ns_sends EXCEPT ![sockets[i].peer] = @ + 1]
    /\ UNCHANGED <<ns_work, ns_next, ns_port, ns_received>>

(* loopback_send of a datagram: to the first other socket it reaches; one  *)
(* that reaches none is lost.                                              *)
NsSendto(i, to, port) ==
    LET from == IF sockets[i].local = NoAddr THEN Inet("LOOPBACK", 0) ELSE sockets[i].local
    IN  /\ NsCall("sendto", i) /\ sockets[i].type = "Dgram" /\ ns_sends[to] < ns_work.sends
        /\ First(to, {j \in NsIds \ {i} : NsLive(j) /\ sockets[j].type = "Dgram" /\ Reaches(j, "LOOPBACK", port)})
        /\ sockets' = [sockets EXCEPT ![to].recv_buf = Append(@, Stamp(i, to)), ![to].remote = from]
        /\ ns_sends' = [ns_sends EXCEPT ![to] = @ + 1]
        /\ UNCHANGED <<ns_work, ns_next, ns_port, ns_received>>

CanRecv(i) ==
    IF sockets[i].type = "Stream" THEN sockets[i].state \in {"Connected", "Closing"}
    ELSE sockets[i].state \in {"Bound", "Connected", "Closing"}

(* Socket::recv; an empty buffer is EAGAIN or 0, and changes nothing. *)
NsRecv(i) ==
    /\ NsCall("recv", i) /\ NsKnown(i) /\ CanRecv(i) /\ sockets[i].recv_buf # <<>>
    /\ ns_received' = [ns_received EXCEPT ![i] = Append(@, Head(sockets[i].recv_buf))]
    /\ sockets' = [sockets EXCEPT ![i].recv_buf = Tail(@)]
    /\ UNCHANGED <<ns_work, ns_next, ns_port, ns_sends>>

(* sys_close_socket; the backlog of a listener goes with it, the sockets   *)
(* in it stay.                                                             *)
NsClose(i) ==
    LET peer == sockets[i].peer
    IN  /\ NsCall("close", i) /\ NsKnown(i)
        /\ sockets' = IF NsLive(peer)
                      THEN [sockets EXCEPT ![i] = NsNone, ![peer].peer = NoId,
                                           ![peer].state = IF @ = "Connected" THEN "Closing" ELSE @]
                      ELSE [sockets EXCEPT ![i] = NsNone]
        /\ UNCHANGED <<ns_work, ns_next, ns_port, ns_sends, ns_received>>
-----------------------------------------------------------------------------
NsNext ==
    \/ \E type \in ns_work.types, reuse \in ns_work.reuse : NsSocket(type, reuse)
    \/ \E i \in NsIds :
        \/ NsAccept(i) \/ NsSend(i) \/ NsRecv(i) \/ NsClose(i)
        \/ \E backlog \in {1, 2} : NsListen(i, backlog)
        \/ \E port \in ns_work.ports :
            \/ \E ip \in ns_work.ips : NsBind(i, ip, port)
            \/ ConnectDgram(i, port)
            \/ \E j \in NsIds : ConnectStream(i, j, port) \/ NsSendto(i, j, port)

NsSpec == NsInit /\ [][NsNext]_nsVars
-----------------------------------------------------------------------------
NsType ==
    \A i \in NsIds :
        /\ sockets[i].peer \in NsIds \cup {NoId} /\ sockets[i].local.port \in 0 .. NsPortMax
        /\ Len(sockets[i].backlog) <= sockets[i].max_backlog

(* Two listeners that one connection could reach exist only if one of them *)
(* was bound with SO_REUSEADDR, whatever was bound, connected and closed   *)
(* in between and although ephemeral ports are never checked.              *)
NsOneListener ==
    \A i, j \in NsIds : \A port \in 0 .. NsPortMax :
        /\ i # j /\ sockets[i].state = "Listening" /\ sockets[j].state = "Listening"
        /\ Reaches(i, "LOOPBACK", port) /\ Reaches(j, "LOOPBACK", port)
        => sockets[i].reuseaddr \/ sockets[j].reuseaddr

(* The peer of a peer is the socket itself, through accepts and closes.    *)
NsPeers ==
    ~ns_work.again =>
        \A i \in NsIds : NsLive(i) /\ sockets[i].peer # NoId =>
            NsLive(sockets[i].peer) /\ sockets[sockets[i].peer].peer = i

(* What a stream socket has received and buffered is all that was sent to  *)
(* it, in order, and comes from one socket.                                *)
NsStream ==
    ~ns_work.again => \A i \in NsIds : sockets[i].type = "Stream" /\ NsLive(i) =>
        LET all == ns_received[i] \o sockets[i].recv_buf
        IN  Len(all) = ns_sends[i] /\ \A k \in DOMAIN all : all[k] = [src |-> all[1].src, n |-> k]

(* What is in a buffer can still be read, also when the peer has closed,   *)
(* when it was sent before accept, and when the socket is connected again. *)
NsReadable == \A i \in NsIds : NsLive(i) /\ sockets[i].recv_buf # <<>> => CanRecv(i)

(* Connections are pairs made by the one listener of their port, and what  *)
(* they have delivered can be read.                                        *)
NsConnections == NsOneListener /\ NsPeers /\ NsReadable

(* A stream delivers what was sent, once and in order, from one sender.    *)
NsStreams == NsType /\ NsStream
=============================================================================
