---------------------------- MODULE UnixSockets -----------------------------
(***************************************************************************)
(* Unix domain sockets (ipc/uds.rs).                                       *)
(*                                                                         *)
(* UNIX_SOCKETS has one lock and BOUND_PATHS another, held only inside it  *)
(* or alone for one lookup.  connect and sendto look the path up first and *)
(* take UNIX_SOCKETS after; send reads its peer, releases the lock and     *)
(* takes it again to write to the peer.  Everything else is one step.  A   *)
(* message is the number of its send, the socket and the processor it came *)
(* from; the buffer's bytes are counted in messages.                       *)
(***************************************************************************)
EXTENDS Naturals, Sequences, FiniteSets

CONSTANTS
    UdsCpus,      \* the processors
    UdsPaths,     \* paths a socket may be bound to
    UdsLimit,     \* bound on sockets created in any workload
    UdsBuf,       \* UNIX_SOCKET_BUF_SIZE, in messages
    UdsBacklog,   \* the backlog given to listen
    UdsWorkloads  \* what the processors do: see UdsWorkload

UdsCallNames == {"create", "bind", "listen", "connect", "accept", "send", "recv", "sendto", "recvfrom", "close", "pair"}

(* calls: the calls made; types: of the sockets; sockets, sends: bounds on *)
(* sockets created and on sends; reuse: whether a socket that was          *)
(* connected or listens may be connected or listen again, which the code   *)
(* does not refuse.                                                        *)
UdsWorkload == [calls : SUBSET UdsCallNames, types : SUBSET {"stream", "dgram"},
                sockets : 0 .. UdsLimit, sends : Nat, reuse : BOOLEAN]

ASSUME UdsAssumption ==
    /\ \A w \in UdsWorkloads : w \in UdsWorkload
    /\ UdsLimit \in Nat /\ UdsBuf \in Nat /\ UdsBacklog \in Nat

UdsIds == 1 .. UdsLimit
NoSocket == 0
NoPath == "no path"

VARIABLES
    uds_work,    \* never changes: a member of UdsWorkloads
    uds_sockets, \* UNIX_SOCKETS
    bound_paths, \* BOUND_PATHS
    uds_next,    \* NEXT_UNIX_SOCKET_ID
    uds_pc,      \* the call each processor is between two steps of
    uds_sends,   \* history: number of sends begun
    uds_received \* history: what each socket's recv returned, in order

udsVars == <<uds_work, uds_sockets, bound_paths, uds_next, uds_pc, uds_sends, uds_received>>

(* UnixSocket::new *)
NewSocket(type) ==
    [type |-> type, state |-> "unbound", path |-> NoPath, peer |-> NoSocket,
     buffer |-> <<>>, pending |-> <<>>, backlog |-> UdsBacklog]
NoSuchSocket == [NewSocket("stream") EXCEPT !.state = "none"]

UdsIdle == [op |-> "idle", id |-> NoSocket, peer |-> NoSocket, stamp |-> 0]

UdsInit ==
    /\ uds_work \in UdsWorkloads
    /\ uds_sockets = [i \in UdsIds |-> NoSuchSocket]
    /\ bound_paths = [p \in UdsPaths |-> NoSocket]
    /\ uds_next = 1
    /\ uds_pc = [c \in UdsCpus |-> UdsIdle]
    /\ uds_sends = 0
    /\ uds_received = [i \in UdsIds |-> <<>>]

Live(i) == i # NoSocket /\ uds_sockets[i].state # "none"
UdsCall(c, call) == uds_pc[c].op = "idle" /\ call \in uds_work.calls
UdsReturn(c) == uds_pc' = [uds_pc EXCEPT ![c] = UdsIdle]

(* The socket is new to connect and listen, or programs use sockets again. *)
Usable(i) ==
    \/ uds_work.reuse
    \/ /\ uds_sockets[i].state \in {"unbound", "bound"}
       /\ \A c \in UdsCpus : uds_pc[c].op = "connect" => uds_pc[c].id # i
-----------------------------------------------------------------------------
(* NEXT_UNIX_SOCKET_ID.fetch_add: the next n ids. *)
Fresh(n) == uds_next .. uds_next + n - 1

(* The bound on sockets is not reached. *)
UdsRoom(n) == uds_next + n - 1 <= uds_work.sockets

(* socket_create *)
UdsCreate(c, type) ==
    /\ UdsCall(c, "create") /\ UdsRoom(1)
    /\ \E i \in Fresh(1) : uds_sockets' = [uds_sockets EXCEPT ![i] = NewSocket(type)]
    /\ uds_next' = uds_next + 1
    /\ UNCHANGED <<uds_work, bound_paths, uds_pc, uds_sends, uds_received>>

(* socketpair *)
UdsPair(c, type) ==
    /\ UdsCall(c, "pair") /\ UdsRoom(2)
    /\ \E i, j \in Fresh(2) :
        /\ i < j
        /\ uds_sockets' = [uds_sockets EXCEPT
                ![i] = [NewSocket(type) EXCEPT !.state = "connected", !.peer = j],
                ![j] = [NewSocket(type) EXCEPT !.state = "connected", !.peer = i]]
    /\ uds_next' = uds_next + 2
    /\ UNCHANGED <<uds_work, bound_paths, uds_pc, uds_sends, uds_received>>

(* socket_bind *)
UdsBind(c, i, p) ==
    /\ UdsCall(c, "bind")
    /\ Live(i) /\ uds_sockets[i].state = "unbound" /\ bound_paths[p] = NoSocket
    /\ uds_sockets' = [uds_sockets EXCEPT ![i].state = "bound", ![i].path = p]
    /\ bound_paths' = [bound_paths EXCEPT ![p] = i]
    /\ UNCHANGED <<uds_work, uds_next, uds_pc, uds_sends, uds_received>>

(* socket_listen: whatever the state is. *)
UdsListen(c, i, backlog) ==
    /\ UdsCall(c, "listen")
    /\ Live(i) /\ Usable(i) /\ uds_sockets[i].type = "stream"
    /\ uds_sockets' = [uds_sockets EXCEPT ![i].state = "listening", ![i].backlog = backlog]
    /\ UNCHANGED <<uds_work, bound_paths, uds_next, uds_pc, uds_sends, uds_received>>

(* socket_connect: the id bound to the path, ... *)
UdsConnectLookup(c, i, p) ==
    /\ UdsCall(c, "connect")
    /\ Live(i) /\ Usable(i) /\ bound_paths[p] # NoSocket
    /\ uds_pc' = [uds_pc EXCEPT ![c] = [UdsIdle EXCEPT !.op = "connect", !.id = i, !.peer = bound_paths[p]]]
    /\ UNCHANGED <<uds_work, uds_sockets, bound_paths, uds_next, uds_sends, uds_received>>

(* ... then ECONNREFUSED, EAGAIN, EBADF, or the client is connected to the *)
(* listening socket, and pending there.                                    *)
UdsConnect(c) ==
    LET i == uds_pc[c].id
        peer == uds_pc[c].peer
        listener == uds_sockets[peer]
    IN  /\ uds_pc[c].op = "connect"
        /\ IF listener.state = "listening" /\ Len(listener.pending) < listener.backlog /\ Live(i)
           THEN uds_sockets' = [uds_sockets EXCEPT
                    ![i].state = "connected", ![i].peer = peer,
                    ![peer].pending = Append(@, i)]
           ELSE UNCHANGED uds_sockets
        /\ UdsReturn(c)
        /\ UNCHANGED <<uds_work, bound_paths, uds_next, uds_sends, uds_received>>

(* Mutant: the client keeps the listening socket as its peer. *)
UdsAcceptOneSided(c, i) ==
    LET pending == uds_sockets[i].pending
    IN  /\ UdsCall(c, "accept") /\ UdsRoom(1)
        /\ uds_sockets[i].state = "listening" /\ pending # <<>>
        /\ \E n \in Fresh(1) :
            uds_sockets' = [uds_sockets EXCEPT
                ![i].pending = Tail(@),
                ![n] = [NewSocket(uds_sockets[i].type) EXCEPT !.state = "connected", !.peer = Head(pending)]]
        /\ uds_next' = uds_next + 1
        /\ UNCHANGED <<uds_work, bound_paths, uds_pc, uds_sends, uds_received>>

(* socket_accept: a new socket for the oldest pending client. *)
UdsAccept(c, i) ==
    LET pending == uds_sockets[i].pending
        client == Head(pending)
    IN  /\ UdsCall(c, "accept") /\ UdsRoom(1)
        /\ uds_sockets[i].state = "listening" /\ pending # <<>>
        /\ \E n \in Fresh(1) :
            uds_sockets' = [j \in UdsIds |->
                IF j = n THEN [NewSocket(uds_sockets[i].type) EXCEPT !.state = "connected", !.peer = client]
                ELSE [uds_sockets[j] EXCEPT !.pending = IF j = i THEN Tail(@) ELSE @,
                                            !.peer = IF j = client /\ Live(j) THEN n ELSE @]]
        /\ uds_next' = uds_next + 1
        /\ UNCHANGED <<uds_work, bound_paths, uds_pc, uds_sends, uds_received>>
-----------------------------------------------------------------------------
(* socket_send_with_rights: the peer of a connected socket, ... *)
UdsSendLookup(c, i) ==
    /\ UdsCall(c, "send")
    /\ uds_sends < uds_work.sends
    /\ uds_sockets[i].state = "connected" /\ uds_sockets[i].peer # NoSocket
    /\ uds_pc' = [uds_pc EXCEPT ![c] =
            [op |-> "send", id |-> i, peer |-> uds_sockets[i].peer, stamp |-> uds_sends]]
    /\ uds_sends' = uds_sends + 1
    /\ UNCHANGED <<uds_work, uds_sockets, bound_paths, uds_next, uds_received>>

(* socket_sendto: the id bound to the path, ... *)
UdsSendtoLookup(c, i, p) ==
    /\ UdsCall(c, "sendto")
    /\ uds_sends < uds_work.sends
    /\ Live(i) /\ uds_sockets[i].type = "dgram" /\ bound_paths[p] # NoSocket
    /\ uds_pc' = [uds_pc EXCEPT ![c] =
            [op |-> "send", id |-> i, peer |-> bound_paths[p], stamp |-> uds_sends]]
    /\ uds_sends' = uds_sends + 1
    /\ UNCHANGED <<uds_work, uds_sockets, bound_paths, uds_next, uds_received>>

UdsMessage(c) == [stamp |-> uds_pc[c].stamp, from |-> uds_pc[c].id, by |-> c]

(* ... then EPIPE, EAGAIN, or the message is in the peer's buffer. *)
UdsSend(c) ==
    LET peer == uds_pc[c].peer
    IN  /\ uds_pc[c].op = "send"
        /\ IF Live(peer) /\ Len(uds_sockets[peer].buffer) < UdsBuf
           THEN uds_sockets' = [uds_sockets EXCEPT ![peer].buffer = Append(@, UdsMessage(c))]
           ELSE UNCHANGED uds_sockets
        /\ UdsReturn(c)
        /\ UNCHANGED <<uds_work, bound_paths, uds_next, uds_sends, uds_received>>

(* recv_buffer.pop_front *)
UdsTake(i) ==
    /\ uds_sockets' = [uds_sockets EXCEPT ![i].buffer = Tail(@)]
    /\ uds_received' = [uds_received EXCEPT ![i] = Append(@, Head(uds_sockets[i].buffer))]

(* socket_recv_with_rights: ENOTCONN unless connected. *)
UdsRecv(c, i) ==
    /\ UdsCall(c, "recv")
    /\ uds_sockets[i].state = "connected" /\ uds_sockets[i].buffer # <<>>
    /\ UdsTake(i)
    /\ UNCHANGED <<uds_work, bound_paths, uds_next, uds_pc, uds_sends>>

(* socket_recvfrom: in any state. *)
UdsRecvfrom(c, i) ==
    /\ UdsCall(c, "recvfrom")
    /\ Live(i) /\ uds_sockets[i].type = "dgram" /\ uds_sockets[i].buffer # <<>>
    /\ UdsTake(i)
    /\ UNCHANGED <<uds_work, bound_paths, uds_next, uds_pc, uds_sends>>
-----------------------------------------------------------------------------
(* The peer of a closed socket is closed too. *)
UdsCloseSockets(i) ==
    LET peer == uds_sockets[i].peer
    IN  uds_sockets' = [j \in UdsIds |->
            CASE j = i -> NoSuchSocket
              [] j = peer /\ Live(j) /\ j # i -> [uds_sockets[j] EXCEPT !.peer = NoSocket, !.state = "closed"]
              [] OTHER -> uds_sockets[j]]

(* socket_close *)
UdsClose(c, i) ==
    /\ UdsCall(c, "close")
    /\ Live(i)
    /\ UdsCloseSockets(i)
    /\ bound_paths' = [p \in UdsPaths |-> IF p = uds_sockets[i].path THEN NoSocket ELSE bound_paths[p]]
    /\ UNCHANGED <<uds_work, uds_next, uds_pc, uds_sends, uds_received>>

UdsNext ==
    \E c \in UdsCpus :
        \/ UdsConnect(c) \/ UdsSend(c)
        \/ \E type \in uds_work.types : UdsCreate(c, type) \/ UdsPair(c, type)
        \/ \E i \in UdsIds :
            \/ UdsAccept(c, i) \/ UdsSendLookup(c, i) \/ UdsRecv(c, i) \/ UdsRecvfrom(c, i) \/ UdsClose(c, i)
            \/ \E backlog \in 0 .. UdsBacklog : UdsListen(c, i, backlog)
            \/ \E p \in UdsPaths : UdsBind(c, i, p) \/ UdsConnectLookup(c, i, p) \/ UdsSendtoLookup(c, i, p)

UdsSpec == UdsInit /\ [][UdsNext]_udsVars
-----------------------------------------------------------------------------
UdsType ==
    /\ uds_work \in UdsWorkloads
    /\ \A i \in UdsIds : LET s == uds_sockets[i] IN
        /\ s.type \in {"stream", "dgram"} /\ s.path \in UdsPaths \cup {NoPath}
        /\ s.state \in {"none", "unbound", "bound", "listening", "connected", "closed"}
        /\ s.peer \in UdsIds \cup {NoSocket} /\ s.backlog \in 0 .. UdsBacklog
        /\ \A k \in DOMAIN s.pending : s.pending[k] \in UdsIds
    /\ bound_paths \in [UdsPaths -> UdsIds \cup {NoSocket}]
    /\ uds_next \in 1 .. UdsLimit + 1 /\ uds_sends \in 0 .. uds_work.sends

PendingAt(i, j) == \E k \in DOMAIN uds_sockets[j].pending : uds_sockets[j].pending[k] = i

(* When programs connect a socket once: a connected socket whose peer is   *)
(* there is the peer of that peer, or waits to be accepted by it, whatever *)
(* was closed, accepted or connected on two processors meanwhile.          *)
UdsPeers ==
    ~uds_work.reuse =>
        \A i \in UdsIds :
            uds_sockets[i].state = "connected" /\ Live(uds_sockets[i].peer) =>
                LET j == uds_sockets[i].peer IN
                    \/ uds_sockets[j].state = "connected" /\ uds_sockets[j].peer = i
                    \/ PendingAt(i, j)

(* ... and then what a connected socket holds and has received came from   *)
(* its peer, although a send reads its peer's id, releases the lock and    *)
(* writes to that id later (uds.rs:240).                                   *)
UdsOneSource ==
    ~uds_work.reuse =>
        \A i \in UdsIds : LET s == uds_sockets[i]
                              m == uds_received[i] \o s.buffer IN
            s.state = "connected" /\ s.type = "stream" => \A k \in DOMAIN m : m[k].from = s.peer

(* Messages of one processor are received in the order they were sent. *)
UdsOrdered ==
    \A i \in UdsIds : LET m == uds_received[i] \o uds_sockets[i].buffer IN
        \A k, l \in DOMAIN m : k < l /\ m[k].by = m[l].by => m[k].stamp < m[l].stamp

(* No buffer and no queue of clients grows past its limit, however many    *)
(* send and connect at once.                                               *)
UdsBounded ==
    \A i \in UdsIds : LET s == uds_sockets[i] IN
        /\ Len(s.buffer) <= UdsBuf
        /\ ~uds_work.reuse => Len(s.pending) <= s.backlog

(* A path leads to the live socket that is bound to it, and no two sockets *)
(* are bound to one path.                                                  *)
UdsBoundPaths ==
    \A p \in UdsPaths : \A i \in UdsIds :
        bound_paths[p] = i <=> Live(i) /\ uds_sockets[i].path = p

(* Connections are pairs, what a socket receives came from its peer and in *)
(* order, nothing grows past its limit, and a path leads to the socket     *)
(* bound to it, on two processors that release the lock between their      *)
(* steps.                                                                  *)
UdsSound == UdsType /\ UdsPeers /\ UdsOneSource /\ UdsOrdered /\ UdsBounded /\ UdsBoundPaths
=============================================================================
