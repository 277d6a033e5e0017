----------------------------- MODULE MCNetwork ------------------------------
(***************************************************************************)
(* Unix sockets, Internet sockets on the loopback interface and a TCP      *)
(* connection to a server, each on its own: kind names the one that a      *)
(* behaviour is about, the others stand still.                             *)
(***************************************************************************)
EXTENDS UnixSockets, NetSockets, TcpClient, TLC

CONSTANT Kinds

VARIABLE kind

vars == <<kind, udsVars, nsVars, tcVars>>

(* A service and its clients, a pair of sockets, sockets that are used     *)
(* again, and datagrams.                                                   *)
UdsDoes(calls, type, n, sends, reuse) ==
    [calls |-> calls, types |-> {type}, sockets |-> n, sends |-> sends, reuse |-> reuse]
UdsService == UdsDoes({"create", "bind", "listen", "connect", "accept", "send", "recv", "close"}, "stream", 4, 1, FALSE)
UdsWorks ==
    {UdsService,
     UdsDoes({"pair", "send", "recv", "close"}, "stream", 2, 4, FALSE),
     UdsDoes({"create", "bind", "listen", "connect", "accept", "close"}, "stream", 3, 0, TRUE),
     UdsDoes({"create", "bind", "sendto", "recvfrom", "close"}, "dgram", 2, 3, FALSE)}

(* Three sockets that fight for a port, a client and a server that         *)
(* exchange data, a client that connects again, and datagrams.             *)
NsDoes(calls, type, reuse, ips, ports, n, sends, again) ==
    [calls |-> calls, types |-> {type}, reuse |-> reuse, ips |-> ips, ports |-> ports, sockets |-> n, sends |-> sends, again |-> again]
NsBoth == {"UNSPECIFIED", "LOOPBACK"}
NsExchange == NsDoes(NsCalls, "Stream", {FALSE}, {"UNSPECIFIED"}, {1}, 2, 2, FALSE)
NsWorks ==
    {NsExchange,
     NsDoes({"bind", "listen", "connect", "close"}, "Stream", {FALSE}, NsBoth, {0, 2}, 3, 0, FALSE),
     NsDoes({"bind", "listen", "connect", "close"}, "Stream", BOOLEAN, NsBoth, {2}, 2, 0, FALSE),
     NsDoes(NsCalls, "Stream", {FALSE}, {"UNSPECIFIED"}, {1}, 2, 1, TRUE),
     NsDoes(NsCalls, "Dgram", {TRUE}, NsBoth, {0, 1}, 2, 2, TRUE)}

(* A handshake on the worst network, some data there, and more data on a   *)
(* network that has no faults.                                             *)
TcWorst == {"lose", "duplicate", "reorder"}
TcHandshake == [faults |-> TcWorst, data |-> 0, reset |-> TRUE]
TcNets ==
    {TcHandshake,
     [faults |-> TcWorst, data |-> 1, reset |-> FALSE],
     [faults |-> {}, data |-> 3, reset |-> FALSE]}

Init ==
    /\ kind \in Kinds
    /\ UdsInit /\ (kind # "unix" => uds_work = UdsService)
    /\ NsInit  /\ (kind # "inet" => ns_work = NsExchange)
    /\ TcInit  /\ (kind # "tcp" => tc_net = TcHandshake /\ tc_server.iss = 0)

Next ==
    /\ UNCHANGED kind
    /\ \/ kind = "unix" /\ UdsNext /\ UNCHANGED <<nsVars, tcVars>>
       \/ kind = "inet" /\ NsNext  /\ UNCHANGED <<udsVars, tcVars>>
       \/ kind = "tcp"  /\ TcNext  /\ UNCHANGED <<udsVars, nsVars>>

Spec == Init /\ [][Next]_vars /\ TcFairness
=============================================================================
