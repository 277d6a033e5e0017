-------------------------- MODULE NetSocketsProofs --------------------------
(***************************************************************************)
(* NsPeers, NsOneListener and NsReadable for any number of sockets, sends  *)
(* and ports, and every workload.                                          *)
(***************************************************************************)
EXTENDS NetSockets, TLAPS

NsAddr == [ip : {"none", "UNSPECIFIED", "LOOPBACK"}, port : 0 .. NsPortMax]
NsStamp == [src : NsIds, n : Nat]
NsStates == {"none", "Unbound", "Bound", "Listening", "Connected", "Closing"}
NsSock == [type : {"Stream", "Dgram"}, state : NsStates, local : NsAddr, remote : NsAddr, recv_buf : Seq(NsStamp),
           backlog : Seq(NsIds), max_backlog : Nat, peer : NsIds \cup {NoId}, reuseaddr : BOOLEAN]

NsTypes ==
    /\ ns_work \in NsWorkload
    /\ sockets \in [NsIds -> NsSock]
    /\ ns_next \in Nat \ {0} /\ ns_port \in 0 .. NsPortMax
    /\ ns_sends \in [NsIds -> Nat]

(* What the state of a socket tells of it; an id not given out is none. *)
NsForm(i) ==
    /\ i >= ns_next => sockets[i].state = "none"
    /\ sockets[i].peer # NoId => sockets[i].state = "Connected" /\ sockets[i].type = "Stream" /\ sockets[i].peer < ns_next
    /\ sockets[i].peer # i
    /\ sockets[i].state = "Unbound" => sockets[i].local = NoAddr
    /\ sockets[i].state \in {"Bound", "Listening"} => sockets[i].local # NoAddr
    /\ sockets[i].type = "Dgram" => sockets[i].state \notin {"Listening", "Closing"}

(* The other end of a connection is a stream that can receive, or gone. *)
NsPartner(i) ==
    sockets[i].peer # NoId /\ NsLive(sockets[i].peer) =>
        sockets[sockets[i].peer].type = "Stream" /\ sockets[sockets[i].peer].state \in {"Connected", "Closing"}

NsMutual(i) ==
    ~ns_work.again /\ sockets[i].peer # NoId => NsLive(sockets[i].peer) /\ sockets[sockets[i].peer].peer = i

(* Bound streams conflict only if one of them asked for SO_REUSEADDR. *)
NsBoundApart(i, j) ==
    /\ i # j /\ sockets[i].type = "Stream" /\ sockets[j].type = "Stream"
    /\ sockets[i].state \in {"Bound", "Listening"} /\ sockets[j].state \in {"Bound", "Listening"}
    /\ BindConflict(sockets[i].local, sockets[j].local.ip, sockets[j].local.port)
    => sockets[i].reuseaddr \/ sockets[j].reuseaddr

NsReads(i) == NsLive(i) /\ sockets[i].recv_buf # <<>> => CanRecv(i)

NsEach == \A i \in NsIds : NsForm(i) /\ NsPartner(i) /\ NsMutual(i) /\ NsReads(i)
NsApart == \A i, j \in NsIds : NsBoundApart(i, j)
NsInv == NsTypes /\ NsEach /\ NsApart
-----------------------------------------------------------------------------
LEMMA NsNewType ==
    ASSUME NEW type \in {"Stream", "Dgram"}, NEW reuse \in BOOLEAN
    PROVE  NsNew(type, reuse) \in NsSock
BY NsAssumption DEF NsNew, NsSock, NsStates, NsAddr, NoAddr, NoId

LEMMA NsNoneType ==
    /\ NsNone \in NsSock /\ NsNone.state = "none" /\ NsNone.peer = NoId /\ NsNone.type = "Stream"
    /\ NsNone.local = NoAddr
<1>1. NsNew("Stream", FALSE) \in NsSock
  BY NsNewType
<1>2. NsNone \in NsSock
  BY <1>1 DEF NsNone, NsSock, NsStates
<1> QED
  BY <1>2 DEF NsNone, NsNew

LEMMA NsInitInv == NsInit => NsInv
<1> SUFFICES ASSUME NsInit PROVE NsInv
  OBVIOUS
<1>1. NsTypes
  BY NsAssumption, NsNoneType DEF NsInit, NsTypes, NsIds
<1>2. NsEach /\ NsApart
  BY NsNoneType DEF NsInit, NsEach, NsApart, NsForm, NsPartner, NsMutual, NsReads, NsBoundApart, NsLive, NsIds, NoId
<1> QED
  BY <1>1, <1>2 DEF NsInv

(* Only the buffers, the backlogs, the remote addresses and the bounds of  *)
(* backlogs change: what is left to show is what is readable.              *)
LEMMA NsBufferStep ==
    ASSUME NsInv, UNCHANGED <<ns_work, ns_next, ns_port>>, ns_sends' \in [NsIds -> Nat],
           sockets' \in [NsIds -> NsSock],
           \A i \in NsIds : /\ sockets'[i].type = sockets[i].type /\ sockets'[i].state = sockets[i].state
                            /\ sockets'[i].local = sockets[i].local /\ sockets'[i].peer = sockets[i].peer
                            /\ sockets'[i].reuseaddr = sockets[i].reuseaddr
                            /\ CanRecv(i) \/ sockets'[i].recv_buf = sockets[i].recv_buf
    PROVE  NsInv'
<1>1. NsTypes'
  BY DEF NsInv, NsTypes
<1>2. ASSUME NEW i \in NsIds PROVE NsForm(i)'
  BY DEF NsInv, NsEach, NsForm
<1>3. ASSUME NEW i \in NsIds PROVE NsPartner(i)' /\ NsMutual(i)'
  <2>1. NsPartner(i)'
    BY SMTT(30) DEF NsInv, NsEach, NsPartner, NsLive, NsTypes, NsSock
  <2>2. NsMutual(i)'
    BY SMTT(30) DEF NsInv, NsEach, NsMutual, NsLive, NsTypes, NsSock
  <2> QED BY <2>1, <2>2
<1>4. ASSUME NEW i \in NsIds PROVE NsReads(i)'
  BY DEF NsInv, NsEach, NsReads, NsLive, CanRecv
<1>5. NsApart'
  BY DEF NsInv, NsApart, NsBoundApart
<1> QED
  BY <1>1, <1>2, <1>3, <1>4, <1>5 DEF NsInv, NsEach
-----------------------------------------------------------------------------
LEMMA NsSocketStep ==
    ASSUME NsInv, NEW type \in ns_work.types, NEW reuse \in ns_work.reuse, NsSocket(type, reuse)
    PROVE  NsInv'
<1> DEFINE new == NsNew(type, reuse)
<1>1. type \in {"Stream", "Dgram"} /\ reuse \in BOOLEAN /\ ns_work.sockets \in 0 .. NsLimit
  BY DEF NsInv, NsTypes, NsWorkload
<1>2. ns_next \in NsIds
  BY <1>1, NsAssumption DEF NsSocket, NsInv, NsTypes, NsIds
<1>3. /\ new \in NsSock /\ new.state = "Unbound" /\ new.peer = NoId /\ new.local = NoAddr
      /\ new.recv_buf = <<>>
  BY <1>1, NsNewType DEF NsNew
<1>4. /\ sockets' \in [NsIds -> NsSock] /\ sockets'[ns_next] = new
      /\ \A i \in NsIds \ {ns_next} : sockets'[i] = sockets[i]
      /\ ns_next' = ns_next + 1 /\ UNCHANGED <<ns_work, ns_port, ns_sends>>
  BY <1>2, <1>3 DEF NsSocket, NsInv, NsTypes
<1>5. sockets[ns_next].state = "none"
  BY <1>2 DEF NsInv, NsEach, NsForm, NsTypes
<1> HIDE DEF new
<1>6. NsTypes'
  BY <1>4 DEF NsInv, NsTypes
<1>7. ASSUME NEW i \in NsIds PROVE NsForm(i)'
  <2>1. i \in Nat /\ ns_next \in Nat /\ sockets[i].peer \in Nat
    BY NsAssumption DEF NsInv, NsTypes, NsSock, NsIds, NoId
  <2>2. CASE i = ns_next
    BY <2>1, <2>2, <1>3, <1>4 DEF NsForm, NsIds, NoId
  <2>3. CASE i # ns_next
    <3>1. sockets'[i] = sockets[i] /\ NsForm(i)
      BY <2>3, <1>4 DEF NsInv, NsEach
    <3> QED
      BY <3>1, <2>1, <1>4 DEF NsForm
  <2> QED
    BY <2>2, <2>3
<1>8. ASSUME NEW i \in NsIds PROVE NsPartner(i)' /\ NsMutual(i)'
  <2>1. CASE i = ns_next
    BY <2>1, <1>3, <1>4 DEF NsPartner, NsMutual
  <2>2. CASE i # ns_next
    <3>1. /\ sockets'[i] = sockets[i] /\ sockets[i].peer \in NsIds \cup {NoId}
          /\ sockets[i].peer # NoId => sockets'[sockets[i].peer] = sockets[sockets[i].peer]
      BY <2>2, <1>4 DEF NsInv, NsTypes, NsSock, NsEach, NsForm, NsIds
    <3> QED
      BY <3>1, <1>4 DEF NsInv, NsEach, NsPartner, NsMutual, NsLive
  <2> QED
    BY <2>1, <2>2
<1>9. ASSUME NEW i \in NsIds PROVE NsReads(i)'
  BY <1>3, <1>4 DEF NsInv, NsEach, NsReads, NsLive, CanRecv
<1>10. NsApart'
  BY <1>3, <1>4 DEF NsInv, NsApart, NsBoundApart
<1> QED
  BY <1>6, <1>7, <1>8, <1>9, <1>10 DEF NsInv, NsEach

(* sys_bind refuses an address that conflicts, unless the socket that asks *)
(* has SO_REUSEADDR.                                                       *)
LEMMA NsBindStep ==
    ASSUME NsInv, NEW i \in NsIds, NEW ip \in ns_work.ips, NEW asked \in ns_work.ports, NsBind(i, ip, asked)
    PROVE  NsInv'
<1> DEFINE port == IF asked = 0 THEN ns_port ELSE asked
           conflict == ~sockets[i].reuseaddr /\
               \E j \in NsIds \ {i} : NsLive(j) /\ sockets[j].type = sockets[i].type /\ BindConflict(sockets[j].local, ip, port)
<1>1. ip \in {"UNSPECIFIED", "LOOPBACK"} /\ asked \in 0 .. NsPortMax /\ port \in 0 .. NsPortMax
  BY DEF NsInv, NsTypes, NsWorkload
<1>2. NsPortAfter \in 0 .. NsPortMax
  BY NsAssumption DEF NsPortAfter, NsInv, NsTypes
<1>3. ns_port' \in 0 .. NsPortMax /\ UNCHANGED <<ns_work, ns_next, ns_sends>>
  BY <1>2 DEF NsBind, NsInv, NsTypes
<1>4. CASE sockets' = sockets
  BY <1>3, <1>4 DEF NsInv, NsTypes, NsEach, NsApart, NsForm, NsPartner, NsMutual, NsReads, NsBoundApart, NsLive, CanRecv
<1>5. CASE ~conflict /\ sockets[i].state = "Unbound"
                     /\ sockets' = [sockets EXCEPT ![i].local = Inet(ip, port), ![i].state = "Bound"]
  <2>1. Inet(ip, port) \in NsAddr /\ Inet(ip, port) # NoAddr /\ Inet(ip, port).ip = ip /\ Inet(ip, port).port = port
    BY <1>1 DEF Inet, NsAddr, NoAddr
  <2> DEFINE e == [sockets[i] EXCEPT !.local = Inet(ip, port), !.state = "Bound"]
  <2>0. /\ e \in NsSock /\ e.local = Inet(ip, port) /\ e.state = "Bound"
        /\ e.type = sockets[i].type /\ e.peer = sockets[i].peer /\ e.reuseaddr = sockets[i].reuseaddr
        /\ e.recv_buf = sockets[i].recv_buf
        /\ sockets' = [sockets EXCEPT ![i] = e]
    <3>1. sockets[i] \in NsSock
      BY DEF NsInv, NsTypes
    <3>2. sockets' = [sockets EXCEPT ![i] = e]
      BY <1>5
    <3> HIDE DEF port, conflict
    <3> QED
      BY <3>1, <3>2, <2>1 DEF NsSock, NsStates
  <2> HIDE DEF e
  <2>2. /\ sockets' \in [NsIds -> NsSock]
        /\ sockets'[i].local = Inet(ip, port) /\ sockets'[i].state = "Bound"
        /\ \A j \in NsIds \ {i} : sockets'[j] = sockets[j]
        /\ \A j \in NsIds : /\ sockets'[j].type = sockets[j].type /\ sockets'[j].peer = sockets[j].peer
                            /\ sockets'[j].reuseaddr = sockets[j].reuseaddr
                            /\ sockets'[j].recv_buf = sockets[j].recv_buf
    BY <2>0 DEF NsInv, NsTypes
  <2>3. sockets[i].state = "Unbound" /\ sockets[i].peer = NoId
    BY <1>5 DEF NsInv, NsEach, NsForm
  <2>4. sockets[i].reuseaddr \/ \A j \in NsIds \ {i} :
            NsLive(j) /\ sockets[j].type = sockets[i].type => ~BindConflict(sockets[j].local, ip, port)
    BY <1>5
  <2> HIDE DEF port, conflict
  <2>5. NsTypes'
    BY <1>3, <2>2 DEF NsInv, NsTypes
  <2>6. ASSUME NEW j \in NsIds PROVE NsForm(j)'
    BY <1>3, <2>1, <2>2, <2>3 DEF NsInv, NsEach, NsForm
  <2>7. ASSUME NEW j \in NsIds PROVE NsPartner(j)' /\ NsMutual(j)'
    <3>1. sockets[j].peer \in NsIds \cup {NoId} /\ (sockets[j].peer # NoId => NsPartner(j) /\ NsMutual(j))
      BY DEF NsInv, NsTypes, NsSock, NsEach
    <3>2. sockets[j].peer # i
      BY <2>3, <3>1 DEF NsPartner, NsLive, NsIds, NoId
    <3> QED
      BY <1>3, <2>2, <2>3, <3>1, <3>2 DEF NsPartner, NsMutual, NsLive
  <2>8. ASSUME NEW j \in NsIds PROVE NsReads(j)'
    BY <2>2, <2>3 DEF NsInv, NsEach, NsReads, NsLive, CanRecv, NsIds, NoId
  <2>9. ASSUME NEW j \in NsIds, NEW k \in NsIds PROVE NsBoundApart(j, k)'
    <3>1. CASE j # i /\ k # i
      BY <3>1, <2>2 DEF NsInv, NsApart, NsBoundApart
    <3>2. CASE j # i /\ k = i
      BY <3>2, <2>1, <2>2, <2>4 DEF NsBoundApart, NsLive, NsIds, NoId
    <3>3. CASE j = i /\ k # i
      <4>1. sockets[k].state \in {"Bound", "Listening"} => sockets[k].local # NoAddr
        BY DEF NsInv, NsEach, NsForm
      <4> QED
        BY <3>3, <4>1, <2>1, <2>2, <2>4 DEF NsBoundApart, NsLive, NsIds, NoId, BindConflict
    <3> QED
      BY <3>1, <3>2, <3>3 DEF NsBoundApart
  <2> QED
    BY <2>5, <2>6, <2>7, <2>8, <2>9 DEF NsInv, NsEach, NsApart
<1> QED
  BY <1>4, <1>5 DEF NsBind

LEMMA NsListenStep ==
    ASSUME NsInv, NEW i \in NsIds, NEW backlog \in {1, 2}, NsListen(i, backlog)
    PROVE  NsInv'
<1>1. /\ sockets' \in [NsIds -> NsSock] /\ sockets'[i].state = "Listening"
      /\ \A j \in NsIds \ {i} : sockets'[j] = sockets[j]
      /\ \A j \in NsIds : /\ sockets'[j].type = sockets[j].type /\ sockets'[j].peer = sockets[j].peer
                          /\ sockets'[j].local = sockets[j].local /\ sockets'[j].reuseaddr = sockets[j].reuseaddr
                          /\ sockets'[j].recv_buf = sockets[j].recv_buf
      /\ UNCHANGED <<ns_work, ns_next, ns_port, ns_sends>>
  BY DEF NsListen, NsInv, NsTypes, NsSock, NsStates
<1>2. sockets[i].state = "Bound" /\ sockets[i].type = "Stream" /\ sockets[i].recv_buf = <<>> /\ sockets[i].peer = NoId
  BY DEF NsListen, NsInv, NsEach, NsForm, NsReads, NsLive, CanRecv, NsIds, NoId
<1>3. NsTypes'
  BY <1>1 DEF NsInv, NsTypes
<1>4. ASSUME NEW j \in NsIds PROVE NsForm(j)'
  BY <1>1, <1>2 DEF NsInv, NsEach, NsForm
<1>5. ASSUME NEW j \in NsIds PROVE NsPartner(j)' /\ NsMutual(j)'
  <2>1. sockets[j].peer \in NsIds \cup {NoId} /\ (sockets[j].peer # NoId => NsPartner(j) /\ NsMutual(j))
    BY DEF NsInv, NsTypes, NsSock, NsEach
  <2>2. sockets[j].peer # i
    BY <1>2, <2>1 DEF NsPartner, NsLive, NsIds, NoId
  <2> QED
    BY <1>1, <1>2, <2>1, <2>2 DEF NsPartner, NsMutual, NsLive
<1>6. ASSUME NEW j \in NsIds PROVE NsReads(j)'
  BY <1>1, <1>2 DEF NsInv, NsEach, NsReads, NsLive, CanRecv
<1>7. ASSUME NEW j \in NsIds, NEW k \in NsIds PROVE NsBoundApart(j, k)'
  BY <1>1, <1>2 DEF NsInv, NsApart, NsBoundApart
<1> QED
  BY <1>3, <1>4, <1>5, <1>6, <1>7 DEF NsInv, NsEach, NsApart

(* loopback_connect makes two sockets each other's peers: the client had   *)
(* none, unless it was connected before.                                   *)
LEMMA NsConnectStep ==
    ASSUME NsInv, NEW i \in NsIds, NEW l \in NsIds, NEW port \in ns_work.ports, ConnectStream(i, l, port)
    PROVE  NsInv'
<1> DEFINE local == IF sockets[i].state = "Unbound" THEN Inet("LOOPBACK", ns_port) ELSE sockets[i].local
           remote == Inet("LOOPBACK", port)
           new == [NsNew("Stream", FALSE) EXCEPT !.state = "Connected", !.local = sockets[l].local, !.remote = local, !.peer = i]
           e == [sockets[i] EXCEPT !.local = local, !.remote = remote, !.peer = ns_next, !.state = "Connected"]
<1>1. /\ ns_next \in NsIds /\ port \in 0 .. NsPortMax /\ ns_port \in 0 .. NsPortMax
      /\ sockets[i] \in NsSock /\ sockets[l] \in NsSock
  BY NsAssumption DEF ConnectStream, NsInv, NsTypes, NsWorkload, NsIds
<1>2. local \in NsAddr /\ remote \in NsAddr
  BY <1>1 DEF Inet, NsAddr, NsSock
<1>3. /\ sockets[i].state # "none" /\ sockets[i].type = "Stream" /\ sockets[l].state = "Listening"
      /\ ns_work.again \/ sockets[i].state \in {"Unbound", "Bound"}
  BY DEF ConnectStream, NsCall, NsLive, NsMayConnect, First, NsListeners
<1>4. i < ns_next /\ l < ns_next /\ i # ns_next /\ l # ns_next
  BY <1>1, <1>3 DEF NsInv, NsTypes, NsEach, NsForm, NsIds
<1> HIDE DEF local, remote
<1>5. /\ new \in NsSock /\ new.type = "Stream" /\ new.state = "Connected" /\ new.peer = i /\ new.recv_buf = <<>>
      /\ new.reuseaddr = FALSE
  <2>1. NsNew("Stream", FALSE) \in NsSock /\ NsNew("Stream", FALSE).recv_buf = <<>>
    BY NsNewType DEF NsNew
  <2>2. new \in NsSock
    BY <2>1, <1>1, <1>2 DEF NsSock, NsStates
  <2> QED
    BY <2>2 DEF NsNew
<1>6. /\ e \in NsSock /\ e.type = "Stream" /\ e.state = "Connected" /\ e.peer = ns_next
      /\ e.recv_buf = sockets[i].recv_buf /\ e.reuseaddr = sockets[i].reuseaddr
  BY <1>1, <1>2, <1>3 DEF NsSock, NsStates
<1> DEFINE mid == [[sockets EXCEPT ![i] = e] EXCEPT ![ns_next] = new]
           f == [mid[l] EXCEPT !.backlog = Append(sockets[l].backlog, ns_next)]
<1>7. /\ sockets' = [mid EXCEPT ![l] = f] /\ ns_next' = ns_next + 1
      /\ ns_port' = IF sockets[i].state = "Unbound" THEN NsPortAfter ELSE ns_port
      /\ UNCHANGED <<ns_work, ns_sends>>
  <2> DEFINE one == [sockets EXCEPT ![i].local = local, ![i].remote = remote, ![i].peer = ns_next,
                                    ![i].state = "Connected"]
  <2>1. one = [sockets EXCEPT ![i] = e]
    BY <1>1 DEF NsInv, NsTypes, NsSock
  <2>2. sockets' = [[one EXCEPT ![ns_next] = new] EXCEPT ![l].backlog = Append(sockets[l].backlog, ns_next)]
    BY DEF ConnectStream, local, remote
  <2>3. sockets' = [mid EXCEPT ![l].backlog = Append(sockets[l].backlog, ns_next)]
    BY <2>1, <2>2
  <2> HIDE DEF one, mid, e, new
  <2> QED
    BY <2>3 DEF ConnectStream
<1> HIDE DEF new, e
<1>8. mid \in [NsIds -> NsSock] /\ mid[i] = e /\ mid[ns_next] = new
      /\ \A j \in NsIds \ {i, ns_next} : mid[j] = sockets[j]
  BY <1>1, <1>4, <1>5, <1>6 DEF NsInv, NsTypes
<1> HIDE DEF mid
<1>9. /\ f \in NsSock /\ f.type = mid[l].type /\ f.state = mid[l].state /\ f.local = mid[l].local
      /\ f.peer = mid[l].peer /\ f.reuseaddr = mid[l].reuseaddr /\ f.recv_buf = mid[l].recv_buf
  <2>1. mid[l] \in NsSock /\ Append(sockets[l].backlog, ns_next) \in Seq(NsIds)
    BY <1>1, <1>8 DEF NsSock
  <2> QED
    BY <2>1 DEF NsSock
<1> HIDE DEF f
<1>10. /\ sockets' \in [NsIds -> NsSock] /\ sockets'[ns_next] = new
       /\ sockets'[i].type = "Stream" /\ sockets'[i].state = "Connected" /\ sockets'[i].peer = ns_next
  BY <1>1, <1>4, <1>6, <1>7, <1>8, <1>9
<1>11. \A j \in NsIds \ {i, ns_next} :
            /\ sockets'[j].type = sockets[j].type /\ sockets'[j].state = sockets[j].state
            /\ sockets'[j].local = sockets[j].local /\ sockets'[j].peer = sockets[j].peer
            /\ sockets'[j].reuseaddr = sockets[j].reuseaddr /\ sockets'[j].recv_buf = sockets[j].recv_buf
  BY <1>4, <1>7, <1>8, <1>9
<1>12. NsTypes'
  <2>1. NsPortAfter \in 0 .. NsPortMax
    BY NsAssumption DEF NsPortAfter, NsInv, NsTypes
  <2> QED
    BY <1>7, <1>10, <2>1 DEF NsInv, NsTypes
<1>13. \A j \in NsIds : j \in Nat /\ sockets[j].peer \in Nat /\ sockets[j].peer \in NsIds \cup {NoId} /\ ns_next \in Nat
  BY NsAssumption DEF NsInv, NsTypes, NsSock, NsIds, NoId
<1>14. ASSUME NEW j \in NsIds PROVE NsForm(j)'
  <2>1. CASE j = i \/ j = ns_next
    BY <2>1, <1>4, <1>5, <1>7, <1>10, <1>13 DEF NsForm
  <2>2. CASE j # i /\ j # ns_next
    <3>1. NsForm(j)
      BY DEF NsInv, NsEach
    <3> QED
      BY <2>2, <3>1, <1>7, <1>11, <1>13 DEF NsForm
  <2> QED
    BY <2>1, <2>2
<1>15. ASSUME NEW j \in NsIds, sockets'[j].peer # NoId
       PROVE  LET p == sockets'[j].peer
              IN  /\ sockets'[p].state # "none" => sockets'[p].type = "Stream" /\ sockets'[p].state \in {"Connected", "Closing"}
                  /\ ~ns_work.again => sockets'[p].state # "none" /\ sockets'[p].peer = j
  <2>1. CASE j = i \/ j = ns_next
    BY <2>1, <1>1, <1>4, <1>5, <1>10 DEF NsLive, NsIds, NoId
  <2>2. CASE j # i /\ j # ns_next
    <3> DEFINE p == sockets[j].peer
    <3>1. /\ sockets'[j].peer = p /\ p # NoId /\ p \in NsIds /\ p # ns_next
          /\ NsPartner(j) /\ NsMutual(j)
      BY <2>2, <1>11, <1>13, <1>15 DEF NsInv, NsEach, NsForm
    <3>2. CASE p = i
      <4>1. ns_work.again
        <5>1. sockets[i].state \in {"Unbound", "Bound"} => sockets[i].peer = NoId
          BY DEF NsInv, NsEach, NsForm
        <5> QED
          BY <5>1, <3>1, <3>2, <1>3 DEF NsMutual, NsIds, NoId
      <4> QED
        BY <4>1, <3>1, <3>2, <1>10
    <3>3. CASE p # i
      <4>1. /\ sockets'[p].type = sockets[p].type /\ sockets'[p].state = sockets[p].state
            /\ sockets'[p].peer = sockets[p].peer
        BY <3>1, <3>3, <1>11
      <4> HIDE DEF p
      <4> QED
        BY <4>1, <3>1 DEF NsPartner, NsMutual, NsLive, p
    <3> QED
      BY <3>2, <3>3
  <2> QED
    BY <2>1, <2>2
<1>16. ASSUME NEW j \in NsIds PROVE NsPartner(j)' /\ NsMutual(j)'
  BY <1>15, <1>7 DEF NsPartner, NsMutual, NsLive
<1>17. ASSUME NEW j \in NsIds PROVE NsReads(j)'
  BY <1>5, <1>10, <1>11 DEF NsInv, NsEach, NsReads, NsLive, CanRecv
<1>18. ASSUME NEW j \in NsIds, NEW k \in NsIds PROVE NsBoundApart(j, k)'
  BY <1>5, <1>10, <1>11 DEF NsInv, NsApart, NsBoundApart
<1> QED
  BY <1>12, <1>14, <1>16, <1>17, <1>18 DEF NsInv, NsEach, NsApart

LEMMA NsConnectDgramStep ==
    ASSUME NsInv, NEW i \in NsIds, NEW port \in ns_work.ports, ConnectDgram(i, port)
    PROVE  NsInv'
<1> DEFINE local == IF sockets[i].state = "Unbound" THEN Inet("LOOPBACK", ns_port) ELSE sockets[i].local
           remote == Inet("LOOPBACK", port)
           e == [sockets[i] EXCEPT !.local = local, !.remote = remote, !.state = "Connected"]
<1>1. port \in 0 .. NsPortMax /\ ns_port \in 0 .. NsPortMax /\ sockets[i] \in NsSock
  BY DEF NsInv, NsTypes, NsWorkload
<1>2. local \in NsAddr /\ remote \in NsAddr
  BY <1>1 DEF Inet, NsAddr, NsSock
<1>3. sockets[i].state # "none" /\ sockets[i].type = "Dgram" /\ sockets[i].peer = NoId
  BY DEF ConnectDgram, NsCall, NsLive, NsInv, NsEach, NsForm
<1>4. sockets' = [sockets EXCEPT ![i] = e]
  BY <1>1 DEF ConnectDgram, NsSock
<1> HIDE DEF local, remote
<1>5. e \in NsSock /\ e.type = "Dgram" /\ e.state = "Connected" /\ e.peer = NoId
  BY <1>1, <1>2, <1>3 DEF NsSock, NsStates
<1> HIDE DEF e
<1>6. /\ sockets' \in [NsIds -> NsSock] /\ sockets'[i] = e /\ \A j \in NsIds \ {i} : sockets'[j] = sockets[j]
      /\ ns_port' \in 0 .. NsPortMax /\ UNCHANGED <<ns_work, ns_next, ns_sends>>
  <2>1. NsPortAfter \in 0 .. NsPortMax
    BY NsAssumption DEF NsPortAfter, NsInv, NsTypes
  <2>2. ns_port' \in 0 .. NsPortMax /\ UNCHANGED <<ns_work, ns_next, ns_sends>>
    BY <1>1, <2>1 DEF ConnectDgram
  <2> QED
    BY <1>4, <1>5, <2>2 DEF NsInv, NsTypes
<1>7. NsTypes'
  BY <1>6 DEF NsInv, NsTypes
<1>8. ASSUME NEW j \in NsIds PROVE NsForm(j)'
  BY <1>3, <1>5, <1>6 DEF NsInv, NsEach, NsForm
<1>9. ASSUME NEW j \in NsIds PROVE NsPartner(j)' /\ NsMutual(j)'
  <2>1. CASE j = i
    BY <2>1, <1>5, <1>6 DEF NsPartner, NsMutual
  <2>2. CASE j # i
    <3>1. sockets'[j] = sockets[j] /\ sockets[j].peer \in NsIds \cup {NoId} /\ NsPartner(j) /\ NsMutual(j)
      BY <2>2, <1>6 DEF NsInv, NsTypes, NsSock, NsEach
    <3>2. sockets[j].peer # i
      BY <3>1, <1>3 DEF NsPartner, NsLive, NsIds, NoId
    <3>3. sockets[j].peer # NoId => sockets'[sockets[j].peer] = sockets[sockets[j].peer]
      BY <3>1, <3>2, <1>6
    <3> QED
      BY <3>1, <3>3, <1>6 DEF NsPartner, NsMutual, NsLive
  <2> QED
    BY <2>1, <2>2
<1>10. ASSUME NEW j \in NsIds PROVE NsReads(j)'
  BY <1>5, <1>6 DEF NsInv, NsEach, NsReads, NsLive, CanRecv
<1>11. ASSUME NEW j \in NsIds, NEW k \in NsIds PROVE NsBoundApart(j, k)'
  BY <1>5, <1>6 DEF NsInv, NsApart, NsBoundApart
<1> QED
  BY <1>7, <1>8, <1>9, <1>10, <1>11 DEF NsInv, NsEach, NsApart

LEMMA NsAcceptStep ==
    ASSUME NsInv, NEW i \in NsIds, NsAccept(i)
    PROVE  NsInv'
<1> DEFINE e == [sockets[i] EXCEPT !.backlog = Tail(@)]
<1>1. sockets[i] \in NsSock /\ sockets' = [sockets EXCEPT ![i] = e]
  BY DEF NsAccept, NsInv, NsTypes
<1>2. /\ e \in NsSock /\ e.type = sockets[i].type /\ e.state = sockets[i].state /\ e.local = sockets[i].local
      /\ e.peer = sockets[i].peer /\ e.reuseaddr = sockets[i].reuseaddr /\ e.recv_buf = sockets[i].recv_buf
  <2>1. Tail(sockets[i].backlog) \in Seq(NsIds)
    BY <1>1 DEF NsAccept, NsSock
  <2> QED
    BY <1>1, <2>1 DEF NsSock
<1> HIDE DEF e
<1>3. /\ sockets' \in [NsIds -> NsSock] /\ sockets'[i] = e /\ \A j \in NsIds \ {i} : sockets'[j] = sockets[j]
      /\ ns_sends' \in [NsIds -> Nat] /\ UNCHANGED <<ns_work, ns_next, ns_port>>
  BY <1>1, <1>2 DEF NsAccept, NsInv, NsTypes
<1>4. \A j \in NsIds : /\ sockets'[j].type = sockets[j].type /\ sockets'[j].state = sockets[j].state
                      /\ sockets'[j].local = sockets[j].local /\ sockets'[j].peer = sockets[j].peer
                      /\ sockets'[j].reuseaddr = sockets[j].reuseaddr /\ sockets'[j].recv_buf = sockets[j].recv_buf
  BY <1>2, <1>3
<1> QED
  BY <1>3, <1>4, NsBufferStep

(* A send goes to a socket that can receive: the other end of a connection *)
(* or a datagram socket with an address.                                   *)
LEMMA NsDeliverStep ==
    ASSUME NsInv, NEW to \in NsIds, NEW e \in NsSock, sockets' = [sockets EXCEPT ![to] = e], CanRecv(to),
           e.type = sockets[to].type, e.state = sockets[to].state, e.local = sockets[to].local,
           e.peer = sockets[to].peer, e.reuseaddr = sockets[to].reuseaddr,
           ns_sends' \in [NsIds -> Nat], UNCHANGED <<ns_work, ns_next, ns_port>>
    PROVE  NsInv'
<1>1. /\ sockets' \in [NsIds -> NsSock] /\ sockets'[to] = e /\ \A j \in NsIds \ {to} : sockets'[j] = sockets[j]
  BY DEF NsInv, NsTypes
<1>2. \A j \in NsIds : /\ sockets'[j].type = sockets[j].type /\ sockets'[j].state = sockets[j].state
                      /\ sockets'[j].local = sockets[j].local /\ sockets'[j].peer = sockets[j].peer
                      /\ sockets'[j].reuseaddr = sockets[j].reuseaddr
                      /\ (CanRecv(j) \/ sockets'[j].recv_buf = sockets[j].recv_buf)
  BY <1>1
<1> QED
  BY <1>1, <1>2, NsBufferStep

LEMMA NsSendStep ==
    ASSUME NsInv, NEW i \in NsIds, NsSend(i)
    PROVE  NsInv'
<1> DEFINE to == sockets[i].peer
           buf == Append(sockets[to].recv_buf, Stamp(i, to))
           e == [sockets[to] EXCEPT !.recv_buf = buf]
<1>1. to \in NsIds /\ sockets[to] \in NsSock /\ CanRecv(to)
  <2>1. to \in NsIds /\ NsLive(to) /\ to # NoId
    BY DEF NsSend, NsLive, NsInv, NsTypes, NsSock
  <2> QED
    BY <2>1 DEF NsInv, NsTypes, NsEach, NsPartner, CanRecv
<1>2. buf \in Seq(NsStamp)
  BY <1>1 DEF Stamp, NsStamp, NsSock, NsInv, NsTypes
<1>3. /\ sockets' = [sockets EXCEPT ![to] = e] /\ ns_sends' \in [NsIds -> Nat] /\ UNCHANGED <<ns_work, ns_next, ns_port>>
  BY <1>1 DEF NsSend, NsInv, NsTypes
<1> HIDE DEF to, buf
<1>4. /\ e \in NsSock /\ e.type = sockets[to].type /\ e.state = sockets[to].state /\ e.local = sockets[to].local
      /\ e.peer = sockets[to].peer /\ e.reuseaddr = sockets[to].reuseaddr
  BY <1>1, <1>2 DEF NsSock
<1> HIDE DEF e
<1> QED
  BY <1>1, <1>3, <1>4, NsDeliverStep

LEMMA NsSendtoStep ==
    ASSUME NsInv, NEW i \in NsIds, NEW to \in NsIds, NEW port \in ns_work.ports, NsSendto(i, to, port)
    PROVE  NsInv'
<1> DEFINE from == IF sockets[i].local = NoAddr THEN Inet("LOOPBACK", 0) ELSE sockets[i].local
           buf == Append(sockets[to].recv_buf, Stamp(i, to))
           e == [sockets[to] EXCEPT !.recv_buf = buf, !.remote = from]
<1>1. sockets[to] \in NsSock /\ CanRecv(to)
  <2>1. sockets[to] \in NsSock /\ sockets[to].state \in NsStates
    BY DEF NsInv, NsTypes, NsSock
  <2> QED
    BY <2>1 DEF NsSendto, First, Reaches, NsLive, NsInv, NsEach, NsForm, CanRecv, NsStates
<1>2. buf \in Seq(NsStamp) /\ from \in NsAddr
  <2>1. from \in NsAddr
    BY NsAssumption DEF Inet, NsAddr, NsSock, NsInv, NsTypes
  <2> QED
    BY <1>1, <2>1 DEF Stamp, NsStamp, NsSock, NsInv, NsTypes
<1>3. sockets' = [sockets EXCEPT ![to] = e] /\ ns_sends' \in [NsIds -> Nat] /\ UNCHANGED <<ns_work, ns_next, ns_port>>
  <2>1. sockets' = [sockets EXCEPT ![to].recv_buf = buf, ![to].remote = from]
    BY DEF NsSendto
  <2>2. ns_sends' \in [NsIds -> Nat] /\ UNCHANGED <<ns_work, ns_next, ns_port>>
    BY DEF NsSendto, NsInv, NsTypes
  <2> HIDE DEF from, buf
  <2> QED
    BY <1>1, <2>1, <2>2 DEF NsInv, NsTypes, NsSock
<1> HIDE DEF from, buf
<1>4. /\ e \in NsSock /\ e.type = sockets[to].type /\ e.state = sockets[to].state /\ e.local = sockets[to].local
      /\ e.peer = sockets[to].peer /\ e.reuseaddr = sockets[to].reuseaddr
  BY <1>1, <1>2 DEF NsSock
<1> HIDE DEF e
<1> QED
  BY <1>1, <1>3, <1>4, NsDeliverStep

LEMMA NsRecvStep ==
    ASSUME NsInv, NEW i \in NsIds, NsRecv(i)
    PROVE  NsInv'
<1> DEFINE buf == Tail(sockets[i].recv_buf)
           e == [sockets[i] EXCEPT !.recv_buf = buf]
<1>1. sockets[i] \in NsSock /\ CanRecv(i) /\ buf \in Seq(NsStamp)
  BY DEF NsRecv, NsInv, NsTypes, NsSock
<1>2. sockets' = [sockets EXCEPT ![i] = e] /\ ns_sends' \in [NsIds -> Nat] /\ UNCHANGED <<ns_work, ns_next, ns_port>>
  BY DEF NsRecv, NsInv, NsTypes
<1> HIDE DEF buf
<1>3. /\ e \in NsSock /\ e.type = sockets[i].type /\ e.state = sockets[i].state /\ e.local = sockets[i].local
      /\ e.peer = sockets[i].peer /\ e.reuseaddr = sockets[i].reuseaddr
  BY <1>1 DEF NsSock
<1> HIDE DEF e
<1> QED
  BY <1>1, <1>2, <1>3, NsDeliverStep

(* sys_close_socket: the peer can still read what it has, and nobody else  *)
(* has the closed socket for a peer.                                       *)
LEMMA NsCloseStep ==
    ASSUME NsInv, NEW i \in NsIds, NsClose(i)
    PROVE  NsInv'
<1> DEFINE p == sockets[i].peer
           e == [sockets[p] EXCEPT !.peer = NoId, !.state = IF @ = "Connected" THEN "Closing" ELSE @]
<1>1. UNCHANGED <<ns_work, ns_next, ns_port, ns_sends>>
  BY DEF NsClose
<1>2. CASE ~NsLive(p)
  <2>1. /\ sockets' \in [NsIds -> NsSock] /\ sockets'[i] = NsNone
        /\ \A j \in NsIds \ {i} : sockets'[j] = sockets[j]
    BY <1>2, NsNoneType DEF NsClose, NsInv, NsTypes
  <2>2. ASSUME NEW j \in NsIds PROVE NsForm(j)' /\ NsReads(j)'
    BY <1>1, <2>1, NsNoneType DEF NsInv, NsEach, NsForm, NsReads, NsLive, CanRecv, NsIds, NoId
  <2>3. ASSUME NEW j \in NsIds PROVE NsPartner(j)' /\ NsMutual(j)'
    <3>1. CASE j = i
      BY <3>1, <2>1, NsNoneType DEF NsPartner, NsMutual
    <3>2. CASE j # i
      <4>1. sockets'[j] = sockets[j] /\ sockets[j].peer \in NsIds \cup {NoId} /\ NsPartner(j) /\ NsMutual(j) /\ NsMutual(i)
        BY <3>2, <2>1 DEF NsInv, NsTypes, NsSock, NsEach
      <4>2. CASE sockets[j].peer = i
        <5>1. ns_work.again
          BY <4>1, <4>2, <1>2 DEF NsMutual, NsLive, NsIds, NoId
        <5> QED
          BY <5>1, <4>1, <4>2, <2>1, <1>1, NsNoneType DEF NsPartner, NsMutual, NsLive
      <4>3. CASE sockets[j].peer # i
        <5>1. sockets[j].peer # NoId => sockets'[sockets[j].peer] = sockets[sockets[j].peer]
          BY <4>1, <4>3, <2>1
        <5> QED
          BY <5>1, <4>1, <1>1 DEF NsPartner, NsMutual, NsLive
      <4> QED
        BY <4>2, <4>3
    <3> QED
      BY <3>1, <3>2
  <2>4. ASSUME NEW j \in NsIds, NEW k \in NsIds PROVE NsBoundApart(j, k)'
    BY <2>1, NsNoneType DEF NsInv, NsApart, NsBoundApart
  <2> QED
    BY <1>1, <2>1, <2>2, <2>3, <2>4 DEF NsInv, NsTypes, NsEach, NsApart
<1>3. CASE NsLive(p)
  <2>1. p \in NsIds /\ sockets[p] \in NsSock /\ sockets[p].type = "Stream" /\ sockets[p].state \in {"Connected", "Closing"}
        /\ (~ns_work.again => sockets[p].peer = i)
    BY <1>3 DEF NsLive, NsInv, NsTypes, NsSock, NsEach, NsPartner, NsMutual
  <2>2. /\ e \in NsSock /\ e.peer = NoId /\ e.state = "Closing" /\ e.type = "Stream"
    BY <2>1 DEF NsSock, NsStates
  <2>3. p # i
    BY DEF NsInv, NsEach, NsForm
  <2>4. sockets' = [[sockets EXCEPT ![i] = NsNone] EXCEPT ![p] = e]
    <3>1. sockets' = [sockets EXCEPT ![i] = NsNone, ![p].peer = NoId,
                                     ![p].state = IF sockets[p].state = "Connected" THEN "Closing" ELSE sockets[p].state]
      BY <1>3 DEF NsClose
    <3> HIDE DEF p
    <3> QED
      BY <3>1, <2>1, <2>3 DEF NsInv, NsTypes, NsSock
  <2> HIDE DEF e
  <2>5. /\ sockets' \in [NsIds -> NsSock] /\ sockets'[i] = NsNone /\ sockets'[p] = e
        /\ \A j \in NsIds \ {i, p} : sockets'[j] = sockets[j]
    <3> HIDE DEF p
    <3> QED
      BY <2>1, <2>2, <2>3, <2>4, NsNoneType DEF NsInv, NsTypes
  <2>6. ASSUME NEW j \in NsIds PROVE NsForm(j)' /\ NsReads(j)'
    <3>1. NsForm(j) /\ NsReads(j) /\ j # NoId
      BY DEF NsInv, NsEach, NsIds, NoId
    <3> HIDE DEF p
    <3>2. CASE j = i \/ j = p
      BY <3>1, <3>2, <1>1, <2>1, <2>2, <2>5, NsNoneType DEF NsForm, NsReads, NsLive, CanRecv
    <3>3. CASE j # i /\ j # p
      BY <3>1, <3>3, <1>1, <2>5 DEF NsForm, NsReads, NsLive, CanRecv
    <3> QED
      BY <3>2, <3>3
  <2>7. ASSUME NEW j \in NsIds PROVE NsPartner(j)' /\ NsMutual(j)'
    <3>1. CASE j = i \/ j = p
      <4> HIDE DEF p
      <4> QED
        BY <3>1, <2>2, <2>5, NsNoneType DEF NsPartner, NsMutual
    <3>2. CASE j # i /\ j # p
      <4> DEFINE q == sockets[j].peer
      <4>1. sockets'[j] = sockets[j] /\ q \in NsIds \cup {NoId} /\ NsPartner(j) /\ NsMutual(j)
        BY <3>2, <2>5 DEF NsInv, NsTypes, NsSock, NsEach
      <4>2. CASE q = i
        <5>1. ns_work.again
          BY <4>1, <4>2, <3>2 DEF NsMutual, NsIds, NoId
        <5> QED
          BY <5>1, <4>1, <4>2, <2>5, <1>1, NsNoneType DEF NsPartner, NsMutual, NsLive
      <4>3. CASE q = p
        <5>1. ns_work.again
          BY <4>1, <4>3, <3>2, <2>1 DEF NsMutual, NsIds, NoId
        <5>2. sockets'[q].type = "Stream" /\ sockets'[q].state = "Closing"
          BY <4>3, <2>2, <2>5
        <5> QED
          BY <5>1, <5>2, <4>1, <1>1 DEF NsPartner, NsMutual, NsLive
      <4>4. CASE q # i /\ q # p
        <5>1. q # NoId => sockets'[q] = sockets[q]
          BY <4>1, <4>4, <2>5
        <5> QED
          BY <5>1, <4>1, <1>1 DEF NsPartner, NsMutual, NsLive
      <4> QED
        BY <4>2, <4>3, <4>4
    <3> QED
      BY <3>1, <3>2
  <2> HIDE DEF p
  <2>8. ASSUME NEW j \in NsIds, NEW k \in NsIds PROVE NsBoundApart(j, k)'
    BY <2>2, <2>5, NsNoneType DEF NsInv, NsApart, NsBoundApart
  <2> QED
    BY <1>1, <2>5, <2>6, <2>7, <2>8 DEF NsInv, NsTypes, NsEach, NsApart
<1> QED
  BY <1>2, <1>3
-----------------------------------------------------------------------------
LEMMA NsNextInv == ASSUME NsInv, [NsNext]_nsVars PROVE NsInv'
<1>1. CASE UNCHANGED nsVars
  BY <1>1 DEF nsVars, NsInv, NsTypes, NsEach, NsApart, NsForm, NsPartner, NsMutual, NsReads, NsBoundApart, NsLive, CanRecv
<1>2. CASE NsNext
  BY <1>2, NsSocketStep, NsBindStep, NsListenStep, NsConnectStep, NsConnectDgramStep, NsAcceptStep, NsSendStep,
     NsSendtoStep, NsRecvStep, NsCloseStep DEF NsNext
<1> QED
  BY <1>1, <1>2

THEOREM NsInvariance == NsSpec => []NsInv
BY NsInitInv, NsNextInv, PTL DEF NsSpec

(* loopback_connect (net/syscall.rs:85) and sys_close_socket keep the      *)
(* peers of connections symmetric, for any number of sockets.              *)
THEOREM PeersSymmetric == NsSpec => []NsPeers
<1>1. NsInv => NsPeers
  BY DEF NsInv, NsEach, NsMutual, NsPeers
<1> QED
  BY <1>1, NsInvariance, PTL

(* sys_bind (net/syscall.rs:33) leaves at most one listener a connection   *)
(* can reach without SO_REUSEADDR, for any number of sockets and ports.    *)
THEOREM OneListener == NsSpec => []NsOneListener
<1>1. NsInv => NsOneListener
  <2> SUFFICES ASSUME NsInv, NEW i \in NsIds, NEW j \in NsIds, NEW port \in 0 .. NsPortMax,
                      i # j, sockets[i].state = "Listening", sockets[j].state = "Listening",
                      Reaches(i, "LOOPBACK", port), Reaches(j, "LOOPBACK", port)
               PROVE  sockets[i].reuseaddr \/ sockets[j].reuseaddr
    BY DEF NsOneListener
  <2>1. sockets[i].type = "Stream" /\ sockets[j].type = "Stream"
    BY DEF NsInv, NsTypes, NsSock, NsEach, NsForm
  <2>2. BindConflict(sockets[i].local, sockets[j].local.ip, sockets[j].local.port)
    BY DEF Reaches, BindConflict
  <2> QED
    BY <2>1, <2>2 DEF NsInv, NsApart, NsBoundApart
<1> QED
  BY <1>1, NsInvariance, PTL

(* What was delivered can be received (net/socket.rs can_recv), whatever   *)
(* was connected, accepted and closed meanwhile.                           *)
THEOREM BufferedReadable == NsSpec => []NsReadable
<1>1. NsInv => NsReadable
  BY DEF NsInv, NsEach, NsReads, NsReadable
<1> QED
  BY <1>1, NsInvariance, PTL

(* The three together: NsConnections of the runs, for any number of        *)
(* sockets and ports (net/syscall.rs, net/socket.rs).                      *)
THEOREM Connections == NsSpec => []NsConnections
BY PeersSymmetric, OneListener, BufferedReadable, PTL DEF NsConnections
=============================================================================
