------------------------ MODULE MessageQueuesProofs -------------------------
(***************************************************************************)
(* Proofs about MessageQueues, for every number of processors, names,      *)
(* priorities and descriptors.                                             *)
(*                                                                         *)
(* MqInsert gets two lemmas: where the message goes, and what the longer   *)
(* sequence holds.  The first invariant, MqInv, is about locks, open       *)
(* counts and descriptors, and gives MqDescLive and MqNoDeadlock.  On top  *)
(* of it MqStored follows the messages and gives MqOrdered and             *)
(* MqConserved.                                                            *)
(***************************************************************************)
EXTENDS MessageQueues, FiniteSetTheorems, WellFoundedInduction, TLAPS

(* Every nonempty set of places in a queue has a first one. *)
LEMMA FirstPlace ==
    ASSUME NEW T \in SUBSET Nat, T # {}
    PROVE  \E k \in T : \A j \in T : k <= j
<1>1. IsWellFoundedOn(OpToRel(<, Nat), Nat)
  BY NatLessThanWellFounded
<1>2. PICK k \in T : \A j \in T : ~(<<j, k>> \in OpToRel(<, Nat))
  BY <1>1, WFMin
<1>3. \A j \in T : ~(j < k)
  BY <1>2 DEF OpToRel
<1> QED BY <1>3

(* Inserted(s, m, at) is s with m at place at. *)
Inserted(s, m, at) ==
    [i \in 1 .. Len(s) + 1 |-> IF i < at THEN s[i] ELSE IF i = at THEN m ELSE s[i - 1]]

(* mq_send puts a message behind those of its priority or a higher one and *)
(* before the first of a lower one (mqueue.rs:226).                        *)
LEMMA InsertPlace ==
    ASSUME NEW s \in Seq(MqMessage), NEW m \in MqMessage
    PROVE  \E at \in 1 .. Len(s) + 1 :
              /\ MqInsert(s, m) = Inserted(s, m, at)
              /\ \A i \in DOMAIN s : i < at => s[i].priority >= m.priority
              /\ at \in DOMAIN s => s[at].priority < m.priority
<1> DEFINE lower == MqPosition(s, m.priority)
<1>a. MqPriorities \subseteq Nat
  BY MqAssumption
<1>b. DOMAIN s = 1 .. Len(s) /\ Len(s) \in Nat /\ \A i \in DOMAIN s : s[i] \in MqMessage
  OBVIOUS
<1>c. \A x \in MqMessage : x.priority \in Nat
  BY <1>a DEF MqMessage
<1>1. /\ lower \subseteq DOMAIN s /\ DOMAIN s = 1 .. Len(s) /\ Len(s) \in Nat
      /\ \A i \in DOMAIN s : s[i].priority \in Nat
      /\ m.priority \in Nat
  BY <1>b, <1>c DEF MqPosition
<1>2. CASE lower = {}
  <2>1. MqInsert(s, m) = Inserted(s, m, Len(s) + 1)
    BY <1>2 DEF MqInsert, Inserted
  <2> QED BY <1>1, <1>2, <2>1 DEF MqPosition
<1>3. CASE lower # {}
  <2> DEFINE at == CHOOSE i \in lower : \A j \in lower : i <= j
  <2>1. \E i \in lower : \A j \in lower : i <= j
    <3>1. lower \in SUBSET Nat
      BY <1>1
    <3> HIDE DEF lower
    <3> QED BY <1>3, <3>1, FirstPlace
  <2>2. at \in lower /\ \A j \in lower : at <= j
    BY <2>1
  <2>3. MqInsert(s, m) = Inserted(s, m, at)
    BY <1>3 DEF MqInsert, Inserted
  <2>4. at \in 1 .. Len(s) + 1 /\ at \in DOMAIN s
    BY <1>1, <2>2
  <2>5. s[at].priority < m.priority
    BY <2>2 DEF MqPosition
  <2>6. \A i \in DOMAIN s : i < at => s[i].priority >= m.priority
    BY <1>1, <2>2, <2>4, SMTT(30) DEF MqPosition
  <2> QED BY <2>3, <2>4, <2>5, <2>6
<1> QED BY <1>2, <1>3

(* The longer sequence is one of messages, holds the new one and keeps the *)
(* others.                                                                 *)
LEMMA InsertedHolds ==
    ASSUME NEW s \in Seq(MqMessage), NEW m \in MqMessage, NEW at \in 1 .. Len(s) + 1
    PROVE  LET t == Inserted(s, m, at) IN
              /\ t \in Seq(MqMessage)
              /\ Len(t) = Len(s) + 1
              /\ DOMAIN t = 1 .. Len(s) + 1
              /\ Stamps(t) = Stamps(s) \cup {m.stamp}
<1> DEFINE t == Inserted(s, m, at)
<1>1. /\ DOMAIN s = 1 .. Len(s) /\ Len(s) \in Nat
      /\ \A i \in DOMAIN s : s[i] \in MqMessage
  OBVIOUS
<1>2. \A i \in 1 .. Len(s) + 1 : (IF i < at THEN s[i] ELSE IF i = at THEN m ELSE s[i - 1]) \in MqMessage
  BY <1>1
<1>3. t \in [1 .. Len(s) + 1 -> MqMessage]
  BY <1>2 DEF Inserted
<1>4. t \in Seq(MqMessage) /\ Len(t) = Len(s) + 1 /\ DOMAIN t = 1 .. Len(s) + 1
  BY <1>1, <1>3
<1>5. \A i \in DOMAIN t : t[i].stamp \in Stamps(s) \cup {m.stamp}
  BY <1>1, <1>4 DEF Inserted, Stamps
<1>6. t[at] = m
  BY <1>1 DEF Inserted
<1>7. \A i \in DOMAIN s : \E j \in DOMAIN t : t[j] = s[i]
  <2> SUFFICES ASSUME NEW i \in DOMAIN s PROVE \E j \in DOMAIN t : t[j] = s[i]
    OBVIOUS
  <2>1. CASE i < at
    BY <1>1, <1>4, <2>1 DEF Inserted
  <2>2. CASE i >= at
    <3>1. i + 1 \in DOMAIN t /\ t[i + 1] = s[i]
      BY <1>1, <1>4, <2>2 DEF Inserted
    <3> QED BY <3>1
  <2> QED BY <1>1, <2>1, <2>2
<1>8. Stamps(t) = Stamps(s) \cup {m.stamp}
  <2>1. Stamps(t) \subseteq Stamps(s) \cup {m.stamp}
    BY <1>5 DEF Stamps
  <2>2. m.stamp \in Stamps(t)
    BY <1>4, <1>6 DEF Stamps
  <2>3. Stamps(s) \subseteq Stamps(t)
    BY <1>7 DEF Stamps
  <2> QED BY <2>1, <2>2, <2>3
<1> QED BY <1>4, <1>8
-----------------------------------------------------------------------------
(* Locks, counts and descriptors. *)

MqInv == MqType /\ MqHolders /\ MqCounted /\ MqFresh

(* The descriptors of a queue are finitely many, and counted as they are   *)
(* opened and closed.                                                      *)
LEMMA FdsFinite ==
    \A n : IsFiniteSet(OpenFds(n)) /\ Cardinality(OpenFds(n)) \in Nat
<1>1. IsFiniteSet(MqFds)
  BY MqAssumption, FS_Interval DEF MqFds
<1>2. \A n : OpenFds(n) \subseteq MqFds
  BY DEF OpenFds
<1> QED BY <1>1, <1>2, FS_Subset, FS_CardinalityType

LEMMA FdsAdded ==
    ASSUME NEW d \in MqFds, NEW n, NEW q, MqType, mq_descs[d] = Nobody, n # Nobody, q # Nobody,
           mq_descs' = [mq_descs EXCEPT ![d] = n]
    PROVE  Cardinality(OpenFds(q)') = Cardinality(OpenFds(q)) + IF q = n THEN 1 ELSE 0
<1>1. OpenFds(q)' = IF q = n THEN OpenFds(q) \cup {d} ELSE OpenFds(q)
  BY DEF OpenFds, MqType
<1>2. d \notin OpenFds(q)
  BY DEF OpenFds
<1> QED BY <1>1, <1>2, FdsFinite, FS_AddElement

LEMMA FdsRemoved ==
    ASSUME NEW d \in MqFds, NEW q, MqType, mq_descs[d] # Nobody, q # Nobody,
           mq_descs' = [mq_descs EXCEPT ![d] = Nobody]
    PROVE  Cardinality(OpenFds(q)) = Cardinality(OpenFds(q)') + IF mq_descs[d] = q THEN 1 ELSE 0
<1>1. OpenFds(q)' = IF mq_descs[d] = q THEN OpenFds(q) \ {d} ELSE OpenFds(q)
  BY DEF OpenFds, MqType
<1>2. mq_descs[d] = q => d \in OpenFds(q)
  BY DEF OpenFds
<1>3. Cardinality(OpenFds(q)) \in Nat /\ IsFiniteSet(OpenFds(q))
  BY FdsFinite
<1>4. CASE mq_descs[d] = q
  <2>1. Cardinality(OpenFds(q) \ {d}) = Cardinality(OpenFds(q)) - 1
    BY <1>2, <1>3, <1>4, FS_RemoveElement
  <2> QED BY <1>1, <1>3, <1>4, <2>1
<1>5. CASE mq_descs[d] # q
  BY <1>1, <1>3, <1>5
<1> QED BY <1>4, <1>5

(* What a return leaves held. *)
LEMMA Returned ==
    ASSUME MqType, MqHolders, NEW c \in MqCpus, MqReturn(c)
    PROVE  /\ mq_pc' \in [MqCpus -> MqCallState]
           /\ mq_lock' \in [{"queues", "descs"} -> MqCpus \cup {Nobody}]
           /\ mq_lock'.queues = IF mq_lock.queues = c THEN Nobody ELSE mq_lock.queues
           /\ mq_lock'.descs = IF mq_lock.descs = c THEN Nobody ELSE mq_lock.descs
           /\ mq_pc'[c] = MqIdle
           /\ \A b \in MqCpus \ {c} : mq_pc'[b] = mq_pc[b]
           /\ MqIdle.op = "idle"
  BY DEF MqType, MqReturn, MqIdle, MqDoing, MqHolders, MqCallState

LEMMA ReturnHolders ==
    ASSUME MqType, MqHolders, NEW c \in MqCpus, MqReturn(c), UNCHANGED mq_calls
    PROVE  MqHolders'
<1> SUFFICES ASSUME NEW b \in MqCpus
             PROVE  /\ mq_lock'.queues = b <=> mq_pc'[b].op = "open"
                    /\ mq_lock'.descs = b <=> mq_pc'[b].op = "close"
                    /\ mq_pc'[b].op # "idle" => mq_pc'[b].name \in MqNames
                    /\ mq_pc'[b].op \in {"open", "close"} => mq_pc'[b].op \in mq_calls[b]
  BY DEF MqHolders, MqAt
<1>1. /\ mq_lock'.queues = IF mq_lock.queues = c THEN Nobody ELSE mq_lock.queues
      /\ mq_lock'.descs = IF mq_lock.descs = c THEN Nobody ELSE mq_lock.descs
      /\ mq_pc'[c] = MqIdle /\ MqIdle.op = "idle"
      /\ b # c => mq_pc'[b] = mq_pc[b]
  BY Returned
<1>2. b # Nobody
  BY MqAssumption
<1>3. CASE b = c
  BY <1>1, <1>2, <1>3
<1>4. CASE b # c
  BY <1>1, <1>2, <1>4 DEF MqHolders, MqAt
<1> QED BY <1>3, <1>4

(* The counts are right after a step that changes neither descriptors nor  *)
(* counts nor who is closing.                                              *)
LEMMA CountsKept ==
    ASSUME MqCounted, UNCHANGED mq_descs,
           \A n \in MqNames : Closing(n)' = Closing(n),
           \A n \in MqNames : mq_queues'[n].open_count = mq_queues[n].open_count,
           \A n \in MqNames : ~mq_queues'[n].exists => mq_queues'[n] = Absent
    PROVE  MqCounted'
<1> SUFFICES ASSUME NEW n \in MqNames
             PROVE  /\ mq_queues'[n].open_count = Cardinality(OpenFds(n)') + Closing(n)'
                    /\ ~mq_queues'[n].exists => mq_queues'[n] = Absent
  BY DEF MqCounted
<1>1. OpenFds(n)' = OpenFds(n)
  BY DEF OpenFds
<1>2. mq_queues[n].open_count = Cardinality(OpenFds(n)) + Closing(n)
  BY DEF MqCounted
<1> QED BY <1>1, <1>2

LEMMA ClosingKept ==
    ASSUME MqType, MqHolders, NEW c \in MqCpus, MqReturn(c), ~MqAt(c, "close"), NEW n \in MqNames
    PROVE  Closing(n)' = Closing(n)
<1>1. mq_lock.descs # c
  BY DEF MqHolders
<1>2. mq_lock'.descs = mq_lock.descs
  BY <1>1, Returned
<1>3. mq_lock.descs # Nobody => mq_lock.descs \in MqCpus \ {c}
  BY <1>1 DEF MqType
<1>4. mq_lock.descs # Nobody => mq_pc'[mq_lock.descs] = mq_pc[mq_lock.descs]
  BY <1>3, Returned
<1> QED BY <1>2, <1>4 DEF Closing
-----------------------------------------------------------------------------
(* Each action keeps MqInv. *)

LEMMA AbsentQueue == /\ Absent \in MqQueue
                     /\ Absent.open_count = 0 /\ ~Absent.exists /\ Absent.messages = <<>>
  BY DEF Absent, MqQueue

(* A call that starts takes at most the locks it has to itself. *)
LEMMA Started ==
    ASSUME MqType, MqHolders, NEW c \in MqCpus, NEW n \in MqNames, NEW creat \in BOOLEAN, NEW excl \in BOOLEAN,
           NEW op \in {"open", "close", "send", "receive"}, MqCall(c, op), UNCHANGED mq_calls,
           mq_pc' = [mq_pc EXCEPT ![c] = MqDoing(op, n, creat, excl)],
           op = "open" => Unlocked("queues") /\ mq_lock' = [mq_lock EXCEPT !.queues = c],
           op = "close" => Unlocked("descs") /\ mq_lock' = [mq_lock EXCEPT !.descs = c],
           op \notin {"open", "close"} => UNCHANGED mq_lock
    PROVE  /\ mq_pc' \in [MqCpus -> MqCallState]
           /\ mq_lock' \in [{"queues", "descs"} -> MqCpus \cup {Nobody}]
           /\ mq_lock'.queues = IF op = "open" THEN c ELSE mq_lock.queues
           /\ mq_lock'.descs = IF op = "close" THEN c ELSE mq_lock.descs
           /\ mq_pc'[c].op = op /\ mq_pc'[c].name = n /\ mq_pc[c].op = "idle"
           /\ \A b \in MqCpus \ {c} : mq_pc'[b] = mq_pc[b]
           /\ MqHolders'
<1>1. /\ mq_pc' \in [MqCpus -> MqCallState]
      /\ mq_pc'[c] = MqDoing(op, n, creat, excl)
      /\ \A b \in MqCpus \ {c} : mq_pc'[b] = mq_pc[b]
  <2>1. MqDoing(op, n, creat, excl) \in MqCallState
    BY DEF MqDoing, MqCallState
  <2>2. mq_pc \in [MqCpus -> MqCallState]
    BY DEF MqType
  <2> QED BY <2>1, <2>2
<1>2. mq_pc'[c].op = op /\ mq_pc'[c].name = n
  BY <1>1 DEF MqDoing
<1>3. mq_pc[c].op = "idle"
  BY DEF MqCall, MqAt
<1>4. /\ mq_lock' \in [{"queues", "descs"} -> MqCpus \cup {Nobody}]
      /\ mq_lock'.queues = IF op = "open" THEN c ELSE mq_lock.queues
      /\ mq_lock'.descs = IF op = "close" THEN c ELSE mq_lock.descs
  BY DEF MqType
<1>5. MqHolders'
  <2> SUFFICES ASSUME NEW b \in MqCpus
               PROVE  /\ mq_lock'.queues = b <=> mq_pc'[b].op = "open"
                      /\ mq_lock'.descs = b <=> mq_pc'[b].op = "close"
                      /\ mq_pc'[b].op # "idle" => mq_pc'[b].name \in MqNames
                      /\ mq_pc'[b].op \in {"open", "close"} => mq_pc'[b].op \in mq_calls'[b]
    BY DEF MqHolders, MqAt
  <2>1. b # Nobody /\ op \in mq_calls[c]
    BY MqAssumption DEF MqCall
  <2>2. CASE b = c
    BY <1>2, <1>3, <1>4, <2>1, <2>2 DEF MqHolders, MqAt
  <2>3. CASE b # c
    BY <1>1, <1>4, <2>1, <2>3 DEF MqHolders, MqAt, Unlocked
  <2> QED BY <2>2, <2>3
<1> QED BY <1>1, <1>2, <1>3, <1>4, <1>5

LEMMA OpenInv ==
    ASSUME MqInv, NEW c \in MqCpus, NEW n \in MqNames, NEW creat \in BOOLEAN, NEW excl \in BOOLEAN,
           MqOpen(c, n, creat, excl)
    PROVE  MqInv'
<1> USE DEF MqInv
<1>1. /\ mq_pc' \in [MqCpus -> MqCallState]
      /\ mq_lock' \in [{"queues", "descs"} -> MqCpus \cup {Nobody}]
      /\ mq_lock'.descs = mq_lock.descs /\ mq_pc[c].op = "idle"
      /\ \A b \in MqCpus \ {c} : mq_pc'[b] = mq_pc[b]
      /\ MqHolders'
  BY Started DEF MqOpen
<1>3. MqType'
  BY <1>1 DEF MqOpen, MqType
<1>5. MqCounted'
  <2>1. mq_lock.descs # c
    BY <1>1 DEF MqHolders, MqAt
  <2>2. mq_lock.descs # Nobody => mq_pc'[mq_lock.descs] = mq_pc[mq_lock.descs]
    BY <1>1, <2>1 DEF MqType
  <2>3. \A q \in MqNames : Closing(q)' = Closing(q)
    BY <1>1, <2>2 DEF Closing
  <2> QED BY <2>3, CountsKept DEF MqOpen, MqCounted
<1>6. MqFresh'
  BY DEF MqFresh, MqOpen
<1> QED BY <1>1, <1>3, <1>5, <1>6

LEMMA LookupInv ==
    ASSUME MqInv, NEW c \in MqCpus, NEW call \in {"send", "receive"}, NEW d \in MqFds, MqLookup(c, call, d)
    PROVE  MqInv'
<1> USE DEF MqInv
<1>0. mq_descs[d] \in MqNames
  BY DEF MqLookup, MqType
<1>1. /\ mq_pc' \in [MqCpus -> MqCallState]
      /\ mq_lock' = mq_lock /\ mq_pc[c].op = "idle"
      /\ \A b \in MqCpus \ {c} : mq_pc'[b] = mq_pc[b]
      /\ MqHolders'
  BY <1>0, Started DEF MqLookup
<1>2. MqType'
  BY <1>1 DEF MqLookup, MqType
<1>3. MqCounted'
  <2>1. mq_lock.descs # c
    BY <1>1 DEF MqHolders, MqAt
  <2>2. mq_lock.descs # Nobody => mq_pc'[mq_lock.descs] = mq_pc[mq_lock.descs]
    BY <1>1, <2>1 DEF MqType
  <2>3. \A q \in MqNames : Closing(q)' = Closing(q)
    BY <1>1, <2>2 DEF Closing
  <2> QED BY <2>3, CountsKept DEF MqLookup, MqCounted
<1>4. MqFresh'
  BY DEF MqFresh, MqLookup
<1> QED BY <1>1, <1>2, <1>3, <1>4

LEMMA CloseInv ==
    ASSUME MqInv, NEW c \in MqCpus, NEW d \in MqFds, MqClose(c, d)
    PROVE  MqInv'
<1> USE DEF MqInv
<1>0. mq_descs[d] \in MqNames /\ mq_lock.descs = Nobody /\ c # Nobody
  BY MqAssumption DEF MqClose, MqType, Unlocked
<1>1. /\ mq_pc' \in [MqCpus -> MqCallState]
      /\ mq_lock' \in [{"queues", "descs"} -> MqCpus \cup {Nobody}]
      /\ mq_lock'.queues = mq_lock.queues /\ mq_lock'.descs = c
      /\ mq_pc'[c].name = mq_descs[d]
      /\ MqHolders'
  <2>1. /\ MqCall(c, "close") /\ UNCHANGED mq_calls /\ Unlocked("descs")
        /\ mq_pc' = [mq_pc EXCEPT ![c] = MqDoing("close", mq_descs[d], FALSE, FALSE)]
        /\ mq_lock' = [mq_lock EXCEPT !.descs = c]
    BY DEF MqClose
  <2> DEFINE n == mq_descs[d]
  <2>2. n \in MqNames /\ mq_pc' = [mq_pc EXCEPT ![c] = MqDoing("close", n, FALSE, FALSE)]
    BY <1>0, <2>1
  <2> HIDE DEF n
  <2>3. /\ mq_pc' \in [MqCpus -> MqCallState]
        /\ mq_lock' \in [{"queues", "descs"} -> MqCpus \cup {Nobody}]
        /\ mq_lock'.queues = mq_lock.queues /\ mq_lock'.descs = c
        /\ mq_pc'[c].name = n
        /\ MqHolders'
    BY <2>1, <2>2, Started
  <2> QED BY <2>3 DEF n
<1>2. MqType'
  BY <1>0, <1>1 DEF MqClose, MqType
<1>3. MqCounted'
  <2> SUFFICES ASSUME NEW n \in MqNames
               PROVE  mq_queues'[n].open_count = Cardinality(OpenFds(n)') + Closing(n)'
    BY DEF MqCounted, MqClose
  <2>1. Closing(n) = 0 /\ Closing(n)' = IF mq_descs[d] = n THEN 1 ELSE 0
    BY <1>0, <1>1 DEF Closing
  <2>2. Cardinality(OpenFds(n)) = Cardinality(OpenFds(n)') + IF mq_descs[d] = n THEN 1 ELSE 0
    BY <1>0, FdsRemoved, MqAssumption DEF MqClose
  <2>3. mq_queues'[n].open_count = Cardinality(OpenFds(n)) + Closing(n)
    BY DEF MqCounted, MqClose
  <2>4. Cardinality(OpenFds(n)) \in Nat
    BY FdsFinite
  <2>5. mq_queues'[n].open_count = Cardinality(OpenFds(n))
    BY <2>1, <2>3, <2>4
  <2> QED BY <2>1, <2>2, <2>5
<1>4. MqFresh'
  BY <1>1 DEF MqFresh, MqClose, MqType
<1> QED BY <1>1, <1>2, <1>3, <1>4

LEMMA UnlinkInv ==
    ASSUME MqInv, NEW c \in MqCpus, NEW n \in MqNames, MqUnlink(c, n)
    PROVE  MqInv'
<1> USE DEF MqInv
<1>1. MqHolders' /\ MqFresh'
  BY DEF MqHolders, MqAt, MqFresh, MqUnlink
<1>2. /\ mq_queues' \in [MqNames -> MqQueue]
      /\ \A q \in MqNames : mq_queues'[q].open_count = mq_queues[q].open_count
      /\ \A q \in MqNames : ~mq_queues'[q].exists => mq_queues'[q] = Absent
      /\ mq_done' \subseteq Nat
  <2>1. mq_queues \in [MqNames -> MqQueue] /\ mq_queues[n] \in MqQueue /\ mq_queues[n].exists
    BY DEF MqType, MqUnlink
  <2>2. CASE mq_queues[n].open_count > 0
    <3>1. mq_queues' = [mq_queues EXCEPT ![n].unlink_pending = TRUE] /\ mq_done' = mq_done
      BY <2>2 DEF MqUnlink
    <3>2. [mq_queues[n] EXCEPT !.unlink_pending = TRUE] \in MqQueue
      BY <2>1 DEF MqQueue
    <3> QED BY <2>1, <3>1, <3>2 DEF MqCounted, MqType, MqQueue
  <2>3. CASE ~(mq_queues[n].open_count > 0)
    <3>1. mq_queues[n].open_count = 0
      BY <2>1, <2>3 DEF MqQueue
    <3>2. mq_queues' = [mq_queues EXCEPT ![n] = Absent] /\ mq_done' = mq_done \cup Stamps(mq_queues[n].messages)
      BY <2>3 DEF MqUnlink, MqDrop
    <3>3. Stamps(mq_queues[n].messages) \subseteq Nat
      <4>1. \A i \in DOMAIN mq_queues[n].messages : mq_queues[n].messages[i] \in MqMessage
        BY <2>1 DEF MqQueue
      <4> QED BY <4>1 DEF Stamps, MqMessage
    <3> QED BY <2>1, <3>1, <3>2, <3>3, AbsentQueue DEF MqCounted, MqType
  <2> QED BY <2>2, <2>3
<1>3. MqType'
  BY <1>2 DEF MqType, MqUnlink
<1>4. MqCounted'
  <2>1. \A q \in MqNames : Closing(q)' = Closing(q)
    BY DEF Closing, MqUnlink
  <2> QED BY <1>2, <2>1, CountsKept DEF MqUnlink
<1> QED BY <1>1, <1>3, <1>4

LEMMA OpenBothInv ==
    ASSUME MqInv, NEW c \in MqCpus, MqOpenBoth(c)
    PROVE  MqInv'
<1> USE DEF MqInv
<1> DEFINE n == mq_pc[c].name
           refused == IF mq_queues[n].exists THEN mq_pc[c].creat /\ mq_pc[c].excl ELSE ~mq_pc[c].creat
           opened == MqOpened(mq_queues[n])
<1>1. /\ MqAt(c, "open") /\ ~MqAt(c, "close") /\ n \in MqNames /\ mq_lock.queues = c
      /\ MqReturn(c) /\ UNCHANGED mq_calls
  BY DEF MqOpenBoth, MqHolders, MqAt
<1>2. MqHolders' /\ mq_lock'.queues = Nobody
  BY <1>1, ReturnHolders, Returned
<1>3. \A q \in MqNames : Closing(q)' = Closing(q)
  BY <1>1, ClosingKept
<1>4. next_mqfd \in MqFds /\ mq_descs[next_mqfd] = Nobody
  <2>1. c # Nobody
    BY MqAssumption
  <2>2. next_mqfd \in MqFds
    BY <1>1, <2>1 DEF MqFresh
  <2> QED BY <2>2 DEF MqFresh, MqType
<1>5. /\ mq_pc' \in [MqCpus -> MqCallState]
      /\ mq_lock' \in [{"queues", "descs"} -> MqCpus \cup {Nobody}]
  BY <1>1, Returned
<1>6. CASE refused
  <2>1. UNCHANGED <<mq_queues, mq_descs, next_mqfd, mq_sent, mq_done>>
    BY <1>6 DEF MqOpenBoth
  <2>2. MqType'
    BY <1>1, <1>5, <2>1 DEF MqType
  <2>3. MqCounted'
    BY <1>3, <2>1, CountsKept DEF MqCounted
  <2>4. MqFresh'
    BY <1>2, <2>1 DEF MqFresh
  <2> QED BY <1>2, <2>2, <2>3, <2>4
<1>7. CASE ~refused
  <2>1. /\ mq_queues' = [mq_queues EXCEPT ![n] = opened]
        /\ mq_descs' = [mq_descs EXCEPT ![next_mqfd] = n]
        /\ next_mqfd' = next_mqfd + 1
        /\ UNCHANGED <<mq_sent, mq_done>>
    BY <1>7 DEF MqOpenBoth
  <2>2. mq_queues \in [MqNames -> MqQueue] /\ mq_queues[n] \in MqQueue
    BY <1>1 DEF MqType
  <2>3. opened \in MqQueue /\ opened.exists /\ opened.open_count = mq_queues[n].open_count + 1
    <3>1. CASE mq_queues[n].exists
      <4> DEFINE q == mq_queues[n]
      <4>1. opened = [q EXCEPT !.open_count = q.open_count + 1]
        BY <3>1 DEF MqOpened
      <4>2. q \in MqQueue /\ q.exists
        BY <2>2, <3>1
      <4> HIDE DEF q, opened
      <4>3. opened \in MqQueue /\ opened.exists /\ opened.open_count = q.open_count + 1
        BY <4>1, <4>2 DEF MqQueue
      <4> QED BY <4>3 DEF q
    <3>2. CASE ~mq_queues[n].exists
      <4>1. mq_queues[n].open_count = 0
        BY <1>1, <3>2, AbsentQueue DEF MqCounted
      <4>2. opened = [exists |-> TRUE, messages |-> <<>>, open_count |-> 1, unlink_pending |-> FALSE]
        BY <3>2 DEF MqOpened, Absent
      <4> QED BY <4>1, <4>2 DEF MqQueue
    <3> QED BY <3>1, <3>2
  <2> HIDE DEF opened
  <2>4. MqType'
    <3>1. mq_descs' \in [MqFds -> MqNames \cup {Nobody}]
      BY <1>1, <1>4, <2>1 DEF MqType
    <3>2. next_mqfd' \in Nat \ {0}
      BY <2>1 DEF MqType
    <3>3. mq_queues' \in [MqNames -> MqQueue]
      BY <2>1, <2>2, <2>3
    <3> QED BY <1>1, <1>5, <2>1, <3>1, <3>2, <3>3 DEF MqType
  <2>5. MqCounted'
    <3> SUFFICES ASSUME NEW q \in MqNames
                 PROVE  /\ mq_queues'[q].open_count = Cardinality(OpenFds(q)') + Closing(q)'
                        /\ ~mq_queues'[q].exists => mq_queues'[q] = Absent
      BY DEF MqCounted
    <3>1. n # Nobody /\ q # Nobody
      BY <1>1, MqAssumption
    <3>2. Cardinality(OpenFds(q)') = Cardinality(OpenFds(q)) + IF q = n THEN 1 ELSE 0
      BY <1>4, <2>1, <3>1, FdsAdded
    <3>3. mq_queues'[q].open_count = mq_queues[q].open_count + IF q = n THEN 1 ELSE 0
      BY <1>1, <2>1, <2>2, <2>3 DEF MqQueue
    <3>4. mq_queues[q].open_count = Cardinality(OpenFds(q)) + Closing(q)
      BY DEF MqCounted
    <3>5. Cardinality(OpenFds(q)) \in Nat /\ Closing(q) \in Nat /\ Closing(q)' = Closing(q)
      BY <1>3, FdsFinite DEF Closing
    <3>6. ~mq_queues'[q].exists => mq_queues'[q] = Absent
      BY <1>1, <2>1, <2>2, <2>3 DEF MqCounted
    <3> QED BY <3>2, <3>3, <3>4, <3>5, <3>6
  <2>6. MqFresh'
    BY <1>2, <1>4, <2>1 DEF MqFresh, MqType, MqFds
  <2> QED BY <1>2, <2>4, <2>5, <2>6
<1> QED BY <1>6, <1>7

LEMMA StampsNat ==
    ASSUME NEW t \in Seq(MqMessage)
    PROVE  Stamps(t) \subseteq Nat
<1>1. \A i \in DOMAIN t : t[i] \in MqMessage
  OBVIOUS
<1> QED BY <1>1 DEF Stamps, MqMessage

LEMMA CloseBothInv ==
    ASSUME MqInv, NEW c \in MqCpus, MqCloseBoth(c)
    PROVE  MqInv'
<1> USE DEF MqInv
<1> DEFINE n == mq_pc[c].name
           q == mq_queues[n]
           count == IF q.open_count > 0 THEN q.open_count - 1 ELSE 0
<1>1. /\ MqAt(c, "close") /\ n \in MqNames /\ mq_lock.descs = c /\ c # Nobody
      /\ mq_lock.queues = Nobody
      /\ MqReturn(c) /\ UNCHANGED <<mq_calls, mq_descs, next_mqfd, mq_sent>>
  BY MqAssumption DEF MqCloseBoth, MqHolders, MqAt, Unlocked
<1>2. /\ MqHolders' /\ mq_lock'.queues = Nobody /\ mq_lock'.descs = Nobody
      /\ mq_pc' \in [MqCpus -> MqCallState]
      /\ mq_lock' \in [{"queues", "descs"} -> MqCpus \cup {Nobody}]
  BY <1>1, ReturnHolders, Returned
<1>3. mq_queues \in [MqNames -> MqQueue] /\ q \in MqQueue
  BY <1>1 DEF MqType
<1>4. Closing(n) = 1 /\ \A m \in MqNames \ {n} : Closing(m) = 0
  BY <1>1 DEF Closing
<1>5. q.open_count = Cardinality(OpenFds(n)) + 1 /\ Cardinality(OpenFds(n)) \in Nat
  BY <1>1, <1>4, FdsFinite DEF MqCounted
<1>6. q.exists /\ count = Cardinality(OpenFds(n))
  <2>1. q.open_count # 0 /\ count = Cardinality(OpenFds(n))
    BY <1>5
  <2> QED BY <1>1, <2>1, AbsentQueue DEF MqCounted
<1>7. /\ mq_queues' \in [MqNames -> MqQueue] /\ mq_done' \subseteq Nat
      /\ mq_queues'[n].open_count = count
      /\ ~mq_queues'[n].exists => mq_queues'[n] = Absent
      /\ \A m \in MqNames \ {n} : mq_queues'[m] = mq_queues[m]
  <2>1. CASE count = 0 /\ q.unlink_pending
    <3>1. mq_queues' = [mq_queues EXCEPT ![n] = Absent] /\ mq_done' = mq_done \cup Stamps(q.messages)
      BY <1>6, <2>1 DEF MqCloseBoth, MqDrop
    <3>2. Stamps(q.messages) \subseteq Nat
      BY <1>3, StampsNat DEF MqQueue
    <3> QED BY <1>1, <1>3, <2>1, <3>1, <3>2, AbsentQueue DEF MqType
  <2>2. CASE ~(count = 0 /\ q.unlink_pending)
    <3>1. mq_queues' = [mq_queues EXCEPT ![n].open_count = count] /\ mq_done' = mq_done
      BY <1>6, <2>2 DEF MqCloseBoth
    <3>2. count \in Nat
      BY <1>5, <1>6
    <3> HIDE DEF count
    <3>3. /\ [q EXCEPT !.open_count = count] \in MqQueue
          /\ [q EXCEPT !.open_count = count].open_count = count
          /\ [q EXCEPT !.open_count = count].exists
      BY <1>3, <1>6, <3>2 DEF MqQueue
    <3> QED BY <1>1, <1>3, <3>1, <3>3 DEF MqType
  <2> QED BY <2>1, <2>2
<1>8. MqType'
  BY <1>1, <1>2, <1>7 DEF MqType
<1>9. MqCounted'
  <2> SUFFICES ASSUME NEW m \in MqNames
               PROVE  /\ mq_queues'[m].open_count = Cardinality(OpenFds(m)') + Closing(m)'
                      /\ ~mq_queues'[m].exists => mq_queues'[m] = Absent
    BY DEF MqCounted
  <2>1. Closing(m)' = 0 /\ OpenFds(m)' = OpenFds(m) /\ Cardinality(OpenFds(m)) \in Nat
    BY <1>1, <1>2, FdsFinite DEF Closing, OpenFds
  <2>2. CASE m = n
    BY <1>6, <1>7, <2>1, <2>2
  <2>3. CASE m # n
    <3>1. mq_queues[m].open_count = Cardinality(OpenFds(m)) + Closing(m) /\ Closing(m) = 0
      BY <1>4, <2>3 DEF MqCounted
    <3>2. ~mq_queues'[m].exists => mq_queues'[m] = Absent
      BY <1>7, <2>3 DEF MqCounted
    <3> QED BY <1>7, <2>1, <2>3, <3>1, <3>2
  <2> QED BY <2>2, <2>3
<1>10. MqFresh'
  BY <1>1, <1>2 DEF MqFresh
<1> QED BY <1>2, <1>8, <1>9, <1>10

(* A send or a receive changes no more than the messages of its queue. *)
LEMMA MessagesInv ==
    ASSUME MqInv, NEW c \in MqCpus, ~MqAt(c, "close"), MqReturn(c),
           UNCHANGED <<mq_calls, mq_descs, next_mqfd>>,
           NEW n \in MqNames, NEW t \in Seq(MqMessage),
           \/ UNCHANGED mq_queues
           \/ mq_queues[n].exists /\ mq_queues' = [mq_queues EXCEPT ![n].messages = t],
           mq_sent' \in Nat, mq_done' \subseteq Nat
    PROVE  MqInv'
<1> USE DEF MqInv
<1>1. /\ MqHolders'
      /\ mq_pc' \in [MqCpus -> MqCallState]
      /\ mq_lock' \in [{"queues", "descs"} -> MqCpus \cup {Nobody}]
      /\ mq_lock'.queues # Nobody => mq_lock.queues # Nobody
  BY ReturnHolders, Returned
<1>2. \A q \in MqNames : Closing(q)' = Closing(q)
  BY ClosingKept
<1>3. mq_queues \in [MqNames -> MqQueue] /\ mq_queues[n] \in MqQueue
  BY DEF MqType
<1>4. /\ mq_queues' \in [MqNames -> MqQueue]
      /\ \A q \in MqNames : mq_queues'[q].open_count = mq_queues[q].open_count
      /\ \A q \in MqNames : ~mq_queues'[q].exists => mq_queues'[q] = Absent
  <2>1. CASE UNCHANGED mq_queues
    BY <1>3, <2>1 DEF MqCounted
  <2>2. CASE mq_queues[n].exists /\ mq_queues' = [mq_queues EXCEPT ![n].messages = t]
    <3>1. LET r == [mq_queues[n] EXCEPT !.messages = t] IN
             r \in MqQueue /\ r.exists /\ r.open_count = mq_queues[n].open_count
      BY <1>3, <2>2 DEF MqQueue
    <3> QED BY <1>3, <2>2, <3>1 DEF MqCounted
  <2> QED BY <2>1, <2>2
<1>5. MqType'
  BY <1>1, <1>4 DEF MqType
<1>6. MqCounted'
  BY <1>2, <1>4, CountsKept
<1>7. MqFresh'
  BY <1>1 DEF MqFresh
<1> QED BY <1>1, <1>5, <1>6, <1>7

LEMMA SendInv ==
    ASSUME MqInv, NEW c \in MqCpus, NEW priority \in MqPriorities, NEW fits \in BOOLEAN, MqSend(c, priority, fits)
    PROVE  MqInv'
<1> USE DEF MqInv
<1> DEFINE n == mq_pc[c].name
           m == [priority |-> priority, stamp |-> mq_sent]
           t == MqInsert(mq_queues[n].messages, m)
<1>1. /\ n \in MqNames /\ ~MqAt(c, "close") /\ MqReturn(c)
      /\ UNCHANGED <<mq_calls, mq_descs, next_mqfd, mq_done>>
  BY DEF MqSend, MqHolders, MqAt
<1>2. m \in MqMessage /\ mq_queues[n].messages \in Seq(MqMessage)
  BY <1>1 DEF MqType, MqMessage, MqQueue
<1>3. t \in Seq(MqMessage)
  <2> HIDE DEF m
  <2> QED BY <1>2, InsertPlace, InsertedHolds
<1>4. \/ UNCHANGED mq_queues
      \/ mq_queues[n].exists /\ mq_queues' = [mq_queues EXCEPT ![n].messages = t]
  BY DEF MqSend
<1>5. mq_sent' \in Nat /\ mq_done' \subseteq Nat
  BY <1>1 DEF MqSend, MqType
<1> HIDE DEF n, t
<1> QED BY <1>1, <1>3, <1>4, <1>5, MessagesInv

LEMMA ReceiveInv ==
    ASSUME MqInv, NEW c \in MqCpus, NEW fits \in BOOLEAN, MqReceive(c, fits)
    PROVE  MqInv'
<1> USE DEF MqInv
<1> DEFINE n == mq_pc[c].name
           old == mq_queues[n].messages
           t == IF old = <<>> THEN old ELSE Tail(old)
<1>1. /\ n \in MqNames /\ ~MqAt(c, "close") /\ MqReturn(c)
      /\ UNCHANGED <<mq_calls, mq_descs, next_mqfd, mq_sent>>
  BY DEF MqReceive, MqHolders, MqAt
<1>2. old \in Seq(MqMessage)
  BY <1>1 DEF MqType, MqQueue
<1>3. t \in Seq(MqMessage)
  BY <1>2
<1>4. \/ UNCHANGED mq_queues
      \/ mq_queues[n].exists /\ mq_queues' = [mq_queues EXCEPT ![n].messages = t]
  BY DEF MqReceive
<1>5. mq_sent' \in Nat /\ mq_done' \subseteq Nat
  <2>1. ASSUME old # <<>> PROVE Head(old).stamp \in Nat
    <3>1. old[1] \in MqMessage /\ Head(old) = old[1]
      <4> HIDE DEF old
      <4> QED BY <1>2, <2>1
    <3> QED BY <3>1 DEF MqMessage
  <2> QED BY <1>1, <2>1 DEF MqReceive, MqType
<1> HIDE DEF n, t
<1> QED BY <1>1, <1>3, <1>4, <1>5, MessagesInv

(* The counts of open descriptors, the holders of the two locks and the    *)
(* freshness of descriptors are as the code means them, in every state.    *)
THEOREM MqInvariant == MqSpec => []MqInv
<1>1. MqInit => MqInv
  <2> SUFFICES ASSUME MqInit PROVE MqInv
    OBVIOUS
  <2>1. MqIdle \in MqCallState /\ MqIdle.op = "idle" /\ Nobody \notin MqCpus /\ Nobody \notin MqNames
    BY MqAssumption DEF MqIdle, MqDoing, MqCallState
  <2>2. MqType
    BY <2>1, AbsentQueue DEF MqInit, MqType
  <2>3. MqHolders
    BY <2>1 DEF MqInit, MqHolders, MqAt
  <2>4. MqCounted
    <3> SUFFICES ASSUME NEW n \in MqNames
                 PROVE  mq_queues[n].open_count = Cardinality(OpenFds(n)) + Closing(n)
      BY DEF MqCounted, MqInit
    <3>1. OpenFds(n) = {}
      BY <2>1 DEF OpenFds, MqInit
    <3>2. Cardinality(OpenFds(n)) = 0
      BY <3>1, FS_EmptySet
    <3> QED BY <3>2, AbsentQueue DEF MqInit, Closing
  <2>5. MqFresh
    BY DEF MqFresh, MqInit, MqFds
  <2> QED BY <2>2, <2>3, <2>4, <2>5 DEF MqInv
<1>2. MqInv /\ [MqNext]_mqVars => MqInv'
  <2> SUFFICES ASSUME MqInv, [MqNext]_mqVars PROVE MqInv'
    OBVIOUS
  <2>1. CASE MqNext
    BY <2>1, OpenInv, OpenBothInv, CloseInv, CloseBothInv, UnlinkInv, LookupInv, SendInv, ReceiveInv DEF MqNext, MqStep
  <2>2. CASE UNCHANGED mqVars
    BY <2>2 DEF mqVars, MqInv, MqType, MqHolders, MqAt, MqCounted, OpenFds, Closing, MqFresh
  <2> QED BY <2>1, <2>2
<1> QED BY <1>1, <1>2, PTL DEF MqSpec

(* An open descriptor has its queue (mqueue.rs:163 removes an unlinked     *)
(* queue with the last close only), for any number of processors.          *)
THEOREM DescriptorsLive == MqSpec => []MqDescLive
<1>1. MqInv => MqDescLive
  <2> SUFFICES ASSUME MqInv, NEW d \in MqFds, mq_descs[d] # Nobody
               PROVE  mq_queues[mq_descs[d]].exists
    BY DEF MqDescLive
  <2> DEFINE n == mq_descs[d]
  <2>1. n \in MqNames
    BY DEF MqInv, MqType
  <2>2. d \in OpenFds(n) /\ IsFiniteSet(OpenFds(n)) /\ Cardinality(OpenFds(n)) \in Nat
    BY FdsFinite DEF OpenFds
  <2>3. Cardinality(OpenFds(n)) # 0
    BY <2>2, FS_EmptySet
  <2>4. mq_queues[n].open_count # 0
    <3>1. mq_queues[n].open_count = Cardinality(OpenFds(n)) + Closing(n) /\ Closing(n) \in Nat
      BY <2>1 DEF MqInv, MqCounted, Closing
    <3> QED BY <2>2, <2>3, <3>1
  <2> QED BY <2>1, <2>4, AbsentQueue DEF MqInv, MqCounted
<1> QED BY <1>1, MqInvariant, PTL

(* If no processor opens queues while another closes them, no two wait for *)
(* each other's lock (mqueue.rs:89 and :157 take the locks in opposite     *)
(* orders).                                                                *)
THEOREM NoDeadlock == MqSpec => []MqNoDeadlock
<1>1. MqInv => MqNoDeadlock
  <2> SUFFICES ASSUME MqInv, MqLockOrder, mq_lock.queues # Nobody, mq_lock.descs # Nobody PROVE FALSE
    BY DEF MqNoDeadlock, Unlocked
  <2>1. mq_lock.queues \in MqCpus /\ mq_lock.descs \in MqCpus
    BY DEF MqInv, MqType
  <2>2. MqAt(mq_lock.queues, "open") /\ MqAt(mq_lock.descs, "close")
    BY <2>1 DEF MqInv, MqHolders
  <2>3. "open" \in mq_calls[mq_lock.queues] /\ "close" \in mq_calls[mq_lock.descs]
    BY <2>1, <2>2 DEF MqInv, MqHolders, MqAt
  <2>4. mq_lock.queues # mq_lock.descs
    BY <2>2 DEF MqAt
  <2> QED BY <2>1, <2>3, <2>4 DEF MqLockOrder
<1> QED BY <1>1, MqInvariant, PTL
-----------------------------------------------------------------------------
(* The messages. *)

MqStored == MqOrdered /\ MqConserved

Held(n) == Stamps(mq_queues[n].messages)

Ranked(t) ==
    \A i, j \in DOMAIN t : i < j =>
        \/ t[i].priority > t[j].priority
        \/ t[i].priority = t[j].priority /\ t[i].stamp < t[j].stamp

Distinct(t) == \A i, j \in DOMAIN t : t[i].stamp = t[j].stamp => i = j

(* MqStored, element by element. *)
LEMMA StoredForm ==
    MqStored <=>
        /\ \A n \in MqNames : Ranked(mq_queues[n].messages)
        /\ \A n \in MqNames : Distinct(mq_queues[n].messages) /\ Len(mq_queues[n].messages) <= MqMax
        /\ \A x : x \in 0 .. mq_sent - 1 <=> x \in mq_done \/ \E n \in MqNames : x \in Held(n)
        /\ \A x : \A n \in MqNames : x \in Held(n) => x \notin mq_done
        /\ \A x : \A n, k \in MqNames : x \in Held(n) /\ x \in Held(k) => n = k
<1>1. MqOrdered <=> \A n \in MqNames : Ranked(mq_queues[n].messages)
  BY DEF MqOrdered, Ranked
<1>2. MqConserved <=>
        /\ mq_done \cup UNION {Held(n) : n \in MqNames} = 0 .. mq_sent - 1
        /\ \A n \in MqNames : Held(n) \cap mq_done = {}
        /\ \A n \in MqNames : Len(mq_queues[n].messages) <= MqMax
        /\ \A n \in MqNames : Distinct(mq_queues[n].messages)
        /\ \A n \in MqNames : \A k \in MqNames \ {n} : Held(n) \cap Held(k) = {}
  BY DEF MqConserved, Distinct, Held
<1>3. mq_done \cup UNION {Held(n) : n \in MqNames} = 0 .. mq_sent - 1
        <=> \A x : x \in 0 .. mq_sent - 1 <=> x \in mq_done \/ \E n \in MqNames : x \in Held(n)
  OBVIOUS
<1> QED BY <1>1, <1>2, <1>3 DEF MqStored

(* One queue gets a new sequence of messages, the others keep theirs. *)
LEMMA StoredStep ==
    ASSUME MqType, MqStored, NEW n \in MqNames, NEW t, mq_queues'[n].messages = t,
           \A k \in MqNames \ {n} : mq_queues'[k].messages = mq_queues[k].messages,
           Ranked(t), Distinct(t), Len(t) <= MqMax, Stamps(t) \cap mq_done' = {},
           \/ /\ mq_sent' = mq_sent /\ Stamps(t) \subseteq Held(n)
              /\ mq_done' \cup Stamps(t) = mq_done \cup Held(n)
           \/ /\ mq_sent' = mq_sent + 1 /\ mq_done' = mq_done
              /\ Stamps(t) = Held(n) \cup {mq_sent}
    PROVE  MqStored'
<1>1. /\ \A k \in MqNames : Ranked(mq_queues[k].messages)
      /\ \A k \in MqNames : Distinct(mq_queues[k].messages) /\ Len(mq_queues[k].messages) <= MqMax
      /\ \A x : x \in 0 .. mq_sent - 1 <=> x \in mq_done \/ \E k \in MqNames : x \in Held(k)
      /\ \A x : \A k \in MqNames : x \in Held(k) => x \notin mq_done
      /\ \A x : \A h, k \in MqNames : x \in Held(h) /\ x \in Held(k) => h = k
  BY StoredForm
<1>2. Held(n)' = Stamps(t) /\ \A k \in MqNames \ {n} : Held(k)' = Held(k)
  BY DEF Held
<1>3. \A k \in MqNames : mq_sent \notin Held(k) /\ mq_sent \notin mq_done
  BY <1>1 DEF MqType
<1>4. \A k \in MqNames : Ranked(mq_queues'[k].messages) /\ Distinct(mq_queues'[k].messages)
                           /\ Len(mq_queues'[k].messages) <= MqMax
  BY <1>1
<1>5. \A x : x \in 0 .. mq_sent' - 1 <=> x \in mq_done' \/ \E k \in MqNames : x \in Held(k)'
  <2>1. \A x : (\E k \in MqNames : x \in Held(k)') <=>
              (x \in Stamps(t) \/ \E k \in MqNames \ {n} : x \in Held(k))
    BY <1>2
  <2>2. \A x : (\E k \in MqNames : x \in Held(k)) <=>
              (x \in Held(n) \/ \E k \in MqNames \ {n} : x \in Held(k))
    OBVIOUS
  <2>3. CASE mq_sent' = mq_sent /\ mq_done' \cup Stamps(t) = mq_done \cup Held(n)
    BY <1>1, <2>1, <2>2, <2>3
  <2>4. CASE mq_sent' = mq_sent + 1 /\ mq_done' = mq_done /\ Stamps(t) = Held(n) \cup {mq_sent}
    <3>1. \A x : x \in 0 .. mq_sent' - 1 <=> x \in 0 .. mq_sent - 1 \/ x = mq_sent
      BY <2>4 DEF MqType
    <3> QED BY <1>1, <2>1, <2>2, <2>4, <3>1
  <2> QED BY <2>3, <2>4
<1>6. \A x : \A k \in MqNames : x \in Held(k)' => x \notin mq_done'
  BY <1>1, <1>2
<1>7. \A x : \A h, k \in MqNames : x \in Held(h)' /\ x \in Held(k)' => h = k
  BY <1>1, <1>2, <1>3
<1>8. MqOrdered'
  BY <1>4 DEF MqOrdered, Ranked
<1>9. MqConserved'
  <2>1. mq_done' \cup UNION {Held(k)' : k \in MqNames} = 0 .. mq_sent' - 1
    BY <1>5
  <2>2. \A k \in MqNames : Held(k)' \cap mq_done' = {}
    BY <1>6
  <2>3. \A h \in MqNames : \A k \in MqNames \ {h} : Held(h)' \cap Held(k)' = {}
    BY <1>7
  <2> QED BY <1>4, <2>1, <2>2, <2>3 DEF MqConserved, Held, Distinct
<1> QED BY <1>8, <1>9 DEF MqStored

LEMMA DropStored ==
    ASSUME MqInv, MqStored, NEW n \in MqNames, MqDrop(n), UNCHANGED mq_sent
    PROVE  MqStored'
<1>1. mq_queues \in [MqNames -> MqQueue]
  BY DEF MqInv, MqType
<1>2. mq_queues'[n].messages = <<>> /\ \A k \in MqNames \ {n} : mq_queues'[k].messages = mq_queues[k].messages
  BY <1>1, AbsentQueue DEF MqDrop
<1>3. Ranked(<<>>) /\ Distinct(<<>>) /\ Len(<<>>) <= MqMax /\ Stamps(<<>>) = {}
  BY MqAssumption DEF Ranked, Distinct, Stamps
<1>4. mq_done' \cup Stamps(<<>>) = mq_done \cup Held(n)
  BY <1>3 DEF MqDrop, Held
<1> QED BY <1>2, <1>3, <1>4, StoredStep DEF MqInv

LEMMA KeptStored ==
    ASSUME MqStored, \A n \in MqNames : mq_queues'[n].messages = mq_queues[n].messages, UNCHANGED <<mq_sent, mq_done>>
    PROVE  MqStored'
<1>1. MqOrdered'
  BY DEF MqStored, MqOrdered
<1>2. \A n \in MqNames : Held(n)' = Held(n)
  BY DEF Held
<1>3. MqConserved'
  <2>1. mq_done' \cup UNION {Held(n)' : n \in MqNames} = 0 .. mq_sent' - 1
    <3>1. mq_done \cup UNION {Held(n) : n \in MqNames} = 0 .. mq_sent - 1
      BY DEF MqStored, MqConserved, Held
    <3>2. {Held(n)' : n \in MqNames} = {Held(n) : n \in MqNames}
      BY <1>2
    <3> QED BY <3>1, <3>2
  <2>2. \A n \in MqNames : LET s == mq_queues'[n].messages IN
           /\ Stamps(s) \cap mq_done' = {} /\ Len(s) <= MqMax
           /\ \A i, j \in DOMAIN s : s[i].stamp = s[j].stamp => i = j
           /\ \A m \in MqNames \ {n} : Stamps(s) \cap Stamps(mq_queues'[m].messages) = {}
    BY DEF MqStored, MqConserved
  <2> QED BY <2>1, <2>2 DEF MqConserved, Held
<1> QED BY <1>1, <1>3 DEF MqStored

LEMMA SendStored ==
    ASSUME MqInv, MqStored, NEW c \in MqCpus, NEW priority \in MqPriorities, NEW fits \in BOOLEAN,
           MqSend(c, priority, fits)
    PROVE  MqStored'
<1> DEFINE n == mq_pc[c].name
           old == mq_queues[n].messages
           m == [priority |-> priority, stamp |-> mq_sent]
           t == MqInsert(old, m)
<1>1. n \in MqNames /\ UNCHANGED mq_done
  BY DEF MqSend, MqInv, MqHolders, MqAt
<1>2. /\ mq_queues \in [MqNames -> MqQueue] /\ mq_queues[n] \in MqQueue /\ old \in Seq(MqMessage)
      /\ mq_sent \in Nat /\ m \in MqMessage /\ MqPriorities \subseteq Nat
  BY <1>1, MqAssumption DEF MqInv, MqType, MqQueue, MqMessage
<1>3. CASE UNCHANGED <<mq_queues, mq_sent>>
  BY <1>1, <1>3, KeptStored
<1>4. CASE /\ Len(old) < MqMax
           /\ mq_queues' = [mq_queues EXCEPT ![n].messages = t]
           /\ mq_sent' = mq_sent + 1
  <2>1. mq_queues'[n].messages = t /\ \A k \in MqNames \ {n} : mq_queues'[k].messages = mq_queues[k].messages
    <3> HIDE DEF t
    <3> QED BY <1>1, <1>2, <1>4 DEF MqQueue
  <2>2. /\ Ranked(old) /\ Distinct(old) /\ mq_sent \notin mq_done
        /\ \A i \in DOMAIN old : old[i].stamp < mq_sent /\ old[i].stamp \in Nat /\ old[i].priority \in Nat
        /\ Held(n) \cap mq_done = {}
    <3>1. /\ Ranked(old) /\ Distinct(old) /\ Held(n) \cap mq_done = {} /\ mq_sent \notin mq_done
          /\ \A x \in Held(n) : x \in 0 .. mq_sent - 1
      BY <1>1, <1>2, StoredForm
    <3>2. \A i \in DOMAIN old : old[i].stamp \in Held(n) /\ old[i] \in MqMessage
      BY <1>2 DEF Held, Stamps
    <3> HIDE DEF old, n
    <3>3. \A i \in DOMAIN old : old[i].stamp \in 0 .. mq_sent - 1
      BY <3>1, <3>2
    <3>4. \A i \in DOMAIN old : old[i].priority \in Nat
      BY <1>2, <3>2 DEF MqMessage
    <3> QED BY <1>2, <3>1, <3>3, <3>4
  <2> HIDE DEF m, old, n
  <2>3. PICK at \in 1 .. Len(old) + 1 :
              /\ t = Inserted(old, m, at)
              /\ \A i \in DOMAIN old : i < at => old[i].priority >= m.priority
              /\ at \in DOMAIN old => old[at].priority < m.priority
    BY <1>2, InsertPlace
  <2>4. Len(t) = Len(old) + 1 /\ DOMAIN t = 1 .. Len(old) + 1 /\ Stamps(t) = Stamps(old) \cup {m.stamp}
    BY <1>2, <2>3, InsertedHolds
  <2>5. m.stamp = mq_sent /\ m.priority \in Nat
    BY <1>2 DEF m
  <2>6. Stamps(t) = Held(n) \cup {mq_sent}
    BY <2>4, <2>5 DEF Held, old
  <2>7. DOMAIN old = 1 .. Len(old) /\ Len(old) \in Nat
    BY <1>2
  <2>8. \A i \in DOMAIN t : t[i] = IF i < at THEN old[i] ELSE IF i = at THEN m ELSE old[i - 1]
    BY <2>3, <2>4 DEF Inserted
  <2>9. \A i \in DOMAIN old : i > at => old[i].priority < m.priority
    BY <2>2, <2>3, <2>5, <2>7 DEF Ranked
  <2> HIDE DEF t
  <2>10. Ranked(t)
    <3> SUFFICES ASSUME NEW i \in DOMAIN t, NEW j \in DOMAIN t, i < j
                 PROVE  \/ t[i].priority > t[j].priority
                        \/ t[i].priority = t[j].priority /\ t[i].stamp < t[j].stamp
      BY DEF Ranked
    <3>1. CASE j < at
      BY <2>2, <2>4, <2>7, <2>8, <3>1 DEF Ranked
    <3>2. CASE j = at
      BY <2>2, <2>3, <2>4, <2>5, <2>7, <2>8, <3>2
    <3>3. CASE j > at /\ i = at
      <4>1. j - 1 \in DOMAIN old /\ t[j] = old[j - 1] /\ t[i] = m /\ j - 1 >= at
        BY <2>4, <2>7, <2>8, <3>3
      <4>2. old[j - 1].priority < m.priority
        <5>1. j - 1 = at \/ j - 1 > at
          BY <2>7, <4>1
        <5> QED BY <2>3, <2>9, <4>1, <5>1
      <4>3. old[j - 1].priority \in Nat
        BY <2>2, <4>1
      <4> QED BY <2>5, <4>1, <4>2, <4>3
    <3>4. CASE j > at /\ i < at
      <4>1. j - 1 \in DOMAIN old /\ t[j] = old[j - 1] /\ i \in DOMAIN old /\ t[i] = old[i] /\ i < j - 1
        BY <2>4, <2>7, <2>8, <3>4
      <4> QED BY <2>2, <4>1 DEF Ranked
    <3>5. CASE j > at /\ i > at
      <4>1. /\ j - 1 \in DOMAIN old /\ t[j] = old[j - 1] /\ i - 1 \in DOMAIN old /\ t[i] = old[i - 1]
            /\ i - 1 < j - 1
        BY <2>4, <2>7, <2>8, <3>5
      <4> QED BY <2>2, <4>1 DEF Ranked
    <3> QED BY <2>4, <2>7, <3>1, <3>2, <3>3, <3>4, <3>5
  <2>11. Distinct(t)
    <3> SUFFICES ASSUME NEW i \in DOMAIN t, NEW j \in DOMAIN t, i < j, t[i].stamp = t[j].stamp
                 PROVE  FALSE
      BY <2>4, <2>7 DEF Distinct
    <3>1. CASE j < at
      BY <2>2, <2>4, <2>7, <2>8, <3>1 DEF Distinct
    <3>2. CASE j = at
      BY <2>2, <2>4, <2>5, <2>7, <2>8, <3>2
    <3>3. CASE j > at /\ i = at
      <4>1. j - 1 \in DOMAIN old /\ t[j] = old[j - 1] /\ t[i] = m
        BY <2>4, <2>7, <2>8, <3>3
      <4> QED BY <1>2, <2>2, <2>5, <4>1
    <3>4. CASE j > at /\ i < at
      <4>1. j - 1 \in DOMAIN old /\ t[j] = old[j - 1] /\ i \in DOMAIN old /\ t[i] = old[i] /\ i # j - 1
        BY <2>4, <2>7, <2>8, <3>4
      <4> QED BY <2>2, <4>1 DEF Distinct
    <3>5. CASE j > at /\ i > at
      <4>1. /\ j - 1 \in DOMAIN old /\ t[j] = old[j - 1] /\ i - 1 \in DOMAIN old /\ t[i] = old[i - 1]
            /\ i - 1 # j - 1
        BY <2>4, <2>7, <2>8, <3>5
      <4> QED BY <2>2, <4>1 DEF Distinct
    <3> QED BY <2>4, <2>7, <3>1, <3>2, <3>3, <3>4, <3>5
  <2>12. Len(t) <= MqMax
    BY <1>4, <2>4, <2>7, MqAssumption
  <2>13. Stamps(t) \cap mq_done' = {}
    BY <1>1, <2>2, <2>6
  <2> QED BY <1>1, <1>4, <2>1, <2>6, <2>10, <2>11, <2>12, <2>13, StoredStep DEF MqInv
<1> QED BY <1>3, <1>4 DEF MqSend

LEMMA ReceiveStored ==
    ASSUME MqInv, MqStored, NEW c \in MqCpus, NEW fits \in BOOLEAN, MqReceive(c, fits)
    PROVE  MqStored'
<1> DEFINE n == mq_pc[c].name
           old == mq_queues[n].messages
           t == Tail(old)
<1>1. n \in MqNames /\ UNCHANGED mq_sent
  BY DEF MqReceive, MqInv, MqHolders, MqAt
<1>2. mq_queues \in [MqNames -> MqQueue] /\ mq_queues[n] \in MqQueue /\ old \in Seq(MqMessage)
  BY <1>1 DEF MqInv, MqType, MqQueue
<1>3. CASE UNCHANGED <<mq_queues, mq_done>>
  BY <1>1, <1>3, KeptStored
<1>4. CASE /\ old # <<>>
           /\ mq_queues' = [mq_queues EXCEPT ![n].messages = t]
           /\ mq_done' = mq_done \cup {Head(old).stamp}
  <2>1. mq_queues'[n].messages = t /\ \A k \in MqNames \ {n} : mq_queues'[k].messages = mq_queues[k].messages
    <3> HIDE DEF t
    <3> QED BY <1>1, <1>2, <1>4 DEF MqQueue
  <2>2. Ranked(old) /\ Distinct(old) /\ Len(old) <= MqMax /\ Held(n) \cap mq_done = {}
    BY <1>1, <1>2, StoredForm
  <2>3. Held(n) = Stamps(old)
    BY DEF Held
  <2> HIDE DEF old, n
  <2>4. /\ DOMAIN old = 1 .. Len(old) /\ Len(old) \in Nat /\ 1 \in DOMAIN old
        /\ DOMAIN t = 1 .. Len(old) - 1 /\ Len(t) = Len(old) - 1
        /\ \A i \in DOMAIN t : i + 1 \in DOMAIN old /\ t[i] = old[i + 1]
        /\ Head(old) = old[1]
    BY <1>2, <1>4
  <2>5. \A j \in DOMAIN old : j # 1 => j - 1 \in DOMAIN t /\ t[j - 1] = old[j]
    BY <2>4
  <2> HIDE DEF t
  <2>6. Stamps(t) \cup {Head(old).stamp} = Stamps(old)
    <3>1. \A i \in DOMAIN t : t[i].stamp \in Stamps(old)
      BY <2>4 DEF Stamps
    <3>2. Head(old).stamp \in Stamps(old)
      BY <2>4 DEF Stamps
    <3>3. \A j \in DOMAIN old : old[j].stamp = Head(old).stamp \/ old[j].stamp \in Stamps(t)
      BY <2>4, <2>5 DEF Stamps
    <3> QED BY <3>1, <3>2, <3>3 DEF Stamps
  <2>7. Head(old).stamp \notin Stamps(t)
    <3> SUFFICES ASSUME NEW i \in DOMAIN t, t[i].stamp = old[1].stamp PROVE FALSE
      BY <2>4 DEF Stamps
    <3>1. i + 1 = 1
      BY <2>2, <2>4 DEF Distinct
    <3> QED BY <2>4, <3>1
  <2>8. Ranked(t)
    BY <2>2, <2>4 DEF Ranked
  <2>9. Distinct(t)
    <3> SUFFICES ASSUME NEW i \in DOMAIN t, NEW j \in DOMAIN t, t[i].stamp = t[j].stamp PROVE i = j
      BY DEF Distinct
    <3>1. i + 1 = j + 1
      BY <2>2, <2>4 DEF Distinct
    <3> QED BY <2>4, <3>1
  <2>10. Len(t) <= MqMax
    BY <2>2, <2>4, MqAssumption
  <2>11. Stamps(t) \cap mq_done' = {}
    BY <1>4, <2>2, <2>3, <2>6, <2>7
  <2>12. Stamps(t) \subseteq Held(n) /\ mq_done' \cup Stamps(t) = mq_done \cup Held(n)
    BY <1>4, <2>3, <2>6
  <2> QED BY <1>1, <2>1, <2>8, <2>9, <2>10, <2>11, <2>12, StoredStep DEF MqInv
<1> QED BY <1>3, <1>4 DEF MqReceive

(* Every message that was queued is in one place, and the queues are in    *)
(* the order of priority and age.                                          *)
LEMMA MqStoredInvariant == MqSpec => []MqStored
<1>1. MqInit => MqStored
  <2> SUFFICES ASSUME MqInit PROVE MqStored
    OBVIOUS
  <2>1. \A n \in MqNames : mq_queues[n].messages = <<>>
    BY AbsentQueue DEF MqInit
  <2>2. \A n \in MqNames : Ranked(mq_queues[n].messages) /\ Distinct(mq_queues[n].messages)
    BY <2>1 DEF Ranked, Distinct
  <2>3. \A n \in MqNames : Held(n) = {} /\ Len(mq_queues[n].messages) <= MqMax
    BY <2>1, MqAssumption DEF Held, Stamps
  <2>4. mq_done = {} /\ 0 .. mq_sent - 1 = {}
    BY DEF MqInit
  <2> QED BY <2>2, <2>3, <2>4, StoredForm
<1>2. MqInv /\ MqStored /\ [MqNext]_mqVars => MqStored'
  <2> SUFFICES ASSUME MqInv, MqStored, [MqNext]_mqVars PROVE MqStored'
    OBVIOUS
  <2>a. mq_queues \in [MqNames -> MqQueue]
    BY DEF MqInv, MqType
  <2>1. ASSUME NEW c \in MqCpus, MqOpenBoth(c) PROVE MqStored'
    <3> DEFINE n == mq_pc[c].name
    <3>1. n \in MqNames /\ UNCHANGED <<mq_sent, mq_done>>
      BY <2>1 DEF MqOpenBoth, MqInv, MqHolders, MqAt
    <3>2. MqOpened(mq_queues[n]).messages = mq_queues[n].messages
      BY <2>a, <3>1 DEF MqOpened, MqInv, MqCounted, Absent, MqQueue
    <3>3. UNCHANGED mq_queues \/ mq_queues' = [mq_queues EXCEPT ![n] = MqOpened(mq_queues[n])]
      BY <2>1 DEF MqOpenBoth
    <3>4. \A k \in MqNames : mq_queues'[k].messages = mq_queues[k].messages
      BY <2>a, <3>1, <3>2, <3>3
    <3> QED BY <3>1, <3>4, KeptStored
  <2>2. ASSUME NEW c \in MqCpus, MqCloseBoth(c) PROVE MqStored'
    <3> DEFINE n == mq_pc[c].name
    <3>1. n \in MqNames /\ UNCHANGED mq_sent
      BY <2>2 DEF MqCloseBoth, MqInv, MqHolders, MqAt
    <3>2. CASE MqDrop(n)
      BY <3>1, <3>2, DropStored
    <3>3. CASE UNCHANGED <<mq_queues, mq_done>>
      BY <3>1, <3>3, KeptStored
    <3>4. ASSUME NEW count, mq_queues' = [mq_queues EXCEPT ![n].open_count = count], UNCHANGED mq_done
          PROVE  MqStored'
      <4>1. \A k \in MqNames : mq_queues'[k].messages = mq_queues[k].messages
        BY <2>a, <3>1, <3>4 DEF MqQueue
      <4> QED BY <3>1, <3>4, <4>1, KeptStored
    <3> QED BY <2>2, <3>2, <3>3, <3>4 DEF MqCloseBoth
  <2>3. ASSUME NEW c \in MqCpus, NEW n \in MqNames, MqUnlink(c, n) PROVE MqStored'
    <3>1. CASE MqDrop(n)
      BY <2>3, <3>1, DropStored DEF MqUnlink
    <3>2. CASE mq_queues' = [mq_queues EXCEPT ![n].unlink_pending = TRUE] /\ UNCHANGED mq_done
      <4>1. \A k \in MqNames : mq_queues'[k].messages = mq_queues[k].messages
        BY <2>a, <3>2 DEF MqQueue
      <4> QED BY <2>3, <3>2, <4>1, KeptStored DEF MqUnlink
    <3> QED BY <2>3, <3>1, <3>2 DEF MqUnlink
  <2>4. ASSUME UNCHANGED <<mq_queues, mq_sent, mq_done>> PROVE MqStored'
    BY <2>4, KeptStored
  <2>5. ASSUME NEW c \in MqCpus, NEW d \in MqFds, NEW call, MqClose(c, d) \/ MqLookup(c, call, d) PROVE MqStored'
    BY <2>4, <2>5 DEF MqClose, MqLookup
  <2>6. ASSUME NEW c \in MqCpus, NEW n, NEW creat, NEW excl, MqOpen(c, n, creat, excl) PROVE MqStored'
    BY <2>4, <2>6 DEF MqOpen
  <2>7. CASE MqNext
    BY <2>1, <2>2, <2>3, <2>5, <2>6, <2>7, SendStored, ReceiveStored DEF MqNext, MqStep
  <2>8. CASE UNCHANGED mqVars
    BY <2>4, <2>8 DEF mqVars
  <2> QED BY <2>7, <2>8
<1> QED BY <1>1, <1>2, MqInvariant, PTL DEF MqSpec

(* Priority-ordered delivery (mqueue.rs:4, :226), for any number of        *)
(* senders and receivers, priorities and capacities.                       *)
THEOREM Ordered == MqSpec => []MqOrdered
<1>1. MqStored => MqOrdered
  BY DEF MqStored
<1> QED BY <1>1, MqStoredInvariant, PTL

(* No message is lost or received twice (mqueue.rs:204-235, :253), for any *)
(* number of senders and receivers.                                        *)
THEOREM Conserved == MqSpec => []MqConserved
<1>1. MqStored => MqConserved
  BY DEF MqStored
<1> QED BY <1>1, MqStoredInvariant, PTL

(* MqDelivery of the runs: order, conservation and the life of the queues, *)
(* for any number of processors, names, priorities and any capacity        *)
(* (mqueue.rs:80-260).                                                     *)
THEOREM Delivery == MqSpec => []MqDelivery
<1>1. MqInv => MqType
  BY DEF MqInv
<1> QED BY <1>1, MqInvariant, Ordered, Conserved, DescriptorsLive, PTL DEF MqDelivery
=============================================================================
