------------------------- MODULE TicketLockProofs ---------------------------
(***************************************************************************)
(* The ticket locks are first come, first served, for any number of        *)
(* processors below the modulus of the counters.                           *)
(***************************************************************************)
EXTENDS TicketLock, FiniteSetTheorems, TLAPS

(* Who has a ticket. *)
InLine == {p \in Cpus : at[p] \in {"wait", "served", "held"}}

(* The line is the processors that have a ticket, each once. *)
LineOk ==
  /\ \A i, j \in 1 .. Len(line) : line[i] = line[j] => i = j
  /\ \A i \in 1 .. Len(line) : line[i] \in InLine
  /\ \A p \in InLine : \E i \in 1 .. Len(line) : line[i] = p
  /\ Len(line) = Cardinality(InLine)

(* The tickets out are consecutive, from the one being served. *)
TicketsOk ==
  /\ next_ticket = now_serving + Len(line)
  /\ \A i \in 1 .. Len(line) : ticket[line[i]] = now_serving + i - 1
  /\ \A p \in Cpus : at[p] = "tried" => ticket[p] <= now_serving

OwnerOk ==
  /\ owner \in Cpus => at[owner] \in {"held", "leaving"}
  /\ ~ inner => owner = Nobody /\ \A p \in Cpus : at[p] \notin {"served", "leaving"}

TicketInv == TicketType /\ LineOk /\ TicketsOk /\ OwnerOk /\ TicketFifo

(* Two counter values less than a modulus apart that look the same are the same. *)
LEMMA WordInjective ==
  ASSUME NEW a \in Nat, NEW b \in Nat, a <= b, b < a + Modulus, Word(a) = Word(b)
  PROVE  a = b
<1>1. Modulus \in Nat \ {0}
  BY ModulusAssumption, FS_CardinalityType
<1>2. PICK q \in Int, r \in Int : q = a \div Modulus /\ r = a % Modulus /\ a = Modulus * q + r
  BY <1>1
<1>3. PICK k \in Int : k = b \div Modulus /\ b = Modulus * k + r
  BY <1>1, <1>2 DEF Word
<1>4. b - a = Modulus * (k - q)
  BY <1>1, <1>2, <1>3
<1>5. k - q < 1
  BY <1>1, <1>4, SMT
<1>6. k - q > -1
  BY <1>1, <1>4, SMT
<1> QED
  BY <1>1, <1>4, <1>5, <1>6

LEMMA InLineFinite == IsFiniteSet(InLine) /\ Cardinality(InLine) < Modulus
BY ModulusAssumption, FS_Subset, FS_CardinalityType DEF InLine

LEMMA TicketInitInv == TicketInit => TicketInv
<1> SUFFICES ASSUME TicketInit PROVE TicketInv
  OBVIOUS
<1>1. InLine = {} /\ Len(line) = 0
  BY DEF TicketInit, InLine
<1>2. LineOk
  BY <1>1, FS_EmptySet DEF LineOk
<1>3. TicketType
  BY ModulusAssumption DEF TicketInit, TicketType, Places
<1> QED
  BY <1>1, <1>2, <1>3, ModulusAssumption DEF TicketInit, TicketInv, TicketsOk, OwnerOk, TicketFifo

(* A processor with the next ticket joins at the end. *)
LEMMA Join ==
  ASSUME TicketInv, NEW p \in Cpus, p \notin InLine, NEW place \in {"wait", "served", "held"},
         TakeTicket(p), Goto(p, place), UNCHANGED now_serving,
         ticket' \in [Cpus -> Nat], ticket'[p] = next_ticket,
         \A q \in Cpus \ {p} : ticket'[q] = ticket[q],
         place # "wait" => line = << >>
  PROVE  LineOk' /\ TicketsOk' /\ TicketFifo'
<1> USE DEF TicketInv, TicketType, TakeTicket, Goto
<1>1. /\ Len(line') = Len(line) + 1
      /\ line'[Len(line) + 1] = p
      /\ \A i \in 1 .. Len(line) : line'[i] = line[i]
  OBVIOUS
<1>2. /\ at'[p] = place
      /\ \A q \in Cpus \ {p} : at'[q] = at[q]
  OBVIOUS
<1>3. InLine' = InLine \cup {p}
  BY <1>2 DEF InLine
<1>4. \A i \in 1 .. Len(line) : line[i] \in Cpus \ {p}
  BY DEF LineOk
<1>5. Cardinality(InLine') = Cardinality(InLine) + 1
  BY <1>3, InLineFinite, FS_AddElement
<1>6. LineOk'
  <2>1. \A i, j \in 1 .. Len(line') : line'[i] = line'[j] => i = j
    BY <1>1, <1>4 DEF LineOk
  <2>2. \A i \in 1 .. Len(line') : line'[i] \in InLine'
    BY <1>1, <1>3 DEF LineOk
  <2>3. \A q \in InLine' : \E i \in 1 .. Len(line') : line'[i] = q
    BY <1>1, <1>3 DEF LineOk
  <2> QED
    BY <1>1, <1>5, <2>1, <2>2, <2>3 DEF LineOk
<1>7. TicketsOk'
  <2>1. next_ticket' = now_serving' + Len(line')
    BY <1>1 DEF TicketsOk
  <2>2. \A i \in 1 .. Len(line') : ticket'[line'[i]] = now_serving' + i - 1
    <3> SUFFICES ASSUME NEW i \in 1 .. Len(line') PROVE ticket'[line'[i]] = now_serving' + i - 1
      OBVIOUS
    <3>1. CASE i = Len(line) + 1
      BY <1>1, <3>1 DEF TicketsOk
    <3>2. CASE i \in 1 .. Len(line)
      <4>1. line'[i] = line[i] /\ line[i] \in Cpus \ {p}
        BY <1>1, <1>4, <3>2
      <4>2. ticket'[line[i]] = ticket[line[i]]
        BY <4>1
      <4>3. ticket[line[i]] = now_serving + i - 1
        BY <3>2 DEF TicketsOk
      <4> QED BY <4>1, <4>2, <4>3
    <3> QED
      BY <1>1, <3>1, <3>2
  <2>3. \A q \in Cpus : at'[q] = "tried" => ticket'[q] <= now_serving'
    BY <1>2 DEF TicketsOk
  <2> QED
    BY <2>1, <2>2, <2>3 DEF TicketsOk
<1>8. TicketFifo'
  <2>1. CASE line = << >>
    BY <1>1, <1>2, <2>1 DEF TicketFifo
  <2>2. CASE line # << >>
    <3>1. line' # << >> /\ Head(line') = Head(line)
      BY <2>2
    <3>2. at'[p] = "wait"
      BY <1>2, <2>2
    <3> QED
      BY <1>2, <3>1, <3>2 DEF TicketFifo
  <2> QED
    BY <2>1, <2>2
<1> QED
  BY <1>6, <1>7, <1>8

(* The processor being served leaves at the front. *)
LEMMA Leave ==
  ASSUME TicketInv, NEW p \in Cpus, Unlock(p)
  PROVE  LineOk' /\ TicketsOk' /\ TicketFifo'
<1> USE DEF TicketInv, TicketType, Unlock, Goto
<1>1. line # << >> /\ line[1] = p /\ p \in InLine
  BY DEF TicketFifo, InLine
<1>2. /\ Len(line') = Len(line) - 1
      /\ \A i \in 1 .. Len(line') : line'[i] = line[i + 1]
  BY <1>1
<1>3. /\ at'[p] \in {"leaving", "out"}
      /\ \A q \in Cpus \ {p} : at'[q] = at[q]
  OBVIOUS
<1>4. InLine' = InLine \ {p}
  BY <1>3 DEF InLine
<1>5. \A i \in 1 .. Len(line') : line'[i] \in Cpus \ {p}
  BY <1>1, <1>2 DEF LineOk
<1>6. Cardinality(InLine') = Cardinality(InLine) - 1
  BY <1>1, <1>4, InLineFinite, FS_RemoveElement
<1>7. LineOk'
  <2>1. \A i, j \in 1 .. Len(line') : line'[i] = line'[j] => i = j
    BY <1>1, <1>2 DEF LineOk
  <2>2. \A i \in 1 .. Len(line') : line'[i] \in InLine'
    BY <1>1, <1>2, <1>4, <1>5 DEF LineOk
  <2>3. \A q \in InLine' : \E i \in 1 .. Len(line') : line'[i] = q
    <3> SUFFICES ASSUME NEW q \in InLine' PROVE \E i \in 1 .. Len(line') : line'[i] = q
      OBVIOUS
    <3>1. PICK i \in 1 .. Len(line) : line[i] = q
      BY <1>4 DEF LineOk
    <3>2. i # 1
      BY <1>1, <1>4, <3>1
    <3>3. i - 1 \in 1 .. Len(line') /\ line'[i - 1] = q
      BY <1>2, <3>1, <3>2
    <3> QED
      BY <3>3
  <2> QED
    BY <1>2, <1>6, <2>1, <2>2, <2>3 DEF LineOk
<1>8. TicketsOk'
  BY <1>1, <1>2, <1>3 DEF TicketsOk
<1>9. TicketFifo'
  <2>1. \A q \in Cpus \ {p} : at[q] \notin {"served", "held"}
    BY <1>1 DEF TicketFifo
  <2> QED
    BY <1>3, <2>1 DEF TicketFifo
<1> QED
  BY <1>7, <1>8, <1>9

(* Everything else leaves the line and the counters alone. *)
LEMMA StandStill ==
  ASSUME TicketInv, InLine' = InLine, UNCHANGED <<next_ticket, now_serving, line>>,
         \A q \in InLine : ticket'[q] = ticket[q],
         \A q \in Cpus : at'[q] = "tried" => ticket'[q] <= now_serving
  PROVE  LineOk' /\ TicketsOk'
BY DEF TicketInv, TicketType, LineOk, TicketsOk

LEMMA TicketTypeStep ==
  ASSUME TicketInv, NEW p \in Cpus, Lock(p) \/ TryLoad(p) \/ TicketStep(p)
  PROVE  TicketType'
<1> USE DEF TicketInv, TicketType, Goto, TakeTicket, Places
<1>1. CASE Lock(p)
  BY <1>1 DEF Lock
<1>2. CASE TryLoad(p)
  BY <1>2 DEF TryLoad
<1>3. CASE Served(p)
  BY <1>3 DEF Served
<1>4. CASE TryLock(p)
  <2>1. at' \in [Cpus -> Places] /\ UNCHANGED <<now_serving, inner, owner, ticket>>
    BY <1>4 DEF TryLock
  <2>2. \/ next_ticket' = next_ticket + 1 /\ line' = Append(line, p)
        \/ next_ticket' = next_ticket /\ line' = line
    BY <1>4 DEF TryLock
  <2>3. Append(line, p) \in Seq(Cpus) /\ next_ticket + 1 \in Nat
    OBVIOUS
  <2> QED
    BY <2>1, <2>2, <2>3
<1>5. CASE LockData(p)
  BY <1>5 DEF LockData
<1>6. CASE Unlock(p)
  <2>1. line # << >>
    BY <1>6 DEF Unlock, TicketFifo
  <2>2. line' \in Seq(Cpus)
    BY <1>6, <2>1 DEF Unlock
  <2> QED
    BY <1>6, <2>2 DEF Unlock
<1>7. CASE UnlockData(p)
  BY <1>7 DEF UnlockData
<1> QED
  BY <1>1, <1>2, <1>3, <1>4, <1>5, <1>6, <1>7 DEF TicketStep

LEMMA OwnerStep ==
  ASSUME TicketInv, NEW p \in Cpus, Lock(p) \/ TryLoad(p) \/ TicketStep(p)
  PROVE  OwnerOk'
<1> USE DEF TicketInv, TicketType, Goto, OwnerOk
<1>1. CASE Lock(p) \/ TryLoad(p) \/ Served(p)
  BY <1>1 DEF Lock, TryLoad, Served
<1>2. CASE TryLock(p)
  BY <1>2 DEF TryLock
<1>3. CASE LockData(p)
  BY <1>3 DEF LockData
<1>4. CASE Unlock(p)
  BY <1>4, ModulusAssumption DEF Unlock
<1>5. CASE UnlockData(p)
  BY <1>5, ModulusAssumption DEF UnlockData
<1> QED
  BY <1>1, <1>2, <1>3, <1>4, <1>5 DEF TicketStep

LEMMA LineStep ==
  ASSUME TicketInv, NEW p \in Cpus, Lock(p) \/ TryLoad(p) \/ TicketStep(p)
  PROVE  LineOk' /\ TicketsOk' /\ TicketFifo'
<1> USE DEF TicketInv, TicketType, Goto
<1>1. CASE Lock(p)
  <2>1. p \notin InLine
    BY <1>1 DEF Lock, InLine
  <2>2. /\ ticket' \in [Cpus -> Nat]
        /\ ticket'[p] = next_ticket
        /\ \A q \in Cpus \ {p} : ticket'[q] = ticket[q]
    BY <1>1 DEF Lock
  <2>3. TakeTicket(p) /\ Goto(p, "wait") /\ UNCHANGED now_serving
    BY <1>1 DEF Lock
  <2> QED
    BY <2>1, <2>2, <2>3, Join
<1>2. CASE TryLoad(p)
  <2>1. InLine' = InLine /\ p \notin InLine
    BY <1>2 DEF TryLoad, InLine
  <2>2. TicketFifo'
    BY <1>2 DEF TryLoad, TicketFifo
  <2>3. /\ UNCHANGED <<next_ticket, now_serving, line>>
        /\ \A q \in InLine : ticket'[q] = ticket[q]
        /\ \A q \in Cpus : at'[q] = "tried" => ticket'[q] <= now_serving
    BY <1>2, <2>1 DEF TryLoad, TicketsOk, InLine
  <2> QED
    BY <2>1, <2>2, <2>3, StandStill
<1>3. CASE Served(p)
  <2>1. PICK i \in 1 .. Len(line) : line[i] = p
    BY <1>3 DEF Served, LineOk, InLine
  <2>2. ticket[p] = now_serving + i - 1 /\ i <= Cardinality(InLine)
    BY <2>1 DEF TicketsOk, LineOk
  <2>3. ticket[p] = now_serving
    <3>1. now_serving <= ticket[p] /\ ticket[p] < now_serving + Modulus
      BY <2>1, <2>2, InLineFinite, ModulusAssumption, FS_CardinalityType
    <3> QED
      BY <1>3, <3>1, WordInjective DEF Served
  <2>4. i = 1
    BY <2>2, <2>3
  <2>5. TicketFifo'
    BY <1>3, <2>1, <2>4 DEF Served, TicketFifo
  <2>6. InLine' = InLine
    BY <1>3 DEF Served, InLine
  <2>7. /\ UNCHANGED <<next_ticket, now_serving, line>>
        /\ \A q \in InLine : ticket'[q] = ticket[q]
        /\ \A q \in Cpus : at'[q] = "tried" => ticket'[q] <= now_serving
    BY <1>3 DEF Served, TicketsOk, InLine
  <2> QED
    BY <2>5, <2>6, <2>7, StandStill
<1>4. CASE TryLock(p)
  <2>1. p \notin InLine /\ ticket[p] <= now_serving /\ next_ticket < ticket[p] + Modulus
    BY <1>4 DEF TryLock, InLine, TicketsOk
  <2>2. CASE Word(next_ticket) = Word(ticket[p])
    <3>1. ticket[p] <= next_ticket
      BY <2>1 DEF TicketsOk
    <3>2. ticket[p] = next_ticket
      BY <2>1, <2>2, <3>1, WordInjective
    <3>3. line = << >>
      <4>1. Len(line) = 0
        BY <2>1, <3>2 DEF TicketsOk
      <4> QED
        BY <4>1
    <3>4. PICK place \in {"served", "held"} : Goto(p, place)
      BY <1>4, <2>2 DEF TryLock
    <3>5. TakeTicket(p) /\ UNCHANGED <<now_serving, ticket>>
      BY <1>4, <2>2 DEF TryLock
    <3> QED
      BY <2>1, <3>2, <3>3, <3>4, <3>5, Join
  <2>3. CASE Word(next_ticket) # Word(ticket[p])
    <3>1. InLine' = InLine
      BY <1>4, <2>3 DEF TryLock, InLine
    <3>2. TicketFifo'
      BY <1>4, <2>3 DEF TryLock, TicketFifo
    <3>3. /\ UNCHANGED <<next_ticket, now_serving, line>>
          /\ \A q \in InLine : ticket'[q] = ticket[q]
          /\ \A q \in Cpus : at'[q] = "tried" => ticket'[q] <= now_serving
      BY <1>4, <2>3 DEF TryLock, TicketsOk
    <3> QED
      BY <3>1, <3>2, <3>3, StandStill
  <2> QED
    BY <2>2, <2>3
<1>5. CASE LockData(p) \/ UnlockData(p)
  <2>1. InLine' = InLine
    BY <1>5 DEF LockData, UnlockData, InLine
  <2>2. TicketFifo'
    BY <1>5 DEF LockData, UnlockData, TicketFifo
  <2>3. /\ UNCHANGED <<next_ticket, now_serving, line>>
        /\ \A q \in InLine : ticket'[q] = ticket[q]
        /\ \A q \in Cpus : at'[q] = "tried" => ticket'[q] <= now_serving
    BY <1>5 DEF LockData, UnlockData, TicketsOk
  <2> QED
    BY <2>1, <2>2, <2>3, StandStill
<1>6. CASE Unlock(p)
  BY <1>6, Leave
<1> QED
  BY <1>1, <1>2, <1>3, <1>4, <1>5, <1>6 DEF TicketStep

LEMMA TicketInvariance == TicketSpec => []TicketInv
<1>1. TicketInv /\ [TicketNext]_ticketVars => TicketInv'
  <2>1. CASE UNCHANGED ticketVars
    BY <2>1 DEF ticketVars, TicketInv, TicketType, LineOk, TicketsOk, OwnerOk, TicketFifo, InLine
  <2> QED
    BY <2>1, TicketTypeStep, OwnerStep, LineStep DEF TicketNext, TicketInv
<1> QED
  BY TicketInitInv, <1>1, PTL DEF TicketSpec

(* First come, first served, and so one at a time: TicketFifo, for every   *)
(* set of processors, modulus and number of requests.                      *)
THEOREM TicketLockFifo == TicketSpec => []TicketFifo
<1>1. TicketInv => TicketFifo
  BY DEF TicketInv
<1> QED
  BY TicketInvariance, <1>1, PTL

(* The Mutex inside the lock of arch/smp is waited for only while its last *)
(* holder is leaving: TicketDataFree.                                      *)
THEOREM TicketLockDataFree == TicketSpec => []TicketDataFree
<1>1. TicketInv => TicketDataFree
  BY DEF TicketInv, TicketType, TicketFifo, OwnerOk, TicketDataFree
<1> QED
  BY TicketInvariance, <1>1, PTL

(* TicketOrder of the runs (rwlock.rs:26-80, arch/smp), for every set of   *)
(* processors, modulus and number of requests.                             *)
THEOREM TicketLockOrder == TicketSpec => []TicketOrder
<1>1. TicketInv => TicketType
  BY DEF TicketInv
<1> QED
  BY <1>1, TicketInvariance, TicketLockFifo, TicketLockDataFree, PTL DEF TicketOrder
=============================================================================
