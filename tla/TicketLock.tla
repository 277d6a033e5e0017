----------------------------- MODULE TicketLock -----------------------------
(***************************************************************************)
(* The ticket locks of rwlock.rs and arch/smp/locks.rs, one step per       *)
(* atomic operation.  The counters are kept unwrapped; the code sees them  *)
(* through Word, as the u32 they are.                                      *)
(***************************************************************************)
EXTENDS Integers, Sequences, FiniteSets

CONSTANTS Cpus,         \* the processors that use the lock
          Modulus,      \* 2^32 in the code
          MaxTickets    \* bound: no new request once so many tickets are out

Nobody == "nobody"

ASSUME ModulusAssumption ==
  /\ Modulus \in Nat
  /\ MaxTickets \in Nat
  /\ IsFiniteSet(Cpus)
  /\ Cardinality(Cpus) < Modulus
  /\ Nobody \notin Cpus

VARIABLES next_ticket, now_serving,
          inner,        \* rigid: the lock of arch/smp, whose data sit in a spin::Mutex
          owner,        \* who holds that Mutex
          at,           \* where each processor is
          ticket,       \* my_ticket of lock, current of try_lock
          line          \* history: who has a ticket and has not given it back, in order

ticketVars == <<next_ticket, now_serving, inner, owner, at, ticket, line>>

Places == {"out", "wait", "tried", "served", "held", "leaving"}

Word(n) == n % Modulus

TicketInit ==
  /\ next_ticket \in 0 .. Modulus - 1
  /\ now_serving = next_ticket
  /\ inner \in BOOLEAN
  /\ owner = Nobody
  /\ at = [p \in Cpus |-> "out"]
  /\ ticket = [p \in Cpus |-> 0]
  /\ line = << >>

Goto(p, place) == at' = [at EXCEPT ![p] = place]

TakeTicket(p) ==
  /\ next_ticket' = next_ticket + 1
  /\ line' = Append(line, p)

(* lock: fetch_add on next_ticket. *)
Lock(p) ==
  /\ at[p] = "out"
  /\ next_ticket < MaxTickets
  /\ TakeTicket(p)
  /\ ticket' = [ticket EXCEPT ![p] = next_ticket]
  /\ Goto(p, "wait")
  /\ UNCHANGED <<now_serving, inner, owner>>

(* The spinning load that sees the own ticket. *)
Served(p) ==
  /\ at[p] = "wait"
  /\ Word(now_serving) = Word(ticket[p])
  /\ Goto(p, IF inner THEN "served" ELSE "held")
  /\ UNCHANGED <<next_ticket, now_serving, inner, owner, ticket, line>>

(* try_lock: the load of now_serving ... *)
TryLoad(p) ==
  /\ at[p] = "out"
  /\ next_ticket < MaxTickets
  /\ ticket' = [ticket EXCEPT ![p] = now_serving]
  /\ Goto(p, "tried")
  /\ UNCHANGED <<next_ticket, now_serving, inner, owner, line>>

(* Mutant: the ticket is taken whoever is being served. *)
TryLockAnyway(p) ==
  /\ at[p] = "tried"
  /\ TakeTicket(p)
  /\ Goto(p, IF inner THEN "served" ELSE "held")
  /\ UNCHANGED <<now_serving, inner, owner, ticket>>

(* ... and the compare_exchange.  Bound: fewer than Modulus tickets are    *)
(* handed out between the two.                                             *)
TryLock(p) ==
  /\ at[p] = "tried"
  /\ next_ticket < ticket[p] + Modulus
  /\ IF Word(next_ticket) = Word(ticket[p])
       THEN /\ TakeTicket(p)
            /\ Goto(p, IF inner THEN "served" ELSE "held")
       ELSE /\ Goto(p, "out")
            /\ UNCHANGED <<next_ticket, line>>
  /\ UNCHANGED <<now_serving, inner, owner, ticket>>

(* self.data.lock() of the guard in arch/smp. *)
LockData(p) ==
  /\ at[p] = "served"
  /\ owner = Nobody
  /\ owner' = p
  /\ Goto(p, "held")
  /\ UNCHANGED <<next_ticket, now_serving, inner, ticket, line>>

(* Drop of the guard: now_serving first, the Mutex guard inside it after.  *)
Unlock(p) ==
  /\ at[p] = "held"
  /\ now_serving' = now_serving + 1
  /\ line' = Tail(line)
  /\ Goto(p, IF inner THEN "leaving" ELSE "out")
  /\ UNCHANGED <<next_ticket, inner, owner, ticket>>

UnlockData(p) ==
  /\ at[p] = "leaving"
  /\ owner' = Nobody
  /\ Goto(p, "out")
  /\ UNCHANGED <<next_ticket, now_serving, inner, ticket, line>>

(* What a processor inside lock or a critical section does next. *)
TicketStep(p) == Served(p) \/ TryLock(p) \/ LockData(p) \/ Unlock(p) \/ UnlockData(p)

TicketNext == \E p \in Cpus : Lock(p) \/ TryLoad(p) \/ TicketStep(p)

TicketSpec == TicketInit /\ [][TicketNext]_ticketVars

-----------------------------------------------------------------------------
TicketType ==
  /\ next_ticket \in Nat
  /\ now_serving \in Nat
  /\ inner \in BOOLEAN
  /\ owner \in Cpus \cup {Nobody}
  /\ at \in [Cpus -> Places]
  /\ ticket \in [Cpus -> Nat]
  /\ line \in Seq(Cpus)

(* The lock is held in the order of the requests: whoever is in a critical *)
(* section is at the head of the line, so there is never a second one,     *)
(* also while the counters pass 2^32 and while a guard is half dropped.    *)
(* rwlock.rs:17 promises "acquisition in request order".                   *)
TicketFifo ==
  \A p \in Cpus : at[p] \in {"served", "held"} => line # << >> /\ Head(line) = p

(* The Mutex around the data in arch/smp is never what keeps two           *)
(* processors apart: whoever may take it waits at most for the one that    *)
(* is just leaving.                                                        *)
TicketDataFree ==
  \A p \in Cpus : at[p] = "served" =>
    owner = Nobody \/ (owner \in Cpus /\ at[owner] = "leaving")

(* Nobody starves: who has a ticket is let in, if those before leave their *)
(* critical sections (rwlock.rs:17, "Prevents starvation").                *)
TicketServed == \A p \in Cpus : at[p] = "wait" ~> at[p] = "held"

(* The ticket lock is held by one processor at a time, in the order of the *)
(* requests, and the inner Mutex never adds an order of its own.           *)
TicketOrder == TicketType /\ TicketFifo /\ TicketDataFree
=============================================================================
