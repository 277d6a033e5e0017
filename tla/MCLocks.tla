------------------------------ MODULE MCLocks -------------------------------
(***************************************************************************)
(* The five locks, each on its own: kind names the one that a behaviour is *)
(* about, the others stand still.                                          *)
(***************************************************************************)
EXTENDS TicketLock, RwSpinLock, SeqLock, IrqSpinLock, Rcu

CONSTANT Kinds

VARIABLE kind

vars == <<kind, ticketVars, rwVars, seqVars, irqVars, rcuVars>>

(* A lock that the behaviour is not about has one initial state. *)
Init ==
  /\ kind \in Kinds
  /\ TicketInit /\ (kind # "ticket" => next_ticket = 0 /\ ~ inner)
  /\ RwInit     /\ (kind # "rw" => ~ bit)
  /\ SeqInit
  /\ IrqInit
  /\ RcuInit    /\ (kind # "rcu" => ~ ticking)

Next ==
  /\ UNCHANGED kind
  /\ \/ kind = "ticket" /\ TicketNext /\ UNCHANGED <<rwVars, seqVars, irqVars, rcuVars>>
     \/ kind = "rw"     /\ RwNext     /\ UNCHANGED <<ticketVars, seqVars, irqVars, rcuVars>>
     \/ kind = "seq"    /\ SeqNext    /\ UNCHANGED <<ticketVars, rwVars, irqVars, rcuVars>>
     \/ kind = "irq"    /\ IrqNext    /\ UNCHANGED <<ticketVars, rwVars, seqVars, rcuVars>>
     \/ kind = "rcu"    /\ RcuNext    /\ UNCHANGED <<ticketVars, rwVars, seqVars, irqVars>>

(* A processor inside a lock operation or a critical section runs on.      *)
Fairness ==
  /\ \A p \in Cpus : WF_ticketVars(TicketStep(p))
  /\ \A p \in RwCpus : WF_rwVars(RwStep(p))
  /\ \A r \in SeqReaders : WF_seqVars(SeqReadStep(r))
  /\ \A w \in SeqWriters : WF_seqVars(SeqWriteStep(w))
  /\ \A p \in RcuCpus : WF_rcuVars(RcuStep(p))

Spec == Init /\ [][Next]_vars /\ Fairness

(* Who waits gets in: for a ticket, behind a writer's bit, during a write  *)
(* and in synchronize; and a handler never waits for the IrqSpinLock of    *)
(* the thread it has interrupted.                                          *)
LocksProgress == []IrqSafe /\ TicketServed /\ RwWriterEnters /\ SeqWritesEnd /\ RcuReturns
=============================================================================
