---------------------------- MODULE IrqSpinLock -----------------------------
(***************************************************************************)
(* IrqSpinLock of rwlock.rs: a spin::Mutex taken with interrupts off.  On  *)
(* every processor a thread and, when interrupts are on, an interrupt      *)
(* handler take the lock; the thread stands still while the handler runs.  *)
(***************************************************************************)
EXTENDS Naturals, FiniteSets

CONSTANT IrqCpus

VARIABLES mutex,      \* the flag of the spin::Mutex
          enabled,    \* interrupts on, per processor
          irqAt,      \* where thread and handler are, per processor and context
          restore     \* restore_interrupts of the guard

irqVars == <<mutex, enabled, irqAt, restore>>

Contexts == {"thread", "handler"}
IrqPlaces == {"out", "called", "spin", "held", "dropped", "restored"}

IrqInit ==
  /\ mutex = FALSE
  /\ enabled = [c \in IrqCpus |-> TRUE]
  /\ irqAt = [c \in IrqCpus |-> [x \in Contexts |-> "out"]]
  /\ restore = [c \in IrqCpus |-> [x \in Contexts |-> FALSE]]

IrqGoto(c, x, place) == irqAt' = [irqAt EXCEPT ![c][x] = place]

(* The handler interrupts the thread; it is over when it has left the lock. *)
Runs(c, x) == x = "handler" \/ irqAt[c]["handler"] = "out"

(* The interrupt: the processor turns interrupts off for the handler,      *)
(* which calls lock.                                                       *)
Interrupt(c) ==
  /\ enabled[c]
  /\ irqAt[c]["handler"] = "out"
  /\ enabled' = [enabled EXCEPT ![c] = FALSE]
  /\ IrqGoto(c, "handler", "called")
  /\ UNCHANGED <<mutex, restore>>

IrqCall(c) ==
  /\ Runs(c, "thread")
  /\ irqAt[c]["thread"] = "out"
  /\ IrqGoto(c, "thread", "called")
  /\ UNCHANGED <<mutex, enabled, restore>>

(* lock: remember whether interrupts were on, turn them off ... *)
IrqDisable(c, x) ==
  /\ Runs(c, x)
  /\ irqAt[c][x] = "called"
  /\ restore' = [restore EXCEPT ![c][x] = enabled[c]]
  /\ enabled' = [enabled EXCEPT ![c] = FALSE]
  /\ IrqGoto(c, x, "spin")
  /\ UNCHANGED mutex

(* ... and spin. *)
IrqAcquire(c, x) ==
  /\ Runs(c, x)
  /\ irqAt[c][x] = "spin"
  /\ ~ mutex
  /\ mutex' = TRUE
  /\ IrqGoto(c, x, "held")
  /\ UNCHANGED <<enabled, restore>>

(* drop of the guard: the copy made by ptr::read is dropped, which unlocks *)
IrqDrop(c, x) ==
  /\ Runs(c, x)
  /\ irqAt[c][x] = "held"
  /\ mutex' = FALSE
  /\ IrqGoto(c, x, "dropped")
  /\ UNCHANGED <<enabled, restore>>

(* ... interrupts come back on if they were ... *)
IrqRestore(c, x) ==
  /\ Runs(c, x)
  /\ irqAt[c][x] = "dropped"
  /\ enabled' = [enabled EXCEPT ![c] = @ \/ restore[c][x]]
  /\ IrqGoto(c, x, "restored")
  /\ UNCHANGED <<mutex, restore>>

(* ... and the field guard itself is dropped, which unlocks again.  The    *)
(* return from a handler turns interrupts on.                              *)
IrqDropField(c, x) ==
  /\ Runs(c, x)
  /\ irqAt[c][x] = "restored"
  /\ mutex' = FALSE
  /\ IrqGoto(c, x, "out")
  /\ enabled' = [enabled EXCEPT ![c] = @ \/ x = "handler"]
  /\ UNCHANGED restore

IrqStep(c, x) ==
  IrqDisable(c, x) \/ IrqAcquire(c, x) \/ IrqDrop(c, x) \/ IrqRestore(c, x) \/ IrqDropField(c, x)

IrqNext ==
  \E c \in IrqCpus : Interrupt(c) \/ IrqCall(c) \/ \E x \in Contexts : IrqStep(c, x)

IrqSpec == IrqInit /\ [][IrqNext]_irqVars

-----------------------------------------------------------------------------
IrqType ==
  /\ mutex \in BOOLEAN
  /\ enabled \in [IrqCpus -> BOOLEAN]
  /\ irqAt \in [IrqCpus -> [Contexts -> IrqPlaces]]
  /\ restore \in [IrqCpus -> [Contexts -> BOOLEAN]]

(* A handler never waits for the thread it has interrupted: "preventing    *)
(* deadlock from interrupt handlers trying to acquire the same lock"       *)
(* (rwlock.rs:323).                                                        *)
IrqNoSelfDeadlock ==
  \A c \in IrqCpus : irqAt[c]["handler"] = "spin" => irqAt[c]["thread"] # "held"

(* No handler waits for the thread it has interrupted.                     *)
IrqSafe == IrqType /\ IrqNoSelfDeadlock
=============================================================================
