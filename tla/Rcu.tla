-------------------------------- MODULE Rcu ---------------------------------
(***************************************************************************)
(* RcuState of rwlock.rs: the grace period counters, one step per atomic   *)
(* operation.  Readers leave no trace in them (read_unlock is empty).      *)
(***************************************************************************)
EXTENDS Naturals, FiniteSetsExt

CONSTANTS RcuCpus,
          MaxPeriods    \* bound: calls of synchronize in one behaviour

VARIABLES grace_period, completed,
          rcuAt,        \* where each writer is
          gp,           \* new_gp of synchronize, gp of quiescent_state
          ticking       \* rigid: whether quiescent_state is called at all

rcuVars == <<grace_period, completed, rcuAt, gp, ticking>>

RcuPlaces == {"out", "spin", "store", "mark"}

RcuInit ==
  /\ grace_period = 0
  /\ completed = 0
  /\ rcuAt = [p \in RcuCpus |-> "out"]
  /\ gp = [p \in RcuCpus |-> 0]
  /\ ticking \in BOOLEAN

RcuGoto(p, place) == rcuAt' = [rcuAt EXCEPT ![p] = place]

(* synchronize: fetch_add. *)
Synchronize(p) ==
  /\ rcuAt[p] = "out"
  /\ grace_period < MaxPeriods
  /\ grace_period' = grace_period + 1
  /\ gp' = [gp EXCEPT ![p] = grace_period + 1]
  /\ RcuGoto(p, "spin")
  /\ UNCHANGED <<completed, ticking>>

(* Mutant: the loop waits for the new period itself. *)
WaitForOwn(p) ==
  /\ rcuAt[p] = "spin"
  /\ completed >= gp[p]
  /\ RcuGoto(p, "store")
  /\ UNCHANGED <<grace_period, completed, gp, ticking>>

(* The loop ends once the period before is complete. *)
WaitPrevious(p) ==
  /\ rcuAt[p] = "spin"
  /\ completed >= gp[p] - 1
  /\ RcuGoto(p, "store")
  /\ UNCHANGED <<grace_period, completed, gp, ticking>>

StoreCompleted(p) ==
  /\ rcuAt[p] = "store"
  /\ completed' = gp[p]
  /\ RcuGoto(p, "out")
  /\ UNCHANGED <<grace_period, gp, ticking>>

(* quiescent_state: load, then fetch_max. *)
QuiescentLoad(p) ==
  /\ ticking
  /\ rcuAt[p] = "out"
  /\ gp' = [gp EXCEPT ![p] = grace_period]
  /\ RcuGoto(p, "mark")
  /\ UNCHANGED <<grace_period, completed, ticking>>

QuiescentMark(p) ==
  /\ rcuAt[p] = "mark"
  /\ completed' = Max({completed, gp[p]})
  /\ RcuGoto(p, "out")
  /\ UNCHANGED <<grace_period, gp, ticking>>

RcuStep(p) == WaitPrevious(p) \/ StoreCompleted(p) \/ QuiescentMark(p)

RcuNext == \E p \in RcuCpus : Synchronize(p) \/ QuiescentLoad(p) \/ RcuStep(p)

-----------------------------------------------------------------------------
(* Every synchronize returns, however many run at once, as long as nobody  *)
(* calls quiescent_state: the plain store of an older synchronize after a  *)
(* fetch_max would take completed back.                                    *)
RcuReturns ==
  \A p \in RcuCpus : rcuAt[p] = "spin" ~> rcuAt[p] = "out" \/ ticking
=============================================================================
