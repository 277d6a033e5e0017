---------------------------- MODULE DurableStore ----------------------------
(***************************************************************************)
(* What the persistent store promises: a map from paths to versions that   *)
(* survives every crash.  A write in flight takes effect at one instant or *)
(* not at all; a write that was acknowledged has taken effect; a crash     *)
(* changes nothing that is stable.  Versions grow from write to write.     *)
(***************************************************************************)
EXTENDS Integers

CONSTANTS Paths, MaxVersion

VARIABLES
    stable,     \* path -> version a restart would restore (0: none)
    inflight,   \* the writes that have begun and not returned
    acked       \* path -> last version whose write returned success

dvars == <<inflight, acked, stable>>

Versions == 1 .. MaxVersion

DInit ==
    /\ stable = [p \in Paths |-> 0]
    /\ inflight = {}
    /\ acked = [p \in Paths |-> 0]

Begin(p, v) ==
    /\ <<p, v>> \notin inflight
    /\ inflight' = inflight \cup {<<p, v>>}
    /\ \A q \in Paths : stable[q] < v
    /\ UNCHANGED <<acked, stable>>

Commit(p, v) ==
    /\ <<p, v>> \in inflight
    /\ UNCHANGED <<inflight, acked>>
    /\ stable[p] < v
    /\ stable' = [stable EXCEPT ![p] = v]

Ack(p, v) ==
    /\ <<p, v>> \in inflight
    /\ inflight' = inflight \ {<<p, v>>}
    /\ acked' = [acked EXCEPT ![p] = v]
    /\ stable[p] = v
    /\ UNCHANGED stable

Fail(p, v) ==
    /\ <<p, v>> \in inflight
    /\ inflight' = inflight \ {<<p, v>>}
    /\ UNCHANGED <<acked, stable>>

Lose ==
    /\ inflight' = {}
    /\ UNCHANGED <<acked, stable>>

DNext ==
    \/ \E p \in Paths, v \in Versions : Begin(p, v) \/ Commit(p, v) \/ Ack(p, v) \/ Fail(p, v)
    \/ Lose

DSpec == DInit /\ [][DNext]_dvars
=============================================================================
