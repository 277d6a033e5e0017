----------------------------- MODULE MCStorage ------------------------------
(***************************************************************************)
(* The page cache over one file, and the replay of a JBD2 log: kind names  *)
(* the one that a behaviour is about, the other stands still.              *)
(***************************************************************************)
EXTENDS PageCache, Jbd2

CONSTANTS t1, t2, Kinds

VARIABLE kind

Scenario(tasks, calls, ranges, capacity, size, grows, serial, fails, coherent) ==
    [tasks |-> tasks, calls |-> calls, ranges |-> ranges, capacity |-> capacity, size |-> size,
     grows |-> grows, serial |-> serial, fails |-> fails, coherent |-> coherent]

All == {"read", "fault", "prefetch", "write", "fsync", "sync", "tick", "shrink"}
OnOne(calls) == (t1 :> calls @@ t2 :> {})

(* One processor and every call, with room for two pages of three and for  *)
(* one; read-ahead; a writer and the desktop's flush on two processors;    *)
(* and failing writes, discarded pages and truncation on two.              *)
MCPageScenarios ==
    {Scenario({t1}, OnOne(All \cup {"replace", "unlink"}), {<<0, 2>>, <<1, 3>>}, 2, 2, TRUE, TRUE, FALSE, TRUE),
     Scenario({t1}, OnOne(All), {<<0, 4>>, <<1, 3>>}, 1, 4, TRUE, TRUE, FALSE, TRUE),
     Scenario({t1}, OnOne({"read", "write", "tick"}), {<<0, 2>>, <<2, 4>>, <<1, 6>>}, 2, 6, FALSE, TRUE, FALSE, TRUE),
     Scenario({t1}, OnOne({"read", "write", "tick", "shrink", "truncate"}), {<<0, 3>>, <<1, 2>>}, 1, 4, FALSE, TRUE, FALSE, TRUE),
     Scenario({t1, t2}, (t1 :> {"read", "write"} @@ t2 :> {"tick", "sync", "shrink"}), {<<0, 2>>, <<1, 3>>},
              3, 4, FALSE, FALSE, FALSE, TRUE),
     Scenario({t1, t2}, (t1 :> {"write", "fsync", "dontneed"} @@ t2 :> {"tick", "fault", "truncate"}), {<<0, 1>>},
              1, 2, FALSE, FALSE, TRUE, FALSE)}

vars == <<kind, pageVars, jbdVars>>

Init ==
    /\ kind \in Kinds
    /\ PageInit /\ (kind # "pages" => scenario = CHOOSE s \in PageScenarios : TRUE)
    /\ JbdInit

Next ==
    /\ UNCHANGED kind
    /\ \/ kind = "pages" /\ PageNext /\ UNCHANGED jbdVars
       \/ kind = "jbd2" /\ JbdNext /\ UNCHANGED pageVars

Fairness == PageFairness /\ WF_jbdVars(Replay)

Spec == Init /\ [][Next]_vars /\ Fairness

(* What is dirty reaches the disk, and a replay comes to its end.          *)
StorageProgress == DirtyWritten /\ ReplayEnds
=============================================================================
