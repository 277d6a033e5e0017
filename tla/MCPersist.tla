----------------------------- MODULE MCPersist -----------------------------
(* Persist on a disk of a few sectors: two paths, records of one and two   *)
(* sectors that fit the log and of three that do not.                      *)
EXTENDS Persist

MCOneWriter == {"w1"}
MCPaths == {"a", "b"}

Disk == [lengths |-> {2, 3}, sectors |-> 5, faults |-> 0, volatile |-> FALSE, ext4 |-> FALSE]

(* A plain disk; one write that fails, for records that fit the log; a     *)
(* disk with a cache, for records of one sector; an ext4 volume.           *)
MCScenarios == {Disk,
                [Disk EXCEPT !.lengths = {1, 2}, !.sectors = 4, !.faults = 1],
                [Disk EXCEPT !.lengths = {1}, !.sectors = 3, !.volatile = TRUE],
                [Disk EXCEPT !.lengths = {1, 3}, !.sectors = 4, !.ext4 = TRUE]}
=============================================================================
