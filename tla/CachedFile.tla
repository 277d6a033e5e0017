----------------------------- MODULE CachedFile -----------------------------
(***************************************************************************)
(* What the page cache promises of a file: one sequence of units with a    *)
(* size.  Only the write in progress changes it, only in its own range,    *)
(* and it may not return before all of its range is there to be read.      *)
(* A file may also be replaced, cut or extended, and removed, at once.     *)
(* Flushing, evicting, loading and reading ahead change nothing.           *)
(***************************************************************************)
EXTENDS Integers

CONSTANTS Units,        \* offsets of the file
          Versions      \* what a write puts into the units of its range

VARIABLES file,         \* unit -> version, 0 for a hole
          size,         \* units the file has
          pending,      \* the write in progress: [from, to, version], or NoWrite
          linked        \* the file has a name

fvars == <<file, size, pending, linked>>

NoWrite == [from |-> 0, to |-> 0, version |-> 0]

Covered(w) == {u \in Units : w.from <= u /\ u < w.to}

FInit ==
    /\ \A u \in Units : file[u] = 0
    /\ size \in Nat
    /\ pending = NoWrite
    /\ linked = TRUE

Start ==
    /\ pending = NoWrite
    /\ pending' # NoWrite
    /\ \A u \in Units : file[u] < pending'.version
    /\ UNCHANGED <<file, size, linked>>

(* Some of the units that the write covers take its version. *)
Progress ==
    /\ pending # NoWrite
    /\ \A u \in Units : file'[u] = file[u] \/ (u \in Covered(pending) /\ file'[u] = pending.version)
    /\ size' = size \/ size' = pending.to
    /\ size <= size'
    /\ UNCHANGED linked

Apply == Progress /\ UNCHANGED pending

Return ==
    /\ Progress
    /\ linked => size' >= pending.to /\ \A u \in Covered(pending) : file'[u] = pending.version
    /\ pending' = NoWrite

Supersede ==
    /\ linked = TRUE
    /\ size' \in Nat
    /\ \E v \in Versions : \A u \in Units : file'[u] = IF u < size' THEN v ELSE 0
    /\ UNCHANGED <<pending, linked>>

Resize ==
    /\ linked
    /\ size' \in Nat
    /\ \A u \in Units : file'[u] = IF u < size' THEN file[u] ELSE 0
    /\ UNCHANGED <<pending, linked>>

Remove ==
    /\ linked' = FALSE
    /\ size' = 0
    /\ \A u \in Units : file'[u] = 0
    /\ UNCHANGED pending

FNext == Start \/ Apply \/ Return \/ Supersede \/ Resize \/ Remove
=============================================================================
