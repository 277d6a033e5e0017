------------------------------ MODULE SeqLock -------------------------------
(***************************************************************************)
(* The sequence lock of rwlock.rs.  The data are two machine words that    *)
(* are copied one after the other (the copy races with the writer); the    *)
(* n-th write stores n in both.  Loads and stores happen in program order, *)
(* as the x86-64 build has them.                                           *)
(***************************************************************************)
EXTENDS Naturals

CONSTANTS SeqReaders, SeqWriters,
          MaxWrites     \* bound: writes in one behaviour

ASSUME SeqAssumption == MaxWrites \in Nat /\ SeqReaders \cap SeqWriters = {}

VARIABLES sequence, write_lock,
          data,         \* <<low, high>>
          seqAt,        \* where each processor is
          seq1,         \* per reader: the first load of the sequence
          copy,         \* per reader: the copy of the data
          version,      \* history: writes begun
          floor         \* history, per reader: writes finished when read was called

seqVars == <<sequence, write_lock, data, seqAt, seq1, copy, version, floor>>

ReaderPlaces == {"out", "first", "low", "high", "second", "return"}
WriterPlaces == {"out", "locked", "odd", "half", "stored", "even"}

SeqInit ==
  /\ sequence = 0
  /\ write_lock = FALSE
  /\ data = <<0, 0>>
  /\ seqAt = [p \in SeqReaders \cup SeqWriters |-> "out"]
  /\ seq1 = [r \in SeqReaders |-> 0]
  /\ copy = [r \in SeqReaders |-> <<0, 0>>]
  /\ version = 0
  /\ floor = [r \in SeqReaders |-> 0]

SeqGoto(p, place) == seqAt' = [seqAt EXCEPT ![p] = place]

(* Finished writes: the ones whose second fetch_add is done. *)
Finished == sequence \div 2

ReadCall(r) ==
  /\ seqAt[r] \in {"out", "return"}
  /\ SeqGoto(r, "first")
  /\ floor' = [floor EXCEPT ![r] = Finished]
  /\ UNCHANGED <<sequence, write_lock, data, seq1, copy, version>>

(* The first load; an odd number is loaded again. *)
LoadFirst(r) ==
  /\ seqAt[r] = "first"
  /\ sequence % 2 = 0
  /\ seq1' = [seq1 EXCEPT ![r] = sequence]
  /\ SeqGoto(r, "low")
  /\ UNCHANGED <<sequence, write_lock, data, copy, version, floor>>

CopyLow(r) ==
  /\ seqAt[r] = "low"
  /\ copy' = [copy EXCEPT ![r][1] = data[1]]
  /\ SeqGoto(r, "high")
  /\ UNCHANGED <<sequence, write_lock, data, seq1, version, floor>>

CopyHigh(r) ==
  /\ seqAt[r] = "high"
  /\ copy' = [copy EXCEPT ![r][2] = data[2]]
  /\ SeqGoto(r, "second")
  /\ UNCHANGED <<sequence, write_lock, data, seq1, version, floor>>

LoadSecond(r) ==
  /\ seqAt[r] = "second"
  /\ SeqGoto(r, IF sequence = seq1[r] THEN "return" ELSE "first")
  /\ UNCHANGED <<sequence, write_lock, data, seq1, copy, version, floor>>

WriteLock(w) ==
  /\ seqAt[w] = "out"
  /\ version < MaxWrites
  /\ ~ write_lock
  /\ write_lock' = TRUE
  /\ SeqGoto(w, "locked")
  /\ UNCHANGED <<sequence, data, seq1, copy, version, floor>>

(* Mutant: the data are stored before the number is made odd. *)
StoreEarly(w) ==
  /\ seqAt[w] = "locked"
  /\ version' = version + 1
  /\ data' = <<version', data[2]>>
  /\ sequence' = sequence
  /\ SeqGoto(w, "odd")
  /\ UNCHANGED <<write_lock, seq1, copy, floor>>

(* fetch_add: odd, a write is in progress. *)
MakeOdd(w) ==
  /\ seqAt[w] = "locked"
  /\ sequence' = sequence + 1
  /\ version' = version + 1
  /\ SeqGoto(w, "odd")
  /\ UNCHANGED <<write_lock, data, seq1, copy, floor>>

StoreLow(w) ==
  /\ seqAt[w] = "odd"
  /\ data' = [data EXCEPT ![1] = version]
  /\ SeqGoto(w, "half")
  /\ UNCHANGED <<sequence, write_lock, seq1, copy, version, floor>>

StoreHigh(w) ==
  /\ seqAt[w] = "half"
  /\ data' = [data EXCEPT ![2] = version]
  /\ SeqGoto(w, "stored")
  /\ UNCHANGED <<sequence, write_lock, seq1, copy, version, floor>>

(* fetch_add: even again. *)
MakeEven(w) ==
  /\ seqAt[w] = "stored"
  /\ sequence' = sequence + 1
  /\ SeqGoto(w, "even")
  /\ UNCHANGED <<write_lock, data, seq1, copy, version, floor>>

WriteUnlockSeq(w) ==
  /\ seqAt[w] = "even"
  /\ write_lock' = FALSE
  /\ SeqGoto(w, "out")
  /\ UNCHANGED <<sequence, data, seq1, copy, version, floor>>

SeqReadStep(r) == LoadFirst(r) \/ CopyLow(r) \/ CopyHigh(r) \/ LoadSecond(r)

SeqWriteStep(w) ==
  MakeOdd(w) \/ StoreLow(w) \/ StoreHigh(w) \/ MakeEven(w) \/ WriteUnlockSeq(w)

SeqNext ==
  \/ \E r \in SeqReaders : ReadCall(r) \/ SeqReadStep(r)
  \/ \E w \in SeqWriters : WriteLock(w) \/ SeqWriteStep(w)

SeqSpec == SeqInit /\ [][SeqNext]_seqVars

-----------------------------------------------------------------------------
SeqType ==
  /\ sequence \in Nat
  /\ write_lock \in BOOLEAN
  /\ data \in Nat \X Nat
  /\ seqAt \in [SeqReaders \cup SeqWriters -> ReaderPlaces \cup WriterPlaces]
  /\ seq1 \in [SeqReaders -> Nat]
  /\ copy \in [SeqReaders -> Nat \X Nat]
  /\ version \in Nat
  /\ floor \in [SeqReaders -> Nat]

(* A read returns the two words of one write, and not of one older than    *)
(* the last write that was finished when the read began, whatever writers  *)
(* did during the copy ("Readers retry if sequence changed during read",   *)
(* rwlock.rs:219).                                                         *)
SeqReadWhole ==
  \A r \in SeqReaders : seqAt[r] = "return" =>
    copy[r][1] = copy[r][2] /\ copy[r][1] >= floor[r]

(* Writers do not have to wait for readers: a write once begun ends.  And  *)
(* when writers stop, every read ends.                                     *)
SeqWritesEnd ==
  /\ \A w \in SeqWriters : seqAt[w] = "locked" ~> seqAt[w] = "out"
  /\ \A r \in SeqReaders : seqAt[r] = "first" ~> seqAt[r] = "return"

(* Reads are whole and recent, and the numbers of the lock keep their      *)
(* types.                                                                  *)
SeqConsistent == SeqType /\ SeqReadWhole
=============================================================================
