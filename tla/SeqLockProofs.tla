--------------------------- MODULE SeqLockProofs ----------------------------
(***************************************************************************)
(* A read of the sequence lock returns one whole, recent value, for any    *)
(* number of readers, writers and writes.                                  *)
(***************************************************************************)
EXTENDS SeqLock, TLAPS

Storing == {"odd", "half", "stored"}

(* One writer at a time is past the write_lock. *)
OneWriter ==
  /\ \A w \in SeqWriters : seqAt[w] # "out" => write_lock
  /\ \A v, w \in SeqWriters : seqAt[v] # "out" /\ seqAt[w] # "out" => v = w

(* The number and the data between two writes, and during one. *)
WriterState ==
  /\ (\A w \in SeqWriters : seqAt[w] \notin Storing) =>
       sequence = 2 * version /\ data[1] = version /\ data[2] = version
  /\ \A w \in SeqWriters : seqAt[w] \in Storing => sequence + 1 = 2 * version
  /\ \A w \in SeqWriters : seqAt[w] = "half" => data[1] = version
  /\ \A w \in SeqWriters : seqAt[w] = "stored" => data[1] = version /\ data[2] = version

(* While the number has not moved, what a reader has copied is the value   *)
(* that the number stands for.                                             *)
ReaderState ==
  \A r \in SeqReaders :
    /\ floor[r] <= Finished
    /\ seqAt[r] \in {"low", "high", "second"} =>
         seq1[r] % 2 = 0 /\ seq1[r] <= sequence /\ floor[r] <= seq1[r] \div 2
    /\ seqAt[r] \in {"high", "second"} /\ sequence = seq1[r] => 2 * copy[r][1] = seq1[r]
    /\ seqAt[r] = "second" /\ sequence = seq1[r] => 2 * copy[r][2] = seq1[r]

Sides ==
  /\ \A r \in SeqReaders : seqAt[r] \in ReaderPlaces
  /\ \A w \in SeqWriters : seqAt[w] \in WriterPlaces

SeqInv == SeqType /\ Sides /\ OneWriter /\ WriterState /\ ReaderState /\ SeqReadWhole

LEMMA SeqInitInv == SeqInit => SeqInv
<1> SUFFICES ASSUME SeqInit PROVE SeqInv
  OBVIOUS
<1>1. SeqType /\ Sides
  BY DEF SeqInit, SeqType, Sides, ReaderPlaces, WriterPlaces
<1>2. OneWriter /\ WriterState
  BY DEF SeqInit, OneWriter, WriterState, Storing
<1>3. ReaderState /\ SeqReadWhole
  BY DEF SeqInit, ReaderState, SeqReadWhole, Finished
<1> QED
  BY <1>1, <1>2, <1>3 DEF SeqInv

(* A reader touches only its own place, copy and notes. *)
LEMMA SeqReaderStep ==
  ASSUME SeqInv, NEW r \in SeqReaders, ReadCall(r) \/ SeqReadStep(r)
  PROVE  SeqInv'
<1> USE DEF SeqInv, SeqGoto, ReaderPlaces, WriterPlaces
<1>1. r \notin SeqWriters
  BY SeqAssumption
<1>2. SeqType'
  <2>1. CASE ReadCall(r)
    BY <2>1 DEF ReadCall, SeqType, Finished
  <2>2. CASE LoadFirst(r)
    BY <2>2 DEF LoadFirst, SeqType
  <2>3. CASE CopyLow(r)
    BY <2>3 DEF CopyLow, SeqType
  <2>4. CASE CopyHigh(r)
    BY <2>4 DEF CopyHigh, SeqType
  <2>5. CASE LoadSecond(r)
    BY <2>5 DEF LoadSecond, SeqType
  <2> QED
    BY <2>1, <2>2, <2>3, <2>4, <2>5 DEF SeqReadStep
<1>3. /\ UNCHANGED <<sequence, write_lock, data, version>>
      /\ seqAt'[r] \in ReaderPlaces
      /\ \A p \in (SeqReaders \cup SeqWriters) \ {r} : seqAt'[p] = seqAt[p]
      /\ \A s \in SeqReaders \ {r} :
           seq1'[s] = seq1[s] /\ copy'[s] = copy[s] /\ floor'[s] = floor[s]
  BY DEF SeqReadStep, ReadCall, LoadFirst, CopyLow, CopyHigh, LoadSecond, SeqType
<1>4. \A w \in SeqWriters : seqAt'[w] = seqAt[w]
  BY <1>1, <1>3
<1>5. Sides' /\ OneWriter' /\ WriterState'
  BY <1>1, <1>3, <1>4 DEF Sides, OneWriter, WriterState
<1>6. sequence % 2 = 0 => \A w \in SeqWriters : seqAt[w] \notin Storing
  BY DEF WriterState, SeqType
<1>7. ReaderState'
  <2>1. CASE ReadCall(r)
    BY <1>3, <2>1 DEF ReadCall, ReaderState, SeqType, Finished
  <2>2. CASE LoadFirst(r)
    BY <1>3, <2>2 DEF LoadFirst, ReaderState, SeqType, Finished
  <2>3. CASE CopyLow(r)
    BY <1>3, <1>6, <2>3 DEF CopyLow, ReaderState, WriterState, SeqType, Finished
  <2>4. CASE CopyHigh(r)
    BY <1>3, <1>6, <2>4 DEF CopyHigh, ReaderState, WriterState, SeqType, Finished
  <2>5. CASE LoadSecond(r)
    BY <1>3, <2>5 DEF LoadSecond, ReaderState, SeqType, Finished
  <2> QED
    BY <2>1, <2>2, <2>3, <2>4, <2>5 DEF SeqReadStep
<1>8. SeqReadWhole'
  <2>1. CASE LoadSecond(r)
    BY <1>3, <2>1 DEF LoadSecond, ReaderState, SeqReadWhole, SeqType, Finished
  <2>2. CASE ~ LoadSecond(r)
    <3>1. seqAt'[r] # "return"
      BY <2>2 DEF SeqReadStep, ReadCall, LoadFirst, CopyLow, CopyHigh, SeqType
    <3> QED
      BY <1>3, <3>1 DEF SeqReadWhole
  <2> QED
    BY <2>1, <2>2
<1> QED
  BY <1>2, <1>5, <1>7, <1>8

(* A writer touches no reader. *)
LEMMA SeqWriterStep ==
  ASSUME SeqInv, NEW w \in SeqWriters, WriteLock(w) \/ SeqWriteStep(w)
  PROVE  SeqInv'
<1> USE DEF SeqInv, SeqGoto, ReaderPlaces, WriterPlaces
<1>1. w \notin SeqReaders
  BY SeqAssumption
<1>2. SeqType'
  <2>1. CASE StoreLow(w) \/ StoreHigh(w)
    <3>1. data' \in Nat \X Nat
      BY <2>1 DEF StoreLow, StoreHigh, SeqType
    <3> QED
      BY <2>1, <3>1 DEF StoreLow, StoreHigh, SeqType
  <2>2. CASE WriteLock(w) \/ WriteUnlockSeq(w)
    BY <2>2 DEF WriteLock, WriteUnlockSeq, SeqType
  <2>3. CASE MakeOdd(w)
    BY <2>3 DEF MakeOdd, SeqType
  <2>4. CASE MakeEven(w)
    BY <2>4 DEF MakeEven, SeqType
  <2> QED
    BY <2>1, <2>2, <2>3, <2>4 DEF SeqWriteStep
<1>3. /\ UNCHANGED <<seq1, copy, floor>>
      /\ seqAt'[w] \in WriterPlaces
      /\ \A p \in (SeqReaders \cup SeqWriters) \ {w} : seqAt'[p] = seqAt[p]
  BY DEF SeqWriteStep, WriteLock, MakeOdd, StoreLow, StoreHigh, MakeEven, WriteUnlockSeq, SeqType
<1>4. \A r \in SeqReaders : seqAt'[r] = seqAt[r]
  BY <1>1, <1>3
<1>5. Sides' /\ SeqReadWhole'
  BY <1>3, <1>4 DEF Sides, SeqReadWhole
<1>6. OneWriter'
  BY <1>3 DEF OneWriter, SeqType, SeqWriteStep, WriteLock, MakeOdd, StoreLow, StoreHigh, MakeEven,
     WriteUnlockSeq
<1>7. WriterState'
  <2> USE <1>3 DEF WriterState, OneWriter, SeqType, Storing
  <2>1. CASE WriteLock(w)
    BY <2>1 DEF WriteLock
  <2>2. CASE MakeOdd(w)
    BY <2>2 DEF MakeOdd
  <2>3. CASE StoreLow(w)
    BY <2>3 DEF StoreLow
  <2>4. CASE StoreHigh(w)
    BY <2>4 DEF StoreHigh
  <2>5. CASE MakeEven(w)
    BY <2>5 DEF MakeEven
  <2>6. CASE WriteUnlockSeq(w)
    BY <2>6 DEF WriteUnlockSeq
  <2> QED
    BY <2>1, <2>2, <2>3, <2>4, <2>5, <2>6 DEF SeqWriteStep
<1>8. sequence' \in {sequence, sequence + 1}
  BY DEF SeqWriteStep, WriteLock, MakeOdd, StoreLow, StoreHigh, MakeEven, WriteUnlockSeq
<1>9. ReaderState'
  BY <1>3, <1>4, <1>8 DEF ReaderState, SeqType, Finished
<1> QED
  BY <1>2, <1>5, <1>6, <1>7, <1>9

(* The read is whole and recent: SeqConsistent of the runs (rwlock.rs:219- *)
(* 310), for every set of readers and writers.                             *)
THEOREM SeqLockConsistent == SeqSpec => []SeqConsistent
<1>1. SeqInv /\ [SeqNext]_seqVars => SeqInv'
  <2>1. CASE UNCHANGED seqVars
    BY <2>1 DEF seqVars, SeqInv, SeqType, Sides, OneWriter, WriterState, ReaderState, SeqReadWhole,
       Finished
  <2> QED
    BY <2>1, SeqReaderStep, SeqWriterStep DEF SeqNext
<1>2. SeqInv => SeqConsistent
  BY DEF SeqInv, SeqConsistent
<1> QED
  BY SeqInitInv, <1>1, <1>2, PTL DEF SeqSpec
=============================================================================
