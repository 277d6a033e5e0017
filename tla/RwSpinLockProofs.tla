------------------------- MODULE RwSpinLockProofs ---------------------------
(***************************************************************************)
(* Both reader-writer locks keep a writer alone, for any number of         *)
(* processors.                                                             *)
(***************************************************************************)
EXTENDS RwSpinLock, FiniteSetTheorems, TLAPS

(* A word that will be exchanged was loaded without a writer in it. *)
SeenFree == \A p \in RwCpus : rwAt[p] \in {"readcas", "trycas", "writecas"} => ~ seen[p].writer

(* The flag belongs to one writer, and it is inside only without readers. *)
FlagOwned ==
  /\ \A p \in Writing : word.writer
  /\ \A p, q \in Writing : p = q
  /\ \A p \in RwCpus : rwAt[p] = "writing" => word.readers = 0

RwInv == RwType /\ SeenFree /\ FlagOwned /\ RwCounted

LEMMA ReadingFinite == IsFiniteSet(Reading)
BY RwAssumption, FS_Subset DEF Reading

LEMMA RwInitInv == RwInit => RwInv
<1> SUFFICES ASSUME RwInit PROVE RwInv
  OBVIOUS
<1>1. Reading = {} /\ Writing = {}
  BY DEF RwInit, Reading, Writing
<1>2. RwCounted
  BY <1>1, FS_EmptySet DEF RwInit, RwCounted, Free
<1> QED
  BY <1>1, <1>2 DEF RwInit, RwInv, RwType, SeenFree, FlagOwned, Free, Words, RwPlaces

LEMMA RwTypeStep == ASSUME RwInv, NEW p \in RwCpus, RwCall(p) \/ WriteFree(p) \/ RwStep(p)
                    PROVE  RwType'
<1> USE DEF RwInv, RwType, RwGoto, RwPlaces, Words, Free
<1>1. CASE ReadUnlock(p)
  <2>1. word.readers > 0
    <3>1. p \in Reading
      BY <1>1 DEF ReadUnlock, Reading
    <3> QED
      BY <3>1, ReadingFinite, FS_EmptySet, FS_CardinalityType DEF RwCounted
  <2> QED
    BY <1>1, <2>1 DEF ReadUnlock
<1>2. CASE RwCall(p)
  BY <1>2 DEF RwCall
<1>3. CASE WriteFree(p)
  BY <1>3 DEF WriteFree
<1>4. CASE ReadLoad(p)
  BY <1>4 DEF ReadLoad
<1>5. CASE ReadCas(p)
  BY <1>5 DEF ReadCas
<1>6. CASE WriteLoad(p) \/ Drain(p)
  BY <1>6 DEF WriteLoad, Drain
<1>7. CASE WriteCas(p)
  BY <1>7 DEF WriteCas
<1>8. CASE WriteUnlock(p)
  BY <1>8 DEF WriteUnlock
<1> QED
  BY <1>1, <1>2, <1>3, <1>4, <1>5, <1>6, <1>7, <1>8 DEF RwStep

(* The count follows the set of readers inside. *)
LEMMA RwCountedStep == ASSUME RwInv, NEW p \in RwCpus, RwCall(p) \/ WriteFree(p) \/ RwStep(p)
                       PROVE  RwCounted'
<1> USE DEF RwInv, RwType, RwGoto, Words
<1>1. CASE ReadCas(p) /\ word = seen[p]
  <2>1. rwAt' = [rwAt EXCEPT ![p] = "reading"] /\ rwAt[p] # "reading"
    BY <1>1 DEF ReadCas
  <2>2. Reading' = Reading \cup {p} /\ p \notin Reading
    BY <2>1 DEF Reading
  <2>3. word'.readers = word.readers + 1
    BY <1>1 DEF ReadCas
  <2>4. Cardinality(Reading \cup {p}) = Cardinality(Reading) + 1
    BY <2>2, ReadingFinite, FS_AddElement
  <2> QED
    BY <2>2, <2>3, <2>4 DEF RwCounted
<1>2. CASE ReadUnlock(p)
  <2>1. Reading' = Reading \ {p} /\ p \in Reading /\ word'.readers = word.readers - 1
    BY <1>2 DEF ReadUnlock, Reading
  <2> QED
    BY <2>1, ReadingFinite, FS_RemoveElement DEF RwCounted
<1>3. CASE ~ (ReadCas(p) /\ word = seen[p]) /\ ~ ReadUnlock(p)
  <2>1. word'.readers = word.readers
    BY <1>3 DEF RwStep, RwCall, WriteFree, ReadLoad, ReadCas, WriteLoad, WriteCas, Drain, WriteUnlock,
       Free, FlagOwned
  <2>2. Reading' = Reading
    <3>1. rwAt[p] # "reading" /\ rwAt'[p] # "reading"
      BY <1>3 DEF RwStep, RwCall, WriteFree, ReadLoad, ReadCas, WriteLoad, WriteCas, Drain, WriteUnlock
    <3>2. \A q \in RwCpus \ {p} : rwAt'[q] = rwAt[q]
      BY <1>3 DEF RwStep, RwCall, WriteFree, ReadLoad, ReadCas, WriteLoad, WriteCas, Drain, WriteUnlock
    <3> QED
      BY <3>1, <3>2 DEF Reading
  <2> QED
    BY <2>1, <2>2 DEF RwCounted
<1> QED
  BY <1>1, <1>2, <1>3

LEMMA RwOwnedStep == ASSUME RwInv, NEW p \in RwCpus, RwCall(p) \/ WriteFree(p) \/ RwStep(p)
                     PROVE  SeenFree' /\ FlagOwned'
<1> USE DEF RwInv, RwType, RwGoto, Words, Free, SeenFree, FlagOwned, Writing
<1>1. CASE RwCall(p)
  BY <1>1 DEF RwCall
<1>2. CASE WriteFree(p)
  BY <1>2 DEF WriteFree
<1>3. CASE ReadLoad(p)
  BY <1>3 DEF ReadLoad
<1>4. CASE ReadCas(p)
  BY <1>4 DEF ReadCas
<1>5. CASE WriteLoad(p)
  BY <1>5 DEF WriteLoad
<1>6. CASE WriteCas(p)
  BY <1>6 DEF WriteCas
<1>7. CASE Drain(p)
  BY <1>7 DEF Drain
<1>8. CASE ReadUnlock(p)
  <2>1. \A q \in RwCpus : rwAt[q] # "writing"
    <3>1. p \in Reading
      BY <1>8 DEF ReadUnlock, Reading
    <3> QED
      BY <3>1, ReadingFinite, FS_EmptySet DEF RwCounted
  <2> QED
    BY <1>8, <2>1 DEF ReadUnlock
<1>9. CASE WriteUnlock(p)
  BY <1>9 DEF WriteUnlock
<1> QED
  BY <1>1, <1>2, <1>3, <1>4, <1>5, <1>6, <1>7, <1>8, <1>9 DEF RwStep

LEMMA RwInvariance == RwSpec => []RwInv
<1>1. RwInv /\ [RwNext]_rwVars => RwInv'
  <2>1. CASE UNCHANGED rwVars
    BY <2>1 DEF rwVars, RwInv, RwType, SeenFree, FlagOwned, RwCounted, Reading, Writing
  <2> QED
    BY <2>1, RwTypeStep, RwCountedStep, RwOwnedStep DEF RwNext, RwInv
<1> QED
  BY RwInitInv, <1>1, PTL DEF RwSpec

(* A writer is alone: RwExclusion, for every set of processors. *)
THEOREM RwSpinLockExclusion == RwSpec => []RwExclusion
<1>1. RwInv => RwExclusion
  <2> SUFFICES ASSUME RwInv, NEW p \in RwCpus, rwAt[p] = "writing"
               PROVE  Reading = {} /\ Writing = {p}
    BY DEF RwExclusion
  <2>1. Reading = {}
    BY ReadingFinite, FS_EmptySet DEF RwInv, FlagOwned, RwCounted
  <2>2. Writing = {p}
    BY DEF RwInv, FlagOwned, Writing
  <2> QED
    BY <2>1, <2>2
<1> QED
  BY RwInvariance, <1>1, PTL

(* The reader count is exact: RwCounted. *)
THEOREM RwSpinLockCounted == RwSpec => []RwCounted
<1>1. RwInv => RwCounted
  BY DEF RwInv
<1> QED
  BY RwInvariance, <1>1, PTL

(* RwExcludes of the runs (rwlock.rs:88-210), for every set of processors. *)
THEOREM RwSpinLockExcludes == RwSpec => []RwExcludes
<1>1. RwInv => RwType
  BY DEF RwInv
<1> QED
  BY <1>1, RwInvariance, RwSpinLockExclusion, RwSpinLockCounted, PTL DEF RwExcludes
=============================================================================
