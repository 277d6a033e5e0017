----------------------------- MODULE RwSpinLock -----------------------------
(***************************************************************************)
(* The reader-writer locks of rwlock.rs (a writer bit and a count) and of  *)
(* arch/smp/locks.rs (a count, or -1), one step per atomic operation.      *)
(* Both words are a writer flag and a number of readers.                   *)
(***************************************************************************)
EXTENDS Naturals, FiniteSets

CONSTANT RwCpus

ASSUME RwAssumption == IsFiniteSet(RwCpus)

VARIABLES word,      \* state: the writer flag and the number of readers
          bit,       \* rigid: the lock of rwlock.rs; otherwise that of arch/smp
          rwAt,      \* where each processor is
          seen       \* the word loaded for a compare_exchange; Free outside of one

rwVars == <<word, bit, rwAt, seen>>

Words == [writer : BOOLEAN, readers : Nat]
Free  == [writer |-> FALSE, readers |-> 0]
RwPlaces == {"out", "read", "readcas", "try", "trycas", "reading",
             "write", "writecas", "drain", "writing"}

RwInit ==
  /\ word = Free
  /\ bit \in BOOLEAN
  /\ rwAt = [p \in RwCpus |-> "out"]
  /\ seen = [p \in RwCpus |-> Free]

RwGoto(p, place) == rwAt' = [rwAt EXCEPT ![p] = place]

(* The call of read, write or try_read; arch/smp has no try_read. *)
RwCall(p) ==
  /\ rwAt[p] = "out"
  /\ \E place \in {"read", "write", "try"} : (place = "try" => bit) /\ RwGoto(p, place)
  /\ UNCHANGED <<word, bit, seen>>

(* Mutant: readers do not look at the writer bit. *)
ReadLoadBlind(p) ==
  /\ rwAt[p] \in {"read", "try"}
  /\ seen' = [seen EXCEPT ![p] = word]
  /\ RwGoto(p, IF rwAt[p] = "read" THEN "readcas" ELSE "trycas")
  /\ UNCHANGED <<word, bit>>

(* The load of read, which loops while there is a writer, and of try_read, *)
(* which gives up.                                                         *)
ReadLoad(p) ==
  /\ \/ /\ rwAt[p] = "read" /\ ~ word.writer
        /\ RwGoto(p, "readcas")
     \/ /\ rwAt[p] = "try"
        /\ RwGoto(p, IF word.writer THEN "out" ELSE "trycas")
  /\ seen' = [seen EXCEPT ![p] = IF word.writer THEN Free ELSE word]
  /\ UNCHANGED <<word, bit>>

(* compare_exchange of s by s + 1. *)
ReadCas(p) ==
  /\ rwAt[p] \in {"readcas", "trycas"}
  /\ IF word = seen[p]
       THEN /\ word' = [word EXCEPT !.readers = @ + 1]
            /\ RwGoto(p, "reading")
       ELSE /\ RwGoto(p, IF rwAt[p] = "readcas" THEN "read" ELSE "out")
            /\ UNCHANGED word
  /\ seen' = [seen EXCEPT ![p] = Free]
  /\ UNCHANGED bit

(* rwlock.rs: load, and set the bit if no writer has. *)
WriteLoad(p) ==
  /\ bit
  /\ rwAt[p] = "write" /\ ~ word.writer
  /\ seen' = [seen EXCEPT ![p] = word]
  /\ RwGoto(p, "writecas")
  /\ UNCHANGED <<word, bit>>

WriteCas(p) ==
  /\ rwAt[p] = "writecas"
  /\ IF word = seen[p]
       THEN /\ word' = [word EXCEPT !.writer = TRUE]
            /\ RwGoto(p, "drain")
       ELSE /\ RwGoto(p, "write")
            /\ UNCHANGED word
  /\ seen' = [seen EXCEPT ![p] = Free]
  /\ UNCHANGED bit

(* The wait for readers to drain. *)
Drain(p) ==
  /\ rwAt[p] = "drain"
  /\ word.readers = 0
  /\ RwGoto(p, "writing")
  /\ UNCHANGED <<word, bit, seen>>

(* try_write of rwlock.rs, and write of arch/smp: one exchange of the free *)
(* word.  A failed try_write changes nothing.                              *)
WriteFree(p) ==
  /\ rwAt[p] = (IF bit THEN "out" ELSE "write")
  /\ word = Free
  /\ word' = [Free EXCEPT !.writer = TRUE]
  /\ RwGoto(p, "writing")
  /\ UNCHANGED <<bit, seen>>

ReadUnlock(p) ==
  /\ rwAt[p] = "reading"
  /\ word' = [word EXCEPT !.readers = @ - 1]
  /\ RwGoto(p, "out")
  /\ UNCHANGED <<bit, seen>>

WriteUnlock(p) ==
  /\ rwAt[p] = "writing"
  /\ word' = IF bit THEN [word EXCEPT !.writer = FALSE] ELSE Free
  /\ RwGoto(p, "out")
  /\ UNCHANGED <<bit, seen>>

(* What a processor that is in a call or holds the lock does next. *)
RwStep(p) ==
  \/ ReadLoad(p) \/ ReadCas(p) \/ WriteLoad(p) \/ WriteCas(p) \/ Drain(p)
  \/ ReadUnlock(p) \/ WriteUnlock(p)

RwNext == \E p \in RwCpus : RwCall(p) \/ WriteFree(p) \/ RwStep(p)

RwSpec == RwInit /\ [][RwNext]_rwVars

-----------------------------------------------------------------------------
Reading == {p \in RwCpus : rwAt[p] = "reading"}
Writing == {p \in RwCpus : rwAt[p] \in {"drain", "writing"}}

RwType ==
  /\ word \in Words
  /\ bit \in BOOLEAN
  /\ rwAt \in [RwCpus -> RwPlaces]
  /\ seen \in [RwCpus -> Words]

(* A writer is alone, though readers, other writers and the two try calls  *)
(* act on words they loaded some time ago ("exclusive writer",             *)
(* rwlock.rs:9).                                                           *)
RwExclusion ==
  \A p \in RwCpus : rwAt[p] = "writing" => Reading = {} /\ Writing = {p}

(* The count in the word is the number of readers inside: none is          *)
(* forgotten by a writer's unlock, and the subtraction never underflows    *)
(* into the writer bit.                                                    *)
RwCounted == word.readers = Cardinality(Reading)

(* Once a writer has set its bit it gets in: the readers inside leave and  *)
(* no new one passes it ("Writer-preferring", rwlock.rs:90).               *)
RwWriterEnters == \A p \in RwCpus : rwAt[p] = "drain" ~> rwAt[p] = "writing"

(* A writer is alone and no reader is forgotten.                           *)
RwExcludes == RwType /\ RwExclusion /\ RwCounted
=============================================================================
