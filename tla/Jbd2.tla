-------------------------------- MODULE Jbd2 --------------------------------
(***************************************************************************)
(* journal_replay.rs: the walk over a JBD2 log after a crash.  The kernel  *)
(* only replays; the log was written by another system's ext4, modelled    *)
(* from the format that the walk reads (the writer's actions are external):*)
(* per transaction an optional revoke block, a descriptor with its tags,   *)
(* one data block per tag and a commit block, one block per step, in a     *)
(* ring.  The content of a filesystem block is the number of the           *)
(* transaction that wrote it.                                              *)
(***************************************************************************)
EXTENDS Integers, Sequences, FiniteSets, SequencesExt

CONSTANTS FsBlocks,     \* filesystem blocks that transactions write
          MaxLen,       \* s_maxlen: the ring is the blocks First .. MaxLen - 1
          MaxSeq        \* bound: transactions

VARIABLES log,          \* ring position -> block
          s_start,      \* of the journal superblock; 0: clean
          fs,           \* filesystem block -> content
          head, todo,   \* writer: next position, and the blocks still to write of its transaction
          live,         \* writer: committed transactions that are not checkpointed
          truth,        \* writer: the content that the committed transactions make
          tid,          \* writer: number of its transaction
          stale,        \* a descriptor of an earlier lap is left behind the end of the log
          phase,        \* "up", "down", "walk", "apply", "mark", "mounted"
          walk          \* locals of replay_contiguous

logVars == <<log, s_start, fs>>
writerVars == <<head, todo, live, truth, tid, stale>>
jbdVars == <<logVars, writerVars, phase, walk>>

First == 1
Ring == First .. MaxLen - 1
Blank == [typ |-> "blank"]

next_rel(rel) == IF rel + 1 >= MaxLen THEN First ELSE rel + 1

(* An escaped data block has lost its first word. *)
Descriptor(seq, tags) == [typ |-> "descriptor", seq |-> seq, tags |-> tags]
Data(v, escaped) == [typ |-> "data", value |-> IF escaped THEN -v ELSE v]
Commit(seq) == [typ |-> "commit", seq |-> seq]
Revoke(seq) == [typ |-> "revoke", seq |-> seq]

NoWalk == [rel |-> 0, scanned |-> 0, pending |-> << >>, pending_seq |-> 0, replayed |-> FALSE]

JbdInit ==
    /\ log = [i \in Ring |-> Blank]
    /\ s_start = 0
    /\ fs = [b \in FsBlocks |-> 0]
    /\ head = First /\ todo = << >>
    /\ live = << >>
    /\ truth = [b \in FsBlocks |-> 0]
    /\ tid = 0
    /\ stale = FALSE
    /\ phase = "up"
    /\ walk = NoWalk
-----------------------------------------------------------------------------
(* The writer. *)

(* Positions of the log that a replay needs, from s_start to head. *)
Ahead(rel, n) == First + ((rel - First + n) % Cardinality(Ring))
InUse == FoldLeft(LAMBDA n, t : n + t.length, 0, live)

BeginTransaction ==
    /\ phase = "up" /\ todo = << >> /\ tid < MaxSeq
    /\ \E blocks \in SeqOf(FsBlocks, 2), escaped \in BOOLEAN, revoke \in BOOLEAN :
         /\ blocks # << >> /\ IsInjective(blocks)
         /\ ~ (escaped /\ revoke)     \* bound: not both in one transaction
         /\ LET tags == [i \in DOMAIN blocks |-> [fs_block |-> blocks[i], escape |-> escaped]]
                body == <<Descriptor(tid + 1, tags)>> \o [i \in DOMAIN blocks |-> Data(tid + 1, escaped)]
                        \o <<Commit(tid + 1)>>
            IN  todo' = IF revoke THEN <<Revoke(tid + 1)>> \o body ELSE body
    /\ InUse + Len(todo') <= Cardinality(Ring)
    /\ tid' = tid + 1
    /\ s_start' = IF s_start = 0 THEN head ELSE s_start
    /\ UNCHANGED <<log, fs, head, live, truth, stale, phase, walk>>

Written(t) == {log[i].tags : i \in {j \in Ring : log[j].typ = "descriptor" /\ log[j].seq = t}}

(* One block of the transaction reaches the log; with the commit block the *)
(* transaction counts.                                                     *)
WriteLogBlock ==
    /\ phase = "up" /\ todo # << >>
    /\ log' = [log EXCEPT ![head] = Head(todo)]
    /\ head' = next_rel(head)
    /\ todo' = Tail(todo)
    /\ IF Head(todo).typ # "commit"
       THEN UNCHANGED <<live, truth>>
       ELSE \E tags \in Written(tid) :
              /\ live' = Append(live, [seq |-> tid, blocks |-> {tags[i].fs_block : i \in DOMAIN tags},
                                       length |-> Len(tags) + 2 +
                                         Cardinality({i \in Ring : log[i].typ = "revoke" /\ log[i].seq = tid})])
              /\ truth' = [b \in FsBlocks |-> IF \E i \in DOMAIN tags : tags[i].fs_block = b THEN tid ELSE truth[b]]
    /\ UNCHANGED <<s_start, fs, tid, stale, phase, walk>>

(* Checkpoint of the oldest transaction: its blocks are in place and the   *)
(* log begins behind it.                                                   *)
Checkpoint ==
    /\ phase = "up" /\ todo = << >> /\ live # << >>
    /\ fs' = [b \in FsBlocks |-> IF b \in Head(live).blocks /\ fs[b] < Head(live).seq THEN Head(live).seq ELSE fs[b]]
    /\ live' = Tail(live)
    /\ s_start' = IF Len(live) = 1 THEN 0 ELSE Ahead(s_start, Head(live).length)
    /\ UNCHANGED <<log, head, todo, truth, tid, stale, phase, walk>>

(* The blocks behind the end of the log, up to the first that was never    *)
(* written, hold a descriptor of an earlier lap; the walk skips the data   *)
(* blocks that a torn transaction did not get to write.                    *)
Leftover ==
    \E n \in 0 .. Cardinality(Ring) - 1 :
      /\ log[Ahead(head, n)].typ = "descriptor"
      /\ \A k \in 0 .. n : /\ log[Ahead(head, k)].typ # "blank" \/ k < Len(todo) - 1
                           /\ Ahead(head, k) # s_start

(* A crash, while the log is written or while it is replayed. *)
Crash ==
    /\ phase \in {"up", "walk", "apply", "mark"}
    /\ phase' = "down"
    /\ todo' = << >>
    /\ stale' = IF phase = "up" THEN Leftover ELSE stale
    /\ walk' = NoWalk
    /\ UNCHANGED <<logVars, head, live, truth, tid>>
-----------------------------------------------------------------------------
(* replay_contiguous. *)

(* parse_tags: a tag for block 0 is left out. *)
parse_tags(desc) == SelectSeq(desc.tags, LAMBDA tag : tag.fs_block # 0)

(* The superblock is read; a clean journal is left alone. *)
Mount ==
    /\ phase = "down"
    /\ IF s_start = 0
       THEN phase' = "mounted" /\ UNCHANGED walk
       ELSE phase' = "walk" /\ walk' = [NoWalk EXCEPT !.rel = s_start]
    /\ UNCHANGED <<logVars, writerVars>>

(* What a tag puts into its block; a header read as data is no content. *)
NoContent == MaxSeq + 1
Unescaped(tag, blk) == CASE blk.typ # "data" -> NoContent
                         [] blk.typ = "data" /\ tag.escape -> -blk.value
                         [] OTHER -> blk.value

(* The tags whose data lies before the place where the walk began. *)
Readable(tags) == SubSeq(tags, 1, Cardinality({i \in DOMAIN tags : \A j \in 2 .. i : Ahead(walk.rel, j) # s_start}))

(* The end of the walk. *)
Ended == walk.scanned >= MaxLen \/ log[walk.rel].typ \in {"blank", "data"}
Stop(w) == IF w.replayed THEN "mark" ELSE "mounted"

(* The position behind n more blocks; the walk ends where it began. *)
Advance(w, n) ==
    LET rel == Ahead(w.rel, n)
    IN  /\ walk' = [w EXCEPT !.rel = rel, !.scanned = @ + n]
        /\ phase' = IF rel = s_start THEN Stop(w) ELSE "walk"

WalkDescriptor ==
    /\ phase = "walk" /\ ~ Ended
    /\ log[walk.rel].typ = "descriptor"
    /\ LET tags == Readable(parse_tags(log[walk.rel]))
           data == [i \in DOMAIN tags |-> log[Ahead(walk.rel, i)]]
           read == [i \in DOMAIN tags |-> <<tags[i].fs_block, Unescaped(tags[i], data[i])>>]
       IN  Advance([walk EXCEPT !.pending = read, !.pending_seq = log[walk.rel].seq], 1 + Len(tags))
    /\ UNCHANGED <<logVars, writerVars>>

(* Mutant: a commit of any transaction will do. *)
WalkCommitAny ==
    /\ phase = "walk" /\ ~ Ended
    /\ log[walk.rel].typ = "commit"
    /\ IF walk.pending # << >>
       THEN phase' = "apply" /\ UNCHANGED walk
       ELSE Advance([walk EXCEPT !.pending = << >>], 1)
    /\ UNCHANGED <<logVars, writerVars>>

(* A commit that matches has its blocks written; another drops them. *)
WalkCommit ==
    /\ phase = "walk" /\ ~ Ended
    /\ log[walk.rel].typ = "commit"
    /\ IF log[walk.rel].seq = walk.pending_seq /\ walk.pending # << >>
       THEN phase' = "apply" /\ UNCHANGED walk
       ELSE Advance([walk EXCEPT !.pending = << >>], 1)
    /\ UNCHANGED <<logVars, writerVars>>

Apply ==
    /\ phase = "apply"
    /\ IF walk.pending # << >>
       THEN /\ fs' = [fs EXCEPT ![Head(walk.pending)[1]] = Head(walk.pending)[2]]
            /\ walk' = [walk EXCEPT !.pending = Tail(@)]
            /\ UNCHANGED phase
       ELSE Advance([walk EXCEPT !.replayed = TRUE], 1) /\ UNCHANGED fs
    /\ UNCHANGED <<log, s_start, writerVars>>

WalkRevoke ==
    /\ phase = "walk" /\ ~ Ended
    /\ log[walk.rel].typ = "revoke"
    /\ Advance([walk EXCEPT !.pending = << >>], 1)
    /\ UNCHANGED <<logVars, writerVars>>

WalkEnd ==
    /\ phase = "walk" /\ Ended
    /\ phase' = Stop(walk)
    /\ UNCHANGED <<logVars, writerVars, walk>>

(* The journal is marked clean once something was replayed. *)
MarkClean ==
    /\ phase = "mark"
    /\ s_start' = 0
    /\ phase' = "mounted"
    /\ UNCHANGED <<log, fs, writerVars, walk>>

Replay == Mount \/ WalkDescriptor \/ WalkCommit \/ Apply \/ WalkRevoke \/ WalkEnd \/ MarkClean

JbdNext == BeginTransaction \/ WriteLogBlock \/ Checkpoint \/ Crash \/ Replay
-----------------------------------------------------------------------------
JbdType ==
    /\ DOMAIN log = Ring
    /\ s_start \in {0} \cup Ring /\ head \in Ring
    /\ phase \in {"up", "down", "walk", "apply", "mark", "mounted"}
    /\ walk.rel \in {0} \cup Ring /\ walk.scanned \in 0 .. MaxLen + 2
    /\ InUse <= Cardinality(Ring)

(* Replay puts back what was committed and nothing else: when it ends,     *)
(* every filesystem block holds the newest committed content, whatever the *)
(* block of the log at which the writer stopped and however often the      *)
(* replay itself was cut short ("applies committed filesystem blocks, and  *)
(* discards a torn transaction", journal_replay.rs:3).                     *)
ReplayedTruth == phase = "mounted" /\ ~ stale => fs = truth

(* A replay that is not cut short by another crash comes to its end: the   *)
(* walk does not go round the ring for ever.                               *)
ReplayEnds == phase \in {"walk", "apply", "mark"} ~> phase \in {"mounted", "down"}

(* A replay puts back what was committed and nothing else, within the      *)
(* ring.                                                                   *)
ReplaySound == JbdType /\ ReplayedTruth
=============================================================================
