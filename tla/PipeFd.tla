------------------------------- MODULE PipeFd -------------------------------
(***************************************************************************)
(* Pipes (ipc/mod.rs), the per-process descriptor tables that refer to     *)
(* them (fs/fd.rs, syscall/fd.rs) and splice and tee (ipc/splice.rs).      *)
(*                                                                         *)
(* Every call runs under PROCESS_FD_TABLES and is one step, but splice,    *)
(* which takes the lock twice.  create_pipe runs before the lock is taken; *)
(* nobody else knows the new id, so it is part of the same step.           *)
(*                                                                         *)
(* sent and got are history variables.                                     *)
(***************************************************************************)
EXTENDS Integers, Sequences, FiniteSets

CONSTANTS
    Pids,       \* processes; the least one exists at the start
    MaxFds,     \* MAX_FDS, without stdin, stdout and stderr
    MaxPipes,   \* bound: pipes that are ever created
    Capacity,   \* PIPE_BUF_SIZE
    Bytes,
    MaxOffset,  \* size of the regular file
    Scenarios   \* the machines and workloads to look at, see scenario

ASSUME PidAssumption == Pids \subseteq Nat /\ IsFiniteSet(Pids) /\ Pids # {}
ASSUME BoundAssumption ==
    /\ MaxFds \in Nat /\ MaxPipes \in Nat /\ MaxOffset \in Nat
    /\ Capacity \in Nat \ {0}
ASSUME ScenarioAssumption ==
    \A s \in Scenarios :
        /\ s.pids \subseteq Pids /\ s.bytes \subseteq Bytes
        /\ s.fds \in 0 .. MaxFds /\ s.pipes \in 0 .. MaxPipes
        /\ s.sent \in Nat /\ s.files \in Nat

Fds == 0 .. MaxFds - 1
Ids == 1 .. MaxPipes
Ends == {"read", "write"}

VARIABLES
    scenario,   \* never changes: what is used of each set, and the bounds below
    proc,       \* "unborn", "live" or "dead"
    table,      \* PROCESS_FD_TABLES
    pipe,       \* PIPES
    splice,     \* the splice each process is in, after its read
    opened,     \* open file descriptions made so far
    sent,       \* history: what was written to each pipe
    got         \* history: what was taken from each pipe

vars == <<scenario, proc, table, pipe, splice, opened, sent, got>>

Workload == scenario.calls  \* the calls that happen
UsedFds == 0 .. scenario.fds - 1
MaxSent == scenario.sent    \* bound: bytes written to one pipe
MaxFiles == scenario.files  \* bound: open file descriptions that are ever made

NoFile == [kind |-> "none", id |-> 0, offset |-> 0, cloexec |-> FALSE]
NoPipe == [state |-> "none", readers |-> 0, writers |-> 0, buffer |-> <<>>]
NoSplice == [out |-> 0, bytes |-> <<>>]
EmptyTable == [fd \in Fds |-> NoFile]

Calls(p, call) == call \in Workload /\ proc[p] = "live" /\ splice[p] = NoSplice

First(n, s) == SubSeq(s, 1, IF n < Len(s) THEN n ELSE Len(s))
Rest(n, s) == SubSeq(s, n + 1, Len(s))

(* The lowest free descriptors. *)
FreeFds(t) == {fd \in UsedFds : t[fd] = NoFile}
AllocFd(t) == {fd \in FreeFds(t) : \A f \in FreeFds(t) : fd <= f}
-----------------------------------------------------------------------------
Init ==
    /\ scenario \in Scenarios
    /\ proc = [p \in Pids |-> IF \A q \in Pids : p <= q THEN "live" ELSE "unborn"]
    /\ table = [p \in Pids |-> EmptyTable]
    /\ pipe = [i \in Ids |-> NoPipe]
    /\ splice = [p \in Pids |-> NoSplice]
    /\ opened = 0
    /\ sent = [i \in Ids |-> <<>>]
    /\ got = [i \in Ids |-> <<>>]

(* close_read and close_write.  A pipe whose state is "closed" has been    *)
(* removed from PIPES.                                                     *)
CloseEnd(q, end) ==
    LET r == IF end = "read" /\ q.readers > 0 THEN q.readers - 1 ELSE q.readers
        w == IF end = "write" /\ q.writers > 0 THEN q.writers - 1 ELSE q.writers
        state == IF end = "read" /\ r = 0
                 THEN IF q.state = "wclosed" THEN "closed" ELSE "rclosed"
                 ELSE IF end = "write" /\ w = 0
                      THEN IF q.state = "rclosed" THEN "closed" ELSE "wclosed"
                      ELSE q.state
    IN  IF q.state = "closed" THEN q
        ELSE [q EXCEPT !.readers = r, !.writers = w, !.state = state]

(* Mutant: every pipe descriptor closes the read side. *)
PipesAfterCloseRead(entry) ==
    IF entry.kind \in Ends THEN [pipe EXCEPT ![entry.id] = CloseEnd(@, "read")] ELSE pipe

(* PIPES after FdTable::close of an entry. *)
PipesAfterClose(entry) ==
    IF entry.kind \in Ends THEN [pipe EXCEPT ![entry.id] = CloseEnd(@, entry.kind)] ELSE pipe

(* sys_pipe, sys_pipe2: the table may be full after the first descriptor,  *)
(* or before it; the pipe stays.                                           *)
MakePipe(p, cloexec) ==
    LET entry(end, i) == [NoFile EXCEPT !.kind = end, !.id = i, !.cloexec = cloexec]
    IN  /\ Calls(p, "pipe")
        /\ "emfile" \in Workload \/ Cardinality(FreeFds(table[p])) >= 2
        /\ \E i \in Ids :
              /\ i <= scenario.pipes
              /\ pipe[i].state = "none"
              /\ \A j \in Ids : j < i => pipe[j].state # "none"
              /\ pipe' = [pipe EXCEPT ![i] = [NoPipe EXCEPT !.state = "open", !.readers = 1, !.writers = 1]]
              /\ \/ /\ FreeFds(table[p]) = {}
                    /\ UNCHANGED table
                 \/ \E r \in AllocFd(table[p]) :
                       LET t == [table[p] EXCEPT ![r] = entry("read", i)]
                       IN  \/ /\ FreeFds(t) = {}
                              /\ table' = [table EXCEPT ![p][r] = [entry("read", i) EXCEPT !.cloexec = FALSE]]
                           \/ \E w \in AllocFd(t) :
                                 table' = [table EXCEPT ![p] = [t EXCEPT ![w] = entry("write", i)]]
        /\ UNCHANGED <<proc, splice, opened, sent, got, scenario>>

(* FdTable::open of a regular file: a new open file description. *)
OpenFile(p, cloexec) ==
    /\ Calls(p, "file")
    /\ opened < MaxFiles
    /\ opened' = opened + 1
    /\ \E fd \in AllocFd(table[p]) :
           table' = [table EXCEPT ![p][fd] =
                        [kind |-> "file", id |-> opened + 1, offset |-> 0, cloexec |-> cloexec]]
    /\ UNCHANGED <<proc, pipe, splice, sent, got, scenario>>

(* FdTable::read and lseek of a regular file move its offset. *)
MoveOffset(p, fd, offset) ==
    /\ Calls(p, "file")
    /\ table[p][fd].kind = "file"
    /\ table[p][fd].offset # offset
    /\ table' = [table EXCEPT ![p][fd].offset = offset]
    /\ UNCHANGED <<proc, pipe, splice, opened, sent, got, scenario>>

Close(p, fd) ==
    /\ Calls(p, "close")
    /\ table[p][fd] # NoFile
    /\ table' = [table EXCEPT ![p][fd] = NoFile]
    /\ pipe' = PipesAfterClose(table[p][fd])
    /\ UNCHANGED <<proc, splice, opened, sent, got, scenario>>

(* FdTable::dup *)
Dup(p, fd) ==
    /\ Calls(p, "dup")
    /\ table[p][fd] # NoFile
    /\ \E new \in AllocFd(table[p]) :
           table' = [table EXCEPT ![p][new] = [table[p][fd] EXCEPT !.cloexec = FALSE]]
    /\ UNCHANGED <<proc, pipe, splice, opened, sent, got, scenario>>

(* FdTable::dup2: the new number is closed first. *)
Dup2(p, fd, new) ==
    /\ Calls(p, "dup")
    /\ fd # new
    /\ table[p][fd] # NoFile
    /\ table' = [table EXCEPT ![p][new] = [table[p][fd] EXCEPT !.cloexec = FALSE]]
    /\ pipe' = PipesAfterClose(table[p][new])
    /\ UNCHANGED <<proc, splice, opened, sent, got, scenario>>

(* fork_fd_table *)
Fork(p, c) ==
    /\ Calls(p, "fork")
    /\ proc[c] = "unborn" /\ c \in scenario.pids
    /\ proc' = [proc EXCEPT ![c] = "live"]
    /\ table' = [table EXCEPT ![c] = table[p]]
    /\ UNCHANGED <<pipe, splice, opened, sent, got, scenario>>

(* close_cloexec_fds, for execve: the entries are removed. *)
Exec(p) ==
    /\ Calls(p, "exec")
    /\ table' = [table EXCEPT ![p] = [fd \in Fds |-> IF @[fd].cloexec THEN NoFile ELSE @[fd]]]
    /\ UNCHANGED <<proc, pipe, splice, opened, sent, got, scenario>>

(* destroy_fd_table *)
Exit(p) ==
    /\ Calls(p, "exit")
    /\ proc' = [proc EXCEPT ![p] = "dead"]
    /\ table' = [table EXCEPT ![p] = EmptyTable]
    /\ UNCHANGED <<pipe, splice, opened, sent, got, scenario>>
-----------------------------------------------------------------------------
Room(i) == Capacity - Len(pipe[i].buffer)

(* Mutant: the read side is not looked at. *)
CanWriteAnyState(i) == pipe[i].state \notin {"none", "closed"} /\ Room(i) > 0

(* Pipe::write succeeds on a pipe that has room and a reader. *)
CanWrite(i) == pipe[i].state \in {"open", "wclosed"} /\ Room(i) > 0

(* Pipe::write: as much as there is room for. *)
WriteBytes(i, data) ==
    /\ pipe' = [pipe EXCEPT ![i].buffer = @ \o First(Room(i), data)]
    /\ sent' = [sent EXCEPT ![i] = @ \o First(Room(i), data)]

Inputs == {<<b>> : b \in scenario.bytes} \cup {<<b, c>> : b, c \in scenario.bytes}

(* FdTable::write of a pipe *)
Write(p, fd, data) ==
    LET i == table[p][fd].id
    IN  /\ Calls(p, "write")
        /\ table[p][fd].kind = "write"
        /\ CanWrite(i)
        /\ Len(sent[i]) + Len(data) <= MaxSent
        /\ WriteBytes(i, data)
        /\ UNCHANGED <<proc, table, splice, opened, got, scenario>>

(* Mutant: the bytes are taken from the queue and one is returned. *)
ReadBytesOne(i, n) ==
    /\ pipe' = [pipe EXCEPT ![i].buffer = Rest(n, @)]
    /\ got' = [got EXCEPT ![i] = @ \o First(1, pipe[i].buffer)]

(* Pipe::read of up to n bytes *)
ReadBytes(i, n) ==
    /\ pipe' = [pipe EXCEPT ![i].buffer = Rest(n, @)]
    /\ got' = [got EXCEPT ![i] = @ \o First(n, pipe[i].buffer)]

(* Pipe::read succeeds on a pipe that holds data. *)
CanRead(i) == pipe[i].state \notin {"none", "closed"} /\ pipe[i].buffer # <<>>

(* FdTable::read of a pipe *)
Read(p, fd, n) ==
    LET i == table[p][fd].id
    IN  /\ Calls(p, "read")
        /\ table[p][fd].kind = "read"
        /\ CanRead(i)
        /\ ReadBytes(i, n)
        /\ UNCHANGED <<proc, table, splice, opened, sent, scenario>>

(* tee: both descriptors may be either end. *)
Tee(p, in, out, n) ==
    LET i == table[p][in].id
        j == table[p][out].id
    IN  /\ Calls(p, "tee")
        /\ table[p][in].kind \in Ends /\ table[p][out].kind \in Ends
        /\ i # j
        /\ CanRead(i)
        /\ CanWrite(j)
        /\ Len(sent[j]) + n <= MaxSent
        /\ WriteBytes(j, First(n, pipe[i].buffer))
        /\ UNCHANGED <<proc, table, splice, opened, got, scenario>>

(* splice, its read of one pipe ... *)
SpliceRead(p, in, out, n) ==
    LET i == table[p][in].id
    IN  /\ Calls(p, "splice")
        /\ table[p][in].kind = "read"
        /\ CanRead(i)
        /\ ReadBytes(i, n)
        /\ splice' = [splice EXCEPT ![p] = [out |-> out, bytes |-> First(n, pipe[i].buffer)]]
        /\ UNCHANGED <<proc, table, opened, sent, scenario>>

(* ... and, with the lock taken again, its write to the other.  What does  *)
(* not fit is dropped.                                                     *)
SpliceWrite(p) ==
    LET entry == table[p][splice[p].out]
        j == entry.id
        data == splice[p].bytes
    IN  /\ data # <<>>
        /\ entry.kind = "write" => Len(sent[j]) + Len(data) <= MaxSent
        /\ \/ /\ entry.kind = "write"
              /\ CanWrite(j)
              /\ WriteBytes(j, data)
           \/ /\ ~(entry.kind = "write" /\ CanWrite(j))
              /\ UNCHANGED <<pipe, sent>>
        /\ splice' = [splice EXCEPT ![p] = NoSplice]
        /\ UNCHANGED <<proc, table, opened, got, scenario>>
-----------------------------------------------------------------------------
(* O_CLOEXEC matters to execve only. *)
Flags == IF "exec" \in Workload THEN BOOLEAN ELSE {FALSE}

Next ==
    \E p \in Pids :
        \/ \E cloexec \in Flags : MakePipe(p, cloexec) \/ OpenFile(p, cloexec)
        \/ \E fd \in UsedFds : \/ Close(p, fd) \/ Dup(p, fd)
                               \/ \E o \in 0 .. MaxOffset : MoveOffset(p, fd, o)
                               \/ \E data \in Inputs : Write(p, fd, data)
                               \/ \E n \in 1 .. 2 : Read(p, fd, n)
        \/ \E fd, new \in UsedFds : \/ Dup2(p, fd, new)
                                    \/ \E n \in 1 .. 2 : Tee(p, fd, new, n) \/ SpliceRead(p, fd, new, n)
        \/ \E c \in Pids : Fork(p, c)
        \/ Exec(p) \/ Exit(p)
        \/ SpliceWrite(p)

Spec == Init /\ [][Next]_vars
-----------------------------------------------------------------------------
EndsOf(i, end) ==
    {e \in Pids \X Fds : table[e[1]][e[2]].kind = end /\ table[e[1]][e[2]].id = i}

(* The tables, pipes and splices have their types, and a pipe never holds  *)
(* more than PIPE_BUF_SIZE.                                                *)
TypeOK ==
    /\ proc \in [Pids -> {"unborn", "live", "dead"}]
    /\ table \in [Pids -> [Fds -> [kind : {"none", "file"} \cup Ends, id : Nat, offset : Nat,
                                   cloexec : BOOLEAN]]]
    /\ \A i \in Ids : /\ pipe[i].state \in {"none", "open", "rclosed", "wclosed", "closed"}
                      /\ {pipe[i].readers, pipe[i].writers} \subseteq {0, 1}
                      /\ pipe[i].buffer \in Seq(Bytes) /\ Len(pipe[i].buffer) <= Capacity
    /\ \A p \in Pids : splice[p].out \in Fds /\ splice[p].bytes \in Seq(Bytes)
    /\ opened \in Nat
    /\ \A i \in Ids : sent[i] \in Seq(Bytes) /\ got[i] \in Seq(Bytes)

(* A pipe is a queue: what has been read, followed by what it holds, is    *)
(* what was written, whoever writes, reads, splices or tees.               *)
Fifo == \A i \in Ids : got[i] \o pipe[i].buffer = sent[i]

(* The state of a pipe agrees with its counts: a side is closed when its   *)
(* count is zero, and a pipe is removed only when both sides are closed.   *)
StateAgrees ==
    \A i \in Ids :
        /\ pipe[i].state = "open" => pipe[i].readers > 0 /\ pipe[i].writers > 0
        /\ pipe[i].state = "rclosed" => pipe[i].readers = 0 /\ pipe[i].writers > 0
        /\ pipe[i].state = "wclosed" => pipe[i].readers > 0 /\ pipe[i].writers = 0
        /\ pipe[i].state = "closed" => pipe[i].readers = 0 /\ pipe[i].writers = 0

(* A side that is closed stays closed: a reader that has seen the end of   *)
(* the file, or a writer that has got EPIPE, gets it again.                *)
ClosedForGood ==
    [][\A i \in Ids :
          /\ pipe[i].state \in {"rclosed", "closed"} =>
                 pipe'[i].state \in {"rclosed", "closed"} /\ sent'[i] = sent[i]
          /\ pipe[i].state \in {"wclosed", "closed"} => pipe'[i].state \in {"wclosed", "closed"}]_vars

(* A reader never sees the end of the file, and never loses the pipe,      *)
(* while some process has its write end open.                              *)
NoEarlyEof == \A i \in Ids : EndsOf(i, "write") # {} => pipe[i].state \in {"open", "rclosed"}

(* As long as descriptors are not copied, dropped or refused (no dup,      *)
(* fork, execve, exit, full table), the counts of a pipe are the           *)
(* descriptors open on it: neither side closes while an end of it is open, *)
(* and the reader sees the end of the file once no write end is.           *)
DescriptorsCounted ==
    Workload \cap {"dup", "fork", "exec", "exit", "emfile"} = {} =>
        /\ NoEarlyEof
        /\ \A i \in Ids :
              /\ EndsOf(i, "read") # {} => pipe[i].state \in {"open", "wclosed"}
              /\ EndsOf(i, "write") = {} => pipe[i].state \notin {"open", "rclosed"}
              /\ pipe[i].state \notin {"none", "closed"} =>
                    /\ pipe[i].readers = Cardinality(EndsOf(i, "read"))
                    /\ pipe[i].writers = Cardinality(EndsOf(i, "write"))

(* The state of a pipe, its counts and the descriptors open on it agree.   *)
PipesCounted == TypeOK /\ StateAgrees /\ DescriptorsCounted
=============================================================================
