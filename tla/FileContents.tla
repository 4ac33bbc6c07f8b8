---------------------------- MODULE FileContents ----------------------------
(***************************************************************************)
(* How the server orders the operations on the contents of files.  Every   *)
(* file has a content gate (a read-write lock shared by all its handles)   *)
(* and a mutex for appends; an operation takes what it needs and then runs *)
(* its system calls on a blocking thread.  A request that is given up (its *)
(* deadline passed, its connection is gone) drops its guards, and work     *)
(* already on a blocking thread goes on without them; only writes and      *)
(* set_xattr are detached from their requests.                             *)
(* Source: src/crates/server-core/src/lib.rs, and the dispatch of          *)
(* src/servers/linux/server-daemon/src/main.rs.                            *)
(***************************************************************************)
EXTENDS Integers, Sequences, FiniteSets, TLC

LOCAL INSTANCE SequencesExt

CONSTANTS
    Files,          \* numbers: the order of the file identities
    Tasks,
    Workloads,      \* [ops, on]: operations, pairs of files; a behaviour has one
    MaxCalls,       \* bound: requests
    MaxGivenUp,     \* bound: requests that are given up
    MaxFaults       \* bound: system calls that fail

VARIABLES
    content,        \* file -> sequence of the requests that wrote each cell
    revision,       \* file -> revision: any change of the file gives a new one
    fork,           \* file -> its resource fork, a file beside the export
    attr,           \* file -> the parts of an extended attribute
    gate,           \* content_operations: file -> tasks inside, and how
    appender,       \* append_operations: file -> task that holds the mutex
    tasks,
    orphans,        \* work whose request was given up
    workload, calls, givenUp, faults

files == << content, revision, fork, attr >>
locks == << gate, appender >>
vars  == << files, locks, tasks, orphans, workload, calls, givenUp, faults >>

Cells  == 2         \* cells of a file; a system call handles one
Nobody == 0
Idle   == [op |-> "none", pc |-> "idle"]

Open   == [shared |-> {}, writer |-> Nobody]

Init ==
    /\ content = [f \in Files |-> [i \in 1..Cells |-> << "old", f >>]]
    /\ revision = [f \in Files |-> 0]
    /\ fork = [f \in Files |-> << "old", f >>]
    /\ attr = [f \in Files |-> [i \in 1..3 |-> << "old", 0 >>]]
    /\ gate = [f \in Files |-> Open]
    /\ appender = [f \in Files |-> Nobody]
    /\ tasks = [t \in Tasks |-> Idle]
    /\ orphans = {}
    /\ workload \in Workloads
    /\ calls = 0 /\ givenUp = 0 /\ faults = 0

-----------------------------------------------------------------------------
(* Locks and system calls of the operations *)

\* set_xattr: where the part goes in a chunked transfer, and the three modes.
Position == [setattr |-> 1, createattr |-> 1, replaceattr |-> 1, setmiddle |-> 2, setend |-> 3]

\* operation_gate.write(): alone; read(): together.
Exclusive == {"truncate", "allocate", "sync", "copy", "exchange", "removeattr"} \cup DOMAIN Position

\* Mutant: the gates are taken in the order of the arguments.
ArgumentOrder(f, g) == << f, g >>

\* The lock order of two files is that of their identities.
GateOrder(f, g) == IF f <= g THEN << f, g >> ELSE << g, f >>

\* Mutant: copy_file_range locks its input only.
InputGate(f, g) == << f >>

\* copy_file_range: one gate when input and output are the same file.
CopyGates(f, g) == IF f = g THEN << f >> ELSE GateOrder(f, g)

ReadCalls     == << "before", "get", "get", "after" >>      \* read_consistent
WriteCalls    == << "put", "put" >>                         \* write_all_at
AppendCalls   == << "add", "add" >>
CopyCalls     == << "sizes", "copy", "copy" >>              \* copy_range_server
ContentsCalls == << "sizes", "save", "empty", "fill", "emptyother", "fillother" >>
ForkCalls     == << "forks", "forkleft", "forkright" >>     \* exchange_resource_forks

-----------------------------------------------------------------------------
(* Requests.  One that is refused (unknown handle, read-only export, wrong  *)
(* access or range) changes nothing and is left out.                        *)

Begin(t, op, f, g, gates, steps) ==
    /\ tasks[t] = Idle /\ calls < MaxCalls /\ op \in workload.ops /\ << f, g >> \in workload.on
    /\ calls' = calls + 1
    /\ tasks' = [tasks EXCEPT ![t] =
          [op |-> op, pc |-> "gates", f |-> f, g |-> g, id |-> << op, calls + 1 >>,
           waits |-> gates, steps |-> steps, at |-> 1, failed |-> FALSE,
           rev |-> 0, size |-> 0, seen |-> << >>, saved |-> << >>, was |-> << >>]]
    /\ UNCHANGED << files, locks, orphans, workload, givenUp, faults >>

Read(t, f) == Begin(t, "read", f, f, << f >>, ReadCalls)
WriteOwned(t, f) == \/ Begin(t, "write", f, f, << f >>, WriteCalls)
                    \/ Begin(t, "append", f, f, << f >>, AppendCalls)
\* With a handle under its gate; by path with none.
SetAttributes(t, f) == \/ Begin(t, "truncate", f, f, << f >>, << "cut" >>)
                       \/ Begin(t, "pathtruncate", f, f, << >>, << "cut" >>)
Sync(t, f) == Begin(t, "sync", f, f, << f >>, << "look" >>)
Allocate(t, f) == Begin(t, "allocate", f, f, << f >>, << "grow" >>)
SeekFile(t, f) == Begin(t, "seek", f, f, << f >>, << "look" >>)
MapBlock(t, f) == Begin(t, "mapblock", f, f, << f >>, << "look" >>)
CopyFileRange(t, f, g) == Begin(t, "copy", f, g, CopyGates(f, g), CopyCalls)
ExchangeData(t, f, g) == /\ f # g
                         /\ Begin(t, "exchange", f, g, GateOrder(f, g), ContentsCalls \o ForkCalls)
GetXattr(t, f) == Begin(t, "getattr", f, f, << f >>, << "getattr" >>)
ListXattrs(t, f) == Begin(t, "listattrs", f, f, << f >>, << "getattr" >>)
SetXattr(t, f) == \E op \in DOMAIN Position : Begin(t, op, f, f, << f >>, << "getattr", "setattr" >>)
RemoveXattr(t, f) == Begin(t, "removeattr", f, f, << f >>, << "dropattr" >>)

Request(t) ==
    \E f, g \in Files :
        \/ f = g /\ (\/ Read(t, f) \/ WriteOwned(t, f) \/ SetAttributes(t, f) \/ Sync(t, f)
                     \/ Allocate(t, f) \/ SeekFile(t, f) \/ MapBlock(t, f) \/ GetXattr(t, f)
                     \/ ListXattrs(t, f) \/ SetXattr(t, f) \/ RemoveXattr(t, f))
        \/ CopyFileRange(t, f, g)
        \/ ExchangeData(t, f, g)

Continue(t, change) == tasks' = [tasks EXCEPT ![t] = change @@ tasks[t]]

\* tokio's RwLock: a writer alone, readers together.
MayEnter(t, f) ==
    /\ gate[f].writer = Nobody
    /\ tasks[t].op \in Exclusive => gate[f].shared = {}

Entered(t, f) ==
    IF tasks[t].op \in Exclusive THEN [gate EXCEPT ![f].writer = t]
    ELSE [gate EXCEPT ![f].shared = @ \cup {t}]

EnterGate(t) ==
    LET task == tasks[t] IN
    /\ task.pc = "gates" /\ task.waits # << >>
    /\ MayEnter(t, Head(task.waits))
    /\ gate' = Entered(t, Head(task.waits))
    /\ Continue(t, [waits |-> Tail(task.waits)])
    /\ UNCHANGED << files, appender, orphans, workload, calls, givenUp, faults >>

\* write_owned on a handle opened for appending waits for the mutex as well.
MayAppend(t) == tasks[t].op = "append" => appender[tasks[t].f] = Nobody

\* History for the properties: the files when the work began.
Snapshot(task) == [here |-> content[task.f], there |-> content[task.g],
                   fork |-> fork[task.f], otherfork |-> fork[task.g], attr |-> attr[task.f]]

Work(t) ==
    LET task == tasks[t] IN
    /\ task.pc = "gates" /\ task.waits = << >> /\ MayAppend(t)
    /\ appender' = IF task.op = "append" THEN [appender EXCEPT ![task.f] = t] ELSE appender
    /\ Continue(t, [pc |-> "work", was |-> Snapshot(task)])
    /\ UNCHANGED << files, gate, orphans, workload, calls, givenUp, faults >>

\* The guards of a task are dropped.
LeftGates(t) ==
    [f \in Files |-> [shared |-> gate[f].shared \ {t},
                      writer |-> IF gate[f].writer = t THEN Nobody ELSE gate[f].writer]]
LeftAppender(t) == [f \in Files |-> IF appender[f] = t THEN Nobody ELSE appender[f]]

-----------------------------------------------------------------------------
(* System calls *)

\* Writing a cell of a file that may have become shorter leaves a hole.
PutCell(s, i, value) ==
    [k \in 1..(IF Len(s) < i THEN i ELSE Len(s)) |->
        IF k = i THEN value ELSE IF k <= Len(s) THEN s[k] ELSE << "hole", 0 >>]

\* How many calls of the same kind the work has made before.
Nth(work) == Cardinality({k \in 1..work.at : work.steps[k] = work.steps[work.at]})

\* Mutant: read_consistent trusts a file whose size is what it was.
ReadSameSize(work) == Len(content[work.f]) = work.size

\* read_consistent: the revision before and after must agree.
ReadConsistent(work) == revision[work.f] = work.rev

\* read_resource_fork_range of the whole fork.
OptionalFork(file) == fork[file]

Changed(file, s) == /\ content' = [content EXCEPT ![file] = s]
                    /\ revision' = [revision EXCEPT ![file] = @ + 1]
                    /\ UNCHANGED << fork, attr >>
Forked(file, value) == fork' = [fork EXCEPT ![file] = value] /\ UNCHANGED << content, revision, attr >>

\* From the start the value is replaced; elsewhere it is written over.
Merged(value, work) == IF Position[work.op] = 1 THEN << work.id >>
                       ELSE PutCell(value, Position[work.op], work.id)

\* What one system call does to the files.
Effect(work) ==
    LET step == work.steps[work.at]
        here == content[work.f]
        there == content[work.g]
        k == Nth(work)
    IN
    CASE step = "put" -> Changed(work.f, PutCell(here, k, work.id))
      [] step = "add" -> Changed(work.f, Append(here, work.id))
      [] step = "cut" -> Changed(work.f, SubSeq(here, 1, IF here = << >> THEN 0 ELSE 1))
      [] step = "grow" -> Changed(work.f, IF Len(here) < Cells THEN PutCell(here, Cells, << "hole", 0 >>) ELSE here)
      [] step = "copy" /\ k <= work.size /\ k <= Len(here) -> Changed(work.g, PutCell(there, k, here[k]))
      [] step = "empty" -> Changed(work.f, << >>)
      [] step = "fill" -> Changed(work.f, SubSeq(there, 1, IF Len(there) < work.rev THEN Len(there) ELSE work.rev))
      [] step = "emptyother" -> Changed(work.g, << >>)
      [] step = "fillother" -> Changed(work.g, work.saved)
      [] step = "forkleft" -> Forked(work.f, work.seen[2])
      [] step = "forkright" -> Forked(work.g, work.seen[1])
      [] step = "forkback" -> Forked(work.f, work.seen[1])
      [] step = "setattr" -> attr' = [attr EXCEPT ![work.f] = Merged(work.seen, work)]
                             /\ UNCHANGED << content, revision, fork >>
      [] step = "dropattr" -> attr' = [attr EXCEPT ![work.f] = << >>]
                              /\ UNCHANGED << content, revision, fork >>
      [] OTHER -> UNCHANGED files

\* What an operation takes for an error: a source shorter than it was, a mode
\* of set_xattr that does not apply, an attribute that is not there.
Refuses(work) ==
    LET step == work.steps[work.at] IN
    CASE step = "copy" -> Nth(work) <= work.size /\ Nth(work) > Len(content[work.f])
      [] step = "save" -> Len(content[work.f]) < work.size
      [] step = "fill" -> Len(content[work.g]) < work.rev
      [] step = "getattr" /\ work.op = "createattr" -> attr[work.f] # << >>
      [] step \in {"getattr", "dropattr"} /\ work.op # "listattrs" /\ work.op \notin DOMAIN Position \ {"replaceattr"}
            -> attr[work.f] = << >>
      [] OTHER -> FALSE

Working(work) == work.at <= Len(work.steps)

\* An error ends the work; when the second fork cannot be replaced, the first
\* gets its old value back.
Failed(work) ==
    [work EXCEPT !.steps = IF work.steps[work.at] = "forkright" THEN << "forkback" >> ELSE << >>,
                 !.at = 1, !.failed = TRUE]

\* What the work knows after the call.
Learned(work) ==
    LET step == work.steps[work.at]
        here == content[work.f]
        done == [work EXCEPT !.at = @ + 1]
    IN
    CASE Refuses(work) -> Failed(work)
      [] step = "before" -> [done EXCEPT !.rev = revision[work.f], !.size = Len(here), !.saved = here]
      [] step = "get" /\ Nth(work) <= work.size /\ Nth(work) <= Len(here) /\ Len(work.seen) = Nth(work) - 1
            -> [done EXCEPT !.seen = Append(@, here[Nth(work)])]
      [] step = "after" /\ ~ReadConsistent(work) -> Failed(work)
      [] step = "sizes" -> [done EXCEPT !.size = Len(here), !.rev = Len(content[work.g])]
      [] step = "save" -> [done EXCEPT !.saved = SubSeq(here, 1, work.size)]
      [] step = "forks" -> [done EXCEPT !.seen = << OptionalFork(work.f), OptionalFork(work.g) >>]
      [] step = "getattr" -> [done EXCEPT !.seen = attr[work.f]]
      [] OTHER -> done

DoCall(t) ==
    /\ tasks[t].pc = "work" /\ Working(tasks[t])
    /\ Effect(tasks[t])
    /\ tasks' = [tasks EXCEPT ![t] = Learned(@)]
    /\ UNCHANGED << locks, orphans, workload, calls, givenUp, faults >>

\* A system call fails: the device is full, or broken.
CallFails(t) ==
    /\ tasks[t].pc = "work" /\ Working(tasks[t]) /\ faults < MaxFaults
    /\ faults' = faults + 1
    /\ tasks' = [tasks EXCEPT ![t] = Failed(@)]
    /\ UNCHANGED << files, locks, orphans, workload, calls, givenUp >>

\* The blocking thread is done: the guards are dropped and the answer is sent.
Reply(t) ==
    /\ tasks[t].pc = "work" /\ ~Working(tasks[t])
    /\ tasks' = [tasks EXCEPT ![t] = Idle]
    /\ gate' = LeftGates(t) /\ appender' = LeftAppender(t)
    /\ UNCHANGED << files, orphans, workload, calls, givenUp, faults >>

\* The daemon runs writes and set_xattr in tasks of their own, which go on with
\* their guards when the request is given up.
Detached == {"write", "append"} \cup DOMAIN Position

\* A request is given up while it waits or works: its future is dropped with
\* the guards, a closure already on a blocking thread is not.
GiveUp(t) ==
    /\ tasks[t] # Idle /\ tasks[t].op \notin Detached /\ givenUp < MaxGivenUp
    /\ givenUp' = givenUp + 1
    /\ orphans' = IF tasks[t].pc = "work" /\ Working(tasks[t])
                  THEN orphans \cup {tasks[t]} ELSE orphans
    /\ tasks' = [tasks EXCEPT ![t] = Idle]
    /\ gate' = LeftGates(t) /\ appender' = LeftAppender(t)
    /\ UNCHANGED << files, workload, calls, faults >>

\* It goes on with its system calls.
OrphanCalls(work) ==
    /\ Effect(work)
    /\ orphans' = (orphans \ {work}) \cup
                  (IF Working(Learned(work)) THEN {Learned(work)} ELSE {})
    /\ UNCHANGED << locks, tasks, workload, calls, givenUp, faults >>

-----------------------------------------------------------------------------
Step(t) == EnterGate(t) \/ Work(t) \/ DoCall(t) \/ Reply(t)

Next ==
    \/ \E t \in Tasks :
        \/ Request(t) \/ Step(t) \/ CallFails(t) \/ GiveUp(t)
    \/ \E work \in orphans : OrphanCalls(work)

\* tokio polls every task and blocking threads run.  A behaviour has finitely
\* many requests, so the fairness of the locks themselves does not matter.
Spec == Init /\ [][Next]_vars /\ \A t \in Tasks : WF_vars(Step(t))

-----------------------------------------------------------------------------
(* Properties *)

\* The shape of the state: a gate has one writer or several readers.
TypeOK ==
    /\ \A f \in Files :
        /\ gate[f].shared \subseteq Tasks /\ gate[f].writer \in Tasks \cup {Nobody}
        /\ gate[f].writer # Nobody => gate[f].shared = {}
        /\ Len(content[f]) <= Cells * (MaxCalls + 1)
    /\ appender \in [Files -> Tasks \cup {Nobody}]
    /\ workload \in Workloads /\ calls \in 0..MaxCalls
    /\ givenUp \in 0..MaxGivenUp /\ faults \in 0..MaxFaults

Finished(t) == tasks[t].pc = "work" /\ ~Working(tasks[t])

\* A read that succeeds returns bytes the file held together: writes share the
\* gate with it, truncation by path and abandoned work take none, and the two
\* revisions of read_consistent must find all of them out.
ReadsConsistent ==
    \A t \in Tasks :
        tasks[t].op = "read" /\ Finished(t) =>
            tasks[t].failed
            \/ tasks[t].seen = SubSeq(tasks[t].saved, 1,
                                  IF tasks[t].size < Cells THEN tasks[t].size ELSE Cells)

\* Everything that changes files holds a gate: nothing was given up or
\* truncated by path.
AllGated == givenUp = 0 /\ "pathtruncate" \notin workload.ops

\* What the exclusive gate is for: copy_file_range, exchange_data and set_xattr
\* at a position read first and write later, and their results are those of
\* running alone.
ExclusiveWorkIsAlone ==
    \A t \in Tasks :
        LET w == tasks[t] IN
        AllGated /\ Finished(t) /\ ~w.failed =>
            /\ w.op = "exchange" => /\ content[w.f] = w.was.there /\ content[w.g] = w.was.here
                                    /\ fork[w.f] = w.was.otherfork /\ fork[w.g] = w.was.fork
            /\ w.op = "copy" => SubSeq(content[w.g], 1, Len(w.was.here)) = w.was.here
            /\ w.op = "createattr" => w.was.attr = << >>
            /\ w.op \in DOMAIN Position => attr[w.f] = Merged(w.was.attr, w)

\* A failed exchange does not leave one resource fork changed.
ForksTogether ==
    \A t \in Tasks :
        LET w == tasks[t] IN
        AllGated /\ Finished(t) /\ w.op = "exchange" =>
            << fork[w.f], fork[w.g] >> \in {<< w.was.fork, w.was.otherfork >>,
                                            << w.was.otherfork, w.was.fork >>}

Interleaved(s) ==
    \E i, j, k \in DOMAIN s :
        i < j /\ j < k /\ s[i] = s[k] /\ s[i] # s[j] /\ s[i][1] = "append"

\* Appends are serialized for the file: the bytes of one stay together, also
\* when the request is given up while the write is under way.
AppendsWhole == \A f \in Files : ~Interleaved(content[f])

\* No operation waits for ever for a gate: those that take two agree on the
\* order.
RequestsEnd == \A t \in Tasks : []<>(tasks[t] = Idle)
=============================================================================
