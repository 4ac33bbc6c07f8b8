---------------------------- MODULE WriteBuffer ----------------------------
(***************************************************************************)
(* The open files of one macFUSE mount: file handles, the buffer that      *)
(* coalesces small writes of a handle, the reader/writer guard of a handle *)
(* and the callbacks that run concurrently on them.                        *)
(* Source: src/clients/macos/filesystem-macfuse/src/lib.rs.                *)
(*                                                                         *)
(* A byte is the number of the write that produced it (0 is a hole), so a  *)
(* file is a sequence of write numbers.  Every remote call may succeed,    *)
(* fail without effect, or fail (or exceed the callback deadline) after    *)
(* the server applied it.                                                  *)
(***************************************************************************)
EXTENDS Integers, Sequences, FiniteSets, TLC

LOCAL INSTANCE SequencesExt

CONSTANTS
    Files,          \* the inodes that can be opened
    Tasks,          \* callbacks in progress on the Tokio runtime
    Workloads,      \* bound: the sets of callbacks that are mixed in one behaviour
    MaxHandles,     \* bound: handles ever opened
    MaxCalls,       \* bound: callbacks the kernel ever issues
    Accesses,       \* how files are opened: "read", "write", "both"
    MaxFaults,      \* bound: remote calls that fail
    Limit,          \* the negotiated write limit, and so the buffer threshold
    WriteRanges,    \* offset and length of the writes
    ReadRanges      \* offset and length of the reads

VARIABLES
    files,          \* the server's bytes
    history,        \* the server's bytes at each revision, newest last
    handles,        \* handle -> FileHandleRecord
    remote,         \* handles the server still holds open
    pending,        \* handle -> PendingWrite
    guard,          \* handle -> who holds its operation lock
    known,          \* discovered_metadata: the size known of a file
    mounted,
    workload,       \* the callbacks the kernel issues
    tasks,
    closing,        \* closes that a task of the runtime still has to send
    calls,
    faults,
    fate            \* write -> what became of it

vars == << files, history, handles, remote, pending, guard, known, mounted,
           workload, tasks, closing, calls, faults, fate >>

HandleIds == 1..MaxHandles
Writes    == 1..MaxCalls
NoHandle  == [open |-> FALSE]
NoBuffer  == [buffered |-> FALSE]
Unknown   == -1
Idle      == [op |-> "none", pc |-> "idle", send |-> << >>]

IsOpen(h)   == handles[h].open
CanRead(h)  == handles[h].access \in {"read", "both"}
CanWrite(h) == handles[h].access \in {"write", "both"}
Greater(a, b) == IF a > b THEN a ELSE b
Lesser(a, b)  == IF a < b THEN a ELSE b

-----------------------------------------------------------------------------
(* Bytes *)

PutBytes(content, start, data) ==
    [i \in 1..Greater(Len(content), start + Len(data)) |->
        IF i > start /\ i <= start + Len(data) THEN data[i - start]
        ELSE IF i <= Len(content) THEN content[i] ELSE 0]

Resize(content, size) ==
    [i \in 1..size |-> IF i <= Len(content) THEN content[i] ELSE 0]

Bytes(data) == {data[i] : i \in DOMAIN data}

\* PendingWrite::end
End(h) == pending[h].start + Len(pending[h].data)

Buffered(f) == {h \in HandleIds : pending[h] # NoBuffer /\ pending[h].file = f}

\* write_through sends its bytes in pieces of at most the write limit.
Chunks(h, f, start, data) ==
    [k \in 1..((Len(data) + Limit - 1) \div Limit) |->
        [h |-> h, file |-> f, start |-> start + (k - 1) * Limit,
         data |-> SubSeq(data, (k - 1) * Limit + 1, Lesser(k * Limit, Len(data)))]]

\* Writes that were acknowledged and have not reached the server.
Accepted == {w \in Writes : fate[w].is = "accepted"}

-----------------------------------------------------------------------------
(* The guards in handle_operations *)

Free(h)      == guard[h].exclusive = "none" /\ guard[h].shared = {}
Shareable(h) == guard[h].exclusive = "none"

\* The guards with those that task t holds dropped.
Dropped(t) ==
    [h \in HandleIds |->
        [exclusive |-> IF guard[h].exclusive = t THEN "none" ELSE guard[h].exclusive,
         shared |-> guard[h].shared \ {t}]]

\* The callback answers the kernel.
Reply(t) == tasks' = [tasks EXCEPT ![t] = Idle] /\ guard' = Dropped(t)

Step(t, change) == tasks' = [tasks EXCEPT ![t] = change @@ tasks[t]]

Fault == faults < MaxFaults /\ faults' = faults + 1

-----------------------------------------------------------------------------
Init ==
    /\ files = [f \in Files |-> << >>]
    /\ history = [f \in Files |-> << << >> >>]
    /\ handles = [h \in HandleIds |-> NoHandle]
    /\ remote = {}
    /\ pending = [h \in HandleIds |-> NoBuffer]
    /\ guard = [h \in HandleIds |-> [exclusive |-> "none", shared |-> {}]]
    /\ known = [f \in Files |-> Unknown]
    /\ mounted = TRUE
    /\ workload \in Workloads
    /\ tasks = [t \in Tasks |-> Idle]
    /\ closing = {}
    /\ calls = 0
    /\ faults = 0
    /\ fate = [w \in Writes |-> [is |-> "unused", h |-> 0, file |-> 0, end |-> 0]]

Issued == calls < MaxCalls /\ calls' = calls + 1

\* open_async: the handle is numbered after the server opened the file.
\* (Bound: files are opened before the first other callback.)
Open(h, f, access) ==
    /\ mounted /\ calls = 0
    /\ handles[h] = NoHandle
    /\ \A g \in HandleIds : g < h => handles[g] # NoHandle
    /\ handles' = [handles EXCEPT ![h] =
                    [open |-> TRUE, file |-> f, access |-> access, locks |-> FALSE]]
    /\ remote' = remote \cup {h}
    /\ UNCHANGED << files, history, pending, guard, known, mounted, tasks,
                    closing, calls, faults, fate >>

\* A callback on one handle starts: file_operation finds the handle's guard.
\* A read only asks for the exclusive guard when it finds a buffer to flush.
Begin(t, op, h, off, len) ==
    /\ Issued
    /\ mounted /\ tasks[t] = Idle /\ IsOpen(h)
    /\ tasks' = [tasks EXCEPT ![t] =
        [op |-> op, h |-> h, out |-> h, off |-> off, len |-> len,
         todo |-> << >>, send |-> << >>, own |-> FALSE, failed |-> FALSE,
         before |-> {w \in Accepted : fate[w].h = h},
         data |-> << >>, rev |-> 0, again |-> FALSE,
         pc |-> IF op = "read" /\ pending[h] = NoBuffer THEN "share" ELSE "guard"]]
    /\ UNCHANGED << files, history, handles, remote, pending, guard, known,
                    mounted, closing, faults, fate >>

\* copy_file_range_async: access is checked before the guards are taken.
BeginCopy(t, h, out) ==
    /\ Issued
    /\ mounted /\ tasks[t] = Idle /\ IsOpen(h) /\ IsOpen(out)
    /\ CanRead(h) /\ CanWrite(out)
    /\ tasks' = [tasks EXCEPT ![t] =
        [op |-> "copy", h |-> h, out |-> out, off |-> 0, len |-> 1,
         todo |-> << >>, send |-> << >>, own |-> FALSE, failed |-> FALSE,
         before |-> {w \in Accepted : fate[w].h \in {h, out}}, pc |-> "guard"]]
    /\ UNCHANGED << files, history, handles, remote, pending, guard, known,
                    mounted, closing, faults, fate >>

\* setattr_async without a handle: flush_pending_for_inode lists the handles
\* that have a buffer for the file, in the order of a hash map, and flushes
\* them without their guards.
BeginPathTruncate(t, f) ==
    /\ Issued
    /\ mounted /\ tasks[t] = Idle
    /\ \E order \in SetToSeqs(Buffered(f)) :
        tasks' = [tasks EXCEPT ![t] =
            [op |-> "pathtruncate", file |-> f, send |-> << >>, todo |-> order,
             own |-> FALSE, failed |-> FALSE, pc |-> "flush",
             before |-> {w \in Accepted : fate[w].file = f}]]
    /\ UNCHANGED << files, history, handles, remote, pending, guard, known,
                    mounted, closing, faults, fate >>

\* getattr_async
BeginStat(t, f) ==
    /\ Issued
    /\ mounted /\ tasks[t] = Idle
    /\ tasks' = [tasks EXCEPT ![t] =
        [op |-> "stat", file |-> f, send |-> << >>, own |-> FALSE, size |-> 0,
         before |-> {w \in Accepted : fate[w].file = f}, pc |-> "metadata"]]
    /\ UNCHANGED << files, history, handles, remote, pending, guard, known,
                    mounted, closing, faults, fate >>

\* Mutant: the input is locked first, whatever its number.
InputFirst(task) == task.h

\* The handles of a copy are locked in the order of their numbers.
FirstGuard(task) == Lesser(task.h, task.out)

HoldsNone(t) == \A h \in HandleIds : guard[h].exclusive # t

\* The guard a callback still waits for.
LastGuard(t) ==
    CHOOSE h \in {tasks[t].h, tasks[t].out} :
        tasks[t].h # tasks[t].out => guard[h].exclusive # t

\* The first of the two guards of a copy.
GuardFirst(t) ==
    LET first == FirstGuard(tasks[t]) IN
    /\ tasks[t].pc = "guard" /\ tasks[t].h # tasks[t].out
    /\ HoldsNone(t)
    /\ Free(first)
    /\ guard' = [guard EXCEPT ![first].exclusive = t]
    /\ UNCHANGED << files, history, handles, remote, pending, known, mounted,
                    tasks, closing, calls, faults, fate >>

\* What a callback does once it holds its guards.  A release of a read-only
\* handle that never took a lock answers without the server.
AfterGuard(task) ==
    CASE task.op = "write" -> "coalesce"
      [] task.op = "lock" -> "remote"
      [] task.op = "release" /\ ~CanWrite(task.h) /\ ~handles[task.h].locks -> "detach"
      [] OTHER -> "flush"

\* Where a callback stands: once nothing is left to flush it goes on.
Phase(task) ==
    IF task.pc = "flush" /\ task.send = << >> /\ task.todo = << >>
    THEN CASE task.op = "write" -> "store"
           [] task.op = "read" -> "unguard"
           [] task.op = "release" -> "take"
           [] OTHER -> "remote"
    ELSE task.pc

\* Mutant: a copy flushes the handle it writes and not the one it reads.
FlushingOutput(task) == SelectSeq(<< task.out >>, LAMBDA h : pending[h] # NoBuffer)

\* The buffers it flushes before that, the input of a copy first.
Flushing(task) ==
    SelectSeq(IF task.h = task.out THEN << task.h >> ELSE << task.h, task.out >>,
              LAMBDA h : pending[h] # NoBuffer)

\* A handle that was released while the callback waited, and the wrong access,
\* fail it.
Refused(task) ==
    \/ ~IsOpen(task.h)
    \/ ~IsOpen(task.out)
    \/ task.op \in {"write", "allocate"} /\ ~CanWrite(task.h)

\* The last guard is granted.
Guard(t) ==
    LET task == tasks[t] IN
    /\ task.pc = "guard"
    /\ task.h # task.out => ~HoldsNone(t)
    /\ Free(LastGuard(t))
    /\ IF Refused(task)
       THEN Reply(t)
       ELSE /\ guard' = [guard EXCEPT ![LastGuard(t)].exclusive = t]
            /\ Step(t, [pc |-> AfterGuard(task),
                        todo |-> IF task.op \in {"write", "lock"} THEN << >>
                                 ELSE Flushing(task)])
    /\ UNCHANGED << files, history, handles, remote, pending, known, mounted,
                    closing, calls, faults, fate >>

-----------------------------------------------------------------------------
(* write_async *)

\* The write that a task carries out is the lowest unused number.
IsNext(w) == fate[w].is = "unused" /\ \A v \in Writes : v < w => fate[v].is # "unused"

Became(w, task, is) ==
    fate' = [fate EXCEPT ![w] = [is |-> is, h |-> task.h, file |-> handles[task.h].file,
                                 end |-> task.off + task.len]]

\* The write continues the buffer of its handle and stays within the threshold.
Fits(task) ==
    /\ pending[task.h] # NoBuffer
    /\ End(task.h) = task.off
    /\ Len(pending[task.h].data) + task.len <= Limit

\* Mutant: a short write that does not fit replaces the buffer.
SentFirstIfLong(task) == IF task.len < Limit THEN << >> ELSE << task.h >>

SentFirst(task) == << task.h >>

\* A write that fits is appended and acknowledged; any other write first sends
\* the buffer.
Coalesce(t) ==
    LET task == tasks[t]
        h == task.h
    IN
    /\ task.pc = "coalesce"
    /\ \E w \in Writes :
        /\ IsNext(w)
        /\ IF Fits(task)
           THEN /\ pending' = [pending EXCEPT ![h].data =
                                @ \o [i \in 1..task.len |-> w]]
                /\ Became(w, task, "accepted")
                /\ Reply(t)
           ELSE /\ Step(t, [pc |-> "flush", write |-> w, todo |-> SentFirst(task)])
                /\ Became(w, task, "begun")
                /\ UNCHANGED << pending, guard >>
    /\ UNCHANGED << files, history, handles, remote, known, mounted, closing,
                    calls, faults >>

\* After the old buffer is gone a short write becomes the new buffer and is
\* acknowledged; a write of at least the threshold is sent at once.
Store(t) ==
    LET task == tasks[t]
        f == handles[task.h].file
        data == [i \in 1..task.len |-> task.write]
    IN
    /\ Phase(task) = "store" /\ task.send = << >>
    /\ \/ /\ task.len < Limit
          /\ pending' = [pending EXCEPT ![task.h] =
                          [file |-> f, start |-> task.off, data |-> data]]
          /\ Became(task.write, task, "accepted")
          /\ Reply(t)
       \/ /\ task.len >= Limit /\ ~task.own
          /\ Step(t, [pc |-> "store", own |-> TRUE, send |-> Chunks(task.h, f, task.off, data)])
          /\ UNCHANGED << pending, guard, fate >>
       \/ /\ task.own
          /\ Became(task.write, task, "landed")
          /\ Reply(t)
          /\ UNCHANGED pending
    /\ UNCHANGED << files, history, handles, remote, known, mounted, closing,
                    calls, faults >>

-----------------------------------------------------------------------------
(* flush_pending and write_through *)

\* The buffer is removed before it is sent.
TakeBuffer(t) ==
    LET task == tasks[t]
        h == Head(task.todo)
    IN
    /\ task.pc = "flush" /\ task.send = << >> /\ task.todo # << >>
    /\ pending' = [pending EXCEPT ![h] = NoBuffer]
    /\ Step(t, [todo |-> Tail(task.todo),
                send |-> IF pending[h] = NoBuffer THEN << >>
                         ELSE Chunks(h, pending[h].file, pending[h].start, pending[h].data)])
    /\ UNCHANGED << files, history, handles, remote, guard, known, mounted,
                    closing, calls, faults, fate >>

\* The server's bytes of file f become content, at a new revision.
Replace(f, content) ==
    /\ files' = [files EXCEPT ![f] = content]
    /\ history' = [history EXCEPT ![f] = Append(@, content)]

\* The writes a chunk carries, when they were acknowledged before it was sent.
Carried(task, chunk) == IF task.own THEN {} ELSE Bytes(chunk.data)

\* One write_range is answered: the next chunk follows, and after the last one
\* every view of the file is invalidated.
SendChunk(t) ==
    LET task == tasks[t]
        chunk == Head(task.send)
    IN
    /\ task.send # << >>
    /\ chunk.h \in remote
    /\ Replace(chunk.file, PutBytes(files[chunk.file], chunk.start, chunk.data))
    /\ Step(t, [send |-> Tail(task.send)])
    /\ fate' = [w \in Writes |->
                 IF w \in Carried(task, chunk) THEN [fate[w] EXCEPT !.is = "landed"]
                 ELSE fate[w]]
    /\ known' = IF Len(task.send) = 1 THEN [known EXCEPT ![chunk.file] = Unknown] ELSE known
    /\ UNCHANGED << handles, remote, pending, guard, mounted, closing, calls, faults >>

\* A write_range fails, or the deadline passes, before or after the server
\* applied it.  The callback reports the error; only a release carries on.
SendFails(t) ==
    LET task == tasks[t]
        chunk == Head(task.send)
    IN
    /\ task.send # << >>
    /\ IF chunk.h \in remote
       THEN /\ Fault
            /\ \/ Replace(chunk.file, PutBytes(files[chunk.file], chunk.start, chunk.data))
               \/ UNCHANGED << files, history >>
       ELSE UNCHANGED << files, history, faults >>
    /\ fate' = [w \in Writes |->
                 CASE w \in Carried(task, chunk) -> [fate[w] EXCEPT !.is = "reported"]
                   [] task.op = "write" /\ w = task.write -> [fate[w] EXCEPT !.is = "refused"]
                   [] OTHER -> fate[w]]
    /\ IF task.op = "release"
       THEN Step(t, [send |-> << >>, failed |-> TRUE]) /\ UNCHANGED guard
       ELSE Reply(t)
    /\ UNCHANGED << handles, remote, pending, known, mounted, closing, calls >>

-----------------------------------------------------------------------------
(* read_async *)

\* The buffer is flushed: the read drops the exclusive guard and asks for the
\* shared one.
Unguard(t) ==
    /\ Phase(tasks[t]) = "unguard"
    /\ Step(t, [pc |-> "share"])
    /\ guard' = Dropped(t)
    /\ UNCHANGED << files, history, handles, remote, pending, known, mounted,
                    closing, calls, faults, fate >>

Share(t) ==
    LET task == tasks[t] IN
    /\ task.pc = "share" /\ Shareable(task.h)
    /\ IF IsOpen(task.h) /\ CanRead(task.h)
       THEN /\ guard' = [guard EXCEPT ![task.h].shared = @ \cup {t}]
            /\ Step(t, [pc |-> "reading"])
       ELSE Reply(t)
    /\ UNCHANGED << files, history, handles, remote, pending, known, mounted,
                    closing, calls, faults, fate >>

\* The revision of a file counts the changes of its bytes.
Revision(f) == Len(history[f])

\* Mutant: the revisions of the pieces are not compared.
NeverDrifted(task) == FALSE

Drifted(task) == task.rev # 0 /\ task.rev # Revision(handles[task.h].file)

\* One ranged read is answered.  The first pins the revision; a later one at
\* another revision restarts the assembly, once.
ReadChunk(t) ==
    LET task == tasks[t]
        f == handles[task.h].file
        position == task.off + Len(task.data)
        requested == Lesser(task.len - Len(task.data), Limit)
        received == SubSeq(files[f], position + 1, Lesser(position + requested, Len(files[f])))
    IN
    /\ task.pc = "reading" /\ task.h \in remote
    /\ \/ /\ Drifted(task) /\ task.again
          /\ Reply(t)
       \/ /\ Drifted(task) /\ ~task.again
          /\ Step(t, [data |-> << >>, rev |-> 0, again |-> TRUE])
          /\ UNCHANGED guard
       \/ /\ ~Drifted(task)
          /\ Step(t, [data |-> task.data \o received, rev |-> Revision(f),
                      pc |-> IF Len(received) < requested
                                \/ Len(task.data) + requested = task.len
                             THEN "answer" ELSE "reading"])
          /\ UNCHANGED guard
    /\ UNCHANGED << files, history, handles, remote, pending, known, mounted,
                    closing, calls, faults, fate >>

\* The assembled bytes are returned, or the remote read failed.
EndRead(t) ==
    /\ \/ tasks[t].pc = "answer" /\ UNCHANGED faults
       \/ tasks[t].pc = "reading" /\ Fault
    /\ Reply(t)
    /\ UNCHANGED << files, history, handles, remote, pending, known, mounted,
                    closing, calls, fate >>

-----------------------------------------------------------------------------
(* The remote call of the other callbacks *)

Target(task) ==
    IF task.op = "pathtruncate" THEN task.file ELSE handles[task.out].file

Outcome(task) ==
    LET content == files[Target(task)] IN
    CASE task.op \in {"truncate", "pathtruncate"} -> Resize(content, 0)
      [] task.op = "allocate" -> Resize(content, Greater(Len(content), task.off + task.len))
      [] task.op = "copy" -> PutBytes(content, task.off,
                                      SubSeq(files[handles[task.h].file], 1,
                                             Lesser(task.len, Len(files[handles[task.h].file]))))
      [] OTHER -> content

Mutating == {"truncate", "pathtruncate", "allocate", "copy"}

Apply(task) ==
    IF task.op \in Mutating THEN Replace(Target(task), Outcome(task))
    ELSE UNCHANGED << files, history >>

\* The call succeeds: views are invalidated, a truncate also remembers the
\* returned metadata, and a granted lock marks the handle.
Remote(t) ==
    LET task == tasks[t] IN
    /\ Phase(task) = "remote"
    /\ task.op # "pathtruncate" => task.h \in remote
    /\ Apply(task)
    /\ known' = CASE task.op \in {"truncate", "pathtruncate"} ->
                        [known EXCEPT ![Target(task)] = Len(Outcome(task))]
                  [] task.op \in {"allocate", "copy"} ->
                        [known EXCEPT ![Target(task)] = Unknown]
                  [] OTHER -> known
    /\ handles' = IF task.op = "lock" /\ IsOpen(task.h)
                  THEN [handles EXCEPT ![task.h].locks = TRUE] ELSE handles
    /\ Reply(t)
    /\ UNCHANGED << remote, pending, mounted, closing, calls, faults, fate >>

RemoteFails(t) ==
    LET task == tasks[t] IN
    /\ Phase(task) = "remote"
    /\ Fault
    /\ Apply(task) \/ UNCHANGED << files, history >>
    /\ Reply(t)
    /\ UNCHANGED << handles, remote, pending, known, mounted, closing, calls, fate >>

\* getattr_async: the size comes from the cache or from the server ...
FetchSize(t) ==
    LET task == tasks[t]
        size == IF known[task.file] = Unknown THEN Len(files[task.file]) ELSE known[task.file]
    IN
    /\ task.pc = "metadata"
    /\ \/ /\ Step(t, [pc |-> "extend", size |-> size])
          /\ known' = [known EXCEPT ![task.file] = size]
          /\ UNCHANGED << faults, guard >>
       \/ /\ known[task.file] = Unknown /\ Fault
          /\ Reply(t)
          /\ UNCHANGED known
    /\ UNCHANGED << files, history, handles, remote, pending, mounted, closing, calls, fate >>

\* ... and the answer is extended to the end of the buffers of the file, which
\* changes no state.
EndStat(t) ==
    /\ tasks[t].pc = "extend"
    /\ Reply(t)
    /\ UNCHANGED << files, history, handles, remote, pending, known, mounted,
                    closing, calls, faults, fate >>

-----------------------------------------------------------------------------
(* release_async and destroy_mount *)

\* take_file_handle: the record, the guard and any rest of the buffer go.
Taken(hs) ==
    /\ handles' = [h \in HandleIds |->
                    IF h \in hs /\ IsOpen(h) THEN [handles[h] EXCEPT !.open = FALSE]
                    ELSE handles[h]]

TakeHandle(t) ==
    LET h == tasks[t].h IN
    /\ Phase(tasks[t]) = "take"
    /\ IF IsOpen(h)
       THEN /\ Taken({h})
            /\ pending' = [pending EXCEPT ![h] = NoBuffer]
            /\ Step(t, [pc |-> "close"])
            /\ UNCHANGED guard
       ELSE Reply(t) /\ UNCHANGED << handles, pending >>
    /\ UNCHANGED << files, history, remote, known, mounted, closing, calls, faults, fate >>

\* The remote descriptor is closed whatever the flush did.
Close(t) ==
    /\ tasks[t].pc = "close"
    /\ \/ remote' = remote \ {tasks[t].h} /\ UNCHANGED faults
       \/ Fault /\ UNCHANGED remote
    /\ Reply(t)
    /\ UNCHANGED << files, history, handles, pending, known, mounted, closing, calls, fate >>

\* A read-only handle without locks is closed in the background.
Detach(t) ==
    LET h == tasks[t].h IN
    /\ tasks[t].pc = "detach"
    /\ Taken({h})
    /\ pending' = [pending EXCEPT ![h] = NoBuffer]
    /\ closing' = closing \cup {[h |-> h, guarded |-> FALSE]}
    /\ Reply(t)
    /\ UNCHANGED << files, history, remote, known, mounted, calls, faults, fate >>

\* Mutant: destroy_mount closes a descriptor that callbacks still use.
NeverWaits(c) == TRUE
Waits(c) == c.guarded => Free(c.h)

CloseDetached(c) ==
    /\ c \in closing
    /\ Waits(c)
    /\ closing' = closing \ {c}
    /\ \/ remote' = remote \ {c.h} /\ UNCHANGED faults
       \/ Fault /\ UNCHANGED remote
    /\ UNCHANGED << files, history, handles, pending, guard, known, mounted, tasks,
                    calls, fate >>

\* destroy_mount drains the handles without their guards and leaves the
\* buffers alone; each close waits for the callbacks of its handle.
Destroy ==
    /\ mounted
    /\ mounted' = FALSE
    /\ Taken(HandleIds)
    /\ closing' = closing \cup {[h |-> h, guarded |-> TRUE] : h \in {g \in HandleIds : IsOpen(g)}}
    /\ UNCHANGED << files, history, remote, pending, guard, known, tasks, calls,
                    faults, fate >>

-----------------------------------------------------------------------------
\* One action per callback; those that differ only in what the server is asked
\* for take the same steps afterwards.
ReadAsync(t)     == \E h \in HandleIds, r \in ReadRanges : Begin(t, "read", h, r[1], r[2])
WriteAsync(t)    == \E h \in HandleIds, r \in WriteRanges : Begin(t, "write", h, r[1], r[2])
FlushAsync(t)    == \E h \in HandleIds : Begin(t, "flush", h, 0, 0)
FsyncAsync(t)    == \E h \in HandleIds : Begin(t, "fsync", h, 0, 0)
LseekAsync(t)    == \E h \in HandleIds : Begin(t, "seek", h, 0, 0)
AllocateAsync(t) == \E h \in HandleIds, r \in WriteRanges : Begin(t, "allocate", h, r[1], r[2])
SetattrAsync(t)  == \E h \in HandleIds : Begin(t, "truncate", h, 0, 0)
SetLockAsync(t)  == \E h \in HandleIds : Begin(t, "lock", h, 0, 0)
ReleaseAsync(t)  == \E h \in HandleIds : Begin(t, "release", h, 0, 0)

Issue(t) ==
    \/ "read" \in workload /\ ReadAsync(t)
    \/ "write" \in workload /\ WriteAsync(t)
    \/ "flush" \in workload /\ FlushAsync(t)
    \/ "fsync" \in workload /\ FsyncAsync(t)
    \/ "seek" \in workload /\ LseekAsync(t)
    \/ "allocate" \in workload /\ AllocateAsync(t)
    \/ "truncate" \in workload /\ SetattrAsync(t)
    \/ "lock" \in workload /\ SetLockAsync(t)
    \/ "release" \in workload /\ ReleaseAsync(t)
    \/ "copy" \in workload /\ \E h, out \in HandleIds : BeginCopy(t, h, out)
    \/ "pathtruncate" \in workload /\ \E f \in Files : BeginPathTruncate(t, f)
    \/ "stat" \in workload /\ \E f \in Files : BeginStat(t, f)

Enter(t) == GuardFirst(t) \/ Guard(t) \/ Share(t)

Run(t) ==
    \/ Coalesce(t) \/ Store(t)
    \/ TakeBuffer(t) \/ SendChunk(t) \/ SendFails(t)
    \/ Unguard(t) \/ ReadChunk(t) \/ EndRead(t)
    \/ Remote(t) \/ RemoteFails(t)
    \/ FetchSize(t) \/ EndStat(t)
    \/ TakeHandle(t) \/ Close(t) \/ Detach(t)

Next ==
    /\ \/ \E h \in HandleIds, f \in Files, access \in Accesses : Open(h, f, access)
       \/ \E t \in Tasks : Issue(t) \/ Enter(t) \/ Run(t)
       \/ \E c \in closing : CloseDetached(c)
       \/ "destroy" \in workload /\ Destroy
    /\ UNCHANGED workload

Spec == Init /\ [][Next]_vars

-----------------------------------------------------------------------------
(* Properties *)

InFlight(t) == UNION {Bytes(tasks[t].send[i].data) : i \in DOMAIN tasks[t].send}

OnThePath(w) == \E t \in Tasks : tasks[t].op = "pathtruncate" /\ w \in InFlight(t)

\* The write, whose bytes were accepted, is with the server, or a callback has
\* reported that it failed.
Settled(w) == fate[w].is \in {"landed", "reported"}

TypeOK ==
    /\ \A f \in Files : files[f] = history[f][Revision(f)]
    /\ \A h \in HandleIds :
        /\ pending[h] # NoBuffer =>
            Len(pending[h].data) \in 1..Limit /\ Bytes(pending[h].data) \subseteq Writes
        /\ guard[h].exclusive # "none" => guard[h].shared = {}
    /\ remote \subseteq HandleIds
    /\ faults \in 0..MaxFaults

\* write_async reports a short write as done while its bytes are only in the
\* buffer.  Until they reach the server such bytes are in the buffer of their
\* handle or in the hands of a callback that is sending them: no interleaving
\* of writes, flushes, truncates and releases drops them in silence.
AcceptedBytesKept ==
    \A w \in Accepted :
        \/ \E h \in HandleIds : pending[h] # NoBuffer /\ w \in Bytes(pending[h].data)
        \/ \E t \in Tasks : w \in InFlight(t)

\* "The buffer is flushed before any operation that must observe the server's
\* view of the file": when a read, a flush, an fsync, a seek, a truncate, a
\* preallocation, a copy or a close reaches the server, every write that was
\* acknowledged on its handles before it began is with the server or was
\* reported as failed.  The one exception is a buffer that a truncate by path
\* is sending at that moment, because it does not hold the handle's guard.
FlushedBeforeObserved ==
    \A t \in Tasks :
        tasks[t].op \notin {"lock", "pathtruncate"} /\ Phase(tasks[t]) \in {"reading", "answer", "remote", "take", "close"}
            => \A w \in tasks[t].before : Settled(w) \/ OnThePath(w)

\* A write that is sent at once never overtakes bytes of its handle that were
\* acknowledged before it and are still buffered (write_async sends the old
\* buffer first, under the exclusive guard).
NoOvertaking ==
    \A t \in Tasks :
        tasks[t].op = "write" /\ tasks[t].own
            => \A w \in Accepted : fate[w].h = tasks[t].h => OnThePath(w)

\* The bytes a read has put together, over several ranged reads and with other
\* handles writing in between, are those of one revision of the file.
ReadsAreWhole ==
    \A t \in Tasks :
        tasks[t].op = "read" /\ tasks[t].rev # 0 =>
            LET content == history[handles[tasks[t].h].file][tasks[t].rev]
            IN tasks[t].data = SubSeq(content, tasks[t].off + 1,
                                      Lesser(tasks[t].off + Len(tasks[t].data), Len(content)))

\* While mounted only an open handle has a buffer: no write is buffered after
\* the release of its handle took the record away.
BuffersAreOfOpenHandles ==
    mounted => \A h \in HandleIds : pending[h] # NoBuffer => IsOpen(h)

\* A callback asks the server for a descriptor that is still open there: neither
\* a release nor the closes of destroy_mount overtake it.
DescriptorsAreOpen ==
    \A t \in Tasks :
        tasks[t].op # "pathtruncate" /\ Phase(tasks[t]) \in {"reading", "remote"}
            => tasks[t].h \in remote

\* Callbacks never wait for one another in a circle: while one is unanswered,
\* some callback can go on.  copy_file_range_async takes the guards of its two
\* handles in the order of their numbers, whichever is the input.
NoCircularWait ==
    (\E t \in Tasks : tasks[t] # Idle) => \E t \in Tasks : ENABLED (Run(t) \/ Enter(t))
=============================================================================
