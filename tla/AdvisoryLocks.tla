--------------------------- MODULE AdvisoryLocks ---------------------------
(***************************************************************************)
(* The byte-range lock service of server-core, as the daemon drives it.    *)
(*                                                                         *)
(* A session is one client connection, a task the daemon task that serves  *)
(* one request of it.  set_lock loops: it makes a `notified` future,       *)
(* looks at the table under the mutex, and awaits the future when the      *)
(* request has to wait.  Every handler that changes the table drops the    *)
(* mutex and only then calls notify_waiters, so the two are steps of their *)
(* own ("notify" is the point between them).  A waiting task keeps its     *)
(* Arc<OpenFile>: closing the handle does not end it.  Opening and closing *)
(* are modelled for what they do to handles and locks; the contents of     *)
(* files play no part here.                                                *)
(***************************************************************************)
EXTENDS LockTable

CONSTANTS Sessions,        \* connections, named by their session id
          Writers,         \* the sessions that may write (can_write)
          Owners, Pids,    \* FileLock.owner and FileLock.pid
          Files,           \* file identities
          Handles,         \* file handles
          OpenModes,       \* the accesses clients open files with
          WaitModes,       \* the wait flags clients send
          Tasks,           \* request tasks of the daemon
          MaxOffset,       \* stands for u64::MAX
          MaxLockRecords   \* MAX_LOCK_RECORDS

ASSUME LockConstants ==
    /\ Writers \subseteq Sessions
    /\ OpenModes \subseteq {"ReadOnly", "WriteOnly", "ReadWrite"}
    /\ WaitModes \subseteq BOOLEAN
    /\ MaxOffset \in Nat
    /\ MaxLockRecords \in Nat

VARIABLES locks,    \* the records of ExportShared.locks
          handles,  \* what each handle has open, or Closed
          tasks,    \* what each request task is doing
          session   \* the life of each connection

vars == <<locks, handles, tasks, session>>

Offsets   == 0 .. MaxOffset
LockKinds == {"Read", "Write"}
Accesses  == {"ReadOnly", "WriteOnly", "ReadWrite"}

CanRead(access)  == access \in {"ReadOnly", "ReadWrite"}
CanWrite(access) == access \in {"WriteOnly", "ReadWrite"}

FileLock == [owner : Owners, pid : Pids, kind : LockKinds \cup {"Unlock"},
             start : Offsets, end : Offsets]

LockRecord == [identity : Files, session : Sessions, owner : Owners,
               pid : Pids, kind : LockKinds, start : Offsets, end : Offsets]

Closed   == [open |-> FALSE]
OpenFile == [open : {TRUE}, session : Sessions, identity : Files,
             access : Accesses]

Idle == [pc |-> "idle"]
Notifying(s) == [pc |-> "notify", session |-> s]
LockTask == [pc : {"check", "waiting"}, session : Sessions, identity : Files,
             requested : FileLock, wait : BOOLEAN, woken : BOOLEAN]

Init ==
    /\ locks = {}
    /\ handles = [h \in Handles |-> Closed]
    /\ tasks = [t \in Tasks |-> Idle]
    /\ session = [s \in Sessions |-> "live"]

-----------------------------------------------------------------------------
(***************************************************************************)
(* Requests                                                                *)
(***************************************************************************)

\* open: a fresh handle; write access needs a writable session.
Open(s, h, f, access) ==
    /\ session[s] = "live"
    /\ handles[h] = Closed
    /\ CanWrite(access) => s \in Writers
    /\ handles' = [handles EXCEPT ![h] =
            [open |-> TRUE, session |-> s, identity |-> f, access |-> access]]
    /\ UNCHANGED <<locks, tasks, session>>

ValidateLock(requested) == requested.start <= requested.end

ValidateLockAccess(opened, kind) ==
    /\ kind = "Read" => CanRead(opened.access)
    /\ kind = "Write" => CanWrite(opened.access)

\* set_lock up to the mutex: the checks, and the first `notified` future,
\* which notify_waiters wakes from here on.
SetLock(t, h, requested, wait) ==
    /\ tasks[t] = Idle
    /\ handles[h] # Closed
    /\ session[handles[h].session] = "live"
    /\ ValidateLock(requested)
    /\ requested.kind = "Write" => handles[h].session \in Writers
    /\ ValidateLockAccess(handles[h], requested.kind)
    /\ tasks' = [tasks EXCEPT ![t] =
            [pc |-> "check", session |-> handles[h].session,
             identity |-> handles[h].identity, requested |-> requested,
             wait |-> wait, woken |-> FALSE]]
    /\ UNCHANGED <<locks, handles, session>>

Blocked(task) ==
    /\ task.requested.kind # "Unlock"
    /\ Conflicts(locks, task.identity, task.session, task.requested) # {}

\* A mutant of Apply: the limit on the table is forgotten.
ApplyUnlimited(t) ==
    LET task == tasks[t]
    IN /\ task.pc = "check"
       /\ ~Blocked(task)
       /\ locks' = ReplaceOwnerRange(locks, task.identity, task.session,
                       task.requested, task.requested.kind # "Unlock")
       /\ tasks' = [tasks EXCEPT ![t] = Notifying(task.session)]
       /\ UNCHANGED <<handles, session>>

\* One look at the table under the mutex: grant or unlock, unless the table
\* would grow past its limit (TooManyLocks leaves it as it was).
Apply(t) ==
    LET task == tasks[t]
        next == ReplaceOwnerRange(locks, task.identity, task.session,
                    task.requested, task.requested.kind # "Unlock")
    IN /\ task.pc = "check"
       /\ ~Blocked(task)
       /\ \/ /\ Cardinality(next) <= MaxLockRecords
             /\ locks' = next
             /\ tasks' = [tasks EXCEPT ![t] = Notifying(task.session)]
          \/ /\ Cardinality(next) > MaxLockRecords
             /\ locks' = locks
             /\ tasks' = [tasks EXCEPT ![t] = Idle]
       /\ UNCHANGED <<handles, session>>

\* The look finds a conflict: WouldBlock, or await the future.
Refuse(t) ==
    /\ tasks[t].pc = "check"
    /\ Blocked(tasks[t])
    /\ tasks' = [tasks EXCEPT ![t] =
            IF tasks[t].wait THEN [tasks[t] EXCEPT !.pc = "waiting"] ELSE Idle]
    /\ UNCHANGED <<locks, handles, session>>

\* The future completes; the loop makes a new one and looks again.
Retry(t) ==
    /\ tasks[t].pc = "waiting"
    /\ tasks[t].woken
    /\ tasks' = [tasks EXCEPT ![t] =
            [tasks[t] EXCEPT !.pc = "check", !.woken = FALSE]]
    /\ UNCHANGED <<locks, handles, session>>

\* A mutant of Abort: the tasks of a lost connection are joined, not aborted.
AbortOnDeadline(t) ==
    /\ tasks[t].pc = "waiting"
    /\ session[tasks[t].session] = "live"
    /\ tasks' = [tasks EXCEPT ![t] = Idle]
    /\ UNCHANGED <<locks, handles, session>>

\* The request deadline passes, or the connection's tasks are aborted, while
\* the task awaits.
Abort(t) ==
    /\ tasks[t].pc = "waiting"
    /\ tasks' = [tasks EXCEPT ![t] = Idle]
    /\ UNCHANGED <<locks, handles, session>>

-----------------------------------------------------------------------------
(***************************************************************************)
(* remove_locks and notify_waiters                                         *)
(***************************************************************************)

\* A mutant of AfterRemoval: nobody is told.
AfterRemovalSilent(s, removed) == Idle

\* The task that removed nothing returns at once.
AfterRemoval(s, removed) == IF removed = {} THEN Idle ELSE Notifying(s)

\* close: the handle goes, and every lock the session has on that file.
Close(t, h) ==
    LET opened  == handles[h]
        removed == {r \in locks : r.session = opened.session
                                  /\ r.identity = opened.identity}
    IN /\ tasks[t] = Idle
       /\ opened # Closed
       /\ session[opened.session] = "live"
       /\ handles' = [handles EXCEPT ![h] = Closed]
       /\ locks' = locks \ removed
       /\ tasks' = [tasks EXCEPT ![t] = AfterRemoval(opened.session, removed)]
       /\ UNCHANGED session

\* flush with a lock owner.
Flush(t, h, owner) ==
    LET opened  == handles[h]
        removed == {r \in locks : SameOwner(r, opened.identity,
                                            opened.session, owner)}
    IN /\ tasks[t] = Idle
       /\ opened # Closed
       /\ session[opened.session] = "live"
       /\ locks' = locks \ removed
       /\ tasks' = [tasks EXCEPT ![t] = AfterRemoval(opened.session, removed)]
       /\ UNCHANGED <<handles, session>>

\* notify_waiters wakes every future that exists.
WakeAll(task) ==
    IF task.pc \in {"check", "waiting"} THEN [task EXCEPT !.woken = TRUE]
                                        ELSE task

\* A mutant of NotifyWaiters: the handler of a lost connection stops between
\* the change of the table and the notification.
NotifyWhileLive(t) ==
    /\ tasks[t].pc = "notify"
    /\ session[tasks[t].session] = "live"
    /\ tasks' = [u \in Tasks |-> IF u = t THEN Idle ELSE WakeAll(tasks[u])]
    /\ UNCHANGED <<locks, handles, session>>

NotifyWaiters(t) ==
    /\ tasks[t].pc = "notify"
    /\ tasks' = [u \in Tasks |-> IF u = t THEN Idle ELSE WakeAll(tasks[u])]
    /\ UNCHANGED <<locks, handles, session>>

-----------------------------------------------------------------------------
(***************************************************************************)
(* The end of a connection                                                 *)
(***************************************************************************)

\* accept_bi fails: no further request is taken.
Disconnect(s) ==
    /\ session[s] = "live"
    /\ session' = [session EXCEPT ![s] = "closing"]
    /\ UNCHANGED <<locks, handles, tasks>>

Joined(s) == \A t \in Tasks : tasks[t] # Idle => tasks[t].session # s

\* A mutant of Cleanup: the tasks are not joined before the clean-up.
CleanupWithoutJoin(s) ==
    /\ session[s] = "closing"
    /\ locks' = {r \in locks : r.session # s}
    /\ handles' = [h \in Handles |->
            IF handles[h] # Closed /\ handles[h].session = s
            THEN Closed ELSE handles[h]]
    /\ session' = [session EXCEPT ![s] =
            IF locks' = locks THEN "gone" ELSE "notify"]
    /\ UNCHANGED tasks

\* All tasks are joined; cleanup_locks, and the session is dropped with its
\* handles.
Cleanup(s) ==
    /\ session[s] = "closing"
    /\ Joined(s)
    /\ locks' = {r \in locks : r.session # s}
    /\ handles' = [h \in Handles |->
            IF handles[h] # Closed /\ handles[h].session = s
            THEN Closed ELSE handles[h]]
    /\ session' = [session EXCEPT ![s] =
            IF locks' = locks THEN "gone" ELSE "notify"]
    /\ UNCHANGED tasks

NotifyGone(s) ==
    /\ session[s] = "notify"
    /\ session' = [session EXCEPT ![s] = "gone"]
    /\ tasks' = [t \in Tasks |-> WakeAll(tasks[t])]
    /\ UNCHANGED <<locks, handles>>

-----------------------------------------------------------------------------
Next ==
    \/ \E s \in Sessions, h \in Handles, f \in Files, a \in OpenModes :
          Open(s, h, f, a)
    \/ \E t \in Tasks, h \in Handles, requested \in FileLock, wait \in WaitModes :
          SetLock(t, h, requested, wait)
    \/ \E t \in Tasks : Apply(t)
    \/ \E t \in Tasks : Refuse(t)
    \/ \E t \in Tasks : Retry(t)
    \/ \E t \in Tasks : Abort(t)
    \/ \E t \in Tasks, h \in Handles : Close(t, h)
    \/ \E t \in Tasks, h \in Handles, o \in Owners : Flush(t, h, o)
    \/ \E t \in Tasks : NotifyWaiters(t)
    \/ \E s \in Sessions : Disconnect(s)
    \/ \E s \in Sessions : Cleanup(s)
    \/ \E s \in Sessions : NotifyGone(s)

Spec == Init /\ [][Next]_vars

(***************************************************************************)
(* Fairness: the runtime polls every ready task, so a started handler goes *)
(* on, a woken waiter looks again and the clean-up of a lost connection    *)
(* runs.  A task that abort_all has marked is dropped when it next awaits, *)
(* however often it was woken: strong fairness.  No client need ever send  *)
(* a request, disconnect or give up, so those steps are not fair.          *)
(***************************************************************************)
AbortLost(t) ==
    /\ tasks[t].pc = "waiting"
    /\ session[tasks[t].session] = "closing"
    /\ Abort(t)

Fairness ==
    /\ \A t \in Tasks : /\ WF_vars(Apply(t) \/ Refuse(t))
                        /\ WF_vars(Retry(t))
                        /\ WF_vars(NotifyWaiters(t))
                        /\ SF_vars(AbortLost(t))
    /\ \A s \in Sessions : WF_vars(Cleanup(s)) /\ WF_vars(NotifyGone(s))

FairSpec == Spec /\ Fairness

-----------------------------------------------------------------------------
(***************************************************************************)
(* Properties                                                              *)
(***************************************************************************)

\* The types of the variables: a record of the table is a granted lock, a
\* task in set_lock carries its request, and the table respects
\* MAX_LOCK_RECORDS.
TypeOK ==
    /\ locks \subseteq LockRecord
    /\ IsFiniteSet(locks)
    /\ Cardinality(locks) <= MaxLockRecords
    /\ handles \in [Handles -> OpenFile \cup {Closed}]
    /\ tasks \in [Tasks -> {Idle} \cup {Notifying(s) : s \in Sessions}
                                  \cup LockTask]
    /\ session \in [Sessions -> {"live", "closing", "notify", "gone"}]

Holder(record) == <<record.session, record.owner>>

\* Mutual exclusion of set_lock: two records of one file that share a byte
\* belong to different owners and are both read locks (so a write lock
\* excludes everybody else's, and one owner never has two locks on a byte).
Exclusion ==
    \A left, right \in locks :
        left # right /\ left.identity = right.identity
            /\ RangesOverlap(left, right)
        => /\ Holder(left) # Holder(right)
           /\ left.kind = "Read" /\ right.kind = "Read"

\* No lost wakeup between the look at the table and notify_waiters: a task
\* that sleeps in set_lock with no wakeup pending still has a conflicting
\* lock against it, or a handler that changed the table is yet to notify.
NoLostWakeup ==
    \A t \in Tasks :
        tasks[t].pc = "waiting" /\ ~tasks[t].woken =>
            \/ Blocked(tasks[t])
            \/ \E u \in Tasks : tasks[u].pc = "notify"
            \/ \E s \in Sessions : session[s] = "notify"

\* Once a connection's clean-up has run, none of its locks, handles or lock
\* requests is left, and none comes back.
GoneLeavesNothing ==
    \A s \in Sessions : session[s] \in {"notify", "gone"} =>
        /\ \A r \in locks : r.session # s
        /\ \A h \in Handles : handles[h] # Closed => handles[h].session # s
        /\ Joined(s)

\* A request waits for ever in set_lock only if it finds itself blocked
\* again and again.
NoStuckWaiter ==
    \A t \in Tasks :
        <>[](tasks[t].pc = "waiting") => []<>(tasks[t].pc = "waiting"
                                              /\ Blocked(tasks[t]))

\* A lost connection is cleaned up: its request tasks all end, even those that
\* wait for locks nobody releases, and cleanup_locks runs and notifies.
LostSessionsEnd ==
    \A s \in Sessions : []<>(session[s] \in {"live", "gone"})

\* The table implements the byte-wise promise of PosixLocks: a byte is held
\* by an owner with the kind of the record of that owner that covers it.
HeldKind(cell) ==
    LET covering == {r \in locks :
                       /\ SameOwner(r, cell[1], cell[3], cell[4])
                       /\ r.start <= cell[2] /\ cell[2] <= r.end}
    IN IF covering = {} THEN "None" ELSE (CHOOSE r \in covering : TRUE).kind

Promise == INSTANCE PosixLocks WITH
    held <- [cell \in Files \X Offsets \X Sessions \X Owners |-> HeldKind(cell)]

\* Every step of the service is a step of the byte-wise lock specification:
\* set_lock grants or releases exactly the requested range of its own owner
\* and only when nobody else's lock is in the way, flush releases the owner's
\* locks on the file, close and the end of the connection release the
\* session's; no other step changes what is held.
ImplementsPosixLocks == Promise!Spec
=============================================================================
