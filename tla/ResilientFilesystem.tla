------------------------ MODULE ResilientFilesystem ------------------------
(***************************************************************************)
(* ResilientFilesystem of client-core: the connection slot and its         *)
(* generations, single-flight reconnection, the retry rules of reads,      *)
(* mutations and opens, and logical file handles that are reopened on a    *)
(* new connection with their advisory locks replayed.                      *)
(*                                                                         *)
(* An operation is a task; each of its steps is one critical section, one  *)
(* atomic access or one end of a remote call.  `pc` names the next step,   *)
(* `then` the step after a connection is in hand, `after` the step after   *)
(* the logical handle is mapped to a remote one.                           *)
(*                                                                         *)
(* A remote handle exists on the connection that opened it, so it stands   *)
(* for that generation.  All handles are of one file, whose successive     *)
(* versions are numbered; RevisionOf gives the revision of a version,      *)
(* which is a digest of the file's attributes.  The server, the network    *)
(* and the other clients are modelled by what this code sees of them.      *)
(***************************************************************************)
EXTENDS Naturals, Sequences, FiniteSets

CONSTANTS Tasks,          \* operations in progress at once
          Handles,        \* logical file handles
          Locks,          \* byte ranges that are locked
          Requests,       \* the operations the application issues
          Modes,          \* how files are opened
          Attempts,       \* ReconnectPolicy.attempts
          LockHistory,    \* the length a lock history may pass: 4096
          RevisionOf,     \* the revision of each version of the file
          MaxGeneration,  \* bound: connections made
          MaxChanges,     \* bound: mutations issued, by anyone
          MaxLockCalls    \* bound: set_lock calls issued

ResilientConstants ==
    /\ "nobody" \notin Tasks
    /\ Modes \subseteq {"read", "write", "truncate"}
    /\ Attempts \in Nat \ {0}
    /\ LockHistory \in Nat /\ MaxChanges \in Nat /\ MaxLockCalls \in Nat
    /\ MaxGeneration \in Nat \ {0}
    /\ RevisionOf \in [0 .. MaxChanges -> Nat]
    /\ \A v, w \in 0 .. MaxChanges : RevisionOf[v] = RevisionOf[w] => v = w

VARIABLES generation,    \* connection.generation
          failed,        \* failed_generation, 0 when none
          lastFailure,   \* generation of a last_failure younger than the backoff
          reconnecting,  \* who holds the reconnect mutex
          handles,       \* logical handles
          handlesLock,   \* who holds the handles RwLock for writing
          mutation,      \* who holds each handle's mutation mutex
          tasks,
          live,          \* generations whose server session still exists
          version,       \* current version of the file
          held,          \* the locks of each session
          foreign,       \* the locks of other clients
          executed,      \* how often the server ran the request of a task
          granted,       \* locks the application was told it has
          changes,       \* mutations issued
          lockCalls      \* set_lock calls issued

client == <<generation, failed, lastFailure, reconnecting>>
server == <<live, version, held, foreign>>
ghosts == <<granted, changes, lockCalls>>
vars   == <<client, handles, handlesLock, mutation, tasks, server, executed,
            ghosts>>

Generations == 1 .. MaxGeneration
Nobody == "nobody"
NoHandle == [generation |-> 0]
Idle == [pc |-> "idle"]

NewHandle(mode, g, v) ==
    [generation |-> g, mode |-> mode, revision |-> v, history |-> <<>>]

\* A request: lock is <<kind, range>>; first is the generation on which a
\* first try failed, remote the generation of the remote handle in hand
\* and seen the version its state showed.
Task(op, h, mode, lock, pc, then, after) ==
    [op |-> op, h |-> h, mode |-> mode, lock |-> lock, pc |-> pc,
     then |-> then, after |-> after, slot |-> 0, first |-> 0, remote |-> 0,
     attempt |-> 0, next |-> 0, seen |-> 0, version |-> 0, result |-> "none"]

Init ==
    /\ generation = 1 /\ failed = 0 /\ lastFailure = 0 /\ reconnecting = Nobody
    /\ handles = [h \in Handles |-> NoHandle]
    /\ handlesLock = Nobody
    /\ mutation = [h \in Handles |-> Nobody]
    /\ tasks = [t \in Tasks |-> Idle]
    /\ live = {1} /\ version = 0
    /\ held = [g \in Generations |-> {}] /\ foreign = {}
    /\ executed = [t \in Tasks |-> 0]
    /\ granted = {} /\ changes = 0 /\ lockCalls = 0

Live == {t \in Tasks : tasks[t] # Idle}

Set(t, task) == tasks' = [tasks EXCEPT ![t] = task]
At(t, pc) == tasks[t].pc = pc

\* A mutant of End: an early return keeps the lock on the handles.
EndKeepsHandlesLock(t) ==
    /\ Set(t, Idle)
    /\ mutation' = [h \in Handles |->
                      IF mutation[h] = t THEN Nobody ELSE mutation[h]]
    /\ UNCHANGED handlesLock

\* The operation returns; the guards it holds are dropped.
End(t) ==
    /\ Set(t, Idle)
    /\ handlesLock' = IF handlesLock = t THEN Nobody ELSE handlesLock
    /\ mutation' = [h \in Handles |->
                      IF mutation[h] = t THEN Nobody ELSE mutation[h]]

Stay == UNCHANGED <<handlesLock, mutation>>

-----------------------------------------------------------------------------
(***************************************************************************)
(* The application                                                         *)
(***************************************************************************)
Begin(t, task) ==
    /\ task.op \in Requests
    /\ tasks[t] = Idle
    /\ Set(t, task)
    /\ executed' = [executed EXCEPT ![t] = 0]
    /\ UNCHANGED <<client, handles, handlesLock, mutation, server>>

Quiet == UNCHANGED ghosts
Changing == changes < MaxChanges /\ changes' = changes + 1

\* ping, get_metadata and the other callers of safe_call.
BeginSafe(t) ==
    /\ Begin(t, Task("safe", "-", "-", <<>>, "slot", "call", "-"))
    /\ Quiet

\* create_directory, rename_node and the other callers of mutation_call.
BeginMutation(t) ==
    /\ Begin(t, Task("mutate", "-", "-", <<>>, "slot", "call", "-"))
    /\ Changing
    /\ UNCHANGED <<granted, lockCalls>>

\* open_file_with_options; create_file behaves as a truncating open.
BeginOpen(t, h, mode) ==
    /\ handles[h] = NoHandle
    /\ \A u \in Live : tasks[u].h # h
    /\ Begin(t, Task("open", h, mode, <<>>, "slot", "call", "-"))
    /\ IF mode = "truncate" THEN Changing ELSE UNCHANGED changes
    /\ UNCHANGED <<granted, lockCalls>>

\* read_range_versioned, seek_file, safe_ioctl, get_lock.
BeginRead(t, h) ==
    /\ handles[h] # NoHandle
    /\ Begin(t, Task("read", h, "-", <<>>, "slot", "lookup", "call"))
    /\ Quiet

\* write_range, allocate_file, copy_file_range onto h.
BeginWrite(t, h) ==
    /\ handles[h] # NoHandle /\ handles[h].mode # "read"
    /\ Begin(t, Task("write", h, "-", <<>>, "slot", "lookup", "mutex"))
    /\ Changing
    /\ UNCHANGED <<granted, lockCalls>>

\* set_attributes through a handle.
BeginSetAttributes(t, h) ==
    /\ handles[h] # NoHandle
    /\ Begin(t, Task("setattr", h, "-", <<>>, "slot", "lookup", "mutex"))
    /\ Changing
    /\ UNCHANGED <<granted, lockCalls>>

\* The owner of the locks does not race itself.
OneLockCall == \A u \in Live : tasks[u].op \notin {"lock", "flush", "close"}

\* set_lock with a lock or an unlock request.
BeginSetLock(t, h, kind, l) ==
    /\ handles[h] # NoHandle
    /\ OneLockCall
    /\ lockCalls < MaxLockCalls /\ lockCalls' = lockCalls + 1
    /\ Begin(t, Task("lock", h, "-", <<kind, l>>, "slot", "lookup", "call"))
    /\ granted' = IF kind = "unlock" THEN granted \ {l} ELSE granted
    /\ UNCHANGED changes

\* flush_file with the lock owner, as every close(2) sends it; sync_file is
\* the same without the owner.
BeginFlush(t, h) ==
    /\ handles[h] # NoHandle
    /\ OneLockCall
    /\ Begin(t, Task("flush", h, "-", <<>>, "slot", "lookup", "mutex"))
    /\ granted' = {}
    /\ UNCHANGED <<changes, lockCalls>>

BeginClose(t, h) ==
    /\ handles[h] # NoHandle
    /\ \A u \in Live : tasks[u].op \notin {"lock", "flush"}
    /\ handlesLock = Nobody
    /\ Begin(t, Task("close", h, "-", <<>>, "mutex", "-", "-"))
    /\ granted' = {}
    /\ UNCHANGED <<changes, lockCalls>>

-----------------------------------------------------------------------------
(***************************************************************************)
(* healthy_connection and reconnect_after                                  *)
(***************************************************************************)
ReadSlot(t) ==
    /\ At(t, "slot")
    /\ Set(t, [tasks[t] EXCEPT !.pc = "check", !.slot = generation])
    /\ Stay
    /\ UNCHANGED <<client, handles, server, executed, ghosts>>

CheckFailed(t) ==
    /\ At(t, "check")
    /\ Set(t, [tasks[t] EXCEPT !.pc =
                 IF failed = tasks[t].slot THEN "reconnect" ELSE tasks[t].then])
    /\ Stay
    /\ UNCHANGED <<client, handles, server, executed, ghosts>>

\* A mutant of EnterReconnect: the slot is not looked at again once the mutex
\* is in hand.
EnterReconnectBlindly(t) ==
    /\ At(t, "reconnect")
    /\ reconnecting = Nobody
    /\ \/ /\ lastFailure # tasks[t].slot
          /\ reconnecting' = t
          /\ Set(t, [tasks[t] EXCEPT !.pc = "connect", !.attempt = 1])
          /\ Stay
       \/ /\ lastFailure = tasks[t].slot
          /\ End(t)
          /\ UNCHANGED reconnecting
    /\ UNCHANGED <<generation, failed, lastFailure, handles, server, executed,
                   ghosts>>

\* The start of reconnect_after, under the reconnect mutex: someone else
\* replaced the connection, a batch failed just now (Offline), or a batch of
\* attempts begins.
EnterReconnect(t) ==
    LET g == tasks[t].slot
        current == generation = g /\ failed = g
    IN /\ At(t, "reconnect")
       /\ reconnecting = Nobody
       /\ \/ /\ ~current
             /\ Set(t, [tasks[t] EXCEPT !.pc = tasks[t].then,
                                        !.slot = generation])
             /\ Stay
             /\ UNCHANGED reconnecting
          \/ /\ current /\ lastFailure = g
             /\ End(t)
             /\ UNCHANGED reconnecting
          \/ /\ current /\ lastFailure # g
             /\ reconnecting' = t
             /\ Set(t, [tasks[t] EXCEPT !.pc = "connect", !.attempt = 1])
             /\ Stay
       /\ UNCHANGED <<generation, failed, lastFailure, handles, server,
                      executed, ghosts>>

\* The connector reaches the server and the epoch is the one of the mount.
Connect(t) ==
    /\ At(t, "connect")
    /\ tasks[t].slot < MaxGeneration
    /\ live' = live \cup {tasks[t].slot + 1}
    /\ Set(t, [tasks[t] EXCEPT !.pc = "publish"])
    /\ Stay
    /\ UNCHANGED <<client, handles, version, held, foreign, executed, ghosts>>

\* The server is reached and capabilities fails, or another epoch answers:
\* the operation ends and last_failure stays as it is.
ConnectRejected(t) ==
    /\ At(t, "connect")
    /\ End(t)
    /\ reconnecting' = Nobody
    /\ UNCHANGED <<generation, failed, lastFailure, handles, server, executed,
                   ghosts>>

\* An attempt fails; the last one is remembered for the queue behind it.
ConnectFails(t) ==
    /\ At(t, "connect")
    /\ \/ /\ tasks[t].attempt < Attempts
          /\ Set(t, [tasks[t] EXCEPT !.attempt = @ + 1])
          /\ Stay
          /\ UNCHANGED <<lastFailure, reconnecting>>
       \/ /\ tasks[t].attempt = Attempts
          /\ lastFailure' = tasks[t].slot
          /\ reconnecting' = Nobody
          /\ End(t)
    /\ UNCHANGED <<generation, failed, handles, server, executed, ghosts>>

PublishSlot(t) ==
    /\ At(t, "publish")
    /\ generation' = tasks[t].slot + 1
    /\ Set(t, [tasks[t] EXCEPT !.pc = "clear", !.slot = @ + 1, !.attempt = 0])
    /\ Stay
    /\ UNCHANGED <<failed, lastFailure, reconnecting, handles, server, executed,
                   ghosts>>

ClearFailure(t) ==
    /\ At(t, "clear")
    /\ failed' = 0 /\ lastFailure' = 0 /\ reconnecting' = Nobody
    /\ Set(t, [tasks[t] EXCEPT !.pc = tasks[t].then])
    /\ Stay
    /\ UNCHANGED <<generation, handles, server, executed, ghosts>>

-----------------------------------------------------------------------------
(***************************************************************************)
(* remote_handle                                                           *)
(***************************************************************************)

\* The logical handle is mapped on the connection in hand.  The retry of a
\* read asks for the connection once more.
Mapped(task) ==
    LET mapped == [task EXCEPT !.remote = task.slot, !.next = 0, !.version = 0,
                               !.seen = handles[task.h].revision]
    IN IF task.op = "read" /\ task.first # 0
       THEN [mapped EXCEPT !.pc = "slot", !.then = "call"]
       ELSE [mapped EXCEPT !.pc = task.after]

LookupHandle(t) ==
    LET task == tasks[t]
    IN /\ At(t, "lookup")
       /\ handlesLock = Nobody
       /\ \/ handles[task.h] = NoHandle /\ End(t)
          \/ /\ handles[task.h] # NoHandle
             /\ Set(t, IF handles[task.h].generation = task.slot THEN Mapped(task)
                       ELSE [task EXCEPT !.pc = "relock"])
             /\ Stay
       /\ UNCHANGED <<client, handles, server, executed, ghosts>>

\* The write lock on the handles is kept until the handle is recovered.
LockHandles(t) ==
    LET task == tasks[t]
    IN /\ At(t, "relock")
       /\ handlesLock = Nobody
       /\ \/ handles[task.h] = NoHandle /\ End(t)
          \/ /\ handles[task.h] # NoHandle
             /\ Set(t, [task EXCEPT !.pc = "slot", !.then = "reopen",
                                    !.seen = handles[task.h].revision])
             /\ handlesLock' = t
             /\ UNCHANGED mutation
       /\ UNCHANGED <<client, handles, server, executed, ghosts>>

\* Someone else recovered the handle meanwhile.
AlreadyRecovered(t) ==
    /\ At(t, "reopen")
    /\ handles[tasks[t].h].generation = tasks[t].slot
    /\ Set(t, Mapped(tasks[t]))
    /\ handlesLock' = Nobody
    /\ UNCHANGED <<client, handles, mutation, server, executed, ghosts>>

\* Whether a handle may continue although the file changed meanwhile.
MayAdopt(handle) == handle.mode = "read" /\ handle.history = <<>>

\* A mutant of Reopen: every handle continues on the new revision.
ReopenAdopts(t) ==
    LET task == tasks[t]
    IN /\ At(t, "reopen")
       /\ handles[task.h].generation # task.slot
       /\ task.slot \in live
       /\ handles' = [handles EXCEPT ![task.h].revision = version]
       /\ Set(t, [task EXCEPT !.pc = "replay", !.next = 1, !.version = version])
       /\ Stay
       /\ UNCHANGED <<client, server, executed, ghosts>>

\* The file is opened again, without truncation.
Reopen(t) ==
    LET task == tasks[t]
        handle == handles[task.h]
    IN /\ At(t, "reopen")
       /\ handle.generation # task.slot
       /\ task.slot \in live
       /\ IF version = handle.revision \/ MayAdopt(handle)
          THEN /\ handles' = [handles EXCEPT ![task.h].revision = version]
               /\ Set(t, [task EXCEPT !.pc = "replay", !.next = 1,
                                      !.version = version])
          ELSE /\ Set(t, [task EXCEPT !.pc = "discard"])
               /\ UNCHANGED handles
       /\ Stay
       /\ UNCHANGED <<client, server, executed, ghosts>>

\* A transport error of the open or of a replayed lock ends the operation.
ReopenLost(t) ==
    /\ \/ At(t, "reopen") /\ handles[tasks[t].h].generation # tasks[t].slot
       \/ At(t, "replay")
    /\ End(t)
    /\ UNCHANGED <<client, handles, server, executed, ghosts>>

\* The server's close drops every lock the session has on the file.
DropLocks(g) == held' = [held EXCEPT ![g] = {}]

\* StaleRevision: the new remote handle is closed, if the server can be told.
Discard(t) ==
    /\ At(t, "discard")
    /\ End(t)
    /\ UNCHANGED held \/ DropLocks(tasks[t].slot)
    /\ UNCHANGED <<client, handles, live, version, foreign, executed, ghosts>>

\* Another session holds the range.
Taken(l, g) == l \in foreign \/ \E other \in Generations \ {g} : l \in held[other]

\* The locks of session g after a granted request.
LocksAfter(g, lock) ==
    IF lock[1] = "lock" THEN held[g] \cup {lock[2]} ELSE held[g] \ {lock[2]}

\* One lock of the history is set again, without waiting; a conflict ends
\* the operation.
Replay(t) ==
    LET task == tasks[t]
        history == handles[task.h].history
        lock == history[task.next]
    IN /\ At(t, "replay")
       /\ task.next <= Len(history)
       /\ task.slot \in live
       /\ \/ /\ lock[1] = "lock" /\ Taken(lock[2], task.slot)
             /\ End(t)
             /\ UNCHANGED held
          \/ /\ lock[1] = "lock" => ~Taken(lock[2], task.slot)
             /\ held' = [held EXCEPT ![task.slot] = LocksAfter(task.slot, lock)]
             /\ Set(t, [task EXCEPT !.next = @ + 1])
             /\ Stay
       /\ UNCHANGED <<client, handles, live, version, foreign, executed, ghosts>>

\* A mutant of Recovered: the locks are left to the next set_lock.
RecoveredUnlocked(t) ==
    LET task == tasks[t]
    IN /\ At(t, "replay")
       /\ handles' = [handles EXCEPT ![task.h].generation = task.slot]
       /\ Set(t, Mapped(task))
       /\ handlesLock' = Nobody
       /\ UNCHANGED <<client, mutation, server, executed, ghosts>>

\* The history is replayed: the handle belongs to the new connection.
Recovered(t) ==
    LET task == tasks[t]
    IN /\ At(t, "replay")
       /\ task.next > Len(handles[task.h].history)
       /\ handles' = [handles EXCEPT ![task.h].generation = task.slot]
       /\ Set(t, Mapped(task))
       /\ handlesLock' = Nobody
       /\ UNCHANGED <<client, mutation, server, executed, ghosts>>

\* The mutation mutex of the handle; set_attributes then goes through
\* mutation_call, which picks its own connection.
TakeMutation(t) ==
    LET task == tasks[t]
    IN /\ At(t, "mutex")
       /\ mutation[task.h] = Nobody
       /\ mutation' = [mutation EXCEPT ![task.h] = t]
       /\ Set(t, CASE task.op = "setattr" ->
                        [task EXCEPT !.pc = "slot", !.then = "call"]
                   [] task.op = "close" -> [task EXCEPT !.pc = "remove"]
                   [] OTHER -> [task EXCEPT !.pc = "call"])
       /\ UNCHANGED <<client, handles, handlesLock, server, executed, ghosts>>

\* close_file takes the handle out of the map.
RemoveHandle(t) ==
    LET task == tasks[t]
    IN /\ At(t, "remove")
       /\ handlesLock = Nobody
       /\ handles' = [handles EXCEPT ![task.h] = NoHandle]
       /\ \/ handles[task.h] = NoHandle /\ End(t)
          \/ /\ handles[task.h] # NoHandle
             /\ Set(t, [task EXCEPT !.pc = "close slot",
                                    !.remote = handles[task.h].generation])
             /\ Stay
       /\ UNCHANGED <<client, server, executed, ghosts>>

\* A remote handle of an earlier connection needs no close.
CloseSlot(t) ==
    LET task == tasks[t]
    IN /\ At(t, "close slot")
       /\ \/ task.remote # generation /\ End(t)
          \/ /\ task.remote = generation
             /\ Set(t, [task EXCEPT !.pc = "call", !.slot = generation])
             /\ Stay
       /\ UNCHANGED <<client, handles, server, executed, ghosts>>

-----------------------------------------------------------------------------
(***************************************************************************)
(* Remote calls: the server serves the request, the client handles the     *)
(* reply or a transport error                                              *)
(***************************************************************************)
OnHandle(op) == op \in {"read", "write", "setattr", "lock", "flush", "close"}
Mutates(task) == \/ task.op \in {"mutate", "write", "setattr"}
                 \/ task.op = "open" /\ task.mode = "truncate"

\* A remote handle of another connection is an InvalidHandle there.
ServeInvalid(t) ==
    LET task == tasks[t]
    IN /\ At(t, "call")
       /\ task.slot \in live
       /\ OnHandle(task.op) /\ task.remote # task.slot
       /\ Set(t, [task EXCEPT !.pc = "reply", !.result = "error"])
       /\ Stay
       /\ UNCHANGED <<client, handles, server, executed, ghosts>>

Serve(t) ==
    LET task == tasks[t]
        now == IF Mutates(task) /\ task.op # "mutate" THEN version + 1 ELSE version
    IN /\ At(t, "call")
       /\ task.slot \in live
       /\ OnHandle(task.op) => task.remote = task.slot
       /\ task.op # "lock"
       /\ version' = now
       /\ executed' = IF Mutates(task) THEN [executed EXCEPT ![t] = @ + 1]
                                       ELSE executed
       /\ IF task.op \in {"flush", "close"} THEN DropLocks(task.slot)
                                            ELSE UNCHANGED held
       /\ Set(t, [task EXCEPT !.pc = "reply", !.version = now, !.result = "ok"])
       /\ Stay
       /\ UNCHANGED <<client, handles, live, foreign, ghosts>>

\* A range someone else holds makes the server wait, or refuse at once.
ServeLock(t) ==
    LET task == tasks[t]
        refused == task.lock[1] = "lock" /\ Taken(task.lock[2], task.slot)
    IN /\ At(t, "call")
       /\ task.slot \in live
       /\ task.op = "lock" /\ task.remote = task.slot
       /\ held' = IF refused THEN held
                  ELSE [held EXCEPT ![task.slot] = LocksAfter(task.slot, task.lock)]
       /\ Set(t, [task EXCEPT !.pc = "reply",
                              !.result = IF refused THEN "error" ELSE "ok"])
       /\ Stay
       /\ UNCHANGED <<client, handles, live, version, foreign, executed, ghosts>>

ReplyError(t) ==
    /\ At(t, "reply") /\ tasks[t].result = "error"
    /\ End(t)
    /\ UNCHANGED <<client, handles, server, executed, ghosts>>

Answered(t, ops) == At(t, "reply") /\ tasks[t].result = "ok" /\ tasks[t].op \in ops

ReplyPlain(t) ==
    /\ Answered(t, {"safe", "mutate", "flush", "close"})
    /\ End(t)
    /\ UNCHANGED <<client, handles, server, executed, ghosts>>

\* remember_open.
ReplyOpen(t) ==
    LET task == tasks[t]
    IN /\ Answered(t, {"open"})
       /\ handlesLock = Nobody
       /\ handles' = [handles EXCEPT ![task.h] =
                        NewHandle(task.mode, task.slot, task.version)]
       /\ End(t)
       /\ UNCHANGED <<client, server, executed, ghosts>>

\* adopt_revision, when the read saw another revision than the handle had.
ReplyRead(t) ==
    LET task == tasks[t]
    IN /\ Answered(t, {"read"})
       /\ task.version # task.seen => handlesLock = Nobody
       /\ handles' = [handles EXCEPT ![task.h] =
             IF /\ @ # NoHandle
                /\ task.version # task.seen
                /\ RevisionOf[task.version] > RevisionOf[@.revision]
             THEN [@ EXCEPT !.revision = task.version] ELSE @]
       /\ End(t)
       /\ UNCHANGED <<client, server, executed, ghosts>>

\* update_written_handle; set_attributes updates whatever handle it finds.
ReplyMutation(t) ==
    LET task == tasks[t]
    IN /\ Answered(t, {"write", "setattr"})
       /\ handlesLock = Nobody
       /\ handles' = [handles EXCEPT ![task.h] =
             IF /\ @ # NoHandle
                /\ task.op = "write" => @.generation = task.slot
             THEN [@ EXCEPT !.revision = task.version] ELSE @]
       /\ End(t)
       /\ UNCHANGED <<client, server, executed, ghosts>>

\* set_lock records what was granted; an unlock clears a long history.
ReplyLock(t) ==
    LET task == tasks[t]
        kind == task.lock[1]
        l == task.lock[2]
        Pushed(history) ==
            IF kind = "unlock" /\ Len(history) + 1 > LockHistory THEN <<>>
            ELSE Append(history, task.lock)
    IN /\ Answered(t, {"lock"})
       /\ handlesLock = Nobody
       /\ handles' = [handles EXCEPT ![task.h] =
             IF @ = NoHandle THEN @ ELSE [@ EXCEPT !.history = Pushed(@)]]
       /\ End(t)
       /\ granted' = IF kind = "lock" THEN granted \cup {l} ELSE granted
       /\ UNCHANGED <<client, server, executed, changes, lockCalls>>

\* A call that may be tried once more.
Retries(task) ==
    /\ task.first = 0
    /\ task.op \in {"safe", "read"} \/ (task.op = "open" /\ task.mode # "truncate")

Again(task) ==
    [task EXCEPT !.first = task.slot, !.result = "none", !.version = 0,
                 !.pc = IF task.op = "read" THEN "slot" ELSE "reconnect",
                 !.then = IF task.op = "read" THEN "lookup" ELSE "call"]

\* The second try of an open or of an operation on a handle fails quietly.
MarksFailed(task) == task.first = 0 \/ task.op = "safe"

\* A mutant of TransportFails: a mutation is tried again like a read.
TransportRetriesAll(t) ==
    LET task == tasks[t]
    IN /\ At(t, "call") \/ At(t, "reply")
       /\ failed' = IF MarksFailed(task) THEN task.slot ELSE failed
       /\ IF task.first = 0 /\ task.op # "close" THEN Set(t, Again(task)) /\ Stay
                                                 ELSE End(t)
       /\ UNCHANGED <<generation, lastFailure, reconnecting, handles, server,
                      executed, ghosts>>

\* A timeout or a broken connection, before or after the server served the
\* request.
TransportFails(t) ==
    LET task == tasks[t]
    IN /\ At(t, "call") \/ At(t, "reply")
       /\ failed' = IF MarksFailed(task) THEN task.slot ELSE failed
       /\ IF Retries(task) THEN Set(t, Again(task)) /\ Stay ELSE End(t)
       /\ UNCHANGED <<generation, lastFailure, reconnecting, handles, server,
                      executed, ghosts>>

-----------------------------------------------------------------------------
(***************************************************************************)
(* Surroundings                                                            *)
(***************************************************************************)
Outside == UNCHANGED <<generation, failed, reconnecting, handles, handlesLock,
                       mutation, tasks, executed, granted, lockCalls>>

\* maximum_backoff has passed since the last failed batch.
BackoffElapses ==
    /\ lastFailure # 0
    /\ lastFailure' = 0
    /\ Outside
    /\ UNCHANGED <<server, changes>>

\* The server drops a session, with its handles and locks.
SessionEnds(g) ==
    /\ g \in live
    /\ live' = live \ {g}
    /\ DropLocks(g)
    /\ Outside
    /\ UNCHANGED <<lastFailure, version, foreign, changes>>

OtherClientWrites ==
    /\ "other write" \in Requests
    /\ Changing
    /\ version' = version + 1
    /\ Outside
    /\ UNCHANGED <<lastFailure, live, held, foreign>>

OtherClientLocks(l) ==
    /\ "other lock" \in Requests
    /\ \A g \in Generations : l \notin held[g]
    /\ foreign' = IF l \in foreign THEN foreign \ {l} ELSE foreign \cup {l}
    /\ Outside
    /\ UNCHANGED <<lastFailure, live, version, held, changes>>

-----------------------------------------------------------------------------
\* Steps that wait for a mutex or for the lock on the handles.
Acquire(t) ==
    \/ EnterReconnect(t) \/ LookupHandle(t) \/ LockHandles(t) \/ TakeMutation(t)
    \/ RemoveHandle(t) \/ ReplyOpen(t) \/ ReplyRead(t) \/ ReplyMutation(t)
    \/ ReplyLock(t)

Step(t) ==
    \/ ReadSlot(t) \/ CheckFailed(t) \/ Connect(t) \/ ConnectRejected(t)
    \/ ConnectFails(t) \/ PublishSlot(t) \/ ClearFailure(t)
    \/ AlreadyRecovered(t) \/ Reopen(t) \/ ReopenLost(t) \/ Discard(t)
    \/ Replay(t) \/ Recovered(t) \/ CloseSlot(t)
    \/ ServeInvalid(t) \/ Serve(t) \/ ServeLock(t) \/ ReplyError(t)
    \/ ReplyPlain(t) \/ TransportFails(t) \/ Acquire(t)

Next ==
    \/ \E t \in Tasks : Step(t)
    \/ \E t \in Tasks : BeginSafe(t)
    \/ \E t \in Tasks : BeginMutation(t)
    \/ \E t \in Tasks, h \in Handles, mode \in Modes : BeginOpen(t, h, mode)
    \/ \E t \in Tasks, h \in Handles : BeginRead(t, h)
    \/ \E t \in Tasks, h \in Handles : BeginWrite(t, h)
    \/ \E t \in Tasks, h \in Handles : BeginSetAttributes(t, h)
    \/ \E t \in Tasks, h \in Handles, kind \in {"lock", "unlock"}, l \in Locks :
          BeginSetLock(t, h, kind, l)
    \/ \E t \in Tasks, h \in Handles : BeginFlush(t, h)
    \/ \E t \in Tasks, h \in Handles : BeginClose(t, h)
    \/ BackoffElapses
    \/ \E g \in Generations : SessionEnds(g)
    \/ OtherClientWrites
    \/ \E l \in Locks : OtherClientLocks(l)

Spec == Init /\ [][Next]_vars

\* Every remote call is answered or times out, the reconnect loop is bounded,
\* and tokio's locks are first come, first served.
FairSpec == Spec /\ \A t \in Tasks : WF_vars(Step(t)) /\ SF_vars(Acquire(t))

-----------------------------------------------------------------------------
(***************************************************************************)
(* Properties                                                              *)
(***************************************************************************)

\* The types of the variables; a lock or mutex is held by an operation that
\* is in progress.
TypeOK ==
    /\ generation \in Generations
    /\ failed \in 0 .. MaxGeneration /\ lastFailure \in 0 .. MaxGeneration
    /\ \A h \in Handles : handles[h] = NoHandle \/
          /\ handles[h].generation \in Generations
          /\ handles[h].mode \in Modes
          /\ handles[h].revision \in 0 .. MaxChanges
          /\ handles[h].history \in Seq({"lock", "unlock"} \X Locks)
    /\ {reconnecting, handlesLock} \cup {mutation[h] : h \in Handles}
          \subseteq Live \cup {Nobody}
    /\ live \subseteq Generations
    /\ held \in [Generations -> SUBSET Locks]

\* Reconnection is single-flight: whoever connects holds the mutex and
\* replaces the connection that is current, so that one failure never costs
\* a second connection, however many operations noticed it.
SingleFlight ==
    \A t \in Live :
        tasks[t].pc \in {"connect", "publish", "clear"} =>
            reconnecting = t /\ tasks[t].slot = generation

\* The server runs a mutation at most once per request, exactly once when
\* the application is told that it succeeded, and never on behalf of a read,
\* whatever is lost, retried or reopened on the way.
MutationsAtMostOnce ==
    \A t \in Live :
        /\ executed[t] <= IF Mutates(tasks[t]) THEN 1 ELSE 0
        /\ Mutates(tasks[t]) /\ Answered(t, {tasks[t].op}) => executed[t] = 1

\* A handle that may write, or that has locked, is recovered only if the
\* server still has the version the handle last knew, and nobody updates the
\* handle while it is being recovered.
RecoveredUnchanged ==
    \A t \in Live : At(t, "replay") /\ ~MayAdopt(handles[tasks[t].h]) =>
        tasks[t].version = tasks[t].seen

\* The locks the session behind the handles should have are settled.
Settled == /\ Live = {}
           /\ generation \in live
           /\ \E h \in Handles : handles[h].generation = generation

\* README.md: "a surviving client's active advisory locks are replayed": once
\* a handle works on the current connection, the server holds every lock the
\* application was told it has.
LocksReplayed == Settled => granted \subseteq held[generation]

\* Every operation ends, whatever fails: the guards it takes are never taken
\* in conflicting orders and are dropped on every path out.
OperationsFinish == \A t \in Tasks : []<>(t \notin Live)

=============================================================================
