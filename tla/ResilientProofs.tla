-------------------------- MODULE ResilientProofs ---------------------------
(***************************************************************************)
(* Proofs about the resilient client, for any number of operations,        *)
(* handles, connections, attempts and changes of the file.                 *)
(***************************************************************************)
EXTENDS ResilientFilesystem, TLAPS

\* The steps of reconnect_after that hold the reconnect mutex.
Reconnecting == {"connect", "publish", "clear"}

Fields == {"op", "h", "mode", "lock", "pc", "then", "after", "slot", "first", "remote",
           "attempt", "next", "seen", "version", "result"}

\* What the code goes on with after a connection, and after a handle, is in hand.
IsRequest(r) ==
    /\ DOMAIN r = Fields
    /\ r = [f \in Fields |-> r[f]]
    /\ r.then \in {"call", "lookup", "reopen", "-"}
    /\ r.after \in {"call", "mutex", "-"}

\* The server ran the mutation n times: not before the reply is under way, once
\* when it succeeded; anything else was never run as a mutation.
Ran(r, n) ==
    /\ n \in {0, 1}
    /\ Mutates(r) /\ r.pc = "reply" /\ r.result = "ok" => n = 1
    /\ ~Mutates(r) \/ r.pc # "reply" => n = 0

\* The inductive invariant.
OperationsInv ==
    /\ tasks = [t \in Tasks |-> tasks[t]]
    /\ executed = [t \in Tasks |-> executed[t]]
    /\ \A t \in Tasks : tasks[t] # Idle => IsRequest(tasks[t]) /\ Ran(tasks[t], executed[t])
    /\ \A t \in Tasks : tasks[t].pc \in Reconnecting =>
          reconnecting = t /\ tasks[t].slot = generation

-----------------------------------------------------------------------------
\* A step of one operation that leaves the connection alone and does not enter
\* reconnect_after.
LEMMA Moved ==
    ASSUME OperationsInv, NEW t \in Tasks, NEW r,
           tasks' = [tasks EXCEPT ![t] = r],
           r = Idle \/ (IsRequest(r) /\ Ran(r, executed'[t])),
           r.pc \notin Reconnecting,
           executed' = [executed EXCEPT ![t] = executed'[t]],
           UNCHANGED <<generation, reconnecting>>
    PROVE  OperationsInv'
<1>1. \A u \in Tasks \ {t} : tasks'[u] = tasks[u] /\ executed'[u] = executed[u]
  BY Zenon DEF OperationsInv
<1>2. tasks'[t] = r
  BY Zenon DEF OperationsInv
<1>3. /\ tasks' = [u \in Tasks |-> tasks'[u]]
      /\ executed' = [u \in Tasks |-> executed'[u]]
  BY Zenon DEF OperationsInv
<1> QED BY <1>1, <1>2, <1>3, Zenon DEF OperationsInv

\* The operation returns.
LEMMA Returned ==
    ASSUME OperationsInv, NEW t \in Tasks, End(t), UNCHANGED <<generation, reconnecting, executed>>
    PROVE  OperationsInv'
<1>1. executed' = [executed EXCEPT ![t] = executed'[t]]
  BY Zenon DEF OperationsInv
<1>2. Idle.pc \notin Reconnecting
  BY Zenon DEF Idle, Reconnecting
<1> QED BY <1>1, <1>2, Moved, Zenon DEF End, Set

\* reconnect_after returns an error and drops its mutex.
LEMMA Left ==
    ASSUME OperationsInv, NEW t \in Tasks, End(t), tasks[t].pc \in Reconnecting,
           reconnecting' = Nobody, UNCHANGED <<generation, executed>>
    PROVE  OperationsInv'
<1>1. \A u \in Tasks \ {t} : tasks'[u] = tasks[u] /\ tasks[u].pc \notin Reconnecting
  BY Zenon DEF OperationsInv, End, Set
<1>2. tasks'[t] = Idle /\ tasks' = [u \in Tasks |-> tasks'[u]]
  BY Zenon DEF OperationsInv, End, Set
<1>3. Idle.pc \notin Reconnecting
  BY Zenon DEF Idle, Reconnecting
<1> QED BY <1>1, <1>2, <1>3, Zenon DEF OperationsInv

\* A step within an operation that is not answered.  In reconnect_after it holds
\* the mutex and has the current slot; the connection changes only while nobody
\* else is there.
LEMMA Proceeds ==
    ASSUME OperationsInv, NEW t \in Tasks, NEW r,
           tasks[t] # Idle,
           tasks' = [tasks EXCEPT ![t] = r],
           IsRequest(r), r.op = tasks[t].op, r.mode = tasks[t].mode,
           r.pc # "reply",
           tasks[t].pc # "reply" \/ ~Mutates(tasks[t]),
           executed' = executed,
           r.pc \in Reconnecting => reconnecting' = t /\ r.slot = generation',
           \/ UNCHANGED <<generation, reconnecting>>
           \/ \A u \in Tasks \ {t} : tasks[u].pc \notin Reconnecting
    PROVE  OperationsInv'
<1>1. executed[t] = 0
  BY Zenon DEF OperationsInv, Ran
<1>2. Ran(r, executed'[t])
  BY <1>1, Zenon DEF Ran, Mutates
<1>3. /\ tasks'[t] = r /\ tasks' = [u \in Tasks |-> tasks'[u]]
      /\ \A u \in Tasks \ {t} : tasks'[u] = tasks[u]
  BY Zenon DEF OperationsInv
<1> QED BY <1>2, <1>3, Zenon DEF OperationsInv

-----------------------------------------------------------------------------
\* safe_call, mutation_call and the operations on handles start as requests of
\* which nothing was executed.
LEMMA BeginsWell ==
    ASSUME OperationsInv, NEW t \in Tasks, NEW op, NEW h, NEW mode, NEW lock,
           NEW pc \in {"slot", "mutex"}, NEW then \in {"call", "lookup", "-"},
           NEW after \in {"call", "mutex", "-"},
           Begin(t, Task(op, h, mode, lock, pc, then, after))
    PROVE  OperationsInv'
<1> DEFINE r == Task(op, h, mode, lock, pc, then, after)
<1>1. IsRequest(r)
  BY Zenon DEF Task, IsRequest, Fields
<1>2. r.pc = pc
  BY Zenon DEF Task
<1>3. executed' = [executed EXCEPT ![t] = 0] /\ executed'[t] = 0
  BY Zenon DEF Begin, OperationsInv
<1>4. Ran(r, executed'[t])
  BY <1>2, <1>3, Zenon DEF Ran
<1>5. tasks' = [tasks EXCEPT ![t] = r] /\ UNCHANGED <<generation, reconnecting>>
  BY Zenon DEF Begin, Set, client
<1>6. executed' = [executed EXCEPT ![t] = executed'[t]]
  BY <1>3, Zenon
<1> HIDE DEF r
<1> QED BY <1>1, <1>2, <1>4, <1>5, <1>6, Moved, Zenon DEF Reconnecting

\* healthy_connection and reconnect_after.
LEMMA ConnectionSteps ==
    ASSUME OperationsInv, ResilientConstants, NEW t \in Tasks,
           \/ ReadSlot(t) \/ CheckFailed(t) \/ EnterReconnect(t) \/ Connect(t)
           \/ ConnectRejected(t) \/ ConnectFails(t) \/ PublishSlot(t) \/ ClearFailure(t)
    PROVE  OperationsInv'
<1>0. /\ tasks[t].pc # "idle" => tasks[t] # Idle /\ IsRequest(tasks[t])
      /\ reconnecting = Nobody => \A u \in Tasks : tasks[u].pc \notin Reconnecting
      /\ tasks[t].pc \in Reconnecting =>
            /\ reconnecting = t /\ tasks[t].slot = generation
            /\ \A u \in Tasks \ {t} : tasks[u].pc \notin Reconnecting
  BY DEF OperationsInv, ResilientConstants, Nobody, Idle
<1>1. CASE ReadSlot(t)
  <2> DEFINE r == [tasks[t] EXCEPT !.pc = "check", !.slot = generation]
  <2>1. /\ tasks[t].pc = "slot" /\ tasks' = [tasks EXCEPT ![t] = r]
        /\ UNCHANGED <<generation, reconnecting, executed>>
    BY <1>1, Zenon DEF ReadSlot, At, Set, client
  <2>2. IsRequest(r) /\ r.op = tasks[t].op /\ r.mode = tasks[t].mode
        /\ r.pc = "check"
    BY <1>0, <2>1, Zenon DEF IsRequest, Fields, Reconnecting
  <2> HIDE DEF r
  <2> QED BY <1>0, <2>1, <2>2, Proceeds, Zenon DEF Reconnecting
<1>2. CASE CheckFailed(t)
  <2> DEFINE r == [tasks[t] EXCEPT !.pc =
                     IF failed = tasks[t].slot THEN "reconnect" ELSE tasks[t].then]
  <2>1. /\ tasks[t].pc = "check" /\ tasks' = [tasks EXCEPT ![t] = r]
        /\ UNCHANGED <<generation, reconnecting, executed>>
    BY <1>2, Zenon DEF CheckFailed, At, Set, client
  <2>2. IsRequest(r) /\ r.op = tasks[t].op /\ r.mode = tasks[t].mode
        /\ r.pc \notin Reconnecting \cup {"reply"}
    BY <1>0, <2>1 DEF IsRequest, Fields, Reconnecting
  <2> HIDE DEF r
  <2> QED BY <1>0, <2>1, <2>2, Proceeds, Zenon DEF Reconnecting
<1>3. CASE EnterReconnect(t)
  <2>1. tasks[t].pc = "reconnect" /\ reconnecting = Nobody /\ UNCHANGED <<generation, executed>>
    BY <1>3, Zenon DEF EnterReconnect, At
  <2>2. CASE End(t) /\ UNCHANGED reconnecting
    BY <2>1, <2>2, Returned, Zenon
  <2>3. CASE /\ Set(t, [tasks[t] EXCEPT !.pc = tasks[t].then, !.slot = generation])
             /\ UNCHANGED reconnecting
    <3> DEFINE r == [tasks[t] EXCEPT !.pc = tasks[t].then, !.slot = generation]
    <3>1. IsRequest(r) /\ r.op = tasks[t].op /\ r.mode = tasks[t].mode
          /\ r.pc \notin Reconnecting \cup {"reply"}
      BY <1>0, <2>1, Zenon DEF IsRequest, Fields, Reconnecting
    <3>2. tasks' = [tasks EXCEPT ![t] = r]
      BY <2>3, Zenon DEF Set
    <3> HIDE DEF r
    <3> QED BY <1>0, <2>1, <2>3, <3>1, <3>2, Proceeds, Zenon
  <2>4. CASE /\ generation = tasks[t].slot /\ reconnecting' = t
             /\ Set(t, [tasks[t] EXCEPT !.pc = "connect", !.attempt = 1])
    <3> DEFINE r == [tasks[t] EXCEPT !.pc = "connect", !.attempt = 1]
    <3>1. IsRequest(r) /\ r.op = tasks[t].op /\ r.mode = tasks[t].mode
          /\ r.pc = "connect" /\ r.slot = generation
      BY <1>0, <2>1, <2>4, Zenon DEF IsRequest, Fields
    <3>2. tasks' = [tasks EXCEPT ![t] = r]
      BY <2>4, Zenon DEF Set
    <3> HIDE DEF r
    <3> QED BY <1>0, <2>1, <2>4, <3>1, <3>2, Proceeds, Zenon
  <2> QED BY <1>3, <2>2, <2>3, <2>4, Zenon DEF EnterReconnect
<1>4. CASE Connect(t)
  <2> DEFINE r == [tasks[t] EXCEPT !.pc = "publish"]
  <2>1. /\ tasks[t].pc = "connect" /\ tasks' = [tasks EXCEPT ![t] = r]
        /\ UNCHANGED <<generation, reconnecting, executed>>
    BY <1>4, Zenon DEF Connect, At, Set, client
  <2>2. IsRequest(r) /\ r.op = tasks[t].op /\ r.mode = tasks[t].mode
        /\ r.pc = "publish" /\ r.slot = tasks[t].slot
    BY <1>0, <2>1, Zenon DEF IsRequest, Fields, Reconnecting
  <2> HIDE DEF r
  <2> QED BY <1>0, <2>1, <2>2, Proceeds, Zenon DEF Reconnecting
<1>5. CASE ConnectRejected(t)
  BY <1>5, Left, Zenon DEF ConnectRejected, At, Reconnecting
<1>6. CASE ConnectFails(t)
  <2> DEFINE r == [tasks[t] EXCEPT !.attempt = @ + 1]
  <2>1. tasks[t].pc = "connect" /\ UNCHANGED <<generation, executed>>
    BY <1>6, Zenon DEF ConnectFails, At
  <2>2. CASE Set(t, r) /\ UNCHANGED reconnecting
    <3>1. IsRequest(r) /\ r.op = tasks[t].op /\ r.mode = tasks[t].mode
          /\ r.pc = "connect" /\ r.slot = tasks[t].slot
      BY <1>0, <2>1, Zenon DEF IsRequest, Fields
    <3>2. tasks' = [tasks EXCEPT ![t] = r]
      BY <2>2, Zenon DEF Set
    <3> HIDE DEF r
    <3> QED BY <1>0, <2>1, <2>2, <3>1, <3>2, Proceeds, Zenon DEF Reconnecting
  <2>3. CASE End(t) /\ reconnecting' = Nobody
    BY <2>1, <2>3, Left, Zenon DEF Reconnecting
  <2> QED BY <1>6, <2>2, <2>3, Zenon DEF ConnectFails
<1>7. CASE PublishSlot(t)
  <2> DEFINE r == [tasks[t] EXCEPT !.pc = "clear", !.slot = @ + 1, !.attempt = 0]
  <2>1. /\ tasks[t].pc = "publish" /\ tasks' = [tasks EXCEPT ![t] = r]
        /\ generation' = tasks[t].slot + 1 /\ UNCHANGED <<reconnecting, executed>>
    BY <1>7, Zenon DEF PublishSlot, At, Set, client
  <2>2. IsRequest(r) /\ r.op = tasks[t].op /\ r.mode = tasks[t].mode
        /\ r.pc = "clear" /\ r.slot = tasks[t].slot + 1
    BY <1>0, <2>1, ZenonT(20) DEF IsRequest, Fields, Reconnecting
  <2> HIDE DEF r
  <2> QED BY <1>0, <2>1, <2>2, Proceeds, Zenon DEF Reconnecting
<1>8. CASE ClearFailure(t)
  <2> DEFINE r == [tasks[t] EXCEPT !.pc = tasks[t].then]
  <2>1. /\ tasks[t].pc = "clear" /\ tasks' = [tasks EXCEPT ![t] = r]
        /\ UNCHANGED <<generation, executed>>
    BY <1>8, Zenon DEF ClearFailure, At, Set, client
  <2>2. IsRequest(r) /\ r.op = tasks[t].op /\ r.mode = tasks[t].mode
        /\ r.pc \notin Reconnecting \cup {"reply"}
    BY <1>0, <2>1 DEF IsRequest, Fields, Reconnecting
  <2> HIDE DEF r
  <2> QED BY <1>0, <2>1, <2>2, Proceeds, Zenon DEF Reconnecting
<1> QED BY <1>1, <1>2, <1>3, <1>4, <1>5, <1>6, <1>7, <1>8, Zenon

\* remote_handle, the mutation mutex and close_file.
LEMMA HandleSteps ==
    ASSUME OperationsInv, NEW t \in Tasks,
           \/ LookupHandle(t) \/ LockHandles(t) \/ AlreadyRecovered(t) \/ Reopen(t)
           \/ ReopenLost(t) \/ Discard(t) \/ Replay(t) \/ Recovered(t)
           \/ TakeMutation(t) \/ RemoveHandle(t) \/ CloseSlot(t)
    PROVE  OperationsInv'
<1>0. tasks[t].pc # "idle" => tasks[t] # Idle /\ IsRequest(tasks[t])
  BY DEF OperationsInv, Idle
<1>1. CASE LookupHandle(t)
  <2>1. tasks[t].pc = "lookup" /\ UNCHANGED <<generation, reconnecting, executed>>
    BY <1>1, Zenon DEF LookupHandle, At, client
  <2>2. CASE End(t)
    BY <2>1, <2>2, Returned, Zenon
  <2>3. CASE Set(t, Mapped(tasks[t]))
    <3> DEFINE r == Mapped(tasks[t])
    <3>1. IsRequest(r) /\ r.op = tasks[t].op /\ r.mode = tasks[t].mode
          /\ r.pc \notin Reconnecting \cup {"reply"}
      BY <1>0, <2>1, ZenonT(20) DEF IsRequest, Fields, Reconnecting, Mapped
    <3>2. tasks' = [tasks EXCEPT ![t] = r]
      BY <2>3, Zenon DEF Set
    <3> HIDE DEF r
    <3> QED BY <1>0, <2>1, <3>1, <3>2, Proceeds, Zenon
  <2>4. CASE Set(t, [tasks[t] EXCEPT !.pc = "relock"])
    <3> DEFINE r == [tasks[t] EXCEPT !.pc = "relock"]
    <3>1. IsRequest(r) /\ r.op = tasks[t].op /\ r.mode = tasks[t].mode
          /\ r.pc \notin Reconnecting \cup {"reply"}
      BY <1>0, <2>1, Zenon DEF IsRequest, Fields, Reconnecting, Mapped
    <3>2. tasks' = [tasks EXCEPT ![t] = r]
      BY <2>4, Zenon DEF Set
    <3> HIDE DEF r
    <3> QED BY <1>0, <2>1, <3>1, <3>2, Proceeds, Zenon
  <2> QED BY <1>1, <2>2, <2>3, <2>4, Zenon DEF LookupHandle
<1>2. CASE LockHandles(t)
  <2>1. tasks[t].pc = "relock" /\ UNCHANGED <<generation, reconnecting, executed>>
    BY <1>2, Zenon DEF LockHandles, At, client
  <2>2. CASE End(t)
    BY <2>1, <2>2, Returned, Zenon
  <2>3. CASE Set(t, [tasks[t] EXCEPT !.pc = "slot", !.then = "reopen",
                                     !.seen = handles[tasks[t].h].revision])
    <3> DEFINE r == [tasks[t] EXCEPT !.pc = "slot", !.then = "reopen",
                                     !.seen = handles[tasks[t].h].revision]
    <3>1. IsRequest(r) /\ r.op = tasks[t].op /\ r.mode = tasks[t].mode
          /\ r.pc \notin Reconnecting \cup {"reply"}
      BY <1>0, <2>1, ZenonT(20) DEF IsRequest, Fields, Reconnecting
    <3>2. tasks' = [tasks EXCEPT ![t] = r]
      BY <2>3, Zenon DEF Set
    <3> HIDE DEF r
    <3> QED BY <1>0, <2>1, <3>1, <3>2, Proceeds, Zenon
  <2> QED BY <1>2, <2>2, <2>3, Zenon DEF LockHandles
<1>3. CASE AlreadyRecovered(t)
  <2> DEFINE r == Mapped(tasks[t])
  <2>1. /\ tasks[t].pc = "reopen" /\ tasks' = [tasks EXCEPT ![t] = r]
        /\ UNCHANGED <<generation, reconnecting, executed>>
    BY <1>3, Zenon DEF AlreadyRecovered, At, Set, client
  <2>2. IsRequest(r) /\ r.op = tasks[t].op /\ r.mode = tasks[t].mode
        /\ r.pc \notin Reconnecting \cup {"reply"}
    BY <1>0, <2>1, ZenonT(20) DEF IsRequest, Fields, Reconnecting, Mapped
  <2> HIDE DEF r
  <2> QED BY <1>0, <2>1, <2>2, Proceeds, Zenon
<1>4. CASE Reopen(t)
  <2>1. tasks[t].pc = "reopen" /\ UNCHANGED <<generation, reconnecting, executed>>
    BY <1>4, Zenon DEF Reopen, At, client
  <2>2. CASE End(t)
    BY <2>1, <2>2, Returned, Zenon
  <2>3. CASE Set(t, [tasks[t] EXCEPT !.pc = "replay", !.next = 1, !.version = version])
    <3> DEFINE r == [tasks[t] EXCEPT !.pc = "replay", !.next = 1, !.version = version]
    <3>1. IsRequest(r) /\ r.op = tasks[t].op /\ r.mode = tasks[t].mode
          /\ r.pc \notin Reconnecting \cup {"reply"}
      BY <1>0, <2>1, ZenonT(20) DEF IsRequest, Fields, Reconnecting
    <3>2. tasks' = [tasks EXCEPT ![t] = r]
      BY <2>3, Zenon DEF Set
    <3> HIDE DEF r
    <3> QED BY <1>0, <2>1, <3>1, <3>2, Proceeds, Zenon
  <2>4. CASE Set(t, [tasks[t] EXCEPT !.pc = "discard"])
    <3> DEFINE r == [tasks[t] EXCEPT !.pc = "discard"]
    <3>1. IsRequest(r) /\ r.op = tasks[t].op /\ r.mode = tasks[t].mode
          /\ r.pc \notin Reconnecting \cup {"reply"}
      BY <1>0, <2>1, Zenon DEF IsRequest, Fields, Reconnecting
    <3>2. tasks' = [tasks EXCEPT ![t] = r]
      BY <2>4, Zenon DEF Set
    <3> HIDE DEF r
    <3> QED BY <1>0, <2>1, <3>1, <3>2, Proceeds, Zenon
  <2> QED BY <1>4, <2>2, <2>3, <2>4, Zenon DEF Reopen
<1>5. CASE ReopenLost(t) \/ Discard(t)
  BY <1>5, Returned, Zenon DEF ReopenLost, Discard, client
<1>6. CASE Replay(t)
  <2>1. tasks[t].pc = "replay" /\ UNCHANGED <<generation, reconnecting, executed>>
    BY <1>6, Zenon DEF Replay, At, client
  <2>2. CASE End(t)
    BY <2>1, <2>2, Returned, Zenon
  <2>3. CASE Set(t, [tasks[t] EXCEPT !.next = @ + 1])
    <3> DEFINE r == [tasks[t] EXCEPT !.next = @ + 1]
    <3>1. IsRequest(r) /\ r.op = tasks[t].op /\ r.mode = tasks[t].mode
          /\ r.pc \notin Reconnecting \cup {"reply"}
      BY <1>0, <2>1, Zenon DEF IsRequest, Fields, Reconnecting
    <3>2. tasks' = [tasks EXCEPT ![t] = r]
      BY <2>3, Zenon DEF Set
    <3> HIDE DEF r
    <3> QED BY <1>0, <2>1, <3>1, <3>2, Proceeds, Zenon
  <2> QED BY <1>6, <2>2, <2>3, Zenon DEF Replay
<1>7. CASE Recovered(t)
  <2> DEFINE r == Mapped(tasks[t])
  <2>1. /\ tasks[t].pc = "replay" /\ tasks' = [tasks EXCEPT ![t] = r]
        /\ UNCHANGED <<generation, reconnecting, executed>>
    BY <1>7, Zenon DEF Recovered, At, Set, client
  <2>2. IsRequest(r) /\ r.op = tasks[t].op /\ r.mode = tasks[t].mode
        /\ r.pc \notin Reconnecting \cup {"reply"}
    BY <1>0, <2>1, ZenonT(20) DEF IsRequest, Fields, Reconnecting, Mapped
  <2> HIDE DEF r
  <2> QED BY <1>0, <2>1, <2>2, Proceeds, Zenon
<1>8. CASE TakeMutation(t)
  <2> DEFINE r == CASE tasks[t].op = "setattr" ->
                       [tasks[t] EXCEPT !.pc = "slot", !.then = "call"]
                  [] tasks[t].op = "close" -> [tasks[t] EXCEPT !.pc = "remove"]
                  [] OTHER -> [tasks[t] EXCEPT !.pc = "call"]
  <2>1. /\ tasks[t].pc = "mutex" /\ tasks' = [tasks EXCEPT ![t] = r]
        /\ UNCHANGED <<generation, reconnecting, executed>>
    BY <1>8, Zenon DEF TakeMutation, At, Set, client
  <2>2. IsRequest(r) /\ r.op = tasks[t].op /\ r.mode = tasks[t].mode
        /\ r.pc \notin Reconnecting \cup {"reply"}
    BY <1>0, <2>1, ZenonT(20) DEF IsRequest, Fields, Reconnecting
  <2> HIDE DEF r
  <2> QED BY <1>0, <2>1, <2>2, Proceeds, Zenon
<1>9. CASE RemoveHandle(t)
  <2>1. tasks[t].pc = "remove" /\ UNCHANGED <<generation, reconnecting, executed>>
    BY <1>9, Zenon DEF RemoveHandle, At, client
  <2>2. CASE End(t)
    BY <2>1, <2>2, Returned, Zenon
  <2>3. CASE Set(t, [tasks[t] EXCEPT !.pc = "close slot",
                                     !.remote = handles[tasks[t].h].generation])
    <3> DEFINE r == [tasks[t] EXCEPT !.pc = "close slot",
                                     !.remote = handles[tasks[t].h].generation]
    <3>1. IsRequest(r) /\ r.op = tasks[t].op /\ r.mode = tasks[t].mode
          /\ r.pc \notin Reconnecting \cup {"reply"}
      BY <1>0, <2>1, Zenon DEF IsRequest, Fields, Reconnecting
    <3>2. tasks' = [tasks EXCEPT ![t] = r]
      BY <2>3, Zenon DEF Set
    <3> HIDE DEF r
    <3> QED BY <1>0, <2>1, <3>1, <3>2, Proceeds, Zenon
  <2> QED BY <1>9, <2>2, <2>3, Zenon DEF RemoveHandle
<1>10. CASE CloseSlot(t)
  <2>1. tasks[t].pc = "close slot" /\ UNCHANGED <<generation, reconnecting, executed>>
    BY <1>10, Zenon DEF CloseSlot, At, client
  <2>2. CASE End(t)
    BY <2>1, <2>2, Returned, Zenon
  <2>3. CASE Set(t, [tasks[t] EXCEPT !.pc = "call", !.slot = generation])
    <3> DEFINE r == [tasks[t] EXCEPT !.pc = "call", !.slot = generation]
    <3>1. IsRequest(r) /\ r.op = tasks[t].op /\ r.mode = tasks[t].mode
          /\ r.pc \notin Reconnecting \cup {"reply"}
      BY <1>0, <2>1, Zenon DEF IsRequest, Fields, Reconnecting
    <3>2. tasks' = [tasks EXCEPT ![t] = r]
      BY <2>3, Zenon DEF Set
    <3> HIDE DEF r
    <3> QED BY <1>0, <2>1, <3>1, <3>2, Proceeds, Zenon
  <2> QED BY <1>10, <2>2, <2>3, Zenon DEF CloseSlot
<1> QED BY <1>1, <1>2, <1>3, <1>4, <1>5, <1>6, <1>7, <1>8, <1>9, <1>10, Zenon

\* A remote call: the server serves it, the client handles the reply or a
\* transport error.
LEMMA CallSteps ==
    ASSUME OperationsInv, NEW t \in Tasks,
           \/ ServeInvalid(t) \/ Serve(t) \/ ServeLock(t) \/ ReplyError(t) \/ ReplyPlain(t)
           \/ ReplyOpen(t) \/ ReplyRead(t) \/ ReplyMutation(t) \/ ReplyLock(t)
           \/ TransportFails(t)
    PROVE  OperationsInv'
<1>0. tasks[t].pc # "idle" =>
         /\ tasks[t] # Idle /\ IsRequest(tasks[t])
         /\ tasks[t].pc # "reply" \/ ~Mutates(tasks[t]) => executed[t] = 0
  BY DEF OperationsInv, Idle, Ran
<1>1. CASE ServeInvalid(t)
  <2> DEFINE r == [tasks[t] EXCEPT !.pc = "reply", !.result = "error"]
  <2>1. /\ tasks[t].pc = "call" /\ tasks' = [tasks EXCEPT ![t] = r]
        /\ UNCHANGED <<generation, reconnecting, executed>>
    BY <1>1, Zenon DEF ServeInvalid, At, Set, client
  <2>2. IsRequest(r) /\ r.pc = "reply" /\ r.result = "error"
    BY <1>0, <2>1, Zenon DEF IsRequest, Fields
  <2>3. executed' = [executed EXCEPT ![t] = executed'[t]] /\ executed'[t] = 0
    BY <1>0, <2>1, Zenon DEF OperationsInv
  <2> HIDE DEF r
  <2>4. Ran(r, executed'[t])
    BY <2>2, <2>3, Zenon DEF Ran
  <2> QED BY <2>1, <2>2, <2>3, <2>4, Moved, Zenon DEF Reconnecting
<1>2. CASE Serve(t)
  <2> DEFINE now == IF Mutates(tasks[t]) /\ tasks[t].op # "mutate" THEN version + 1
                    ELSE version
             r == [tasks[t] EXCEPT !.pc = "reply", !.version = now, !.result = "ok"]
  <2>1. /\ tasks[t].pc = "call" /\ tasks' = [tasks EXCEPT ![t] = r]
        /\ UNCHANGED <<generation, reconnecting>>
        /\ executed' = IF Mutates(tasks[t]) THEN [executed EXCEPT ![t] = @ + 1] ELSE executed
    BY <1>2, Zenon DEF Serve, At, Set, client
  <2>2. /\ IsRequest(r) /\ r.pc = "reply"
        /\ r.op = tasks[t].op /\ r.mode = tasks[t].mode
    BY <1>0, <2>1, ZenonT(20) DEF IsRequest, Fields
  <2>3. /\ executed' = [executed EXCEPT ![t] = executed'[t]]
        /\ executed'[t] = IF Mutates(tasks[t]) THEN 1 ELSE 0
    <3>1. executed[t] = 0 /\ executed = [u \in Tasks |-> executed[u]]
      BY <1>0, <2>1, Zenon DEF OperationsInv
    <3>2. CASE Mutates(tasks[t])
      BY <2>1, <3>1, <3>2
    <3>3. CASE ~Mutates(tasks[t])
      BY <2>1, <3>1, <3>3, Zenon
    <3> QED BY <3>2, <3>3, Zenon
  <2> HIDE DEF r
  <2>4. Ran(r, executed'[t])
    BY <2>2, <2>3, Zenon DEF Ran, Mutates
  <2> QED BY <2>1, <2>2, <2>3, <2>4, Moved, Zenon DEF Reconnecting
<1>3. CASE ServeLock(t)
  <2> DEFINE refused == tasks[t].lock[1] = "lock" /\ Taken(tasks[t].lock[2], tasks[t].slot)
             r == [tasks[t] EXCEPT !.pc = "reply",
                                   !.result = IF refused THEN "error" ELSE "ok"]
  <2>1. /\ tasks[t].pc = "call" /\ tasks' = [tasks EXCEPT ![t] = r]
        /\ tasks[t].op = "lock" /\ UNCHANGED <<generation, reconnecting, executed>>
    BY <1>3, Zenon DEF ServeLock, At, Set, client
  <2>2. IsRequest(r) /\ r.pc = "reply" /\ r.op = "lock"
    BY <1>0, <2>1, ZenonT(20) DEF IsRequest, Fields
  <2>3. executed' = [executed EXCEPT ![t] = executed'[t]] /\ executed'[t] = 0
    BY <1>0, <2>1, Zenon DEF OperationsInv
  <2> HIDE DEF r
  <2>4. Ran(r, executed'[t])
    BY <2>2, <2>3, Zenon DEF Ran, Mutates
  <2> QED BY <2>1, <2>2, <2>3, <2>4, Moved, Zenon DEF Reconnecting
<1>4. CASE ReplyError(t) \/ ReplyPlain(t) \/ ReplyOpen(t) \/ ReplyRead(t)
  BY <1>4, Returned, Zenon DEF ReplyError, ReplyPlain, ReplyOpen, ReplyRead, client
<1>5. CASE ReplyMutation(t) \/ ReplyLock(t)
  BY <1>5, Returned, Zenon DEF ReplyMutation, ReplyLock, client
<1>6. CASE TransportFails(t)
  <2>1. /\ tasks[t].pc \in {"call", "reply"}
        /\ UNCHANGED <<generation, reconnecting, executed>>
    BY <1>6, Zenon DEF TransportFails, At
  <2>2. CASE End(t)
    BY <2>1, <2>2, Returned, Zenon
  <2>3. CASE Retries(tasks[t]) /\ Set(t, Again(tasks[t]))
    <3> DEFINE r == Again(tasks[t])
    <3>1. IsRequest(r) /\ r.op = tasks[t].op /\ r.mode = tasks[t].mode
          /\ r.pc \notin Reconnecting \cup {"reply"}
      BY <1>0, <2>1, ZenonT(20) DEF IsRequest, Fields, Reconnecting, Again
    <3>2. tasks' = [tasks EXCEPT ![t] = r] /\ ~Mutates(tasks[t])
      BY <2>3, Zenon DEF Set, Retries, Mutates
    <3> HIDE DEF r
    <3> QED BY <1>0, <2>1, <3>1, <3>2, Proceeds, Zenon
  <2> QED BY <1>6, <2>2, <2>3, Zenon DEF TransportFails
<1> QED BY <1>1, <1>2, <1>3, <1>4, <1>5, <1>6, Zenon

\* Every step of the client, of the server and of the surroundings.
LEMMA OperationsInvStep ==
    ASSUME ResilientConstants, OperationsInv, [Next]_vars
    PROVE  OperationsInv'
<1>1. ASSUME NEW t \in Tasks, Step(t) PROVE OperationsInv'
  <2>1. CASE \/ ReadSlot(t) \/ CheckFailed(t) \/ EnterReconnect(t) \/ Connect(t)
             \/ ConnectRejected(t) \/ ConnectFails(t) \/ PublishSlot(t) \/ ClearFailure(t)
    BY <2>1, ConnectionSteps, Zenon
  <2>2. CASE \/ LookupHandle(t) \/ LockHandles(t) \/ AlreadyRecovered(t) \/ Reopen(t)
             \/ ReopenLost(t) \/ Discard(t) \/ Replay(t) \/ Recovered(t)
             \/ TakeMutation(t) \/ RemoveHandle(t) \/ CloseSlot(t)
    BY <2>2, HandleSteps, Zenon
  <2>3. CASE \/ ServeInvalid(t) \/ Serve(t) \/ ServeLock(t) \/ ReplyError(t) \/ ReplyPlain(t)
             \/ ReplyOpen(t) \/ ReplyRead(t) \/ ReplyMutation(t) \/ ReplyLock(t)
             \/ TransportFails(t)
    BY <2>3, CallSteps, Zenon
  <2> QED BY <1>1, <2>1, <2>2, <2>3, Zenon DEF Step, Acquire
<1>2. ASSUME NEW t \in Tasks, BeginSafe(t) \/ BeginMutation(t) PROVE OperationsInv'
  BY <1>2, BeginsWell, Zenon DEF BeginSafe, BeginMutation
<1>3. ASSUME NEW t \in Tasks, NEW h \in Handles, NEW mode \in Modes, BeginOpen(t, h, mode)
      PROVE  OperationsInv'
  BY <1>3, BeginsWell, Zenon DEF BeginOpen
<1>4. ASSUME NEW t \in Tasks, NEW h \in Handles,
             \/ BeginRead(t, h) \/ BeginWrite(t, h) \/ BeginSetAttributes(t, h)
             \/ BeginFlush(t, h) \/ BeginClose(t, h)
      PROVE  OperationsInv'
  BY <1>4, BeginsWell, Zenon DEF BeginRead, BeginWrite, BeginSetAttributes, BeginFlush, BeginClose
<1>5. ASSUME NEW t \in Tasks, NEW h \in Handles, NEW kind \in {"lock", "unlock"},
             NEW l \in Locks, BeginSetLock(t, h, kind, l)
      PROVE  OperationsInv'
  BY <1>5, BeginsWell, Zenon DEF BeginSetLock
<1>6. ASSUME UNCHANGED <<generation, reconnecting, tasks, executed>> PROVE OperationsInv'
  BY <1>6, Zenon DEF OperationsInv, Ran
<1>7. CASE \/ BackoffElapses \/ (\E g \in Generations : SessionEnds(g))
           \/ OtherClientWrites \/ (\E l \in Locks : OtherClientLocks(l))
  BY <1>6, <1>7, Zenon DEF BackoffElapses, SessionEnds, OtherClientWrites, OtherClientLocks, Outside
<1>8. CASE UNCHANGED vars
  BY <1>6, <1>8, Zenon DEF vars, client
<1> QED BY <1>1, <1>2, <1>3, <1>4, <1>5, <1>7, <1>8, Zenon DEF Next

LEMMA OperationsInvInit == ASSUME ResilientConstants, Init PROVE OperationsInv
BY Zenon DEF Init, OperationsInv, Idle, Reconnecting

-----------------------------------------------------------------------------
\* Reconnection is single-flight: an operation that is between the first connection
\* attempt and the end of reconnect_after holds the reconnect mutex and replaces the
\* connection that is current.
THEOREM ReconnectsOnce ==
    ASSUME ResilientConstants PROVE Spec => []SingleFlight
<1>1. Init => OperationsInv
  BY OperationsInvInit, Zenon
<1>2. OperationsInv /\ [Next]_vars => OperationsInv'
  BY OperationsInvStep, Zenon
<1>3. OperationsInv => SingleFlight
  BY Zenon DEF OperationsInv, SingleFlight, Live, Reconnecting
<1> QED BY <1>1, <1>2, <1>3, PTL DEF Spec

\* The server runs a mutation at most once per request, exactly once when the reply
\* says it succeeded, and never for a call that safe_call, an open or a read retries.
THEOREM MutationsRunOnce ==
    ASSUME ResilientConstants PROVE Spec => []MutationsAtMostOnce
<1>1. Init => OperationsInv
  BY OperationsInvInit, Zenon
<1>2. OperationsInv /\ [Next]_vars => OperationsInv'
  BY OperationsInvStep, Zenon
<1>3. OperationsInv => MutationsAtMostOnce
  BY DEF OperationsInv, MutationsAtMostOnce, Live, Ran, Answered, At
<1> QED BY <1>1, <1>2, <1>3, PTL DEF Spec

-----------------------------------------------------------------------------
(***************************************************************************)
(* Recovery of a handle: the lock on the handles is kept from the look at  *)
(* the handle to the end of the replay, so nobody updates the handle in    *)
(* between.                                                                *)
(***************************************************************************)

\* The steps of healthy_connection and reconnect_after.
Acquiring == {"slot", "check", "reconnect"} \cup Reconnecting

\* The operation is in remote_handle, past the lock on the handles.
Recovering(r) == \/ r.pc \in {"reopen", "replay", "discard"}
                 \/ r.then = "reopen" /\ r.pc \in Acquiring

HandleFields == {"generation", "mode", "revision", "history"}
IsHandle(x) == DOMAIN x = HandleFields /\ x = [f \in HandleFields |-> x[f]]

\* The steps that look at the handle of the operation.
AtHandle == {"lookup", "relock", "reopen", "replay", "discard", "mutex", "remove", "close slot"}

Addressed(r) == \/ r.h \in Handles
                \/ r.op # "read" /\ r.then = "call" /\ r.pc \notin AtHandle

\* What a recovering operation knows of its handle.
InHand(r, handle) ==
    /\ IsHandle(handle)
    /\ r.pc \notin {"replay", "discard"} => handle.revision = r.seen
    /\ r.pc = "replay" => MayAdopt(handle) \/ r.version = r.seen

RecoveryInv ==
    /\ handles = [h \in Handles |-> handles[h]]
    /\ \A h \in Handles : handles[h] = NoHandle \/ IsHandle(handles[h])
    /\ \A t \in Tasks : tasks[t] # Idle => Addressed(tasks[t])
    /\ \A t \in Tasks : Recovering(tasks[t]) =>
          handlesLock = t /\ InHand(tasks[t], handles[tasks[t].h])

\* A step of one operation: what the others know of their handles stays true
\* when the handles are left alone or no other operation has locked them.
LEMMA Keeps ==
    ASSUME ResilientConstants, OperationsInv, RecoveryInv, NEW t \in Tasks, NEW r,
           tasks' = [tasks EXCEPT ![t] = r],
           r = Idle \/ Addressed(r),
           handles' = [h \in Handles |-> handles'[h]],
           \A h \in Handles : handles'[h] = NoHandle \/ IsHandle(handles'[h]),
           UNCHANGED <<handles, handlesLock>> \/ handlesLock \in {t, Nobody},
           Recovering(r) => handlesLock' = t /\ InHand(r, handles'[r.h])
    PROVE  RecoveryInv'
<1>1. \A u \in Tasks \ {t} : tasks'[u] = tasks[u]
  BY Zenon DEF OperationsInv
<1>2. tasks'[t] = r
  BY Zenon DEF OperationsInv
<1>3. ASSUME NEW u \in Tasks, Recovering(tasks'[u])
      PROVE  handlesLock' = u /\ InHand(tasks'[u], handles'[tasks'[u].h])
  <2>1. CASE u = t
    BY <1>2, <1>3, <2>1, Zenon
  <2>2. CASE u # t
    <3>1. Recovering(tasks[u]) /\ tasks'[u] = tasks[u]
      BY <1>1, <1>3, <2>2, Zenon
    <3>2. handlesLock = u /\ InHand(tasks[u], handles[tasks[u].h])
      BY <3>1, Zenon DEF RecoveryInv
    <3>3. UNCHANGED <<handles, handlesLock>>
      BY <2>2, <3>2, Zenon DEF ResilientConstants, Nobody
    <3> QED BY <3>1, <3>2, <3>3, Zenon
  <2> QED BY <2>1, <2>2, Zenon
<1>4. \A u \in Tasks : tasks'[u] # Idle => Addressed(tasks'[u])
  BY <1>1, <1>2, Zenon DEF RecoveryInv
<1> QED BY <1>3, <1>4, Zenon DEF RecoveryInv, Recovering, Addressed, InHand, IsHandle, MayAdopt

\* The operation returns, with the handles as they were or not locked by anyone.
LEMMA Ends ==
    ASSUME ResilientConstants, OperationsInv, RecoveryInv, NEW t \in Tasks, End(t),
           UNCHANGED handles \/ handlesLock = Nobody,
           handles' = [h \in Handles |-> handles'[h]],
           \A h \in Handles : handles'[h] = NoHandle \/ IsHandle(handles'[h])
    PROVE  RecoveryInv'
<1>1. tasks' = [tasks EXCEPT ![t] = Idle] /\ ~Recovering(Idle)
  BY Zenon DEF End, Set, Recovering, Idle, Acquiring, Reconnecting
<1>2. UNCHANGED <<handles, handlesLock>> \/ handlesLock \in {t, Nobody}
  BY Zenon DEF End
<1> QED BY <1>1, <1>2, Keeps, Zenon

\* A step that leaves the handles and their lock alone.
LEMMA Passes ==
    ASSUME ResilientConstants, OperationsInv, RecoveryInv, NEW t \in Tasks, NEW r,
           tasks' = [tasks EXCEPT ![t] = r], Addressed(r),
           UNCHANGED <<handles, handlesLock>>,
           Recovering(r) => Recovering(tasks[t]) /\ InHand(r, handles[r.h])
    PROVE  RecoveryInv'
<1>1. Recovering(r) => handlesLock' = t /\ InHand(r, handles'[r.h])
  BY Zenon DEF RecoveryInv
<1>2. /\ handles' = [h \in Handles |-> handles'[h]]
      /\ \A h \in Handles : handles'[h] = NoHandle \/ IsHandle(handles'[h])
  BY Zenon DEF RecoveryInv
<1> QED BY <1>1, <1>2, Keeps, Zenon

\* The application starts an operation outside remote_handle.
LEMMA BeginsOutside ==
    ASSUME ResilientConstants, OperationsInv, RecoveryInv, NEW t \in Tasks,
           NEW op, NEW h, NEW mode, NEW lock, NEW pc \in {"slot", "mutex"},
           NEW then \in {"call", "lookup", "-"}, NEW after,
           h \in Handles \/ (op # "read" /\ then = "call" /\ pc = "slot"),
           Begin(t, Task(op, h, mode, lock, pc, then, after))
    PROVE  RecoveryInv'
<1> DEFINE r == Task(op, h, mode, lock, pc, then, after)
<1>1. r.h = h /\ r.op = op /\ r.pc = pc /\ r.then = then
  BY Zenon DEF Task
<1>2. tasks' = [tasks EXCEPT ![t] = r] /\ UNCHANGED <<handles, handlesLock>>
  BY Zenon DEF Begin, Set
<1> HIDE DEF r
<1>3. Addressed(r) /\ ~Recovering(r)
  BY <1>1, Zenon DEF Addressed, AtHandle, Recovering
<1> QED BY <1>2, <1>3, Passes, Zenon

\* healthy_connection and reconnect_after neither look at handles nor take
\* their lock, which an operation that recovers a handle keeps meanwhile.
LEMMA RecoveryConnectionSteps ==
    ASSUME ResilientConstants, OperationsInv, RecoveryInv, NEW t \in Tasks,
           \/ ReadSlot(t) \/ CheckFailed(t) \/ EnterReconnect(t) \/ Connect(t)
           \/ ConnectRejected(t) \/ ConnectFails(t) \/ PublishSlot(t) \/ ClearFailure(t)
    PROVE  RecoveryInv'
<1>0. tasks[t].pc # "idle" => IsRequest(tasks[t]) /\ Addressed(tasks[t])
  BY DEF OperationsInv, RecoveryInv, Idle
<1>1. /\ handles = [h \in Handles |-> handles[h]]
      /\ \A h \in Handles : handles[h] = NoHandle \/ IsHandle(handles[h])
  BY Zenon DEF RecoveryInv
<1>2. ASSUME NEW r, tasks[t].pc \in Acquiring, tasks' = [tasks EXCEPT ![t] = r],
             UNCHANGED <<handles, handlesLock>>,
             r.h = tasks[t].h, r.op = tasks[t].op, r.then = tasks[t].then,
             r.seen = tasks[t].seen, r.pc \in Acquiring \cup {tasks[t].then}
      PROVE  RecoveryInv'
  <2>1. IsRequest(tasks[t]) /\ Addressed(tasks[t])
    BY <1>0, <1>2, Zenon DEF Acquiring, Reconnecting
  <2>2. Addressed(r)
    BY <1>2, <2>1, Zenon DEF Addressed, IsRequest, AtHandle, Acquiring, Reconnecting
  <2>3. ASSUME Recovering(r) PROVE Recovering(tasks[t]) /\ InHand(r, handles[r.h])
    <3>1. r.then = "reopen" /\ r.pc \in Acquiring \cup {"reopen"}
      BY <1>2, <2>1, <2>3, Zenon DEF Recovering, IsRequest, Acquiring, Reconnecting
    <3>2. Recovering(tasks[t])
      BY <1>2, <3>1, Zenon DEF Recovering
    <3>3. InHand(tasks[t], handles[r.h])
      BY <1>2, <3>2, Zenon DEF RecoveryInv
    <3> QED BY <1>2, <3>1, <3>2, <3>3, Zenon DEF InHand, Acquiring, Reconnecting
  <2> QED BY <1>2, <2>2, <2>3, Passes, Zenon
<1>3. CASE ReadSlot(t)
  <2> DEFINE r == [tasks[t] EXCEPT !.pc = "check", !.slot = generation]
  <2>1. /\ tasks[t].pc = "slot" /\ tasks' = [tasks EXCEPT ![t] = r]
        /\ UNCHANGED <<handles, handlesLock>>
    BY <1>3, Zenon DEF ReadSlot, At, Set, Stay
  <2>2. /\ r.h = tasks[t].h /\ r.op = tasks[t].op /\ r.then = tasks[t].then
        /\ r.seen = tasks[t].seen /\ r.pc = "check"
    BY <1>0, <2>1, Zenon DEF IsRequest, Fields
  <2> HIDE DEF r
  <2> QED BY <1>2, <2>1, <2>2, Zenon DEF Acquiring
<1>4. CASE CheckFailed(t)
  <2> DEFINE r == [tasks[t] EXCEPT !.pc =
                     IF failed = tasks[t].slot THEN "reconnect" ELSE tasks[t].then]
  <2>1. /\ tasks[t].pc = "check" /\ tasks' = [tasks EXCEPT ![t] = r]
        /\ UNCHANGED <<handles, handlesLock>>
    BY <1>4, Zenon DEF CheckFailed, At, Set, Stay
  <2>2. /\ r.h = tasks[t].h /\ r.op = tasks[t].op /\ r.then = tasks[t].then
        /\ r.seen = tasks[t].seen /\ r.pc \in {"reconnect", tasks[t].then}
    BY <1>0, <2>1, Zenon DEF IsRequest, Fields
  <2> HIDE DEF r
  <2> QED BY <1>2, <2>1, <2>2, Zenon DEF Acquiring
<1>5. CASE EnterReconnect(t)
  <2>1. tasks[t].pc = "reconnect" /\ UNCHANGED handles
    BY <1>5, Zenon DEF EnterReconnect, At
  <2>2. CASE End(t)
    BY <1>1, <2>1, <2>2, Ends, Zenon
  <2>3. CASE Set(t, [tasks[t] EXCEPT !.pc = tasks[t].then, !.slot = generation]) /\ Stay
    <3> DEFINE r == [tasks[t] EXCEPT !.pc = tasks[t].then, !.slot = generation]
    <3>1. tasks' = [tasks EXCEPT ![t] = r] /\ UNCHANGED <<handles, handlesLock>>
      BY <2>1, <2>3, Zenon DEF Set, Stay
    <3>2. /\ r.h = tasks[t].h /\ r.op = tasks[t].op /\ r.then = tasks[t].then
          /\ r.seen = tasks[t].seen /\ r.pc = tasks[t].then
      BY <1>0, <2>1, Zenon DEF IsRequest, Fields
    <3> HIDE DEF r
    <3> QED BY <1>2, <2>1, <3>1, <3>2, Zenon DEF Acquiring
  <2>4. CASE Set(t, [tasks[t] EXCEPT !.pc = "connect", !.attempt = 1]) /\ Stay
    <3> DEFINE r == [tasks[t] EXCEPT !.pc = "connect", !.attempt = 1]
    <3>1. tasks' = [tasks EXCEPT ![t] = r] /\ UNCHANGED <<handles, handlesLock>>
      BY <2>1, <2>4, Zenon DEF Set, Stay
    <3>2. /\ r.h = tasks[t].h /\ r.op = tasks[t].op /\ r.then = tasks[t].then
          /\ r.seen = tasks[t].seen /\ r.pc = "connect"
      BY <1>0, <2>1, Zenon DEF IsRequest, Fields
    <3> HIDE DEF r
    <3> QED BY <1>2, <2>1, <3>1, <3>2, Zenon DEF Acquiring, Reconnecting
  <2> QED BY <1>5, <2>2, <2>3, <2>4, Zenon DEF EnterReconnect
<1>6. CASE Connect(t)
  <2> DEFINE r == [tasks[t] EXCEPT !.pc = "publish"]
  <2>1. /\ tasks[t].pc = "connect" /\ tasks' = [tasks EXCEPT ![t] = r]
        /\ UNCHANGED <<handles, handlesLock>>
    BY <1>6, Zenon DEF Connect, At, Set, Stay
  <2>2. /\ r.h = tasks[t].h /\ r.op = tasks[t].op /\ r.then = tasks[t].then
        /\ r.seen = tasks[t].seen /\ r.pc = "publish"
    BY <1>0, <2>1, Zenon DEF IsRequest, Fields
  <2> HIDE DEF r
  <2> QED BY <1>2, <2>1, <2>2, Zenon DEF Acquiring, Reconnecting
<1>7. CASE ConnectRejected(t)
  BY <1>1, <1>7, Ends, Zenon DEF ConnectRejected
<1>8. CASE ConnectFails(t)
  <2> DEFINE r == [tasks[t] EXCEPT !.attempt = @ + 1]
  <2>1. tasks[t].pc = "connect" /\ UNCHANGED handles
    BY <1>8, Zenon DEF ConnectFails, At
  <2>2. CASE Set(t, r) /\ Stay
    <3>1. tasks' = [tasks EXCEPT ![t] = r] /\ UNCHANGED <<handles, handlesLock>>
      BY <2>1, <2>2, Zenon DEF Set, Stay
    <3>2. /\ r.h = tasks[t].h /\ r.op = tasks[t].op /\ r.then = tasks[t].then
          /\ r.seen = tasks[t].seen /\ r.pc = "connect"
      BY <1>0, <2>1, Zenon DEF IsRequest, Fields
    <3> HIDE DEF r
    <3> QED BY <1>2, <2>1, <3>1, <3>2, Zenon DEF Acquiring, Reconnecting
  <2>3. CASE End(t)
    BY <1>1, <2>1, <2>3, Ends, Zenon
  <2> QED BY <1>8, <2>2, <2>3, Zenon DEF ConnectFails
<1>9. CASE PublishSlot(t)
  <2> DEFINE r == [tasks[t] EXCEPT !.pc = "clear", !.slot = @ + 1, !.attempt = 0]
  <2>1. /\ tasks[t].pc = "publish" /\ tasks' = [tasks EXCEPT ![t] = r]
        /\ UNCHANGED <<handles, handlesLock>>
    BY <1>9, Zenon DEF PublishSlot, At, Set, Stay
  <2>2. /\ r.h = tasks[t].h /\ r.op = tasks[t].op /\ r.then = tasks[t].then
        /\ r.seen = tasks[t].seen /\ r.pc = "clear"
    BY <1>0, <2>1, Zenon DEF IsRequest, Fields
  <2> HIDE DEF r
  <2> QED BY <1>2, <2>1, <2>2, Zenon DEF Acquiring, Reconnecting
<1>10. CASE ClearFailure(t)
  <2> DEFINE r == [tasks[t] EXCEPT !.pc = tasks[t].then]
  <2>1. /\ tasks[t].pc = "clear" /\ tasks' = [tasks EXCEPT ![t] = r]
        /\ UNCHANGED <<handles, handlesLock>>
    BY <1>10, Zenon DEF ClearFailure, At, Set, Stay
  <2>2. /\ r.h = tasks[t].h /\ r.op = tasks[t].op /\ r.then = tasks[t].then
        /\ r.seen = tasks[t].seen /\ r.pc = tasks[t].then
    BY <1>0, <2>1, Zenon DEF IsRequest, Fields
  <2> HIDE DEF r
  <2> QED BY <1>2, <2>1, <2>2, Zenon DEF Acquiring, Reconnecting
<1> QED BY <1>3, <1>4, <1>5, <1>6, <1>7, <1>8, <1>9, <1>10, Zenon

\* remote_handle, the mutation mutex and close_file: the handle is changed only
\* by who has the lock on the handles, or while nobody has it.
LEMMA RecoveryHandleSteps ==
    ASSUME ResilientConstants, OperationsInv, RecoveryInv, NEW t \in Tasks,
           \/ LookupHandle(t) \/ LockHandles(t) \/ AlreadyRecovered(t) \/ Reopen(t)
           \/ ReopenLost(t) \/ Discard(t) \/ Replay(t) \/ Recovered(t)
           \/ TakeMutation(t) \/ RemoveHandle(t) \/ CloseSlot(t)
    PROVE  RecoveryInv'
<1> DEFINE h == tasks[t].h
<1>0. ASSUME tasks[t].pc \in AtHandle
      PROVE  /\ IsRequest(tasks[t]) /\ h \in Handles
             /\ handles[h] = NoHandle \/ IsHandle(handles[h])
  <2>0. tasks[t].pc # "idle"
    BY <1>0, Zenon DEF AtHandle
  <2>1. tasks[t] # Idle
    BY <2>0 DEF Idle
  <2>2. IsRequest(tasks[t]) /\ Addressed(tasks[t])
    BY <2>1, Zenon DEF OperationsInv, RecoveryInv
  <2>3. h \in Handles
    BY <1>0, <2>2, Zenon DEF Addressed
  <2> QED BY <2>2, <2>3, Zenon DEF RecoveryInv
<1>1. /\ handles = [x \in Handles |-> handles[x]]
      /\ \A x \in Handles : handles[x] = NoHandle \/ IsHandle(handles[x])
  BY Zenon DEF RecoveryInv
<1>2. tasks[t].pc \in {"reopen", "replay"} => handlesLock = t /\ InHand(tasks[t], handles[h])
  BY Zenon DEF RecoveryInv, Recovering
<1>3. ASSUME NEW r, tasks' = [tasks EXCEPT ![t] = r], r.h \in Handles, ~Recovering(r),
             UNCHANGED <<handles, handlesLock>>
      PROVE  RecoveryInv'
  BY <1>3, Passes, Zenon DEF Addressed
<1>4. ASSUME tasks[t].pc \in AtHandle
      PROVE  Mapped(tasks[t]).h \in Handles /\ ~Recovering(Mapped(tasks[t]))
  <2> DEFINE r == Mapped(tasks[t])
  <2>1. r.h = h /\ ((r.pc = "slot" /\ r.then = "call") \/ r.pc = tasks[t].after)
    BY <1>0, <1>4, Zenon DEF Mapped, IsRequest, Fields
  <2> HIDE DEF r
  <2>2. ~Recovering(r)
    BY <1>0, <1>4, <2>1, Zenon DEF Recovering, IsRequest, Acquiring, Reconnecting
  <2> QED BY <1>0, <1>4, <2>1, <2>2, Zenon DEF r
<1>5. CASE LookupHandle(t)
  <2>1. tasks[t].pc \in AtHandle /\ UNCHANGED handles
    BY <1>5, Zenon DEF LookupHandle, At, AtHandle
  <2>2. CASE End(t)
    BY <1>1, <2>1, <2>2, Ends, Zenon
  <2>3. CASE Set(t, Mapped(tasks[t])) /\ Stay
    BY <1>3, <1>4, <2>1, <2>3, Zenon DEF Set, Stay
  <2>4. CASE Set(t, [tasks[t] EXCEPT !.pc = "relock"]) /\ Stay
    <3> DEFINE r == [tasks[t] EXCEPT !.pc = "relock"]
    <3>1. r.h = h /\ r.pc = "relock"
      BY <1>0, <2>1, Zenon DEF IsRequest, Fields
    <3>2. tasks' = [tasks EXCEPT ![t] = r] /\ UNCHANGED <<handles, handlesLock>>
      BY <2>1, <2>4, Zenon DEF Set, Stay
    <3> HIDE DEF r
    <3> QED BY <1>0, <1>3, <2>1, <3>1, <3>2, Zenon DEF Recovering, Acquiring, Reconnecting
  <2> QED BY <1>5, <2>2, <2>3, <2>4, Zenon DEF LookupHandle
<1>6. CASE LockHandles(t)
  <2>1. tasks[t].pc \in AtHandle /\ UNCHANGED handles /\ handlesLock = Nobody
    BY <1>6, Zenon DEF LockHandles, At, AtHandle
  <2>2. CASE End(t)
    BY <1>1, <2>1, <2>2, Ends, Zenon
  <2>3. CASE /\ handles[h] # NoHandle /\ handlesLock' = t
             /\ Set(t, [tasks[t] EXCEPT !.pc = "slot", !.then = "reopen",
                                        !.seen = handles[h].revision])
    <3> DEFINE r == [tasks[t] EXCEPT !.pc = "slot", !.then = "reopen",
                                     !.seen = handles[h].revision]
    <3>1. r.h = h /\ r.pc = "slot" /\ r.then = "reopen" /\ r.seen = handles[h].revision
      BY <1>0, <2>1, Zenon DEF IsRequest, Fields
    <3>2. tasks' = [tasks EXCEPT ![t] = r]
      BY <2>3, Zenon DEF Set
    <3> HIDE DEF r
    <3>3. InHand(r, handles'[r.h]) /\ Addressed(r)
      BY <1>0, <2>1, <2>3, <3>1, Zenon DEF InHand, Addressed
    <3> QED BY <1>1, <2>1, <2>3, <3>2, <3>3, Keeps, Zenon
  <2> QED BY <1>6, <2>2, <2>3, Zenon DEF LockHandles
<1>7. CASE AlreadyRecovered(t)
  <2>1. /\ tasks[t].pc = "reopen" /\ UNCHANGED handles
        /\ tasks' = [tasks EXCEPT ![t] = Mapped(tasks[t])]
    BY <1>7, Zenon DEF AlreadyRecovered, At, Set
  <2>2. Addressed(Mapped(tasks[t])) /\ ~Recovering(Mapped(tasks[t]))
    BY <1>4, <2>1, Zenon DEF AtHandle, Addressed
  <2> QED BY <1>1, <1>2, <2>1, <2>2, Keeps, Zenon
<1>8. CASE Reopen(t)
  <2>1. tasks[t].pc = "reopen" /\ UNCHANGED handlesLock
    BY <1>8, Zenon DEF Reopen, At, Stay
  <2>2. /\ IsRequest(tasks[t]) /\ h \in Handles /\ handlesLock = t
        /\ IsHandle(handles[h]) /\ handles[h].revision = tasks[t].seen
    BY <1>0, <1>2, <2>1, Zenon DEF AtHandle, InHand
  <2>3. CASE /\ version = handles[h].revision \/ MayAdopt(handles[h])
             /\ handles' = [handles EXCEPT ![h].revision = version]
             /\ Set(t, [tasks[t] EXCEPT !.pc = "replay", !.next = 1, !.version = version])
    <3> DEFINE r == [tasks[t] EXCEPT !.pc = "replay", !.next = 1, !.version = version]
               new == [handles[h] EXCEPT !.revision = version]
    <3>1. r.h = h /\ r.pc = "replay" /\ r.version = version /\ r.seen = tasks[t].seen
      BY <2>2, Zenon DEF IsRequest, Fields
    <3>2. tasks' = [tasks EXCEPT ![t] = r] /\ handles' = [handles EXCEPT ![h] = new]
      BY <2>3, Zenon DEF Set
    <3>3. IsHandle(new) /\ (MayAdopt(handles[h]) => MayAdopt(new))
      BY <2>2, Zenon DEF IsHandle, HandleFields, MayAdopt
    <3> HIDE DEF r, new
    <3>4. /\ handles' = [x \in Handles |-> handles'[x]] /\ handles'[h] = new
          /\ \A x \in Handles : handles'[x] = NoHandle \/ IsHandle(handles'[x])
      BY <1>1, <2>2, <3>2, <3>3, Zenon
    <3>5. InHand(r, handles'[r.h]) /\ Addressed(r)
      BY <2>2, <2>3, <3>1, <3>3, <3>4, Zenon DEF InHand, Addressed
    <3> QED BY <2>1, <2>2, <3>2, <3>4, <3>5, Keeps, Zenon
  <2>4. CASE Set(t, [tasks[t] EXCEPT !.pc = "discard"]) /\ UNCHANGED handles
    <3> DEFINE r == [tasks[t] EXCEPT !.pc = "discard"]
    <3>1. r.h = h /\ r.pc = "discard"
      BY <2>2, Zenon DEF IsRequest, Fields
    <3>2. tasks' = [tasks EXCEPT ![t] = r]
      BY <2>4, Zenon DEF Set
    <3> HIDE DEF r
    <3>3. InHand(r, handles'[r.h]) /\ Addressed(r)
      BY <2>2, <2>4, <3>1, Zenon DEF InHand, Addressed
    <3> QED BY <1>1, <2>1, <2>2, <2>4, <3>2, <3>3, Keeps, Zenon
  <2> QED BY <1>8, <2>3, <2>4, Zenon DEF Reopen
<1>9. CASE ReopenLost(t) \/ Discard(t)
  BY <1>1, <1>9, Ends, Zenon DEF ReopenLost, Discard
<1>10. CASE Replay(t)
  <2>1. tasks[t].pc = "replay" /\ UNCHANGED handles
    BY <1>10, Zenon DEF Replay, At
  <2>2. CASE End(t)
    BY <1>1, <2>1, <2>2, Ends, Zenon
  <2>3. CASE Set(t, [tasks[t] EXCEPT !.next = @ + 1]) /\ Stay
    <3> DEFINE r == [tasks[t] EXCEPT !.next = @ + 1]
    <3>1. IsRequest(tasks[t]) /\ h \in Handles /\ InHand(tasks[t], handles[h])
      BY <1>0, <1>2, <2>1, Zenon DEF AtHandle
    <3>2. r.h = h /\ r.pc = "replay" /\ r.version = tasks[t].version /\ r.seen = tasks[t].seen
      BY <2>1, <3>1, Zenon DEF IsRequest, Fields
    <3>3. tasks' = [tasks EXCEPT ![t] = r] /\ UNCHANGED <<handles, handlesLock>>
      BY <2>1, <2>3, Zenon DEF Set, Stay
    <3> HIDE DEF r
    <3>4. Addressed(r) /\ Recovering(tasks[t]) /\ InHand(r, handles[r.h])
      BY <2>1, <3>1, <3>2, Zenon DEF InHand, Addressed, Recovering
    <3> QED BY <3>3, <3>4, Passes, Zenon
  <2> QED BY <1>10, <2>2, <2>3, Zenon DEF Replay
<1>11. CASE Recovered(t)
  <2> DEFINE new == [handles[h] EXCEPT !.generation = tasks[t].slot]
  <2>1. /\ tasks[t].pc = "replay" /\ handles' = [handles EXCEPT ![h] = new]
        /\ tasks' = [tasks EXCEPT ![t] = Mapped(tasks[t])]
    BY <1>11, Zenon DEF Recovered, At, Set
  <2>2. Addressed(Mapped(tasks[t])) /\ ~Recovering(Mapped(tasks[t]))
    BY <1>4, <2>1, Zenon DEF AtHandle, Addressed
  <2>3. IsHandle(new) /\ handlesLock = t
    BY <1>2, <2>1, Zenon DEF InHand, IsHandle, HandleFields
  <2> HIDE DEF new
  <2>4. /\ handles' = [x \in Handles |-> handles'[x]]
        /\ \A x \in Handles : handles'[x] = NoHandle \/ IsHandle(handles'[x])
    BY <1>1, <2>1, <2>3, Zenon
  <2> QED BY <2>1, <2>2, <2>3, <2>4, Keeps, Zenon
<1>12. CASE TakeMutation(t)
  <2> DEFINE r == CASE tasks[t].op = "setattr" ->
                       [tasks[t] EXCEPT !.pc = "slot", !.then = "call"]
                  [] tasks[t].op = "close" -> [tasks[t] EXCEPT !.pc = "remove"]
                  [] OTHER -> [tasks[t] EXCEPT !.pc = "call"]
  <2>1. /\ tasks[t].pc = "mutex" /\ tasks' = [tasks EXCEPT ![t] = r]
        /\ UNCHANGED <<handles, handlesLock>>
    BY <1>12, Zenon DEF TakeMutation, At, Set
  <2>2. IsRequest(tasks[t]) /\ h \in Handles
    BY <1>0, <2>1, Zenon DEF AtHandle
  <2>3. r.h = h /\ (r.pc \in {"remove", "call"} \/ (r.pc = "slot" /\ r.then = "call"))
    BY <2>2, Zenon DEF IsRequest, Fields
  <2> HIDE DEF r
  <2> QED BY <1>3, <2>1, <2>2, <2>3, Zenon DEF Recovering, Acquiring, Reconnecting
<1>13. CASE RemoveHandle(t)
  <2>1. /\ tasks[t].pc = "remove" /\ handlesLock = Nobody
        /\ handles' = [handles EXCEPT ![h] = NoHandle]
    BY <1>13, Zenon DEF RemoveHandle, At
  <2>2. /\ handles' = [x \in Handles |-> handles'[x]]
        /\ \A x \in Handles : handles'[x] = NoHandle \/ IsHandle(handles'[x])
    BY <1>1, <2>1, Zenon
  <2>3. CASE End(t)
    BY <2>1, <2>2, <2>3, Ends, Zenon
  <2>4. CASE Set(t, [tasks[t] EXCEPT !.pc = "close slot", !.remote = handles[h].generation])
    <3> DEFINE r == [tasks[t] EXCEPT !.pc = "close slot", !.remote = handles[h].generation]
    <3>1. r.h = h /\ r.pc = "close slot" /\ h \in Handles
      BY <1>0, <2>1, Zenon DEF IsRequest, Fields, AtHandle
    <3>2. tasks' = [tasks EXCEPT ![t] = r]
      BY <2>4, Zenon DEF Set
    <3> HIDE DEF r
    <3>3. Addressed(r) /\ ~Recovering(r)
      BY <3>1, Zenon DEF Addressed, Recovering, Acquiring, Reconnecting
    <3> QED BY <2>1, <2>2, <3>2, <3>3, Keeps, Zenon
  <2> QED BY <1>13, <2>3, <2>4, Zenon DEF RemoveHandle
<1>14. CASE CloseSlot(t)
  <2>1. tasks[t].pc = "close slot" /\ UNCHANGED handles
    BY <1>14, Zenon DEF CloseSlot, At
  <2>2. CASE End(t)
    BY <1>1, <2>1, <2>2, Ends, Zenon
  <2>3. CASE Set(t, [tasks[t] EXCEPT !.pc = "call", !.slot = generation]) /\ Stay
    <3> DEFINE r == [tasks[t] EXCEPT !.pc = "call", !.slot = generation]
    <3>1. r.h = h /\ r.pc = "call" /\ h \in Handles
      BY <1>0, <2>1, Zenon DEF IsRequest, Fields, AtHandle
    <3>2. tasks' = [tasks EXCEPT ![t] = r] /\ UNCHANGED <<handles, handlesLock>>
      BY <2>1, <2>3, Zenon DEF Set, Stay
    <3> HIDE DEF r
    <3> QED BY <1>3, <3>1, <3>2, Zenon DEF Recovering, Acquiring, Reconnecting
  <2> QED BY <1>14, <2>2, <2>3, Zenon DEF CloseSlot
<1> QED BY <1>5, <1>6, <1>7, <1>8, <1>9, <1>10, <1>11, <1>12, <1>13, <1>14, Zenon


\* A remote call: adopt_revision, update_written_handle and remember_open wait
\* for the lock on the handles.
LEMMA RecoveryCallSteps ==
    ASSUME ResilientConstants, OperationsInv, RecoveryInv, NEW t \in Tasks,
           \/ ServeInvalid(t) \/ Serve(t) \/ ServeLock(t) \/ ReplyError(t) \/ ReplyPlain(t)
           \/ ReplyOpen(t) \/ ReplyRead(t) \/ ReplyMutation(t) \/ ReplyLock(t)
           \/ TransportFails(t)
    PROVE  RecoveryInv'
<1> DEFINE h == tasks[t].h
<1>0. ASSUME tasks[t].pc \in {"call", "reply"}
      PROVE  IsRequest(tasks[t]) /\ Addressed(tasks[t])
  <2>1. tasks[t] # Idle
    BY <1>0 DEF Idle
  <2> QED BY <2>1, Zenon DEF OperationsInv, RecoveryInv
<1>1. /\ handles = [x \in Handles |-> handles[x]]
      /\ \A x \in Handles : handles[x] = NoHandle \/ IsHandle(handles[x])
  BY Zenon DEF RecoveryInv
<1>2. ASSUME NEW r, tasks[t].pc = "call", tasks' = [tasks EXCEPT ![t] = r],
             UNCHANGED <<handles, handlesLock>>,
             r.h = h, r.op = tasks[t].op, r.then = tasks[t].then, r.pc = "reply"
      PROVE  RecoveryInv'
  <2>1. Addressed(r) /\ ~Recovering(r)
    BY <1>0, <1>2, Zenon DEF Addressed, AtHandle, Recovering, Acquiring, Reconnecting
  <2> QED BY <1>2, <2>1, Passes, Zenon
<1>3. ASSUME NEW new, handles' = [handles EXCEPT ![h] = new], handlesLock = Nobody, End(t),
             h \in Handles => new = NoHandle \/ IsHandle(new)
      PROVE  RecoveryInv'
  <2>1. /\ handles' = [x \in Handles |-> handles'[x]]
        /\ \A x \in Handles : handles'[x] = NoHandle \/ IsHandle(handles'[x])
    BY <1>1, <1>3, Zenon
  <2> QED BY <1>3, <2>1, Ends, Zenon
<1>4. CASE ServeInvalid(t)
  <2> DEFINE r == [tasks[t] EXCEPT !.pc = "reply", !.result = "error"]
  <2>1. /\ tasks[t].pc = "call" /\ tasks' = [tasks EXCEPT ![t] = r]
        /\ UNCHANGED <<handles, handlesLock>>
    BY <1>4, Zenon DEF ServeInvalid, At, Set, Stay
  <2>2. r.h = h /\ r.op = tasks[t].op /\ r.then = tasks[t].then /\ r.pc = "reply"
    BY <1>0, <2>1, Zenon DEF IsRequest, Fields
  <2> HIDE DEF r
  <2> QED BY <1>2, <2>1, <2>2, Zenon
<1>5. CASE Serve(t)
  <2> DEFINE now == IF Mutates(tasks[t]) /\ tasks[t].op # "mutate" THEN version + 1
                    ELSE version
             r == [tasks[t] EXCEPT !.pc = "reply", !.version = now, !.result = "ok"]
  <2>1. /\ tasks[t].pc = "call" /\ tasks' = [tasks EXCEPT ![t] = r]
        /\ UNCHANGED <<handles, handlesLock>>
    BY <1>5, Zenon DEF Serve, At, Set, Stay
  <2>2. r.h = h /\ r.op = tasks[t].op /\ r.then = tasks[t].then /\ r.pc = "reply"
    BY <1>0, <2>1, Zenon DEF IsRequest, Fields
  <2> HIDE DEF r
  <2> QED BY <1>2, <2>1, <2>2, Zenon
<1>6. CASE ServeLock(t)
  <2> DEFINE refused == tasks[t].lock[1] = "lock" /\ Taken(tasks[t].lock[2], tasks[t].slot)
             r == [tasks[t] EXCEPT !.pc = "reply",
                                   !.result = IF refused THEN "error" ELSE "ok"]
  <2>1. /\ tasks[t].pc = "call" /\ tasks' = [tasks EXCEPT ![t] = r]
        /\ UNCHANGED <<handles, handlesLock>>
    BY <1>6, Zenon DEF ServeLock, At, Set, Stay
  <2>2. r.h = h /\ r.op = tasks[t].op /\ r.then = tasks[t].then /\ r.pc = "reply"
    BY <1>0, <2>1, Zenon DEF IsRequest, Fields
  <2> HIDE DEF r
  <2> QED BY <1>2, <2>1, <2>2, Zenon
<1>7. CASE ReplyError(t) \/ ReplyPlain(t)
  BY <1>1, <1>7, Ends, Zenon DEF ReplyError, ReplyPlain
<1>8. CASE ReplyOpen(t)
  <2> DEFINE new == NewHandle(tasks[t].mode, tasks[t].slot, tasks[t].version)
  <2>1. handles' = [handles EXCEPT ![h] = new] /\ handlesLock = Nobody /\ End(t)
    BY <1>8, Zenon DEF ReplyOpen
  <2>2. IsHandle(new)
    BY Zenon DEF NewHandle, IsHandle, HandleFields
  <2> HIDE DEF new
  <2> QED BY <1>3, <2>1, <2>2, Zenon
<1>9. CASE ReplyRead(t)
  <2> DEFINE adopts == /\ handles[h] # NoHandle
                       /\ tasks[t].version # tasks[t].seen
                       /\ RevisionOf[tasks[t].version] > RevisionOf[handles[h].revision]
             new == IF adopts THEN [handles[h] EXCEPT !.revision = tasks[t].version]
                    ELSE handles[h]
  <2>1. /\ handles' = [handles EXCEPT ![h] = new] /\ End(t)
        /\ tasks[t].version # tasks[t].seen => handlesLock = Nobody
    BY <1>9, Zenon DEF ReplyRead
  <2>2. CASE adopts
    <3>1. h \in Handles => IsHandle(new)
      BY <1>1, <2>2, Zenon DEF IsHandle, HandleFields
    <3> QED BY <1>3, <2>1, <2>2, <3>1, Zenon
  <2>3. CASE ~adopts
    <3>1. handles' = handles
      BY <1>1, <2>1, <2>3, Zenon
    <3> QED BY <1>1, <2>1, <3>1, Ends, Zenon
  <2> QED BY <2>2, <2>3, Zenon
<1>10. CASE ReplyMutation(t)
  <2> DEFINE new == IF /\ handles[h] # NoHandle
                       /\ tasks[t].op = "write" => handles[h].generation = tasks[t].slot
                    THEN [handles[h] EXCEPT !.revision = tasks[t].version] ELSE handles[h]
  <2>1. handles' = [handles EXCEPT ![h] = new] /\ handlesLock = Nobody /\ End(t)
    BY <1>10, Zenon DEF ReplyMutation
  <2>2. h \in Handles => new = NoHandle \/ IsHandle(new)
    BY <1>1, Zenon DEF IsHandle, HandleFields
  <2> HIDE DEF new
  <2> QED BY <1>3, <2>1, <2>2, Zenon
<1>11. CASE ReplyLock(t)
  <2>1. PICK history :
           handles' = [handles EXCEPT ![h] =
              IF handles[h] = NoHandle THEN handles[h] ELSE [handles[h] EXCEPT !.history = history]]
    BY <1>11, Zenon DEF ReplyLock
  <2> DEFINE new == IF handles[h] = NoHandle THEN handles[h]
                    ELSE [handles[h] EXCEPT !.history = history]
  <2>2. handles' = [handles EXCEPT ![h] = new] /\ handlesLock = Nobody /\ End(t)
    BY <1>11, <2>1, Zenon DEF ReplyLock
  <2>3. h \in Handles => new = NoHandle \/ IsHandle(new)
    BY <1>1, Zenon DEF IsHandle, HandleFields
  <2> HIDE DEF new
  <2> QED BY <1>3, <2>2, <2>3, Zenon
<1>12. CASE TransportFails(t)
  <2>1. tasks[t].pc \in {"call", "reply"} /\ UNCHANGED handles
    BY <1>12, Zenon DEF TransportFails, At
  <2>2. CASE End(t)
    BY <1>1, <2>1, <2>2, Ends, Zenon
  <2>3. CASE Set(t, Again(tasks[t])) /\ Stay
    <3> DEFINE r == Again(tasks[t])
    <3>1. /\ r.h = h /\ r.op = tasks[t].op
          /\ IF r.op = "read" THEN r.pc = "slot" /\ r.then = "lookup"
                              ELSE r.pc = "reconnect" /\ r.then = "call"
      BY <1>0, <2>1, Zenon DEF IsRequest, Fields, Again
    <3>2. tasks' = [tasks EXCEPT ![t] = r] /\ UNCHANGED <<handles, handlesLock>>
      BY <2>1, <2>3, Zenon DEF Set, Stay
    <3> HIDE DEF r
    <3>3. Addressed(r) /\ ~Recovering(r)
      BY <1>0, <2>1, <3>1, Zenon DEF Addressed, AtHandle, Recovering
    <3> QED BY <3>2, <3>3, Passes, Zenon
  <2> QED BY <1>12, <2>2, <2>3, Zenon DEF TransportFails
<1> QED BY <1>4, <1>5, <1>6, <1>7, <1>8, <1>9, <1>10, <1>11, <1>12, Zenon

\* Every step of the client, of the server and of the surroundings.
LEMMA RecoveryInvStep ==
    ASSUME ResilientConstants, OperationsInv, RecoveryInv, [Next]_vars
    PROVE  RecoveryInv'
<1>1. ASSUME NEW t \in Tasks, Step(t) PROVE RecoveryInv'
  <2>1. CASE \/ ReadSlot(t) \/ CheckFailed(t) \/ EnterReconnect(t) \/ Connect(t)
             \/ ConnectRejected(t) \/ ConnectFails(t) \/ PublishSlot(t) \/ ClearFailure(t)
    BY <2>1, RecoveryConnectionSteps, Zenon
  <2>2. CASE \/ LookupHandle(t) \/ LockHandles(t) \/ AlreadyRecovered(t) \/ Reopen(t)
             \/ ReopenLost(t) \/ Discard(t) \/ Replay(t) \/ Recovered(t)
             \/ TakeMutation(t) \/ RemoveHandle(t) \/ CloseSlot(t)
    BY <2>2, RecoveryHandleSteps, Zenon
  <2>3. CASE \/ ServeInvalid(t) \/ Serve(t) \/ ServeLock(t) \/ ReplyError(t) \/ ReplyPlain(t)
             \/ ReplyOpen(t) \/ ReplyRead(t) \/ ReplyMutation(t) \/ ReplyLock(t)
             \/ TransportFails(t)
    BY <2>3, RecoveryCallSteps, Zenon
  <2> QED BY <1>1, <2>1, <2>2, <2>3, Zenon DEF Step, Acquire
<1>2. ASSUME NEW t \in Tasks, BeginSafe(t) \/ BeginMutation(t) PROVE RecoveryInv'
  BY <1>2, BeginsOutside, Zenon DEF BeginSafe, BeginMutation
<1>3. ASSUME NEW t \in Tasks, NEW h \in Handles, NEW mode \in Modes, BeginOpen(t, h, mode)
      PROVE  RecoveryInv'
  BY <1>3, BeginsOutside, Zenon DEF BeginOpen
<1>4. ASSUME NEW t \in Tasks, NEW h \in Handles,
             \/ BeginRead(t, h) \/ BeginWrite(t, h) \/ BeginSetAttributes(t, h)
             \/ BeginFlush(t, h) \/ BeginClose(t, h)
      PROVE  RecoveryInv'
  BY <1>4, BeginsOutside, Zenon
  DEF BeginRead, BeginWrite, BeginSetAttributes, BeginFlush, BeginClose
<1>5. ASSUME NEW t \in Tasks, NEW h \in Handles, NEW kind \in {"lock", "unlock"},
             NEW l \in Locks, BeginSetLock(t, h, kind, l)
      PROVE  RecoveryInv'
  BY <1>5, BeginsOutside, Zenon DEF BeginSetLock
<1>6. ASSUME UNCHANGED <<handles, handlesLock, tasks>> PROVE RecoveryInv'
  BY <1>6, Zenon DEF RecoveryInv, Recovering, Addressed, InHand, IsHandle, MayAdopt
<1>7. CASE \/ BackoffElapses \/ (\E g \in Generations : SessionEnds(g))
           \/ OtherClientWrites \/ (\E l \in Locks : OtherClientLocks(l))
  BY <1>6, <1>7, Zenon DEF BackoffElapses, SessionEnds, OtherClientWrites, OtherClientLocks, Outside
<1>8. CASE UNCHANGED vars
  BY <1>6, <1>8, Zenon DEF vars
<1> QED BY <1>1, <1>2, <1>3, <1>4, <1>5, <1>7, <1>8, Zenon DEF Next

\* A handle that may write, or that has locked, is recovered only on the revision
\* it last knew: nothing that another operation does between the look at the handle
\* and the end of the replay changes what the comparison in remote_handle relied on.
THEOREM RecoversTheSameFile ==
    ASSUME ResilientConstants PROVE Spec => []RecoveredUnchanged
<1>1. Init => OperationsInv /\ RecoveryInv
  <2>1. Init => RecoveryInv
    BY DEF Init, RecoveryInv, Recovering, Idle, Acquiring, Reconnecting
  <2> QED BY <2>1, OperationsInvInit, Zenon
<1>2. OperationsInv /\ RecoveryInv /\ [Next]_vars => (OperationsInv /\ RecoveryInv)'
  BY OperationsInvStep, RecoveryInvStep, Zenon
<1>3. RecoveryInv => RecoveredUnchanged
  BY Zenon DEF RecoveryInv, RecoveredUnchanged, Recovering, InHand, Live, At
<1> QED BY <1>1, <1>2, <1>3, PTL DEF Spec
=============================================================================
