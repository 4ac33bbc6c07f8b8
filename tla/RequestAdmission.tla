-------------------------- MODULE RequestAdmission --------------------------
(***************************************************************************)
(* What the daemon lets in: connections, requests, the bytes of reads and  *)
(* writes in flight, authentication.  Each resource is a semaphore; a      *)
(* request gives back what it holds when it ends, when its deadline passes *)
(* and when its connection goes away, and work that outlives the request   *)
(* keeps what it uses.                                                     *)
(* Source: src/servers/linux/server-daemon/src/main.rs.                    *)
(***************************************************************************)
EXTENDS Integers, Sequences, FiniteSets

CONSTANTS
    Conns, Peer,            \* connections, and the address each comes from
    Slots,                  \* requests under way at a time
    AdmissionLoads,              \* [kinds, ready]: kinds of requests, and the connections
                            \* already authenticated; a behaviour has one
    MaxConnections, MaxRequests, MaxAuth,
    ReadBytes, WriteBytes, ConnectionWriteBytes,
    Lengths,
    FailureLimit,           \* 5 in the code
    AttemptsPerWindow, Window, MaxBuckets,
    MaxStreams, MaxTime     \* bounds: requests in all, time

BudgetsAssumption ==
    /\ IsFiniteSet(Conns) /\ IsFiniteSet(Slots) /\ "nobody" \notin Slots
    /\ MaxConnections \in Nat /\ MaxRequests \in Nat /\ MaxAuth \in Nat
    /\ ReadBytes \in Nat /\ WriteBytes \in Nat /\ ConnectionWriteBytes \in Nat
    /\ ConnectionWriteBytes <= WriteBytes
    /\ \A n \in Lengths : n \in Nat /\ n <= ReadBytes /\ n <= ConnectionWriteBytes
    /\ FailureLimit \in Nat /\ AttemptsPerWindow \in Nat /\ Window \in Nat /\ MaxBuckets \in Nat
    /\ MaxStreams \in Nat
    /\ \A l \in AdmissionLoads :
          l.ready \subseteq Conns /\ Cardinality(l.ready) <= MaxConnections

VARIABLES
    conn,           \* connection -> none | open | closing | gone
    waiting,        \* connection -> request its loop waits to admit
    auth,           \* connection -> ConnectionAuth and who holds its mutex
    reqs,           \* slot -> request
    writing,        \* detached writes: [c, len, r]
    verifying,      \* verifications on blocking threads: [c, r, id]
    free,           \* permits of the semaphores
    connFree,       \* connection -> connection_write_permits
    limiter,        \* peer -> times of its attempts
    now, streams, load,
    refused,        \* history: connection -> answered failed verifications
    allowed         \* history: peer -> times the limiter allowed

limits == << limiter, now, allowed >>
admissionVars == << conn, waiting, auth, reqs, writing, verifying, free, connFree,
           limits, streams, load, refused >>

None == [pc |-> "none"]
Nobody == "nobody"
Peers == {Peer[c] : c \in Conns}

AdmissionInit ==
    /\ load \in AdmissionLoads
    /\ conn = [c \in Conns |-> IF c \in load.ready THEN "open" ELSE "none"]
    /\ waiting = [c \in Conns |-> None]
    /\ auth = [c \in Conns |-> [ok |-> c \in load.ready, failed |-> 0, holder |-> Nobody]]
    /\ reqs = [r \in Slots |-> None]
    /\ writing = {} /\ verifying = {}
    /\ free = [conns |-> MaxConnections - Cardinality(load.ready), requests |-> MaxRequests, auth |-> MaxAuth,
               read |-> ReadBytes, write |-> WriteBytes]
    /\ connFree = [c \in Conns |-> ConnectionWriteBytes]
    /\ limiter = [p \in {} |-> << >>] /\ now = 0
    /\ allowed = [p \in Peers |-> << >>]
    /\ streams = 0
    /\ refused = [c \in Conns |-> 0]

Take(kind, n) == free' = [free EXCEPT ![kind] = @ - n]

-----------------------------------------------------------------------------
(* Connections and their streams *)

\* A connection beyond the limit is refused.
Accept(c) ==
    /\ conn[c] = "none" /\ free.conns > 0
    /\ Take("conns", 1)
    /\ conn' = [conn EXCEPT ![c] = "open"]
    /\ UNCHANGED << waiting, auth, reqs, writing, verifying, connFree, limits, streams, load, refused >>

\* accept_bi: the loop of the connection then waits for a request permit.
AcceptStream(c, kind, len) ==
    /\ conn[c] = "open" /\ waiting[c] = None /\ streams < MaxStreams /\ kind \in load.kinds
    /\ kind \notin {"read", "write"} => len = 0
    /\ kind \in {"read", "write"} => len \in Lengths
    /\ streams' = streams + 1
    /\ waiting' = [waiting EXCEPT ![c] =
          [pc |-> "start", c |-> c, kind |-> kind, len |-> len, holds |-> 0, id |-> streams + 1]]
    /\ UNCHANGED << conn, auth, reqs, writing, verifying, free, connFree, limits, load, refused >>

Admit(c, r) ==
    /\ waiting[c] # None /\ reqs[r] = None /\ free.requests > 0
    /\ Take("requests", 1)
    /\ reqs' = [reqs EXCEPT ![r] = waiting[c]]
    /\ waiting' = [waiting EXCEPT ![c] = None]
    /\ UNCHANGED << conn, auth, writing, verifying, connFree, limits, streams, load, refused >>

\* The wait for a permit times out and the stream is dropped.
AdmitTimeout(c) ==
    /\ waiting[c] # None
    /\ waiting' = [waiting EXCEPT ![c] = None]
    /\ UNCHANGED << conn, auth, reqs, writing, verifying, free, connFree, limits, streams, load, refused >>

-----------------------------------------------------------------------------
(* A request gives back what it holds *)

\* Mutant: the bytes of a read are not given back.
ForgetsReads(r) ==
    [free EXCEPT !.requests = @ + 1,
                 !.write = @ + (IF reqs[r].kind = "write" THEN reqs[r].holds ELSE 0)]

Released(r) ==
    LET held(kind) == IF reqs[r].kind = kind THEN reqs[r].holds ELSE 0 IN
    [free EXCEPT !.requests = @ + 1, !.read = @ + held("read"), !.write = @ + held("write")]

ReleasedHere(r) ==
    [connFree EXCEPT ![reqs[r].c] = @ + (IF reqs[r].kind = "write" THEN reqs[r].holds ELSE 0)]

\* The guard of the connection's ConnectionAuth goes with the request.
Unlocked(r) == [auth EXCEPT ![reqs[r].c].holder = IF @ = r THEN Nobody ELSE @]

\* The end of a request: answered, out of time or aborted.
End(r, state) ==
    /\ reqs' = [reqs EXCEPT ![r] = None]
    /\ free' = Released(r) /\ connFree' = ReleasedHere(r)
    /\ auth' = state

Concludes(r) == /\ End(r, Unlocked(r))
           /\ UNCHANGED << conn, waiting, writing, verifying, limits, streams, load, refused >>

Continues(r, pc) ==
    /\ reqs' = [reqs EXCEPT ![r].pc = pc]
    /\ UNCHANGED << conn, waiting, writing, verifying, connFree, limits, streams, load, refused >>

-----------------------------------------------------------------------------
(* Dispatch *)

\* Hello, Pair and Ping are served at once.
Open(kind) == kind = "ping"

\* Mutant: reads are served before authentication as well.
ServesReads(r) == auth[reqs[r].c].ok \/ reqs[r].kind = "read"

Allowed(r) == auth[reqs[r].c].ok

ServeOpen(r) == reqs[r].pc = "start" /\ Open(reqs[r].kind) /\ Concludes(r)

\* Everything else looks at the connection's state first, under its mutex.
Dispatch(r) ==
    /\ reqs[r].pc = "start" /\ ~Open(reqs[r].kind) /\ reqs[r].kind # "auth"
    /\ auth[reqs[r].c].holder = Nobody
    /\ IF Allowed(r) THEN Continues(r, "serve") /\ UNCHANGED << auth, free >> ELSE Concludes(r)

ServeOther(r) == reqs[r].pc = "serve" /\ reqs[r].kind = "other" /\ Concludes(r)

-----------------------------------------------------------------------------
(* ReadRange and GetXattr: wait for the bytes, keep them until the answer is sent *)

AcquireRead(r) ==
    /\ reqs[r].pc = "serve" /\ reqs[r].kind = "read" /\ free.read >= reqs[r].len
    /\ Take("read", reqs[r].len)
    /\ reqs' = [reqs EXCEPT ![r].pc = "reading", ![r].holds = reqs[r].len]
    /\ UNCHANGED << conn, waiting, auth, writing, verifying, connFree, limits, streams, load, refused >>

AnswerRead(r) == reqs[r].pc = "reading" /\ Concludes(r)

-----------------------------------------------------------------------------
(* WriteRange and SetXattr: the bytes at once or Busy *)

Busy(r) == free.write < reqs[r].len \/ connFree[reqs[r].c] < reqs[r].len

AcquireWrite(r) ==
    /\ reqs[r].pc = "serve" /\ reqs[r].kind = "write"
    /\ IF Busy(r) THEN Concludes(r)
       ELSE /\ Take("write", reqs[r].len)
            /\ connFree' = [connFree EXCEPT ![reqs[r].c] = @ - reqs[r].len]
            /\ reqs' = [reqs EXCEPT ![r].pc = "body", ![r].holds = reqs[r].len]
            /\ UNCHANGED << conn, waiting, auth, writing, verifying, limits, streams, load, refused >>

\* The reservations that go with the body into the task of the write.
Moved(len) == len

\* The body has arrived and the write is spawned.
SpawnWrite(r) ==
    LET q == reqs[r] IN
    /\ q.pc = "body"
    /\ writing' = writing \cup {[c |-> q.c, len |-> q.len, id |-> q.id, holds |-> Moved(q.len)]}
    /\ reqs' = [reqs EXCEPT ![r].pc = "written", ![r].holds = q.len - Moved(q.len)]
    /\ UNCHANGED << conn, waiting, auth, verifying, free, connFree, limits, streams, load, refused >>

\* The stream is reset before the body is complete.
BodyLost(r) == reqs[r].pc = "body" /\ Concludes(r)

WriteDone(w) ==
    /\ writing' = writing \ {w}
    /\ free' = [free EXCEPT !.write = @ + w.holds]
    /\ connFree' = [connFree EXCEPT ![w.c] = @ + w.holds]
    /\ UNCHANGED << conn, waiting, auth, reqs, verifying, limits, streams, load, refused >>

AnswerWrite(r) ==
    /\ reqs[r].pc = "written" /\ \A w \in writing : w.id # reqs[r].id
    /\ Concludes(r)

-----------------------------------------------------------------------------
(* AuthRateLimiter *)

\* Attempts leave the window after Window; the cutoff itself has left it.
Past(time) == time <= now - Window

\* How many attempts the loop over the front of the queue pops: it stops at the
\* first that is in the window.
Popped(times) ==
    CHOOSE k \in 0 .. Len(times) :
        (\A i \in 1 .. k : Past(times[i])) /\ (k < Len(times) => ~Past(times[k + 1]))

InWindow(times) == [i \in 1 .. Len(times) - Popped(times) |-> times[i + Popped(times)]]

\* retain: a full table loses the peers whose attempts have all left.
Retained == [p \in {q \in DOMAIN limiter : InWindow(limiter[q]) # << >>} |-> InWindow(limiter[p])]

Full(peer) == peer \notin DOMAIN limiter /\ Cardinality(DOMAIN limiter) >= MaxBuckets

\* The entry of a peer in the table of the limiter.
Entered(table, peer, attempts) ==
    [p \in DOMAIN table \cup {peer} |-> IF p = peer THEN attempts ELSE table[p]]

\* The table and the answer of allow(peer).
Allow(peer) ==
    LET table == IF Full(peer) THEN Retained ELSE limiter
        attempts == IF peer \in DOMAIN table THEN InWindow(table[peer]) ELSE << >>
    IN
    IF Full(peer) /\ Cardinality(DOMAIN table) >= MaxBuckets THEN [ok |-> FALSE, table |-> table]
    ELSE IF Len(attempts) >= AttemptsPerWindow
    THEN [ok |-> FALSE, table |-> Entered(table, peer, attempts)]
    ELSE [ok |-> TRUE, table |-> Entered(table, peer, Append(attempts, now))]

Tick ==
    /\ now < MaxTime /\ "auth" \in load.kinds
    /\ now' = now + 1
    /\ UNCHANGED << conn, waiting, auth, reqs, writing, verifying, free, connFree, limiter,
                    streams, load, refused, allowed >>

-----------------------------------------------------------------------------
(* Authenticate *)

\* The mutex of ConnectionAuth is held until the request is answered.
LockAuth(r) ==
    /\ reqs[r].pc = "start" /\ reqs[r].kind = "auth" /\ auth[reqs[r].c].holder = Nobody
    /\ auth' = [auth EXCEPT ![reqs[r].c].holder = r]
    /\ Continues(r, "auth")
    /\ UNCHANGED free

Failed(r) == [Unlocked(r) EXCEPT ![reqs[r].c].failed = @ + 1]

\* A connection that is authenticated, or has failed too often.
AuthRefused(r) ==
    LET state == auth[reqs[r].c] IN
    /\ reqs[r].pc = "auth" /\ (state.ok \/ state.failed >= FailureLimit)
    /\ Concludes(r)

\* A name or password that cannot be valid counts as a failure.
AuthInvalid(r) ==
    LET state == auth[reqs[r].c] IN
    /\ reqs[r].pc = "auth" /\ ~state.ok /\ state.failed < FailureLimit
    /\ End(r, Failed(r))
    /\ refused' = [refused EXCEPT ![reqs[r].c] = @ + 1]
    /\ UNCHANGED << conn, waiting, writing, verifying, limits, streams, load >>

\* Mutant: the guard is dropped while the password is verified.
UnlockedWhileVerifying(r) == Unlocked(r)

WhileVerifying(r) == auth

\* The rate limiter, then a permit, then a blocking thread that owns the permit.
Verify(r) ==
    LET state == auth[reqs[r].c]
        answer == Allow(Peer[reqs[r].c])
    IN
    /\ reqs[r].pc = "auth" /\ ~state.ok /\ state.failed < FailureLimit
    /\ limiter' = answer.table
    /\ allowed' = IF answer.ok THEN [allowed EXCEPT ![Peer[reqs[r].c]] = Append(@, now)] ELSE allowed
    /\ IF answer.ok /\ free.auth > 0
       THEN /\ Take("auth", 1)
            /\ verifying' = verifying \cup {[r |-> r, id |-> reqs[r].id]}
            /\ reqs' = [reqs EXCEPT ![r].pc = "verify"]
            /\ auth' = WhileVerifying(r)
            /\ UNCHANGED connFree
       ELSE End(r, Unlocked(r)) /\ UNCHANGED verifying
    /\ UNCHANGED << conn, waiting, writing, now, streams, load, refused >>

\* The thread is done; a request that still waits for it takes the result.
Verified(v, result) ==
    LET live == reqs[v.r] # None /\ reqs[v.r].id = v.id
        c == reqs[v.r].c
    IN
    /\ verifying' = verifying \ {v}
    /\ IF ~live
       THEN /\ result = "error"
            /\ free' = [free EXCEPT !.auth = @ + 1]
            /\ UNCHANGED << auth, reqs, connFree, refused >>
       ELSE /\ reqs' = [reqs EXCEPT ![v.r] = None]
            /\ free' = [Released(v.r) EXCEPT !.auth = @ + 1]
            /\ auth' = CASE result = "accepted" -> [Unlocked(v.r) EXCEPT ![c].ok = TRUE]
                         [] result = "rejected" -> Failed(v.r)
                         [] OTHER -> Unlocked(v.r)
            /\ refused' = IF result = "rejected" THEN [refused EXCEPT ![c] = @ + 1] ELSE refused
            /\ UNCHANGED connFree
    /\ UNCHANGED << conn, waiting, writing, limits, streams, load >>

-----------------------------------------------------------------------------
(* Deadlines and the end of a connection *)

Timeout(r) == reqs[r] # None /\ Concludes(r)

\* accept_bi fails: the loop ends and aborts the requests of the connection.
Close(c) ==
    /\ conn[c] = "open" /\ waiting[c] = None
    /\ conn' = [conn EXCEPT ![c] = "closing"]
    /\ UNCHANGED << waiting, auth, reqs, writing, verifying, free, connFree, limits, streams, load, refused >>

Abort(r) == reqs[r] # None /\ conn[reqs[r].c] = "closing" /\ Concludes(r)

\* All requests are joined; the locks go, and the permit.
Leave(c) ==
    /\ conn[c] = "closing" /\ \A r \in Slots : reqs[r] # None => reqs[r].c # c
    /\ conn' = [conn EXCEPT ![c] = "gone"]
    /\ free' = [free EXCEPT !.conns = @ + 1]
    /\ UNCHANGED << waiting, auth, reqs, writing, verifying, connFree, limits, streams, load, refused >>

AdmissionNext ==
    \/ \E c \in Conns :
        \/ Accept(c) \/ AdmitTimeout(c) \/ Close(c) \/ Leave(c)
        \/ \E kind \in load.kinds, len \in Lengths \cup {0} : AcceptStream(c, kind, len)
        \/ \E r \in Slots : Admit(c, r)
    \/ \E r \in Slots : ServeOpen(r) \/ Dispatch(r) \/ ServeOther(r)
    \/ \E r \in Slots : AcquireRead(r) \/ AnswerRead(r)
    \/ \E r \in Slots : AcquireWrite(r) \/ SpawnWrite(r) \/ BodyLost(r) \/ AnswerWrite(r)
    \/ \E w \in writing : WriteDone(w)
    \/ \E r \in Slots : LockAuth(r) \/ AuthRefused(r) \/ AuthInvalid(r) \/ Verify(r)
    \/ \E v \in verifying, result \in {"accepted", "rejected", "error"} : Verified(v, result)
    \/ \E r \in Slots : Timeout(r) \/ Abort(r)
    \/ Tick

AdmissionSpec == AdmissionInit /\ [][AdmissionNext]_admissionVars

-----------------------------------------------------------------------------
(* Properties *)

Live(kind) == {r \in Slots : reqs[r] # None /\ (reqs[r].kind = kind \/ kind = "any")}
Writes(c) == {w \in writing : w.c = c}

\* The bytes that requests and detached writes hold, one pair for each byte.
Bytes(table, rs) == UNION {{r} \X (1 .. table[r].holds) : r \in rs}
WriterBytes(ws) == UNION {{w} \X (1 .. w.holds) : w \in ws}
Body(w) == {w} \X (1 .. w.len)

\* The shape of the state: a semaphore never has more permits than it began with,
\* the limiter remembers at most so many peers, and a request is of a connection
\* whose loop has not ended.
AdmissionTypeOK ==
    /\ conn \in [Conns -> {"none", "open", "closing", "gone"}]
    /\ free.conns \in 0..MaxConnections /\ free.requests \in 0..MaxRequests
    /\ free.auth \in 0..MaxAuth /\ free.read \in 0..ReadBytes /\ free.write \in 0..WriteBytes
    /\ connFree \in [Conns -> 0..ConnectionWriteBytes]
    /\ DOMAIN limiter \subseteq Peers /\ Cardinality(DOMAIN limiter) <= MaxBuckets
    /\ \A r \in Slots : reqs[r] # None => conn[reqs[r].c] \in {"open", "closing"}

\* Every permit is free or held by something that still runs: a request, the
\* task of a write, the thread of a verification.
Accounted ==
    /\ free.conns + Cardinality({c \in Conns : conn[c] \in {"open", "closing"}}) = MaxConnections
    /\ free.requests + Cardinality(Live("any")) = MaxRequests
    /\ free.auth + Cardinality(verifying) = MaxAuth
    /\ free.read + Cardinality(Bytes(reqs, Live("read"))) = ReadBytes
    /\ free.write + Cardinality(Bytes(reqs, Live("write"))) + Cardinality(WriterBytes(writing))
          = WriteBytes

\* The bodies of writes in memory, those included whose request timed out after
\* the write began, stay within the budgets of the server and the connection.
BodiesBounded ==
    /\ Cardinality(UNION {Body(w) : w \in writing}) <= WriteBytes
    /\ \A c \in Conns : Cardinality(UNION {Body(w) : w \in Writes(c)}) <= ConnectionWriteBytes

\* The mutex of a connection's authentication state is held only by a request
\* to authenticate that is under way on it; its loss would block the connection.
AuthMutexHeldByLive ==
    \A c \in Conns :
        auth[c].holder # Nobody =>
            /\ reqs[auth[c].holder] # None
            /\ reqs[auth[c].holder].c = c /\ reqs[auth[c].holder].pc \in {"auth", "verify"}

\* Every permit of serve_until, and the mutex of a connection's authentication
\* state, is free or held by something that still runs: none is lost and none given
\* back twice, whatever times out, is aborted or fails.  The bodies of writes in
\* memory stay within the budgets of the server and of their connection.
PermitsConserved == AdmissionTypeOK /\ Accounted /\ BodiesBounded /\ AuthMutexHeldByLive

\* A connection is told of at most five failures, however its requests to
\* authenticate overlap: the state is locked from the check to the count.
FailuresBounded == \A c \in Conns : refused[c] <= FailureLimit

\* The limiter lets a peer through at most so many times in any window, also
\* when the table of peers is full.
Recent(p) == {i \in 1 .. Len(allowed[p]) : ~Past(allowed[p][i])}
RateLimited == \A p \in Peers : Cardinality(Recent(p)) <= AttemptsPerWindow

\* A connection is told of at most MAX_AUTH_FAILURES failed verifications, and the
\* limiter lets a peer through at most so many times in any window, however
\* requests to authenticate overlap and whatever peers fill the limiter's table.
AttemptsLimited == FailuresBounded /\ RateLimited

\* Nothing is read or written for a connection before it is authenticated, and
\* a verification that outlives its request authenticates nobody.
AuthenticatedFirst ==
    /\ \A r \in Slots : reqs[r] # None /\ reqs[r].pc \in {"serve", "reading", "body", "written"} => auth[reqs[r].c].ok
    /\ \A w \in writing : auth[w.c].ok
=============================================================================
