----------------------- MODULE RequestAdmissionProofs -----------------------
(***************************************************************************)
(* Proofs about what the daemon lets in, for any number of connections,    *)
(* requests, permits and failures allowed: authentication, then the        *)
(* accounts of the permits, then the rate limiter.                         *)
(***************************************************************************)
EXTENDS RequestAdmission, FiniteSetTheorems, NaturalsInduction, WellFoundedInduction, TLAPS

\* The steps of a request that is served, and of one that authenticates.
Served == {"serve", "reading", "body", "written"}
Authenticating == {"auth", "verify"}

\* A request of a connection, numbered like its stream.
IsRequest(q, n) ==
    /\ DOMAIN q = {"pc", "c", "kind", "len", "holds", "id"}
    /\ q.c \in Conns /\ q.id \in Nat /\ q.id <= n

IsAuth(a) ==
    /\ DOMAIN a = {"ok", "failed", "holder"}
    /\ a.failed \in Nat /\ a.failed <= FailureLimit

\* A request that is served is of an authenticated connection.  One that
\* authenticates has the mutex of its connection, so that nobody else fails there
\* while its password is verified.
Stage(q, r, a) ==
    /\ q.pc \in Served => a.ok
    /\ q.pc \in Authenticating => a.holder = r
    /\ q.pc = "verify" => a.failed < FailureLimit

\* A verification finds its own request again or none.
Belongs(v, table, queue, n) ==
    /\ v.r \in Slots /\ v.id \in Nat /\ v.id <= n
    /\ table[v.r] # None /\ table[v.r].id = v.id => table[v.r].pc = "verify"
    /\ \A c \in Conns : queue[c] # None => queue[c].id # v.id

\* No two streams have one number.
Distinct(table, queue) ==
    \A c \in Conns : queue[c] # None =>
        /\ \A d \in Conns : d # c /\ queue[d] # None => queue[d].id # queue[c].id
        /\ \A r \in Slots : table[r] # None => table[r].id # queue[c].id

\* The inductive invariant.
AdmissionInv ==
    /\ streams \in Nat
    /\ reqs = [r \in Slots |-> reqs[r]] /\ waiting = [c \in Conns |-> waiting[c]]
    /\ auth = [c \in Conns |-> auth[c]] /\ refused = [c \in Conns |-> refused[c]]
    /\ \A c \in Conns : IsAuth(auth[c]) /\ refused[c] = auth[c].failed
    /\ \A c \in Conns : waiting[c] # None =>
          IsRequest(waiting[c], streams) /\ waiting[c].pc = "start"
    /\ \A r \in Slots : reqs[r] # None =>
          IsRequest(reqs[r], streams) /\ Stage(reqs[r], r, auth[reqs[r].c])
    /\ Distinct(reqs, waiting)
    /\ \A w \in writing : w.c \in Conns /\ auth[w.c].ok
    /\ \A v \in verifying : Belongs(v, reqs, waiting, streams)
    /\ \A c \in Conns : auth[c].holder # Nobody =>
          /\ auth[c].holder \in Slots /\ reqs[auth[c].holder] # None
          /\ reqs[auth[c].holder].c = c /\ reqs[auth[c].holder].pc \in Authenticating

-----------------------------------------------------------------------------
\* A step of request r, which becomes q, or None when it ends, and leaves the
\* authentication of its connection as a.
Changes(r, q, a) ==
    /\ reqs' = [reqs EXCEPT ![r] = q]
    /\ auth' = [auth EXCEPT ![reqs[r].c] = a]
    /\ refused' = [refused EXCEPT ![reqs[r].c] = a.failed]
    /\ UNCHANGED << streams, waiting >>

\* What the request may become ...
MayBecome(r, q) ==
    q # None => /\ IsRequest(q, streams) /\ q.c = reqs[r].c /\ q.id = reqs[r].id
                /\ reqs[r].pc = "verify" => q.pc = "verify"

\* ... and what it may do to the authentication of its connection: the others there
\* are left alone, or none of them authenticates.
MayLeave(r, q, a) ==
    LET old == auth[reqs[r].c] IN
    /\ IsAuth(a)
    /\ old.ok => a.ok
    /\ q # None => Stage(q, r, a)
    /\ \/ a.holder = old.holder /\ a.failed = old.failed
       \/ old.holder \in {Nobody, r}
    /\ \/ a.holder = Nobody
       \/ a.holder = r /\ q # None /\ q.pc \in Authenticating
       \/ a.holder = old.holder /\ a.holder # r

\* What it may start.
MayStart(r, q, a) ==
    /\ \A w \in writing' : w \in writing \/ (w.c = reqs[r].c /\ a.ok)
    /\ \A v \in verifying' :
          \/ v \in verifying
          \/ v.r = r /\ v.id = reqs[r].id /\ q # None /\ q.pc = "verify"

LEMMA RequestSteps ==
    ASSUME AdmissionInv, BudgetsAssumption, NEW r \in Slots, NEW q, NEW a,
           reqs[r] # None, Changes(r, q, a), MayBecome(r, q), MayLeave(r, q, a), MayStart(r, q, a)
    PROVE  AdmissionInv'
<1> DEFINE c == reqs[r].c
<1>0. /\ c \in Conns /\ IsRequest(reqs[r], streams)
      /\ \A d \in Conns : auth[d].holder # Nobody =>
            /\ auth[d].holder \in Slots /\ reqs[auth[d].holder] # None
            /\ reqs[auth[d].holder].c = d /\ reqs[auth[d].holder].pc \in Authenticating
  BY Zenon DEF AdmissionInv, IsRequest
<1>1. /\ reqs' = [u \in Slots |-> reqs'[u]] /\ reqs'[r] = q
      /\ \A u \in Slots : u # r => reqs'[u] = reqs[u]
  BY Zenon DEF AdmissionInv, Changes
<1>2. /\ auth' = [d \in Conns |-> auth'[d]] /\ auth'[c] = a
      /\ \A d \in Conns : d # c => auth'[d] = auth[d]
  BY <1>0, Zenon DEF AdmissionInv, Changes
<1>3. /\ refused' = [d \in Conns |-> refused'[d]] /\ refused'[c] = a.failed
      /\ \A d \in Conns : d # c => refused'[d] = refused[d]
  BY <1>0, Zenon DEF AdmissionInv, Changes
<1>4. \A d \in Conns : IsAuth(auth'[d]) /\ refused'[d] = auth'[d].failed
  BY <1>2, <1>3 DEF AdmissionInv, MayLeave
<1> HIDE DEF c
<1>5. ASSUME NEW u \in Slots, reqs'[u] # None
      PROVE  IsRequest(reqs'[u], streams') /\ Stage(reqs'[u], u, auth'[reqs'[u].c])
  <2>0. streams' = streams
    BY Zenon DEF Changes
  <2>1. CASE u = r
    BY <1>1, <1>2, <1>5, <2>0, <2>1, Zenon DEF MayBecome, MayLeave, c
  <2>2. CASE u # r
    <3>1. reqs'[u] = reqs[u] /\ IsRequest(reqs[u], streams) /\ Stage(reqs[u], u, auth[reqs[u].c])
      BY <1>1, <1>5, <2>2, Zenon DEF AdmissionInv
    <3>2. u # Nobody
      BY Zenon DEF BudgetsAssumption, Nobody
    <3>3. CASE reqs[u].c # c
      BY <1>2, <2>0, <3>1, <3>3, Zenon DEF IsRequest
    <3>4. CASE reqs[u].c = c
      <4>1. Stage(reqs[u], u, auth[c])
        BY <3>1, <3>4, Zenon
      <4>2. Stage(reqs[u], u, a)
        BY <2>2, <3>2, <4>1, Zenon DEF Stage, Authenticating, MayLeave, c
      <4> QED BY <1>2, <2>0, <3>1, <3>4, <4>2, Zenon
    <3> QED BY <3>3, <3>4, Zenon
  <2> QED BY <2>1, <2>2, Zenon
<1>6. \A w \in writing' : w.c \in Conns /\ auth'[w.c].ok
  BY <1>0, <1>2 DEF AdmissionInv, MayStart, MayLeave, c
<1>7. ASSUME NEW v \in verifying' PROVE Belongs(v, reqs', waiting', streams')
  <2>1. waiting' = waiting /\ streams' = streams
    BY Zenon DEF Changes
  <2>2. CASE v \in verifying
    <3>1. Belongs(v, reqs, waiting, streams)
      BY <2>2, Zenon DEF AdmissionInv
    <3> QED BY <1>1, <2>1, <3>1, Zenon DEF Belongs, MayBecome
  <2>3. CASE v.r = r /\ v.id = reqs[r].id /\ q # None /\ q.pc = "verify"
    <3>1. Distinct(reqs, waiting)
      BY Zenon DEF AdmissionInv
    <3> QED BY <1>0, <1>1, <2>1, <2>3, <3>1 DEF Belongs, IsRequest, Distinct
  <2> QED BY <2>2, <2>3, Zenon DEF MayStart
<1>8. ASSUME NEW d \in Conns, auth'[d].holder # Nobody
      PROVE  /\ auth'[d].holder \in Slots /\ reqs'[auth'[d].holder] # None
             /\ reqs'[auth'[d].holder].c = d /\ reqs'[auth'[d].holder].pc \in Authenticating
  <2>1. CASE d # c
    <3>1. /\ auth[d].holder \in Slots /\ reqs[auth[d].holder] # None
          /\ reqs[auth[d].holder].c = d /\ reqs[auth[d].holder].pc \in Authenticating
      BY <1>0, <1>2, <1>8, <2>1, Zenon
    <3> QED BY <1>1, <1>2, <2>1, <3>1 DEF c
  <2>2. CASE d = c /\ a.holder = r /\ q # None /\ q.pc \in Authenticating
    BY <1>1, <1>2, <2>2, Zenon DEF MayBecome, c
  <2>3. CASE d = c /\ a.holder = auth[c].holder /\ a.holder # r
    <3>1. /\ auth[c].holder \in Slots /\ reqs[auth[c].holder] # None
          /\ reqs[auth[c].holder].c = c /\ reqs[auth[c].holder].pc \in Authenticating
      BY <1>0, <1>2, <1>8, <2>3, Zenon
    <3> QED BY <1>1, <1>2, <2>3, <3>1
  <2> QED BY <1>2, <1>8, <2>1, <2>2, <2>3, Zenon DEF MayLeave, c
<1>9. Distinct(reqs', waiting')
  <2>1. Distinct(reqs, waiting) /\ waiting' = waiting
    BY Zenon DEF AdmissionInv, Changes
  <2> QED BY <1>1, <2>1 DEF Distinct, MayBecome
<1>10. /\ streams' \in Nat /\ waiting' = [d \in Conns |-> waiting'[d]]
       /\ \A d \in Conns : waiting'[d] # None =>
             IsRequest(waiting'[d], streams') /\ waiting'[d].pc = "start"
  BY Zenon DEF AdmissionInv, Changes
<1> QED BY <1>1, <1>2, <1>3, <1>4, <1>5, <1>6, <1>7, <1>8, <1>9, <1>10 DEF AdmissionInv

\* A request goes on and its connection's authentication stays as it is.
LEMMA RequestProceeds ==
    ASSUME AdmissionInv, BudgetsAssumption, NEW r \in Slots, NEW q, reqs[r] # None, q # None,
           reqs' = [reqs EXCEPT ![r] = q], UNCHANGED << auth, refused, streams, waiting >>,
           MayBecome(r, q), Stage(q, r, auth[reqs[r].c]),
           reqs[r].pc \in Authenticating => q.pc \in Authenticating,
           MayStart(r, q, auth[reqs[r].c])
    PROVE  AdmissionInv'
<1> DEFINE c == reqs[r].c
<1>1. c \in Conns /\ IsAuth(auth[c]) /\ refused[c] = auth[c].failed
  BY Zenon DEF AdmissionInv, IsRequest
<1>2. auth[c].holder = r => reqs[r].pc \in Authenticating
  <2>1. r # Nobody
    BY Zenon DEF BudgetsAssumption, Nobody
  <2> QED BY <1>1, <2>1, Zenon DEF AdmissionInv
<1>3. Changes(r, q, auth[c])
  <2>1. auth = [auth EXCEPT ![c] = auth[c]]
    BY Zenon DEF AdmissionInv
  <2>2. refused = [refused EXCEPT ![c] = auth[c].failed]
    BY <1>1 DEF AdmissionInv
  <2> QED BY <2>1, <2>2, Zenon DEF Changes
<1>4. MayLeave(r, q, auth[c])
  BY <1>1, <1>2, Zenon DEF MayLeave
<1> QED BY <1>3, <1>4, RequestSteps, Zenon

\* The guard of ConnectionAuth goes with the request: what Unlocked leaves.
Left(r) == [auth[reqs[r].c] EXCEPT !.holder = IF @ = r THEN Nobody ELSE @]

LEMMA UnlockedFacts ==
    ASSUME AdmissionInv, NEW r \in Slots, reqs[r] # None
    PROVE  /\ Unlocked(r) = [auth EXCEPT ![reqs[r].c] = Left(r)]
           /\ IsAuth(Left(r)) /\ Left(r).failed = auth[reqs[r].c].failed
           /\ Left(r).ok = auth[reqs[r].c].ok
           /\ Left(r).holder = IF auth[reqs[r].c].holder = r THEN Nobody
                               ELSE auth[reqs[r].c].holder
           /\ reqs[r].c \in Conns
<1>1. reqs[r].c \in Conns /\ IsAuth(auth[reqs[r].c])
  BY Zenon DEF AdmissionInv, IsRequest
<1> QED BY <1>1, Zenon DEF Unlocked, Left, IsAuth, AdmissionInv

\* A request ends: answered, out of time or aborted.
LEMMA RequestEnds ==
    ASSUME AdmissionInv, BudgetsAssumption, NEW r \in Slots, reqs[r] # None,
           reqs' = [reqs EXCEPT ![r] = None], auth' = Unlocked(r),
           UNCHANGED << refused, streams, waiting, writing >>, verifying' \subseteq verifying
    PROVE  AdmissionInv'
<1> DEFINE a == Left(r)
<1>1. /\ Unlocked(r) = [auth EXCEPT ![reqs[r].c] = a] /\ reqs[r].c \in Conns
      /\ IsAuth(a) /\ a.failed = auth[reqs[r].c].failed /\ a.ok = auth[reqs[r].c].ok
      /\ a.holder = IF auth[reqs[r].c].holder = r THEN Nobody ELSE auth[reqs[r].c].holder
  BY UnlockedFacts, Zenon
<1> HIDE DEF a
<1>2. Changes(r, None, a)
  BY <1>1 DEF Changes, AdmissionInv
<1>3. MayLeave(r, None, a)
  BY <1>1, Zenon DEF MayLeave
<1>4. MayBecome(r, None) /\ MayStart(r, None, a)
  BY Zenon DEF MayBecome, MayStart
<1> QED BY <1>2, <1>3, <1>4, RequestSteps

\* A request that authenticates ends with a verdict: one more failure, or success.
LEMMA VerdictGiven ==
    ASSUME AdmissionInv, BudgetsAssumption, NEW r \in Slots, reqs[r] # None, NEW a,
           reqs' = [reqs EXCEPT ![r] = None], reqs[r].pc \in Authenticating,
           auth' = [auth EXCEPT ![reqs[r].c] = a],
           refused' = [refused EXCEPT ![reqs[r].c] = a.failed],
           IsAuth(a), a.holder = Nobody, auth[reqs[r].c].ok => a.ok,
           UNCHANGED << streams, waiting, writing >>, verifying' \subseteq verifying
    PROVE  AdmissionInv'
<1>1. auth[reqs[r].c].holder = r
  BY Zenon DEF AdmissionInv, Stage
<1>2. MayLeave(r, None, a)
  BY <1>1, Zenon DEF MayLeave
<1>3. MayBecome(r, None) /\ MayStart(r, None, a) /\ Changes(r, None, a)
  BY Zenon DEF MayBecome, MayStart, Changes
<1> QED BY <1>2, <1>3, RequestSteps, Zenon

-----------------------------------------------------------------------------
\* The loop of a connection: a stream is accepted, admitted or dropped.
LEMMA StreamSteps ==
    ASSUME AdmissionInv, BudgetsAssumption, NEW c \in Conns,
           \/ \E kind, len : AcceptStream(c, kind, len)
           \/ AdmitTimeout(c)
           \/ \E r \in Slots : Admit(c, r)
    PROVE  AdmissionInv'
<1>1. ASSUME NEW kind, NEW len, AcceptStream(c, kind, len) PROVE AdmissionInv'
  <2> DEFINE q == [pc |-> "start", c |-> c, kind |-> kind, len |-> len, holds |-> 0,
                   id |-> streams + 1]
  <2>1. /\ waiting' = [waiting EXCEPT ![c] = q] /\ streams' = streams + 1
        /\ UNCHANGED << auth, reqs, writing, verifying, refused >>
    BY <1>1, Zenon DEF AcceptStream
  <2>2. IsRequest(q, streams') /\ q.pc = "start" /\ q.id = streams + 1 /\ streams \in Nat
    BY <2>1 DEF IsRequest, AdmissionInv
  <2> HIDE DEF q
  <2>3. /\ waiting'[c] = q /\ waiting' = [d \in Conns |-> waiting'[d]]
        /\ \A d \in Conns : d # c => waiting'[d] = waiting[d]
    BY <2>1, Zenon DEF AdmissionInv
  <2>4. \A d \in Conns : waiting'[d] # None =>
           IsRequest(waiting'[d], streams') /\ waiting'[d].pc = "start"
    <3>1. \A d \in Conns : waiting[d] # None =>
             IsRequest(waiting[d], streams) /\ waiting[d].pc = "start"
      BY Zenon DEF AdmissionInv
    <3>2. \A x : IsRequest(x, streams) => IsRequest(x, streams')
      BY <2>1, <2>2 DEF IsRequest
    <3> QED BY <2>2, <2>3, <3>1, <3>2, Zenon
  <2>5. \A r \in Slots : reqs[r] # None =>
           IsRequest(reqs[r], streams') /\ Stage(reqs[r], r, auth[reqs[r].c])
    BY <2>1, <2>2 DEF AdmissionInv, IsRequest
  <2>6. Distinct(reqs, waiting')
    <3>1. /\ \A d \in Conns : waiting[d] # None => waiting[d].id <= streams /\ waiting[d].id \in Nat
          /\ \A r \in Slots : reqs[r] # None => reqs[r].id <= streams /\ reqs[r].id \in Nat
          /\ Distinct(reqs, waiting)
      BY Zenon DEF AdmissionInv, IsRequest
    <3> QED BY <2>2, <2>3, <3>1 DEF Distinct
  <2>7. \A v \in verifying : Belongs(v, reqs, waiting', streams')
    <3>1. \A v \in verifying : Belongs(v, reqs, waiting, streams)
      BY Zenon DEF AdmissionInv
    <3> QED BY <2>1, <2>2, <2>3, <3>1 DEF Belongs
  <2> QED BY <2>1, <2>2, <2>3, <2>4, <2>5, <2>6, <2>7 DEF AdmissionInv
<1>2. CASE AdmitTimeout(c)
  <2>1. /\ waiting' = [waiting EXCEPT ![c] = None]
        /\ UNCHANGED << auth, reqs, writing, verifying, refused, streams >>
    BY <1>2, Zenon DEF AdmitTimeout
  <2>2. /\ waiting'[c] = None /\ waiting' = [d \in Conns |-> waiting'[d]]
        /\ \A d \in Conns : d # c => waiting'[d] = waiting[d]
    BY <2>1, Zenon DEF AdmissionInv
  <2>3. Distinct(reqs, waiting')
    <3>1. Distinct(reqs, waiting)
      BY Zenon DEF AdmissionInv
    <3> QED BY <2>2, <3>1, Zenon DEF Distinct
  <2>4. \A v \in verifying : Belongs(v, reqs, waiting', streams)
    <3>1. \A v \in verifying : Belongs(v, reqs, waiting, streams)
      BY Zenon DEF AdmissionInv
    <3> QED BY <2>2, <3>1, Zenon DEF Belongs
  <2> QED BY <2>1, <2>2, <2>3, <2>4 DEF AdmissionInv
<1>3. ASSUME NEW r \in Slots, Admit(c, r) PROVE AdmissionInv'
  <2>1. /\ waiting[c] # None /\ reqs[r] = None
        /\ waiting' = [waiting EXCEPT ![c] = None] /\ reqs' = [reqs EXCEPT ![r] = waiting[c]]
        /\ UNCHANGED << auth, writing, verifying, refused, streams >>
    BY <1>3, Zenon DEF Admit
  <2>2. /\ waiting'[c] = None /\ waiting' = [d \in Conns |-> waiting'[d]]
        /\ \A d \in Conns : d # c => waiting'[d] = waiting[d]
    BY <2>1, Zenon DEF AdmissionInv
  <2>3. /\ reqs'[r] = waiting[c] /\ reqs' = [u \in Slots |-> reqs'[u]]
        /\ \A u \in Slots : u # r => reqs'[u] = reqs[u]
    BY <2>1, Zenon DEF AdmissionInv
  <2>4. IsRequest(waiting[c], streams) /\ waiting[c].pc = "start"
    BY <2>1, Zenon DEF AdmissionInv
  <2>5. Stage(waiting[c], r, auth[waiting[c].c])
    BY <2>4, Zenon DEF Stage, Served, Authenticating
  <2>6. \A u \in Slots : reqs'[u] # None =>
           IsRequest(reqs'[u], streams) /\ Stage(reqs'[u], u, auth[reqs'[u].c])
    BY <2>3, <2>4, <2>5 DEF AdmissionInv
  <2>7. Distinct(reqs', waiting')
    <3>1. Distinct(reqs, waiting)
      BY Zenon DEF AdmissionInv
    <3> QED BY <2>1, <2>2, <2>3, <3>1 DEF Distinct
  <2>8. \A v \in verifying : Belongs(v, reqs', waiting', streams)
    <3>1. \A v \in verifying : Belongs(v, reqs, waiting, streams)
      BY Zenon DEF AdmissionInv
    <3> QED BY <2>1, <2>2, <2>3, <3>1 DEF Belongs
  <2>9. \A d \in Conns : auth[d].holder # Nobody =>
           /\ auth[d].holder \in Slots /\ reqs'[auth[d].holder] # None
           /\ reqs'[auth[d].holder].c = d /\ reqs'[auth[d].holder].pc \in Authenticating
    <3>1. \A d \in Conns : auth[d].holder # Nobody =>
             /\ auth[d].holder \in Slots /\ reqs[auth[d].holder] # None
             /\ reqs[auth[d].holder].c = d /\ reqs[auth[d].holder].pc \in Authenticating
      BY Zenon DEF AdmissionInv
    <3> QED BY <2>1, <2>3, <3>1
  <2>10. \A d \in Conns : waiting'[d] # None =>
           IsRequest(waiting'[d], streams) /\ waiting'[d].pc = "start"
    BY <2>2 DEF AdmissionInv
  <2>11. UNCHANGED << auth, writing, verifying, refused, streams >>
    BY <2>1, Zenon
  <2> QED BY <2>2, <2>3, <2>6, <2>7, <2>8, <2>9, <2>10, <2>11 DEF AdmissionInv
<1> QED BY <1>1, <1>2, <1>3, Zenon

\* Dispatch and the service of a request that is let through.
LEMMA ServiceSteps ==
    ASSUME AdmissionInv, BudgetsAssumption, NEW r \in Slots,
           \/ ServeOpen(r) \/ Dispatch(r) \/ ServeOther(r) \/ AcquireRead(r) \/ AnswerRead(r)
           \/ AcquireWrite(r) \/ SpawnWrite(r) \/ BodyLost(r) \/ AnswerWrite(r)
           \/ AuthRefused(r) \/ Timeout(r) \/ Abort(r)
    PROVE  AdmissionInv'
<1>0. reqs[r].pc # "none" => reqs[r] # None
  BY DEF None
<1>1. ASSUME reqs[r] # None, Concludes(r) PROVE AdmissionInv'
  BY <1>1, RequestEnds, Zenon DEF Concludes, End
<1>2. CASE \/ ServeOpen(r) \/ ServeOther(r) \/ AnswerRead(r) \/ BodyLost(r) \/ AnswerWrite(r)
           \/ AuthRefused(r)
  BY <1>0, <1>1, <1>2, Zenon
     DEF ServeOpen, ServeOther, AnswerRead, BodyLost, AnswerWrite, AuthRefused
<1>3. CASE Timeout(r) \/ Abort(r)
  BY <1>1, <1>3, Zenon DEF Timeout, Abort
<1>4. ASSUME reqs[r].pc \notin Authenticating, reqs[r] # None, NEW pc \in Served, NEW q,
             q # None, reqs' = [reqs EXCEPT ![r] = q],
             DOMAIN q = DOMAIN reqs[r], q.pc = pc, q.c = reqs[r].c, q.id = reqs[r].id,
             auth[reqs[r].c].ok, UNCHANGED << auth, refused, streams, waiting, verifying >>,
             \A w \in writing' : w \in writing \/ w.c = reqs[r].c
      PROVE  AdmissionInv'
  <2>1. MayBecome(r, q)
    BY <1>4 DEF MayBecome, AdmissionInv, IsRequest, Authenticating
  <2>2. Stage(q, r, auth[reqs[r].c])
    BY <1>4, Zenon DEF Stage, Served, Authenticating
  <2>3. MayStart(r, q, auth[reqs[r].c])
    BY <1>4, Zenon DEF MayStart
  <2> QED BY <1>4, <2>1, <2>2, <2>3, RequestProceeds, ZenonT(20)
<1>5. reqs[r] # None => /\ DOMAIN reqs[r] = {"pc", "c", "kind", "len", "holds", "id"}
                        /\ reqs[r].pc \in Served => auth[reqs[r].c].ok
  BY Zenon DEF AdmissionInv, IsRequest, Stage
<1>6. CASE Dispatch(r)
  <2>1. reqs[r].pc = "start" /\ reqs[r] # None
    BY <1>6, <1>0, Zenon DEF Dispatch
  <2>2. CASE Concludes(r)
    BY <1>1, <2>1, <2>2, Zenon
  <2>3. CASE Allowed(r) /\ Continues(r, "serve") /\ UNCHANGED auth
    <3> DEFINE q == [reqs[r] EXCEPT !.pc = "serve"]
    <3>1. /\ reqs' = [reqs EXCEPT ![r] = q] /\ auth[reqs[r].c].ok
          /\ UNCHANGED << auth, refused, streams, waiting, verifying, writing >>
      BY <2>3, Zenon DEF Allowed, Continues
    <3>2. /\ DOMAIN q = DOMAIN reqs[r] /\ q.pc = "serve" /\ q.c = reqs[r].c
          /\ q.id = reqs[r].id /\ q # None
      BY <1>5, <2>1, Zenon DEF None
    <3> HIDE DEF q
    <3> QED BY <1>4, <2>1, <3>1, <3>2, Zenon DEF Served, Authenticating
  <2> QED BY <1>6, <2>2, <2>3, Zenon DEF Dispatch
<1>7. ASSUME reqs[r].pc \in Served, NEW pc \in Served, NEW n,
             reqs' = [reqs EXCEPT ![r] = [reqs[r] EXCEPT !.pc = pc, !.holds = n]],
             UNCHANGED << auth, refused, streams, waiting, verifying >>,
             \A w \in writing' : w \in writing \/ w.c = reqs[r].c
      PROVE  AdmissionInv'
  <2> DEFINE q == [reqs[r] EXCEPT !.pc = pc, !.holds = n]
  <2>1. reqs[r] # None /\ reqs[r].pc \notin Authenticating /\ auth[reqs[r].c].ok
    BY <1>0, <1>5, <1>7, Zenon DEF Served, Authenticating
  <2>2. /\ DOMAIN q = DOMAIN reqs[r] /\ q.pc = pc /\ q.c = reqs[r].c /\ q.id = reqs[r].id
        /\ q # None
    BY <1>5, <2>1, Zenon DEF None, Served
  <2>3. reqs' = [reqs EXCEPT ![r] = q]
    BY <1>7, Zenon
  <2> HIDE DEF q
  <2> QED BY <1>4, <1>7, <2>1, <2>2, <2>3, ZenonT(20)
<1>8. CASE AcquireRead(r)
  BY <1>7, <1>8, ZenonT(20) DEF AcquireRead, Served
<1>9. CASE AcquireWrite(r)
  <2>1. CASE Concludes(r)
    BY <1>0, <1>1, <1>9, <2>1, Zenon DEF AcquireWrite
  <2>2. CASE ~Busy(r)
    BY <1>7, <1>9, <2>2, ZenonT(20) DEF AcquireWrite, Served
  <2> QED BY <1>9, <2>1, <2>2, Zenon DEF AcquireWrite
<1>10. CASE SpawnWrite(r)
  <2> DEFINE n == reqs[r].len - Moved(reqs[r].len)
  <2>1. /\ reqs[r].pc = "body"
        /\ reqs' = [reqs EXCEPT ![r] = [reqs[r] EXCEPT !.pc = "written", !.holds = n]]
        /\ UNCHANGED << auth, refused, streams, waiting, verifying >>
    BY <1>10, Zenon DEF SpawnWrite
  <2>2. \A w \in writing' : w \in writing \/ w.c = reqs[r].c
    BY <1>10 DEF SpawnWrite
  <2> HIDE DEF n
  <2> QED BY <1>7, <2>1, <2>2, Zenon DEF Served
<1> QED BY <1>2, <1>3, <1>6, <1>8, <1>9, <1>10, Zenon

\* Authenticate, from the mutex of ConnectionAuth to the verdict.
LEMMA AuthSteps ==
    ASSUME AdmissionInv, BudgetsAssumption, NEW r \in Slots,
           LockAuth(r) \/ AuthInvalid(r) \/ Verify(r)
    PROVE  AdmissionInv'
<1> DEFINE c == reqs[r].c
<1>0. reqs[r].pc # "none" => /\ reqs[r] # None /\ IsRequest(reqs[r], streams) /\ c \in Conns
                             /\ IsAuth(auth[c]) /\ refused[c] = auth[c].failed
                             /\ Stage(reqs[r], r, auth[c])
  BY DEF AdmissionInv, IsRequest, None
<1>1. CASE LockAuth(r)
  <2> DEFINE q == [reqs[r] EXCEPT !.pc = "auth"]
             a == [auth[c] EXCEPT !.holder = r]
  <2>1. /\ reqs[r].pc = "start" /\ auth[c].holder = Nobody
        /\ reqs' = [reqs EXCEPT ![r] = q] /\ auth' = [auth EXCEPT ![c] = a]
        /\ UNCHANGED << refused, streams, waiting, verifying, writing >>
    BY <1>1, <1>0, Zenon DEF LockAuth, Continues, AdmissionInv
  <2>2. /\ IsRequest(q, streams) /\ q.pc = "auth" /\ q.c = c /\ q.id = reqs[r].id /\ q # None
    BY <1>0, <2>1, Zenon DEF IsRequest, None
  <2>3. IsAuth(a) /\ a.holder = r /\ a.failed = auth[c].failed /\ a.ok = auth[c].ok
    BY <1>0, <2>1, Zenon DEF IsAuth
  <2> HIDE DEF q, a
  <2>4. refused = [refused EXCEPT ![c] = a.failed]
    BY <1>0, <2>1, <2>3, Zenon DEF AdmissionInv
  <2>5. Changes(r, q, a)
    BY <2>1, <2>4, Zenon DEF Changes
  <2>6. MayBecome(r, q) /\ MayStart(r, q, a)
    BY <2>1, <2>2, Zenon DEF MayBecome, MayStart
  <2>7. Stage(q, r, a)
    BY <2>2, <2>3, Zenon DEF Stage, Served
  <2>8. MayLeave(r, q, a)
    BY <2>1, <2>2, <2>3, <2>7, Zenon DEF MayLeave, Authenticating
  <2> QED BY <1>0, <2>1, <2>5, <2>6, <2>8, RequestSteps, Zenon
<1>2. CASE AuthInvalid(r)
  <2> DEFINE a == [auth[c] EXCEPT !.holder = IF @ = r THEN Nobody ELSE @, !.failed = @ + 1]
  <2>1. /\ reqs[r].pc = "auth" /\ ~auth[c].ok /\ auth[c].failed < FailureLimit
        /\ reqs' = [reqs EXCEPT ![r] = None] /\ refused' = [refused EXCEPT ![c] = @ + 1]
        /\ auth' = Failed(r) /\ UNCHANGED << streams, waiting, verifying, writing >>
    BY <1>2, Zenon DEF AuthInvalid, End
  <2>2. Failed(r) = [auth EXCEPT ![c] = a]
    BY <1>0, <2>1, Zenon DEF Failed, Unlocked, AdmissionInv, IsAuth
  <2>3. auth[c].holder = r
    BY <1>0, <2>1, Zenon DEF Stage, Authenticating
  <2>4. IsAuth(a) /\ a.holder = Nobody /\ a.failed = auth[c].failed + 1
    BY <1>0, <2>1, <2>3 DEF IsAuth, BudgetsAssumption
  <2> HIDE DEF a
  <2>5. refused' = [refused EXCEPT ![c] = a.failed]
    BY <1>0, <2>1, <2>4, Zenon DEF AdmissionInv
  <2> QED BY <1>0, <2>1, <2>2, <2>4, <2>5, VerdictGiven, Zenon DEF Authenticating
<1>3. CASE Verify(r)
  <2>1. /\ reqs[r].pc = "auth" /\ ~auth[c].ok /\ auth[c].failed < FailureLimit
        /\ UNCHANGED << refused, streams, waiting, writing >>
    BY <1>3, Zenon DEF Verify
  <2>2. CASE End(r, Unlocked(r)) /\ UNCHANGED verifying
    BY <1>0, <2>1, <2>2, RequestEnds, Zenon DEF End
  <2>3. CASE /\ verifying' = verifying \cup {[r |-> r, id |-> reqs[r].id]}
             /\ reqs' = [reqs EXCEPT ![r].pc = "verify"] /\ auth' = WhileVerifying(r)
    <3> DEFINE q == [reqs[r] EXCEPT !.pc = "verify"]
    <3>1. /\ IsRequest(q, streams) /\ q.pc = "verify" /\ q.c = c /\ q.id = reqs[r].id /\ q # None
      BY <1>0, <2>1, Zenon DEF IsRequest, None
    <3>2. reqs' = [reqs EXCEPT ![r] = q] /\ UNCHANGED auth
      BY <2>3, Zenon DEF WhileVerifying
    <3> HIDE DEF q
    <3>3. MayBecome(r, q)
      BY <3>1, Zenon DEF MayBecome
    <3>4. Stage(q, r, auth[c])
      BY <1>0, <2>1, <3>1, Zenon DEF Stage, Served, Authenticating
    <3>5. MayStart(r, q, auth[c])
      BY <2>1, <2>3, <3>1 DEF MayStart
    <3> QED BY <1>0, <2>1, <3>1, <3>2, <3>3, <3>4, <3>5, RequestProceeds, ZenonT(20) DEF Authenticating
  <2> QED BY <1>3, <2>2, <2>3, Zenon DEF Verify
<1> QED BY <1>1, <1>2, <1>3, Zenon

\* The blocking thread is done, with its request still there or not.
LEMMA VerifiedSteps ==
    ASSUME AdmissionInv, BudgetsAssumption, NEW v \in verifying, NEW result, Verified(v, result)
    PROVE  AdmissionInv'
<1> DEFINE r == v.r
           c == reqs[r].c
<1>0. /\ Belongs(v, reqs, waiting, streams) /\ r \in Slots
      /\ verifying' = verifying \ {v} /\ UNCHANGED << waiting, writing, streams >>
  BY Zenon DEF AdmissionInv, Verified, Belongs
<1>1. CASE ~(reqs[r] # None /\ reqs[r].id = v.id)
  <2>1. UNCHANGED << auth, reqs, refused >>
    BY <1>1, Zenon DEF Verified
  <2>2. \A x \in verifying' : Belongs(x, reqs, waiting, streams)
    BY <1>0, Zenon DEF AdmissionInv
  <2>3. UNCHANGED << auth, reqs, refused, waiting, writing, streams >>
    BY <1>0, <2>1, Zenon
  <2> QED BY <2>2, <2>3, Zenon DEF AdmissionInv
<1>2. CASE reqs[r] # None /\ reqs[r].id = v.id
  <2>1. /\ reqs[r].pc = "verify" /\ c \in Conns /\ IsAuth(auth[c]) /\ refused[c] = auth[c].failed
        /\ auth[c].holder = r /\ auth[c].failed < FailureLimit
    BY <1>0, <1>2, Zenon DEF AdmissionInv, Belongs, IsRequest, Stage, Authenticating
  <2>2. /\ reqs' = [reqs EXCEPT ![r] = None]
        /\ auth' = CASE result = "accepted" -> [Unlocked(r) EXCEPT ![c].ok = TRUE]
                     [] result = "rejected" -> Failed(r)
                     [] OTHER -> Unlocked(r)
        /\ refused' = IF result = "rejected" THEN [refused EXCEPT ![c] = @ + 1] ELSE refused
    BY <1>2, Zenon DEF Verified
  <2>3. auth = [d \in Conns |-> auth[d]] /\ refused = [d \in Conns |-> refused[d]]
    BY Zenon DEF AdmissionInv
  <2> HIDE DEF r
  <2>4. Unlocked(r) = [auth EXCEPT ![c] = [auth[c] EXCEPT !.holder = Nobody]]
    BY <2>1, <2>3, Zenon DEF Unlocked, IsAuth
  <2>5. CASE result = "accepted"
    <3> DEFINE a == [auth[c] EXCEPT !.holder = Nobody, !.ok = TRUE]
    <3>1. auth' = [auth EXCEPT ![c] = a]
      BY <2>1, <2>2, <2>3, <2>4, <2>5, Zenon DEF IsAuth
    <3>2. IsAuth(a) /\ a.holder = Nobody /\ a.ok /\ a.failed = refused[c]
      BY <2>1, Zenon DEF IsAuth
    <3> HIDE DEF a
    <3>3. refused' = [refused EXCEPT ![c] = a.failed]
      BY <2>2, <2>3, <2>5, <3>2, Zenon
    <3> QED BY <1>0, <1>2, <2>1, <2>2, <3>1, <3>2, <3>3, VerdictGiven, ZenonT(20) DEF Authenticating
  <2>6. CASE result = "rejected"
    <3> DEFINE a == [auth[c] EXCEPT !.holder = Nobody, !.failed = auth[c].failed + 1]
    <3>1. auth' = [auth EXCEPT ![c] = a]
      BY <2>1, <2>2, <2>3, <2>4, <2>6, ZenonT(20) DEF Failed, IsAuth
    <3>2. /\ IsAuth(a) /\ a.holder = Nobody /\ a.ok = auth[c].ok /\ a.failed = refused[c] + 1
      BY <2>1 DEF IsAuth, BudgetsAssumption
    <3> HIDE DEF a
    <3>3. refused' = [refused EXCEPT ![c] = a.failed]
      BY <2>1, <2>2, <2>3, <2>6, <3>2, Zenon
    <3> QED BY <1>0, <1>2, <2>1, <2>2, <3>1, <3>2, <3>3, VerdictGiven, ZenonT(20) DEF Authenticating
  <2>7. CASE result # "accepted" /\ result # "rejected"
    BY <1>0, <1>2, <2>2, <2>7, RequestEnds, Zenon
  <2> QED BY <2>5, <2>6, <2>7, Zenon
<1> QED BY <1>1, <1>2, Zenon

LEMMA AdmissionInvStep ==
    ASSUME AdmissionInv, BudgetsAssumption, [AdmissionNext]_admissionVars
    PROVE  AdmissionInv'
<1>1. ASSUME NEW c \in Conns, NEW kind, NEW len, AcceptStream(c, kind, len) PROVE AdmissionInv'
  BY <1>1, StreamSteps, Zenon
<1>2. ASSUME NEW c \in Conns, AdmitTimeout(c) \/ \E r \in Slots : Admit(c, r) PROVE AdmissionInv'
  BY <1>2, StreamSteps, Zenon
<1>3. ASSUME UNCHANGED << waiting, auth, reqs, verifying, streams, refused >>,
             writing' \subseteq writing
      PROVE  AdmissionInv'
  BY <1>3, Zenon DEF AdmissionInv
<1>4. ASSUME NEW c \in Conns, Accept(c) \/ Close(c) \/ Leave(c) PROVE AdmissionInv'
  BY <1>3, <1>4, Zenon DEF Accept, Close, Leave
<1>5. ASSUME NEW r \in Slots,
             \/ ServeOpen(r) \/ Dispatch(r) \/ ServeOther(r) \/ AcquireRead(r) \/ AnswerRead(r)
             \/ AcquireWrite(r) \/ SpawnWrite(r) \/ BodyLost(r) \/ AnswerWrite(r)
             \/ AuthRefused(r) \/ Timeout(r) \/ Abort(r)
      PROVE  AdmissionInv'
  BY <1>5, ServiceSteps, Zenon
<1>6. ASSUME NEW r \in Slots, LockAuth(r) \/ AuthInvalid(r) \/ Verify(r) PROVE AdmissionInv'
  BY <1>6, AuthSteps, Zenon
<1>7. ASSUME NEW w \in writing, WriteDone(w) PROVE AdmissionInv'
  BY <1>3, <1>7, Zenon DEF WriteDone
<1>8. ASSUME NEW v \in verifying, NEW result, Verified(v, result) PROVE AdmissionInv'
  BY <1>8, VerifiedSteps, Zenon
<1>9. CASE Tick
  BY <1>3, <1>9, Zenon DEF Tick
<1>10. CASE UNCHANGED admissionVars
  BY <1>3, <1>10, Zenon DEF admissionVars
<1> QED BY <1>1, <1>2, <1>4, <1>5, <1>6, <1>7, <1>8, <1>9, <1>10 DEF AdmissionNext

LEMMA AdmissionInvInit ==
    ASSUME AdmissionInit, BudgetsAssumption
    PROVE  AdmissionInv
BY DEF AdmissionInit, AdmissionInv, BudgetsAssumption, IsAuth, Distinct

LEMMA AdmissionInvHolds ==
    ASSUME BudgetsAssumption
    PROVE  AdmissionSpec => []AdmissionInv
<1>1. AdmissionInit => AdmissionInv
  BY AdmissionInvInit, Zenon
<1>2. AdmissionInv /\ [AdmissionNext]_admissionVars => AdmissionInv'
  BY AdmissionInvStep, Zenon
<1> QED BY <1>1, <1>2, PTL DEF AdmissionSpec

-----------------------------------------------------------------------------
(***************************************************************************)
(* Counting: the permits and bytes in use, when one request or one write   *)
(* changes.                                                                *)
(***************************************************************************)

LEMMA UnitsCount ==
    ASSUME NEW x, NEW n \in Nat
    PROVE  IsFiniteSet({x} \X (1 .. n)) /\ Cardinality({x} \X (1 .. n)) = n
<1>1. IsFiniteSet({x}) /\ Cardinality({x}) = 1
  BY FS_Singleton, Zenon
<1>2. 1 \in Int /\ n \in Int
  OBVIOUS
<1>3. IsFiniteSet(1 .. n) /\ Cardinality(1 .. n) = IF 1 > n THEN 0 ELSE n - 1 + 1
  BY <1>2, FS_Interval, Zenon
<1>4. Cardinality(1 .. n) = n
  BY <1>3
<1>5. /\ IsFiniteSet({x} \X (1 .. n))
      /\ Cardinality({x} \X (1 .. n)) = Cardinality({x}) * Cardinality(1 .. n)
  BY <1>1, <1>3, FS_Product, Zenon
<1> QED BY <1>1, <1>4, <1>5

LEMMA BytesFinite ==
    ASSUME NEW table, NEW S, IsFiniteSet(S), \A u \in S : table[u].holds \in Nat
    PROVE  IsFiniteSet(Bytes(table, S)) /\ Cardinality(Bytes(table, S)) \in Nat
<1> DEFINE U(u) == {u} \X (1 .. table[u].holds)
           parts == {U(u) : u \in S}
           f == [u \in S |-> U(u)]
<1>1. ASSUME NEW u \in S PROVE IsFiniteSet(U(u))
  BY UnitsCount, Zenon
<1>2. f \in Surjection(S, parts)
  BY Zenon DEF Surjection
<1> HIDE DEF f
<1>3. IsFiniteSet(parts)
  BY <1>2, FS_Surjection, Zenon
<1>4. IsFiniteSet(UNION parts)
  BY <1>1, <1>3, FS_UNION, Zenon
<1>5. IsFiniteSet(Bytes(table, S))
  BY <1>4, Zenon DEF Bytes
<1> QED BY <1>5, FS_CardinalityType, Zenon

\* The bytes of one request of a set.
Portion(table, S, r) == IF r \in S THEN table[r].holds ELSE 0

\* The bytes of a set of requests are those of one of them and those of the rest.
LEMMA BytesSplit ==
    ASSUME NEW table, NEW S, IsFiniteSet(S), \A u \in S : table[u].holds \in Nat, NEW r
    PROVE  /\ Cardinality(Bytes(table, S))
                = Cardinality(Bytes(table, S \ {r})) + Portion(table, S, r)
           /\ Cardinality(Bytes(table, S \ {r})) \in Nat
<1>1. IsFiniteSet(S \ {r}) /\ \A u \in S \ {r} : table[u].holds \in Nat
  BY FS_RemoveElement, Zenon
<1>2. IsFiniteSet(Bytes(table, S \ {r})) /\ Cardinality(Bytes(table, S \ {r})) \in Nat
  BY <1>1, BytesFinite, Zenon
<1>3. CASE r \in S
  <2> DEFINE A == Bytes(table, S \ {r})
             B == {r} \X (1 .. table[r].holds)
  <2>1. Bytes(table, S) = A \cup B
    BY <1>3, Zenon DEF Bytes
  <2>2. A \cap B = {}
    BY DEF Bytes
  <2>3. IsFiniteSet(B) /\ Cardinality(B) = table[r].holds /\ IsFiniteSet(A)
    BY <1>2, <1>3, UnitsCount, Zenon
  <2> HIDE DEF A, B
  <2>4. Cardinality(A \cup B) = Cardinality(A) + Cardinality(B) - Cardinality(A \cap B)
    BY <2>3, FS_Union, Zenon
  <2>5. Cardinality(A \cap B) = 0
    BY <2>2, FS_EmptySet, Zenon
  <2>6. Cardinality(A) \in Nat
    BY <1>2, Zenon DEF A
  <2>7. Cardinality(Bytes(table, S)) = Cardinality(A) + table[r].holds
    BY <1>3, <2>1, <2>3, <2>4, <2>5, <2>6
  <2>8. Portion(table, S, r) = table[r].holds
    BY <1>3, Zenon DEF Portion
  <2> QED BY <1>2, <2>7, <2>8, Zenon DEF A
<1>4. CASE r \notin S
  <2>1. S \ {r} = S
    BY <1>4, Zenon
  <2>2. Bytes(table, S \ {r}) = Bytes(table, S) /\ Portion(table, S, r) = 0
    BY <1>4, <2>1, Zenon DEF Portion
  <2> QED BY <1>2, <2>2
<1> QED BY <1>3, <1>4, Zenon

\* The requests under way, those of a kind, and the writes of a connection.
Holders(table, kind) == {r \in Slots : table[r] # None /\ table[r].kind = kind}
HoldersOn(table, c) == {r \in Holders(table, "write") : table[r].c = c}
Running(table) == {r \in Slots : table[r] # None}

\* The bytes they hold.
Held(table, kind) == Cardinality(Bytes(table, Holders(table, kind)))
HeldOn(table, c) == Cardinality(Bytes(table, HoldersOn(table, c)))

\* What one request counts for.
Weight(q, kind) == IF q # None /\ q.kind = kind THEN q.holds ELSE 0
WeightOn(q, c) == IF q # None /\ q.kind = "write" /\ q.c = c THEN q.holds ELSE 0
One(q) == IF q # None THEN 1 ELSE 0

\* Only slot r differs, and S and T are the slots of some sort before and after.
LEMMA BytesMove ==
    ASSUME IsFiniteSet(Slots), NEW table, NEW next, NEW r \in Slots,
           \A u \in Slots \ {r} : next[u] = table[u],
           NEW S \in SUBSET Slots, NEW T \in SUBSET Slots, \A u \in Slots \ {r} : u \in S <=> u \in T,
           \A u \in S : table[u].holds \in Nat, \A u \in T : next[u].holds \in Nat
    PROVE  /\ Cardinality(Bytes(table, S)) \in Nat
           /\ Cardinality(Bytes(next, T))
                = Cardinality(Bytes(table, S)) - Portion(table, S, r)
                                               + Portion(next, T, r)
<1>1. IsFiniteSet(S) /\ IsFiniteSet(T)
  BY FS_Subset, Zenon
<1> DEFINE rest == S \ {r}
<1>2. \A u \in rest : next[u] = table[u]
  BY Zenon
<1> HIDE DEF rest
<1>3. Bytes(table, rest) = Bytes(next, rest)
  BY <1>2 DEF Bytes
<1>4. /\ Cardinality(Bytes(table, S))
           = Cardinality(Bytes(table, rest)) + Portion(table, S, r)
      /\ Cardinality(Bytes(table, rest)) \in Nat
  BY <1>1, BytesSplit, Zenon DEF rest
<1>5. Cardinality(Bytes(next, T))
        = Cardinality(Bytes(next, rest)) + Portion(next, T, r)
  <2>1. Cardinality(Bytes(next, T))
          = Cardinality(Bytes(next, T \ {r})) + Portion(next, T, r)
    BY <1>1, BytesSplit, Zenon
  <2>2. T \ {r} = rest
    BY Zenon DEF rest
  <2> QED BY <2>1, <2>2, Zenon
<1>6. Cardinality(Bytes(table, S)) \in Nat
  BY <1>1, BytesFinite, Zenon
<1>7. Portion(table, S, r) \in Nat /\ Portion(next, T, r) \in Nat
  BY Zenon DEF Portion
<1> QED BY <1>3, <1>4, <1>5, <1>6, <1>7

\* The accounts move by what slot r counts for.
SlotMoved(table, next, r, q) ==
    /\ \A kind : /\ Held(table, kind) \in Nat
                 /\ Held(next, kind) = Held(table, kind) - Weight(table[r], kind) + Weight(q, kind)
    /\ \A c : /\ HeldOn(table, c) \in Nat
              /\ HeldOn(next, c) = HeldOn(table, c) - WeightOn(table[r], c) + WeightOn(q, c)
    /\ Cardinality(Running(table)) \in Nat
    /\ Cardinality(Running(next)) = Cardinality(Running(table)) - One(table[r]) + One(q)

LEMMA SlotMoves ==
    ASSUME IsFiniteSet(Slots), NEW table, table = [u \in Slots |-> table[u]],
           \A u \in Slots : table[u] # None => table[u].holds \in Nat,
           NEW r \in Slots, NEW q, q # None => q.holds \in Nat,
           NEW next, next = [table EXCEPT ![r] = q]
    PROVE  SlotMoved(table, next, r, q)
<1>1. next[r] = q /\ \A u \in Slots \ {r} : next[u] = table[u]
  BY Zenon
<1>2. \A u \in Slots : next[u] # None => next[u].holds \in Nat
  BY <1>1, Zenon
<1>3. ASSUME NEW kind
      PROVE  /\ Held(table, kind) \in Nat
             /\ Held(next, kind) = Held(table, kind) - Weight(table[r], kind) + Weight(q, kind)
  <2> DEFINE S == Holders(table, kind)
             T == Holders(next, kind)
  <2>1. /\ S \in SUBSET Slots /\ T \in SUBSET Slots /\ \A u \in Slots \ {r} : u \in S <=> u \in T
        /\ \A u \in S : table[u].holds \in Nat
        /\ \A u \in T : next[u].holds \in Nat
        /\ r \in S <=> table[r] # None /\ table[r].kind = kind
        /\ r \in T <=> q # None /\ q.kind = kind
    BY <1>1, <1>2, Zenon DEF Holders
  <2> HIDE DEF S, T
  <2>2. /\ Cardinality(Bytes(table, S)) \in Nat
        /\ Cardinality(Bytes(next, T))
                = Cardinality(Bytes(table, S)) - Portion(table, S, r)
                                               + Portion(next, T, r)
    BY <1>1, <2>1, BytesMove
  <2> QED BY <1>1, <2>1, <2>2, Zenon DEF Held, Weight, Portion, S, T
<1>4. ASSUME NEW c
      PROVE  /\ HeldOn(table, c) \in Nat
             /\ HeldOn(next, c) = HeldOn(table, c) - WeightOn(table[r], c) + WeightOn(q, c)
  <2> DEFINE S == HoldersOn(table, c)
             T == HoldersOn(next, c)
  <2>1. /\ S \in SUBSET Slots /\ T \in SUBSET Slots /\ \A u \in Slots \ {r} : u \in S <=> u \in T
        /\ \A u \in S : table[u].holds \in Nat
        /\ \A u \in T : next[u].holds \in Nat
        /\ r \in S <=> table[r] # None /\ table[r].kind = "write" /\ table[r].c = c
        /\ r \in T <=> q # None /\ q.kind = "write" /\ q.c = c
    BY <1>1, <1>2, Zenon DEF Holders, HoldersOn
  <2> HIDE DEF S, T
  <2>2. /\ Cardinality(Bytes(table, S)) \in Nat
        /\ Cardinality(Bytes(next, T))
                = Cardinality(Bytes(table, S)) - Portion(table, S, r)
                                               + Portion(next, T, r)
    BY <1>1, <2>1, BytesMove
  <2> QED BY <1>1, <2>1, <2>2, Zenon DEF HeldOn, WeightOn, Portion, S, T
<1>5. /\ Cardinality(Running(table)) \in Nat
      /\ Cardinality(Running(next)) = Cardinality(Running(table)) - One(table[r]) + One(q)
  <2> DEFINE S == Running(table)
             T == Running(next)
  <2>1. /\ S \in SUBSET Slots /\ T \in SUBSET Slots
        /\ r \in S <=> table[r] # None
        /\ r \in T <=> q # None
        /\ T = IF r \in T THEN S \cup {r} ELSE S \ {r}
    BY <1>1, Zenon DEF Running
  <2> HIDE DEF S, T
  <2>2. IsFiniteSet(S) /\ Cardinality(S) \in Nat
    BY <2>1, FS_Subset, FS_CardinalityType, Zenon
  <2>3. /\ Cardinality(S \cup {r}) = IF r \in S THEN Cardinality(S) ELSE Cardinality(S) + 1
        /\ Cardinality(S \ {r}) = IF r \in S THEN Cardinality(S) - 1 ELSE Cardinality(S)
    BY <2>2, FS_AddElement, FS_RemoveElement, Zenon
  <2> QED BY <2>1, <2>2, <2>3 DEF One, S, T
<1> QED BY <1>3, <1>4, <1>5, Zenon DEF SlotMoved

\* Detached writes: their bytes, and those of one connection.
On(ws, c) == {w \in ws : w.c = c}
Detached(ws) == Cardinality(WriterBytes(ws))

LEMMA WriterSplit ==
    ASSUME NEW ws, IsFiniteSet(ws), \A u \in ws : u.holds \in Nat, NEW w
    PROVE  /\ Detached(ws) = Detached(ws \ {w}) + (IF w \in ws THEN w.holds ELSE 0)
           /\ Detached(ws) \in Nat /\ Detached(ws \ {w}) \in Nat
<1> DEFINE id == [u \in ws |-> u]
<1>1. \A S \in SUBSET ws : WriterBytes(S) = Bytes(id, S)
  BY Zenon DEF WriterBytes, Bytes
<1>2. \A u \in ws : id[u].holds \in Nat
  BY Zenon
<1>3. w \in ws => id[w] = w
  BY Zenon
<1> HIDE DEF id
<1>4. /\ Cardinality(Bytes(id, ws))
           = Cardinality(Bytes(id, ws \ {w})) + Portion(id, ws, w)
      /\ Cardinality(Bytes(id, ws \ {w})) \in Nat
  BY <1>2, BytesSplit, Zenon
<1>5. Cardinality(Bytes(id, ws)) \in Nat
  BY <1>2, BytesFinite, Zenon
<1> QED BY <1>1, <1>3, <1>4, <1>5, Zenon DEF Detached, Portion

\* A write begins or ends: w is in more and not in less.
WritesMoved(less, more, w) ==
    /\ Detached(less) \in Nat /\ Detached(more) \in Nat
    /\ Detached(more) = Detached(less) + w.holds
    /\ \A c : /\ Detached(On(less, c)) \in Nat /\ Detached(On(more, c)) \in Nat
              /\ Detached(On(more, c)) = Detached(On(less, c)) + (IF w.c = c THEN w.holds ELSE 0)

LEMMA WritesMove ==
    ASSUME NEW less, NEW more, IsFiniteSet(more), NEW w \in more, less = more \ {w},
           \A u \in more : u.holds \in Nat
    PROVE  IsFiniteSet(less) /\ WritesMoved(less, more, w)
<1>1. IsFiniteSet(less)
  BY FS_RemoveElement, Zenon
<1>2. /\ Detached(less) \in Nat /\ Detached(more) \in Nat
      /\ Detached(more) = Detached(less) + w.holds
  BY WriterSplit, Zenon
<1>3. ASSUME NEW c
      PROVE  /\ Detached(On(less, c)) \in Nat /\ Detached(On(more, c)) \in Nat
             /\ Detached(On(more, c)) = Detached(On(less, c)) + (IF w.c = c THEN w.holds ELSE 0)
  <2> DEFINE S == On(more, c)
  <2>1. /\ On(less, c) = S \ {w} /\ S \in SUBSET more
        /\ w \in S <=> w.c = c
        /\ \A u \in S : u.holds \in Nat
    BY Zenon DEF On
  <2> HIDE DEF S
  <2>2. IsFiniteSet(S)
    BY <2>1, FS_Subset, Zenon
  <2>3. /\ Detached(S) = Detached(S \ {w}) + (IF w \in S THEN w.holds ELSE 0)
        /\ Detached(S) \in Nat /\ Detached(S \ {w}) \in Nat
    BY <2>1, <2>2, WriterSplit, Zenon
  <2> QED BY <2>1, <2>3, Zenon DEF S
<1> QED BY <1>1, <1>2, <1>3, Zenon DEF WritesMoved

-----------------------------------------------------------------------------
(***************************************************************************)
(* The accounts: what the semaphores lack is held by something that runs.  *)
(***************************************************************************)

Semaphores == [conns : Nat, requests : Nat, auth : Nat, read : Nat, write : Nat]

\* A request holds its bytes while it reads and while its body arrives; those of a
\* write then go with the body.
Sized(q) ==
    /\ q.len \in Nat
    /\ q.holds = IF q.pc \in {"reading", "body"} THEN q.len ELSE 0
    /\ q.pc = "reading" => q.kind = "read"
    /\ q.pc \in {"body", "written"} => q.kind = "write"

\* A detached write is of no request, or of one that waits for it.
Spawned(w, table, queue, n) ==
    /\ w.id \in Nat /\ w.id <= n /\ w.holds \in Nat /\ w.len = w.holds
    /\ \A r \in Slots : table[r] # None /\ table[r].id = w.id => table[r].pc = "written"
    /\ \A c \in Conns : queue[c] # None => queue[c].id # w.id

Connected(cs) == {c \in Conns : cs[c] \in {"open", "closing"}}

\* What is under way is of a connection that is there, and has the size it holds.
ShapeInv ==
    /\ conn \in [Conns -> {"none", "open", "closing", "gone"}]
    /\ IsFiniteSet(writing) /\ IsFiniteSet(verifying)
    /\ \A c \in Conns : waiting[c] # None =>
          waiting[c].c = c /\ conn[c] = "open" /\ Sized(waiting[c])
    /\ \A r \in Slots : reqs[r] # None => reqs[r].c \in Connected(conn) /\ Sized(reqs[r])
    /\ \A r, u \in Slots : r # u /\ reqs[r] # None /\ reqs[u] # None => reqs[r].id # reqs[u].id
    /\ \A w \in writing : Spawned(w, reqs, waiting, streams)

\* Every account balances, those of the connections for writes as well.
LedgerInv ==
    /\ free \in Semaphores /\ connFree \in [Conns -> Nat]
    /\ free.conns + Cardinality(Connected(conn)) = MaxConnections
    /\ free.requests + Cardinality(Running(reqs)) = MaxRequests
    /\ free.auth + Cardinality(verifying) = MaxAuth
    /\ free.read + Held(reqs, "read") = ReadBytes
    /\ free.write + Held(reqs, "write") + Detached(writing) = WriteBytes
    /\ \A c \in Conns : connFree[c] + HeldOn(reqs, c) + Detached(On(writing, c)) = ConnectionWriteBytes

\* A request becomes q, or None, and n bytes go to the write of connection d.
Moves(r, q, n, d) ==
    /\ reqs' = [reqs EXCEPT ![r] = q] /\ UNCHANGED conn
    /\ q # None => q.holds \in Nat
    /\ Detached(writing') = Detached(writing) + n /\ Detached(writing) \in Nat
    /\ \A c \in Conns : /\ Detached(On(writing, c)) \in Nat
                        /\ Detached(On(writing', c)) = Detached(On(writing, c)) + (IF c = d THEN n ELSE 0)
    /\ free' \in Semaphores /\ connFree' \in [Conns -> Nat]
    /\ free'.conns = free.conns /\ free'.auth + Cardinality(verifying') = MaxAuth
    /\ free'.requests = free.requests + One(reqs[r]) - One(q)
    /\ free'.read = free.read + Weight(reqs[r], "read") - Weight(q, "read")
    /\ free'.write = free.write + Weight(reqs[r], "write") - Weight(q, "write") - n
    /\ \A c \in Conns : connFree'[c] = connFree[c] + WeightOn(reqs[r], c) - WeightOn(q, c)
                                          - (IF c = d THEN n ELSE 0)

LEMMA RequestLedger ==
    ASSUME BudgetsAssumption, AdmissionInv, ShapeInv, LedgerInv,
           NEW r \in Slots, NEW q, NEW n \in Nat, NEW d, Moves(r, q, n, d)
    PROVE  LedgerInv'
<1>1. /\ IsFiniteSet(Slots) /\ reqs = [u \in Slots |-> reqs[u]]
      /\ \A u \in Slots : reqs[u] # None => reqs[u].holds \in Nat
  <2>1. IsFiniteSet(Slots)
    BY Zenon DEF BudgetsAssumption
  <2>3. reqs = [u \in Slots |-> reqs[u]]
    BY Zenon DEF AdmissionInv
  <2>2. \A u \in Slots : reqs[u] # None => reqs[u].holds \in Nat
    BY DEF ShapeInv, Sized
  <2> QED BY <2>1, <2>2, <2>3, Zenon
<1> USE DEF Moves
<1> DEFINE next == reqs'
<1>2. next = [reqs EXCEPT ![r] = q]
  BY Zenon
<1> HIDE DEF next
<1>3. SlotMoved(reqs, next, r, q)
  BY <1>1, <1>2, SlotMoves, Zenon
<1>4. /\ \A kind : Weight(reqs[r], kind) \in Nat /\ Weight(q, kind) \in Nat
      /\ \A c : WeightOn(reqs[r], c) \in Nat /\ WeightOn(q, c) \in Nat
      /\ One(reqs[r]) \in Nat /\ One(q) \in Nat
  BY <1>1, Zenon DEF Weight, WeightOn, One
<1>5. /\ free \in Semaphores /\ connFree \in [Conns -> Nat]
      /\ free.conns + Cardinality(Connected(conn)) = MaxConnections
      /\ free.requests + Cardinality(Running(reqs)) = MaxRequests
      /\ free.read + Held(reqs, "read") = ReadBytes
      /\ free.write + Held(reqs, "write") + Detached(writing) = WriteBytes
      /\ \A c \in Conns : connFree[c] + HeldOn(reqs, c) + Detached(On(writing, c)) = ConnectionWriteBytes
  BY Zenon DEF LedgerInv
<1>6. free'.conns + Cardinality(Connected(conn')) = MaxConnections
  BY <1>5, Zenon
<1>7. free'.requests + Cardinality(Running(next)) = MaxRequests
  <2>1. free.requests \in Nat
    BY <1>5, Zenon DEF Semaphores
  <2> QED BY <1>3, <1>4, <1>5, <2>1 DEF SlotMoved
<1>8. free'.read + Held(next, "read") = ReadBytes
  <2>1. free.read \in Nat
    BY <1>5, Zenon DEF Semaphores
  <2> QED BY <1>3, <1>4, <1>5, <2>1 DEF SlotMoved
<1>9. free'.write + Held(next, "write") + Detached(writing') = WriteBytes
  <2>1. free.write \in Nat
    BY <1>5, Zenon DEF Semaphores
  <2> QED BY <1>3, <1>4, <1>5, <2>1 DEF SlotMoved
<1>10. ASSUME NEW c \in Conns
       PROVE  connFree'[c] + HeldOn(next, c) + Detached(On(writing', c)) = ConnectionWriteBytes
  <2> DEFINE m == IF c = d THEN n ELSE 0
  <2>1. /\ connFree[c] \in Nat /\ m \in Nat
        /\ connFree'[c] = connFree[c] + WeightOn(reqs[r], c) - WeightOn(q, c) - m
        /\ Detached(On(writing', c)) = Detached(On(writing, c)) + m /\ Detached(On(writing, c)) \in Nat
    BY <1>5, Zenon
  <2> HIDE DEF m
  <2>2. /\ HeldOn(reqs, c) \in Nat
        /\ HeldOn(next, c) = HeldOn(reqs, c) - WeightOn(reqs[r], c) + WeightOn(q, c)
        /\ WeightOn(reqs[r], c) \in Nat /\ WeightOn(q, c) \in Nat
        /\ connFree[c] + HeldOn(reqs, c) + Detached(On(writing, c)) = ConnectionWriteBytes
    BY <1>3, <1>4, <1>5, Zenon DEF SlotMoved
  <2> QED BY <2>1, <2>2
<1> QED BY <1>6, <1>7, <1>8, <1>9, <1>10, ZenonT(20) DEF LedgerInv, next

\* The shape is kept when a request goes on or ends and starts at most one write.
LEMMA RequestShape ==
    ASSUME BudgetsAssumption, AdmissionInv, ShapeInv,
           NEW r \in Slots, NEW q, reqs[r] # None, reqs' = [reqs EXCEPT ![r] = q],
           q # None => /\ q.c = reqs[r].c /\ q.id = reqs[r].id /\ Sized(q)
                       /\ reqs[r].pc = "written" => q.pc = "written",
           UNCHANGED << conn, waiting, streams >>, IsFiniteSet(verifying'), IsFiniteSet(writing'),
           \A w \in writing' : \/ w \in writing
                               \/ /\ w.id = reqs[r].id /\ q # None /\ q.pc = "written"
                                  /\ w.holds \in Nat /\ w.len = w.holds
    PROVE  ShapeInv'
<1>1. /\ reqs'[r] = q /\ \A u \in Slots : u # r => reqs'[u] = reqs[u]
  BY Zenon DEF AdmissionInv
<1>2. \A u \in Slots : reqs[u] # None => reqs[u].c \in Connected(conn) /\ Sized(reqs[u])
  BY Zenon DEF ShapeInv
<1>3. \A u \in Slots : reqs'[u] # None => reqs'[u].c \in Connected(conn) /\ Sized(reqs'[u])
  BY <1>1, <1>2, Zenon
<1>4. \A t, u \in Slots : t # u /\ reqs'[t] # None /\ reqs'[u] # None => reqs'[t].id # reqs'[u].id
  BY <1>1 DEF ShapeInv
<1>5. ASSUME NEW w \in writing' PROVE Spawned(w, reqs', waiting, streams)
  <2>1. CASE w \in writing
    <3>1. Spawned(w, reqs, waiting, streams)
      BY <2>1, Zenon DEF ShapeInv
    <3> QED BY <1>1, <3>1 DEF Spawned
  <2>2. CASE /\ w.id = reqs[r].id /\ q # None /\ q.pc = "written"
             /\ w.holds \in Nat /\ w.len = w.holds
    <3>1. /\ \A c \in Conns : waiting[c] # None => waiting[c].id # reqs[r].id
          /\ reqs[r].id \in Nat /\ reqs[r].id <= streams
      BY Zenon DEF AdmissionInv, Distinct, IsRequest
    <3>2. \A u \in Slots : u # r /\ reqs[u] # None => reqs[u].id # reqs[r].id
      BY Zenon DEF ShapeInv
    <3> QED BY <1>1, <2>2, <3>1, <3>2, Zenon DEF Spawned
  <2> QED BY <2>1, <2>2, Zenon
<1>6. /\ conn' \in [Conns -> {"none", "open", "closing", "gone"}]
      /\ \A c \in Conns : waiting'[c] # None =>
            waiting'[c].c = c /\ conn'[c] = "open" /\ Sized(waiting'[c])
  BY Zenon DEF ShapeInv
<1> QED BY <1>3, <1>4, <1>5, <1>6, Zenon DEF ShapeInv

AccountInv == ShapeInv /\ LedgerInv

LEMMA DetachedTypes ==
    ASSUME ShapeInv
    PROVE  Detached(writing) \in Nat /\ \A c : Detached(On(writing, c)) \in Nat
<1>1. IsFiniteSet(writing) /\ \A w \in writing : w.holds \in Nat
  BY Zenon DEF ShapeInv, Spawned
<1>2. Detached(writing) \in Nat
  BY <1>1, WriterSplit, Zenon
<1>3. ASSUME NEW c PROVE Detached(On(writing, c)) \in Nat
  <2>1. On(writing, c) \in SUBSET writing
    BY Zenon DEF On
  <2>2. IsFiniteSet(On(writing, c)) /\ \A w \in On(writing, c) : w.holds \in Nat
    BY <1>1, <2>1, FS_Subset, Zenon
  <2> QED BY <2>2, WriterSplit, Zenon
<1> QED BY <1>2, <1>3, Zenon

LEMMA HeldTypes ==
    ASSUME BudgetsAssumption, ShapeInv
    PROVE  /\ \A kind : Held(reqs, kind) \in Nat
           /\ \A c : HeldOn(reqs, c) \in Nat
<1>1. IsFiniteSet(Slots) /\ \A u \in Slots : reqs[u] # None => reqs[u].holds \in Nat
  BY DEF BudgetsAssumption, ShapeInv, Sized
<1>2. ASSUME NEW kind PROVE Held(reqs, kind) \in Nat
  <2>1. Holders(reqs, kind) \in SUBSET Slots /\ \A u \in Holders(reqs, kind) : reqs[u].holds \in Nat
    BY <1>1, Zenon DEF Holders
  <2>2. IsFiniteSet(Holders(reqs, kind))
    BY <1>1, <2>1, FS_Subset, Zenon
  <2> QED BY <2>1, <2>2, BytesFinite, Zenon DEF Held
<1>3. ASSUME NEW c PROVE HeldOn(reqs, c) \in Nat
  <2>1. HoldersOn(reqs, c) \in SUBSET Slots /\ \A u \in HoldersOn(reqs, c) : reqs[u].holds \in Nat
    BY <1>1, Zenon DEF Holders, HoldersOn
  <2>2. IsFiniteSet(HoldersOn(reqs, c))
    BY <1>1, <2>1, FS_Subset, Zenon
  <2> QED BY <2>1, <2>2, BytesFinite, Zenon DEF HeldOn
<1> QED BY <1>2, <1>3, Zenon

\* A request ends and gives back what it holds.
LEMMA AccountEnds ==
    ASSUME BudgetsAssumption, AdmissionInv, AccountInv,
           NEW r \in Slots, reqs[r] # None, reqs' = [reqs EXCEPT ![r] = None],
           UNCHANGED << conn, waiting, writing, streams >>, IsFiniteSet(verifying'),
           NEW m \in Nat, m + Cardinality(verifying') = MaxAuth,
           free' = [Released(r) EXCEPT !.auth = m], connFree' = ReleasedHere(r)
    PROVE  AccountInv'
<1> DEFINE q == None
<1>1. ShapeInv /\ LedgerInv /\ free \in Semaphores /\ connFree \in [Conns -> Nat]
  BY Zenon DEF AccountInv, LedgerInv
<1>2. reqs[r].holds \in Nat /\ reqs[r].c \in Conns
  BY <1>1 DEF ShapeInv, Sized, AdmissionInv, IsRequest
<1>3. ShapeInv'
  <2>1. IsFiniteSet(writing')
    BY <1>1, Zenon DEF ShapeInv
  <2> QED BY <1>1, <2>1, RequestShape, Zenon
<1>4. One(q) = 0 /\ (\A kind : Weight(q, kind) = 0) /\ (\A c : WeightOn(q, c) = 0) /\ One(reqs[r]) = 1
  BY Zenon DEF One, Weight, WeightOn
<1>5. /\ Released(r) \in Semaphores
      /\ Released(r).conns = free.conns /\ Released(r).requests = free.requests + 1
      /\ Released(r).read = free.read + Weight(reqs[r], "read")
      /\ Released(r).write = free.write + Weight(reqs[r], "write")
  <2> DEFINE a == Weight(reqs[r], "read")
             b == Weight(reqs[r], "write")
  <2>1. Released(r) = [free EXCEPT !.requests = @ + 1, !.read = @ + a, !.write = @ + b]
    BY Zenon DEF Released, Weight
  <2>2. a \in Nat /\ b \in Nat
    BY <1>2, Zenon DEF Weight
  <2> HIDE DEF a, b
  <2>3. Released(r) = [conns |-> free.conns, requests |-> free.requests + 1, auth |-> free.auth,
                       read |-> free.read + a, write |-> free.write + b]
    <3>1. free = [conns |-> free.conns, requests |-> free.requests, auth |-> free.auth,
                  read |-> free.read, write |-> free.write]
      BY <1>1, Zenon DEF Semaphores
    <3> QED BY <2>1, <3>1, Zenon
  <2>4. /\ Released(r) \in Semaphores
        /\ Released(r).conns = free.conns /\ Released(r).requests = free.requests + 1
        /\ Released(r).read = free.read + a
        /\ Released(r).write = free.write + b
    BY <1>1, <2>2, <2>3 DEF Semaphores
  <2> QED BY <2>4, Zenon DEF a, b
<1>6. /\ free' \in Semaphores /\ free'.auth = m
      /\ free'.conns = free.conns /\ free'.requests = free.requests + 1
      /\ free'.read = free.read + Weight(reqs[r], "read")
      /\ free'.write = free.write + Weight(reqs[r], "write")
  BY <1>5, Zenon DEF Semaphores
<1>7. /\ connFree' \in [Conns -> Nat]
      /\ \A c \in Conns : connFree'[c] = connFree[c] + WeightOn(reqs[r], c)
  BY <1>1, <1>2 DEF ReleasedHere, WeightOn
<1>8. /\ Detached(writing) \in Nat /\ \A c : Detached(On(writing, c)) \in Nat
  BY <1>1, DetachedTypes, Zenon
<1>9. /\ Weight(reqs[r], "read") \in Nat /\ Weight(reqs[r], "write") \in Nat
      /\ \A c : WeightOn(reqs[r], c) \in Nat
      /\ free.requests \in Nat /\ free.read \in Nat /\ free.write \in Nat
      /\ \A c \in Conns : connFree[c] \in Nat
  BY <1>1, <1>2, Zenon DEF Weight, WeightOn, Semaphores
<1> HIDE DEF q
<1>10. /\ free'.requests = free.requests + One(reqs[r]) - One(q)
       /\ free'.read = free.read + Weight(reqs[r], "read") - Weight(q, "read")
       /\ free'.write = free.write + Weight(reqs[r], "write") - Weight(q, "write") - 0
  BY <1>4, <1>6, <1>9
<1>11. \A c \in Conns : connFree'[c] = connFree[c] + WeightOn(reqs[r], c) - WeightOn(q, c)
                                         - (IF c = reqs[r].c THEN 0 ELSE 0)
  BY <1>4, <1>7, <1>9
<1>12. /\ Detached(writing') = Detached(writing) + 0
       /\ \A c \in Conns : /\ Detached(On(writing, c)) \in Nat
                           /\ Detached(On(writing', c)) = Detached(On(writing, c)) + (IF c = reqs[r].c THEN 0 ELSE 0)
  BY <1>8
<1>13. 0 \in Nat /\ (q # None => q.holds \in Nat) /\ reqs' = [reqs EXCEPT ![r] = q] /\ UNCHANGED conn
  BY Zenon DEF q
<1>14. Moves(r, q, 0, reqs[r].c)
  BY <1>6, <1>7, <1>8, <1>10, <1>11, <1>12, <1>13, ZenonT(20) DEF Moves
<1>15. LedgerInv'
  BY <1>1, <1>14, RequestLedger, Zenon
<1> QED BY <1>3, <1>15, Zenon DEF AccountInv

\* A request goes on with what it holds.
LEMMA AccountKeeps ==
    ASSUME BudgetsAssumption, AdmissionInv, AccountInv,
           NEW r \in Slots, reqs[r] # None, NEW q, q # None, reqs' = [reqs EXCEPT ![r] = q],
           q.c = reqs[r].c, q.id = reqs[r].id, q.kind = reqs[r].kind, q.holds = reqs[r].holds,
           Sized(q), reqs[r].pc # "written",
           UNCHANGED << conn, waiting, writing, streams, connFree >>, IsFiniteSet(verifying'),
           NEW m \in Nat, m + Cardinality(verifying') = MaxAuth, free' = [free EXCEPT !.auth = m]
    PROVE  AccountInv'
<1>1. ShapeInv /\ LedgerInv /\ free \in Semaphores /\ connFree \in [Conns -> Nat]
  BY Zenon DEF AccountInv, LedgerInv
<1>2. reqs[r].holds \in Nat /\ q.holds \in Nat
  BY <1>1 DEF ShapeInv, Sized
<1>3. ShapeInv'
  <2>1. IsFiniteSet(writing')
    BY <1>1, Zenon DEF ShapeInv
  <2> QED BY <1>1, <2>1, RequestShape, Zenon
<1>4. /\ One(q) = One(reqs[r]) /\ One(q) \in Nat
      /\ \A kind : Weight(q, kind) = Weight(reqs[r], kind) /\ Weight(q, kind) \in Nat
      /\ \A c : WeightOn(q, c) = WeightOn(reqs[r], c) /\ WeightOn(q, c) \in Nat
  BY <1>2, Zenon DEF One, Weight, WeightOn
<1>5. /\ free' \in Semaphores /\ free'.auth = m
      /\ free'.conns = free.conns /\ free'.requests = free.requests
      /\ free'.read = free.read /\ free'.write = free.write
      /\ free.requests \in Nat /\ free.read \in Nat /\ free.write \in Nat
      /\ connFree' \in [Conns -> Nat] /\ \A c \in Conns : connFree[c] \in Nat
  BY <1>1, Zenon DEF Semaphores
<1>6. /\ Detached(writing) \in Nat /\ \A c : Detached(On(writing, c)) \in Nat
  BY <1>1, DetachedTypes, Zenon
<1>7. /\ free'.requests = free.requests + One(reqs[r]) - One(q)
      /\ free'.read = free.read + Weight(reqs[r], "read") - Weight(q, "read")
      /\ free'.write = free.write + Weight(reqs[r], "write") - Weight(q, "write") - 0
  BY <1>4, <1>5
<1>8. \A c \in Conns : connFree'[c] = connFree[c] + WeightOn(reqs[r], c) - WeightOn(q, c)
                                        - (IF c = reqs[r].c THEN 0 ELSE 0)
  BY <1>4, <1>5
<1>9. /\ Detached(writing') = Detached(writing) + 0
      /\ \A c \in Conns : /\ Detached(On(writing, c)) \in Nat
                          /\ Detached(On(writing', c)) = Detached(On(writing, c)) + (IF c = reqs[r].c THEN 0 ELSE 0)
  BY <1>6
<1>10. Moves(r, q, 0, reqs[r].c)
  BY <1>2, <1>5, <1>6, <1>7, <1>8, <1>9 DEF Moves
<1>11. LedgerInv'
  BY <1>1, <1>10, RequestLedger, Zenon
<1> QED BY <1>3, <1>11, Zenon DEF AccountInv

\* Requests that end: the permit of a verification is not theirs.
LEMMA AccountConcludes ==
    ASSUME BudgetsAssumption, AdmissionInv, AccountInv, NEW r \in Slots, reqs[r] # None,
           NEW state, End(r, state), UNCHANGED << conn, waiting, writing, streams, verifying >>
    PROVE  AccountInv'
<1>1. /\ free \in Semaphores /\ free.auth + Cardinality(verifying) = MaxAuth
      /\ IsFiniteSet(verifying)
  BY Zenon DEF AccountInv, LedgerInv, ShapeInv
<1>2. free.auth \in Nat
  BY <1>1, Zenon DEF Semaphores
<1>3. Released(r) = [Released(r) EXCEPT !.auth = free.auth]
  BY <1>1, Zenon DEF Released, Semaphores
<1>4. /\ reqs' = [reqs EXCEPT ![r] = None] /\ connFree' = ReleasedHere(r)
      /\ free' = [Released(r) EXCEPT !.auth = free.auth]
  BY <1>3, Zenon DEF End
<1> QED BY <1>1, <1>2, <1>4, AccountEnds, ZenonT(20)

\* A request takes n bytes more from the semaphores.
LEMMA AccountTakes ==
    ASSUME BudgetsAssumption, AdmissionInv, AccountInv, NEW r \in Slots, reqs[r] # None,
           reqs[r].pc = "serve",
           \/ AcquireRead(r)
           \/ AcquireWrite(r) /\ ~Busy(r)
    PROVE  AccountInv'
<1>1. /\ ShapeInv /\ LedgerInv /\ free \in Semaphores /\ connFree \in [Conns -> Nat]
      /\ free.auth + Cardinality(verifying) = MaxAuth
  BY Zenon DEF AccountInv, LedgerInv
<1>2. /\ Sized(reqs[r]) /\ reqs[r].c \in Conns /\ IsFiniteSet(writing) /\ IsFiniteSet(verifying)
      /\ DOMAIN reqs[r] = {"pc", "c", "kind", "len", "holds", "id"}
  BY <1>1, Zenon DEF ShapeInv, AdmissionInv, IsRequest
<1>3. reqs[r].len \in Nat /\ reqs[r].holds = 0
  BY <1>2, Zenon DEF Sized
<1>4. /\ Detached(writing) \in Nat /\ \A c : Detached(On(writing, c)) \in Nat
  BY <1>1, DetachedTypes, Zenon
<1>5. /\ free.conns \in Nat /\ free.requests \in Nat /\ free.read \in Nat /\ free.write \in Nat
      /\ \A c \in Conns : connFree[c] \in Nat
  BY <1>1, Zenon DEF Semaphores
<1>6. /\ One(reqs[r]) = 1 /\ (\A kind : Weight(reqs[r], kind) = 0) /\ (\A c : WeightOn(reqs[r], c) = 0)
  BY <1>3, Zenon DEF One, Weight, WeightOn
<1> DEFINE n == reqs[r].len
<1>7. CASE AcquireRead(r)
  <2> DEFINE q == [reqs[r] EXCEPT !.pc = "reading", !.holds = n]
  <2>1. /\ reqs[r].kind = "read" /\ free.read >= n /\ free' = [free EXCEPT !.read = @ - n]
        /\ reqs' = [reqs EXCEPT ![r] = q]
        /\ UNCHANGED << conn, waiting, writing, verifying, connFree, streams >>
    BY <1>7, Zenon DEF AcquireRead, Take
  <2>2. /\ q.pc = "reading" /\ q.kind = "read" /\ q.holds = n /\ q.len = n /\ q.c = reqs[r].c
        /\ q.id = reqs[r].id /\ q # None
    BY <1>2, <2>1, Zenon DEF None
  <2> HIDE DEF q
  <2>3. Sized(q)
    BY <1>3, <2>2, Zenon DEF Sized
  <2>4. ShapeInv'
    BY <1>1, <1>2, <2>1, <2>2, <2>3, RequestShape, ZenonT(20)
  <2>5. /\ One(q) = 1 /\ Weight(q, "read") = n /\ Weight(q, "write") = 0 /\ (\A c : WeightOn(q, c) = 0)
    BY <2>2, Zenon DEF One, Weight, WeightOn
  <2>6. /\ free' \in Semaphores /\ free'.read = free.read - n /\ free'.write = free.write
        /\ free'.conns = free.conns /\ free'.requests = free.requests /\ free'.auth = free.auth
    BY <1>1, <1>3, <2>1 DEF Semaphores
  <2>7. /\ free'.requests = free.requests + One(reqs[r]) - One(q)
        /\ free'.read = free.read + Weight(reqs[r], "read") - Weight(q, "read")
        /\ free'.write = free.write + Weight(reqs[r], "write") - Weight(q, "write") - 0
    BY <1>3, <1>5, <1>6, <2>5, <2>6
  <2>8. \A c \in Conns : connFree'[c] = connFree[c] + WeightOn(reqs[r], c) - WeightOn(q, c)
                                          - (IF c = reqs[r].c THEN 0 ELSE 0)
    BY <1>5, <1>6, <2>1, <2>5
  <2>9. /\ Detached(writing') = Detached(writing) + 0
        /\ \A c \in Conns : /\ Detached(On(writing, c)) \in Nat
                            /\ Detached(On(writing', c)) = Detached(On(writing, c)) + (IF c = reqs[r].c THEN 0 ELSE 0)
    BY <1>4, <2>1
  <2>10. Moves(r, q, 0, reqs[r].c)
    BY <1>1, <1>3, <1>4, <2>1, <2>2, <2>6, <2>7, <2>8, <2>9, Zenon DEF Moves
  <2>11. LedgerInv'
    BY <1>1, <2>10, RequestLedger, Zenon
  <2> QED BY <2>4, <2>11, Zenon DEF AccountInv
<1>8. CASE AcquireWrite(r) /\ ~Busy(r)
  <2> DEFINE q == [reqs[r] EXCEPT !.pc = "body", !.holds = n]
  <2>1. /\ reqs[r].kind = "write" /\ free' = [free EXCEPT !.write = @ - n]
        /\ connFree' = [connFree EXCEPT ![reqs[r].c] = @ - n]
        /\ reqs' = [reqs EXCEPT ![r] = q]
        /\ UNCHANGED << conn, waiting, writing, verifying, streams >>
    BY <1>8, Zenon DEF AcquireWrite, Take
  <2>2. /\ q.pc = "body" /\ q.kind = "write" /\ q.holds = n /\ q.len = n /\ q.c = reqs[r].c
        /\ q.id = reqs[r].id /\ q # None
    BY <1>2, <2>1, Zenon DEF None
  <2> HIDE DEF q
  <2>3. Sized(q)
    BY <1>3, <2>2, Zenon DEF Sized
  <2>4. ShapeInv'
    BY <1>1, <1>2, <2>1, <2>2, <2>3, RequestShape, ZenonT(20)
  <2>5. /\ One(q) = 1 /\ Weight(q, "read") = 0 /\ Weight(q, "write") = n
        /\ \A c : WeightOn(q, c) = IF c = reqs[r].c THEN n ELSE 0
    BY <2>2, Zenon DEF One, Weight, WeightOn
  <2>6. free.write >= n /\ connFree[reqs[r].c] >= n
    BY <1>2, <1>3, <1>5, <1>8 DEF Busy
  <2>7. /\ free' \in Semaphores /\ free'.write = free.write - n /\ free'.read = free.read
        /\ free'.conns = free.conns /\ free'.requests = free.requests /\ free'.auth = free.auth
    BY <1>1, <1>3, <2>1, <2>6 DEF Semaphores
  <2>8. /\ connFree' \in [Conns -> Nat]
        /\ \A c \in Conns : connFree'[c] = connFree[c] - (IF c = reqs[r].c THEN n ELSE 0)
    BY <1>1, <1>2, <1>3, <2>1, <2>6
  <2>9. /\ free'.requests = free.requests + One(reqs[r]) - One(q)
        /\ free'.read = free.read + Weight(reqs[r], "read") - Weight(q, "read")
        /\ free'.write = free.write + Weight(reqs[r], "write") - Weight(q, "write") - 0
    BY <1>3, <1>5, <1>6, <2>5, <2>7
  <2>10. \A c \in Conns : connFree'[c] = connFree[c] + WeightOn(reqs[r], c) - WeightOn(q, c)
                                          - (IF c = reqs[r].c THEN 0 ELSE 0)
    BY <1>3, <1>5, <1>6, <2>8, <2>5
  <2>11. /\ Detached(writing') = Detached(writing) + 0
         /\ \A c \in Conns : /\ Detached(On(writing, c)) \in Nat
                             /\ Detached(On(writing', c)) = Detached(On(writing, c)) + (IF c = reqs[r].c THEN 0 ELSE 0)
    BY <1>4, <2>1
  <2>12. Moves(r, q, 0, reqs[r].c)
    BY <1>1, <1>3, <1>4, <2>1, <2>2, <2>7, <2>8, <2>9, <2>10, <2>11 DEF Moves
  <2>13. LedgerInv'
    BY <1>1, <2>12, RequestLedger, Zenon
  <2> QED BY <2>4, <2>13, Zenon DEF AccountInv
<1> QED BY <1>7, <1>8, Zenon

\* The body goes with its reservations into the task of the write.
LEMMA AccountSpawns ==
    ASSUME BudgetsAssumption, AdmissionInv, AccountInv, NEW r \in Slots, SpawnWrite(r)
    PROVE  AccountInv'
<1> DEFINE n == reqs[r].len
           q == [reqs[r] EXCEPT !.pc = "written", !.holds = 0]
           w == [c |-> reqs[r].c, len |-> n, id |-> reqs[r].id, holds |-> n]
<1>0. reqs[r].pc = "body" /\ reqs[r] # None
  BY DEF SpawnWrite, None
<1>1. /\ ShapeInv /\ LedgerInv /\ free \in Semaphores /\ connFree \in [Conns -> Nat]
      /\ free.auth + Cardinality(verifying) = MaxAuth
  BY Zenon DEF AccountInv, LedgerInv
<1>2. /\ Sized(reqs[r]) /\ reqs[r].c \in Conns /\ IsFiniteSet(writing) /\ IsFiniteSet(verifying)
      /\ DOMAIN reqs[r] = {"pc", "c", "kind", "len", "holds", "id"}
  BY <1>0, <1>1, Zenon DEF ShapeInv, AdmissionInv, IsRequest
<1>3. n \in Nat /\ reqs[r].holds = n /\ reqs[r].kind = "write"
  BY <1>0, <1>2, Zenon DEF Sized
<1>4. /\ writing' = writing \cup {w} /\ reqs' = [reqs EXCEPT ![r] = q]
      /\ UNCHANGED << conn, waiting, verifying, free, connFree, streams >>
  <2>1. n - Moved(n) = 0 /\ Moved(n) = n
    BY <1>3 DEF Moved
  <2> HIDE DEF n
  <2> QED BY <2>1, Zenon DEF SpawnWrite, n
<1>5. /\ q.pc = "written" /\ q.kind = "write" /\ q.holds = 0 /\ q.len = n /\ q.c = reqs[r].c
      /\ q.id = reqs[r].id /\ q # None
  BY <1>2, <1>3, Zenon DEF None
<1>6. w.id = reqs[r].id /\ w.holds = n /\ w.len = n /\ w.c = reqs[r].c
  BY Zenon
<1> HIDE DEF q, w, n
<1>7. w \notin writing
  <2>1. Spawned(w, reqs, waiting, streams) => reqs[r].pc = "written"
    BY <1>0, <1>6, Zenon DEF Spawned
  <2> QED BY <1>0, <1>1, <2>1, Zenon DEF ShapeInv
<1>8. IsFiniteSet(writing') /\ w \in writing' /\ writing = writing' \ {w}
  BY <1>2, <1>4, <1>7, FS_AddElement, Zenon
<1>9. Sized(q)
  BY <1>3, <1>5, Zenon DEF Sized
<1>10. ShapeInv'
  <2>1. /\ UNCHANGED << conn, waiting, streams >> /\ IsFiniteSet(verifying') /\ IsFiniteSet(writing')
        /\ reqs' = [reqs EXCEPT ![r] = q]
    BY <1>2, <1>4, <1>8, Zenon
  <2>2. \A u \in writing' : \/ u \in writing
                            \/ /\ u.id = reqs[r].id /\ q # None /\ q.pc = "written"
                               /\ u.holds \in Nat /\ u.len = u.holds
    BY <1>3, <1>4, <1>5, <1>6
  <2>3. q # None => /\ q.c = reqs[r].c /\ q.id = reqs[r].id /\ Sized(q)
                    /\ reqs[r].pc = "written" => q.pc = "written"
    BY <1>5, <1>9, Zenon
  <2> QED BY <1>0, <1>1, <2>1, <2>2, <2>3, RequestShape, ZenonT(20)
<1>11. \A u \in writing' : u.holds \in Nat
  BY <1>1, <1>3, <1>4, <1>6 DEF ShapeInv, Spawned
<1> DEFINE more == writing'
<1>12. IsFiniteSet(more) /\ w \in more /\ writing = more \ {w} /\ \A u \in more : u.holds \in Nat
  BY <1>8, <1>11, Zenon
<1> HIDE DEF more
<1>13. WritesMoved(writing, more, w)
  BY <1>12, WritesMove, Zenon
<1>14. /\ Detached(writing) \in Nat /\ Detached(writing') = Detached(writing) + n
       /\ \A c \in Conns : /\ Detached(On(writing, c)) \in Nat
                           /\ Detached(On(writing', c)) = Detached(On(writing, c)) + (IF c = reqs[r].c THEN n ELSE 0)
  BY <1>6, <1>13 DEF more, WritesMoved
<1>15. /\ free.conns \in Nat /\ free.requests \in Nat /\ free.read \in Nat /\ free.write \in Nat
       /\ \A c \in Conns : connFree[c] \in Nat
  BY <1>1, Zenon DEF Semaphores
<1>16. /\ One(reqs[r]) = 1 /\ Weight(reqs[r], "read") = 0 /\ Weight(reqs[r], "write") = n
       /\ \A c : WeightOn(reqs[r], c) = IF c = reqs[r].c THEN n ELSE 0
  BY <1>0, <1>3, Zenon DEF One, Weight, WeightOn
<1>17. /\ One(q) = 1 /\ (\A kind : Weight(q, kind) = 0) /\ (\A c : WeightOn(q, c) = 0)
  BY <1>5, Zenon DEF One, Weight, WeightOn
<1>18. /\ free'.requests = free.requests + One(reqs[r]) - One(q)
       /\ free'.read = free.read + Weight(reqs[r], "read") - Weight(q, "read")
       /\ free'.write = free.write + Weight(reqs[r], "write") - Weight(q, "write") - n
  BY <1>3, <1>4, <1>15, <1>16, <1>17
<1>19. \A c \in Conns : connFree'[c] = connFree[c] + WeightOn(reqs[r], c) - WeightOn(q, c)
                                         - (IF c = reqs[r].c THEN n ELSE 0)
  BY <1>3, <1>4, <1>15, <1>16, <1>17
<1>20. Moves(r, q, n, reqs[r].c)
  <2>1. /\ free' \in Semaphores /\ connFree' \in [Conns -> Nat] /\ free'.conns = free.conns
        /\ free'.auth + Cardinality(verifying') = MaxAuth /\ q.holds \in Nat
    BY <1>1, <1>4, <1>5
  <2>2. reqs' = [reqs EXCEPT ![r] = q] /\ UNCHANGED conn
    BY <1>4, Zenon
  <2> QED BY <1>14, <1>18, <1>19, <2>1, <2>2 DEF Moves
<1>21. LedgerInv'
  BY <1>1, <1>3, <1>20, RequestLedger
<1> QED BY <1>10, <1>21, Zenon DEF AccountInv

\* The task of a write ends and gives back the bytes of its body.
LEMMA AccountWriteDone ==
    ASSUME BudgetsAssumption, AdmissionInv, AccountInv, NEW w \in writing, WriteDone(w)
    PROVE  AccountInv'
<1>1. /\ ShapeInv /\ LedgerInv /\ free \in Semaphores /\ connFree \in [Conns -> Nat]
      /\ IsFiniteSet(writing) /\ \A u \in writing : u.holds \in Nat /\ u.c \in Conns
  BY Zenon DEF AccountInv, LedgerInv, ShapeInv, Spawned, AdmissionInv
<1>2. /\ writing' = writing \ {w} /\ free' = [free EXCEPT !.write = @ + w.holds]
      /\ connFree' = [connFree EXCEPT ![w.c] = @ + w.holds]
      /\ UNCHANGED << conn, waiting, reqs, verifying, streams >>
  BY Zenon DEF WriteDone
<1> DEFINE less == writing'
<1>3. less = writing \ {w}
  BY <1>2, Zenon
<1> HIDE DEF less
<1>4. IsFiniteSet(less) /\ WritesMoved(less, writing, w)
  BY <1>1, <1>3, WritesMove, Zenon
<1>5. ShapeInv'
  BY <1>1, <1>2, <1>4, Zenon DEF ShapeInv, less
<1>6. /\ free' \in Semaphores /\ free'.conns = free.conns /\ free'.requests = free.requests
      /\ free'.auth = free.auth /\ free'.read = free.read /\ free'.write = free.write + w.holds
      /\ free.write \in Nat /\ w.holds \in Nat /\ w.c \in Conns
  BY <1>1, <1>2 DEF Semaphores
<1>7. /\ Held(reqs, "write") \in Nat /\ \A c : HeldOn(reqs, c) \in Nat
  BY <1>1, HeldTypes, Zenon
<1>8. free.write + w.holds + Held(reqs, "write") + Detached(less) = WriteBytes
  BY <1>1, <1>4, <1>6, <1>7 DEF LedgerInv, WritesMoved
<1>9. /\ connFree' \in [Conns -> Nat]
      /\ \A c \in Conns : connFree'[c] = connFree[c] + (IF w.c = c THEN w.holds ELSE 0)
  BY <1>1, <1>2, <1>6
<1>10. ASSUME NEW c \in Conns
       PROVE  connFree'[c] + HeldOn(reqs, c) + Detached(On(less, c)) = ConnectionWriteBytes
  <2> DEFINE m == IF w.c = c THEN w.holds ELSE 0
  <2>1. /\ m \in Nat /\ connFree'[c] = connFree[c] + m /\ connFree[c] \in Nat
        /\ Detached(On(writing, c)) = Detached(On(less, c)) + m /\ Detached(On(less, c)) \in Nat
    BY <1>1, <1>4, <1>6, <1>9 DEF WritesMoved
  <2> HIDE DEF m
  <2>2. connFree[c] + HeldOn(reqs, c) + Detached(On(writing, c)) = ConnectionWriteBytes
    BY <1>1, Zenon DEF LedgerInv
  <2> QED BY <1>7, <2>1, <2>2
<1>11. LedgerInv'
  BY <1>1, <1>2, <1>6, <1>8, <1>9, <1>10, ZenonT(20) DEF LedgerInv, less
<1> QED BY <1>5, <1>11, Zenon DEF AccountInv

\* Connections come and go.
LEMMA AccountConnections ==
    ASSUME BudgetsAssumption, AdmissionInv, AccountInv, NEW c \in Conns,
           Accept(c) \/ Close(c) \/ Leave(c)
    PROVE  AccountInv'
<1>1. /\ ShapeInv /\ LedgerInv /\ free \in Semaphores /\ connFree \in [Conns -> Nat]
      /\ conn \in [Conns -> {"none", "open", "closing", "gone"}]
      /\ free.conns + Cardinality(Connected(conn)) = MaxConnections
  BY Zenon DEF AccountInv, LedgerInv, ShapeInv
<1>2. Connected(conn) \in SUBSET Conns
  BY Zenon DEF Connected
<1>3. IsFiniteSet(Connected(conn)) /\ Cardinality(Connected(conn)) \in Nat
  BY <1>2, FS_Subset, FS_CardinalityType DEF BudgetsAssumption
<1>4. free.conns \in Nat
  BY <1>1, Zenon DEF Semaphores
<1>5. ASSUME free' \in Semaphores, UNCHANGED << reqs, writing, verifying, connFree >>,
             free'.requests = free.requests, free'.auth = free.auth, free'.read = free.read,
             free'.write = free.write, free'.conns + Cardinality(Connected(conn')) = MaxConnections
      PROVE  LedgerInv'
  BY <1>1, <1>5, Zenon DEF LedgerInv
<1>6. CASE Accept(c)
  <2>1. /\ conn[c] = "none" /\ free.conns > 0 /\ free' = [free EXCEPT !.conns = @ - 1]
        /\ conn' = [conn EXCEPT ![c] = "open"]
        /\ UNCHANGED << waiting, reqs, writing, verifying, connFree, streams >>
    BY <1>6, Zenon DEF Accept, Take
  <2>2. Connected(conn') = Connected(conn) \cup {c} /\ c \notin Connected(conn)
    BY <1>1, <2>1, Zenon DEF Connected
  <2>3. Cardinality(Connected(conn')) = Cardinality(Connected(conn)) + 1
    BY <1>3, <2>2, FS_AddElement
  <2>4. /\ free' \in Semaphores /\ free'.conns = free.conns - 1
        /\ free'.requests = free.requests /\ free'.auth = free.auth /\ free'.read = free.read
        /\ free'.write = free.write
    BY <1>1, <2>1 DEF Semaphores
  <2>5. free'.conns + Cardinality(Connected(conn')) = MaxConnections
    BY <1>1, <1>3, <1>4, <2>3, <2>4
  <2>6. ShapeInv'
    BY <1>1, <2>1, <2>2, ZenonT(20) DEF ShapeInv
  <2> QED BY <1>5, <2>1, <2>4, <2>5, <2>6 DEF AccountInv
<1>7. CASE Close(c)
  <2>1. /\ conn[c] = "open" /\ waiting[c] = None /\ conn' = [conn EXCEPT ![c] = "closing"]
        /\ UNCHANGED << free, waiting, reqs, writing, verifying, connFree, streams >>
    BY <1>7, Zenon DEF Close
  <2>2. Connected(conn') = Connected(conn)
    BY <1>1, <2>1 DEF Connected
  <2>3. ShapeInv'
    BY <1>1, <2>1, <2>2, Zenon DEF ShapeInv
  <2> QED BY <1>1, <1>5, <2>1, <2>2, <2>3 DEF AccountInv
<1>8. CASE Leave(c)
  <2>1. /\ conn[c] = "closing" /\ \A r \in Slots : reqs[r] # None => reqs[r].c # c
        /\ conn' = [conn EXCEPT ![c] = "gone"] /\ free' = [free EXCEPT !.conns = @ + 1]
        /\ UNCHANGED << waiting, reqs, writing, verifying, connFree, streams >>
    BY <1>8, Zenon DEF Leave
  <2>2. Connected(conn') = Connected(conn) \ {c} /\ c \in Connected(conn)
    BY <1>1, <2>1 DEF Connected
  <2>3. Cardinality(Connected(conn')) = Cardinality(Connected(conn)) - 1
    BY <1>3, <2>2, FS_RemoveElement, Zenon
  <2>4. /\ free' \in Semaphores /\ free'.conns = free.conns + 1
        /\ free'.requests = free.requests /\ free'.auth = free.auth /\ free'.read = free.read
        /\ free'.write = free.write
    BY <1>1, <2>1 DEF Semaphores
  <2>5. free'.conns + Cardinality(Connected(conn')) = MaxConnections
    BY <1>1, <1>3, <1>4, <2>3, <2>4
  <2>6. ShapeInv'
    <3>1. \A r \in Slots : reqs[r] # None => reqs[r].c \in Connected(conn')
      BY <1>1, <2>1, <2>2, Zenon DEF ShapeInv
    <3>2. /\ conn' \in [Conns -> {"none", "open", "closing", "gone"}]
          /\ \A d \in Conns : conn[d] = "open" => conn'[d] = "open"
      BY <1>1, <2>1, Zenon
    <3> QED BY <1>1, <2>1, <3>1, <3>2, ZenonT(20) DEF ShapeInv
  <2> QED BY <1>5, <2>1, <2>4, <2>5, <2>6 DEF AccountInv
<1> QED BY <1>6, <1>7, <1>8, Zenon

\* The loop of a connection.
LEMMA AccountStreams ==
    ASSUME BudgetsAssumption, AdmissionInv, AccountInv, NEW c \in Conns,
           \/ \E kind, len : AcceptStream(c, kind, len)
           \/ AdmitTimeout(c)
           \/ \E r \in Slots : Admit(c, r)
    PROVE  AccountInv'
<1>1. /\ ShapeInv /\ LedgerInv /\ free \in Semaphores /\ connFree \in [Conns -> Nat]
      /\ free.auth + Cardinality(verifying) = MaxAuth
  BY Zenon DEF AccountInv, LedgerInv
<1>2. ASSUME UNCHANGED << conn, reqs, writing, verifying, free, connFree >> PROVE LedgerInv'
  BY <1>1, <1>2, Zenon DEF LedgerInv
<1>3. ASSUME NEW kind, NEW len, AcceptStream(c, kind, len) PROVE AccountInv'
  <2> DEFINE q == [pc |-> "start", c |-> c, kind |-> kind, len |-> len, holds |-> 0,
                   id |-> streams + 1]
  <2>1. /\ waiting' = [waiting EXCEPT ![c] = q] /\ streams' = streams + 1 /\ conn[c] = "open"
        /\ UNCHANGED << conn, reqs, writing, verifying, free, connFree >>
        /\ len = 0 \/ len \in Lengths
    BY <1>3, Zenon DEF AcceptStream
  <2>2. len \in Nat
    BY <2>1 DEF BudgetsAssumption
  <2>3. Sized(q) /\ q.c = c /\ q.id = streams + 1
    BY <2>2, Zenon DEF Sized
  <2> HIDE DEF q
  <2>4. waiting'[c] = q /\ \A d \in Conns : d # c => waiting'[d] = waiting[d]
    BY <2>1, Zenon DEF AdmissionInv
  <2>5. \A d \in Conns : waiting'[d] # None => waiting'[d].c = d /\ conn[d] = "open" /\ Sized(waiting'[d])
    BY <1>1, <2>1, <2>3, <2>4 DEF ShapeInv
  <2>6. \A w \in writing : Spawned(w, reqs, waiting', streams')
    <3>1. \A w \in writing : Spawned(w, reqs, waiting, streams)
      BY <1>1, Zenon DEF ShapeInv
    <3>2. streams \in Nat
      BY Zenon DEF AdmissionInv
    <3> QED BY <2>1, <2>3, <2>4, <3>1, <3>2 DEF Spawned
  <2>7. ShapeInv'
    BY <1>1, <2>1, <2>5, <2>6, ZenonT(20) DEF ShapeInv
  <2> QED BY <1>2, <2>1, <2>7, Zenon DEF AccountInv
<1>4. CASE AdmitTimeout(c)
  <2>1. /\ waiting' = [waiting EXCEPT ![c] = None]
        /\ UNCHANGED << conn, reqs, writing, verifying, free, connFree, streams >>
    BY <1>4, Zenon DEF AdmitTimeout
  <2>2. waiting'[c] = None /\ \A d \in Conns : d # c => waiting'[d] = waiting[d]
    BY <2>1, Zenon DEF AdmissionInv
  <2>3. \A w \in writing : Spawned(w, reqs, waiting', streams)
    <3>1. \A w \in writing : Spawned(w, reqs, waiting, streams)
      BY <1>1, Zenon DEF ShapeInv
    <3> QED BY <2>2, <3>1 DEF Spawned
  <2>4. ShapeInv'
    BY <1>1, <2>1, <2>2, <2>3, Zenon DEF ShapeInv
  <2> QED BY <1>2, <2>1, <2>4, Zenon DEF AccountInv
<1>5. ASSUME NEW r \in Slots, Admit(c, r) PROVE AccountInv'
  <2> DEFINE q == waiting[c]
  <2>1. /\ q # None /\ reqs[r] = None /\ free.requests > 0
        /\ waiting' = [waiting EXCEPT ![c] = None] /\ reqs' = [reqs EXCEPT ![r] = q]
        /\ free' = [free EXCEPT !.requests = @ - 1]
        /\ UNCHANGED << conn, writing, verifying, connFree, streams >>
    BY <1>5, Zenon DEF Admit, Take
  <2>2. /\ q.c = c /\ conn[c] = "open" /\ Sized(q) /\ q.pc = "start"
    BY <1>1, <2>1, Zenon DEF ShapeInv, AdmissionInv
  <2>3. q.holds = 0
    BY <2>2, Zenon DEF Sized
  <2>4. /\ waiting'[c] = None /\ \A d \in Conns : d # c => waiting'[d] = waiting[d]
        /\ reqs'[r] = q /\ \A u \in Slots : u # r => reqs'[u] = reqs[u]
    BY <2>1, Zenon DEF AdmissionInv
  <2>5. /\ \A u \in Slots : reqs[u] # None => reqs[u].id # q.id
    BY <2>1, Zenon DEF AdmissionInv, Distinct
  <2>6. \A w \in writing : Spawned(w, reqs', waiting', streams)
    <3>1. \A w \in writing : Spawned(w, reqs, waiting, streams)
      BY <1>1, Zenon DEF ShapeInv
    <3> QED BY <2>1, <2>4, <3>1 DEF Spawned
  <2> HIDE DEF q
  <2>7. /\ \A u \in Slots : reqs'[u] # None => reqs'[u].c \in Connected(conn) /\ Sized(reqs'[u])
    BY <1>1, <2>2, <2>4 DEF ShapeInv, Connected
  <2>8. \A t, u \in Slots : t # u /\ reqs'[t] # None /\ reqs'[u] # None => reqs'[t].id # reqs'[u].id
    BY <1>1, <2>4, <2>5 DEF ShapeInv
  <2>9. ShapeInv'
    BY <1>1, <2>1, <2>4, <2>6, <2>7, <2>8, ZenonT(20) DEF ShapeInv
  <2>10. /\ free' \in Semaphores /\ free'.requests = free.requests - 1 /\ free'.conns = free.conns
         /\ free'.auth = free.auth /\ free'.read = free.read /\ free'.write = free.write
         /\ free.requests \in Nat /\ free.read \in Nat /\ free.write \in Nat
         /\ \A d \in Conns : connFree[d] \in Nat
    BY <1>1, <2>1 DEF Semaphores
  <2>11. /\ One(reqs[r]) = 0 /\ (\A kind : Weight(reqs[r], kind) = 0)
         /\ (\A d : WeightOn(reqs[r], d) = 0)
         /\ One(q) = 1 /\ (\A kind : Weight(q, kind) = 0) /\ (\A d : WeightOn(q, d) = 0)
    BY <2>1, <2>3, Zenon DEF One, Weight, WeightOn
  <2>12. /\ Detached(writing) \in Nat /\ \A d : Detached(On(writing, d)) \in Nat
    BY <1>1, DetachedTypes, Zenon
  <2>13. /\ free'.requests = free.requests + One(reqs[r]) - One(q)
         /\ free'.read = free.read + Weight(reqs[r], "read") - Weight(q, "read")
         /\ free'.write = free.write + Weight(reqs[r], "write") - Weight(q, "write") - 0
    BY <2>10, <2>11
  <2>14. \A d \in Conns : connFree'[d] = connFree[d] + WeightOn(reqs[r], d) - WeightOn(q, d)
                                           - (IF d = c THEN 0 ELSE 0)
    BY <2>1, <2>10, <2>11
  <2>15. /\ Detached(writing') = Detached(writing) + 0
         /\ \A d \in Conns : /\ Detached(On(writing, d)) \in Nat
                             /\ Detached(On(writing', d)) = Detached(On(writing, d)) + (IF d = c THEN 0 ELSE 0)
    BY <2>1, <2>12
  <2>16. Moves(r, q, 0, c)
    BY <1>1, <2>1, <2>3, <2>10, <2>12, <2>13, <2>14, <2>15 DEF Moves
  <2>17. LedgerInv'
    BY <1>1, <2>16, RequestLedger, Zenon
  <2> QED BY <2>9, <2>17, Zenon DEF AccountInv
<1> QED BY <1>3, <1>4, <1>5, Zenon

\* The requests: service and authentication.
LEMMA AccountRequests ==
    ASSUME BudgetsAssumption, AdmissionInv, AccountInv, NEW r \in Slots,
           \/ ServeOpen(r) \/ Dispatch(r) \/ ServeOther(r) \/ AcquireRead(r) \/ AnswerRead(r)
           \/ AcquireWrite(r) \/ SpawnWrite(r) \/ BodyLost(r) \/ AnswerWrite(r)
           \/ AuthRefused(r) \/ Timeout(r) \/ Abort(r)
           \/ LockAuth(r) \/ AuthInvalid(r) \/ Verify(r)
    PROVE  AccountInv'
<1>0. reqs[r].pc # "none" => reqs[r] # None
  BY DEF None
<1>1. ASSUME reqs[r] # None, Concludes(r) PROVE AccountInv'
  BY <1>1, AccountConcludes, Zenon DEF Concludes
<1>2. CASE \/ ServeOpen(r) \/ ServeOther(r) \/ AnswerRead(r) \/ BodyLost(r) \/ AnswerWrite(r)
           \/ AuthRefused(r)
  BY <1>0, <1>1, <1>2, Zenon
     DEF ServeOpen, ServeOther, AnswerRead, BodyLost, AnswerWrite, AuthRefused
<1>3. CASE Timeout(r) \/ Abort(r)
  BY <1>1, <1>3, Zenon DEF Timeout, Abort
<1>4. CASE AcquireRead(r)
  <2>1. reqs[r].pc = "serve"
    BY <1>4, Zenon DEF AcquireRead
  <2> QED BY <1>0, <1>4, <2>1, AccountTakes
<1>5. CASE AcquireWrite(r)
  <2>1. reqs[r].pc = "serve" /\ (Busy(r) => Concludes(r))
    BY <1>5, Zenon DEF AcquireWrite
  <2>2. CASE Busy(r)
    BY <1>0, <1>1, <2>1, <2>2
  <2>3. CASE ~Busy(r)
    BY <1>0, <1>5, <2>1, <2>3, AccountTakes
  <2> QED BY <2>2, <2>3, Zenon
<1>6. CASE SpawnWrite(r)
  BY <1>6, AccountSpawns, Zenon
<1>7. CASE AuthInvalid(r)
  <2>1. /\ reqs[r].pc = "auth" /\ End(r, Failed(r))
        /\ UNCHANGED << conn, waiting, writing, streams, verifying >>
    BY <1>7, Zenon DEF AuthInvalid
  <2> QED BY <1>0, <2>1, AccountConcludes, Zenon
<1>8. /\ free \in Semaphores /\ IsFiniteSet(verifying) /\ Cardinality(verifying) \in Nat
      /\ free.auth \in Nat /\ free.auth + Cardinality(verifying) = MaxAuth
      /\ free = [free EXCEPT !.auth = free.auth]
  <2>1. free \in Semaphores /\ IsFiniteSet(verifying) /\ free.auth + Cardinality(verifying) = MaxAuth
    BY Zenon DEF AccountInv, ShapeInv, LedgerInv
  <2> QED BY <2>1, FS_CardinalityType, Zenon DEF Semaphores
<1>9. ASSUME reqs[r].pc \in {"start", "auth"}, NEW pc \in {"serve", "auth", "verify"}
      PROVE  LET q == [reqs[r] EXCEPT !.pc = pc] IN
             /\ q # None /\ q.c = reqs[r].c /\ q.id = reqs[r].id /\ q.kind = reqs[r].kind
             /\ q.holds = reqs[r].holds /\ Sized(q) /\ reqs[r] # None /\ reqs[r].pc # "written"
  <2>1. reqs[r] # None
    BY <1>0, <1>9, Zenon
  <2>2. Sized(reqs[r]) /\ DOMAIN reqs[r] = {"pc", "c", "kind", "len", "holds", "id"}
    BY <2>1, Zenon DEF AccountInv, ShapeInv, AdmissionInv, IsRequest
  <2> DEFINE q == [reqs[r] EXCEPT !.pc = pc]
  <2>3. /\ q.pc = pc /\ q.c = reqs[r].c /\ q.id = reqs[r].id /\ q.kind = reqs[r].kind
        /\ q.holds = reqs[r].holds /\ q.len = reqs[r].len /\ q # None
    BY <2>2, Zenon DEF None
  <2> HIDE DEF q
  <2>4. Sized(q)
    BY <1>9, <2>2, <2>3, Zenon DEF Sized
  <2> QED BY <1>9, <2>1, <2>3, <2>4 DEF q
<1>10. ASSUME reqs[r].pc = "start", NEW pc \in {"serve", "auth"}, Continues(r, pc), UNCHANGED free
       PROVE  AccountInv'
  <2> DEFINE q == [reqs[r] EXCEPT !.pc = pc]
  <2>1. /\ q # None /\ q.c = reqs[r].c /\ q.id = reqs[r].id /\ q.kind = reqs[r].kind
        /\ q.holds = reqs[r].holds /\ Sized(q) /\ reqs[r] # None /\ reqs[r].pc # "written"
    BY <1>9, <1>10, Zenon
  <2>2. /\ reqs' = [reqs EXCEPT ![r] = q]
        /\ UNCHANGED << conn, waiting, writing, streams, connFree, verifying >>
    BY <1>10, Zenon DEF Continues
  <2>3. /\ IsFiniteSet(verifying') /\ free.auth + Cardinality(verifying') = MaxAuth
        /\ free' = [free EXCEPT !.auth = free.auth]
    BY <1>8, <1>10, <2>2, Zenon
  <2> HIDE DEF q
  <2> QED BY <1>8, <2>1, <2>2, <2>3, AccountKeeps, ZenonT(20)
<1>11. CASE Dispatch(r)
  <2>1. /\ reqs[r].pc = "start"
        /\ \/ Concludes(r)
           \/ Continues(r, "serve") /\ UNCHANGED free
    BY <1>11, Zenon DEF Dispatch
  <2> QED BY <1>0, <1>1, <1>10, <2>1
<1>12. CASE LockAuth(r)
  BY <1>10, <1>12, Zenon DEF LockAuth
<1>13. CASE Verify(r)
  <2>1. reqs[r].pc = "auth" /\ reqs[r] # None /\ UNCHANGED << conn, waiting, writing, streams >>
    BY <1>0, <1>13, Zenon DEF Verify
  <2>2. CASE End(r, Unlocked(r)) /\ UNCHANGED verifying
    BY <2>1, <2>2, AccountConcludes, Zenon
  <2>3. CASE /\ free.auth > 0 /\ Take("auth", 1)
             /\ verifying' = verifying \cup {[r |-> r, id |-> reqs[r].id]}
             /\ reqs' = [reqs EXCEPT ![r].pc = "verify"] /\ UNCHANGED connFree
    <3> DEFINE q == [reqs[r] EXCEPT !.pc = "verify"]
               v == [r |-> r, id |-> reqs[r].id]
               m == free.auth - 1
    <3>1. /\ q # None /\ q.c = reqs[r].c /\ q.id = reqs[r].id /\ q.kind = reqs[r].kind
          /\ q.holds = reqs[r].holds /\ Sized(q) /\ reqs[r].pc # "written"
      BY <1>9, <2>1, Zenon
    <3>2. v \notin verifying
      BY <2>1 DEF AdmissionInv, Belongs
    <3>3. IsFiniteSet(verifying') /\ Cardinality(verifying') = Cardinality(verifying) + 1
      BY <1>8, <2>3, <3>2, FS_AddElement, Zenon
    <3>4. m \in Nat /\ m + Cardinality(verifying') = MaxAuth
      BY <1>8, <2>3, <3>3
    <3>5. free' = [free EXCEPT !.auth = m] /\ reqs' = [reqs EXCEPT ![r] = q]
      BY <2>3, Zenon DEF Take
    <3> HIDE DEF q, m
    <3> QED BY <2>1, <2>3, <3>1, <3>3, <3>4, <3>5, AccountKeeps, ZenonT(20)
  <2> QED BY <1>13, <2>2, <2>3 DEF Verify
<1> QED BY <1>2, <1>3, <1>4, <1>5, <1>6, <1>7, <1>11, <1>12, <1>13, Zenon

\* The thread of a verification gives its permit back, whether or not its request
\* still waits for it.
LEMMA AccountVerified ==
    ASSUME BudgetsAssumption, AdmissionInv, AccountInv,
           NEW v \in verifying, NEW result, Verified(v, result)
    PROVE  AccountInv'
<1> DEFINE r == v.r
           m == free.auth + 1
<1>1. /\ Belongs(v, reqs, waiting, streams) /\ r \in Slots
      /\ verifying' = verifying \ {v} /\ UNCHANGED << conn, waiting, writing, streams >>
  BY Zenon DEF AdmissionInv, Verified, Belongs
<1>2. /\ ShapeInv /\ LedgerInv /\ free \in Semaphores /\ connFree \in [Conns -> Nat]
      /\ IsFiniteSet(verifying) /\ free.auth + Cardinality(verifying) = MaxAuth
  BY Zenon DEF AccountInv, ShapeInv, LedgerInv
<1>3. free.auth \in Nat /\ Cardinality(verifying) \in Nat
  BY <1>2, FS_CardinalityType, Zenon DEF Semaphores
<1>4. IsFiniteSet(verifying') /\ Cardinality(verifying') = Cardinality(verifying) - 1
  BY <1>1, <1>2, FS_RemoveElement, Zenon
<1>5. m \in Nat /\ m + Cardinality(verifying') = MaxAuth
  BY <1>2, <1>3, <1>4
<1>6. CASE ~(reqs[r] # None /\ reqs[r].id = v.id)
  <2>1. free' = [free EXCEPT !.auth = m] /\ UNCHANGED << reqs, connFree >>
    BY <1>6, Zenon DEF Verified
  <2>2. /\ free' \in Semaphores /\ free'.auth = m /\ free'.conns = free.conns
        /\ free'.requests = free.requests /\ free'.read = free.read /\ free'.write = free.write
    BY <1>2, <1>5, <2>1, Zenon DEF Semaphores
  <2> HIDE DEF m
  <2>3. ShapeInv'
    BY <1>1, <1>2, <1>4, <2>1, Zenon DEF ShapeInv
  <2>4. LedgerInv'
    BY <1>1, <1>2, <1>5, <2>1, <2>2 DEF LedgerInv
  <2> QED BY <2>3, <2>4, Zenon DEF AccountInv
<1>7. CASE reqs[r] # None /\ reqs[r].id = v.id
  <2>1. reqs[r].pc = "verify"
    BY <1>1, <1>7, Zenon DEF Belongs
  <2>2. reqs[r].holds = 0 /\ reqs[r].c \in Conns
    <3>1. Sized(reqs[r])
      BY <1>1, <1>2, <1>7, Zenon DEF ShapeInv
    <3> QED BY <1>1, <1>7, <2>1, <3>1, Zenon DEF Sized, AdmissionInv, IsRequest
  <2>3. /\ reqs' = [reqs EXCEPT ![r] = None] /\ free' = [Released(r) EXCEPT !.auth = @ + 1]
        /\ UNCHANGED connFree
    BY <1>7, Zenon DEF Verified
  <2> HIDE DEF r
  <2>4. Released(r).auth = free.auth
    BY <1>2, Zenon DEF Released, Semaphores
  <2>5. free' = [Released(r) EXCEPT !.auth = m]
    BY <2>3, <2>4, Zenon
  <2>6. ReleasedHere(r) = connFree
    BY <1>2, <2>2 DEF ReleasedHere
  <2> HIDE DEF m
  <2> QED BY <1>1, <1>4, <1>5, <1>7, <2>3, <2>5, <2>6, AccountEnds, ZenonT(20)
<1> QED BY <1>6, <1>7, Zenon

LEMMA AccountInvStep ==
    ASSUME BudgetsAssumption, AdmissionInv, AccountInv, [AdmissionNext]_admissionVars
    PROVE  AccountInv'
<1>1. ASSUME NEW c \in Conns, NEW kind, NEW len, AcceptStream(c, kind, len) PROVE AccountInv'
  BY <1>1, AccountStreams, Zenon
<1>2. ASSUME NEW c \in Conns, AdmitTimeout(c) \/ \E r \in Slots : Admit(c, r) PROVE AccountInv'
  BY <1>2, AccountStreams, Zenon
<1>3. ASSUME NEW c \in Conns, Accept(c) \/ Close(c) \/ Leave(c) PROVE AccountInv'
  BY <1>3, AccountConnections, Zenon
<1>4. ASSUME NEW r \in Slots,
             \/ ServeOpen(r) \/ Dispatch(r) \/ ServeOther(r) \/ AcquireRead(r) \/ AnswerRead(r)
             \/ AcquireWrite(r) \/ SpawnWrite(r) \/ BodyLost(r) \/ AnswerWrite(r)
             \/ AuthRefused(r) \/ Timeout(r) \/ Abort(r)
             \/ LockAuth(r) \/ AuthInvalid(r) \/ Verify(r)
      PROVE  AccountInv'
  BY <1>4, AccountRequests, Zenon
<1>5. ASSUME NEW w \in writing, WriteDone(w) PROVE AccountInv'
  BY <1>5, AccountWriteDone, Zenon
<1>6. ASSUME NEW v \in verifying, NEW result, Verified(v, result) PROVE AccountInv'
  BY <1>6, AccountVerified, Zenon
<1>7. ASSUME UNCHANGED << conn, waiting, reqs, writing, verifying, free, connFree, streams >>
      PROVE  AccountInv'
  BY <1>7, Zenon DEF AccountInv, ShapeInv, LedgerInv
<1>8. CASE Tick
  BY <1>7, <1>8, Zenon DEF Tick
<1>9. CASE UNCHANGED admissionVars
  BY <1>7, <1>9, Zenon DEF admissionVars
<1> QED BY <1>1, <1>2, <1>3, <1>4, <1>5, <1>6, <1>8, <1>9, ZenonT(20) DEF AdmissionNext

LEMMA AccountInvInit ==
    ASSUME BudgetsAssumption, AdmissionInit
    PROVE  AccountInv
<1>1. /\ load \in AdmissionLoads /\ load.ready \subseteq Conns
      /\ Cardinality(load.ready) <= MaxConnections /\ IsFiniteSet(Conns) /\ MaxConnections \in Nat
  BY Zenon DEF AdmissionInit, BudgetsAssumption
<1>2. IsFiniteSet(load.ready) /\ Cardinality(load.ready) \in Nat
  BY <1>1, FS_Subset, FS_CardinalityType, Zenon
<1>3. Connected(conn) = load.ready
  BY <1>1, Zenon DEF AdmissionInit, Connected
<1>4. /\ (\A r \in Slots : reqs[r] = None) /\ (\A c \in Conns : waiting[c] = None)
      /\ writing = {} /\ verifying = {} /\ conn \in [Conns -> {"none", "open", "closing", "gone"}]
  BY Zenon DEF AdmissionInit
<1>5. IsFiniteSet({}) /\ Cardinality({}) = 0
  BY FS_EmptySet, Zenon
<1>6. ShapeInv
  BY <1>4, <1>5, Zenon DEF ShapeInv
<1>7. /\ Running(reqs) = {} /\ (\A kind : Holders(reqs, kind) = {}) /\ (\A c : HoldersOn(reqs, c) = {})
  BY <1>4, Zenon DEF Running, Holders, HoldersOn
<1>8. Bytes(reqs, {}) = {} /\ WriterBytes({}) = {} /\ \A c : On({}, c) = {}
  BY Zenon DEF Bytes, WriterBytes, On
<1>9. /\ Cardinality(Running(reqs)) = 0 /\ Held(reqs, "read") = 0 /\ Held(reqs, "write") = 0
      /\ (\A c : HeldOn(reqs, c) = 0) /\ Detached(writing) = 0 /\ (\A c : Detached(On(writing, c)) = 0)
  BY <1>4, <1>5, <1>7, <1>8, ZenonT(20) DEF Held, HeldOn, Detached
<1>10. /\ free = [conns |-> MaxConnections - Cardinality(load.ready), requests |-> MaxRequests,
                  auth |-> MaxAuth, read |-> ReadBytes, write |-> WriteBytes]
       /\ connFree = [c \in Conns |-> ConnectionWriteBytes]
  BY Zenon DEF AdmissionInit
<1>11. /\ MaxRequests \in Nat /\ MaxAuth \in Nat /\ ReadBytes \in Nat /\ WriteBytes \in Nat
       /\ ConnectionWriteBytes \in Nat
  BY Zenon DEF BudgetsAssumption
<1>12. free \in Semaphores /\ connFree \in [Conns -> Nat]
  BY <1>1, <1>2, <1>10, <1>11 DEF Semaphores
<1>13. LedgerInv
  BY <1>1, <1>2, <1>3, <1>4, <1>5, <1>9, <1>10, <1>11, <1>12 DEF LedgerInv
<1> QED BY <1>6, <1>13, Zenon DEF AccountInv

-----------------------------------------------------------------------------
(***************************************************************************)
(* The rate limiter                                                        *)
(***************************************************************************)

LEMMA LeastNatural ==
    ASSUME NEW S \in SUBSET Nat, S # {}
    PROVE  \E least \in S : \A n \in S : least <= n
<1>1. \E less : /\ \E x \in S : \A y \in S : ~(<<y, x>> \in less)
                /\ \A y, x \in S : y < x => <<y, x>> \in less
  <2>1. \E x \in S : \A y \in S : ~(<<y, x>> \in OpToRel(<, Nat))
    BY WFMin, NatLessThanWellFounded, Zenon
  <2>2. \A y, x \in S : y < x => <<y, x>> \in OpToRel(<, Nat)
    BY Zenon DEF OpToRel
  <2> QED BY <2>1, <2>2, Zenon
<1>2. PICK less : /\ \E x \in S : \A y \in S : ~(<<y, x>> \in less)
                  /\ \A y, x \in S : y < x => <<y, x>> \in less
  BY <1>1, Zenon
<1>3. PICK x \in S : \A y \in S : ~(<<y, x>> \in less)
  BY <1>2, Zenon
<1>4. \A y \in S : ~(y < x)
  BY <1>2, <1>3, Zenon
<1> QED BY <1>4

\* What the limiter remembers of a peer are its last attempts; those it forgot
\* have left the window.
Remembers(all, kept, time) ==
    /\ all \in Seq(Nat) /\ kept \in Seq(Nat)
    /\ \E d \in 0 .. Len(all) :
          /\ Len(kept) = Len(all) - d
          /\ \A i \in 1 .. d : all[i] <= time - Window
          /\ \A i \in 1 .. Len(kept) : kept[i] = all[i + d]

Kept(table, p) == IF p \in DOMAIN table THEN table[p] ELSE << >>

\* The table has room for its peers and remembers what counts.
IsTable(table) ==
    /\ table = [p \in DOMAIN table |-> table[p]]
    /\ DOMAIN table \subseteq Peers /\ Cardinality(DOMAIN table) <= MaxBuckets

LimiterInv ==
    /\ now \in Nat /\ allowed = [p \in Peers |-> allowed[p]] /\ IsTable(limiter)
    /\ \A p \in Peers : Remembers(allowed[p], Kept(limiter, p), now)
    /\ RateLimited

\* The loop over the front of the queue stops at the first attempt in the window.
LEMMA PoppedFacts ==
    ASSUME NEW times \in Seq(Nat)
    PROVE  /\ Popped(times) \in 0 .. Len(times)
           /\ \A i \in 1 .. Popped(times) : Past(times[i])
<1> DEFINE S == {k \in Nat : k >= Len(times) \/ ~Past(times[k + 1])}
           P(k) == (\A i \in 1 .. k : Past(times[i])) /\ (k < Len(times) => ~Past(times[k + 1]))
<1>0. Len(times) \in Nat
  OBVIOUS
<1>1. S \in SUBSET Nat /\ Len(times) \in S
  BY <1>0
<1>2. PICK k \in S : \A n \in S : k <= n
  BY <1>1, LeastNatural, Zenon
<1>3. k \in 0 .. Len(times)
  BY <1>0, <1>1, <1>2
<1>4. ASSUME NEW i \in 1 .. k PROVE Past(times[i])
  <2>1. i - 1 \in Nat /\ i - 1 < k /\ (i - 1) + 1 = i
    BY <1>3
  <2>2. ~(k <= i - 1)
    BY <1>3, <2>1
  <2>3. i - 1 \notin S
    <3> HIDE DEF S
    <3> QED BY <1>2, <2>2, Zenon
  <2> QED BY <2>1, <2>3, Zenon
<1>5. k < Len(times) => ~Past(times[k + 1])
  BY <1>0, <1>2, <1>3
<1>6. \E n \in 0 .. Len(times) : P(n)
  BY <1>3, <1>4, <1>5, Zenon
<1> HIDE DEF P
<1>7. Popped(times) = CHOOSE n \in 0 .. Len(times) : P(n)
  BY Zenon DEF Popped, P
<1>8. Popped(times) \in 0 .. Len(times) /\ P(Popped(times))
  BY <1>6, <1>7, Zenon
<1> QED BY <1>8, Zenon DEF P

\* What is left of a queue still remembers what counts.
LEMMA InWindowRemembers ==
    ASSUME BudgetsAssumption, now \in Nat, NEW all, NEW kept, Remembers(all, kept, now)
    PROVE  Remembers(all, InWindow(kept), now)
<1> DEFINE k == Popped(kept)
           rest == InWindow(kept)
<1>1. all \in Seq(Nat) /\ kept \in Seq(Nat)
  BY Zenon DEF Remembers
<1>2. PICK d \in 0 .. Len(all) : /\ Len(kept) = Len(all) - d
                                 /\ \A i \in 1 .. d : all[i] <= now - Window
                                 /\ \A i \in 1 .. Len(kept) : kept[i] = all[i + d]
  BY Zenon DEF Remembers
<1>3. /\ k \in 0 .. Len(kept)
      /\ \A i \in 1 .. k : kept[i] <= now - Window
  BY <1>1, PoppedFacts, Zenon DEF Past
<1>4. rest = [i \in 1 .. Len(kept) - k |-> kept[i + k]]
  BY Zenon DEF InWindow
<1> HIDE DEF k, rest
<1>5. \A i \in 1 .. Len(kept) - k : i + k \in 1 .. Len(kept) /\ kept[i + k] \in Nat
  BY <1>1, <1>3
<1>6. rest \in Seq(Nat) /\ Len(rest) = Len(kept) - k
  <2>1. Len(kept) - k \in Nat
    BY <1>1, <1>3
  <2> QED BY <1>4, <1>5, <2>1
<1> DEFINE e == d + k
<1>7. e \in 0 .. Len(all) /\ Len(rest) = Len(all) - e
  BY <1>1, <1>2, <1>3, <1>6
<1>8. ASSUME NEW i \in 1 .. e PROVE all[i] <= now - Window
  <2>1. CASE i <= d
    BY <1>2, <2>1
  <2>2. CASE i > d
    <3>1. i - d \in 1 .. k /\ i - d \in 1 .. Len(kept) /\ (i - d) + d = i
      BY <1>1, <1>3, <2>2
    <3>2. kept[i - d] <= now - Window /\ kept[i - d] = all[(i - d) + d]
      BY <1>2, <1>3, <3>1, Zenon
    <3> QED BY <3>1, <3>2, Zenon
  <2> QED BY <2>1, <2>2
<1>9. ASSUME NEW i \in 1 .. Len(rest) PROVE rest[i] = all[i + e]
  <2>1. i \in 1 .. Len(kept) - k /\ i + k \in 1 .. Len(kept)
    BY <1>5, <1>6, Zenon
  <2>2. rest[i] = kept[i + k] /\ kept[i + k] = all[(i + k) + d]
    BY <1>2, <1>4, <2>1, ZenonT(20)
  <2>3. (i + k) + d = i + e
    BY <1>2, <1>3
  <2> QED BY <2>2, <2>3, Zenon
<1> HIDE DEF e
<1> QED BY <1>1, <1>6, <1>7, <1>8, <1>9, ZenonT(20) DEF Remembers, rest

\* An attempt is let through when fewer than AttemptsPerWindow are remembered.
LEMMA AppendRemembers ==
    ASSUME BudgetsAssumption, now \in Nat, NEW all, NEW kept, Remembers(all, kept, now)
    PROVE  /\ Remembers(Append(all, now), Append(kept, now), now)
           /\ Len(kept) < AttemptsPerWindow =>
                Cardinality({i \in 1 .. Len(Append(all, now)) : ~Past(Append(all, now)[i])})
                    <= AttemptsPerWindow
<1>1. all \in Seq(Nat) /\ kept \in Seq(Nat) /\ Len(all) \in Nat /\ Len(kept) \in Nat
  BY DEF Remembers
<1>2. PICK d \in 0 .. Len(all) : /\ Len(kept) = Len(all) - d
                                 /\ \A i \in 1 .. d : all[i] <= now - Window
                                 /\ \A i \in 1 .. Len(kept) : kept[i] = all[i + d]
  BY Zenon DEF Remembers
<1> DEFINE more == Append(all, now)
           rest == Append(kept, now)
<1>3. /\ more \in Seq(Nat) /\ Len(more) = Len(all) + 1 /\ more[Len(all) + 1] = now
      /\ \A i \in 1 .. Len(all) : more[i] = all[i]
      /\ rest \in Seq(Nat) /\ Len(rest) = Len(kept) + 1 /\ rest[Len(kept) + 1] = now
      /\ \A i \in 1 .. Len(kept) : rest[i] = kept[i]
  BY <1>1
<1> HIDE DEF more, rest
<1>4. d \in 0 .. Len(more) /\ Len(rest) = Len(more) - d
  BY <1>1, <1>2, <1>3
<1>5. \A i \in 1 .. d : more[i] <= now - Window
  <2>1. \A i \in 1 .. d : i \in 1 .. Len(all)
    BY <1>1, <1>2
  <2> QED BY <1>2, <1>3, <2>1, Zenon
<1>6. ASSUME NEW i \in 1 .. Len(rest) PROVE rest[i] = more[i + d]
  <2>1. CASE i \in 1 .. Len(kept)
    <3>1. i + d \in 1 .. Len(all)
      BY <1>1, <1>2, <2>1
    <3> QED BY <1>2, <1>3, <2>1, <3>1
  <2>2. CASE i = Len(kept) + 1
    <3>1. i + d = Len(all) + 1
      BY <1>1, <1>2, <2>2
    <3> QED BY <1>3, <2>2, <3>1, Zenon
  <2> QED BY <1>1, <1>3, <2>1, <2>2
<1>7. Remembers(more, rest, now)
  BY <1>3, <1>4, <1>5, <1>6, ZenonT(20) DEF Remembers
<1> DEFINE recent == {i \in 1 .. Len(more) : ~Past(more[i])}
           window == d + 1 .. Len(all) + 1
<1>8. ASSUME NEW i \in recent PROVE i \in window
  <2>1. i \in 1 .. Len(all) + 1 /\ ~(more[i] <= now - Window)
    BY <1>3, Zenon DEF Past
  <2>2. i \notin 1 .. d
    BY <1>5, <2>1, Zenon
  <2> QED BY <1>1, <2>1, <2>2
<1> HIDE DEF recent
<1>9. IsFiniteSet(window) /\ Cardinality(window) = Len(kept) + 1
  <2>1. d + 1 \in Int /\ Len(all) + 1 \in Int /\ d + 1 <= Len(all) + 1
    BY <1>1
  <2>2. /\ IsFiniteSet(window)
        /\ Cardinality(window) = IF d + 1 > Len(all) + 1 THEN 0 ELSE (Len(all) + 1) - (d + 1) + 1
    BY <2>1, FS_Interval, Zenon
  <2> HIDE DEF window
  <2> QED BY <1>1, <1>2, <2>1, <2>2
<1> HIDE DEF window
<1>10. Cardinality(recent) <= Len(kept) + 1 /\ Cardinality(recent) \in Nat
  <2>1. recent \subseteq window
    BY <1>8, Zenon
  <2>2. IsFiniteSet(recent) /\ Cardinality(recent) <= Cardinality(window)
    BY <1>9, <2>1, FS_Subset
  <2> QED BY <1>9, <2>2, FS_CardinalityType
<1>11. Len(kept) < AttemptsPerWindow => Cardinality(recent) <= AttemptsPerWindow
  BY <1>1, <1>10 DEF BudgetsAssumption
<1> QED BY <1>7, <1>11, Zenon DEF recent, more, rest

LEMMA PeersFinite ==
    ASSUME BudgetsAssumption
    PROVE  IsFiniteSet(Peers)
<1> DEFINE f == [c \in Conns |-> Peer[c]]
<1>1. f \in Surjection(Conns, Peers)
  BY Zenon DEF Surjection, Peers
<1> HIDE DEF f
<1> QED BY <1>1, FS_Surjection DEF BudgetsAssumption

\* The table after retain.
LEMMA RetainedFacts ==
    ASSUME BudgetsAssumption, LimiterInv
    PROVE  /\ IsTable(Retained) /\ DOMAIN Retained \subseteq DOMAIN limiter
           /\ \A p \in Peers : Remembers(allowed[p], Kept(Retained, p), now)
<1>1. /\ now \in Nat /\ IsTable(limiter)
      /\ \A p \in Peers : Remembers(allowed[p], Kept(limiter, p), now)
  BY Zenon DEF LimiterInv
<1>2. /\ DOMAIN Retained = {q \in DOMAIN limiter : InWindow(limiter[q]) # << >>}
      /\ \A p \in DOMAIN Retained : Retained[p] = InWindow(limiter[p])
      /\ Retained = [p \in DOMAIN Retained |-> Retained[p]]
  BY Zenon DEF Retained
<1>3. DOMAIN Retained \subseteq DOMAIN limiter
  BY <1>2, Zenon
<1>4. IsFiniteSet(Peers)
  BY PeersFinite, Zenon
<1>5. IsFiniteSet(DOMAIN limiter) /\ DOMAIN limiter \subseteq Peers /\ Cardinality(DOMAIN limiter) <= MaxBuckets
  BY <1>1, <1>4, FS_Subset, Zenon DEF IsTable
<1>6. /\ IsFiniteSet(DOMAIN Retained) /\ Cardinality(DOMAIN Retained) \in Nat
      /\ Cardinality(DOMAIN Retained) <= Cardinality(DOMAIN limiter)
      /\ Cardinality(DOMAIN limiter) \in Nat
  BY <1>3, <1>5, FS_Subset, FS_CardinalityType, Zenon
<1>7. IsTable(Retained)
  BY <1>2, <1>3, <1>5, <1>6 DEF IsTable, BudgetsAssumption
<1>8. ASSUME NEW p \in Peers PROVE Remembers(allowed[p], Kept(Retained, p), now)
  <2>1. CASE p \in DOMAIN limiter
    <3>1. Remembers(allowed[p], limiter[p], now)
      BY <1>1, <2>1, Zenon DEF Kept
    <3>2. Remembers(allowed[p], InWindow(limiter[p]), now)
      BY <1>1, <3>1, InWindowRemembers, Zenon
    <3>3. Kept(Retained, p) = InWindow(limiter[p])
      BY <1>2, <2>1, Zenon DEF Kept
    <3> QED BY <3>2, <3>3, Zenon
  <2>2. CASE p \notin DOMAIN limiter
    <3>1. Kept(Retained, p) = Kept(limiter, p)
      BY <1>3, <2>2, Zenon DEF Kept
    <3> QED BY <1>1, <3>1, Zenon
  <2> QED BY <2>1, <2>2, Zenon
<1> QED BY <1>3, <1>7, <1>8, Zenon

\* A table with an entry for peer.
LEMMA EnteredFacts ==
    ASSUME BudgetsAssumption, NEW table, IsTable(table), NEW peer \in Peers, NEW attempts,
           peer \notin DOMAIN table => Cardinality(DOMAIN table) < MaxBuckets
    PROVE  /\ IsTable(Entered(table, peer, attempts))
           /\ Kept(Entered(table, peer, attempts), peer) = attempts
           /\ \A p : p # peer => Kept(Entered(table, peer, attempts), p) = Kept(table, p)
<1> DEFINE next == Entered(table, peer, attempts)
<1>1. /\ DOMAIN next = DOMAIN table \cup {peer} /\ next[peer] = attempts
      /\ \A p \in DOMAIN table : p # peer => next[p] = table[p]
      /\ next = [p \in DOMAIN next |-> next[p]]
  BY Zenon DEF Entered
<1> HIDE DEF next
<1>2. IsFiniteSet(Peers)
  BY PeersFinite, Zenon
<1>3. /\ IsFiniteSet(DOMAIN table) /\ Cardinality(DOMAIN table) \in Nat
      /\ Cardinality(DOMAIN table) <= MaxBuckets /\ DOMAIN table \subseteq Peers
  BY <1>2, FS_Subset, FS_CardinalityType, Zenon DEF IsTable
<1>4. Cardinality(DOMAIN next) =
        IF peer \in DOMAIN table THEN Cardinality(DOMAIN table) ELSE Cardinality(DOMAIN table) + 1
  BY <1>1, <1>3, FS_AddElement
<1>5. Cardinality(DOMAIN next) <= MaxBuckets
  BY <1>3, <1>4 DEF BudgetsAssumption
<1>6. IsTable(next)
  BY <1>1, <1>3, <1>5, Zenon DEF IsTable
<1>7. Kept(next, peer) = attempts /\ \A p : p # peer => Kept(next, p) = Kept(table, p)
  BY <1>1, Zenon DEF Kept
<1> QED BY <1>6, <1>7, Zenon DEF next

\* What allow leaves and answers.
LEMMA AllowFacts ==
    ASSUME BudgetsAssumption, LimiterInv, NEW peer \in Peers
    PROVE  LET answer == Allow(peer)
               all == allowed[peer]
           IN  /\ IsTable(answer.table)
               /\ \A p \in Peers : p # peer => Remembers(allowed[p], Kept(answer.table, p), now)
               /\ ~answer.ok => Remembers(all, Kept(answer.table, peer), now)
               /\ answer.ok =>
                    /\ Remembers(Append(all, now), Kept(answer.table, peer), now)
                    /\ Cardinality({i \in 1 .. Len(Append(all, now)) : ~Past(Append(all, now)[i])})
                          <= AttemptsPerWindow
<1> DEFINE table == IF Full(peer) THEN Retained ELSE limiter
           attempts == IF peer \in DOMAIN table THEN InWindow(table[peer]) ELSE << >>
           answer == Allow(peer)
           all == allowed[peer]
<1>1. /\ now \in Nat /\ IsTable(limiter)
      /\ \A p \in Peers : Remembers(allowed[p], Kept(limiter, p), now)
  BY Zenon DEF LimiterInv
<1>2. /\ IsTable(Retained) /\ DOMAIN Retained \subseteq DOMAIN limiter
      /\ \A p \in Peers : Remembers(allowed[p], Kept(Retained, p), now)
  BY RetainedFacts, Zenon
<1>3. IsTable(table) /\ \A p \in Peers : Remembers(allowed[p], Kept(table, p), now)
  BY <1>1, <1>2, Zenon
<1>4. answer = IF Full(peer) /\ Cardinality(DOMAIN table) >= MaxBuckets THEN [ok |-> FALSE, table |-> table]
               ELSE IF Len(attempts) >= AttemptsPerWindow
               THEN [ok |-> FALSE, table |-> Entered(table, peer, attempts)]
               ELSE [ok |-> TRUE, table |-> Entered(table, peer, Append(attempts, now))]
  BY Zenon DEF Allow
<1>5. peer \notin DOMAIN table =>
        \/ Full(peer)
        \/ ~(Cardinality(DOMAIN table) >= MaxBuckets)
  BY Zenon DEF Full
<1>6. Cardinality(DOMAIN table) \in Nat
  <2>1. IsFiniteSet(Peers)
    BY PeersFinite, Zenon
  <2>2. DOMAIN table \subseteq Peers
    BY <1>3, Zenon DEF IsTable
  <2> QED BY <2>1, <2>2, FS_Subset, FS_CardinalityType
<1> HIDE DEF table
<1>7. Remembers(all, attempts, now)
  <2>1. Remembers(all, Kept(table, peer), now)
    BY <1>3, Zenon
  <2>2. CASE peer \in DOMAIN table
    BY <1>1, <2>1, <2>2, InWindowRemembers DEF Kept
  <2>3. CASE peer \notin DOMAIN table
    BY <2>1, <2>3, Zenon DEF Kept
  <2> QED BY <2>2, <2>3, Zenon
<1> HIDE DEF attempts, answer
<1>8. CASE Full(peer) /\ Cardinality(DOMAIN table) >= MaxBuckets
  <2>1. ~answer.ok /\ answer.table = table
    BY <1>4, <1>8, Zenon
  <2> QED BY <1>3, <2>1, Zenon DEF answer
<1>9. CASE ~(Full(peer) /\ Cardinality(DOMAIN table) >= MaxBuckets)
  <2>1. peer \notin DOMAIN table => Cardinality(DOMAIN table) < MaxBuckets
    BY <1>5, <1>6, <1>9 DEF BudgetsAssumption
  <2>2. CASE Len(attempts) >= AttemptsPerWindow
    <3>1. ~answer.ok /\ answer.table = Entered(table, peer, attempts)
      BY <1>4, <1>9, <2>2, Zenon
    <3>2. /\ IsTable(answer.table) /\ Kept(answer.table, peer) = attempts
          /\ \A p : p # peer => Kept(answer.table, p) = Kept(table, p)
      BY <1>3, <2>1, <3>1, EnteredFacts
    <3> QED BY <1>3, <1>7, <3>1, <3>2 DEF answer
  <2>3. CASE ~(Len(attempts) >= AttemptsPerWindow)
    <3>1. answer.ok /\ answer.table = Entered(table, peer, Append(attempts, now))
      BY <1>4, <1>9, <2>3, Zenon
    <3>2. /\ IsTable(answer.table) /\ Kept(answer.table, peer) = Append(attempts, now)
          /\ \A p : p # peer => Kept(answer.table, p) = Kept(table, p)
      <4> DEFINE more == Append(attempts, now)
      <4> HIDE DEF more
      <4>1. /\ IsTable(Entered(table, peer, more)) /\ Kept(Entered(table, peer, more), peer) = more
            /\ \A p : p # peer => Kept(Entered(table, peer, more), p) = Kept(table, p)
        BY <1>3, <2>1, EnteredFacts
      <4> QED BY <3>1, <4>1, Zenon DEF more
    <3>3. Len(attempts) < AttemptsPerWindow
      <4>1. Len(attempts) \in Nat
        BY <1>7 DEF Remembers
      <4> QED BY <2>3, <4>1 DEF BudgetsAssumption
    <3>4. /\ Remembers(Append(all, now), Append(attempts, now), now)
          /\ Cardinality({i \in 1 .. Len(Append(all, now)) : ~Past(Append(all, now)[i])})
                <= AttemptsPerWindow
      BY <1>1, <1>7, <3>3, AppendRemembers, ZenonT(20)
    <3> QED BY <1>3, <3>1, <3>2, <3>4, Zenon DEF answer
  <2> QED BY <2>2, <2>3, Zenon
<1> QED BY <1>8, <1>9, Zenon

LEMMA LimiterInvStep ==
    ASSUME BudgetsAssumption, AdmissionInv, LimiterInv, [AdmissionNext]_admissionVars
    PROVE  LimiterInv'
<1>1. CASE UNCHANGED limits
  BY <1>1, Zenon DEF LimiterInv, IsTable, RateLimited, Recent, Past, limits
<1>2. CASE Tick
  <2>1. UNCHANGED << limiter, allowed >> /\ now' = now + 1 /\ now \in Nat
    BY <1>2, Zenon DEF Tick, LimiterInv
  <2>2. \A all, kept : Remembers(all, kept, now) => Remembers(all, kept, now')
    <3> SUFFICES ASSUME NEW all, NEW kept, Remembers(all, kept, now) PROVE Remembers(all, kept, now')
      BY Zenon
    <3>1. \A i \in 1 .. Len(all) : all[i] <= now - Window => all[i] <= now' - Window
      <4>1. \A i \in 1 .. Len(all) : all[i] \in Nat
        BY DEF Remembers
      <4>2. Window \in Nat
        BY Zenon DEF BudgetsAssumption
      <4>3. \A t \in Nat : t <= now - Window => t <= now' - Window
        BY <2>1, <4>2
      <4> QED BY <4>1, <4>3, Zenon
    <3>2. PICK d \in 0 .. Len(all) : /\ Len(kept) = Len(all) - d
                                     /\ \A i \in 1 .. d : all[i] <= now - Window
                                     /\ \A i \in 1 .. Len(kept) : kept[i] = all[i + d]
      BY Zenon DEF Remembers
    <3>3. \A i \in 1 .. d : i \in 1 .. Len(all)
      BY <3>2 DEF Remembers
    <3>4. \A i \in 1 .. d : all[i] <= now' - Window
      BY <3>1, <3>2, <3>3, Zenon
    <3> QED BY <3>2, <3>4, Zenon DEF Remembers
  <2>3. RateLimited'
    <3> SUFFICES ASSUME NEW p \in Peers PROVE Cardinality(Recent(p)') <= AttemptsPerWindow
      BY Zenon DEF RateLimited
    <3>1. Recent(p)' \subseteq Recent(p) /\ Recent(p) \subseteq 1 .. Len(allowed[p])
      <4>1. \A i \in 1 .. Len(allowed[p]) : allowed[p][i] \in Nat
        BY DEF LimiterInv, Remembers
      <4> QED BY <2>1, <4>1 DEF Recent, Past, BudgetsAssumption
    <3>2. IsFiniteSet(1 .. Len(allowed[p]))
      <4>1. 1 \in Int /\ Len(allowed[p]) \in Int
        BY DEF LimiterInv, Remembers
      <4> QED BY <4>1, FS_Interval, Zenon
    <3>3. IsFiniteSet(Recent(p)) /\ Cardinality(Recent(p)) <= AttemptsPerWindow
      BY <3>1, <3>2, FS_Subset, Zenon DEF LimiterInv, RateLimited
    <3> DEFINE later == Recent(p)'
    <3>4. later \subseteq Recent(p)
      BY <3>1, Zenon
    <3> HIDE DEF later
    <3>5. IsFiniteSet(later) /\ Cardinality(later) <= Cardinality(Recent(p))
      BY <3>3, <3>4, FS_Subset, Zenon
    <3>6. Cardinality(later) \in Nat /\ Cardinality(Recent(p)) \in Nat
      BY <3>3, <3>5, FS_CardinalityType
    <3> QED BY <3>3, <3>5, <3>6 DEF later, BudgetsAssumption
  <2> QED BY <2>1, <2>2, <2>3 DEF LimiterInv, IsTable
<1>3. ASSUME NEW r \in Slots, Verify(r) PROVE LimiterInv'
  <2> DEFINE peer == Peer[reqs[r].c]
             answer == Allow(peer)
             all == allowed[peer]
  <2>1. reqs[r].c \in Conns
    <3>1. reqs[r] # None
      BY <1>3 DEF Verify, None
    <3> QED BY <3>1, Zenon DEF AdmissionInv, IsRequest
  <2>2. peer \in Peers
    BY <2>1, Zenon DEF Peers
  <2>3. /\ limiter' = answer.table /\ now' = now
        /\ allowed' = IF answer.ok THEN [allowed EXCEPT ![peer] = Append(@, now)] ELSE allowed
    BY <1>3, Zenon DEF Verify
  <2> HIDE DEF peer
  <2>4. /\ IsTable(answer.table)
        /\ \A p \in Peers : p # peer => Remembers(allowed[p], Kept(answer.table, p), now)
        /\ ~answer.ok => Remembers(all, Kept(answer.table, peer), now)
        /\ answer.ok =>
             /\ Remembers(Append(all, now), Kept(answer.table, peer), now)
             /\ Cardinality({i \in 1 .. Len(Append(all, now)) : ~Past(Append(all, now)[i])})
                   <= AttemptsPerWindow
    BY <2>2, AllowFacts, Zenon
  <2> HIDE DEF answer
  <2>5. now \in Nat /\ allowed = [p \in Peers |-> allowed[p]] /\ RateLimited
    BY Zenon DEF LimiterInv
  <2>6. IsTable(limiter')
    BY <2>3, <2>4, Zenon
  <2>7. CASE ~answer.ok
    <3>1. allowed' = allowed
      BY <2>3, <2>7, Zenon
    <3>2. \A p \in Peers : Remembers(allowed'[p], Kept(limiter', p), now')
      BY <2>3, <2>4, <2>7, <3>1, Zenon
    <3>3. RateLimited'
      BY <2>3, <2>5, <3>1, Zenon DEF RateLimited, Recent, Past
    <3> QED BY <2>3, <2>5, <2>6, <3>1, <3>2, <3>3 DEF LimiterInv, IsTable
  <2>8. CASE answer.ok
    <3>1. /\ allowed' = [p \in Peers |-> allowed'[p]] /\ allowed'[peer] = Append(all, now)
          /\ \A p \in Peers : p # peer => allowed'[p] = allowed[p]
      BY <2>2, <2>3, <2>5, <2>8, Zenon
    <3>2. \A p \in Peers : Remembers(allowed'[p], Kept(limiter', p), now')
      BY <2>3, <2>4, <2>8, <3>1, Zenon
    <3>3. ASSUME NEW p \in Peers PROVE Cardinality(Recent(p)') <= AttemptsPerWindow
      <4>1. CASE p = peer
        <5>1. Recent(p)' = {i \in 1 .. Len(Append(all, now)) : ~Past(Append(all, now)[i])}
          BY <2>3, <3>1, <4>1, Zenon DEF Recent, Past
        <5> QED BY <2>4, <2>8, <5>1, Zenon
      <4>2. CASE p # peer
        <5>1. Recent(p)' = Recent(p)
          BY <2>3, <3>1, <4>2, Zenon DEF Recent, Past
        <5> QED BY <2>5, <5>1, Zenon DEF RateLimited
      <4> QED BY <4>1, <4>2, Zenon
    <3> QED BY <2>3, <2>5, <2>6, <3>1, <3>2, <3>3 DEF LimiterInv, IsTable, RateLimited
  <2> QED BY <2>7, <2>8, Zenon
<1>4. ASSUME NEW c \in Conns, Accept(c) \/ AdmitTimeout(c) \/ Close(c) \/ Leave(c) PROVE UNCHANGED limits
  BY <1>4, Zenon DEF Accept, AdmitTimeout, Close, Leave
<1>5. ASSUME NEW c \in Conns, \/ \E kind, len : AcceptStream(c, kind, len)
                              \/ \E r \in Slots : Admit(c, r)
      PROVE  UNCHANGED limits
  BY <1>5, Zenon DEF AcceptStream, Admit
<1>6. ASSUME NEW r \in Slots,
             \/ ServeOpen(r) \/ Dispatch(r) \/ ServeOther(r) \/ AcquireRead(r) \/ AnswerRead(r)
             \/ AcquireWrite(r) \/ SpawnWrite(r) \/ BodyLost(r) \/ AnswerWrite(r)
             \/ AuthRefused(r) \/ Timeout(r) \/ Abort(r) \/ LockAuth(r) \/ AuthInvalid(r)
      PROVE  UNCHANGED limits
  BY <1>6, Zenon DEF ServeOpen, Dispatch, ServeOther, AcquireRead, AnswerRead, AcquireWrite, SpawnWrite,
              BodyLost, AnswerWrite, AuthRefused, Timeout, Abort, LockAuth, AuthInvalid,
              Concludes, Continues
<1>7. ASSUME NEW w, WriteDone(w) PROVE UNCHANGED limits
  BY <1>7, Zenon DEF WriteDone
<1>8. ASSUME NEW v, NEW result, Verified(v, result) PROVE UNCHANGED limits
  BY <1>8, Zenon DEF Verified
<1>9. CASE UNCHANGED admissionVars
  BY <1>1, <1>9, Zenon DEF admissionVars
<1> QED BY <1>1, <1>2, <1>3, <1>4, <1>5, <1>6, <1>7, <1>8, <1>9, ZenonT(20) DEF AdmissionNext

LEMMA LimiterInvInit ==
    ASSUME BudgetsAssumption, AdmissionInit
    PROVE  LimiterInv
<1>1. limiter = [p \in {} |-> << >>] /\ now = 0 /\ allowed = [p \in Peers |-> << >>]
  BY Zenon DEF AdmissionInit
<1>2. DOMAIN limiter = {} /\ Cardinality({}) = 0
  BY <1>1, FS_EmptySet, Zenon
<1>3. IsTable(limiter)
  BY <1>1, <1>2 DEF IsTable, BudgetsAssumption
<1>4. \A p \in Peers : Kept(limiter, p) = << >> /\ allowed[p] = << >>
  BY <1>1, <1>2, Zenon DEF Kept
<1>5. Remembers(<< >>, << >>, now)
  <2>1. << >> \in Seq(Nat) /\ Len(<< >>) = 0
    OBVIOUS
  <2>2. 0 \in 0 .. Len(<< >>) /\ (\A i : i \notin 1 .. 0) /\ Len(<< >>) = Len(<< >>) - 0
    BY <2>1
  <2> QED BY <2>1, <2>2, Zenon DEF Remembers
<1>6. RateLimited
  <2> SUFFICES ASSUME NEW p \in Peers PROVE Cardinality(Recent(p)) <= AttemptsPerWindow
    BY Zenon DEF RateLimited
  <2>1. Recent(p) = {}
    BY <1>4 DEF Recent
  <2> QED BY <1>2, <2>1 DEF BudgetsAssumption
<1> QED BY <1>1, <1>3, <1>4, <1>5, <1>6, Zenon DEF LimiterInv

-----------------------------------------------------------------------------
LEMMA AccountsHold ==
    ASSUME BudgetsAssumption
    PROVE  AdmissionSpec => [](AdmissionInv /\ AccountInv /\ LimiterInv)
<1>1. AdmissionInit => AdmissionInv /\ AccountInv /\ LimiterInv
  BY AdmissionInvInit, AccountInvInit, LimiterInvInit, Zenon
<1>2. /\ AdmissionInv /\ AccountInv /\ LimiterInv
      /\ [AdmissionNext]_admissionVars
      => (AdmissionInv /\ AccountInv /\ LimiterInv)'
  BY AdmissionInvStep, AccountInvStep, LimiterInvStep, Zenon
<1> QED BY <1>1, <1>2, PTL DEF AdmissionSpec

LEMMA AccountsGivePermits ==
    ASSUME BudgetsAssumption, AdmissionInv, AccountInv, LimiterInv
    PROVE  PermitsConserved
<1>1. /\ ShapeInv /\ LedgerInv
      /\ free \in Semaphores /\ connFree \in [Conns -> Nat]
      /\ IsFiniteSet(writing) /\ IsFiniteSet(verifying)
  BY Zenon DEF AccountInv, LedgerInv, ShapeInv
<1>2. /\ Connected(conn) \in SUBSET Conns /\ Running(reqs) \in SUBSET Slots
      /\ IsFiniteSet(Conns) /\ IsFiniteSet(Slots)
  BY Zenon DEF Connected, Running, BudgetsAssumption
<1>3. /\ Cardinality(Connected(conn)) \in Nat /\ Cardinality(Running(reqs)) \in Nat
      /\ Cardinality(verifying) \in Nat
  BY <1>1, <1>2, FS_Subset, FS_CardinalityType, Zenon
<1>4. /\ Held(reqs, "read") \in Nat /\ Held(reqs, "write") \in Nat
      /\ \A c : HeldOn(reqs, c) \in Nat
  BY <1>1, HeldTypes, Zenon
<1>5. Detached(writing) \in Nat /\ \A c : Detached(On(writing, c)) \in Nat
  BY <1>1, DetachedTypes, Zenon
<1>6. /\ free.conns \in Nat /\ free.requests \in Nat /\ free.auth \in Nat /\ free.read \in Nat
      /\ free.write \in Nat /\ \A c \in Conns : connFree[c] \in Nat
  BY <1>1, Zenon DEF Semaphores
<1>7. /\ free.conns + Cardinality(Connected(conn)) = MaxConnections
      /\ free.requests + Cardinality(Running(reqs)) = MaxRequests
      /\ free.auth + Cardinality(verifying) = MaxAuth
      /\ free.read + Held(reqs, "read") = ReadBytes
      /\ free.write + Held(reqs, "write") + Detached(writing) = WriteBytes
      /\ \A c \in Conns : connFree[c] + HeldOn(reqs, c) + Detached(On(writing, c)) = ConnectionWriteBytes
  BY <1>1, Zenon DEF LedgerInv
<1>8. AdmissionTypeOK
  <2>1. /\ free.conns \in 0..MaxConnections /\ free.requests \in 0..MaxRequests
        /\ free.auth \in 0..MaxAuth /\ free.read \in 0..ReadBytes /\ free.write \in 0..WriteBytes
    BY <1>3, <1>4, <1>5, <1>6, <1>7
  <2>2. connFree \in [Conns -> 0..ConnectionWriteBytes]
    <3>1. \A c \in Conns : connFree[c] \in 0..ConnectionWriteBytes
      BY <1>4, <1>5, <1>6, <1>7
    <3> QED BY <1>1, <3>1, Zenon
  <2>3. DOMAIN limiter \subseteq Peers /\ Cardinality(DOMAIN limiter) <= MaxBuckets
    BY Zenon DEF LimiterInv, IsTable
  <2>4. /\ conn \in [Conns -> {"none", "open", "closing", "gone"}]
        /\ \A r \in Slots : reqs[r] # None => conn[reqs[r].c] \in {"open", "closing"}
    BY <1>1, Zenon DEF ShapeInv, Connected
  <2> QED BY <2>1, <2>2, <2>3, <2>4, Zenon DEF AdmissionTypeOK
<1>9. Accounted
  <2>1. /\ Live("any") = Running(reqs) /\ Live("read") = Holders(reqs, "read")
        /\ Live("write") = Holders(reqs, "write")
        /\ {c \in Conns : conn[c] \in {"open", "closing"}} = Connected(conn)
    BY Zenon DEF Live, Running, Holders, Connected
  <2> QED BY <1>7, <2>1, Zenon DEF Accounted, Held, Detached
<1>10. BodiesBounded
  <2>1. ASSUME NEW ws \in SUBSET writing PROVE Cardinality(UNION {Body(w) : w \in ws}) = Detached(ws)
    <3>1. \A w \in ws : w.len = w.holds
      BY <1>1, Zenon DEF ShapeInv, Spawned
    <3>2. UNION {Body(w) : w \in ws} = WriterBytes(ws)
      BY <3>1, Zenon DEF Body, WriterBytes
    <3> QED BY <3>2, Zenon DEF Detached
  <2>2. Cardinality(UNION {Body(w) : w \in writing}) = Detached(writing)
    BY <2>1, Zenon
  <2>3. ASSUME NEW c \in Conns
        PROVE  Cardinality(UNION {Body(w) : w \in Writes(c)}) = Detached(On(writing, c))
    <3>1. Writes(c) = On(writing, c) /\ On(writing, c) \in SUBSET writing
      BY Zenon DEF Writes, On
    <3> QED BY <2>1, <3>1, Zenon
  <2>4. Detached(writing) <= WriteBytes
    BY <1>4, <1>5, <1>6, <1>7
  <2>5. \A c \in Conns : Detached(On(writing, c)) <= ConnectionWriteBytes
    BY <1>4, <1>5, <1>6, <1>7
  <2> QED BY <2>2, <2>3, <2>4, <2>5, Zenon DEF BodiesBounded
<1>11. AuthMutexHeldByLive
  BY Zenon DEF AdmissionInv, AuthMutexHeldByLive, Authenticating
<1> QED BY <1>8, <1>9, <1>10, <1>11 DEF PermitsConserved

\* Nothing is read or written for a connection before it is authenticated, whatever
\* requests overlap, time out or are aborted while a password is verified.
THEOREM ServedAfterAuthentication ==
    ASSUME BudgetsAssumption
    PROVE  AdmissionSpec => []AuthenticatedFirst
<1>1. AdmissionInv => AuthenticatedFirst
  BY Zenon DEF AdmissionInv, AuthenticatedFirst, Stage, Served
<1> QED BY <1>1, AdmissionInvHolds, PTL

\* A connection is told of at most FailureLimit failures, however its requests to
\* authenticate overlap: ConnectionAuth stays locked from the check to the count.
THEOREM FailuresAreBounded ==
    ASSUME BudgetsAssumption
    PROVE  AdmissionSpec => []FailuresBounded
<1>1. AdmissionInv => FailuresBounded
  BY Zenon DEF AdmissionInv, FailuresBounded, IsAuth
<1> QED BY <1>1, AdmissionInvHolds, PTL

\* ConnectionAuth is locked only by a request to authenticate that is under way on
\* the connection: none that timed out or was aborted leaves it locked.
THEOREM MutexIsGivenBack ==
    ASSUME BudgetsAssumption
    PROVE  AdmissionSpec => []AuthMutexHeldByLive
<1>1. AdmissionInv => AuthMutexHeldByLive
  BY Zenon DEF AdmissionInv, AuthMutexHeldByLive, Authenticating
<1> QED BY <1>1, AdmissionInvHolds, PTL

\* Every permit of the daemon, of connections, requests, verifications and bytes, is
\* free or held by something that still runs, and none is given back twice, whatever
\* times out, is aborted or outlives its request; the bodies of detached writes stay
\* within the budgets, and no request that is over leaves ConnectionAuth locked.
THEOREM PermitsAreConserved ==
    ASSUME BudgetsAssumption
    PROVE  AdmissionSpec => []PermitsConserved
<1>1. AdmissionInv /\ AccountInv /\ LimiterInv => PermitsConserved
  BY AccountsGivePermits, Zenon
<1> QED BY <1>1, AccountsHold, PTL

\* A connection is told of at most FailureLimit failures, and the limiter lets a peer
\* through at most AttemptsPerWindow times in a window, also when its table is full
\* and has lost the peer in between.
THEOREM AttemptsAreLimited ==
    ASSUME BudgetsAssumption
    PROVE  AdmissionSpec => []AttemptsLimited
<1>1. AdmissionInv /\ AccountInv /\ LimiterInv => AttemptsLimited
  BY Zenon DEF AdmissionInv, IsAuth, LimiterInv, AttemptsLimited, FailuresBounded
<1> QED BY <1>1, AccountsHold, PTL
=============================================================================
