------------------------- MODULE NodeRegistryProofs -------------------------
(***************************************************************************)
(* Proofs about the node registry, for any number of files, sessions and   *)
(* requests and any size of the pools.                                     *)
(***************************************************************************)
EXTENDS NodeRegistry, FiniteSetTheorems, TLAPS

\* The steps at which a request has a permit of its session, and one of the export.
WithSessionPermit == {"global", "again", "create", "insert", "admit"}
WithGlobalPermit  == {"create", "insert"}

\* The steps that have a node in hand, and those that have a path.
WithNode == {"lookup", "discover", "remember", "snapshot", "track", "permit", "admit",
             "insert", "finish", "created"}
WithPath == {"remember", "reserve", "global", "again", "create", "insert", "rename", "renamed"}

TaskFields == {"pc", "session", "op", "node", "path", "other", "mode", "target", "then",
               "snapshot", "batch", "sessionPermit", "globalPermit"}

\* What a request knows at each step.
HasPermits(k) ==
    /\ k.sessionPermit \in {0, 1} /\ (k.sessionPermit = 1 <=> k.pc \in WithSessionPermit)
    /\ k.globalPermit \in {0, 1} /\ (k.globalPermit = 1 <=> k.pc \in WithGlobalPermit)

HasFile(k) ==
    /\ k.pc \in WithNode => k.node \in Nodes
    /\ k.pc \in {"reserve", "global", "again"} => k.op = "create" \/ k.node \in Nodes
    /\ k.pc \in WithPath => k.other \in Paths
    /\ k.pc \in {"rename", "renamed"} => k.path \in Paths
    /\ k.op = "link" => k.path \in Paths

IsTask(k) ==
    /\ DOMAIN k = TaskFields
    /\ k.pc # "idle" /\ k.session \in Connections
    /\ k.then \in {"end", "snapshot", "finish", "created", "lookup"}
    /\ HasPermits(k) /\ HasFile(k)

IsSlot(k) == k = AtRest \/ IsTask(k)

TasksInv ==
    /\ running = [t \in Requesters |-> running[t]]
    /\ \A t \in Requesters : IsSlot(running[t])

\* The registry and the sessions have their shape.
ShapeInv ==
    /\ tree \in [Paths -> Nodes \cup {NoNode}]
    /\ registered \subseteq Nodes
    /\ paths \in [Nodes -> SUBSET Paths]
    /\ refs \in [Nodes -> Nat]
    /\ \A n \in Nodes \ registered : paths[n] = {} /\ refs[n] = 0
    /\ RegisteredHasPath
    /\ open \in [Connections -> SUBSET Nodes]
    /\ known \in [Connections -> SUBSET Nodes]

\* The requests with a permit of the export, or of session s.
GlobalHolders == {t \in Live : running[t].globalPermit = 1}
SessionHolders(s) == {t \in Live : running[t].session = s /\ running[t].sessionPermit = 1}

LedgerInv ==
    /\ globalFree \in Nat /\ sessionFree \in [Connections -> Nat]
    /\ IsFiniteSet(registered) /\ IsFiniteSet(GlobalHolders)
    /\ \A s \in Connections : IsFiniteSet(known[s]) /\ IsFiniteSet(SessionHolders(s))
    /\ globalFree + Cardinality(registered) + Cardinality(GlobalHolders) = MaxTotal
    /\ \A s \in Connections :
          sessionFree[s] + Cardinality(known[s]) + Cardinality(SessionHolders(s)) = MaxKnown

RegistryInv == TasksInv /\ ShapeInv /\ LedgerInv

-----------------------------------------------------------------------------
(* One request takes a step *)

\* The permits that a request in a state has.
OfExport(k) == IF k.pc \in WithGlobalPermit THEN 1 ELSE 0
OfSession(k, s) == IF k.pc \in WithSessionPermit /\ k.session = s THEN 1 ELSE 0

LEMMA RestFacts ==
    /\ AtRest.pc = "idle" /\ IsSlot(AtRest) /\ OfExport(AtRest) = 0
    /\ \A s : OfSession(AtRest, s) = 0
    /\ "idle" \notin WithGlobalPermit /\ "idle" \notin WithSessionPermit
<1>1. AtRest.pc = "idle"
  BY Zenon DEF AtRest
<1>2. "idle" \notin WithGlobalPermit /\ "idle" \notin WithSessionPermit
  BY Zenon DEF WithGlobalPermit, WithSessionPermit
<1> QED BY <1>1, <1>2, Zenon DEF IsSlot, OfExport, OfSession

\* The permits in the record of a request are those of its step.
LEMMA SlotFacts ==
    ASSUME NEW k, IsSlot(k)
    PROVE  /\ k.pc \in WithGlobalPermit <=> (k # AtRest /\ k.globalPermit = 1)
           /\ k.pc \in WithSessionPermit <=> (k # AtRest /\ k.sessionPermit = 1)
<1>1. CASE k = AtRest
  BY <1>1, RestFacts, Zenon
<1>2. CASE IsTask(k)
  <2>1. k.pc # "idle" /\ (k.sessionPermit = 1 <=> k.pc \in WithSessionPermit)
        /\ (k.globalPermit = 1 <=> k.pc \in WithGlobalPermit)
    BY <1>2, Zenon DEF IsTask, HasPermits
  <2>2. k # AtRest
    BY <2>1, RestFacts, Zenon
  <2> QED BY <2>1, <2>2, Zenon
<1> QED BY <1>1, <1>2, Zenon DEF IsSlot

LEMMA Counts ==
    ASSUME NEW S, NEW x, IsFiniteSet(S), NEW T, NEW old, NEW new,
           old = IF x \in S THEN 1 ELSE 0,
           \/ T = S \cup {x} /\ new = 1
           \/ T = S \ {x} /\ new = 0
    PROVE  IsFiniteSet(T) /\ Cardinality(T) = Cardinality(S) - old + new /\ Cardinality(S) \in Nat
<1>1. Cardinality(S) \in Nat
  BY FS_CardinalityType, Zenon
<1>2. CASE T = S \cup {x} /\ new = 1
  <2>1. IsFiniteSet(T) /\ Cardinality(T) = IF x \in S THEN Cardinality(S) ELSE Cardinality(S) + 1
    BY <1>2, FS_AddElement, Zenon
  <2> QED BY <1>1, <1>2, <2>1
<1>3. CASE T = S \ {x} /\ new = 0
  <2>1. IsFiniteSet(T) /\ Cardinality(T) = IF x \in S THEN Cardinality(S) - 1 ELSE Cardinality(S)
    BY <1>3, FS_RemoveElement, Zenon
  <2> QED BY <1>1, <1>3, <2>1
<1> QED BY <1>2, <1>3, Zenon

LEMMA SlotTaken ==
    ASSUME TasksInv, NEW t \in Requesters, NEW k, running' = [running EXCEPT ![t] = k], IsSlot(k)
    PROVE  /\ TasksInv'
           /\ running'[t] = k /\ \A u \in Requesters : u # t => running'[u] = running[u]
           /\ Live' = IF k = AtRest THEN Live \ {t} ELSE Live \cup {t}
<1>1. running'[t] = k /\ \A u \in Requesters : u # t => running'[u] = running[u]
  BY Zenon DEF TasksInv
<1>2. running' = [u \in Requesters |-> running'[u]]
  BY Zenon DEF TasksInv
<1>3. \A u \in Requesters : IsSlot(running'[u])
  BY <1>1, Zenon DEF TasksInv
<1>4. Live' = IF k = AtRest THEN Live \ {t} ELSE Live \cup {t}
  BY <1>1, Zenon DEF Live
<1> QED BY <1>1, <1>2, <1>3, <1>4, Zenon DEF TasksInv

LEMMA HoldersMove ==
    ASSUME TasksInv, LedgerInv, NEW t \in Requesters, NEW k, IsSlot(k),
           running' = [running EXCEPT ![t] = k]
    PROVE  /\ IsFiniteSet(GlobalHolders')
           /\ Cardinality(GlobalHolders') = Cardinality(GlobalHolders) - OfExport(running[t]) + OfExport(k)
           /\ Cardinality(GlobalHolders) \in Nat
           /\ \A s \in Connections :
                 /\ IsFiniteSet(SessionHolders(s)')
                 /\ Cardinality(SessionHolders(s)')
                      = Cardinality(SessionHolders(s)) - OfSession(running[t], s) + OfSession(k, s)
                 /\ Cardinality(SessionHolders(s)) \in Nat
<1>1. /\ running'[t] = k /\ \A u \in Requesters : u # t => running'[u] = running[u]
      /\ Live' = IF k = AtRest THEN Live \ {t} ELSE Live \cup {t}
  BY SlotTaken, ZenonT(20)
<1>2. IsSlot(running[t])
  BY Zenon DEF TasksInv
<1>3. OfExport(running[t]) = IF t \in GlobalHolders THEN 1 ELSE 0
  <2>1. t \in GlobalHolders <=> running[t].pc \in WithGlobalPermit
    BY <1>2, SlotFacts, Zenon DEF GlobalHolders, Live
  <2> QED BY <2>1, Zenon DEF OfExport
<1>4. \/ GlobalHolders' = GlobalHolders \cup {t} /\ OfExport(k) = 1
      \/ GlobalHolders' = GlobalHolders \ {t} /\ OfExport(k) = 0
  <2>1. CASE k.pc \in WithGlobalPermit
    <3>1. k # AtRest /\ k.globalPermit = 1
      BY <2>1, SlotFacts, Zenon
    <3> QED BY <1>1, <2>1, <3>1, Zenon DEF GlobalHolders, Live, OfExport
  <2>2. CASE k.pc \notin WithGlobalPermit
    <3>1. k = AtRest \/ k.globalPermit # 1
      BY <2>2, SlotFacts, Zenon
    <3> QED BY <1>1, <2>2, <3>1, Zenon DEF GlobalHolders, Live, OfExport
  <2> QED BY <2>1, <2>2, Zenon
<1>5. /\ IsFiniteSet(GlobalHolders')
      /\ Cardinality(GlobalHolders') = Cardinality(GlobalHolders) - OfExport(running[t]) + OfExport(k)
      /\ Cardinality(GlobalHolders) \in Nat
  <2>1. IsFiniteSet(GlobalHolders)
    BY Zenon DEF LedgerInv
  <2> QED BY <1>3, <1>4, <2>1, Counts
<1>6. ASSUME NEW s \in Connections
      PROVE  /\ IsFiniteSet(SessionHolders(s)')
             /\ Cardinality(SessionHolders(s)')
                  = Cardinality(SessionHolders(s)) - OfSession(running[t], s) + OfSession(k, s)
             /\ Cardinality(SessionHolders(s)) \in Nat
  <2>1. OfSession(running[t], s) = IF t \in SessionHolders(s) THEN 1 ELSE 0
    <3>1. t \in SessionHolders(s) <=> running[t].pc \in WithSessionPermit /\ running[t].session = s
      BY <1>2, SlotFacts, Zenon DEF SessionHolders, Live
    <3> QED BY <3>1, Zenon DEF OfSession
  <2>2. \/ SessionHolders(s)' = SessionHolders(s) \cup {t} /\ OfSession(k, s) = 1
        \/ SessionHolders(s)' = SessionHolders(s) \ {t} /\ OfSession(k, s) = 0
    <3>1. CASE k.pc \in WithSessionPermit /\ k.session = s
      <4>1. k # AtRest /\ k.sessionPermit = 1
        BY <3>1, SlotFacts, Zenon
      <4> QED BY <1>1, <3>1, <4>1, Zenon DEF SessionHolders, Live, OfSession
    <3>2. CASE ~(k.pc \in WithSessionPermit /\ k.session = s)
      <4>1. k = AtRest \/ k.session # s \/ k.sessionPermit # 1
        BY <3>2, SlotFacts, Zenon
      <4> QED BY <1>1, <3>2, <4>1 DEF SessionHolders, Live, OfSession
    <3> QED BY <3>1, <3>2, Zenon
  <2>3. IsFiniteSet(SessionHolders(s))
    BY Zenon DEF LedgerInv
  <2> QED BY <2>1, <2>2, <2>3, Counts
<1> QED BY <1>5, <1>6, Zenon

\* A step is booked right when what it takes from the pools it has itself, or the
\* registry and the sessions have.
LEMMA Booked ==
    ASSUME RegistryInv, NEW t \in Requesters, NEW k, IsSlot(k),
           running' = [running EXCEPT ![t] = k], ShapeInv',
           globalFree' \in Nat, IsFiniteSet(registered'),
           globalFree' + Cardinality(registered') + OfExport(k)
             = globalFree + Cardinality(registered) + OfExport(running[t]),
           sessionFree' \in [Connections -> Nat],
           \A s \in Connections :
              /\ IsFiniteSet(known'[s])
              /\ sessionFree'[s] + Cardinality(known'[s]) + OfSession(k, s)
                   = sessionFree[s] + Cardinality(known[s]) + OfSession(running[t], s)
    PROVE  RegistryInv'
<1>0. TasksInv /\ LedgerInv
  BY Zenon DEF RegistryInv
<1>1. TasksInv'
  BY <1>0, SlotTaken, ZenonT(20)
<1>2. /\ IsFiniteSet(GlobalHolders')
      /\ Cardinality(GlobalHolders') = Cardinality(GlobalHolders) - OfExport(running[t]) + OfExport(k)
      /\ Cardinality(GlobalHolders) \in Nat
      /\ \A s \in Connections :
            /\ IsFiniteSet(SessionHolders(s)')
            /\ Cardinality(SessionHolders(s)')
                 = Cardinality(SessionHolders(s)) - OfSession(running[t], s) + OfSession(k, s)
            /\ Cardinality(SessionHolders(s)) \in Nat
  BY <1>0, HoldersMove, ZenonT(20)
<1>3. globalFree' + Cardinality(registered') + Cardinality(GlobalHolders') = MaxTotal
  <2>1. /\ Cardinality(registered) \in Nat /\ Cardinality(registered') \in Nat /\ globalFree \in Nat
        /\ OfExport(k) \in {0, 1} /\ OfExport(running[t]) \in {0, 1}
        /\ globalFree + Cardinality(registered) + Cardinality(GlobalHolders) = MaxTotal
    BY <1>0, FS_CardinalityType, Zenon DEF LedgerInv, OfExport
  <2> HIDE DEF OfExport, GlobalHolders
  <2> QED BY <1>2, <2>1
<1>4. ASSUME NEW s \in Connections
      PROVE  sessionFree'[s] + Cardinality(known'[s]) + Cardinality(SessionHolders(s)') = MaxKnown
  <2>1. /\ Cardinality(known[s]) \in Nat /\ Cardinality(known'[s]) \in Nat
        /\ sessionFree[s] \in Nat /\ sessionFree'[s] \in Nat
        /\ OfSession(k, s) \in {0, 1} /\ OfSession(running[t], s) \in {0, 1}
        /\ sessionFree[s] + Cardinality(known[s]) + Cardinality(SessionHolders(s)) = MaxKnown
    BY <1>0, FS_CardinalityType, Zenon DEF LedgerInv, OfSession
  <2> QED BY <1>2, <2>1
<1> QED BY <1>1, <1>2, <1>3, <1>4, Zenon DEF RegistryInv, LedgerInv

\* Nothing is taken or given back.
LEMMA Unbooked ==
    ASSUME RegistryInv, NEW t \in Requesters, NEW k, IsSlot(k),
           running' = [running EXCEPT ![t] = k], ShapeInv',
           UNCHANGED << registered, globalFree, known, sessionFree >>,
           OfExport(k) = OfExport(running[t]),
           \A s \in Connections : OfSession(k, s) = OfSession(running[t], s)
    PROVE  RegistryInv'
<1>1. /\ globalFree' \in Nat /\ IsFiniteSet(registered') /\ sessionFree' \in [Connections -> Nat]
      /\ \A s \in Connections : IsFiniteSet(known'[s])
  BY Zenon DEF RegistryInv, LedgerInv
<1> QED BY <1>1, Booked, ZenonT(20)

\* What a step does not touch keeps its shape.
LEMMA ShapeKept ==
    ASSUME ShapeInv, UNCHANGED << tree, registered, paths, refs, open, known >> PROVE ShapeInv'
BY Zenon DEF ShapeInv, RegisteredHasPath

LEMMA TreeKept ==
    ASSUME ShapeInv, UNCHANGED << registered, paths, refs, open, known >>,
           tree' \in [Paths -> Nodes \cup {NoNode}]
    PROVE  ShapeInv'
BY Zenon DEF ShapeInv, RegisteredHasPath

\* The steps that have no permit.
Plain(k) == k.pc \notin WithSessionPermit /\ k.pc \notin WithGlobalPermit

LEMMA PlainFacts ==
    ASSUME NEW k, Plain(k) PROVE OfExport(k) = 0 /\ \A s : OfSession(k, s) = 0
BY Zenon DEF Plain, OfExport, OfSession

LEMMA PlainRest == Plain(AtRest)
BY RestFacts, Zenon DEF Plain

\* From one step without permits to another.
LEMMA PlainStep ==
    ASSUME RegistryInv, NEW t \in Requesters, NEW k, IsSlot(k), Plain(k), Plain(running[t]),
           running' = [running EXCEPT ![t] = k], ShapeInv',
           UNCHANGED << registered, globalFree, known, sessionFree >>
    PROVE  RegistryInv'
<1>1. OfExport(k) = OfExport(running[t]) /\ \A s \in Connections : OfSession(k, s) = OfSession(running[t], s)
  BY PlainFacts, Zenon
<1> QED BY <1>1, Unbooked, ZenonT(20)

\* The permits of a request that ends are free again.
LEMMA EndStep ==
    ASSUME RegistryInv, NEW t \in Requesters, IsTask(running[t]), End(t), ShapeInv',
           UNCHANGED << registered, known >>
    PROVE  RegistryInv'
<1> DEFINE j == running[t]
<1>1. /\ running' = [running EXCEPT ![t] = AtRest] /\ globalFree' = globalFree + j.globalPermit
      /\ sessionFree' = [sessionFree EXCEPT ![j.session] = @ + j.sessionPermit]
  BY Zenon DEF End
<1>2. /\ j.session \in Connections /\ j.globalPermit = OfExport(j) /\ j.globalPermit \in {0, 1}
      /\ j.sessionPermit \in {0, 1} /\ (j.sessionPermit = 1 <=> j.pc \in WithSessionPermit)
  BY Zenon DEF IsTask, HasPermits, OfExport
<1> HIDE DEF j
<1>3. /\ globalFree \in Nat /\ sessionFree \in [Connections -> Nat] /\ IsFiniteSet(registered)
      /\ \A s \in Connections : IsFiniteSet(known[s])
  BY Zenon DEF RegistryInv, LedgerInv
<1>4. /\ globalFree' \in Nat /\ IsFiniteSet(registered') /\ sessionFree' \in [Connections -> Nat]
      /\ \A s \in Connections : IsFiniteSet(known'[s])
  BY <1>1, <1>2, <1>3
<1>5. globalFree' + Cardinality(registered') + OfExport(AtRest)
        = globalFree + Cardinality(registered) + OfExport(j)
  <2>1. Cardinality(registered) \in Nat
    BY <1>3, FS_CardinalityType, Zenon
  <2> QED BY <1>1, <1>2, <1>3, <2>1, RestFacts
<1>6. ASSUME NEW s \in Connections
      PROVE  sessionFree'[s] + Cardinality(known'[s]) + OfSession(AtRest, s)
               = sessionFree[s] + Cardinality(known[s]) + OfSession(j, s)
  <2>1. Cardinality(known[s]) \in Nat /\ sessionFree[s] \in Nat
    BY <1>3, FS_CardinalityType, Zenon
  <2>2. sessionFree'[s] = sessionFree[s] + OfSession(j, s)
    <3>1. OfSession(j, s) = IF j.session = s THEN j.sessionPermit ELSE 0
      BY <1>2, Zenon DEF OfSession
    <3> QED BY <1>1, <1>2, <1>3, <2>1, <3>1
  <2>3. OfSession(j, s) \in Nat
    BY Zenon DEF OfSession
  <2> QED BY <2>1, <2>2, <2>3, RestFacts
<1> QED BY <1>1, <1>4, <1>5, <1>6, RestFacts, Booked, ZenonT(20) DEF j

-----------------------------------------------------------------------------
(* Requests *)

\* A request that begins, with some of its fields set.
Begun(k, s, pc, op, node, path, other) ==
    /\ DOMAIN k = TaskFields /\ k.pc = pc /\ k.session = s /\ k.op = op /\ k.node = node
    /\ k.path = path /\ k.other = other /\ k.then = "end"
    /\ k.sessionPermit = 0 /\ k.globalPermit = 0

LEMMA TaskFacts ==
    ASSUME NEW s, NEW pc, NEW op, NEW node, NEW path
    PROVE  Begun(Task(s, pc, op, node, path), s, pc, op, node, path, path)
BY Zenon DEF Task, Begun, TaskFields

FirstSteps == {"lookup", "remember", "reserve", "unregister", "rename", "release"}

LEMMA FirstFacts ==
    ASSUME NEW k, k.pc \in FirstSteps
    PROVE  Plain(k) /\ k.pc # "idle"
BY Zenon DEF FirstSteps, Plain, WithSessionPermit, WithGlobalPermit

LEMMA BegunIsTask ==
    ASSUME NEW k, NEW s \in Connections, NEW pc \in FirstSteps, NEW op, NEW node, NEW path, NEW other,
           Begun(k, s, pc, op, node, path, other),
           pc \in WithNode => node \in Nodes,
           pc = "reserve" => op = "create",
           pc \in WithPath => other \in Paths,
           pc = "rename" \/ op = "link" => path \in Paths
    PROVE  IsTask(k) /\ Plain(k)
<1>1. Plain(k) /\ k.pc # "idle"
  BY FirstFacts, Zenon DEF Begun
<1>2. HasPermits(k)
  BY <1>1 DEF HasPermits, Plain, Begun
<1>3. HasFile(k)
  <2>1. pc \notin {"global", "again", "renamed"}
    BY Zenon DEF FirstSteps
  <2> QED BY <2>1, Zenon DEF HasFile, Begun
<1> QED BY <1>1, <1>2, <1>3, Zenon DEF IsTask, Begun

\* A request that begins and leaves the pools alone.
LEMMA StartStep ==
    ASSUME RegistryInv, NEW t \in Requesters, running[t] = AtRest, NEW k, IsTask(k), Plain(k),
           running' = [running EXCEPT ![t] = k], ShapeInv',
           UNCHANGED << registered, globalFree, known, sessionFree >>
    PROVE  RegistryInv'
BY PlainRest, PlainStep, ZenonT(20) DEF IsSlot

LEMMA LookingRequests ==
    ASSUME RegistryInv, NEW t \in Requesters, NEW s \in Connections,
           \/ \E n \in Nodes : Access(t, s, n) \/ OpenNode(t, s, n)
           \/ \E p \in Paths : Scan(t, s, p) \/ Create(t, s, p)
           \/ \E p \in Paths, n \in Nodes : Link(t, s, n, p)
    PROVE  RegistryInv'
<1>1. /\ UNCHANGED << tree, registered, paths, refs, globalFree, known, sessionFree, open >>
      /\ running[t] = AtRest
  BY Zenon DEF Access, OpenNode, Scan, Create, Link, Start, registry, connection
<1>2. ShapeInv' /\ ShapeInv
  BY <1>1, ShapeKept, Zenon DEF RegistryInv
<1>3. ASSUME NEW pc \in FirstSteps, NEW op, NEW node, NEW path,
             running' = [running EXCEPT ![t] = Task(s, pc, op, node, path)],
             pc \in WithNode => node \in Nodes,
             pc = "reserve" => op = "create",
             pc \in WithPath => path \in Paths,
             pc = "rename" \/ op = "link" => path \in Paths
      PROVE  RegistryInv'
  <2>1. IsTask(Task(s, pc, op, node, path)) /\ Plain(Task(s, pc, op, node, path))
    BY <1>3, TaskFacts, BegunIsTask, Zenon
  <2> QED BY <1>1, <1>2, <1>3, <2>1, StartStep, ZenonT(20)
<1>4. "lookup" \notin WithPath /\ "reserve" \notin WithNode /\ "lookup" \in FirstSteps
      /\ "remember" \in FirstSteps /\ "reserve" \in FirstSteps
  BY Zenon DEF WithPath, WithNode, FirstSteps
<1>5. ASSUME NEW n \in Nodes, Access(t, s, n) \/ OpenNode(t, s, n) PROVE RegistryInv'
  <2>1. \/ running' = [running EXCEPT ![t] = Task(s, "lookup", "access", n, NoNode)]
        \/ running' = [running EXCEPT ![t] = Task(s, "lookup", "open", n, NoNode)]
    BY <1>5, Zenon DEF Access, OpenNode, Start
  <2>2. "lookup" # "reserve" /\ "lookup" # "rename" /\ "access" # "link" /\ "open" # "link"
    BY Zenon
  <2> QED BY <1>3, <1>4, <2>1, <2>2, Zenon
<1>6. ASSUME NEW p \in Paths, Scan(t, s, p) PROVE RegistryInv'
  <2>1. /\ running' = [running EXCEPT ![t] = Task(s, "remember", "scan", tree[p], p)]
        /\ tree[p] \in Nodes
    BY <1>2, <1>6, Zenon DEF Scan, Start, ShapeInv
  <2>2. "remember" # "reserve"
    BY Zenon
  <2> QED BY <1>3, <1>4, <2>1, <2>2, Zenon
<1>7. ASSUME NEW p \in Paths, Create(t, s, p) PROVE RegistryInv'
  <2>1. running' = [running EXCEPT ![t] = Task(s, "reserve", "create", NoNode, p)]
    BY <1>7, Zenon DEF Create, Start
  <2> QED BY <1>3, <1>4, <2>1, Zenon
<1>8. ASSUME NEW p \in Paths, NEW n \in Nodes, Link(t, s, n, p) PROVE RegistryInv'
  <2>1. running' = [running EXCEPT ![t] = Task(s, "lookup", "link", n, p)]
    BY <1>8, Zenon DEF Link, Start
  <2>2. "lookup" # "reserve"
    BY Zenon
  <2> QED BY <1>3, <1>4, <2>1, <2>2, Zenon
<1> QED BY <1>5, <1>6, <1>7, <1>8, Zenon

LEMMA TreeRequests ==
    ASSUME RegistryInv, RegistryConstants, NEW t \in Requesters, NEW s \in Connections,
           NEW p \in Paths,
           Remove(t, s, p) \/ \E q \in Paths, mode \in RenameModes : Rename(t, s, p, q, mode)
    PROVE  RegistryInv'
<1>1. /\ UNCHANGED << registered, paths, refs, globalFree, known, sessionFree, open >>
      /\ running[t] = AtRest
  BY ZenonT(20) DEF Remove, Rename, Start, registry, connection
<1>2. ShapeInv
  BY Zenon DEF RegistryInv
<1>3. CASE Remove(t, s, p)
  <2> DEFINE k == Task(s, "unregister", "remove", tree[p], p)
  <2>1. running' = [running EXCEPT ![t] = k] /\ tree' = [tree EXCEPT ![p] = NoNode]
    BY <1>3, Zenon DEF Remove, Start
  <2>2. IsTask(k) /\ Plain(k)
    <3>1. Begun(k, s, "unregister", "remove", tree[p], p, p)
      BY TaskFacts, Zenon
    <3>2. "unregister" \in FirstSteps /\ "unregister" \notin WithNode /\ "unregister" \notin WithPath
      BY Zenon DEF FirstSteps, WithNode, WithPath
    <3> HIDE DEF k
    <3> QED BY <3>1, <3>2, BegunIsTask, Zenon
  <2> HIDE DEF k
  <2>3. tree' \in [Paths -> Nodes \cup {NoNode}]
    BY <1>2, <2>1, Zenon DEF ShapeInv
  <2>4. ShapeInv'
    BY <1>1, <1>2, <2>3, TreeKept, Zenon
  <2> QED BY <1>1, <2>1, <2>2, <2>4, StartStep, ZenonT(20)
<1>4. ASSUME NEW q \in Paths, NEW mode \in RenameModes, Rename(t, s, p, q, mode) PROVE RegistryInv'
  <2> DEFINE j == Task(s, "rename", "rename", tree[p], p)
             k == [j EXCEPT !.other = q, !.mode = mode, !.target = tree[q]]
  <2>1. running' = [running EXCEPT ![t] = k] /\ UNCHANGED tree
    BY <1>4, ZenonT(20) DEF Rename, Start
  <2>2. Begun(j, s, "rename", "rename", tree[p], p, p)
    BY TaskFacts, Zenon
  <2> HIDE DEF j
  <2>3. Begun(k, s, "rename", "rename", tree[p], p, q)
    BY <2>2, Zenon DEF Begun, TaskFields
  <2> HIDE DEF k
  <2>4. "rename" \in FirstSteps /\ "rename" \notin WithNode
    BY Zenon DEF FirstSteps, WithNode
  <2>5. IsTask(k) /\ Plain(k)
    BY <2>3, <2>4, BegunIsTask, Zenon
  <2>6. ShapeInv'
    BY <1>1, <1>2, <2>1, ShapeKept, Zenon
  <2> QED BY <1>1, <2>1, <2>5, <2>6, StartStep, ZenonT(20)
<1> QED BY <1>3, <1>4, Zenon

-----------------------------------------------------------------------------
(* node_snapshot, discover_node, remember, track_node *)

LEMMA LiveTask ==
    ASSUME RegistryInv, NEW t \in Requesters, running[t] # AtRest
    PROVE  IsTask(running[t]) /\ ShapeInv
BY Zenon DEF RegistryInv, TasksInv, IsSlot

\* The steps without a permit and, among them, those that need no path.
PlainSteps == {"lookup", "discover", "remember", "snapshot", "track", "permit", "reserve",
               "finish", "created", "renamed", "rename", "release", "unregister"}
WalkSteps == {"lookup", "discover", "snapshot", "track", "permit", "finish", "created"}

LEMMA StepNames ==
    /\ PlainSteps \cap (WithSessionPermit \cup WithGlobalPermit \cup {"idle"}) = {}
    /\ WalkSteps \subseteq PlainSteps /\ WalkSteps \subseteq WithNode /\ WalkSteps \cap WithPath = {}
    /\ WalkSteps \cap {"reserve", "global", "again", "rename", "renamed"} = {}
<1>1. PlainSteps \cap (WithSessionPermit \cup WithGlobalPermit \cup {"idle"}) = {}
  BY Zenon DEF PlainSteps, WithSessionPermit, WithGlobalPermit
<1>2. WalkSteps \subseteq PlainSteps /\ WalkSteps \subseteq WithNode /\ WalkSteps \cap WithPath = {}
  BY Zenon DEF WalkSteps, PlainSteps, WithNode, WithPath
<1>3. WalkSteps \cap {"reserve", "global", "again", "rename", "renamed"} = {}
  BY Zenon DEF WalkSteps
<1> QED BY <1>1, <1>2, <1>3, Zenon

LEMMA PlainNames == ASSUME NEW k, k.pc \in PlainSteps PROVE Plain(k) /\ k.pc # "idle"
BY StepNames, Zenon DEF Plain

\* A request on its way to a node it has in hand.
LEMMA WalkTask ==
    ASSUME NEW j, IsTask(j), NEW k, DOMAIN k = TaskFields, k.pc \in WalkSteps,
           k.session = j.session, k.node \in Nodes, k.sessionPermit = 0, k.globalPermit = 0,
           k.then \in {"end", "snapshot", "finish", "created", "lookup"},
           k.op = "link" => k.path \in Paths
    PROVE  IsTask(k) /\ Plain(k)
<1>1. Plain(k) /\ k.pc # "idle"
  BY PlainNames, StepNames, Zenon
<1>2. HasPermits(k)
  BY <1>1 DEF HasPermits, Plain
<1>3. HasFile(k)
  BY StepNames, Zenon DEF HasFile
<1> QED BY <1>1, <1>2, <1>3, Zenon DEF IsTask

LEMMA PlainTask ==
    ASSUME NEW j, IsTask(j), Plain(j) PROVE j.sessionPermit = 0 /\ j.globalPermit = 0
BY Zenon DEF IsTask, HasPermits, Plain

LEMMA LookupStep ==
    ASSUME RegistryInv, NEW t \in Requesters, running[t] # AtRest, Lookup(t) PROVE RegistryInv'
<1> DEFINE j == running[t]
           k == [j EXCEPT !.pc = IF j.node \in registered THEN "snapshot" ELSE "discover"]
<1>1. IsTask(j) /\ ShapeInv
  BY LiveTask, Zenon
<1>2. /\ j.pc = "lookup" /\ running' = [running EXCEPT ![t] = k]
      /\ UNCHANGED << tree, registered, paths, refs, globalFree, known, sessionFree, open >>
  BY Zenon DEF Lookup, Go, registry, connection
<1> HIDE DEF j
<1>3. j.pc \in WalkSteps /\ Plain(j)
  <2>1. j.pc \in WalkSteps
    BY <1>2, Zenon DEF WalkSteps
  <2> QED BY <2>1, PlainNames, StepNames, Zenon
<1>4. IsTask(k) /\ Plain(k)
  <2>1. /\ DOMAIN j = TaskFields /\ j.node \in Nodes /\ (j.op = "link" => j.path \in Paths)
        /\ j.then \in {"end", "snapshot", "finish", "created", "lookup"}
    BY <1>1, <1>3, StepNames, Zenon DEF IsTask, HasFile
  <2>2. j.sessionPermit = 0 /\ j.globalPermit = 0
    BY <1>1, <1>3, PlainTask, Zenon
  <2>3. /\ DOMAIN k = TaskFields /\ k.session = j.session /\ k.node = j.node /\ k.op = j.op
        /\ k.path = j.path /\ k.then = j.then /\ k.sessionPermit = 0 /\ k.globalPermit = 0
    BY <2>1, <2>2, Zenon DEF TaskFields
  <2>4. k.pc \in WalkSteps
    BY <2>1, Zenon DEF TaskFields, WalkSteps
  <2> HIDE DEF k
  <2> QED BY <1>1, <2>1, <2>3, <2>4, WalkTask, Zenon
<1> HIDE DEF k
<1>5. ShapeInv'
  BY <1>1, <1>2, ShapeKept, Zenon
<1> QED BY <1>2, <1>3, <1>4, <1>5, PlainStep, ZenonT(20) DEF IsSlot, j

LEMMA DiscoverStep ==
    ASSUME RegistryInv, NEW t \in Requesters, running[t] # AtRest, Discover(t) PROVE RegistryInv'
<1> DEFINE j == running[t]
<1>1. IsTask(j) /\ ShapeInv
  BY LiveTask, Zenon
<1>2. j.pc = "discover" /\ UNCHANGED << tree, registered, paths, refs, known, open >>
  BY ZenonT(20) DEF Discover
<1>3. ShapeInv'
  BY <1>1, <1>2, ShapeKept, Zenon
<1>4. CASE End(t)
  BY <1>1, <1>2, <1>3, <1>4, EndStep, Zenon
<1>5. ASSUME NEW p \in Paths, UNCHANGED << sessionFree, globalFree >>,
             running' = [running EXCEPT ![t].pc = "remember", ![t].other = p, ![t].then = "snapshot"]
      PROVE  RegistryInv'
  <2> DEFINE k == [j EXCEPT !.pc = "remember", !.other = p, !.then = "snapshot"]
  <2>1. running' = [running EXCEPT ![t] = k]
    BY <1>5, ZenonT(20) DEF RegistryInv, TasksInv
  <2> HIDE DEF j
  <2>2. j.pc \in WalkSteps
    BY <1>2, Zenon DEF WalkSteps
  <2>3. Plain(j) /\ j.pc \in WithNode
    BY <2>2, PlainNames, StepNames, Zenon
  <2>4. /\ DOMAIN j = TaskFields /\ j.node \in Nodes /\ (j.op = "link" => j.path \in Paths)
        /\ j.session \in Connections
    BY <1>1, <2>3, Zenon DEF IsTask, HasFile
  <2>5. j.sessionPermit = 0 /\ j.globalPermit = 0
    BY <1>1, <2>3, PlainTask, Zenon
  <2>6. /\ DOMAIN k = TaskFields /\ k.session = j.session /\ k.node = j.node /\ k.op = j.op
        /\ k.path = j.path /\ k.then = "snapshot" /\ k.sessionPermit = 0 /\ k.globalPermit = 0
        /\ k.pc = "remember" /\ k.other = p
    BY <2>4, <2>5, Zenon DEF TaskFields
  <2> HIDE DEF k
  <2>7. IsTask(k) /\ Plain(k)
    <3>1. k.pc \in PlainSteps
      BY <2>6, Zenon DEF PlainSteps
    <3>2. Plain(k) /\ HasPermits(k)
      BY <2>6, <3>1, PlainNames DEF HasPermits, Plain
    <3>3. HasFile(k)
      BY <2>4, <2>6, Zenon DEF HasFile
    <3> QED BY <2>4, <2>6, <3>2, <3>3, Zenon DEF IsTask
  <2> QED BY <1>2, <1>3, <1>5, <2>1, <2>3, <2>7, PlainStep, ZenonT(20) DEF IsSlot, j
<1> QED BY <1>4, <1>5, ZenonT(20) DEF Discover

\* What a request without a permit has in its record.
LEMMA PlainTaskFacts ==
    ASSUME NEW j, IsTask(j), j.pc \in PlainSteps
    PROVE  /\ Plain(j) /\ DOMAIN j = TaskFields /\ j.session \in Connections
           /\ j.sessionPermit = 0 /\ j.globalPermit = 0
           /\ (j.op = "link" => j.path \in Paths)
           /\ j.then \in {"end", "snapshot", "finish", "created", "lookup"}
<1>1. Plain(j)
  BY PlainNames, Zenon
<1>2. j.sessionPermit = 0 /\ j.globalPermit = 0
  BY <1>1, PlainTask, Zenon
<1> QED BY <1>1, <1>2, Zenon DEF IsTask, HasFile

LEMMA RememberStep ==
    ASSUME RegistryInv, NEW t \in Requesters, running[t] # AtRest, Remember(t) PROVE RegistryInv'
<1> DEFINE j == running[t]
           n == j.node
<1>1. IsTask(j) /\ ShapeInv
  BY LiveTask, Zenon
<1>2. /\ j.pc = "remember"
      /\ UNCHANGED << tree, registered, refs, globalFree, known, sessionFree, open >>
  BY Zenon DEF Remember, connection
<1>3. n \in Nodes /\ j.other \in Paths
  BY <1>1, <1>2, Zenon DEF IsTask, HasFile, WithNode, WithPath
<1>4. j.pc \in PlainSteps
  BY <1>2, Zenon DEF PlainSteps
<1>5. /\ Plain(j) /\ DOMAIN j = TaskFields /\ j.session \in Connections
      /\ j.sessionPermit = 0 /\ j.globalPermit = 0
      /\ (j.op = "link" => j.path \in Paths)
      /\ j.then \in {"end", "snapshot", "finish", "created", "lookup"}
  BY <1>1, <1>4, PlainTaskFacts, Zenon
<1>6. CASE n \in registered
  <2> DEFINE k == [j EXCEPT !.pc = "track", !.other = NoNode]
  <2>1. running' = [running EXCEPT ![t] = k]
    BY <1>6, Zenon DEF Remember, RegistryInv, TasksInv
  <2>2. paths' = [paths EXCEPT ![n] = @ \cup {j.other}]
    BY <1>6, Zenon DEF Remember
  <2> HIDE DEF j
  <2>3. /\ DOMAIN k = TaskFields /\ k.session = j.session /\ k.node = n /\ k.op = j.op
        /\ k.path = j.path /\ k.then = j.then /\ k.sessionPermit = 0 /\ k.globalPermit = 0
        /\ k.pc = "track"
    BY <1>5, Zenon DEF TaskFields
  <2> HIDE DEF k
  <2>4. k.pc \in WalkSteps
    BY <2>3, Zenon DEF WalkSteps
  <2>5. IsTask(k) /\ Plain(k)
    BY <1>1, <1>3, <1>5, <2>3, <2>4, WalkTask, Zenon
  <2> HIDE DEF n
  <2>6. ShapeInv'
    BY <1>1, <1>2, <1>3, <1>6, <2>2, Zenon DEF ShapeInv, RegisteredHasPath
  <2> QED BY <1>2, <1>5, <2>1, <2>5, <2>6, PlainStep, ZenonT(20) DEF IsSlot, j
<1>7. CASE n \notin registered
  <2> DEFINE k == [j EXCEPT !.pc = "reserve"]
  <2>1. running' = [running EXCEPT ![t] = k] /\ UNCHANGED paths
    BY <1>7, Zenon DEF Remember, Go
  <2> HIDE DEF j
  <2>3. /\ DOMAIN k = TaskFields /\ k.session = j.session /\ k.node = n /\ k.op = j.op
        /\ k.path = j.path /\ k.then = j.then /\ k.sessionPermit = 0 /\ k.globalPermit = 0
        /\ k.pc = "reserve" /\ k.other = j.other
    BY <1>5, Zenon DEF TaskFields
  <2> HIDE DEF k, n
  <2>4. k.pc \in PlainSteps
    BY <2>3, Zenon DEF PlainSteps
  <2>5. Plain(k) /\ HasPermits(k)
    BY <2>3, <2>4, PlainNames DEF HasPermits, Plain
  <2>6. HasFile(k)
    BY <1>3, <1>5, <2>3, Zenon DEF HasFile
  <2>7. IsTask(k)
    BY <1>5, <2>3, <2>5, <2>6, Zenon DEF IsTask
  <2>8. ShapeInv'
    BY <1>1, <1>2, <2>1, ShapeKept, Zenon
  <2> QED BY <1>2, <1>5, <2>1, <2>5, <2>7, <2>8, PlainStep, ZenonT(20) DEF IsSlot, j
<1> QED BY <1>6, <1>7, Zenon

LEMMA SnapshotStep ==
    ASSUME RegistryInv, NEW t \in Requesters, running[t] # AtRest, Snapshot(t) PROVE RegistryInv'
<1> DEFINE j == running[t]
           n == j.node
<1>1. IsTask(j) /\ ShapeInv
  BY LiveTask, Zenon
<1>2. j.pc = "snapshot" /\ UNCHANGED << tree, registered, paths, refs, known, open >>
  BY Zenon DEF Snapshot
<1>3. ShapeInv'
  BY <1>1, <1>2, ShapeKept, Zenon
<1>4. j.pc \in PlainSteps /\ n \in Nodes
  BY <1>1, <1>2, Zenon DEF PlainSteps, IsTask, HasFile, WithNode
<1>5. /\ Plain(j) /\ DOMAIN j = TaskFields /\ j.session \in Connections
      /\ j.sessionPermit = 0 /\ j.globalPermit = 0
      /\ (j.op = "link" => j.path \in Paths)
  BY <1>1, <1>4, PlainTaskFacts, Zenon
<1>6. CASE n \notin registered
  <2>1. End(t)
    BY <1>6, Zenon DEF Snapshot
  <2> QED BY <1>1, <1>2, <1>3, <2>1, EndStep, Zenon
<1>7. CASE n \in registered
  <2> DEFINE k == IF j.op = "access" THEN [j EXCEPT !.pc = "track", !.then = "end"]
                  ELSE [j EXCEPT !.pc = "track", !.then = "finish", !.snapshot = paths[n]]
  <2>1. running' = [running EXCEPT ![t] = k] /\ UNCHANGED << sessionFree, globalFree >>
    BY <1>7, Zenon DEF Snapshot
  <2> HIDE DEF j
  <2>2. /\ DOMAIN k = TaskFields /\ k.session = j.session /\ k.node = n /\ k.op = j.op
        /\ k.path = j.path /\ k.then \in {"end", "finish"} /\ k.sessionPermit = 0 /\ k.globalPermit = 0
        /\ k.pc = "track"
    <3>1. CASE j.op = "access"
      BY <1>5, <3>1, Zenon DEF TaskFields
    <3>2. CASE j.op # "access"
      BY <1>5, <3>2, Zenon DEF TaskFields
    <3> QED BY <3>1, <3>2, Zenon
  <2> HIDE DEF k, n
  <2>3. k.pc \in WalkSteps
    BY <2>2, Zenon DEF WalkSteps
  <2>4. IsTask(k) /\ Plain(k)
    BY <1>1, <1>4, <1>5, <2>2, <2>3, WalkTask, Zenon
  <2> QED BY <1>2, <1>3, <1>5, <2>1, <2>4, PlainStep, ZenonT(20) DEF IsSlot, j
<1> QED BY <1>6, <1>7, Zenon

\* Where a request goes once its node is tracked.
LEMMA ProceedFacts ==
    ASSUME NEW j, IsTask(j), j.node \in Nodes, j.globalPermit = 0
    PROVE  IsSlot(Proceed(j)) /\ Plain(Proceed(j))
<1>1. CASE j.then = "end"
  BY <1>1, RestFacts, PlainRest, Zenon DEF Proceed
<1>2. CASE j.then # "end"
  <2> DEFINE k == [j EXCEPT !.pc = j.then, !.sessionPermit = 0]
  <2>1. /\ DOMAIN j = TaskFields /\ (j.op = "link" => j.path \in Paths)
        /\ j.then \in {"end", "snapshot", "finish", "created", "lookup"}
    BY Zenon DEF IsTask, HasFile
  <2>2. /\ DOMAIN k = TaskFields /\ k.session = j.session /\ k.node = j.node /\ k.op = j.op
        /\ k.path = j.path /\ k.then = j.then /\ k.sessionPermit = 0 /\ k.globalPermit = 0
        /\ k.pc = j.then
    BY <2>1, Zenon DEF TaskFields
  <2>3. Proceed(j) = k
    BY <1>2, Zenon DEF Proceed
  <2> HIDE DEF k
  <2>4. k.pc \in WalkSteps
    BY <1>2, <2>1, <2>2, Zenon DEF WalkSteps
  <2> QED BY <2>1, <2>2, <2>3, <2>4, WalkTask, Zenon DEF IsSlot
<1> QED BY <1>1, <1>2, Zenon

LEMMA TrackStep ==
    ASSUME RegistryInv, NEW t \in Requesters, running[t] # AtRest, Track(t) PROVE RegistryInv'
<1> DEFINE j == running[t]
           k == IF j.node \in known[j.session] THEN Proceed(j) ELSE [j EXCEPT !.pc = "permit"]
<1>1. IsTask(j) /\ ShapeInv
  BY LiveTask, Zenon
<1>2. /\ j.pc = "track" /\ running' = [running EXCEPT ![t] = k]
      /\ UNCHANGED << tree, registered, paths, refs, globalFree, known, sessionFree, open >>
  BY Zenon DEF Track, registry, connection
<1> HIDE DEF j
<1>3. j.pc \in PlainSteps /\ j.node \in Nodes
  BY <1>1, <1>2, Zenon DEF PlainSteps, IsTask, HasFile, WithNode
<1>4. /\ Plain(j) /\ DOMAIN j = TaskFields /\ j.session \in Connections
      /\ j.sessionPermit = 0 /\ j.globalPermit = 0
      /\ (j.op = "link" => j.path \in Paths)
      /\ j.then \in {"end", "snapshot", "finish", "created", "lookup"}
  BY <1>1, <1>3, PlainTaskFacts, Zenon
<1>5. IsSlot(k) /\ Plain(k)
  <2>1. CASE j.node \in known[j.session]
    BY <1>1, <1>3, <1>4, <2>1, ProceedFacts, Zenon
  <2>2. CASE j.node \notin known[j.session]
    <3> DEFINE h == [j EXCEPT !.pc = "permit"]
    <3>1. /\ DOMAIN h = TaskFields /\ h.session = j.session /\ h.node = j.node /\ h.op = j.op
          /\ h.path = j.path /\ h.then = j.then /\ h.sessionPermit = 0 /\ h.globalPermit = 0
          /\ h.pc = "permit"
      BY <1>4, Zenon DEF TaskFields
    <3>2. k = h
      BY <2>2, Zenon
    <3> HIDE DEF h, k
    <3>3. h.pc \in WalkSteps
      BY <3>1, Zenon DEF WalkSteps
    <3> QED BY <1>1, <1>3, <1>4, <3>1, <3>2, <3>3, WalkTask DEF IsSlot
  <2> QED BY <2>1, <2>2, Zenon
<1> HIDE DEF k
<1>6. ShapeInv'
  BY <1>1, <1>2, ShapeKept, Zenon
<1> QED BY <1>2, <1>4, <1>5, <1>6, PlainStep, ZenonT(20) DEF j

-----------------------------------------------------------------------------
(* Permits *)

LEMMA LedgerFacts ==
    ASSUME RegistryInv
    PROVE  /\ globalFree \in Nat /\ sessionFree \in [Connections -> Nat]
           /\ IsFiniteSet(registered) /\ Cardinality(registered) \in Nat
           /\ \A s \in Connections : IsFiniteSet(known[s]) /\ Cardinality(known[s]) \in Nat
BY FS_CardinalityType, Zenon DEF RegistryInv, LedgerInv

\* A step at which a request has no permit, one with that of its session only, and one
\* with both.
LEMMA BookOf ==
    /\ \A k, s : k.pc \in {"reserve", "permit"} => OfExport(k) = 0 /\ OfSession(k, s) = 0
    /\ \A k, s : k.pc \in {"global", "again", "admit"} =>
                    OfExport(k) = 0 /\ OfSession(k, s) = IF k.session = s THEN 1 ELSE 0
    /\ \A k, s : k.pc \in {"create", "insert"} =>
                    OfExport(k) = 1 /\ OfSession(k, s) = IF k.session = s THEN 1 ELSE 0
BY Zenon DEF OfExport, OfSession, WithGlobalPermit, WithSessionPermit

LEMMA TakeSessionPermitStep ==
    ASSUME RegistryInv, NEW t \in Requesters, running[t] # AtRest, TakeSessionPermit(t)
    PROVE  RegistryInv'
<1> DEFINE j == running[t]
           k == [j EXCEPT !.sessionPermit = 1,
                          !.pc = IF j.pc = "reserve" THEN "global" ELSE "admit"]
           s0 == j.session
<1>1. IsTask(j) /\ ShapeInv
  BY LiveTask, Zenon
<1>2. /\ j.pc \in {"reserve", "permit"} /\ sessionFree[s0] > 0
      /\ sessionFree' = [sessionFree EXCEPT ![s0] = @ - 1]
      /\ UNCHANGED << tree, registered, paths, refs, globalFree, known, open >>
  BY Zenon DEF TakeSessionPermit, registry
<1>3. running' = [running EXCEPT ![t] = k]
  BY ZenonT(20) DEF TakeSessionPermit, RegistryInv, TasksInv
<1> HIDE DEF j
<1>4. j.pc \in PlainSteps
  BY <1>2, Zenon DEF PlainSteps
<1>5. /\ DOMAIN j = TaskFields /\ s0 \in Connections /\ j.sessionPermit = 0 /\ j.globalPermit = 0
      /\ (j.op = "link" => j.path \in Paths)
      /\ j.then \in {"end", "snapshot", "finish", "created", "lookup"}
  BY <1>1, <1>4, PlainTaskFacts, Zenon
<1>6. /\ DOMAIN k = TaskFields /\ k.session = s0 /\ k.node = j.node /\ k.op = j.op
      /\ k.path = j.path /\ k.then = j.then /\ k.sessionPermit = 1 /\ k.globalPermit = 0
      /\ k.other = j.other /\ k.pc = IF j.pc = "reserve" THEN "global" ELSE "admit"
  BY <1>5, Zenon DEF TaskFields
<1> HIDE DEF k
<1>7. HasPermits(k)
  BY <1>6 DEF HasPermits, WithSessionPermit, WithGlobalPermit
<1>8. HasFile(k)
  <2>1. CASE j.pc = "reserve"
    <3>1. (k.op = "create" \/ k.node \in Nodes) /\ k.other \in Paths
      BY <1>1, <1>6, <2>1, Zenon DEF IsTask, HasFile, WithPath
    <3>2. k.pc = "global" /\ k.pc \notin WithNode /\ k.pc \notin {"rename", "renamed"}
      BY <1>6, <2>1, Zenon DEF WithNode
    <3> QED BY <1>5, <1>6, <3>1, <3>2, Zenon DEF HasFile
  <2>2. CASE j.pc = "permit"
    <3>1. k.node \in Nodes
      BY <1>1, <1>6, <2>2, Zenon DEF IsTask, HasFile, WithNode
    <3>2. k.pc = "admit" /\ k.pc \notin WithPath /\ k.pc \notin {"rename", "renamed"}
      BY <1>6, <2>2, Zenon DEF WithPath
    <3> QED BY <1>5, <1>6, <3>1, <3>2, Zenon DEF HasFile
  <2> QED BY <1>2, <2>1, <2>2, Zenon
<1>9. IsTask(k) /\ k.pc \in {"global", "admit"}
  BY <1>5, <1>6, <1>7, <1>8, Zenon DEF IsTask
<1>10. ShapeInv'
  BY <1>1, <1>2, ShapeKept, Zenon
<1>11. /\ globalFree \in Nat /\ sessionFree \in [Connections -> Nat]
       /\ IsFiniteSet(registered) /\ Cardinality(registered) \in Nat
       /\ \A s \in Connections : IsFiniteSet(known[s]) /\ Cardinality(known[s]) \in Nat
  BY LedgerFacts, Zenon
<1>12. sessionFree' \in [Connections -> Nat]
  BY <1>2, <1>5, <1>11
<1>13. globalFree' + Cardinality(registered') + OfExport(k)
         = globalFree + Cardinality(registered) + OfExport(j)
  BY <1>2, <1>9, BookOf, Zenon
<1>14. ASSUME NEW s \in Connections
       PROVE  sessionFree'[s] + Cardinality(known'[s]) + OfSession(k, s)
                = sessionFree[s] + Cardinality(known[s]) + OfSession(j, s)
  <2>1. OfSession(j, s) = 0 /\ OfSession(k, s) = IF s0 = s THEN 1 ELSE 0
    BY <1>2, <1>6, <1>9, BookOf
  <2> QED BY <1>2, <1>5, <1>11, <2>1
<1>15. IsSlot(k) /\ globalFree' \in Nat /\ IsFiniteSet(registered') /\ \A s \in Connections : IsFiniteSet(known'[s])
  BY <1>2, <1>9, <1>11, Zenon DEF IsSlot
<1> QED BY <1>3, <1>10, <1>12, <1>13, <1>14, <1>15, Booked, Zenon DEF j

LEMMA EvictSessionNodeStep ==
    ASSUME RegistryInv, NEW t \in Requesters, running[t] # AtRest, EvictSessionNode(t)
    PROVE  RegistryInv'
<1> DEFINE j == running[t]
           s0 == j.session
<1>1. IsTask(j) /\ ShapeInv
  BY LiveTask, Zenon
<1>2. UNCHANGED << tree, registered, paths, globalFree, open, running >>
  BY Zenon DEF EvictSessionNode
<1>3. PICK n \in known[s0] :
            /\ known' = [known EXCEPT ![s0] = @ \ {n}]
            /\ sessionFree' = [sessionFree EXCEPT ![s0] = @ + 1]
            /\ refs' = [refs EXCEPT ![n] = IF n \in registered /\ @ > 0 THEN @ - 1 ELSE @]
  BY ZenonT(20) DEF EvictSessionNode, Unpinned
<1>4. s0 \in Connections /\ IsSlot(j)
  BY <1>1, Zenon DEF IsTask, IsSlot
<1>5. running' = [running EXCEPT ![t] = j]
  BY <1>2, Zenon DEF RegistryInv, TasksInv
<1> HIDE DEF j, s0
<1>6. /\ globalFree \in Nat /\ sessionFree \in [Connections -> Nat]
      /\ IsFiniteSet(registered) /\ Cardinality(registered) \in Nat
      /\ \A s \in Connections : IsFiniteSet(known[s]) /\ Cardinality(known[s]) \in Nat
  BY LedgerFacts, Zenon
<1>7. known \in [Connections -> SUBSET Nodes] /\ n \in Nodes
  BY <1>1, <1>4, <1>3, Zenon DEF ShapeInv
<1>8. ShapeInv'
  BY <1>1, <1>2, <1>3, <1>4, <1>7 DEF ShapeInv, RegisteredHasPath
<1>9. IsFiniteSet(known[s0] \ {n}) /\ Cardinality(known[s0] \ {n}) = Cardinality(known[s0]) - 1
  BY <1>3, <1>4, <1>6, FS_RemoveElement, Zenon
<1>10. sessionFree' \in [Connections -> Nat]
  BY <1>3, <1>4, <1>6
<1>11. ASSUME NEW s \in Connections
       PROVE  /\ IsFiniteSet(known'[s])
              /\ sessionFree'[s] + Cardinality(known'[s]) + OfSession(j, s)
                   = sessionFree[s] + Cardinality(known[s]) + OfSession(j, s)
  <2>1. CASE s = s0
    <3>1. known'[s] = known[s] \ {n} /\ sessionFree'[s] = sessionFree[s] + 1
      BY <1>3, <1>4, <1>6, <1>7, <2>1
    <3>2. sessionFree[s] + 1 + (Cardinality(known[s]) - 1) = sessionFree[s] + Cardinality(known[s])
      BY <1>6
    <3> QED BY <1>9, <2>1, <3>1, <3>2, Zenon
  <2>2. CASE s # s0
    <3>1. known'[s] = known[s] /\ sessionFree'[s] = sessionFree[s]
      BY <1>3, <1>4, <1>6, <1>7, <2>2
    <3> QED BY <1>6, <3>1, Zenon
  <2> QED BY <2>1, <2>2, Zenon
<1> QED BY <1>2, <1>4, <1>5, <1>6, <1>8, <1>10, <1>11, Booked, ZenonT(20) DEF j

LEMMA SessionFullStep ==
    ASSUME RegistryInv, NEW t \in Requesters, running[t] # AtRest, SessionFull(t) \/ GlobalFull(t)
    PROVE  RegistryInv'
<1>1. IsTask(running[t]) /\ ShapeInv
  BY LiveTask, Zenon
<1>2. End(t) /\ UNCHANGED << tree, registered, paths, refs, known, open >>
  BY Zenon DEF SessionFull, GlobalFull
<1> QED BY <1>1, <1>2, ShapeKept, EndStep, Zenon

LEMMA TakeGlobalPermitStep ==
    ASSUME RegistryInv, NEW t \in Requesters, running[t] # AtRest, TakeGlobalPermit(t)
    PROVE  RegistryInv'
<1> DEFINE j == running[t]
           k == [j EXCEPT !.globalPermit = 1,
                          !.pc = IF j.op = "create" THEN "create" ELSE "insert"]
<1>1. IsTask(j) /\ ShapeInv
  BY LiveTask, Zenon
<1>2. /\ j.pc \in {"global", "again"} /\ globalFree > 0 /\ globalFree' = globalFree - 1
      /\ UNCHANGED << tree, registered, paths, refs, known, sessionFree, open >>
  BY Zenon DEF TakeGlobalPermit, connection
<1>3. running' = [running EXCEPT ![t] = k]
  BY ZenonT(20) DEF TakeGlobalPermit, RegistryInv, TasksInv
<1> HIDE DEF j
<1>4. /\ DOMAIN j = TaskFields /\ j.session \in Connections
      /\ (j.op = "link" => j.path \in Paths)
      /\ j.then \in {"end", "snapshot", "finish", "created", "lookup"}
  BY <1>1, Zenon DEF IsTask, HasFile
<1>5. /\ j.sessionPermit = 1 /\ (j.op = "create" \/ j.node \in Nodes) /\ j.other \in Paths
  BY <1>1, <1>2, Zenon DEF IsTask, HasFile, HasPermits, WithSessionPermit, WithPath
<1>6. /\ DOMAIN k = TaskFields /\ k.session = j.session /\ k.node = j.node /\ k.op = j.op
      /\ k.path = j.path /\ k.then = j.then /\ k.sessionPermit = 1 /\ k.globalPermit = 1
      /\ k.other = j.other /\ k.pc = IF j.op = "create" THEN "create" ELSE "insert"
  BY <1>4, <1>5, Zenon DEF TaskFields
<1> HIDE DEF k
<1>7. HasPermits(k)
  BY <1>6, Zenon DEF HasPermits, WithSessionPermit, WithGlobalPermit
<1>8. HasFile(k)
  <2>1. k.pc \notin {"reserve", "global", "again", "rename", "renamed"}
    BY <1>6, Zenon
  <2>2. k.pc \in WithNode => k.node \in Nodes
    BY <1>5, <1>6, Zenon DEF WithNode
  <2> QED BY <1>4, <1>5, <1>6, <2>1, <2>2, Zenon DEF HasFile
<1>9. IsTask(k) /\ k.pc \in {"create", "insert"}
  BY <1>4, <1>6, <1>7, <1>8, Zenon DEF IsTask
<1>10. ShapeInv'
  BY <1>1, <1>2, ShapeKept, Zenon
<1>11. /\ globalFree \in Nat /\ sessionFree \in [Connections -> Nat]
       /\ IsFiniteSet(registered) /\ Cardinality(registered) \in Nat
       /\ \A s \in Connections : IsFiniteSet(known[s]) /\ Cardinality(known[s]) \in Nat
  BY LedgerFacts, Zenon
<1>12. globalFree' + Cardinality(registered') + OfExport(k)
         = globalFree + Cardinality(registered) + OfExport(j)
  <2>1. OfExport(j) = 0 /\ OfExport(k) = 1
    BY <1>2, <1>9, BookOf, Zenon
  <2> QED BY <1>2, <1>11, <2>1
<1>13. ASSUME NEW s \in Connections
       PROVE  /\ IsFiniteSet(known'[s])
              /\ sessionFree'[s] + Cardinality(known'[s]) + OfSession(k, s)
                   = sessionFree[s] + Cardinality(known[s]) + OfSession(j, s)
  <2>1. OfSession(j, s) = OfSession(k, s)
    BY <1>2, <1>6, <1>9, BookOf
  <2> QED BY <1>2, <1>11, <2>1, Zenon
<1>14. IsSlot(k) /\ globalFree' \in Nat /\ IsFiniteSet(registered') /\ sessionFree' \in [Connections -> Nat]
  BY <1>2, <1>9, <1>11 DEF IsSlot
<1> QED BY <1>3, <1>10, <1>12, <1>13, <1>14, Booked, Zenon DEF j

LEMMA EvictGlobalNodeStep ==
    ASSUME RegistryInv, NEW t \in Requesters, running[t] # AtRest, EvictGlobalNode(t)
    PROVE  RegistryInv'
<1> DEFINE j == running[t]
           k == [j EXCEPT !.pc = "again"]
<1>1. IsTask(j) /\ ShapeInv
  BY LiveTask, Zenon
<1>2. /\ j.pc = "global" /\ globalFree' = globalFree + 1 /\ running' = [running EXCEPT ![t] = k]
      /\ UNCHANGED << tree, known, sessionFree, open >>
  BY Zenon DEF EvictGlobalNode, Go, connection
<1>3. PICK n \in registered :
            /\ registered' = registered \ {n}
            /\ paths' = [paths EXCEPT ![n] = {}]
            /\ refs' = [refs EXCEPT ![n] = 0]
  BY ZenonT(20) DEF EvictGlobalNode, Unreferenced
<1> HIDE DEF j
<1>4. /\ DOMAIN j = TaskFields /\ j.session \in Connections
      /\ (j.op = "link" => j.path \in Paths)
      /\ j.then \in {"end", "snapshot", "finish", "created", "lookup"}
  BY <1>1, Zenon DEF IsTask, HasFile
<1>5. /\ j.sessionPermit = 1 /\ j.globalPermit = 0
      /\ (j.op = "create" \/ j.node \in Nodes) /\ j.other \in Paths
  BY <1>1, <1>2, Zenon DEF IsTask, HasFile, HasPermits, WithSessionPermit, WithGlobalPermit, WithPath
<1>6. /\ DOMAIN k = TaskFields /\ k.session = j.session /\ k.node = j.node /\ k.op = j.op
      /\ k.path = j.path /\ k.then = j.then /\ k.sessionPermit = 1 /\ k.globalPermit = 0
      /\ k.other = j.other /\ k.pc = "again"
  BY <1>4, <1>5, Zenon DEF TaskFields
<1> HIDE DEF k
<1>7. HasPermits(k)
  BY <1>6 DEF HasPermits, WithSessionPermit, WithGlobalPermit
<1>8. HasFile(k)
  <2>1. k.pc \notin WithNode /\ k.pc \notin {"rename", "renamed"}
    BY <1>6, Zenon DEF WithNode
  <2> QED BY <1>4, <1>5, <1>6, <2>1, Zenon DEF HasFile
<1>9. IsSlot(k)
  BY <1>4, <1>6, <1>7, <1>8, Zenon DEF IsTask, IsSlot
<1>10. ShapeInv'
  BY <1>1, <1>2, <1>3, Zenon DEF ShapeInv, RegisteredHasPath
<1>11. /\ globalFree \in Nat /\ sessionFree \in [Connections -> Nat]
       /\ IsFiniteSet(registered) /\ Cardinality(registered) \in Nat
       /\ \A s \in Connections : IsFiniteSet(known[s]) /\ Cardinality(known[s]) \in Nat
  BY LedgerFacts, Zenon
<1>12. IsFiniteSet(registered') /\ Cardinality(registered') = Cardinality(registered) - 1
  BY <1>3, <1>11, FS_RemoveElement, Zenon
<1>13. globalFree' + Cardinality(registered') + OfExport(k)
         = globalFree + Cardinality(registered) + OfExport(j)
  <2>1. OfExport(j) = 0 /\ OfExport(k) = 0
    BY <1>2, <1>6, BookOf, Zenon
  <2> QED BY <1>2, <1>11, <1>12, <2>1
<1>14. ASSUME NEW s \in Connections
       PROVE  /\ IsFiniteSet(known'[s])
              /\ sessionFree'[s] + Cardinality(known'[s]) + OfSession(k, s)
                   = sessionFree[s] + Cardinality(known[s]) + OfSession(j, s)
  <2>1. OfSession(j, s) = OfSession(k, s)
    BY <1>2, <1>6, BookOf
  <2> QED BY <1>2, <1>11, <2>1, Zenon
<1>15. globalFree' \in Nat /\ sessionFree' \in [Connections -> Nat]
  BY <1>2, <1>11
<1> QED BY <1>2, <1>9, <1>10, <1>12, <1>13, <1>14, <1>15, Booked, Zenon DEF j

-----------------------------------------------------------------------------
(* remember_reserved, track_node_with_permit *)

LEMMA InsertStep ==
    ASSUME RegistryInv, NEW t \in Requesters, running[t] # AtRest, Insert(t) PROVE RegistryInv'
<1> DEFINE j == running[t]
           n == j.node
           k == [j EXCEPT !.pc = "admit", !.other = NoNode, !.globalPermit = 0]
<1>1. IsTask(j) /\ ShapeInv
  BY LiveTask, Zenon
<1>2. /\ j.pc = "insert" /\ registered' = registered \cup {n}
      /\ paths' = [paths EXCEPT ![n] = @ \cup {j.other}]
      /\ globalFree' = IF n \in registered THEN globalFree + 1 ELSE globalFree
      /\ UNCHANGED << tree, refs, known, sessionFree, open >>
  BY Zenon DEF Insert, connection
<1>3. running' = [running EXCEPT ![t] = k]
  BY ZenonT(20) DEF Insert, RegistryInv, TasksInv
<1> HIDE DEF j
<1>4. /\ DOMAIN j = TaskFields /\ j.session \in Connections
      /\ (j.op = "link" => j.path \in Paths)
      /\ j.then \in {"end", "snapshot", "finish", "created", "lookup"}
  BY <1>1, Zenon DEF IsTask, HasFile
<1>5. j.sessionPermit = 1 /\ n \in Nodes /\ j.other \in Paths
  BY <1>1, <1>2, Zenon DEF IsTask, HasFile, HasPermits, WithSessionPermit, WithNode, WithPath
<1>6. /\ DOMAIN k = TaskFields /\ k.session = j.session /\ k.node = n /\ k.op = j.op
      /\ k.path = j.path /\ k.then = j.then /\ k.sessionPermit = 1 /\ k.globalPermit = 0
      /\ k.pc = "admit"
  BY <1>4, <1>5, Zenon DEF TaskFields
<1> HIDE DEF k, n
<1>7. HasPermits(k)
  BY <1>6 DEF HasPermits, WithSessionPermit, WithGlobalPermit
<1>8. HasFile(k)
  <2>1. k.pc \notin WithPath /\ k.pc \notin {"reserve", "global", "again", "rename", "renamed"}
    BY <1>6, Zenon DEF WithPath
  <2> QED BY <1>4, <1>5, <1>6, <2>1, Zenon DEF HasFile
<1>9. IsSlot(k)
  BY <1>4, <1>6, <1>7, <1>8, Zenon DEF IsTask, IsSlot
<1>10. ShapeInv'
  BY <1>1, <1>2, <1>5 DEF ShapeInv, RegisteredHasPath
<1>11. /\ globalFree \in Nat /\ sessionFree \in [Connections -> Nat]
       /\ IsFiniteSet(registered) /\ Cardinality(registered) \in Nat
       /\ \A s \in Connections : IsFiniteSet(known[s]) /\ Cardinality(known[s]) \in Nat
  BY LedgerFacts, Zenon
<1>12. /\ IsFiniteSet(registered')
       /\ Cardinality(registered')
            = IF n \in registered THEN Cardinality(registered) ELSE Cardinality(registered) + 1
  BY <1>2, <1>11, FS_AddElement, Zenon
<1>13. globalFree' + Cardinality(registered') + OfExport(k)
         = globalFree + Cardinality(registered) + OfExport(j)
  <2>1. OfExport(j) = 1 /\ OfExport(k) = 0
    BY <1>2, <1>6, BookOf, Zenon
  <2> QED BY <1>2, <1>11, <1>12, <2>1
<1>14. ASSUME NEW s \in Connections
       PROVE  /\ IsFiniteSet(known'[s])
              /\ sessionFree'[s] + Cardinality(known'[s]) + OfSession(k, s)
                   = sessionFree[s] + Cardinality(known[s]) + OfSession(j, s)
  <2>1. OfSession(j, s) = OfSession(k, s)
    BY <1>2, <1>6, BookOf
  <2> QED BY <1>2, <1>11, <2>1, Zenon
<1>15. globalFree' \in Nat /\ sessionFree' \in [Connections -> Nat]
  BY <1>2, <1>11
<1> QED BY <1>3, <1>9, <1>10, <1>12, <1>13, <1>14, <1>15, Booked, Zenon DEF j

LEMMA TrackWithPermitStep ==
    ASSUME RegistryInv, NEW t \in Requesters, running[t] # AtRest, TrackWithPermit(t)
    PROVE  RegistryInv'
<1> DEFINE j == running[t]
           n == j.node
           s0 == j.session
<1>1. IsTask(j) /\ ShapeInv
  BY LiveTask, Zenon
<1>2. j.pc = "admit" /\ UNCHANGED << tree, registered, paths, open >>
  BY Zenon DEF TrackWithPermit
<1>3. n \in Nodes /\ j.globalPermit = 0 /\ s0 \in Connections
  BY <1>1, <1>2, Zenon DEF IsTask, HasFile, HasPermits, WithGlobalPermit, WithNode
<1>4. /\ globalFree \in Nat /\ sessionFree \in [Connections -> Nat]
      /\ IsFiniteSet(registered) /\ Cardinality(registered) \in Nat
      /\ \A s \in Connections : IsFiniteSet(known[s]) /\ Cardinality(known[s]) \in Nat
  BY LedgerFacts, Zenon
<1>5. known \in [Connections -> SUBSET Nodes]
  BY <1>1, Zenon DEF ShapeInv
<1>6. CASE n \notin known[s0] /\ n \notin registered
  <2>1. End(t) /\ UNCHANGED << refs, known >>
    BY <1>6, Zenon DEF TrackWithPermit
  <2> QED BY <1>1, <1>2, <2>1, ShapeKept, EndStep, Zenon
<1>7. CASE n \in known[s0] \/ n \in registered
  <2> DEFINE k == Proceed(j)
  <2>1. running' = [running EXCEPT ![t] = k] /\ UNCHANGED globalFree
    BY <1>7, Zenon DEF TrackWithPermit
  <2>2. \/ /\ n \in known[s0] /\ UNCHANGED << refs, known >>
           /\ sessionFree' = [sessionFree EXCEPT ![s0] = @ + 1]
        \/ /\ n \notin known[s0] /\ n \in registered /\ UNCHANGED sessionFree
           /\ refs' = [refs EXCEPT ![n] = @ + 1]
           /\ known' = [known EXCEPT ![s0] = @ \cup {n}]
    BY <1>7, Zenon DEF TrackWithPermit
  <2>3. IsSlot(k) /\ Plain(k)
    BY <1>1, <1>3, ProceedFacts, Zenon
  <2> HIDE DEF k, j, n, s0
  <2>4. ShapeInv'
    <3>1. CASE UNCHANGED << refs, known >>
      BY <1>1, <1>2, <3>1, ShapeKept, Zenon
    <3>2. CASE /\ n \in registered /\ refs' = [refs EXCEPT ![n] = @ + 1]
               /\ known' = [known EXCEPT ![s0] = @ \cup {n}]
      BY <1>1, <1>2, <1>3, <3>2 DEF ShapeInv, RegisteredHasPath
    <3> QED BY <2>2, <3>1, <3>2, Zenon
  <2>5. ASSUME NEW s \in Connections
        PROVE  /\ IsFiniteSet(known'[s]) /\ sessionFree'[s] \in Nat
               /\ sessionFree'[s] + Cardinality(known'[s])
                    = sessionFree[s] + Cardinality(known[s]) + IF s = s0 THEN 1 ELSE 0
    <3>1. CASE n \in known[s0] /\ UNCHANGED known /\ sessionFree' = [sessionFree EXCEPT ![s0] = @ + 1]
      BY <1>3, <1>4, <3>1
    <3>2. CASE /\ n \notin known[s0] /\ known' = [known EXCEPT ![s0] = @ \cup {n}]
               /\ UNCHANGED sessionFree
      <4>1. IsFiniteSet(known[s0] \cup {n}) /\ Cardinality(known[s0] \cup {n}) = Cardinality(known[s0]) + 1
        BY <1>3, <1>4, <3>2, FS_AddElement, ZenonT(20)
      <4>2. CASE s = s0
        <5>1. known'[s] = known[s0] \cup {n}
          BY <1>5, <3>2, <4>2, Zenon
        <5> QED BY <1>4, <3>2, <4>1, <4>2, <5>1
      <4>3. CASE s # s0
        <5>1. known'[s] = known[s]
          BY <1>5, <3>2, <4>3, Zenon
        <5> QED BY <1>4, <3>2, <4>3, <5>1
      <4> QED BY <4>2, <4>3, Zenon
    <3> QED BY <2>2, <3>1, <3>2, Zenon
  <2>6. sessionFree' \in [Connections -> Nat]
    BY <1>4, <2>2, <2>5, Zenon
  <2>7. ASSUME NEW s \in Connections
        PROVE  sessionFree'[s] + Cardinality(known'[s]) + OfSession(k, s)
                 = sessionFree[s] + Cardinality(known[s]) + OfSession(j, s)
    <3>1. OfSession(k, s) = 0
      BY <2>3, PlainFacts, Zenon
    <3>2. OfSession(j, s) = IF s = s0 THEN 1 ELSE 0
      BY <1>2, BookOf DEF s0
    <3>3. Cardinality(known'[s]) \in Nat
      BY <2>5, FS_CardinalityType, Zenon
    <3> QED BY <2>5, <3>1, <3>2, <3>3
  <2>8. globalFree' + Cardinality(registered') + OfExport(k)
          = globalFree + Cardinality(registered) + OfExport(j)
    <3>1. OfExport(k) = 0 /\ OfExport(j) = 0
      BY <1>2, <2>3, PlainFacts, BookOf, Zenon
    <3> QED BY <1>2, <2>1, <3>1, Zenon
  <2>9. globalFree' \in Nat /\ IsFiniteSet(registered')
    BY <1>2, <1>4, <2>1, Zenon
  <2> QED BY <2>1, <2>3, <2>4, <2>5, <2>6, <2>7, <2>8, <2>9, Booked, Zenon DEF j
<1> QED BY <1>6, <1>7, Zenon

-----------------------------------------------------------------------------
(* The handlers after the node is tracked *)

LEMMA FinishOpenStep ==
    ASSUME RegistryInv, NEW t \in Requesters, running[t] # AtRest, FinishOpen(t) \/ FinishCreate(t)
    PROVE  RegistryInv'
<1> DEFINE j == running[t]
<1>1. IsTask(j) /\ ShapeInv
  BY LiveTask, Zenon
<1>2. /\ j.pc \in {"finish", "created"} /\ End(t) /\ UNCHANGED << tree, registered, paths, refs, known >>
      /\ open' = open \/ open' = [open EXCEPT ![j.session] = @ \cup {j.node}]
  BY Zenon DEF FinishOpen, FinishCreate
<1>3. j.node \in Nodes /\ j.session \in Connections
  BY <1>1, <1>2, Zenon DEF IsTask, HasFile, WithNode
<1> HIDE DEF j
<1>4. ShapeInv'
  BY <1>1, <1>2, <1>3 DEF ShapeInv, RegisteredHasPath
<1> QED BY <1>1, <1>2, <1>4, EndStep, Zenon DEF j

LEMMA FinishLinkStep ==
    ASSUME RegistryInv, NEW t \in Requesters, running[t] # AtRest, FinishLink(t) PROVE RegistryInv'
<1> DEFINE j == running[t]
           p == j.path
<1>1. IsTask(j) /\ ShapeInv
  BY LiveTask, Zenon
<1>2. /\ j.pc = "finish" /\ j.op = "link"
      /\ UNCHANGED << registered, paths, refs, known, open >>
  BY Zenon DEF FinishLink
<1>3. j.node \in Nodes /\ p \in Paths /\ j.pc \in PlainSteps
  BY <1>1, <1>2, Zenon DEF IsTask, HasFile, WithNode, PlainSteps
<1>4. CASE End(t) /\ UNCHANGED tree
  BY <1>1, <1>2, <1>4, ShapeKept, EndStep, Zenon
<1>5. CASE /\ tree' = [tree EXCEPT ![p] = j.node] /\ UNCHANGED << sessionFree, globalFree >>
           /\ running' = [running EXCEPT ![t].pc = "remember", ![t].other = p,
                             ![t].op = "access", ![t].then = "lookup",
                             ![t].path = NoNode, ![t].snapshot = {}]
  <2> DEFINE k == [j EXCEPT !.pc = "remember", !.other = p, !.op = "access", !.then = "lookup",
                            !.path = NoNode, !.snapshot = {}]
  <2>1. running' = [running EXCEPT ![t] = k]
    BY <1>5, ZenonT(20) DEF RegistryInv, TasksInv
  <2>2. /\ Plain(j) /\ DOMAIN j = TaskFields /\ j.session \in Connections
        /\ j.sessionPermit = 0 /\ j.globalPermit = 0
    BY <1>1, <1>3, PlainTaskFacts, Zenon
  <2> HIDE DEF j
  <2>3. /\ DOMAIN k = TaskFields /\ k.session = j.session /\ k.node = j.node /\ k.op = "access"
        /\ k.then = "lookup" /\ k.sessionPermit = 0 /\ k.globalPermit = 0
        /\ k.pc = "remember" /\ k.other = p
    BY <2>2, Zenon DEF TaskFields
  <2> HIDE DEF k, p
  <2>4. Plain(k) /\ HasPermits(k)
    <3>1. k.pc \in PlainSteps
      BY <2>3, Zenon DEF PlainSteps
    <3> QED BY <2>3, <3>1, PlainNames DEF HasPermits, Plain
  <2>5. HasFile(k)
    BY <1>3, <2>3, Zenon DEF HasFile
  <2>6. IsSlot(k)
    BY <2>2, <2>3, <2>4, <2>5, Zenon DEF IsTask, IsSlot
  <2>7. tree' \in [Paths -> Nodes \cup {NoNode}]
    BY <1>1, <1>3, <1>5, Zenon DEF ShapeInv
  <2>8. ShapeInv'
    BY <1>1, <1>2, <2>7, TreeKept, Zenon
  <2> QED BY <1>2, <1>5, <2>1, <2>2, <2>4, <2>6, <2>8, PlainStep, Zenon DEF j
<1> QED BY <1>4, <1>5, ZenonT(20) DEF FinishLink

LEMMA CreateEntryStep ==
    ASSUME RegistryInv, NEW t \in Requesters, running[t] # AtRest, CreateEntry(t) PROVE RegistryInv'
<1> DEFINE j == running[t]
<1>1. IsTask(j) /\ ShapeInv
  BY LiveTask, Zenon
<1>2. j.pc = "create" /\ UNCHANGED << registered, paths, refs, known, open >>
  BY ZenonT(20) DEF CreateEntry
<1>3. CASE End(t) /\ UNCHANGED tree
  BY <1>1, <1>2, <1>3, ShapeKept, EndStep, Zenon
<1>4. ASSUME NEW n \in Nodes, tree' = [tree EXCEPT ![j.path] = n], UNCHANGED << sessionFree, globalFree >>,
             running' = [running EXCEPT ![t].pc = "insert", ![t].node = n, ![t].then = "created"]
      PROVE  RegistryInv'
  <2> DEFINE k == [j EXCEPT !.pc = "insert", !.node = n, !.then = "created"]
  <2>1. running' = [running EXCEPT ![t] = k]
    BY <1>4, ZenonT(20) DEF RegistryInv, TasksInv
  <2>2. /\ DOMAIN j = TaskFields /\ j.session \in Connections /\ (j.op = "link" => j.path \in Paths)
    BY <1>1, Zenon DEF IsTask, HasFile
  <2>3. j.sessionPermit = 1 /\ j.globalPermit = 1 /\ j.other \in Paths
    BY <1>1, <1>2, Zenon DEF IsTask, HasFile, HasPermits, WithSessionPermit, WithGlobalPermit, WithPath
  <2>4. tree' \in [Paths -> Nodes \cup {NoNode}]
    BY <1>1, <1>4, ZenonT(20) DEF ShapeInv
  <2>5. ShapeInv'
    BY <1>1, <1>2, <2>4, TreeKept, Zenon
  <2> HIDE DEF j
  <2>6. /\ DOMAIN k = TaskFields /\ k.session = j.session /\ k.node = n /\ k.op = j.op
        /\ k.path = j.path /\ k.then = "created" /\ k.sessionPermit = 1 /\ k.globalPermit = 1
        /\ k.pc = "insert" /\ k.other = j.other
    BY <2>2, <2>3, Zenon DEF TaskFields
  <2> HIDE DEF k
  <2>7. HasPermits(k)
    BY <2>6, Zenon DEF HasPermits, WithSessionPermit, WithGlobalPermit
  <2>8. HasFile(k)
    BY <2>2, <2>3, <2>6, Zenon DEF HasFile
  <2>9. IsSlot(k)
    BY <2>2, <2>6, <2>7, <2>8, Zenon DEF IsTask, IsSlot
  <2>10. OfExport(k) = OfExport(j) /\ \A s \in Connections : OfSession(k, s) = OfSession(j, s)
    BY <1>2, <2>6, BookOf
  <2> QED BY <1>2, <1>4, <2>1, <2>5, <2>9, <2>10, Unbooked, ZenonT(20) DEF j
<1> QED BY <1>3, <1>4, ZenonT(20) DEF CreateEntry

-----------------------------------------------------------------------------
(* remove_registry_path, update_registry_after_rename, release_node_reference *)

\* Nodes that lose their last path leave the registry, and their permits are free again.
LEMMA ReplacedFacts ==
    ASSUME RegistryInv, NEW now \in [Nodes -> SUBSET Paths], Replaced(now),
           \A n \in Nodes \ registered : now[n] = {}, UNCHANGED << tree, known, open >>
    PROVE  /\ ShapeInv' /\ globalFree' \in Nat /\ IsFiniteSet(registered')
           /\ globalFree' + Cardinality(registered') = globalFree + Cardinality(registered)
<1> DEFINE left == {n \in registered : now[n] = {}}
<1>1. /\ registered' = registered \ left /\ paths' = now /\ globalFree' = globalFree + Cardinality(left)
      /\ refs' = [n \in Nodes |-> IF n \in left THEN 0 ELSE refs[n]]
  BY Zenon DEF Replaced
<1>2. ShapeInv
  BY Zenon DEF RegistryInv
<1>3. ShapeInv'
  BY <1>1, <1>2, Zenon DEF ShapeInv, RegisteredHasPath
<1>4. globalFree \in Nat /\ IsFiniteSet(registered) /\ Cardinality(registered) \in Nat
  BY LedgerFacts, Zenon
<1>5. left \subseteq registered
  BY Zenon
<1> HIDE DEF left
<1>6. IsFiniteSet(left) /\ Cardinality(left) \in Nat
  BY <1>4, <1>5, FS_Subset, FS_CardinalityType, Zenon
<1>7. registered \cap left = left
  BY <1>5, Zenon
<1>8. /\ IsFiniteSet(registered')
      /\ Cardinality(registered') = Cardinality(registered) - Cardinality(left)
  BY <1>1, <1>4, <1>7, FS_Difference, ZenonT(20)
<1> QED BY <1>1, <1>3, <1>4, <1>6, <1>8

\* A request that ends without a permit and leaves the counts as they are together.
LEMMA SettledStep ==
    ASSUME RegistryInv, NEW t \in Requesters, Plain(running[t]),
           running' = [running EXCEPT ![t] = AtRest], ShapeInv', globalFree' \in Nat,
           IsFiniteSet(registered'),
           globalFree' + Cardinality(registered') = globalFree + Cardinality(registered),
           UNCHANGED << known, sessionFree >>
    PROVE  RegistryInv'
<1>1. /\ OfExport(AtRest) = 0 /\ OfExport(running[t]) = 0 /\ IsSlot(AtRest)
      /\ \A s \in Connections : OfSession(AtRest, s) = 0 /\ OfSession(running[t], s) = 0
  BY RestFacts, PlainFacts, Zenon
<1>2. /\ globalFree \in Nat /\ sessionFree \in [Connections -> Nat]
      /\ IsFiniteSet(registered) /\ Cardinality(registered) \in Nat
      /\ \A s \in Connections : IsFiniteSet(known[s]) /\ Cardinality(known[s]) \in Nat
  BY LedgerFacts, Zenon
<1>3. Cardinality(registered') \in Nat
  BY FS_CardinalityType, Zenon
<1>4. globalFree' + Cardinality(registered') + OfExport(AtRest)
        = globalFree + Cardinality(registered) + OfExport(running[t])
  BY <1>1, Zenon
<1>5. \A s \in Connections :
         /\ IsFiniteSet(known'[s])
         /\ sessionFree'[s] + Cardinality(known'[s]) + OfSession(AtRest, s)
              = sessionFree[s] + Cardinality(known[s]) + OfSession(running[t], s)
  BY <1>1, <1>2, Zenon
<1> QED BY <1>1, <1>2, <1>4, <1>5, Booked, ZenonT(20)

LEMMA UnregisterStep ==
    ASSUME RegistryInv, NEW t \in Requesters, running[t] # AtRest, Unregister(t) PROVE RegistryInv'
<1> DEFINE now == [n \in Nodes |-> paths[n] \ {running[t].path}]
<1>1. /\ running[t].pc = "unregister" /\ Replaced(now) /\ running' = [running EXCEPT ![t] = AtRest]
      /\ UNCHANGED << tree, known, sessionFree, open >>
  BY Zenon DEF Unregister, connection
<1>2. ShapeInv
  BY Zenon DEF RegistryInv
<1>3. now \in [Nodes -> SUBSET Paths] /\ \A n \in Nodes \ registered : now[n] = {}
  BY <1>2, Zenon DEF ShapeInv
<1> HIDE DEF now
<1>4. /\ ShapeInv' /\ globalFree' \in Nat /\ IsFiniteSet(registered')
      /\ globalFree' + Cardinality(registered') = globalFree + Cardinality(registered)
  BY <1>1, <1>3, ReplacedFacts, Zenon
<1>5. running[t].pc \in PlainSteps
  BY <1>1, Zenon DEF PlainSteps
<1>6. Plain(running[t])
  BY <1>5, PlainNames, Zenon
<1> QED BY <1>1, <1>4, <1>6, SettledStep, ZenonT(20)

LEMMA RenameEntryStep ==
    ASSUME RegistryInv, NEW t \in Requesters, running[t] # AtRest, RenameEntry(t) PROVE RegistryInv'
<1> DEFINE j == running[t]
           k == [j EXCEPT !.pc = "renamed"]
<1>1. IsTask(j) /\ ShapeInv
  BY LiveTask, Zenon
<1>2. /\ j.pc = "rename"
      /\ UNCHANGED << registered, paths, refs, globalFree, known, sessionFree, open >>
  BY Zenon DEF RenameEntry, registry, connection
<1>3. j.path \in Paths /\ j.other \in Paths /\ j.pc \in PlainSteps
  BY <1>1, <1>2, Zenon DEF IsTask, HasFile, WithPath, PlainSteps
<1>4. /\ Plain(j) /\ DOMAIN j = TaskFields /\ j.session \in Connections
      /\ j.sessionPermit = 0 /\ j.globalPermit = 0
      /\ j.then \in {"end", "snapshot", "finish", "created", "lookup"}
  BY <1>1, <1>3, PlainTaskFacts, Zenon
<1>5. \/ running' = [running EXCEPT ![t] = AtRest] /\ UNCHANGED tree
      \/ running' = [running EXCEPT ![t] = k]
         /\ \/ tree' = [tree EXCEPT ![j.path] = tree[j.other], ![j.other] = tree[j.path]]
            \/ tree' = tree
            \/ tree' = [tree EXCEPT ![j.path] = NoNode, ![j.other] = tree[j.path]]
  BY Zenon DEF RenameEntry, Go
<1> HIDE DEF j
<1>6. tree' \in [Paths -> Nodes \cup {NoNode}]
  BY <1>1, <1>3, <1>5, Zenon DEF ShapeInv
<1>7. ShapeInv'
  BY <1>1, <1>2, <1>6, TreeKept, Zenon
<1>8. CASE running' = [running EXCEPT ![t] = AtRest]
  BY <1>2, <1>4, <1>7, <1>8, RestFacts, PlainRest, PlainStep, ZenonT(20) DEF j
<1>9. CASE running' = [running EXCEPT ![t] = k]
  <2>1. /\ DOMAIN k = TaskFields /\ k.session = j.session /\ k.op = j.op /\ k.path = j.path
        /\ k.then = j.then /\ k.sessionPermit = 0 /\ k.globalPermit = 0
        /\ k.pc = "renamed" /\ k.other = j.other
    BY <1>4, Zenon DEF TaskFields
  <2> HIDE DEF k
  <2>2. Plain(k) /\ HasPermits(k)
    <3>1. k.pc \in PlainSteps
      BY <2>1, Zenon DEF PlainSteps
    <3> QED BY <2>1, <3>1, PlainNames DEF HasPermits, Plain
  <2>3. HasFile(k)
    <3>1. k.pc \notin WithNode /\ k.pc \notin {"reserve", "global", "again"}
      BY <2>1, Zenon DEF WithNode
    <3> QED BY <1>3, <2>1, <3>1, Zenon DEF HasFile
  <2>4. IsSlot(k)
    BY <1>4, <2>1, <2>2, <2>3 DEF IsTask, IsSlot
  <2> QED BY <1>2, <1>4, <1>7, <1>9, <2>2, <2>4, PlainStep, Zenon DEF j
<1> QED BY <1>5, <1>8, <1>9, Zenon

LEMMA UpdateAfterRenameStep ==
    ASSUME RegistryInv, NEW t \in Requesters, running[t] # AtRest, UpdateAfterRename(t)
    PROVE  RegistryInv'
<1> DEFINE j == running[t]
           kept == [n \in Nodes |-> IF j.mode = "Replace" /\ n # j.node
                                    THEN paths[n] \ {j.other} ELSE paths[n]]
           moved == [n \in Nodes |-> {Moved(x, j.path, j.other, j.mode) : x \in kept[n]}]
<1>1. IsTask(j) /\ ShapeInv
  BY LiveTask, Zenon
<1>2. /\ j.pc = "renamed" /\ running' = [running EXCEPT ![t] = AtRest]
      /\ UNCHANGED << tree, known, sessionFree, open >>
      /\ UNCHANGED << registered, paths, refs, globalFree >> \/ Replaced(moved)
  BY ZenonT(20) DEF UpdateAfterRename, registry, connection
<1>3. j.path \in Paths /\ j.other \in Paths /\ j.pc \in PlainSteps
  BY <1>1, <1>2, Zenon DEF IsTask, HasFile, WithPath, PlainSteps
<1>4. Plain(j)
  BY <1>3, PlainNames, Zenon
<1> HIDE DEF j
<1>5. CASE UNCHANGED << registered, paths, refs, globalFree >>
  BY <1>1, <1>2, <1>4, <1>5, ShapeKept, RestFacts, PlainRest, PlainStep, ZenonT(20) DEF j
<1>6. CASE Replaced(moved)
  <2>1. kept \in [Nodes -> SUBSET Paths] /\ \A n \in Nodes \ registered : kept[n] = {}
    BY <1>1, Zenon DEF ShapeInv
  <2>2. \A x \in Paths : Moved(x, j.path, j.other, j.mode) \in Paths
    BY <1>3, Zenon DEF Moved
  <2>3. moved \in [Nodes -> SUBSET Paths] /\ \A n \in Nodes \ registered : moved[n] = {}
    <3> HIDE DEF kept
    <3> QED BY <2>1, <2>2, Zenon
  <2> HIDE DEF moved
  <2>4. /\ ShapeInv' /\ globalFree' \in Nat /\ IsFiniteSet(registered')
        /\ globalFree' + Cardinality(registered') = globalFree + Cardinality(registered)
    BY <1>2, <1>6, <2>3, ReplacedFacts, Zenon
  <2> QED BY <1>2, <1>4, <2>4, SettledStep, ZenonT(20) DEF j
<1> QED BY <1>2, <1>5, <1>6, Zenon

LEMMA ReleaseStep ==
    ASSUME RegistryInv, NEW t \in Requesters, running[t] # AtRest, Release(t) PROVE RegistryInv'
<1> DEFINE j == running[t]
<1>1. IsTask(j) /\ ShapeInv
  BY LiveTask, Zenon
<1>2. /\ j.pc = "release"
      /\ UNCHANGED << tree, registered, paths, globalFree, known, sessionFree, open >>
  BY Zenon DEF Release, connection
<1>3. PICK n \in j.batch :
        /\ refs' = IF n \in registered /\ refs[n] > 0 THEN [refs EXCEPT ![n] = @ - 1] ELSE refs
        /\ \/ running' = [running EXCEPT ![t] = AtRest]
           \/ running' = [running EXCEPT ![t] = [j EXCEPT !.batch = j.batch \ {n}]]
  BY ZenonT(20) DEF Release
<1>4. j.pc \in PlainSteps
  BY <1>2, Zenon DEF PlainSteps
<1>5. /\ Plain(j) /\ DOMAIN j = TaskFields /\ j.session \in Connections
      /\ j.sessionPermit = 0 /\ j.globalPermit = 0
      /\ (j.op = "link" => j.path \in Paths)
      /\ j.then \in {"end", "snapshot", "finish", "created", "lookup"}
  BY <1>1, <1>4, PlainTaskFacts, Zenon
<1> HIDE DEF j
<1>6. ShapeInv'
  BY <1>1, <1>2, <1>3 DEF ShapeInv, RegisteredHasPath
<1>7. CASE running' = [running EXCEPT ![t] = AtRest]
  BY <1>2, <1>5, <1>6, <1>7, RestFacts, PlainRest, PlainStep, ZenonT(20) DEF j
<1>8. CASE running' = [running EXCEPT ![t] = [j EXCEPT !.batch = j.batch \ {n}]]
  <2> DEFINE k == [j EXCEPT !.batch = j.batch \ {n}]
  <2>1. /\ DOMAIN k = TaskFields /\ k.session = j.session /\ k.op = j.op /\ k.path = j.path
        /\ k.then = j.then /\ k.sessionPermit = 0 /\ k.globalPermit = 0 /\ k.pc = "release"
    BY <1>2, <1>5, Zenon DEF TaskFields
  <2> HIDE DEF k
  <2>2. Plain(k) /\ HasPermits(k)
    BY <1>2, <1>4, <2>1, PlainNames DEF HasPermits, Plain
  <2>3. HasFile(k)
    <3>1. k.pc \notin WithNode /\ k.pc \notin WithPath
          /\ k.pc \notin {"reserve", "global", "again"} /\ k.pc \notin {"rename", "renamed"}
      BY <2>1, Zenon DEF WithNode, WithPath
    <3> QED BY <1>5, <2>1, <3>1, Zenon DEF HasFile
  <2>4. IsSlot(k)
    BY <1>5, <2>1, <2>2, <2>3, Zenon DEF IsTask, IsSlot
  <2>5. running' = [running EXCEPT ![t] = k]
    BY <1>8, Zenon DEF k
  <2> QED BY <1>2, <1>5, <1>6, <2>2, <2>4, <2>5, PlainStep, Zenon DEF j
<1> QED BY <1>3, <1>7, <1>8, Zenon

-----------------------------------------------------------------------------
(* forget_nodes, the drop of a session, close *)

\* A session gives up the nodes of a batch: their permits are free again.
LEMMA GivenUpStep ==
    ASSUME RegistryInv, NEW t \in Requesters, running[t] = AtRest, NEW k, IsSlot(k), Plain(k),
           running' = [running EXCEPT ![t] = k], NEW s0 \in Connections,
           NEW batch \in SUBSET known[s0], known' = [known EXCEPT ![s0] = @ \ batch],
           sessionFree' = [sessionFree EXCEPT ![s0] = @ + Cardinality(batch)],
           open' \in [Connections -> SUBSET Nodes],
           UNCHANGED << tree, registered, paths, refs, globalFree >>
    PROVE  RegistryInv'
<1>1. ShapeInv
  BY Zenon DEF RegistryInv
<1>2. ShapeInv'
  BY <1>1, Zenon DEF ShapeInv, RegisteredHasPath
<1>3. /\ globalFree \in Nat /\ sessionFree \in [Connections -> Nat]
      /\ IsFiniteSet(registered) /\ Cardinality(registered) \in Nat
      /\ \A s \in Connections : IsFiniteSet(known[s]) /\ Cardinality(known[s]) \in Nat
  BY LedgerFacts, Zenon
<1>4. known \in [Connections -> SUBSET Nodes]
  BY <1>1, Zenon DEF ShapeInv
<1>5. IsFiniteSet(batch) /\ Cardinality(batch) \in Nat
  BY <1>3, FS_Subset, FS_CardinalityType, Zenon
<1>6. /\ IsFiniteSet(known[s0] \ batch)
      /\ Cardinality(known[s0] \ batch) = Cardinality(known[s0]) - Cardinality(batch)
  <2>1. known[s0] \cap batch = batch
    BY Zenon
  <2> QED BY <1>3, <2>1, FS_Difference, ZenonT(20)
<1>7. /\ OfExport(k) = 0 /\ OfExport(AtRest) = 0
      /\ \A s \in Connections : OfSession(k, s) = 0 /\ OfSession(AtRest, s) = 0
  BY RestFacts, PlainFacts, Zenon
<1>8. sessionFree' \in [Connections -> Nat]
  BY <1>3, <1>5
<1>9. ASSUME NEW s \in Connections
      PROVE  /\ IsFiniteSet(known'[s])
             /\ sessionFree'[s] + Cardinality(known'[s]) + OfSession(k, s)
                  = sessionFree[s] + Cardinality(known[s]) + OfSession(AtRest, s)
  <2>1. CASE s = s0
    <3>1. known'[s] = known[s0] \ batch /\ sessionFree'[s] = sessionFree[s0] + Cardinality(batch)
      BY <1>3, <1>4, <2>1, Zenon
    <3>2. sessionFree[s0] \in Nat /\ Cardinality(known[s0]) \in Nat
      BY <1>3, Zenon
    <3>3. sessionFree[s0] + Cardinality(batch) + (Cardinality(known[s0]) - Cardinality(batch)) + 0
            = sessionFree[s0] + Cardinality(known[s0]) + 0
      BY <1>5, <3>2
    <3>4. OfSession(k, s) = 0 /\ OfSession(AtRest, s) = 0
      BY <1>7, Zenon
    <3> QED BY <1>6, <2>1, <3>1, <3>3, <3>4, ZenonT(20)
  <2>2. CASE s # s0
    <3>1. known'[s] = known[s] /\ sessionFree'[s] = sessionFree[s]
      BY <1>3, <1>4, <2>2, Zenon
    <3> QED BY <1>3, <1>7, <3>1, Zenon
  <2> QED BY <2>1, <2>2, Zenon
<1>10. globalFree' + Cardinality(registered') + OfExport(k)
         = globalFree + Cardinality(registered) + OfExport(running[t])
  BY <1>7, Zenon
<1>11. globalFree' \in Nat /\ IsFiniteSet(registered')
  BY <1>3, Zenon
<1> QED BY <1>2, <1>8, <1>9, <1>10, <1>11, Booked, ZenonT(20)

\* The request that releases a batch.
LEMMA BatchTask ==
    ASSUME NEW s \in Connections, NEW op, op # "link", NEW batch
    PROVE  LET k == [Task(s, "release", op, NoNode, NoNode) EXCEPT !.batch = batch]
           IN  IsTask(k) /\ Plain(k) /\ k.pc = "release" /\ k.batch = batch
<1> DEFINE j == Task(s, "release", op, NoNode, NoNode)
           k == [j EXCEPT !.batch = batch]
<1>1. Begun(j, s, "release", op, NoNode, NoNode, NoNode)
  BY TaskFacts, Zenon
<1> HIDE DEF j
<1>2. Begun(k, s, "release", op, NoNode, NoNode, NoNode) /\ k.batch = batch
  BY <1>1, Zenon DEF Begun, TaskFields
<1> HIDE DEF k
<1>3. "release" \in FirstSteps /\ "release" \notin WithNode /\ "release" \notin WithPath
  BY Zenon DEF FirstSteps, WithNode, WithPath
<1>4. IsTask(k) /\ Plain(k)
  BY <1>2, <1>3, BegunIsTask, Zenon
<1> QED BY <1>2, <1>4, Zenon DEF Begun, k, j

LEMMA ForgetStep ==
    ASSUME RegistryInv, NEW t \in Requesters, NEW s0 \in Connections, NEW batch, Forget(t, s0, batch)
    PROVE  RegistryInv'
<1> DEFINE released == batch \cap known[s0]
           k == [Task(s0, "release", "forget", NoNode, NoNode) EXCEPT !.batch = released]
<1>1. /\ running[t] = AtRest /\ running' = [running EXCEPT ![t] = k]
      /\ known' = [known EXCEPT ![s0] = @ \ released]
      /\ sessionFree' = [sessionFree EXCEPT ![s0] = @ + Cardinality(released)]
      /\ UNCHANGED << tree, registered, paths, refs, globalFree, open >>
  BY Zenon DEF Forget, Start, registry
<1>2. IsTask(k) /\ Plain(k)
  BY BatchTask, Zenon
<1>3. released \in SUBSET known[s0]
  BY Zenon
<1>4. open' \in [Connections -> SUBSET Nodes]
  BY <1>1, Zenon DEF RegistryInv, ShapeInv
<1> HIDE DEF k, released
<1>5. IsSlot(k)
  BY <1>2, Zenon DEF IsSlot
<1> QED BY <1>1, <1>2, <1>3, <1>4, <1>5, GivenUpStep, ZenonT(20)

LEMMA DropSessionStep ==
    ASSUME RegistryInv, NEW t \in Requesters, NEW s0 \in Connections, DropSession(t, s0)
    PROVE  RegistryInv'
<1> DEFINE j == [Task(s0, "release", "drop", NoNode, NoNode) EXCEPT !.batch = known[s0]]
           k == IF known[s0] = {} THEN AtRest ELSE j
<1>1. /\ running[t] = AtRest /\ running' = [running EXCEPT ![t] = k]
      /\ known' = [known EXCEPT ![s0] = {}]
      /\ sessionFree' = [sessionFree EXCEPT ![s0] = MaxKnown]
      /\ open' = [open EXCEPT ![s0] = {}]
      /\ UNCHANGED << tree, registered, paths, refs, globalFree >>
  BY Zenon DEF DropSession, Start, registry
<1>2. IsTask(j) /\ Plain(j)
  BY BatchTask, Zenon
<1> HIDE DEF j
<1>3. IsSlot(k) /\ Plain(k)
  BY <1>2, RestFacts, PlainRest, Zenon DEF IsSlot
<1> HIDE DEF k
<1>4. SessionHolders(s0) = {}
  BY Zenon DEF DropSession, SessionHolders, Live
<1>5. MaxKnown = sessionFree[s0] + Cardinality(known[s0])
  <2>1. sessionFree[s0] + Cardinality(known[s0]) + Cardinality(SessionHolders(s0)) = MaxKnown
    BY Zenon DEF RegistryInv, LedgerInv
  <2>2. sessionFree[s0] \in Nat /\ Cardinality(known[s0]) \in Nat
    BY LedgerFacts, Zenon
  <2> QED BY <1>4, <2>1, <2>2, FS_EmptySet
<1>6. sessionFree' = [sessionFree EXCEPT ![s0] = @ + Cardinality(known[s0])]
  BY <1>1, <1>5, Zenon
<1>7. known' = [known EXCEPT ![s0] = @ \ known[s0]]
  <2>1. known[s0] \ known[s0] = {}
    BY Zenon
  <2> QED BY <1>1, <2>1, ZenonT(20)
<1>8. open' \in [Connections -> SUBSET Nodes]
  BY <1>1, Zenon DEF RegistryInv, ShapeInv
<1> QED BY <1>1, <1>3, <1>6, <1>7, <1>8, GivenUpStep, ZenonT(20)

LEMMA CloseNodeStep ==
    ASSUME RegistryInv, NEW s \in Connections, NEW n \in Nodes, CloseNode(s, n) PROVE RegistryInv'
<1>1. /\ open' = [open EXCEPT ![s] = @ \ {n}]
      /\ UNCHANGED << tree, registered, paths, refs, globalFree, known, sessionFree, running >>
  BY Zenon DEF CloseNode, registry
<1>2. ShapeInv'
  BY <1>1, Zenon DEF RegistryInv, ShapeInv, RegisteredHasPath
<1>3. TasksInv'
  BY <1>1, Zenon DEF RegistryInv, TasksInv
<1>4. LedgerInv'
  BY <1>1, Zenon DEF RegistryInv, LedgerInv, GlobalHolders, SessionHolders, Live
<1> QED BY <1>2, <1>3, <1>4, Zenon DEF RegistryInv

-----------------------------------------------------------------------------
(* Every step of the registry *)

LEMMA RegistryStep ==
    ASSUME RegistryConstants, RegistryInv, [RegistryNext]_registryVars PROVE RegistryInv'
<1>1. ASSUME NEW t \in Requesters, running[t] # AtRest, Step(t) PROVE RegistryInv'
  <2>1. CASE Lookup(t) \/ Discover(t) \/ Remember(t) \/ Snapshot(t) \/ Track(t)
    BY <1>1, <2>1, LookupStep, DiscoverStep, RememberStep, SnapshotStep, TrackStep, Zenon
  <2>2. CASE TakeSessionPermit(t) \/ EvictSessionNode(t) \/ SessionFull(t)
    BY <1>1, <2>2, TakeSessionPermitStep, EvictSessionNodeStep, SessionFullStep, Zenon
  <2>3. CASE TakeGlobalPermit(t) \/ EvictGlobalNode(t) \/ GlobalFull(t)
    BY <1>1, <2>3, TakeGlobalPermitStep, EvictGlobalNodeStep, SessionFullStep, Zenon
  <2>4. CASE Insert(t) \/ TrackWithPermit(t) \/ FinishOpen(t) \/ FinishLink(t)
    BY <1>1, <2>4, InsertStep, TrackWithPermitStep, FinishOpenStep, FinishLinkStep, Zenon
  <2>5. CASE CreateEntry(t) \/ FinishCreate(t) \/ Unregister(t)
    BY <1>1, <2>5, CreateEntryStep, FinishOpenStep, UnregisterStep, Zenon
  <2>6. CASE RenameEntry(t) \/ UpdateAfterRename(t) \/ Release(t)
    BY <1>1, <2>6, RenameEntryStep, UpdateAfterRenameStep, ReleaseStep, Zenon
  <2> QED BY <1>1, <2>1, <2>2, <2>3, <2>4, <2>5, <2>6, Zenon DEF Step
<1>2. ASSUME NEW t \in Requesters, NEW s \in Connections, Request(t, s) PROVE RegistryInv'
  <2>1. CASE \/ \E n \in Nodes : Access(t, s, n) \/ OpenNode(t, s, n)
             \/ \E p \in Paths : Scan(t, s, p) \/ Create(t, s, p)
             \/ \E p \in Paths, n \in Nodes : Link(t, s, n, p)
    BY <2>1, LookingRequests, Zenon
  <2>2. CASE \E p \in Paths :
               Remove(t, s, p) \/ \E q \in Paths, mode \in RenameModes : Rename(t, s, p, q, mode)
    BY <2>2, TreeRequests, Zenon
  <2>3. CASE \E batch \in SUBSET known[s] : Forget(t, s, batch)
    BY <2>3, ForgetStep, Zenon
  <2>4. CASE DropSession(t, s)
    BY <2>4, DropSessionStep, Zenon
  <2> QED BY <1>2, <2>1, <2>2, <2>3, <2>4, Zenon DEF Request
<1>3. CASE UNCHANGED registryVars
  <2>1. UNCHANGED << tree, registered, paths, refs, globalFree, known, sessionFree, open, running >>
    BY <1>3, Zenon DEF registryVars
  <2>2. ShapeInv'
    BY <2>1, ShapeKept, Zenon DEF RegistryInv
  <2>3. TasksInv'
    BY <2>1, Zenon DEF RegistryInv, TasksInv
  <2>4. LedgerInv'
    BY <2>1, Zenon DEF RegistryInv, LedgerInv, GlobalHolders, SessionHolders, Live
  <2> QED BY <2>2, <2>3, <2>4, Zenon DEF RegistryInv
<1> QED BY <1>1, <1>2, <1>3, CloseNodeStep, Zenon DEF RegistryNext

LEMMA RegistryStart ==
    ASSUME RegistryConstants, RegistryInit PROVE RegistryInv
<1>1. TasksInv
  BY RestFacts, Zenon DEF RegistryInit, TasksInv
<1>2. ShapeInv
  BY Zenon DEF RegistryInit, RegistryConstants, ShapeInv, RegisteredHasPath
<1>3. GlobalHolders = {} /\ \A s : SessionHolders(s) = {}
  BY Zenon DEF RegistryInit, GlobalHolders, SessionHolders, Live
<1>4. LedgerInv
  BY <1>3, FS_EmptySet DEF LedgerInv, RegistryInit, RegistryConstants
<1> QED BY <1>1, <1>2, <1>4, Zenon DEF RegistryInv

-----------------------------------------------------------------------------
(* References *)

\* The sessions that track a node, and the requests that still have to release it.
Trackers(n) == {s \in Connections : n \in known[s]}
Releasing(n) == {t \in Live : running[t].pc = "release" /\ n \in running[t].batch}

\* The steps that drop a node whatever its count.
Dropping == {"unregister", "rename", "renamed"}

CountsInv ==
    /\ changes \in Nat
    /\ \A n \in Nodes : IsFiniteSet(Trackers(n)) /\ IsFiniteSet(Releasing(n))
    /\ changes = 0 =>
          /\ \A n \in Nodes : refs[n] = Cardinality(Trackers(n)) + Cardinality(Releasing(n))
          /\ \A t \in Requesters : running[t].pc \notin Dropping

\* A step that touches neither the sessions nor a release.
LEMMA QuietCounts ==
    ASSUME RegistryInv, CountsInv, NEW t \in Requesters, NEW k,
           running' = [running EXCEPT ![t] = k], running[t].pc # "release", k.pc # "release",
           UNCHANGED known, changes' \in Nat,
           changes' = 0 => changes = 0 /\ refs' = refs /\ k.pc \notin Dropping
    PROVE  CountsInv'
<1>1. running'[t] = k /\ \A u \in Requesters : u # t => running'[u] = running[u]
  BY Zenon DEF RegistryInv, TasksInv
<1>2. AtRest.pc # "release"
  BY RestFacts, Zenon
<1>3. \A n : Releasing(n)' = Releasing(n)
  BY <1>1, <1>2, Zenon DEF Releasing, Live
<1>4. \A n : Trackers(n)' = Trackers(n)
  BY Zenon DEF Trackers
<1>5. ASSUME changes' = 0 PROVE \A u \in Requesters : running'[u].pc \notin Dropping
  BY <1>1, <1>5, Zenon DEF CountsInv
<1>6. ASSUME changes' = 0, NEW n \in Nodes
      PROVE  refs'[n] = Cardinality(Trackers(n)') + Cardinality(Releasing(n)')
  BY <1>3, <1>4, <1>6, Zenon DEF CountsInv
<1>7. \A n \in Nodes : IsFiniteSet(Trackers(n)') /\ IsFiniteSet(Releasing(n)')
  BY <1>3, <1>4, Zenon DEF CountsInv
<1> QED BY <1>5, <1>6, <1>7, Zenon DEF CountsInv

\* Where a step leads that neither releases nor drops a node.
LEMMA QuietStep ==
    ASSUME RegistryInv, CountsInv, NEW t \in Requesters, running[t].pc # "release",
           running' = [running EXCEPT ![t] = running'[t]],
           running'[t].pc \notin Dropping \cup {"release"}, UNCHANGED << known, refs, changes >>
    PROVE  CountsInv'
<1> DEFINE k == running'[t]
<1>1. running' = [running EXCEPT ![t] = k] /\ k.pc # "release" /\ k.pc \notin Dropping
  BY Zenon
<1>2. changes' \in Nat /\ changes' = changes
  BY Zenon DEF CountsInv
<1> HIDE DEF k
<1> QED BY <1>1, <1>2, QuietCounts, ZenonT(20)

Elsewhere == {"idle", "lookup", "discover", "remember", "snapshot", "track", "permit", "reserve",
              "global", "again", "create", "insert", "admit", "finish", "created", "end"}

LEMMA QuietNames == Elsewhere \cap (Dropping \cup {"release"}) = {}
BY Zenon DEF Elsewhere, Dropping

\* A request that goes on with some fields set, or ends.
LEMMA GoesOn ==
    ASSUME RegistryInv, NEW t \in Requesters, NEW k, running' = [running EXCEPT ![t] = k],
           k.pc \in Elsewhere
    PROVE  /\ running' = [running EXCEPT ![t] = running'[t]]
           /\ running'[t].pc \notin Dropping \cup {"release"}
<1>1. running'[t] = k
  BY Zenon DEF RegistryInv, TasksInv
<1> QED BY <1>1, QuietNames, Zenon

LEMMA Ends ==
    ASSUME RegistryInv, NEW t \in Requesters, End(t) \/ running' = [running EXCEPT ![t] = AtRest]
    PROVE  /\ running' = [running EXCEPT ![t] = running'[t]]
           /\ running'[t].pc \notin Dropping \cup {"release"}
<1>1. running' = [running EXCEPT ![t] = AtRest]
  BY Zenon DEF End
<1>2. AtRest.pc \in Elsewhere
  BY RestFacts, Zenon DEF Elsewhere
<1> QED BY <1>1, <1>2, GoesOn, ZenonT(20)

LEMMA QuietWalk ==
    ASSUME RegistryInv, CountsInv, NEW t \in Requesters, running[t] # AtRest,
           Lookup(t) \/ Discover(t) \/ Remember(t) \/ Snapshot(t) \/ Track(t)
    PROVE  CountsInv'
<1> DEFINE j == running[t]
<1>1. /\ running[t].pc # "release" /\ UNCHANGED << known, refs, changes >>
  BY ZenonT(20) DEF Lookup, Discover, Remember, Snapshot, Track, registry, connection
<1>2. DOMAIN j = TaskFields /\ j.then \in {"end", "snapshot", "finish", "created", "lookup"}
  BY LiveTask, Zenon DEF IsTask
<1>3. /\ running' = [running EXCEPT ![t] = running'[t]]
      /\ running'[t].pc \notin Dropping \cup {"release"}
  <2>1. CASE Lookup(t)
    <3> DEFINE k == [j EXCEPT !.pc = IF j.node \in registered THEN "snapshot" ELSE "discover"]
    <3>1. running' = [running EXCEPT ![t] = k]
      BY <2>1, Zenon DEF Lookup, Go
    <3> HIDE DEF j
    <3>2. k.pc \in Elsewhere
      BY <1>2, Zenon DEF TaskFields, Elsewhere
    <3> QED BY <3>1, <3>2, GoesOn, ZenonT(20)
  <2>2. CASE Discover(t)
    <3>1. ASSUME NEW p, running' = [running EXCEPT ![t].pc = "remember", ![t].other = p,
                                                   ![t].then = "snapshot"]
          PROVE  /\ running' = [running EXCEPT ![t] = running'[t]]
                 /\ running'[t].pc \notin Dropping \cup {"release"}
      <4> DEFINE k == [j EXCEPT !.pc = "remember", !.other = p, !.then = "snapshot"]
      <4>1. running' = [running EXCEPT ![t] = k]
        BY <3>1, ZenonT(20) DEF RegistryInv, TasksInv
      <4> HIDE DEF j
      <4>2. k.pc \in Elsewhere
        BY <1>2, Zenon DEF TaskFields, Elsewhere
      <4> QED BY <4>1, <4>2, GoesOn, ZenonT(20)
    <3> QED BY <2>2, <3>1, Ends, ZenonT(20) DEF Discover
  <2>3. CASE Remember(t)
    <3>1. CASE Go(t, "reserve")
      <4> DEFINE k == [j EXCEPT !.pc = "reserve"]
      <4>1. running' = [running EXCEPT ![t] = k]
        BY <3>1, Zenon DEF Go
      <4> HIDE DEF j
      <4>2. k.pc \in Elsewhere
        BY <1>2, Zenon DEF TaskFields, Elsewhere
      <4> QED BY <4>1, <4>2, GoesOn, ZenonT(20)
    <3>2. CASE running' = [running EXCEPT ![t].pc = "track", ![t].other = NoNode]
      <4> DEFINE k == [j EXCEPT !.pc = "track", !.other = NoNode]
      <4>1. running' = [running EXCEPT ![t] = k]
        BY <3>2, ZenonT(20) DEF RegistryInv, TasksInv
      <4> HIDE DEF j
      <4>2. k.pc \in Elsewhere
        BY <1>2, Zenon DEF TaskFields, Elsewhere
      <4> QED BY <4>1, <4>2, GoesOn, ZenonT(20)
    <3> QED BY <2>3, <3>1, <3>2, Zenon DEF Remember
  <2>4. CASE Snapshot(t)
    <3> DEFINE k == IF j.op = "access" THEN [j EXCEPT !.pc = "track", !.then = "end"]
                    ELSE [j EXCEPT !.pc = "track", !.then = "finish", !.snapshot = paths[j.node]]
    <3>1. End(t) \/ running' = [running EXCEPT ![t] = k]
      BY <2>4, Zenon DEF Snapshot
    <3> HIDE DEF j
    <3>2. k.pc \in Elsewhere
      <4>1. k.pc = "track"
        BY <1>2, Zenon DEF TaskFields
      <4> QED BY <4>1, Zenon DEF Elsewhere
    <3> HIDE DEF k
    <3> QED BY <3>1, <3>2, GoesOn, Ends, Zenon
  <2>5. CASE Track(t)
    <3> DEFINE k == IF j.node \in known[j.session] THEN Proceed(j) ELSE [j EXCEPT !.pc = "permit"]
    <3>1. running' = [running EXCEPT ![t] = k]
      BY <2>5, Zenon DEF Track
    <3> HIDE DEF j
    <3>2. k.pc \in Elsewhere
      BY <1>2, RestFacts, Zenon DEF TaskFields, Elsewhere, Proceed
    <3> HIDE DEF k
    <3> QED BY <3>1, <3>2, GoesOn, ZenonT(20)
  <2> QED BY <2>1, <2>2, <2>3, <2>4, <2>5
<1> QED BY <1>1, <1>3, QuietStep, Zenon

LEMMA QuietPermits ==
    ASSUME RegistryInv, CountsInv, NEW t \in Requesters, running[t] # AtRest,
           \/ TakeSessionPermit(t) \/ SessionFull(t) \/ TakeGlobalPermit(t) \/ EvictGlobalNode(t)
           \/ GlobalFull(t) \/ Insert(t)
    PROVE  CountsInv'
<1> DEFINE j == running[t]
<1>1. /\ running[t].pc # "release" /\ UNCHANGED << known, changes >>
  BY Zenon DEF TakeSessionPermit, SessionFull, SessionExhausted, TakeGlobalPermit, EvictGlobalNode,
         GlobalFull, GlobalExhausted, Insert, registry, connection
<1>2. UNCHANGED refs
  <2>1. CASE EvictGlobalNode(t)
    <3>1. PICK n \in registered : refs[n] = 0 /\ refs' = [refs EXCEPT ![n] = 0]
      BY <2>1, ZenonT(20) DEF EvictGlobalNode, Unreferenced
    <3> QED BY <3>1, Zenon DEF RegistryInv, ShapeInv
  <2> QED BY <2>1, Zenon DEF TakeSessionPermit, SessionFull, TakeGlobalPermit, GlobalFull, Insert, registry
<1>3. DOMAIN j = TaskFields
  BY LiveTask, Zenon DEF IsTask
<1>4. /\ running' = [running EXCEPT ![t] = running'[t]]
      /\ running'[t].pc \notin Dropping \cup {"release"}
  <2>1. CASE TakeSessionPermit(t)
    <3> DEFINE k == [j EXCEPT !.sessionPermit = 1,
                              !.pc = IF j.pc = "reserve" THEN "global" ELSE "admit"]
    <3>1. running' = [running EXCEPT ![t] = k]
      BY <2>1, ZenonT(20) DEF TakeSessionPermit, RegistryInv, TasksInv
    <3> HIDE DEF j
    <3>2. k.pc \in Elsewhere
      BY <1>3, Zenon DEF TaskFields, Elsewhere
    <3> QED BY <3>1, <3>2, GoesOn, ZenonT(20)
  <2>2. CASE TakeGlobalPermit(t)
    <3> DEFINE k == [j EXCEPT !.globalPermit = 1,
                              !.pc = IF j.op = "create" THEN "create" ELSE "insert"]
    <3>1. running' = [running EXCEPT ![t] = k]
      BY <2>2, ZenonT(20) DEF TakeGlobalPermit, RegistryInv, TasksInv
    <3> HIDE DEF j
    <3>2. k.pc \in Elsewhere
      BY <1>3, Zenon DEF TaskFields, Elsewhere
    <3> QED BY <3>1, <3>2, GoesOn, ZenonT(20)
  <2>3. CASE EvictGlobalNode(t)
    <3> DEFINE k == [j EXCEPT !.pc = "again"]
    <3>1. running' = [running EXCEPT ![t] = k]
      BY <2>3, Zenon DEF EvictGlobalNode, Go
    <3> HIDE DEF j
    <3>2. k.pc \in Elsewhere
      BY <1>3, Zenon DEF TaskFields, Elsewhere
    <3> QED BY <3>1, <3>2, GoesOn, ZenonT(20)
  <2>4. CASE Insert(t)
    <3> DEFINE k == [j EXCEPT !.pc = "admit", !.other = NoNode, !.globalPermit = 0]
    <3>1. running' = [running EXCEPT ![t] = k]
      BY <2>4, ZenonT(20) DEF Insert, RegistryInv, TasksInv
    <3> HIDE DEF j
    <3>2. k.pc \in Elsewhere
      BY <1>3, Zenon DEF TaskFields, Elsewhere
    <3> QED BY <3>1, <3>2, GoesOn, ZenonT(20)
  <2>5. CASE SessionFull(t) \/ GlobalFull(t)
    BY <2>5, Ends, Zenon DEF SessionFull, GlobalFull
  <2> QED BY <2>1, <2>2, <2>3, <2>4, <2>5, ZenonT(20)
<1> QED BY <1>1, <1>2, <1>4, QuietStep, Zenon

LEMMA QuietHandlers ==
    ASSUME RegistryInv, CountsInv, NEW t \in Requesters, running[t] # AtRest,
           FinishOpen(t) \/ FinishLink(t) \/ CreateEntry(t) \/ FinishCreate(t)
    PROVE  CountsInv'
<1> DEFINE j == running[t]
<1>1. /\ running[t].pc # "release" /\ UNCHANGED << known, refs, changes >>
  BY ZenonT(20) DEF FinishOpen, FinishLink, CreateEntry, FinishCreate
<1>2. DOMAIN j = TaskFields
  BY LiveTask, Zenon DEF IsTask
<1>3. /\ running' = [running EXCEPT ![t] = running'[t]]
      /\ running'[t].pc \notin Dropping \cup {"release"}
  <2>1. CASE FinishOpen(t) \/ FinishCreate(t)
    BY <2>1, Ends, ZenonT(20) DEF FinishOpen, FinishCreate
  <2>2. CASE FinishLink(t)
    <3> DEFINE k == [j EXCEPT !.pc = "remember", !.other = j.path, !.op = "access", !.then = "lookup",
                              !.path = NoNode, !.snapshot = {}]
    <3>1. End(t) \/ running' = [running EXCEPT ![t] = k]
      BY <2>2 DEF FinishLink, RegistryInv, TasksInv
    <3> HIDE DEF j
    <3>2. k.pc \in Elsewhere
      BY <1>2, Zenon DEF TaskFields, Elsewhere
    <3> HIDE DEF k
    <3> QED BY <3>1, <3>2, GoesOn, Ends
  <2>3. CASE CreateEntry(t)
    <3>1. ASSUME NEW n, running' = [running EXCEPT ![t].pc = "insert", ![t].node = n, ![t].then = "created"]
          PROVE  /\ running' = [running EXCEPT ![t] = running'[t]]
                 /\ running'[t].pc \notin Dropping \cup {"release"}
      <4> DEFINE k == [j EXCEPT !.pc = "insert", !.node = n, !.then = "created"]
      <4>1. running' = [running EXCEPT ![t] = k]
        BY <3>1, ZenonT(20) DEF RegistryInv, TasksInv
      <4> HIDE DEF j
      <4>2. k.pc \in Elsewhere
        BY <1>2, Zenon DEF TaskFields, Elsewhere
      <4> QED BY <4>1, <4>2, GoesOn, ZenonT(20)
    <3> QED BY <2>3, <3>1, Ends, ZenonT(20) DEF CreateEntry
  <2> QED BY <2>1, <2>2, <2>3, Zenon
<1> QED BY <1>1, <1>3, QuietStep, Zenon

\* Requests that change the tree drop nodes whatever their count, and are no longer counted.
LEMMA DropCounts ==
    ASSUME RegistryInv, CountsInv, NEW t \in Requesters,
           Unregister(t) \/ RenameEntry(t) \/ UpdateAfterRename(t)
    PROVE  CountsInv'
<1>1. /\ running[t].pc \in Dropping /\ running[t].pc # "release" /\ UNCHANGED << known, changes >>
  BY Zenon DEF Unregister, RenameEntry, UpdateAfterRename, connection, Dropping
<1>2. changes' \in Nat /\ changes' # 0
  BY <1>1, ZenonT(20) DEF CountsInv
<1>3. CASE running' = [running EXCEPT ![t] = AtRest]
  <2>1. AtRest.pc # "release"
    BY RestFacts, Zenon
  <2> QED BY <1>1, <1>2, <1>3, <2>1, QuietCounts, ZenonT(20)
<1>4. CASE running[t].pc = "rename" /\ Go(t, "renamed")
  <2> DEFINE k == [running[t] EXCEPT !.pc = "renamed"]
  <2>1. running' = [running EXCEPT ![t] = k]
    BY <1>4, Zenon DEF Go
  <2>2. IsSlot(running[t]) /\ running[t] # AtRest
    BY <1>4, RestFacts, Zenon DEF RegistryInv, TasksInv
  <2>3. DOMAIN running[t] = TaskFields
    BY <2>2, Zenon DEF IsSlot, IsTask
  <2>4. k.pc # "release"
    BY <2>3, Zenon DEF TaskFields
  <2> HIDE DEF k
  <2> QED BY <1>1, <1>2, <2>1, <2>4, QuietCounts, ZenonT(20)
<1> QED BY <1>3, <1>4, Zenon DEF Unregister, RenameEntry, UpdateAfterRename

LEMMA QuietRequests ==
    ASSUME RegistryInv, CountsInv, NEW t \in Requesters, NEW s \in Connections,
           \/ \E n \in Nodes : Access(t, s, n) \/ OpenNode(t, s, n)
           \/ \E p \in Paths : Scan(t, s, p)
    PROVE  CountsInv'
<1>1. running[t] = AtRest /\ UNCHANGED << known, refs, changes >>
  BY Zenon DEF Access, OpenNode, Scan, Start, registry, connection
<1>2. running[t].pc # "release"
  BY <1>1, RestFacts, ZenonT(20)
<1>3. ASSUME NEW pc \in {"lookup", "remember"}, NEW op, NEW node, NEW path,
             running' = [running EXCEPT ![t] = Task(s, pc, op, node, path)]
      PROVE  CountsInv'
  <2>1. Task(s, pc, op, node, path).pc \in Elsewhere
    BY Zenon DEF Task, Elsewhere
  <2>2. /\ running' = [running EXCEPT ![t] = running'[t]]
        /\ running'[t].pc \notin Dropping \cup {"release"}
    BY <1>3, <2>1, GoesOn, ZenonT(20)
  <2> QED BY <1>1, <1>2, <2>2, QuietStep
<1> QED BY <1>3, ZenonT(20) DEF Access, OpenNode, Scan, Start

LEMMA ChangingRequests ==
    ASSUME RegistryInv, CountsInv, NEW t \in Requesters, NEW s \in Connections, NEW p \in Paths,
           \/ Create(t, s, p) \/ Remove(t, s, p) \/ \E n \in Nodes : Link(t, s, n, p)
           \/ \E q \in Paths, mode \in RenameModes : Rename(t, s, p, q, mode)
    PROVE  CountsInv'
<1>1. running[t] = AtRest /\ changes' = changes + 1 /\ UNCHANGED known
  BY ZenonT(20) DEF Create, Remove, Link, Rename, Start, Change, connection
<1>2. changes' \in Nat /\ changes' # 0
  BY <1>1 DEF CountsInv
<1>3. running[t].pc # "release"
  BY <1>1, RestFacts, Zenon
<1>4. ASSUME NEW k, running' = [running EXCEPT ![t] = k], k.pc # "release" PROVE CountsInv'
  BY <1>1, <1>2, <1>3, <1>4, QuietCounts, ZenonT(20)
<1>5. CASE Create(t, s, p)
  <2>1. running' = [running EXCEPT ![t] = Task(s, "reserve", "create", NoNode, p)]
    BY <1>5, Zenon DEF Create, Start
  <2>2. Task(s, "reserve", "create", NoNode, p).pc # "release"
    BY Zenon DEF Task
  <2> QED BY <1>4, <2>1, <2>2, ZenonT(20)
<1>6. CASE Remove(t, s, p)
  <2>1. running' = [running EXCEPT ![t] = Task(s, "unregister", "remove", tree[p], p)]
    BY <1>6, Zenon DEF Remove, Start
  <2>2. Task(s, "unregister", "remove", tree[p], p).pc # "release"
    BY Zenon DEF Task
  <2> QED BY <1>4, <2>1, <2>2, ZenonT(20)
<1>7. ASSUME NEW n \in Nodes, Link(t, s, n, p) PROVE CountsInv'
  <2>1. running' = [running EXCEPT ![t] = Task(s, "lookup", "link", n, p)]
    BY <1>7, Zenon DEF Link, Start
  <2>2. Task(s, "lookup", "link", n, p).pc # "release"
    BY Zenon DEF Task
  <2> QED BY <1>4, <2>1, <2>2, ZenonT(20)
<1>8. ASSUME NEW q \in Paths, NEW mode, Rename(t, s, p, q, mode) PROVE CountsInv'
  <2> DEFINE k == [Task(s, "rename", "rename", tree[p], p)
                     EXCEPT !.other = q, !.mode = mode, !.target = tree[q]]
  <2>1. running' = [running EXCEPT ![t] = k]
    BY <1>8, ZenonT(20) DEF Rename, Start
  <2>2. k.pc # "release"
    BY Zenon DEF Task
  <2> HIDE DEF k
  <2> QED BY <1>4, <2>1, <2>2, ZenonT(20)
<1> QED BY <1>5, <1>6, <1>7, <1>8

\* What a step makes of the sessions and the releases of one node.
LEMMA CountFacts ==
    ASSUME RegistryInv, CountsInv, NEW n \in Nodes
    PROVE  /\ Cardinality(Trackers(n)) \in Nat /\ Cardinality(Releasing(n)) \in Nat
           /\ IsFiniteSet(Trackers(n)) /\ IsFiniteSet(Releasing(n)) /\ refs[n] \in Nat
           /\ Trackers(n) # {} => Cardinality(Trackers(n)) > 0
           /\ Releasing(n) # {} => Cardinality(Releasing(n)) > 0
           /\ changes = 0 => refs[n] = Cardinality(Trackers(n)) + Cardinality(Releasing(n))
<1>1. IsFiniteSet(Trackers(n)) /\ IsFiniteSet(Releasing(n))
  BY Zenon DEF CountsInv
<1>2. Cardinality(Trackers(n)) \in Nat /\ Cardinality(Releasing(n)) \in Nat
  BY <1>1, FS_CardinalityType, Zenon
<1>3. /\ Trackers(n) # {} => Cardinality(Trackers(n)) # 0
      /\ Releasing(n) # {} => Cardinality(Releasing(n)) # 0
  BY <1>1, FS_EmptySet, Zenon
<1>4. refs[n] \in Nat
  BY Zenon DEF RegistryInv, ShapeInv
<1>5. changes = 0 => refs[n] = Cardinality(Trackers(n)) + Cardinality(Releasing(n))
  BY Zenon DEF CountsInv
<1> QED BY <1>1, <1>2, <1>3, <1>4, <1>5

\* A node that is referenced is registered.
LEMMA ReferencedIsRegistered ==
    ASSUME RegistryInv, NEW n \in Nodes, refs[n] > 0 PROVE n \in registered
BY DEF RegistryInv, ShapeInv

LEMMA EvictCounts ==
    ASSUME RegistryInv, CountsInv, NEW t \in Requesters, running[t] # AtRest, EvictSessionNode(t)
    PROVE  CountsInv'
<1> DEFINE s0 == running[t].session
<1>1. UNCHANGED << registered, running, changes >>
  BY Zenon DEF EvictSessionNode
<1>2. PICK n \in known[s0] :
            /\ known' = [known EXCEPT ![s0] = @ \ {n}]
            /\ refs' = [refs EXCEPT ![n] = IF n \in registered /\ @ > 0 THEN @ - 1 ELSE @]
  BY ZenonT(20) DEF EvictSessionNode, Unpinned
<1>3. s0 \in Connections
  BY LiveTask, Zenon DEF IsTask
<1> HIDE DEF s0
<1>4. known \in [Connections -> SUBSET Nodes] /\ refs \in [Nodes -> Nat]
  BY Zenon DEF RegistryInv, ShapeInv
<1>5. n \in Nodes /\ s0 \in Trackers(n)
  BY <1>2, <1>3, <1>4 DEF Trackers
<1>6. \A m : Releasing(m)' = Releasing(m)
  BY <1>1, Zenon DEF Releasing, Live
<1>7. Trackers(n)' = Trackers(n) \ {s0} /\ \A m : m # n => Trackers(m)' = Trackers(m)
  BY <1>2, <1>3, <1>4, Zenon DEF Trackers
<1>8. ASSUME NEW m \in Nodes
      PROVE  /\ IsFiniteSet(Trackers(m)') /\ IsFiniteSet(Releasing(m)')
             /\ changes = 0 => refs'[m] = Cardinality(Trackers(m)') + Cardinality(Releasing(m)')
  <2>1. /\ Cardinality(Trackers(m)) \in Nat /\ Cardinality(Releasing(m)) \in Nat
        /\ IsFiniteSet(Trackers(m)) /\ IsFiniteSet(Releasing(m)) /\ refs[m] \in Nat
        /\ Trackers(m) # {} => Cardinality(Trackers(m)) > 0
        /\ changes = 0 => refs[m] = Cardinality(Trackers(m)) + Cardinality(Releasing(m))
    BY CountFacts, Zenon
  <2>2. CASE m = n
    <3>1. /\ IsFiniteSet(Trackers(m)')
          /\ Cardinality(Trackers(m)') = Cardinality(Trackers(m)) - 1
      BY <1>5, <1>7, <2>1, <2>2, FS_RemoveElement
    <3>2. ASSUME changes = 0 PROVE refs'[m] = refs[m] - 1
      <4>1. refs[m] > 0
        BY <1>5, <2>1, <2>2, <3>2
      <4>2. m \in registered
        BY <4>1, ReferencedIsRegistered, Zenon
      <4> QED BY <1>2, <1>4, <2>2, <4>1, <4>2, Zenon
    <3> QED BY <1>6, <2>1, <3>1, <3>2
  <2>3. CASE m # n
    <3>1. refs'[m] = refs[m] /\ Trackers(m)' = Trackers(m)
      BY <1>2, <1>4, <1>7, <2>3
    <3> QED BY <1>6, <2>1, <3>1
  <2> QED BY <2>2, <2>3, Zenon
<1>9. changes' \in Nat /\ (changes' = 0 => \A u \in Requesters : running'[u].pc \notin Dropping)
  BY <1>1, Zenon DEF CountsInv
<1> QED BY <1>1, <1>8, <1>9, Zenon DEF CountsInv

LEMMA TrackCounts ==
    ASSUME RegistryInv, CountsInv, NEW t \in Requesters, running[t] # AtRest, TrackWithPermit(t)
    PROVE  CountsInv'
<1> DEFINE j == running[t]
           k == Proceed(j)
<1>1. running[t].pc = "admit" /\ UNCHANGED << registered, changes >>
  BY Zenon DEF TrackWithPermit
<1>2. DOMAIN j = TaskFields /\ j.session \in Connections
      /\ j.then \in {"end", "snapshot", "finish", "created", "lookup"}
  BY LiveTask, Zenon DEF IsTask
<1>3. \/ End(t) /\ UNCHANGED << refs, known >>
      \/ running' = [running EXCEPT ![t] = k] /\ UNCHANGED << refs, known >>
      \/ /\ running' = [running EXCEPT ![t] = k] /\ j.node \notin known[j.session] /\ j.node \in registered
         /\ refs' = [refs EXCEPT ![j.node] = @ + 1]
         /\ known' = [known EXCEPT ![j.session] = @ \cup {j.node}]
  BY Zenon DEF TrackWithPermit
<1> HIDE DEF j
<1>4. k.pc \in Elsewhere
  BY <1>2, RestFacts, Zenon DEF TaskFields, Elsewhere, Proceed
<1> HIDE DEF k
<1>5. /\ running' = [running EXCEPT ![t] = running'[t]]
      /\ running'[t].pc \notin Dropping \cup {"release"}
  BY <1>3, <1>4, GoesOn, Ends
<1>6. CASE UNCHANGED << refs, known >>
  BY <1>1, <1>5, <1>6, QuietStep
<1>7. ASSUME NEW n, NEW s0 \in Connections, n \notin known[s0], n \in registered,
             refs' = [refs EXCEPT ![n] = @ + 1], known' = [known EXCEPT ![s0] = @ \cup {n}]
      PROVE  CountsInv'
  <2>1. known \in [Connections -> SUBSET Nodes] /\ refs \in [Nodes -> Nat] /\ n \in Nodes
    BY <1>7, Zenon DEF RegistryInv, ShapeInv
  <2>2. \A u \in Requesters : u # t => running'[u] = running[u]
    BY <1>5, Zenon DEF RegistryInv, TasksInv
  <2>3. \A m : Releasing(m)' = Releasing(m)
    BY <1>1, <1>5, <2>2 DEF Releasing, Live
  <2>4. /\ Trackers(n)' = Trackers(n) \cup {s0} /\ s0 \notin Trackers(n)
        /\ \A m : m # n => Trackers(m)' = Trackers(m)
    <3>1. /\ known'[s0] = known[s0] \cup {n} /\ n \notin known[s0] /\ s0 \in Connections
          /\ \A s \in Connections : s # s0 => known'[s] = known[s]
      BY <1>7, <2>1, Zenon
    <3>2. Trackers(n)' = Trackers(n) \cup {s0}
      BY <3>1, Zenon DEF Trackers
    <3>3. s0 \notin Trackers(n)
      BY <3>1, Zenon DEF Trackers
    <3>4. ASSUME NEW m, m # n PROVE Trackers(m)' = Trackers(m)
      BY <3>1, <3>4 DEF Trackers
    <3> QED BY <3>2, <3>3, <3>4
  <2>5. ASSUME NEW m \in Nodes
        PROVE  /\ IsFiniteSet(Trackers(m)') /\ IsFiniteSet(Releasing(m)')
               /\ changes = 0 => refs'[m] = Cardinality(Trackers(m)') + Cardinality(Releasing(m)')
    <3>1. /\ Cardinality(Trackers(m)) \in Nat /\ Cardinality(Releasing(m)) \in Nat
          /\ IsFiniteSet(Trackers(m)) /\ IsFiniteSet(Releasing(m)) /\ refs[m] \in Nat
          /\ changes = 0 => refs[m] = Cardinality(Trackers(m)) + Cardinality(Releasing(m))
      BY CountFacts, Zenon
    <3>2. CASE m = n
      <4>1. IsFiniteSet(Trackers(m)') /\ Cardinality(Trackers(m)') = Cardinality(Trackers(m)) + 1
        <5>1. Trackers(m)' = Trackers(m) \cup {s0} /\ s0 \notin Trackers(m)
          BY <2>4, <3>2, Zenon
        <5>2. IsFiniteSet(Trackers(m))
          BY <3>1, Zenon
        <5> HIDE DEF Trackers
        <5> QED BY <5>1, <5>2, FS_AddElement
      <4>2. refs'[m] = refs[m] + 1
        BY <1>7, <2>1, <3>2
      <4> QED BY <2>3, <3>1, <4>1, <4>2
    <3>3. CASE m # n
      <4>1. refs'[m] = refs[m] /\ Trackers(m)' = Trackers(m)
        BY <1>7, <2>1, <2>4, <3>3
      <4> QED BY <2>3, <3>1, <4>1
    <3> QED BY <3>2, <3>3
  <2>6. changes' \in Nat /\ (changes' = 0 => \A u \in Requesters : running'[u].pc \notin Dropping)
    BY <1>1, <1>5, <2>2 DEF CountsInv
  <2> QED BY <1>1, <2>5, <2>6 DEF CountsInv
<1> QED BY <1>2, <1>3, <1>6, <1>7

\* A batch a session gives up is released by the request: the count stays right.
LEMMA GivenUpCounts ==
    ASSUME RegistryInv, CountsInv, NEW t \in Requesters, running[t] = AtRest, NEW k, k # AtRest,
           k.pc = "release", NEW batch, k.batch = batch, running' = [running EXCEPT ![t] = k],
           NEW s0 \in Connections, batch \subseteq known[s0],
           known' = [known EXCEPT ![s0] = @ \ batch], UNCHANGED << refs, changes >>
    PROVE  CountsInv'
<1>1. known \in [Connections -> SUBSET Nodes]
  BY Zenon DEF RegistryInv, ShapeInv
<1>2. running'[t] = k /\ \A u \in Requesters : u # t => running'[u] = running[u]
  BY Zenon DEF RegistryInv, TasksInv
<1>3. known'[s0] = known[s0] \ batch /\ \A s \in Connections : s # s0 => known'[s] = known[s]
  BY <1>1, Zenon
<1>4. ASSUME NEW m \in batch
      PROVE  /\ Trackers(m)' = Trackers(m) \ {s0} /\ s0 \in Trackers(m)
             /\ Releasing(m)' = Releasing(m) \cup {t} /\ t \notin Releasing(m)
  <2>1. Trackers(m)' = Trackers(m) \ {s0} /\ s0 \in Trackers(m)
    BY <1>3, Zenon DEF Trackers
  <2>2. Releasing(m)' = Releasing(m) \cup {t} /\ t \notin Releasing(m)
    BY <1>2, Zenon DEF Releasing, Live
  <2> QED BY <2>1, <2>2, Zenon
<1>5. ASSUME NEW m, m \notin batch PROVE Trackers(m)' = Trackers(m) /\ Releasing(m)' = Releasing(m)
  <2>1. Trackers(m)' = Trackers(m)
    BY <1>3, <1>5, Zenon DEF Trackers
  <2>2. Releasing(m)' = Releasing(m)
    BY <1>2, <1>5, Zenon DEF Releasing, Live
  <2> QED BY <2>1, <2>2, Zenon
<1>6. ASSUME NEW m \in Nodes
      PROVE  /\ IsFiniteSet(Trackers(m)') /\ IsFiniteSet(Releasing(m)')
             /\ changes = 0 => refs'[m] = Cardinality(Trackers(m)') + Cardinality(Releasing(m)')
  <2>1. /\ Cardinality(Trackers(m)) \in Nat /\ Cardinality(Releasing(m)) \in Nat
        /\ IsFiniteSet(Trackers(m)) /\ IsFiniteSet(Releasing(m)) /\ refs[m] \in Nat
        /\ changes = 0 => refs[m] = Cardinality(Trackers(m)) + Cardinality(Releasing(m))
    BY CountFacts, Zenon
  <2>2. CASE m \in batch
    <3>1. IsFiniteSet(Trackers(m)') /\ Cardinality(Trackers(m)') = Cardinality(Trackers(m)) - 1
      BY <1>4, <2>1, <2>2, FS_RemoveElement
    <3>2. IsFiniteSet(Releasing(m)') /\ Cardinality(Releasing(m)') = Cardinality(Releasing(m)) + 1
      BY <1>4, <2>1, <2>2, FS_AddElement
    <3> QED BY <2>1, <3>1, <3>2
  <2>3. CASE m \notin batch
    BY <1>5, <2>1, <2>3
  <2> QED BY <2>2, <2>3, Zenon
<1>7. changes' \in Nat /\ (changes' = 0 => \A u \in Requesters : running'[u].pc \notin Dropping)
  <2>1. "release" \notin Dropping
    BY Zenon DEF Dropping
  <2> QED BY <1>2, <2>1, Zenon DEF CountsInv
<1> QED BY <1>6, <1>7, Zenon DEF CountsInv

LEMMA ForgetCounts ==
    ASSUME RegistryInv, CountsInv, NEW t \in Requesters, NEW s0 \in Connections,
           (\E batch \in SUBSET known[s0] : Forget(t, s0, batch)) \/ DropSession(t, s0)
    PROVE  CountsInv'
<1>1. ASSUME NEW op, op # "link", NEW batch, batch \subseteq known[s0], running[t] = AtRest,
             known' = [known EXCEPT ![s0] = @ \ batch], UNCHANGED << refs, changes >>,
             running' = [running EXCEPT ![t] = [Task(s0, "release", op, NoNode, NoNode) EXCEPT !.batch = batch]]
      PROVE  CountsInv'
  <2> DEFINE k == [Task(s0, "release", op, NoNode, NoNode) EXCEPT !.batch = batch]
  <2>1. k.pc = "release" /\ k.batch = batch
    BY Zenon DEF Task
  <2>2. /\ running' = [running EXCEPT ![t] = k] /\ running[t] = AtRest /\ batch \subseteq known[s0]
        /\ known' = [known EXCEPT ![s0] = @ \ batch] /\ refs' = refs /\ changes' = changes
    BY <1>1, Zenon
  <2> HIDE DEF k
  <2>3. k # AtRest
    BY <2>1, RestFacts, Zenon
  <2> QED BY <2>1, <2>2, <2>3, GivenUpCounts, ZenonT(20)
<1>2. ASSUME NEW batch \in SUBSET known[s0], Forget(t, s0, batch) PROVE CountsInv'
  <2>1. batch \cap known[s0] = batch
    BY Zenon
  <2>2. /\ running[t] = AtRest /\ UNCHANGED << refs, changes >>
        /\ known' = [known EXCEPT ![s0] = @ \ batch]
        /\ running' = [running EXCEPT ![t] =
                         [Task(s0, "release", "forget", NoNode, NoNode) EXCEPT !.batch = batch]]
    BY <1>2, <2>1, ZenonT(20) DEF Forget, Start, registry
  <2> QED BY <1>1, <2>2, ZenonT(20)
<1>3. CASE DropSession(t, s0) /\ known[s0] = {}
  <2>1. /\ running[t] = AtRest /\ UNCHANGED << refs, changes >>
        /\ known' = [known EXCEPT ![s0] = {}]
        /\ running' = [running EXCEPT ![t] = AtRest]
    BY <1>3, Zenon DEF DropSession, Start, registry
  <2>2. known' = known
    BY <1>3, <2>1 DEF RegistryInv, ShapeInv
  <2>3. running[t].pc # "release"
    BY <2>1, RestFacts, Zenon
  <2>4. /\ running' = [running EXCEPT ![t] = running'[t]]
        /\ running'[t].pc \notin Dropping \cup {"release"}
    BY <2>1, Ends, ZenonT(20)
  <2> QED BY <2>1, <2>2, <2>3, <2>4, QuietStep, ZenonT(20)
<1>4. CASE DropSession(t, s0) /\ known[s0] # {}
  <2>1. known[s0] \ known[s0] = {}
    BY Zenon
  <2>2. /\ running[t] = AtRest /\ UNCHANGED << refs, changes >>
        /\ known' = [known EXCEPT ![s0] = @ \ known[s0]]
        /\ running' = [running EXCEPT ![t] =
                         [Task(s0, "release", "drop", NoNode, NoNode) EXCEPT !.batch = known[s0]]]
    BY <1>4, <2>1, ZenonT(20) DEF DropSession, Start, registry
  <2>3. ASSUME NEW batch, batch = known[s0] PROVE CountsInv'
    BY <1>1, <2>2, <2>3, ZenonT(20)
  <2> QED BY <2>3, Zenon
<1> QED BY <1>2, <1>3, <1>4, Zenon

\* One release takes one reference, and is one release less to come.
LEMMA ReleaseCounts ==
    ASSUME RegistryInv, CountsInv, NEW t \in Requesters, running[t] # AtRest, Release(t)
    PROVE  CountsInv'
<1> DEFINE j == running[t]
<1>1. j.pc = "release" /\ UNCHANGED << known, registered, changes >>
  BY Zenon DEF Release, connection
<1>2. DOMAIN j = TaskFields
  BY LiveTask, Zenon DEF IsTask
<1>3. PICK n \in j.batch :
        /\ refs' = IF n \in registered /\ refs[n] > 0 THEN [refs EXCEPT ![n] = @ - 1] ELSE refs
        /\ running' = [running EXCEPT ![t] =
               IF j.batch \ {n} = {} \/ (n \in registered /\ refs[n] = 0 /\ j.op = "forget")
               THEN AtRest ELSE [j EXCEPT !.batch = j.batch \ {n}]]
  BY ZenonT(20) DEF Release
<1>4. PICK k : /\ running' = [running EXCEPT ![t] = k]
               /\ k = IF j.batch \ {n} = {} \/ (n \in registered /\ refs[n] = 0 /\ j.op = "forget")
                      THEN AtRest ELSE [j EXCEPT !.batch = j.batch \ {n}]
  BY <1>3, ZenonT(20)
<1>5. running'[t] = k /\ \A u \in Requesters : u # t => running'[u] = running[u]
  BY <1>4, Zenon DEF RegistryInv, TasksInv
<1>6. \/ k = AtRest
      \/ k.pc = "release" /\ k.batch = j.batch \ {n} /\ k # AtRest
  <2>1. CASE k # AtRest
    <3>1. k = [j EXCEPT !.batch = j.batch \ {n}]
      BY <1>4, <2>1, Zenon
    <3>2. k.pc = "release" /\ k.batch = j.batch \ {n}
      <4> HIDE DEF j
      <4> QED BY <1>1, <1>2, <3>1, Zenon DEF TaskFields
    <3> QED BY <2>1, <3>2, Zenon
  <2> QED BY <2>1, Zenon
<1>7. \A m : Trackers(m)' = Trackers(m)
  BY <1>1, Zenon DEF Trackers
<1>8. ASSUME NEW m PROVE t \in Releasing(m) <=> m \in j.batch
  BY <1>1, Zenon DEF Releasing, Live
<1>9. ASSUME NEW m PROVE Releasing(m)' = Releasing(m) \/ Releasing(m)' = Releasing(m) \ {t}
  BY <1>1, <1>5, <1>6, Zenon DEF Releasing, Live
<1>10. t \notin Releasing(n)'
  BY <1>5, <1>6, Zenon DEF Releasing, Live
<1>11. ASSUME NEW m \in Nodes PROVE IsFiniteSet(Trackers(m)') /\ IsFiniteSet(Releasing(m)')
  <2>1. IsFiniteSet(Trackers(m)) /\ IsFiniteSet(Releasing(m))
    BY CountFacts, ZenonT(20)
  <2>2. IsFiniteSet(Releasing(m) \ {t})
    BY <2>1, FS_RemoveElement, Zenon
  <2> QED BY <1>7, <1>9, <2>1, <2>2
<1>12. ASSUME changes = 0, NEW m \in Nodes
       PROVE  refs'[m] = Cardinality(Trackers(m)') + Cardinality(Releasing(m)')
  <2>1. /\ Cardinality(Trackers(m)) \in Nat /\ Cardinality(Releasing(m)) \in Nat
        /\ IsFiniteSet(Releasing(m)) /\ refs[m] \in Nat
        /\ Releasing(m) # {} => Cardinality(Releasing(m)) > 0
        /\ refs[m] = Cardinality(Trackers(m)) + Cardinality(Releasing(m))
    BY <1>12, CountFacts, Zenon
  <2>2. refs \in [Nodes -> Nat]
    BY Zenon DEF RegistryInv, ShapeInv
  <2>3. CASE m = n
    <3>1. t \in Releasing(m)
      BY <1>8, <2>3, Zenon
    <3>2. refs[m] > 0
      BY <2>1, <3>1
    <3>3. m \in registered
      BY <3>2, ReferencedIsRegistered, Zenon
    <3>4. refs'[m] = refs[m] - 1
      BY <1>3, <2>2, <2>3, <3>2, <3>3
    <3>5. Releasing(m)' = Releasing(m) \ {t}
      BY <1>9, <1>10, <2>3, <3>1, Zenon
    <3>6. Cardinality(Releasing(m)') = Cardinality(Releasing(m)) - 1
      BY <2>1, <3>1, <3>5, FS_RemoveElement, ZenonT(20)
    <3> QED BY <1>7, <2>1, <3>4, <3>6
  <2>4. CASE m # n
    <3>1. refs'[m] = refs[m]
      BY <1>3, <2>2, <2>4, Zenon
    <3>2. ASSUME m \in j.batch PROVE k.pc = "release" /\ k.batch = j.batch \ {n} /\ k # AtRest
      <4>1. j.batch \ {n} # {}
        BY <2>4, <3>2, Zenon
      <4>2. CASE n \in registered
        <5>1. n \in Nodes
          BY <4>2, Zenon DEF RegistryInv, ShapeInv
        <5>2. t \in Releasing(n)
          BY <1>8, Zenon
        <5>3. refs[n] # 0
          BY <1>12, <5>1, <5>2, CountFacts
        <5>4. k = [j EXCEPT !.batch = j.batch \ {n}]
          BY <1>4, <4>1, <5>3
        <5>5. k.pc = "release" /\ k.batch = j.batch \ {n}
          <6> HIDE DEF j
          <6> QED BY <1>1, <1>2, <5>4 DEF TaskFields
        <5> QED BY <5>5, RestFacts, Zenon
      <4>3. CASE n \notin registered
        <5>4. k = [j EXCEPT !.batch = j.batch \ {n}]
          BY <1>4, <4>1, <4>3
        <5>5. k.pc = "release" /\ k.batch = j.batch \ {n}
          <6> HIDE DEF j
          <6> QED BY <1>1, <1>2, <5>4 DEF TaskFields
        <5> QED BY <5>5, RestFacts, Zenon
      <4> QED BY <4>2, <4>3, Zenon
    <3>3. Releasing(m)' = Releasing(m)
      <4>1. CASE m \in j.batch
        <5>1. t \in Releasing(m)'
          BY <1>5, <2>4, <3>2, <4>1, Zenon DEF Releasing, Live
        <5> QED BY <1>9, <5>1, Zenon
      <4>2. CASE m \notin j.batch
        <5>1. t \notin Releasing(m)
          BY <1>8, <4>2, Zenon
        <5> QED BY <1>9, <5>1, Zenon
      <4> QED BY <4>1, <4>2, Zenon
    <3> QED BY <1>7, <2>1, <3>1, <3>3, Zenon
  <2> QED BY <2>3, <2>4, Zenon
<1>13. changes' \in Nat /\ (changes' = 0 => \A u \in Requesters : running'[u].pc \notin Dropping)
  <2>1. "release" \notin Dropping /\ AtRest.pc \notin Dropping
    BY RestFacts, Zenon DEF Dropping
  <2> QED BY <1>1, <1>5, <1>6, <2>1, Zenon DEF CountsInv
<1> QED BY <1>1, <1>11, <1>12, <1>13 DEF CountsInv

-----------------------------------------------------------------------------
(* The theorem *)

LEMMA CountsKept ==
    ASSUME CountsInv, UNCHANGED << known, refs, running, changes >> PROVE CountsInv'
<1>1. \A n : Trackers(n)' = Trackers(n) /\ Releasing(n)' = Releasing(n)
  BY Zenon DEF Trackers, Releasing, Live
<1> QED BY <1>1, Zenon DEF CountsInv

LEMMA CountsStep ==
    ASSUME RegistryInv, CountsInv, [RegistryNext]_registryVars PROVE CountsInv'
<1>1. ASSUME NEW t \in Requesters, running[t] # AtRest, Step(t) PROVE CountsInv'
  <2>1. CASE Lookup(t) \/ Discover(t) \/ Remember(t) \/ Snapshot(t) \/ Track(t)
    BY <1>1, <2>1, QuietWalk, Zenon
  <2>2. CASE \/ TakeSessionPermit(t) \/ SessionFull(t) \/ TakeGlobalPermit(t) \/ EvictGlobalNode(t)
             \/ GlobalFull(t) \/ Insert(t)
    BY <1>1, <2>2, QuietPermits, Zenon
  <2>3. CASE EvictSessionNode(t) \/ TrackWithPermit(t) \/ Release(t)
    BY <1>1, <2>3, EvictCounts, TrackCounts, ReleaseCounts, Zenon
  <2>4. CASE FinishOpen(t) \/ FinishLink(t) \/ CreateEntry(t) \/ FinishCreate(t)
    BY <1>1, <2>4, QuietHandlers, Zenon
  <2>5. CASE Unregister(t) \/ RenameEntry(t) \/ UpdateAfterRename(t)
    BY <2>5, DropCounts, Zenon
  <2> QED BY <1>1, <2>1, <2>2, <2>3, <2>4, <2>5, Zenon DEF Step
<1>2. ASSUME NEW t \in Requesters, NEW s \in Connections, Request(t, s) PROVE CountsInv'
  <2>1. CASE \/ \E n \in Nodes : Access(t, s, n) \/ OpenNode(t, s, n)
             \/ \E p \in Paths : Scan(t, s, p)
    BY <2>1, QuietRequests, Zenon
  <2>2. CASE \E p \in Paths :
               \/ Create(t, s, p) \/ Remove(t, s, p) \/ \E n \in Nodes : Link(t, s, n, p)
               \/ \E q \in Paths, mode \in RenameModes : Rename(t, s, p, q, mode)
    BY <2>2, ChangingRequests, Zenon
  <2>3. CASE (\E batch \in SUBSET known[s] : Forget(t, s, batch)) \/ DropSession(t, s)
    BY <2>3, ForgetCounts, Zenon
  <2> QED BY <1>2, <2>1, <2>2, <2>3, Zenon DEF Request
<1>3. ASSUME NEW s \in Connections, NEW n \in Nodes, CloseNode(s, n) PROVE CountsInv'
  <2>1. UNCHANGED << known, refs, running, changes >>
    BY <1>3, Zenon DEF CloseNode, registry
  <2> QED BY <2>1, CountsKept, Zenon
<1>4. CASE UNCHANGED registryVars
  <2>1. UNCHANGED << known, refs, running, changes >>
    BY <1>4, Zenon DEF registryVars
  <2> QED BY <2>1, CountsKept, Zenon
<1> QED BY <1>1, <1>2, <1>3, <1>4, Zenon DEF RegistryNext

LEMMA CountsStart ==
    ASSUME RegistryInit PROVE CountsInv
<1>1. \A n : Trackers(n) = {} /\ Releasing(n) = {}
  BY ZenonT(20) DEF RegistryInit, Trackers, Releasing, Live
<1>2. \A t \in Requesters : running[t].pc \notin Dropping
  BY RestFacts, Zenon DEF RegistryInit, Dropping
<1> QED BY <1>1, <1>2, FS_EmptySet DEF CountsInv, RegistryInit

\* What the invariant says of the registry.
LEMMA IntactFromInv ==
    ASSUME RegistryConstants, RegistryInv, CountsInv PROVE RegistryIntact
<1>1. /\ globalFree + Cardinality(registered) + Cardinality(GlobalHolders) = MaxTotal
      /\ \A s \in Connections :
           sessionFree[s] + Cardinality(known[s]) + Cardinality(SessionHolders(s)) = MaxKnown
      /\ globalFree \in Nat /\ sessionFree \in [Connections -> Nat]
      /\ MaxTotal \in Nat /\ MaxKnown \in Nat
  BY Zenon DEF RegistryInv, LedgerInv, RegistryConstants
<1>2. /\ Cardinality(registered) \in Nat /\ Cardinality(GlobalHolders) \in Nat
      /\ \A s \in Connections : Cardinality(known[s]) \in Nat /\ Cardinality(SessionHolders(s)) \in Nat
  BY FS_CardinalityType, Zenon DEF RegistryInv, LedgerInv
<1>3. globalFree \in 0 .. MaxTotal
  BY <1>1, <1>2
<1>4. sessionFree \in [Connections -> 0 .. MaxKnown]
  <2>1. ASSUME NEW s \in Connections PROVE sessionFree[s] \in 0 .. MaxKnown
    BY <1>1, <1>2
  <2> QED BY <1>1, <2>1, Zenon
<1>5. \A t \in Live : running[t].session \in Connections
  BY LiveTask, Zenon DEF Live, IsTask
<1>6. RegistryTypeOK /\ RegisteredHasPath
  BY <1>3, <1>4, <1>5, Zenon DEF RegistryInv, ShapeInv, RegistryTypeOK
<1>7. PermitsConserved
  BY <1>1, Zenon DEF PermitsConserved, GlobalHolders, SessionHolders
<1>8. ReferencesCounted
  <2>1. \A n : Holders(n) = Cardinality(Trackers(n)) + Cardinality(Releasing(n))
    BY Zenon DEF Holders, Trackers, Releasing
  <2> QED BY <2>1, Zenon DEF CountsInv, ReferencesCounted
<1> QED BY <1>6, <1>7, <1>8, Zenon DEF RegistryIntact

\* For any number of files, sessions and requests and any size of the two pools, no path
\* through the handlers of server-core loses or makes up a permit, a registered node has a
\* path, nothing is kept for a node outside the registry, the pools stay within their sizes,
\* and session_references is exact until the tree changes.
THEOREM RegistryStaysIntact ==
    ASSUME RegistryConstants PROVE RegistrySpec => []RegistryIntact
<1>1. RegistryInit => RegistryInv /\ CountsInv
  BY RegistryStart, CountsStart, Zenon
<1>2. RegistryInv /\ CountsInv /\ [RegistryNext]_registryVars => RegistryInv' /\ CountsInv'
  BY RegistryStep, CountsStep, Zenon
<1>3. RegistryInv /\ CountsInv => RegistryIntact
  BY IntactFromInv, Zenon
<1> QED BY <1>1, <1>2, <1>3, PTL DEF RegistrySpec
=============================================================================
