---------------------------- MODULE NodeRegistry ----------------------------
(***************************************************************************)
(* The node registry of server-core: which files the export knows (by_node *)
(* with its paths, reference counts and global permits), which of them     *)
(* each connection tracks (known_nodes with its permits), and the requests *)
(* that change either.                                                     *)
(*                                                                         *)
(* stable_node_id is injective, so a node stands for its FileIdentity and  *)
(* by_identity for by_node.  An inode number is free for reuse once no     *)
(* path and no open file refers to it.  The tree is flat: every path is an *)
(* entry of the root, which every session knows without a permit.          *)
(*                                                                         *)
(* A request is a task.  Each of its steps is one critical section of the  *)
(* code (a mutex, a semaphore operation or a system call); `pc` names the  *)
(* next one, and `then` where to go once the node is tracked.              *)
(***************************************************************************)
EXTENDS Naturals, FiniteSets

CONSTANTS Connections,  \* of clients, each with an ExportSession
          Nodes,        \* file identities, without the root
          Paths,        \* entries of the root directory
          NoNode,       \* no file at a path
          InitialTree,  \* what the export holds before the first request
          Requesters,   \* the tasks that serve requests
          Requests,     \* the requests clients send
          RenameModes,
          MaxKnown,     \* max_known_nodes - 1: the root needs no permit
          MaxTotal,     \* max_total_known_nodes
          MaxChanges    \* bound: how many requests change the tree

RegistryConstants ==
    /\ NoNode \notin Nodes
    /\ InitialTree \in [Paths -> Nodes \cup {NoNode}]
    /\ RenameModes \subseteq {"Replace", "NoReplace", "Exchange"}
    /\ MaxKnown \in Nat /\ MaxTotal \in Nat /\ MaxChanges \in Nat
    /\ MaxKnown <= MaxTotal

VARIABLES tree,        \* what each path names
          registered,  \* the keys of by_node
          paths,       \* KnownNode.paths
          refs,        \* KnownNode.session_references
          globalFree,  \* permits left in the export's semaphore
          known,       \* the keys of each session's known_nodes
          sessionFree, \* permits left in each session's semaphore
          open,        \* the nodes of each session's open handles
          running,     \* the requests in progress
          changes      \* how many requests to change the tree were sent

registryVars == <<tree, registered, paths, refs, globalFree, known, sessionFree,
                  open, running, changes>>
registry == <<registered, paths, refs, globalFree>>
connection  == <<known, sessionFree, open>>

AtRest == [pc |-> "idle"]

\* A request of session s that starts at pc.
Task(s, pc, op, node, path) ==
    [pc |-> pc, session |-> s, op |-> op, node |-> node, path |-> path,
     other |-> path, mode |-> "Replace", target |-> NoNode, then |-> "end",
     snapshot |-> {}, batch |-> {}, sessionPermit |-> 0, globalPermit |-> 0]

RegistryInit ==
    /\ tree = InitialTree
    /\ registered = {}
    /\ paths = [n \in Nodes |-> {}]
    /\ refs = [n \in Nodes |-> 0]
    /\ globalFree = MaxTotal
    /\ known = [s \in Connections |-> {}]
    /\ sessionFree = [s \in Connections |-> MaxKnown]
    /\ open = [s \in Connections |-> {}]
    /\ running = [t \in Requesters |-> AtRest]
    /\ changes = 0

Entries == {p \in Paths : tree[p] # NoNode}

\* The number is taken while a path, an open handle or the descriptor of a
\* create in progress refers to the inode.
InUse(n) ==
    \/ \E p \in Paths : tree[p] = n
    \/ \E s \in Connections : n \in open[s]
    \/ \E t \in Requesters : running[t] # AtRest /\ running[t].op = "create"
                        /\ running[t].node = n

Go(t, pc) == running' = [running EXCEPT ![t].pc = pc]

\* The node is tracked and the permits are placed: on with the handler.
Proceed(task) ==
    IF task.then = "end" THEN AtRest
    ELSE [task EXCEPT !.pc = task.then, !.sessionPermit = 0]

\* The request ends, with whatever result, and drops the permits it holds.
End(t) ==
    /\ running' = [running EXCEPT ![t] = AtRest]
    /\ sessionFree' = [sessionFree EXCEPT ![running[t].session] =
                          @ + running[t].sessionPermit]
    /\ globalFree' = globalFree + running[t].globalPermit

-----------------------------------------------------------------------------
(***************************************************************************)
(* Requests                                                                *)
(***************************************************************************)
Start(t, request, task) ==
    /\ request \in Requests
    /\ running[t] = AtRest
    /\ running' = [running EXCEPT ![t] = task]

\* The bound on the requests that change the tree.
Change == changes < MaxChanges /\ changes' = changes + 1

\* metadata, and every other handler that begins with node_snapshot and
\* leaves the registry alone after it.
Access(t, s, n) ==
    /\ Start(t, "access", Task(s, "lookup", "access", n, NoNode))
    /\ UNCHANGED <<tree, registry, connection, changes>>

OpenNode(t, s, n) ==
    /\ Start(t, "open", Task(s, "lookup", "open", n, NoNode))
    /\ UNCHANGED <<tree, registry, connection, changes>>

\* One entry of a directory scan: what the stat saw is remembered later.
Scan(t, s, p) ==
    /\ tree[p] # NoNode
    /\ Start(t, "scan", Task(s, "remember", "scan", tree[p], p))
    /\ UNCHANGED <<tree, registry, connection, changes>>

\* create_file; the other creations differ in not opening the file.
Create(t, s, p) ==
    /\ Start(t, "create", Task(s, "reserve", "create", NoNode, p))
    /\ Change
    /\ UNCHANGED <<tree, registry, connection>>

Link(t, s, n, p) ==
    /\ Start(t, "link", Task(s, "lookup", "link", n, p))
    /\ Change
    /\ UNCHANGED <<tree, registry, connection>>

\* remove_node up to unlinkat.
Remove(t, s, p) ==
    /\ tree[p] # NoNode
    /\ Change
    /\ Start(t, "remove", Task(s, "unregister", "remove", tree[p], p))
    /\ tree' = [tree EXCEPT ![p] = NoNode]
    /\ UNCHANGED <<registry, connection>>

\* rename_node up to the two statat calls.
Rename(t, s, p, q, mode) ==
    /\ tree[p] # NoNode
    /\ p # q
    /\ Start(t, "rename",
             [Task(s, "rename", "rename", tree[p], p)
                EXCEPT !.other = q, !.mode = mode, !.target = tree[q]])
    /\ Change
    /\ UNCHANGED <<tree, registry, connection>>

\* forget_nodes under the mutex of known_nodes.
Forget(t, s, batch) ==
    LET released == batch \cap known[s]
    IN /\ released # {}
       /\ Start(t, "forget", [Task(s, "release", "forget", NoNode, NoNode)
                                EXCEPT !.batch = released])
       /\ known' = [known EXCEPT ![s] = @ \ released]
       /\ sessionFree' = [sessionFree EXCEPT ![s] = @ + Cardinality(released)]
       /\ UNCHANGED <<tree, registry, open, changes>>

\* close, as far as it concerns the registry.
CloseNode(s, n) ==
    /\ n \in open[s]
    /\ open' = [open EXCEPT ![s] = @ \ {n}]
    /\ UNCHANGED <<tree, registry, known, sessionFree, running, changes>>

\* The daemon has joined the connection's tasks and drops the ExportSession;
\* the client may come back with a new one.
DropSession(t, s) ==
    /\ \A u \in Requesters : running[u] # AtRest => running[u].session # s
    /\ known[s] # {} \/ open[s] # {}
    /\ Start(t, "drop", IF known[s] = {} THEN AtRest ELSE
                [Task(s, "release", "drop", NoNode, NoNode)
                   EXCEPT !.batch = known[s]])
    /\ known' = [known EXCEPT ![s] = {}]
    /\ sessionFree' = [sessionFree EXCEPT ![s] = MaxKnown]
    /\ open' = [open EXCEPT ![s] = {}]
    /\ UNCHANGED <<tree, registry, changes>>

-----------------------------------------------------------------------------
(***************************************************************************)
(* node_snapshot, discover_node, remember                                  *)
(***************************************************************************)
Lookup(t) ==
    /\ running[t].pc = "lookup"
    /\ Go(t, IF running[t].node \in registered THEN "snapshot" ELSE "discover")
    /\ UNCHANGED <<tree, registry, connection, changes>>

\* discover_node walks the export.  It gives up after max_total_known_nodes
\* entries.
Discover(t) ==
    LET found == {p \in Paths : tree[p] = running[t].node}
    IN /\ running[t].pc = "discover"
       /\ \/ \E p \in found :
                /\ running' = [running EXCEPT ![t].pc = "remember", ![t].other = p,
                                          ![t].then = "snapshot"]
                /\ UNCHANGED <<sessionFree, globalFree>>
          \/ found = {} /\ End(t)
          \/ Cardinality(Entries) > MaxTotal /\ End(t)
       /\ UNCHANGED <<tree, registered, paths, refs, known, open, changes>>

\* remember: the path in hand is `other`.
Remember(t) ==
    LET n == running[t].node
    IN /\ running[t].pc = "remember"
       /\ IF n \in registered
          THEN /\ paths' = [paths EXCEPT ![n] = @ \cup {running[t].other}]
               /\ running' = [running EXCEPT ![t].pc = "track", ![t].other = NoNode]
          ELSE /\ Go(t, "reserve")
               /\ UNCHANGED paths
       /\ UNCHANGED <<tree, registered, refs, globalFree, connection, changes>>

Snapshot(t) ==
    LET n == running[t].node
    IN /\ running[t].pc = "snapshot"
       /\ IF n \in registered
          THEN /\ running' = [running EXCEPT ![t] =
                      IF running[t].op = "access"
                      THEN [@ EXCEPT !.pc = "track", !.then = "end"]
                      ELSE [@ EXCEPT !.pc = "track", !.then = "finish",
                                     !.snapshot = paths[n]]]
               /\ UNCHANGED <<sessionFree, globalFree>>
          ELSE End(t)
       /\ UNCHANGED <<tree, registered, paths, refs, known, open, changes>>

\* track_node's look at known_nodes.
Track(t) ==
    /\ running[t].pc = "track"
    /\ running' = [running EXCEPT ![t] =
           IF @.node \in known[@.session] THEN Proceed(@)
                                          ELSE [@ EXCEPT !.pc = "permit"]]
    /\ UNCHANGED <<tree, registry, connection, changes>>

-----------------------------------------------------------------------------
(***************************************************************************)
(* Permits                                                                 *)
(***************************************************************************)

\* acquire_session_permit, for remember ("reserve") and track ("permit").
TakeSessionPermit(t) ==
    LET s == running[t].session
    IN /\ running[t].pc \in {"reserve", "permit"}
       /\ sessionFree[s] > 0
       /\ sessionFree' = [sessionFree EXCEPT ![s] = @ - 1]
       /\ running' = [running EXCEPT ![t].sessionPermit = 1,
                                 ![t].pc = IF @ = "reserve" THEN "global"
                                                            ELSE "admit"]
       /\ UNCHANGED <<tree, registry, known, open, changes>>

\* The nodes evict_unreferenced_session_node may drop.
Unpinned(s) == known[s] \ open[s]

\* evict_unreferenced_session_node frees a permit; the loop tries again.
EvictSessionNode(t) ==
    LET s == running[t].session
    IN /\ running[t].pc \in {"reserve", "permit"}
       /\ sessionFree[s] = 0
       /\ \E n \in Unpinned(s) :
             /\ known' = [known EXCEPT ![s] = @ \ {n}]
             /\ sessionFree' = [sessionFree EXCEPT ![s] = @ + 1]
             /\ refs' = [refs EXCEPT ![n] =
                    IF n \in registered /\ @ > 0 THEN @ - 1 ELSE @]
       /\ UNCHANGED <<tree, registered, paths, globalFree, open, running, changes>>

\* TooManyNodes: no permit and nothing to evict.
SessionExhausted(t) ==
    /\ running[t].pc \in {"reserve", "permit"}
    /\ sessionFree[running[t].session] = 0
    /\ Unpinned(running[t].session) = {}

SessionFull(t) ==
    /\ SessionExhausted(t)
    /\ End(t)
    /\ UNCHANGED <<tree, registered, paths, refs, known, open, changes>>

\* The export's semaphore, at the first try or after an eviction.
TakeGlobalPermit(t) ==
    /\ running[t].pc \in {"global", "again"}
    /\ globalFree > 0
    /\ globalFree' = globalFree - 1
    /\ running' = [running EXCEPT ![t].globalPermit = 1,
                              ![t].pc = IF running[t].op = "create" THEN "create"
                                                                  ELSE "insert"]
    /\ UNCHANGED <<tree, registered, paths, refs, connection, changes>>

\* The nodes evict_unreferenced_global_node may drop.
Unreferenced == {n \in registered : refs[n] = 0}

EvictGlobalNode(t) ==
    /\ running[t].pc = "global"
    /\ globalFree = 0
    /\ \E n \in Unreferenced :
          /\ registered' = registered \ {n}
          /\ paths' = [paths EXCEPT ![n] = {}]
          /\ refs' = [refs EXCEPT ![n] = 0]
    /\ globalFree' = globalFree + 1
    /\ Go(t, "again")
    /\ UNCHANGED <<tree, connection, changes>>

\* TooManyNodes: nothing to evict, or the permit an eviction freed is taken.
GlobalExhausted(t) ==
    /\ running[t].pc \in {"global", "again"}
    /\ globalFree = 0
    /\ running[t].pc = "global" => Unreferenced = {}

GlobalFull(t) ==
    /\ GlobalExhausted(t)
    /\ End(t)
    /\ UNCHANGED <<tree, registered, paths, refs, known, open, changes>>

-----------------------------------------------------------------------------
(***************************************************************************)
(* remember_reserved, track_node_with_permit                               *)
(***************************************************************************)

\* A node that is registered meanwhile gets the path, and the global permit
\* goes back; a new one keeps the permit and starts without references.
Insert(t) ==
    LET n == running[t].node
    IN /\ running[t].pc = "insert"
       /\ registered' = registered \cup {n}
       /\ paths' = [paths EXCEPT ![n] = @ \cup {running[t].other}]
       /\ globalFree' = IF n \in registered THEN globalFree + 1 ELSE globalFree
       /\ running' = [running EXCEPT ![t].pc = "admit", ![t].other = NoNode,
                                 ![t].globalPermit = 0]
       /\ UNCHANGED <<tree, refs, connection, changes>>

\* known_nodes and the registry are locked together: a node the session
\* tracks already gives the permit back, one that left the registry is an
\* InvalidNode.
TrackWithPermit(t) ==
    LET n == running[t].node
        s == running[t].session
    IN /\ running[t].pc = "admit"
       /\ \/ /\ n \in known[s]
             /\ sessionFree' = [sessionFree EXCEPT ![s] = @ + 1]
             /\ running' = [running EXCEPT ![t] = Proceed(@)]
             /\ UNCHANGED <<refs, known, globalFree>>
          \/ /\ n \notin known[s] /\ n \in registered
             /\ refs' = [refs EXCEPT ![n] = @ + 1]
             /\ known' = [known EXCEPT ![s] = @ \cup {n}]
             /\ running' = [running EXCEPT ![t] = Proceed(@)]
             /\ UNCHANGED <<sessionFree, globalFree>>
          \/ /\ n \notin known[s] /\ n \notin registered
             /\ End(t)
             /\ UNCHANGED <<refs, known>>
       /\ UNCHANGED <<tree, registered, paths, open, changes>>

-----------------------------------------------------------------------------
(***************************************************************************)
(* The handlers after the node is tracked                                  *)
(***************************************************************************)
\* open_snapshot tries the paths of the snapshot and compares identities.
FinishOpen(t) ==
    LET n == running[t].node
    IN /\ running[t].pc = "finish" /\ running[t].op = "open"
       /\ open' = IF \E p \in running[t].snapshot : tree[p] = n
                  THEN [open EXCEPT ![running[t].session] = @ \cup {n}] ELSE open
       /\ End(t)
       /\ UNCHANGED <<tree, registered, paths, refs, known, changes>>

\* create_hard_link: linkat, then remember and metadata.
FinishLink(t) ==
    LET n == running[t].node
        p == running[t].path
    IN /\ running[t].pc = "finish" /\ running[t].op = "link"
       /\ \/ /\ \E q \in running[t].snapshot : tree[q] = n
             /\ tree[p] = NoNode
             /\ tree' = [tree EXCEPT ![p] = n]
             /\ running' = [running EXCEPT ![t].pc = "remember", ![t].other = p,
                             ![t].op = "access", ![t].then = "lookup",
                             ![t].path = NoNode, ![t].snapshot = {}]
             /\ UNCHANGED <<sessionFree, globalFree>>
          \/ /\ tree[p] # NoNode \/ \A q \in running[t].snapshot : tree[q] # n
             /\ End(t)
             /\ UNCHANGED tree
       /\ UNCHANGED <<registered, paths, refs, known, open, changes>>

\* create_file's openat, with both permits in hand.
CreateEntry(t) ==
    LET p == running[t].path
    IN /\ running[t].pc = "create"
       /\ \/ /\ tree[p] = NoNode
             /\ \E n \in Nodes :
                   /\ ~InUse(n)
                   /\ tree' = [tree EXCEPT ![p] = n]
                   /\ running' = [running EXCEPT ![t].pc = "insert", ![t].node = n,
                                             ![t].then = "created"]
             /\ UNCHANGED <<sessionFree, globalFree>>
          \/ /\ tree[p] # NoNode
             /\ End(t)
             /\ UNCHANGED tree
       /\ UNCHANGED <<registered, paths, refs, known, open, changes>>

FinishCreate(t) ==
    /\ running[t].pc = "created"
    /\ open' = [open EXCEPT ![running[t].session] = @ \cup {running[t].node}]
    /\ End(t)
    /\ UNCHANGED <<tree, registered, paths, refs, known, changes>>

-----------------------------------------------------------------------------
(***************************************************************************)
(* remove_registry_path, update_registry_after_rename,                     *)
(* release_node_reference                                                  *)
(***************************************************************************)

\* A mutant of Replaced: the permits of the nodes that leave are lost.
ReplacedKeepsPermits(now) ==
    LET left == {n \in registered : now[n] = {}}
    IN /\ registered' = registered \ left
       /\ paths' = now
       /\ refs' = [n \in Nodes |-> IF n \in left THEN 0 ELSE refs[n]]
       /\ UNCHANGED globalFree

\* The registry when the paths of its nodes become `now`: nodes without a
\* path are dropped, with their permits.
Replaced(now) ==
    LET left == {n \in registered : now[n] = {}}
    IN /\ registered' = registered \ left
       /\ paths' = now
       /\ refs' = [n \in Nodes |-> IF n \in left THEN 0 ELSE refs[n]]
       /\ globalFree' = globalFree + Cardinality(left)

Unregister(t) ==
    /\ running[t].pc = "unregister"
    /\ Replaced([n \in Nodes |-> paths[n] \ {running[t].path}])
    /\ running' = [running EXCEPT ![t] = AtRest]
    /\ UNCHANGED <<tree, connection, changes>>

\* renameat on the tree as it is now.  Two names of one file are left alone
\* by Replace.
RenameEntry(t) ==
    LET p == running[t].path
        q == running[t].other
        mode == running[t].mode
        allowed == /\ tree[p] # NoNode
                   /\ mode = "NoReplace" => tree[q] = NoNode
                   /\ mode = "Exchange" => tree[q] # NoNode
    IN /\ running[t].pc = "rename"
       /\ IF allowed
          THEN /\ tree' = CASE mode = "Exchange" ->
                                 [tree EXCEPT ![p] = tree[q], ![q] = tree[p]]
                            [] mode # "Exchange" /\ tree[p] = tree[q] -> tree
                            [] OTHER ->
                                 [tree EXCEPT ![p] = NoNode, ![q] = tree[p]]
               /\ Go(t, "renamed")
          ELSE /\ running' = [running EXCEPT ![t] = AtRest]
               /\ UNCHANGED tree
       /\ UNCHANGED <<registry, connection, changes>>

\* The path of a registered node once p is renamed to q.
Moved(path, p, q, mode) ==
    CASE path = p -> q
      [] path = q /\ mode = "Exchange" -> p
      [] OTHER -> path

UpdateAfterRename(t) ==
    LET task == running[t]
        kept == [n \in Nodes |->
                   IF task.mode = "Replace" /\ n # task.node
                   THEN paths[n] \ {task.other} ELSE paths[n]]
        moved == [n \in Nodes |->
                   {Moved(x, task.path, task.other, task.mode) : x \in kept[n]}]
    IN /\ task.pc = "renamed"
       /\ IF task.target = task.node THEN UNCHANGED registry ELSE Replaced(moved)
       /\ running' = [running EXCEPT ![t] = AtRest]
       /\ UNCHANGED <<tree, connection, changes>>

\* A mutant of Release: the rest of the batch is left alone.
ReleaseOnlyFirst(t) ==
    LET task == running[t]
    IN /\ task.pc = "release"
       /\ \E n \in task.batch :
             refs' = IF n \in registered /\ refs[n] > 0
                     THEN [refs EXCEPT ![n] = @ - 1] ELSE refs
       /\ running' = [running EXCEPT ![t] = AtRest]
       /\ UNCHANGED <<tree, registered, paths, globalFree, connection, changes>>

\* The end of forget_nodes, or of the drop of a session, for one node.  A
\* count that is zero already ends forget_nodes with StateUnavailable; the
\* drop goes on.
Release(t) ==
    LET task == running[t]
    IN /\ task.pc = "release"
       /\ \E n \in task.batch :
             LET rest == task.batch \ {n}
                 broken == n \in registered /\ refs[n] = 0
             IN /\ refs' = IF n \in registered /\ refs[n] > 0
                           THEN [refs EXCEPT ![n] = @ - 1] ELSE refs
                /\ running' = [running EXCEPT ![t] =
                       IF rest = {} \/ (broken /\ task.op = "forget")
                       THEN AtRest ELSE [task EXCEPT !.batch = rest]]
       /\ UNCHANGED <<tree, registered, paths, globalFree, connection, changes>>

-----------------------------------------------------------------------------
Step(t) ==
    \/ Lookup(t) \/ Discover(t) \/ Remember(t) \/ Snapshot(t) \/ Track(t)
    \/ TakeSessionPermit(t) \/ EvictSessionNode(t) \/ SessionFull(t)
    \/ TakeGlobalPermit(t) \/ EvictGlobalNode(t) \/ GlobalFull(t)
    \/ Insert(t) \/ TrackWithPermit(t) \/ FinishOpen(t)
    \/ FinishLink(t) \/ CreateEntry(t) \/ FinishCreate(t) \/ Unregister(t)
    \/ RenameEntry(t) \/ UpdateAfterRename(t) \/ Release(t)

Request(t, s) ==
    \/ \E n \in Nodes : Access(t, s, n) \/ OpenNode(t, s, n)
    \/ \E p \in Paths : Scan(t, s, p) \/ Create(t, s, p) \/ Remove(t, s, p)
    \/ changes < MaxChanges /\ \E p \in Paths :
            \/ \E n \in Nodes : Link(t, s, n, p)
            \/ \E q \in Paths, mode \in RenameModes : Rename(t, s, p, q, mode)
    \/ \E batch \in SUBSET known[s] : Forget(t, s, batch)
    \/ DropSession(t, s)

RegistryNext ==
    \/ \E t \in Requesters : running[t] # AtRest /\ Step(t)
    \/ \E t \in Requesters : running[t] = AtRest /\ \E s \in Connections : Request(t, s)
    \/ \E s \in Connections, n \in Nodes : CloseNode(s, n)

RegistrySpec == RegistryInit /\ [][RegistryNext]_registryVars

-----------------------------------------------------------------------------
(***************************************************************************)
(* Properties                                                              *)
(***************************************************************************)
Live == {t \in Requesters : running[t] # AtRest}

\* The types of the variables; nothing is kept for a node that is not in the
\* registry.
RegistryTypeOK ==
    /\ tree \in [Paths -> Nodes \cup {NoNode}]
    /\ registered \subseteq Nodes
    /\ paths \in [Nodes -> SUBSET Paths]
    /\ refs \in [Nodes -> Nat]
    /\ \A n \in Nodes \ registered : paths[n] = {} /\ refs[n] = 0
    /\ globalFree \in 0 .. MaxTotal
    /\ known \in [Connections -> SUBSET Nodes]
    /\ sessionFree \in [Connections -> 0 .. MaxKnown]
    /\ open \in [Connections -> SUBSET Nodes]
    /\ \A t \in Live : running[t].session \in Connections

\* No permit is lost or made up on any path through the handlers, error
\* returns included: every permit of the export is free, in the registry or
\* with a request, and every permit of a session is free, with a node it
\* tracks or with a request.
PermitsConserved ==
    /\ globalFree + Cardinality(registered)
         + Cardinality({t \in Live : running[t].globalPermit = 1}) = MaxTotal
    /\ \A s \in Connections :
         sessionFree[s] + Cardinality(known[s])
           + Cardinality({t \in Live : running[t].session = s
                                       /\ running[t].sessionPermit = 1}) = MaxKnown

\* A node stays in the registry only while it has a path: removals and
\* renames drop it with its last one, whatever lookups run beside them.
RegisteredHasPath == \A n \in registered : paths[n] # {}

Holders(n) ==
    Cardinality({s \in Connections : n \in known[s]})
      + Cardinality({t \in Live : running[t].pc = "release" /\ n \in running[t].batch})

\* Until the first request to change the tree, session_references counts exactly the
\* sessions that track the node and the releases still to come, so that the
\* eviction of an unreferenced node never takes one a session relies on.
ReferencesCounted == changes = 0 => \A n \in Nodes : refs[n] = Holders(n)

\* The registry at any moment: permits are conserved, a registered node has a path,
\* and references are counted.
RegistryIntact == RegistryTypeOK /\ PermitsConserved /\ RegisteredHasPath /\ ReferencesCounted

\* README.md: "node IDs survive renames, hardlinks, reconnects": when nothing
\* is in progress, a registered node that is still in the tree is found
\* through one of its paths.
NodesSurviveRenames ==
    Live = {} => \A n \in registered :
        (\E p \in Paths : tree[p] = n) => \E p \in paths[n] : tree[p] = n
=============================================================================
