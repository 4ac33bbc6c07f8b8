----------------------------- MODULE MountViews -----------------------------
(***************************************************************************)
(* What the macFUSE adapter remembers of the nodes it has seen: metadata,  *)
(* directory listings with the metadata of every entry, and extended       *)
(* attributes, each map behind a mutex of its own.  Callbacks serve them,  *)
(* fetch and remember them one insertion at a time, and the adapter's own  *)
(* mutations invalidate, one map at a time, every view of a changed node.  *)
(* A node's state on the server is a version; a view holds the versions it *)
(* was read at.  Source: src/clients/macos/filesystem-macfuse/src/lib.rs.  *)
(***************************************************************************)
EXTENDS Integers, Sequences, FiniteSets, TLC

LOCAL INSTANCE Functions
LOCAL INSTANCE SequencesExt

CONSTANTS
    Dirs,
    FileNodes,
    Tasks,
    Exports,        \* the exports a behaviour starts from: [nodes, children]
    MaxReads,       \* bound: callbacks that read
    MaxChanges      \* bound: callbacks that change the export

VARIABLES
    version,        \* the server's version of every node
    children,       \* the server's directories
    views,          \* discovered_metadata, _xattrs and _directories
    listing,        \* directory_operations: the task that lists a directory
    replied,        \* node -> version of the last own mutation that replied
    reads, changes, \* callbacks so far
    scope,          \* the nodes this behaviour is about
    tasks

vars == << version, children, views, listing, replied, reads, changes, scope, tasks >>

Nodes == Dirs \cup FileNodes
Keys  == ({"meta", "xattr"} \X Nodes) \cup ({"dir"} \X Dirs)
None  == "none"
Idle  == [op |-> None, pc |-> "idle"]

\* A node is known to the kernel once it has, or had, a name.
Exists(n) ==
    /\ n \in scope
    /\ n \in Dirs \/ version[n] > 0 \/ \E d \in Dirs : n \in children[d]

\* The nodes whose metadata the server's answer for a key embeds, with their
\* versions.
Read(key) ==
    LET seen == IF key[1] = "dir" THEN {key[2]} \cup children[key[2]] ELSE {key[2]}
    IN [n \in seen |-> version[n]]

\* A view remembers whether the server had moved on when it was inserted.
View(seen) == [seen |-> seen, raced |-> \E n \in DOMAIN seen : seen[n] # version[n]]
Cached(key) == key \in DOMAIN views

Init ==
    /\ version = [n \in Nodes |-> 0]
    /\ \E export \in Exports : scope = export.nodes /\ children = export.children
    /\ views = << >>
    /\ listing = [d \in Dirs |-> None]
    /\ replied = [n \in Nodes |-> 0]
    /\ reads = 0 /\ changes = 0
    /\ tasks = [t \in Tasks |-> Idle]

Start(t, task) ==
    /\ tasks[t] = Idle
    /\ tasks' = [tasks EXCEPT ![t] = task]
StartRead(t, task) ==
    /\ reads < MaxReads /\ reads' = reads + 1 /\ UNCHANGED changes
    /\ Start(t, [op |-> "read"] @@ task)
Continue(t, change) == tasks' = [tasks EXCEPT ![t] = change @@ tasks[t]]
Reply(t) == tasks' = [tasks EXCEPT ![t] = Idle]
Answer(t, seen) == Continue(t, [pc |-> "answer", seen |-> seen])

-----------------------------------------------------------------------------
(* Reading *)

\* cached_directory, cached_metadata, cached_xattrs: a callback that finds its
\* view answers from it.  Extended attributes count only under the revision of
\* the metadata that is cached with them.
Fresh(key) ==
    /\ Cached(key)
    /\ LET meta == << "meta", key[2] >> IN
       key[1] = "xattr" /\ Cached(meta) =>
           views[meta].seen[key[2]] = views[key].seen[key[2]]

Serve(t, key) ==
    /\ Fresh(key)
    /\ StartRead(t, [key |-> key, pc |-> "answer", seen |-> views[key].seen])
    /\ UNCHANGED << version, children, views, listing, replied, scope >>

\* lookup_async holds a listing while it remembers the entry's metadata.
LookupListed(t, d, n) ==
    /\ Fresh(<< "dir", d >>) /\ n \in DOMAIN views[<< "dir", d >>].seen /\ n # d
    /\ StartRead(t, [key |-> << "meta", n >>, pc |-> "remember",
                 seen |-> views[<< "dir", d >>].seen, todo |-> << << "meta", n >> >>])
    /\ UNCHANGED << version, children, views, listing, replied, scope >>

\* getattr_async and list_xattrs_async of a node that is not cached, or whose
\* view is older than its TTL and dropped by this access; and the start of
\* readdir_async, which takes the mutex of the directory.
Miss(t, key) ==
    /\ Exists(key[2])
    /\ StartRead(t, [key |-> key,
                 pc |-> IF key[1] = "dir" THEN "lock" ELSE "fetch"])
    /\ views' = Restrict(views, DOMAIN views \ {key})
    /\ UNCHANGED << version, children, listing, replied, scope >>

\* readdir_async under the directory's mutex: another callback may have
\* fetched the listing meanwhile.
NobodyLists(d) == listing[d] = None

LockDirectory(t) ==
    LET task == tasks[t] IN
    /\ task.pc = "lock" /\ NobodyLists(task.key[2])
    /\ IF Cached(task.key)
       THEN Answer(t, views[task.key].seen) /\ UNCHANGED listing
       ELSE /\ listing' = [listing EXCEPT ![task.key[2]] = t]
            /\ Continue(t, [pc |-> "fetch"])
    /\ UNCHANGED << version, children, views, replied, reads, changes, scope >>

\* The server answers.  A directory view brings the metadata and extended
\* attributes of the directory and of every entry, each remembered by itself,
\* the listing last.  The revision of a single answer's extended attributes is
\* that of the cached metadata, or none.
Fetch(t) ==
    LET key == tasks[t].key
        seen == Read(key)
        order == SetToSeq(DOMAIN seen \ {key[2]})
        alone == key[1] # "dir"
    IN
    /\ tasks[t].pc = "fetch"
    /\ Continue(t, [pc |-> "remember", seen |-> seen,
                    todo |-> IF alone THEN << key >>
                             ELSE << << "meta", key[2] >>, << "xattr", key[2] >> >>
                                  \o [i \in DOMAIN order |-> << "xattr", order[i] >>]
                                  \o [i \in DOMAIN order |-> << "meta", order[i] >>]
                                  \o << key >>])
    /\ UNCHANGED << version, children, views, listing, replied, reads, changes, scope >>

\* What one insertion holds of an answer: a listing all of it, a node its own.
Inserted(task, key) ==
    IF key[1] = "dir" THEN task.seen ELSE key[2] :> task.seen[key[2]]

\* remember_metadata, remember_xattr_snapshot and the insertion of a listing.
Remember(t) ==
    LET task == tasks[t]
        key == Head(task.todo)
    IN
    /\ task.pc = "remember"
    /\ views' = (key :> View(Inserted(task, key))) @@ views
    /\ IF Len(task.todo) > 1
       THEN Continue(t, [todo |-> Tail(task.todo)]) /\ UNCHANGED listing
       ELSE /\ Answer(t, task.seen)
            /\ listing' = [d \in Dirs |-> IF listing[d] = t THEN None ELSE listing[d]]
    /\ UNCHANGED << version, children, replied, reads, changes, scope >>

AnswerRead(t) ==
    /\ tasks[t].pc = "answer"
    /\ Reply(t)
    /\ UNCHANGED << version, children, views, listing, replied, reads, changes, scope >>

-----------------------------------------------------------------------------
(* Mutations: what they change on the server, whose views they invalidate in *)
(* which order, and whose returned metadata they remember first and last.    *)

Change(touched, invalidated, before, after) ==
    [touched |-> touched, invalidated |-> invalidated, before |-> before, after |-> after]

\* Mutant: the link count in the other directories of the node is forgotten.
LinkedInDestination(n, d) == Change({n, d}, << d >>, << >>, << n >>)

\* create_hard_link_async
Linked(n, d) == Change({n, d}, << n, d >>, << >>, << n >>)

\* create_file_async and its siblings
Created(n, d) == Change({n, d}, << d >>, << n >>, << >>)
\* remove_async
Removed(n, d) == Change({n, d}, << d, n >>, << >>, << >>)
\* rename_async, without a node in its place
Renamed(n, d, e) == Change({n, d, e}, << d, e, n >>, << >>, << >>)
\* setattr_async
SetAttributes(n) == Change({n}, << n >>, << >>, << n >>)
\* set_xattr_async, remove_xattr_async, and the transmission of a write
SetContents(n) == Change({n}, << n >>, << >>, << >>)
\* exchange_data_async
Exchanged(n, m) == Change({n, m}, << n, m >>, << >>, << >>)

\* The server carries the mutation out; its answer holds the new metadata.
Mutate(t, change, dirs) ==
    /\ changes < MaxChanges /\ changes' = changes + 1
    /\ version' = [n \in Nodes |-> IF n \in change.touched THEN version[n] + 1 ELSE version[n]]
    /\ children' = dirs
    /\ Start(t, [op |-> "mutate", pc |-> "before", change |-> change,
                 answer |-> [n \in change.touched |-> version'[n]],
                 todo |-> change.invalidated, map |-> 1])
    /\ UNCHANGED << views, listing, replied, reads, scope >>

MutateNames(t) ==
    \E n \in FileNodes \cap scope, d \in Dirs \cap scope :
        \/ /\ ~Exists(n)
           /\ Mutate(t, Created(n, d), [children EXCEPT ![d] = @ \cup {n}])
        \/ /\ n \notin children[d] /\ \E e \in Dirs : n \in children[e]
           /\ Mutate(t, Linked(n, d), [children EXCEPT ![d] = @ \cup {n}])
        \/ /\ n \in children[d]
           /\ Mutate(t, Removed(n, d), [children EXCEPT ![d] = @ \ {n}])
        \/ \E e \in (Dirs \cap scope) \ {d} :
           /\ n \in children[d] \ children[e]
           /\ Mutate(t, Renamed(n, d, e), [children EXCEPT ![d] = @ \ {n}, ![e] = @ \cup {n}])

MutateNode(t) ==
    \E n \in FileNodes :
        \/ Exists(n) /\ Mutate(t, SetAttributes(n), children)
        \/ Exists(n) /\ Mutate(t, SetContents(n), children)
        \/ \E m \in FileNodes \ {n} : Exists(n) /\ Exists(m) /\ Mutate(t, Exchanged(n, m), children)

\* remember_metadata of a created node, before the directory is invalidated.
RememberCreated(t) ==
    LET task == tasks[t] IN
    /\ task.pc = "before"
    /\ views' = [n \in {<< "meta", m >> : m \in Range(task.change.before)} |->
                    View(n[2] :> task.answer[n[2]])] @@ views
    /\ Continue(t, [pc |-> "invalidate"])
    /\ UNCHANGED << version, children, listing, replied, reads, changes, scope >>

Maps == << "meta", "xattr", "dir" >>

\* invalidate_node_views: the entries of one map that embed the node.
Outdated(n, map) ==
    IF map = "dir" THEN {key \in DOMAIN views : key[1] = "dir" /\ n \in DOMAIN views[key].seen}
    ELSE {<< map, n >>}

\* One map after the other, each under its own mutex, node by node.
Invalidate(t) ==
    LET task == tasks[t] IN
    /\ task.pc = "invalidate" /\ task.todo # << >>
    /\ views' = Restrict(views, DOMAIN views \ Outdated(Head(task.todo), Maps[task.map]))
    /\ IF task.map < 3
       THEN Continue(t, [map |-> task.map + 1])
       ELSE Continue(t, [map |-> 1, todo |-> Tail(task.todo)])
    /\ UNCHANGED << version, children, listing, replied, reads, changes, scope >>

\* remember_metadata of the answer, and the reply.
Finish(t) ==
    LET task == tasks[t] IN
    /\ task.pc = "invalidate" /\ task.todo = << >>
    /\ views' = [n \in {<< "meta", m >> : m \in Range(task.change.after)} |->
                    View(n[2] :> task.answer[n[2]])] @@ views
    /\ replied' = [n \in Nodes |-> IF n \in DOMAIN task.answer /\ task.answer[n] > replied[n]
                                   THEN task.answer[n] ELSE replied[n]]
    /\ Reply(t)
    /\ UNCHANGED << version, children, listing, reads, changes, scope >>

\* The server fails or the callback's deadline passes: nothing more is
\* remembered or invalidated, and the mutex is given up.
Unlocked(t) == [d \in Dirs |-> IF listing[d] = t THEN None ELSE listing[d]]

Fail(t) ==
    /\ tasks[t].pc \in {"fetch", "before"}
    /\ listing' = Unlocked(t)
    /\ Reply(t)
    /\ UNCHANGED << version, children, views, replied, reads, changes, scope >>

-----------------------------------------------------------------------------
Next ==
    \E t \in Tasks :
        \/ \E key \in Keys : Serve(t, key) \/ Miss(t, key)
        \/ \E d \in Dirs, n \in FileNodes : LookupListed(t, d, n)
        \/ MutateNames(t) \/ MutateNode(t)
        \/ LockDirectory(t) \/ Fetch(t) \/ Remember(t) \/ AnswerRead(t)
        \/ RememberCreated(t) \/ Invalidate(t) \/ Finish(t) \/ Fail(t)

Spec == Init /\ [][Next]_vars

-----------------------------------------------------------------------------
(* Properties *)

\* The shape of the state, and at most one listing of a directory at a time:
\* readdir_async fetches only while it holds the directory's mutex.
TypeOK ==
    /\ version \in [Nodes -> 0..MaxChanges] /\ children \in [Dirs -> SUBSET FileNodes]
    /\ DOMAIN views \subseteq Keys
    /\ \A key \in DOMAIN views : key[2] \in DOMAIN views[key].seen
    /\ listing \in [Dirs -> Tasks \cup {None}]
    /\ replied \in [Nodes -> 0..MaxChanges]
    /\ reads \in 0..MaxReads /\ changes \in 0..MaxChanges

\* One callback at a time loads a cold directory; the others wait for it and
\* find the listing.
OneListingAtATime ==
    \A d \in Dirs :
        Cardinality({t \in Tasks : /\ tasks[t].pc \in {"fetch", "remember"}
                                   /\ tasks[t].op = "read" /\ tasks[t].key = << "dir", d >>}) <= 1

\* When an own mutation has replied, no view that was up to date when it was
\* remembered still shows a changed node as it was before: the metadata, the
\* extended attributes and every listing that embeds the node are gone, its
\* other hard-link parents and both directories of a rename included.
FreshViewsInvalidated ==
    \A key \in DOMAIN views :
        ~views[key].raced =>
            \A n \in DOMAIN views[key].seen : views[key].seen[n] >= replied[n]

\* The mutex of a directory is held only by a callback that is loading the
\* directory, also when the load fails or runs into the deadline: nobody waits
\* for a callback that is gone.
MutexHolderLists ==
    \A d \in Dirs :
        listing[d] # None =>
            LET task == tasks[listing[d]] IN
            task.op = "read" /\ task.key = << "dir", d >> /\ task.pc \in {"fetch", "remember"}
=============================================================================
