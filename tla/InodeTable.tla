----------------------------- MODULE InodeTable -----------------------------
(***************************************************************************)
(* The inode numbers of one macFUSE mount: the InodeTable (numbers, nodes, *)
(* directory entries and kernel lookup counts behind one mutex), the file  *)
(* and directory handles that keep a number alive, and the callbacks that  *)
(* change them.  A callback gives the mutex up between two calls of the    *)
(* table, and forgets run on tasks of their own.                           *)
(* Source: src/clients/macos/filesystem-macfuse/src/lib.rs, native.rs.     *)
(***************************************************************************)
EXTENDS Integers, FiniteSets, Functions

CONSTANTS
    Dirs,           \* directories of the export other than its root
    FileNodes,      \* the other nodes
    Names,
    Tasks,
    Exports,        \* the exports to start from: <<directory, name>> -> node
    MaxInodes,      \* bound: numbers ever given out, the root's included
    MaxCalls        \* bound: callbacks the kernel ever issues

VARIABLES
    entries,        \* the export: <<directory, name>> -> node
    born,           \* nodes that ever had a name
    table,          \* AdapterState::inodes
    opened,         \* handles: inode -> file handles open on it
    opendirs,       \* directory_handles
    retained,       \* listings released less than the retention time ago
    kernel,         \* inode -> lookups the kernel was told of and still holds
    tasks,
    calls

vars == << entries, born, table, opened, opendirs, retained, kernel, tasks, calls >>

Root   == 1                     \* ROOT_INODE, and ROOT_NODE
Nodes  == Dirs \cup FileNodes
Inodes == 1..MaxInodes
Folders == {Root} \cup Dirs
NoNode == 0
NoName == "none"
Idle   == [op |-> "none", pc |-> "idle", uses |-> {}, amount |-> 0]

InodeConstants ==
    /\ IsFiniteSet(Tasks)
    /\ Exports \subseteq [Folders \X Names -> Nodes \cup {NoNode}]
    /\ MaxInodes \in Nat \ {0} /\ MaxCalls \in Nat

-----------------------------------------------------------------------------
(* The operations of the table, each under its mutex *)

\* HashMap::insert
With(f, k, v) == [x \in DOMAIN f \cup {k} |-> IF x = k THEN v ELSE f[x]]

Count(i) == IF i \in DOMAIN table.lookups THEN table.lookups[i] ELSE 0

\* remember_entry: a node keeps its number, a new one gets the next.
Remembered(tab, n, p, name) ==
    LET i == IF n \in DOMAIN tab.byNode THEN tab.byNode[n] ELSE tab.next IN
    IF n \in DOMAIN tab.byNode
    THEN [tab EXCEPT !.byEntry = With(@, << p, name >>, i)]
    ELSE [tab EXCEPT !.byInode = With(@, i, [node |-> n, parent |-> p]),
                     !.byNode = With(@, n, i),
                     !.byEntry = With(@, << p, name >>, i),
                     !.next = @ + 1]

\* reconcile_directory_entries
Reconciled(tab, p, names) ==
    [tab EXCEPT !.byEntry =
        Restrict(@, {e \in DOMAIN @ : e[1] # p \/ e[2] \in names})]

\* Mutant: the reference is not counted.
NotCounted(i) == table

\* add_lookup, which does not ask whether the number is still known.
Counted(i) == [table EXCEPT !.lookups = With(@, i, Count(i) + 1)]

\* evict_inode under the mutex: the count saturates at zero; the number, its
\* node and every entry go when neither the kernel nor a handle needs it.
Dropped(i, entriesToo) ==
    [table EXCEPT
        !.lookups = Restrict(@, DOMAIN @ \ {i}),
        !.byInode = Restrict(@, DOMAIN @ \ {i}),
        !.byNode = Restrict(@, DOMAIN @ \ {table.byInode[j].node : j \in DOMAIN table.byInode \cap {i}}),
        !.byEntry = IF entriesToo THEN Restrict(@, {e \in DOMAIN @ : @[e] # i}) ELSE @]

Reduced(i, amount) ==
    [table EXCEPT !.lookups = With(@, i, IF Count(i) > amount THEN Count(i) - amount ELSE 0)]

\* Mutant: the entries of an evicted inode stay.
EvictedKeepingEntries(i, amount, inUse) ==
    IF i = Root THEN table
    ELSE IF Count(i) > amount \/ inUse THEN Reduced(i, amount) ELSE Dropped(i, FALSE)

Evicted(i, amount, inUse) ==
    IF i = Root THEN table
    ELSE IF Count(i) > amount \/ inUse THEN Reduced(i, amount) ELSE Dropped(i, TRUE)

\* forget_entry
EntryForgotten(p, name) ==
    [table EXCEPT !.byEntry = Restrict(@, DOMAIN @ \ {<< p, name >>})]

\* move_entry
Moved(p, name, q, other, exchange) ==
    LET src == << p, name >>
        dst == << q, other >>
        rest == Restrict(table.byEntry, DOMAIN table.byEntry \ {src, dst})
        back == IF exchange /\ dst \in DOMAIN table.byEntry /\ dst # src
                THEN With(rest, src, table.byEntry[dst]) ELSE rest
        forth == IF src \in DOMAIN table.byEntry
                 THEN With(back, dst, table.byEntry[src]) ELSE back
    IN [table EXCEPT
          !.byEntry = forth,
          !.byInode = [i \in DOMAIN @ |->
              CASE src \in DOMAIN table.byEntry /\ i = table.byEntry[src] ->
                        [@[i] EXCEPT !.parent = q]
                [] exchange /\ dst \in DOMAIN table.byEntry /\ i = table.byEntry[dst] ->
                        [@[i] EXCEPT !.parent = p]
                [] OTHER -> @[i]]]

-----------------------------------------------------------------------------
Init ==
    /\ entries \in Exports
    /\ born = {entries[e] : e \in DOMAIN entries} \ {NoNode}
    /\ table = [byInode |-> [i \in {Root} |-> [node |-> Root, parent |-> Root]],
                byNode |-> [n \in {Root} |-> Root], byEntry |-> << >>, lookups |-> << >>, next |-> 2]
    /\ opened = [i \in Inodes |-> 0]
    /\ opendirs = {}
    /\ retained = {}
    /\ kernel = [i \in Inodes |-> 0]
    /\ tasks = [t \in Tasks |-> Idle]
    /\ calls = 0

\* The kernel names only inodes it holds.
Held(i) == i = Root \/ kernel[i] > 0
Known(i) == i \in DOMAIN table.byInode
NodeOf(i) == table.byInode[i].node
Folder(i) == Known(i) /\ NodeOf(i) \in Folders

\* The names of a directory of the export, with their nodes.
Listing(d) == {<< name, entries[<< d, name >>] >> : name \in {m \in Names : entries[<< d, m >>] # NoNode}}
Linked(n) == \E e \in DOMAIN entries : entries[e] = n

\* A task with some of its fields set.
Updated(task, change) ==
    [f \in DOMAIN task \cup DOMAIN change |-> IF f \in DOMAIN change THEN change[f] ELSE task[f]]

Continue(t, change) == tasks' = [tasks EXCEPT ![t] = Updated(@, change)]

Start(t, task) ==
    /\ tasks[t] = Idle /\ calls < MaxCalls
    /\ calls' = calls + 1
    /\ Continue(t, task)

Reply(t) == tasks' = [tasks EXCEPT ![t] = Idle]

\* Another client of the export links or unlinks a node.
ExportChanges(d, name, n) ==
    /\ calls < MaxCalls /\ calls' = calls + 1
    /\ entries[<< d, name >>] # n
    /\ n = NoNode \/ (~Linked(n) /\ n # d)
    /\ entries' = [entries EXCEPT ![<< d, name >>] = n]
    /\ born' = born \cup ({n} \ {NoNode})
    /\ UNCHANGED << table, opened, opendirs, retained, kernel, tasks >>

\* lookup_async and opendir_async: the directory is listed by the server.
List(t, op, p, name) ==
    /\ Held(p) /\ Folder(p)
    /\ Start(t, [op |-> op, pc |-> "list", uses |-> {p}, name |-> name,
                 listing |-> Listing(NodeOf(p)), inode |-> p])
    /\ UNCHANGED << entries, born, table, opened, opendirs, retained, kernel >>

\* lookup_async: an entry of the table answers; its metadata is fetched
\* before the reference is counted.
LookupEntry(t, p, name) ==
    /\ Held(p) /\ << p, name >> \in DOMAIN table.byEntry
    /\ Start(t, [op |-> "lookup", pc |-> "getattr", uses |-> {p},
                 inode |-> table.byEntry[<< p, name >>]])
    /\ UNCHANGED << entries, born, table, opened, opendirs, retained, kernel >>

FetchMetadata(t) ==
    /\ tasks[t].pc = "getattr"
    /\ IF Known(tasks[t].inode) THEN Continue(t, [pc |-> "count"]) ELSE Reply(t)
    /\ UNCHANGED << entries, born, table, opened, opendirs, retained, kernel, calls >>

\* remember_directory_snapshot forgets the names that are gone ...
Reconcile(t) ==
    LET task == tasks[t] IN
    /\ task.pc = "list"
    /\ table' = Reconciled(table, task.inode, {e[1] : e \in task.listing})
    /\ Continue(t, [pc |-> "remember", left |-> task.listing, inodes |-> {}])
    /\ UNCHANGED << entries, born, opened, opendirs, retained, kernel, calls >>

\* ... and gives every node of the listing a number.
RememberEntry(t) ==
    LET task == tasks[t] IN
    /\ task.pc = "remember"
    /\ \E e \in task.left :
        LET tab == Remembered(table, e[2], task.inode, e[1]) IN
        /\ tab.next <= MaxInodes + 1
        /\ table' = tab
        /\ Continue(t, [left |-> task.left \ {e},
                        inodes |-> task.inodes \cup {tab.byNode[e[2]]}])
    /\ UNCHANGED << entries, born, opened, opendirs, retained, kernel, calls >>

\* lookup_from_listing: the number of the requested entry is looked up again
\* before the reference is counted.
Select(t) ==
    LET task == tasks[t]
        found == {e \in task.listing : e[1] = task.name}
    IN
    /\ task.op = "lookup" /\ task.pc = "remember" /\ task.left = {}
    /\ IF found = {}
       THEN Reply(t) /\ UNCHANGED table
       ELSE LET e == CHOOSE x \in found : TRUE
                tab == Remembered(table, e[2], task.inode, e[1])
            IN /\ tab.next <= MaxInodes + 1
               /\ table' = tab
               /\ Continue(t, [pc |-> "count", inode |-> tab.byNode[e[2]]])
    /\ UNCHANGED << entries, born, opened, opendirs, retained, kernel, calls >>

\* add_lookup, and the answer that gives the kernel one more reference.  A
\* created file is opened next.
CountLookup(t) ==
    LET task == tasks[t] IN
    /\ task.pc = "count"
    /\ table' = Counted(task.inode)
    /\ kernel' = [kernel EXCEPT ![task.inode] = @ + 1]
    /\ opened' = IF task.op = "create" THEN [opened EXCEPT ![task.inode] = @ + 1] ELSE opened
    /\ Reply(t)
    /\ UNCHANGED << entries, born, opendirs, retained, calls >>

\* opendir_async keeps the listing with the handle.
OpenDirectory(t) ==
    LET task == tasks[t] IN
    /\ task.op = "opendir" /\ task.pc = "remember" /\ task.left = {}
    /\ opendirs' = IF Known(task.inode)
                   THEN opendirs \cup {[inode |-> task.inode, listed |-> task.inodes]}
                   ELSE opendirs
    /\ Reply(t)
    /\ UNCHANGED << entries, born, table, opened, retained, kernel, calls >>

\* releasedir: the entries of the listing are freed after the retention time
\* if the kernel holds no reference to them.
ReleaseDirectory(d) ==
    /\ d \in opendirs
    /\ opendirs' = opendirs \ {d}
    /\ retained' = retained \cup {d.listed}
    /\ UNCHANGED << entries, born, table, opened, kernel, tasks, calls >>

Retire(t, inodes) ==
    /\ inodes \in retained /\ tasks[t] = Idle
    /\ retained' = retained \ {inodes}
    /\ tasks' = [tasks EXCEPT ![t] =
                   [op |-> "forget", pc |-> "forget", uses |-> {}, amount |-> 0,
                    left |-> inodes]]
    /\ UNCHANGED << entries, born, table, opened, opendirs, kernel, calls >>

\* open_async: the inode is known when the callback starts, the handle is
\* remembered when the server has answered.
OpenStart(t, i) ==
    /\ Held(i) /\ Known(i) /\ i # Root
    /\ Start(t, [op |-> "open", pc |-> "open", uses |-> {i}, inode |-> i])
    /\ UNCHANGED << entries, born, table, opened, opendirs, retained, kernel >>

OpenEnd(t) ==
    /\ tasks[t].pc = "open"
    /\ opened' = [opened EXCEPT ![tasks[t].inode] = @ + 1]
    /\ Reply(t)
    /\ UNCHANGED << entries, born, table, opendirs, retained, kernel, calls >>

\* release_async: after the buffered bytes are sent the handle goes, and the
\* inode if nothing else holds it.
Releasing(i) == {t \in Tasks : tasks[t].pc = "release" /\ tasks[t].inode = i}

Release(t, i) ==
    /\ tasks[t] = Idle /\ opened[i] > Cardinality(Releasing(i))
    /\ tasks' = [tasks EXCEPT ![t] =
                   [op |-> "forget", pc |-> "release", uses |-> {}, amount |-> 0, inode |-> i]]
    /\ UNCHANGED << entries, born, table, opened, opendirs, retained, kernel, calls >>

TakeHandle(t) ==
    LET i == tasks[t].inode IN
    /\ tasks[t].pc = "release"
    /\ opened' = [opened EXCEPT ![i] = @ - 1]
    /\ Continue(t, [pc |-> "forget", left |-> {i}])
    /\ UNCHANGED << entries, born, table, opendirs, retained, kernel, calls >>

\* create_file_async and its siblings, and create_hard_link_async: the server
\* adds the entry, the adapter remembers it and then counts the reference.
Create(t, p, name, n) ==
    /\ Held(p) /\ Folder(p)
    /\ entries[<< NodeOf(p), name >>] = NoNode /\ n \notin born
    /\ entries' = [entries EXCEPT ![<< NodeOf(p), name >>] = n]
    /\ born' = born \cup {n}
    /\ Start(t, [op |-> IF n \in FileNodes THEN "create" ELSE "mkdir", pc |-> "name",
                 uses |-> {p}, inode |-> p, name |-> name, node |-> n])
    /\ UNCHANGED << table, opened, opendirs, retained, kernel >>

Link(t, i, p, name) ==
    /\ Held(i) /\ Known(i) /\ NodeOf(i) \in FileNodes /\ Linked(NodeOf(i))
    /\ Held(p) /\ Folder(p) /\ entries[<< NodeOf(p), name >>] = NoNode
    /\ entries' = [entries EXCEPT ![<< NodeOf(p), name >>] = NodeOf(i)]
    /\ Start(t, [op |-> "link", pc |-> "name", uses |-> {i, p}, inode |-> p, name |-> name,
                 node |-> NodeOf(i)])
    /\ UNCHANGED << born, table, opened, opendirs, retained, kernel >>

NameCreated(t) ==
    LET task == tasks[t]
        tab == Remembered(table, task.node, task.inode, task.name)
    IN
    /\ task.pc = "name" /\ tab.next <= MaxInodes + 1
    /\ table' = tab
    /\ Continue(t, [pc |-> "count", inode |-> tab.byNode[task.node]])
    /\ UNCHANGED << entries, born, opened, opendirs, retained, kernel, calls >>

\* remove_async and rename_async: the server answers, then the table follows.
Unlink(t, p, name) ==
    /\ Held(p) /\ Folder(p) /\ entries[<< NodeOf(p), name >>] # NoNode
    /\ entries' = [entries EXCEPT ![<< NodeOf(p), name >>] = NoNode]
    /\ Start(t, [op |-> "remove", pc |-> "unlink", uses |-> {p}, inode |-> p, name |-> name])
    /\ UNCHANGED << born, table, opened, opendirs, retained, kernel >>

ForgetEntry(t) ==
    /\ tasks[t].pc = "unlink"
    /\ table' = EntryForgotten(tasks[t].inode, tasks[t].name)
    /\ Reply(t)
    /\ UNCHANGED << entries, born, opened, opendirs, retained, kernel, calls >>

Rename(t, p, name, q, other, exchange) ==
    LET src == << NodeOf(p), name >>
        dst == << NodeOf(q), other >>
    IN
    /\ Held(p) /\ Folder(p) /\ Held(q) /\ Folder(q) /\ src # dst
    /\ entries[src] # NoNode /\ entries[src] # NodeOf(q)
    /\ exchange => entries[dst] # NoNode /\ entries[dst] # NodeOf(p)
    /\ entries' = [entries EXCEPT ![dst] = entries[src],
                                  ![src] = IF exchange THEN entries[dst] ELSE NoNode]
    /\ Start(t, [op |-> "rename", pc |-> "move", uses |-> {p, q}, inode |-> p, name |-> name,
                 to |-> q, other |-> other, exchange |-> exchange])
    /\ UNCHANGED << born, table, opened, opendirs, retained, kernel >>

MoveEntry(t) ==
    LET task == tasks[t] IN
    /\ task.pc = "move"
    /\ table' = Moved(task.inode, task.name, task.to, task.other, task.exchange)
    /\ Reply(t)
    /\ UNCHANGED << entries, born, opened, opendirs, retained, kernel, calls >>

\* forget and batch_forget: the kernel gives references up, the last of them
\* only after it asked for the release of every handle; the adapter handles it
\* on a task of its own, concurrently with the release.
Forget(t, i, amount) ==
    /\ i # Root /\ amount <= kernel[i]
    /\ \A u \in Tasks : i \notin tasks[u].uses
    /\ amount = kernel[i] => /\ opened[i] = Cardinality(Releasing(i))
                             /\ \A d \in opendirs : d.inode # i
    /\ kernel' = [kernel EXCEPT ![i] = @ - amount]
    /\ Start(t, [op |-> "forget", pc |-> "forget", uses |-> {}, amount |-> amount,
                 left |-> {i}])
    /\ UNCHANGED << entries, born, table, opened, opendirs, retained >>

\* The server fails, or the callback's deadline passes, while it is waited for:
\* whatever the server did, the table is left alone.
Fail(t) ==
    /\ tasks[t].pc \in {"getattr", "list", "open", "name", "unlink", "move"}
    /\ Reply(t)
    /\ UNCHANGED << entries, born, table, opened, opendirs, retained, kernel, calls >>

\* evict_inode looks at the handles first ...
InUse(i) == opened[i] > 0 \/ \E d \in opendirs : d.inode = i

CheckUse(t) ==
    /\ tasks[t].pc = "forget"
    /\ IF tasks[t].left = {}
       THEN Reply(t)
       ELSE \E i \in tasks[t].left :
              Continue(t, [pc |-> "evict", inode |-> i, left |-> tasks[t].left \ {i},
                           inUse |-> InUse(i)])
    /\ UNCHANGED << entries, born, table, opened, opendirs, retained, kernel, calls >>

\* ... and takes the mutex of the table afterwards.
Evict(t) ==
    LET task == tasks[t] IN
    /\ task.pc = "evict"
    /\ table' = Evicted(task.inode, task.amount, task.inUse)
    /\ IF task.left = {} THEN Reply(t) ELSE Continue(t, [pc |-> "forget"])
    /\ UNCHANGED << entries, born, opened, opendirs, retained, kernel, calls >>

-----------------------------------------------------------------------------
\* The directories the kernel may name.
Parents == {i \in Inodes : Held(i) /\ Folder(i)}

\* A callback the kernel issues, on inodes it holds.
Call(t) ==
    /\ tasks[t] = Idle /\ calls < MaxCalls
    /\ \/ \E p \in Parents :
            \/ List(t, "opendir", p, NoName)
            \/ \E name \in Names :
                \/ List(t, "lookup", p, name) \/ Unlink(t, p, name)
                \/ \E n \in Nodes : Create(t, p, name, n)
                \/ \E i \in Inodes : Link(t, i, p, name)
                \/ \E q \in Parents, other \in Names, exchange \in BOOLEAN :
                     Rename(t, p, name, q, other, exchange)
       \/ \E p \in Inodes, name \in Names : LookupEntry(t, p, name)
       \/ \E i \in Inodes : OpenStart(t, i) \/ \E amount \in 1..kernel[i] : Forget(t, i, amount)

\* A task goes on.
Step(t) ==
    \/ FetchMetadata(t) \/ Reconcile(t) \/ RememberEntry(t) \/ Select(t) \/ CountLookup(t)
    \/ OpenDirectory(t) \/ OpenEnd(t) \/ TakeHandle(t) \/ NameCreated(t) \/ ForgetEntry(t)
    \/ MoveEntry(t) \/ Fail(t) \/ CheckUse(t) \/ Evict(t)

Next ==
    \/ \E d \in Folders, name \in Names, n \in Nodes \cup {NoNode} : ExportChanges(d, name, n)
    \/ \E d \in opendirs : ReleaseDirectory(d)
    \/ \E t \in Tasks :
        \/ Call(t) \/ Step(t)
        \/ \E inodes \in retained : Retire(t, inodes)
        \/ \E i \in Inodes : Release(t, i)

Spec == Init /\ [][Next]_vars

-----------------------------------------------------------------------------
(* Properties *)

\* The shape of the state.  Numbers are below the next one to be given out.
TypeOK ==
    /\ entries \in [Folders \X Names -> Nodes \cup {NoNode}] /\ born \subseteq Nodes
    /\ DOMAIN table.byInode \subseteq 1..table.next - 1 /\ table.next \in 2..MaxInodes + 1
    /\ \A i \in DOMAIN table.byInode :
         table.byInode[i].node \in {Root} \cup Nodes /\ table.byInode[i].parent \in Inodes
    /\ opened \in [Inodes -> Nat] /\ kernel \in [Inodes -> Nat]
    /\ \A d \in opendirs : d.inode \in Inodes /\ d.listed \subseteq Inodes
    /\ retained \subseteq SUBSET Inodes
    /\ calls \in 0..MaxCalls

\* The maps of the table describe one relation, whatever interleaving of
\* lookups, listings, renames and evictions produced it: numbers and nodes
\* correspond one to one, and an entry never names a number that was evicted
\* (remember_entry, move_entry and evict_inode each change several maps).
TablesAgree ==
    /\ DOMAIN table.byNode = {table.byInode[i].node : i \in DOMAIN table.byInode}
    /\ \A i \in DOMAIN table.byInode : table.byNode[table.byInode[i].node] = i
    /\ \A e \in DOMAIN table.byEntry : table.byEntry[e] \in DOMAIN table.byInode

\* The references a forget task has yet to give back, one pair for each.
Forgets(task, i) == \/ task.pc = "forget" /\ i \in task.left
                    \/ task.pc = "evict" /\ (task.inode = i \/ i \in task.left)
Units(t) == {t} \X (1..tasks[t].amount)
Forgetting(i) == Cardinality(UNION {Units(t) : t \in {u \in Tasks : Forgets(tasks[u], i)}})

\* The adapter's count of an inode is the number of references the kernel
\* holds plus those on their way back in a forget: nothing is lost or counted
\* twice although forgets run on tasks of their own and may be overtaken by
\* lookups, links and evictions of the same inode.
LookupsMatchKernel ==
    \A i \in Inodes \ {Root} : Count(i) = kernel[i] + Forgetting(i)

\* The state has its shape, no handle count falls below zero, and the lookup
\* counts match.
LookupsCounted == TypeOK /\ LookupsMatchKernel

\* Every number the kernel holds a reference to is in the table, so that a
\* callback naming it finds its node.  lookup_from_listing, create_file_async
\* and lookup_async find the number and count the reference in two lock
\* sections, and an eviction may run in between.
KernelInodesKnown == \A i \in Inodes : Held(i) => Known(i)

=============================================================================
