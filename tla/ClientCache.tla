---------------------------- MODULE ClientCache -----------------------------
(***************************************************************************)
(* The metadata and the listings a mount caches for a directory and a file *)
(* in it, in memory and, through the cache writer's queue, on disk, while  *)
(* listings, lookups, changes and background refreshes overlap.  A call is *)
(* answered by the server in one step and used in a later one.             *)
(* Source: CachedFilesystem in src/crates/client-core/src/cached.rs, and   *)
(* MemoryCache and NonBlockingPersistentCache in src/crates/cache/src/     *)
(* lib.rs.                                                                 *)
(***************************************************************************)
EXTENDS Integers, Sequences, SequencesExt

CONSTANTS
    Tasks,              \* callers
    Lister,             \* one of them, which lists the directory again and again
    StoreLimit,         \* store_job_limit
    Mixes,              \* [calls: what the other callers may call, << op, node >>, outages,
                        \*  kept: whether an earlier mount left the listing on disk]
    MaxRevision         \* bound

VARIABLES
    mix,                \* the calls they have not made yet, and the outages to come
    server,             \* node -> revision
    memory, disk,       \* [meta: node -> revision, dirs: revision -> the file's revision listed]
    jobs,               \* the cache writer's queue
    refreshing,         \* refreshing_directories holds the directory
    tasks,              \* the calls, and the background refreshes
    up,                 \* connected
    listed              \* history: the revision of the Lister's last answer

vars == << mix, server, memory, disk, jobs, refreshing, tasks, up, listed >>

Nodes == {"dir", "file"}
Absent == 0
Revisions == 1 .. MaxRevision
Nothing == [meta |-> [n \in Nodes |-> Absent], dirs |-> [r \in Revisions |-> Absent]]
Idle == [op |-> "idle", pc |-> "idle", node |-> "dir", revision |-> 0, entry |-> 0, found |-> FALSE, asked |-> FALSE]
Background == "refresh"

Left == [meta |-> [n \in Nodes |-> 1], dirs |-> [r \in Revisions |-> IF r = 1 THEN 1 ELSE Absent]]

Init ==
    /\ mix \in Mixes
    /\ server = [n \in Nodes |-> 1]
    /\ memory = Nothing /\ disk = (IF mix.kept THEN Left ELSE Nothing) /\ jobs = << >>
    /\ refreshing = FALSE
    /\ tasks = [t \in Tasks \cup {Background} |-> Idle]
    /\ up = TRUE
    /\ listed = 0

-----------------------------------------------------------------------------
(* The tiers *)

\* enqueue_store_behind drops the job when the writer is too far behind.
StoredBehind(queue, job) == IF Len(queue) > StoreLimit THEN queue ELSE Append(queue, job)

Job(kind, node, revision, entry) ==
    [kind |-> kind, node |-> node, revision |-> revision, entry |-> entry]

MetaStored(tier, n, r) == [tier EXCEPT !.meta[n] = r]

\* store_readthrough_snapshot: the listing, and the metadata of its entries.
ListingStored(tier, r, entry) == [tier EXCEPT !.dirs[r] = entry, !.meta["file"] = entry]

\* invalidate_node: the node's metadata and its listings, or the listings with it.
Invalidated(tier, n) == [tier EXCEPT !.meta[n] = Absent, !.dirs = Nothing.dirs]

\* The cache writer runs the next job on disk.
RunJob ==
    /\ jobs # << >>
    /\ LET j == Head(jobs)
       IN  disk' = CASE j.kind = "meta" -> MetaStored(disk, j.node, j.revision)
                     [] j.kind = "listing" -> ListingStored(disk, j.revision, j.entry)
                     [] j.kind = "invalidate" -> Invalidated(disk, j.node)
    /\ jobs' = Tail(jobs)
    /\ UNCHANGED << mix, server, memory, refreshing, tasks, up, listed >>

-----------------------------------------------------------------------------
(* Calls *)

Goes(t, pc) == tasks' = [tasks EXCEPT ![t].pc = pc]
Ends(t) == tasks' = [tasks EXCEPT ![t] = Idle]

(* create stands for create_file, create_directory, create_symlink and         *)
(* create_special_node; alter for allocate_file, set_xattr, remove_xattr and   *)
(* copy_file_range.  The file has two names in the directory: link adds one,   *)
(* remove and rename act on one.                                               *)

Names == {"remove", "rename"}
Reads == {"list", "view", "metadata", "refresh"}
Changes(op) == op \notin Reads

\* The nodes whose revisions a change replaces at the server.
Changed(op) ==
    CASE op = "create" -> {"dir"}
      [] op \in Names \cup {"link"} -> Nodes
      [] OTHER -> {"file"}

\* The nodes the client invalidates when the change has returned; remove knows
\* the file only from a cached listing.
Affected(op, found) ==
    (IF op \in Names \cup {"create", "link", "exchange"} THEN {"dir"} ELSE {})
    \cup (IF op \in {"link", "attributes", "alter", "write"} \/ (op = "remove" /\ found)
          THEN {"file"} ELSE {})

\* remove_node and rename_node look the name up in the cached listing first.
FirstStep(op) == IF op \in Names \cup {"list"} THEN "meta" ELSE "ask"

Begin(t, op, n) ==
    /\ tasks[t] = Idle
    /\ IF t = Lister THEN op = "list" ELSE << op, n >> \in mix.calls
    /\ mix' = IF t = Lister THEN mix ELSE [mix EXCEPT !.calls = @ \ {<< op, n >>}]
    /\ tasks' = [tasks EXCEPT ![t] = [Idle EXCEPT !.op = op, !.pc = FirstStep(op), !.node = n]]
    /\ UNCHANGED << server, memory, disk, jobs, refreshing, up, listed >>

\* The server answers; a change takes effect there.
Served(t) ==
    /\ tasks[t].pc = "ask" /\ up
    /\ LET changed == IF Changes(tasks[t].op) THEN Changed(tasks[t].op) ELSE {}
       IN  /\ \A n \in changed : server[n] < MaxRevision
           /\ server' = [n \in Nodes |-> IF n \in changed THEN server[n] + 1 ELSE server[n]]
    /\ tasks' = [tasks EXCEPT ![t].pc = "store", ![t].entry = server'["file"],
                              ![t].revision = server'[tasks[t].node]]
    /\ UNCHANGED << mix, memory, disk, jobs, refreshing, up, listed >>

\* Mutant: the directory stays marked when the refresh fails.
StillRefreshing(t) == refreshing

\* The spawned refresh removes its mark however it ends.
RefreshingAfter(t) == refreshing /\ t # Background

\* The connection is lost: a read looks in the cache, a change or a refresh fails.
Unserved(t) ==
    /\ tasks[t].pc \in {"ask", "askmeta"} /\ ~up
    /\ IF Changes(tasks[t].op) \/ t = Background
       THEN Ends(t)
       ELSE tasks' = [tasks EXCEPT ![t].pc = "meta", ![t].asked = TRUE]
    /\ refreshing' = RefreshingAfter(t)
    /\ UNCHANGED << mix, server, memory, disk, jobs, up, listed >>

\* refresh_directory_in_background: one at a time for a directory.
Refreshes == ~refreshing

\* A cached listing is the answer, and the directory is refreshed behind it if
\* the server was not asked; a name is looked up in it; a view also needs the
\* directory's metadata.
AnswerCached(t, r) ==
    /\ listed' = IF t = Lister THEN r ELSE listed
    /\ refreshing' = (refreshing \/ (tasks[t].op = "list" /\ ~tasks[t].asked))
    /\ CASE tasks[t].op \in Names -> tasks' = [tasks EXCEPT ![t].pc = "ask", ![t].found = TRUE]
         [] tasks[t].op = "view" -> tasks' = [tasks EXCEPT ![t].pc = "meta", ![t].op = "metadata"]
         [] tasks[t].op = "list" ->
              IF ~tasks[t].asked /\ Refreshes
              THEN tasks' = [tasks EXCEPT ![t] = Idle,
                                          ![Background] = [Idle EXCEPT !.op = "refresh", !.pc = "ask"]]
              ELSE Ends(t)

\* Nothing cached: the server is asked, unless it has been.
Misses(t) == IF tasks[t].asked THEN Ends(t) ELSE Goes(t, "ask")

Found(task) == IF task.op = "metadata" THEN Idle ELSE [task EXCEPT !.pc = "dir"]

\* offline_directory: the directory's metadata from memory, or from disk by way
\* of memory; then the listing of that revision in the same way.  get_metadata
\* offline is the first half.
LookupMeta(t) ==
    /\ tasks[t].pc = "meta"
    /\ LET m == memory.meta[tasks[t].node]  d == disk.meta[tasks[t].node]
       IN  IF m # Absent THEN tasks' = [tasks EXCEPT ![t] = Found([tasks[t] EXCEPT !.revision = m])]
           ELSE IF d # Absent THEN tasks' = [tasks EXCEPT ![t].pc = "metafill", ![t].revision = d]
           ELSE Misses(t)
    /\ UNCHANGED << mix, server, memory, disk, jobs, refreshing, up, listed >>

FillMeta(t) ==
    /\ tasks[t].pc = "metafill"
    /\ memory' = MetaStored(memory, tasks[t].node, tasks[t].revision)
    /\ tasks' = [tasks EXCEPT ![t] = Found(tasks[t])]
    /\ UNCHANGED << mix, server, disk, jobs, refreshing, up, listed >>

LookupListing(t) ==
    /\ tasks[t].pc = "dir"
    /\ LET r == tasks[t].revision
       IN  \/ /\ memory.dirs[r] # Absent
              /\ AnswerCached(t, r)
           \/ /\ memory.dirs[r] = Absent /\ disk.dirs[r] # Absent
              /\ tasks' = [tasks EXCEPT ![t].pc = "dirfill", ![t].entry = disk.dirs[r]]
              /\ UNCHANGED << refreshing, listed >>
           \/ /\ memory.dirs[r] = Absent /\ disk.dirs[r] = Absent
              /\ Misses(t)
              /\ UNCHANGED << refreshing, listed >>
    /\ UNCHANGED << mix, server, memory, disk, jobs, up >>

FillListing(t) ==
    /\ tasks[t].pc = "dirfill"
    /\ memory' = ListingStored(memory, tasks[t].revision, tasks[t].entry)
    /\ AnswerCached(t, tasks[t].revision)
    /\ UNCHANGED << mix, server, disk, jobs, up >>

\* The answer to get_metadata is stored.
StoreMetadata(t) ==
    /\ tasks[t].pc = "store" /\ tasks[t].op = "metadata"
    /\ memory' = MetaStored(memory, tasks[t].node, tasks[t].revision)
    /\ jobs' = StoredBehind(jobs, Job("meta", tasks[t].node, tasks[t].revision, 0))
    /\ Ends(t)
    /\ UNCHANGED << mix, server, disk, refreshing, up, listed >>

\* The listing the server sent is stored under its revision; list_directory_view
\* also stores the directory's metadata, and a refresh goes on to ask for it.
StoreListing(t) ==
    /\ tasks[t].pc = "store" /\ tasks[t].op \in {"list", "view", "refresh"}
    /\ LET r == tasks[t].revision  e == tasks[t].entry
           listing == ListingStored(memory, r, e)
           queued == StoredBehind(jobs, Job("listing", "dir", r, e))
       IN  IF tasks[t].op = "view"
           THEN /\ memory' = MetaStored(listing, "dir", r)
                /\ jobs' = StoredBehind(queued, Job("meta", "dir", r, 0))
           ELSE memory' = listing /\ jobs' = queued
    /\ IF t = Background THEN Goes(t, "askmeta") ELSE Ends(t)
    /\ listed' = IF t = Lister THEN tasks[t].revision ELSE listed
    /\ UNCHANGED << mix, server, disk, refreshing, up >>

\* The refresh stores the directory's metadata if it is of the listing's revision.
RefreshMetadata(t) ==
    /\ tasks[t].pc = "askmeta" /\ up
    /\ IF server["dir"] = tasks[t].revision
       THEN /\ memory' = MetaStored(memory, "dir", server["dir"])
            /\ jobs' = StoredBehind(jobs, Job("meta", "dir", server["dir"], 0))
       ELSE UNCHANGED << memory, jobs >>
    /\ refreshing' = RefreshingAfter(t)
    /\ Ends(t)
    /\ UNCHANGED << mix, server, disk, up, listed >>

\* A change has returned: what it affects is invalidated in memory at once and,
\* but for a write, on disk by jobs; the metadata it returned is stored.
StoreChange(t) ==
    /\ tasks[t].pc = "store" /\ Changes(tasks[t].op)
    /\ LET op == tasks[t].op
           gone == Affected(op, tasks[t].found)
           left == [meta |-> [n \in Nodes |-> IF n \in gone THEN Absent ELSE memory.meta[n]],
                    dirs |-> IF gone = {} THEN memory.dirs ELSE Nothing.dirs]
           queued == IF op = "write" THEN jobs
                     ELSE jobs \o SetToSeq({Job("invalidate", n, 0, 0) : n \in gone})
           stores == op \in {"attributes", "link"}
       IN  /\ memory' = IF stores THEN MetaStored(left, "file", tasks[t].entry) ELSE left
           /\ jobs' = IF stores THEN StoredBehind(queued, Job("meta", "file", tasks[t].entry, 0)) ELSE queued
    /\ Ends(t)
    /\ UNCHANGED << mix, server, disk, refreshing, up, listed >>

Disconnect ==
    /\ up /\ mix.outages > 0
    /\ up' = FALSE /\ mix' = [mix EXCEPT !.outages = @ - 1]
    /\ UNCHANGED << server, memory, disk, jobs, refreshing, tasks, listed >>

Reconnect ==
    /\ ~up
    /\ up' = TRUE
    /\ UNCHANGED << mix, server, memory, disk, jobs, refreshing, tasks, listed >>

-----------------------------------------------------------------------------
Step(t) ==
    \/ Served(t) \/ Unserved(t)
    \/ LookupMeta(t) \/ FillMeta(t) \/ LookupListing(t) \/ FillListing(t)
    \/ StoreMetadata(t) \/ StoreListing(t) \/ RefreshMetadata(t) \/ StoreChange(t)

Calls == UNION {m.calls : m \in Mixes} \cup {<< "list", "dir" >>}

Next ==
    \/ \E t \in Tasks, c \in Calls : Begin(t, c[1], c[2])
    \/ \E t \in Tasks \cup {Background} : Step(t)
    \/ RunJob
    \/ Disconnect
    \/ Reconnect

\* Started calls are answered or fail, a lost connection is restored in the end,
\* and the directory keeps being listed.
Spec ==
    /\ Init /\ [][Next]_vars
    /\ \A t \in Tasks \cup {Background} : WF_vars(Step(t))
    /\ WF_vars(Begin(Lister, "list", "dir"))
    /\ WF_vars(Reconnect)

-----------------------------------------------------------------------------
(* Properties *)

\* A directory that keeps being listed is eventually listed as it is: cached
\* listings are answered at once and refreshed behind, so an answer may be old,
\* but not for ever, whatever late answers overwrite and refreshes fail.
ListingsBecomeCurrent == []<>(listed = server["dir"])
=============================================================================
