-------------------------- MODULE PersistentCache --------------------------
(***************************************************************************)
(* The on-disk read-through cache of the client: a manifest of entries,    *)
(* content-addressed payload files, group commit by the writer thread, the *)
(* readers that heal damaged entries beside it, and crashes.               *)
(*                                                                         *)
(* A payload file is named after key and content, so it is the pair of     *)
(* both.  An entry of the manifest is the content of a key; last_access is *)
(* the position of the key in `order`, least recently used first.          *)
(***************************************************************************)
EXTENDS Naturals, Sequences, FiniteSets, FiniteSetsExt, SequencesExt

CONSTANTS Nodes,        \* nodes whose state is cached
          Keys,         \* EntryKey
          NodeOf,       \* the node of a key, if it has one
          Directories,  \* the keys of directory listings
          Contents,     \* payloads
          None,         \* no entry, no node
          Listed,       \* the nodes a listing names
          Length,       \* stored_length of a payload
          Budgets,      \* what maximum_payload_bytes is set to
          MaxEntries,   \* MAX_MANIFEST_ENTRIES
          BatchMax,     \* WRITER_BATCH_MAX
          Stores,       \* sequences of <<key, content>> that are stored
          Matches,      \* sets of keys that an invalidation selects
          Faults,       \* which disk operations may fail
          MaxJobs,      \* bound: jobs queued since the start
          MaxDamage,    \* bound: payload files damaged or deleted by others
          MaxCrashes    \* bound: restarts

CacheConstants ==
    /\ NodeOf \in [Keys -> Nodes \cup {None}] /\ Directories \subseteq Keys
    /\ Listed \in [Contents -> SUBSET Nodes] /\ Length \in [Contents -> Nat]
    /\ None \notin Contents \cup Nodes
    /\ Budgets \subseteq Nat \ {0}
    /\ MaxEntries \in Nat /\ BatchMax \in Nat \ {0}
    /\ \A store \in Stores : store \in Seq(Keys \X Contents)
    /\ Matches \subseteq SUBSET Keys
    /\ Faults \subseteq {"payload", "manifest"}

VARIABLES entries,    \* PersistentState.entries
          order,      \* the keys of entries by last_access
          manifest,   \* the manifest on disk: its entries and their order
          files,      \* the payload files on disk
          damaged,    \* the ones whose bytes are wrong
          budget,     \* maximum_payload_bytes
          active,     \* DeferredCommits.active
          dirty,      \* DeferredCommits.dirty
          pending,    \* DeferredCommits.pending_removals
          removing,   \* files a commit is about to remove, under the state lock
          locked,     \* who holds the state lock for a commit
          queue,      \* the writer's channel
          writer,     \* the writer thread
          jobs,       \* jobs queued so far
          damage,     \* payload files damaged so far
          crashes     \* restarts so far

state  == <<entries, order>>
deferred == <<active, dirty, pending>>
commit == <<removing, locked>>
disk   == <<manifest, files, damaged>>
bounds == <<jobs, damage, crashes>>
vars   == <<state, disk, budget, deferred, commit, queue, writer, bounds>>

Empty == [k \in Keys |-> None]
Waiting == [pc |-> "idle", batch |-> <<>>, prepared |-> <<>>, written |-> <<>>]

Init ==
    /\ entries = Empty /\ order = <<>>
    /\ manifest = [entries |-> Empty, order |-> <<>>]
    /\ files = {} /\ damaged = {}
    /\ budget \in Budgets
    /\ active = FALSE /\ dirty = FALSE /\ pending = {}
    /\ removing = {} /\ locked = "no"
    /\ queue = <<>> /\ writer = Waiting
    /\ jobs = 0 /\ damage = 0 /\ crashes = 0

-----------------------------------------------------------------------------
(***************************************************************************)
(* Entries, eviction and files                                             *)
(***************************************************************************)
Present(table) == {k \in Keys : table[k] # None}
Referenced(table) == {<<k, table[k]>> : k \in Present(table)}
PayloadBytes(table) == MapThenSumSet(LAMBDA k : Length[table[k]], Present(table))

Without(table, keys) == [k \in Keys |-> IF k \in keys THEN None ELSE table[k]]
Keep(sequence, keys) == SelectSeq(sequence, LAMBDA k : k \in keys)
Touched(sequence, k) == Append(Keep(sequence, Keys \ {k}), k)

\* evict_to_budget: how many of the least recently used entries go.
Evictions(table, sequence, maximum) ==
    Min({n \in 0 .. Len(sequence) :
           PayloadBytes(Without(table, ToSet(SubSeq(sequence, 1, n)))) <= maximum})

Evict(table, sequence, maximum) ==
    LET gone == ToSet(SubSeq(sequence, 1, Evictions(table, sequence, maximum)))
    IN [entries |-> Without(table, gone), order |-> Keep(sequence, Keys \ gone)]

\* read_disk_entry answers CorruptEntry.
Unreadable(file) == file \notin files \/ file \in damaged

\* remove_unreferenced_files.
Unlink(names, table) ==
    /\ files' = files \ (names \ Referenced(table))
    /\ damaged' = damaged \ (names \ Referenced(table))

-----------------------------------------------------------------------------
(***************************************************************************)
(* commit_state                                                            *)
(***************************************************************************)
Obsolete(table) == Referenced(entries) \ Referenced(table)

\* Inside a batch: in memory now, on disk with the flush.
Defer(table, sequence) ==
    /\ entries' = table /\ order' = sequence
    /\ dirty' = TRUE
    /\ pending' = pending \cup Obsolete(table)
    /\ UNCHANGED <<active, manifest, commit>>

\* Otherwise the manifest is written first; the files go after it.  The writer
\* is always inside a batch, so this is a reader's commit.
WriteThrough(table, sequence) ==
    /\ manifest' = [entries |-> table, order |-> sequence]
    /\ entries' = table /\ order' = sequence
    /\ dirty' = FALSE /\ pending' = {}
    /\ removing' = pending \cup Obsolete(table)
    /\ locked' = "reader"
    /\ UNCHANGED active

Commit(table, sequence) ==
    IF active THEN Defer(table, sequence) ELSE WriteThrough(table, sequence)

\* A commit removes one of its files, and lets go of the lock at the end.
RemoveObsolete ==
    /\ locked # "no"
    /\ \/ \E file \in removing :
             /\ Unlink({file}, entries)
             /\ removing' = removing \ {file}
             /\ UNCHANGED locked
       \/ /\ removing = {}
          /\ locked' = "no"
          /\ UNCHANGED <<files, damaged, removing>>
    /\ UNCHANGED <<state, manifest, budget, deferred, queue, writer, bounds>>

-----------------------------------------------------------------------------
(***************************************************************************)
(* Readers                                                                 *)
(***************************************************************************)
Open == writer.pc \notin {"down", "opened"}
Free == Open /\ locked = "no"

\* read_key of an intact entry.
Read(k) ==
    /\ Free
    /\ entries[k] # None /\ ~Unreadable(<<k, entries[k]>>)
    /\ order' = Touched(order, k)
    /\ UNCHANGED <<entries, disk, budget, deferred, commit, queue, writer, bounds>>

\* read_key of a damaged one removes it.
Heal(k) ==
    /\ Free
    /\ entries[k] # None /\ Unreadable(<<k, entries[k]>>)
    /\ Commit(Without(entries, {k}), Keep(order, Keys \ {k}))
    /\ UNCHANGED <<files, damaged, budget, queue, writer, bounds>>

-----------------------------------------------------------------------------
(***************************************************************************)
(* The writer thread                                                       *)
(***************************************************************************)
Jobs == [op : {"store"}, pairs : Stores]
            \cup [op : {"node", "containing"}, node : Nodes]
            \cup [op : {"keys"}, keys : Matches]

\* enqueue, enqueue_and_wait, and enqueue_store_behind when it does not drop.
Enqueue(job) ==
    /\ Open
    /\ jobs < MaxJobs
    /\ jobs' = jobs + 1
    /\ queue' = Append(queue, job)
    /\ UNCHANGED <<state, disk, budget, deferred, commit, writer, damage, crashes>>

\* recv, try_recv up to WRITER_BATCH_MAX, begin_deferred_commits.
BeginBatch ==
    /\ writer.pc = "idle" /\ queue # <<>>
    /\ LET n == Min({Len(queue), BatchMax})
       IN /\ writer' = [writer EXCEPT !.pc = "job", !.batch = SubSeq(queue, 1, n)]
          /\ queue' = SubSeq(queue, n + 1, Len(queue))
    /\ active' = TRUE
    /\ UNCHANGED <<state, disk, budget, dirty, pending, commit, bounds>>

NextJob == writer' = [writer EXCEPT !.pc = "job", !.batch = Tail(@),
                                    !.prepared = <<>>, !.written = <<>>]

At(op) == writer.pc = "job" /\ writer.batch # <<>> /\ Head(writer.batch).op = op

Containing(node) ==
    {k \in Directories : /\ entries[k] # None
                         /\ \/ Unreadable(<<k, entries[k]>>)
                            \/ node \in Listed[entries[k]]}

Selected(job) ==
    CASE job.op = "node" -> {k \in Keys : NodeOf[k] = job.node} \cup Containing(job.node)
      [] job.op = "containing" -> Containing(job.node)
      [] job.op = "keys" -> job.keys

\* invalidate_node, invalidate_directories_containing and remove_matching.
Invalidate ==
    /\ locked = "no"
    /\ At("node") \/ At("containing") \/ At("keys")
    /\ LET gone == Selected(Head(writer.batch)) \cap Present(entries)
       IN IF gone = {} THEN UNCHANGED <<state, manifest, deferred, commit>>
          ELSE Commit(Without(entries, gone), Keep(order, Keys \ gone))
    /\ NextJob
    /\ UNCHANGED <<files, damaged, budget, queue, bounds>>

\* insert_entries, phases 1 and 2: what is too large or already current.
Prepare ==
    /\ locked = "no" /\ At("store")
    /\ LET pairs == Head(writer.batch).pairs
           prepared == SelectSeq(pairs, LAMBDA p : entries[p[1]] # p[2])
       IN IF (\E i \in DOMAIN pairs : Length[pairs[i][2]] > budget) \/ prepared = <<>>
          THEN NextJob
          ELSE writer' = [writer EXCEPT !.pc = "write", !.prepared = prepared]
    /\ UNCHANGED <<state, disk, budget, deferred, commit, queue, bounds>>

NextFile == writer.prepared[Len(writer.written) + 1]

\* Phase 3, without the lock: one payload file appears.
WritePayload ==
    /\ writer.pc = "write"
    /\ Len(writer.written) < Len(writer.prepared)
    /\ files' = files \cup {NextFile}
    /\ damaged' = damaged \ {NextFile}
    /\ writer' = [writer EXCEPT !.written = Append(@, NextFile)]
    /\ UNCHANGED <<state, manifest, budget, deferred, commit, queue, bounds>>

\* Phase 3 fails: what was written goes.
WriteFails ==
    /\ "payload" \in Faults
    /\ locked = "no" /\ writer.pc = "write"
    /\ Len(writer.written) < Len(writer.prepared)
    /\ Unlink(ToSet(writer.written), entries)
    /\ NextJob
    /\ UNCHANGED <<state, manifest, budget, deferred, commit, queue, bounds>>

Insert(proposed, pair) ==
    [entries |-> [proposed.entries EXCEPT ![pair[1]] = pair[2]],
     order   |-> Touched(proposed.order, pair[1])]

\* Phase 4: the entries are spliced in, the oldest evicted, and written files
\* that nothing refers to removed.
Splice ==
    /\ locked = "no" /\ writer.pc = "write"
    /\ Len(writer.written) = Len(writer.prepared)
    /\ LET proposed == FoldLeft(Insert, [entries |-> entries, order |-> order],
                                writer.prepared)
           kept == Evict(proposed.entries, proposed.order, budget)
       IN IF Cardinality(Present(proposed.entries)) > MaxEntries
          THEN /\ Unlink(ToSet(writer.written), entries)
               /\ UNCHANGED <<state, manifest, deferred, commit>>
          ELSE /\ Commit(kept.entries, kept.order)
               /\ Unlink(ToSet(writer.written), kept.entries)
    /\ NextJob
    /\ UNCHANGED <<budget, queue, bounds>>

\* flush_deferred_commits.
Flush ==
    /\ locked = "no" /\ writer.pc = "job" /\ writer.batch = <<>>
    /\ active' = FALSE
    /\ writer' = [writer EXCEPT !.pc = "flushed"]
    /\ IF dirty
       THEN /\ manifest' = [entries |-> entries, order |-> order]
            /\ dirty' = FALSE /\ pending' = {}
            /\ removing' = pending /\ locked' = "writer"
       ELSE UNCHANGED <<manifest, dirty, pending, commit>>
    /\ UNCHANGED <<state, files, damaged, budget, queue, bounds>>

\* Mutants of FlushFails: dirty is cleared, or the removals are carried out,
\* although the manifest was not written.
FlushFailsClean ==
    /\ "manifest" \in Faults
    /\ locked = "no" /\ writer.pc = "job" /\ writer.batch = <<>> /\ dirty
    /\ active' = FALSE /\ dirty' = FALSE
    /\ writer' = [writer EXCEPT !.pc = "flushed"]
    /\ UNCHANGED <<state, disk, budget, pending, commit, queue, bounds>>

FlushFailsRemoving ==
    /\ "manifest" \in Faults
    /\ locked = "no" /\ writer.pc = "job" /\ writer.batch = <<>> /\ dirty
    /\ active' = FALSE /\ pending' = {}
    /\ removing' = pending /\ locked' = "writer"
    /\ writer' = [writer EXCEPT !.pc = "flushed"]
    /\ UNCHANGED <<state, disk, budget, dirty, queue, bounds>>

\* The manifest cannot be written: dirty and pending_removals stay.
FlushFails ==
    /\ "manifest" \in Faults
    /\ locked = "no" /\ writer.pc = "job" /\ writer.batch = <<>> /\ dirty
    /\ active' = FALSE
    /\ writer' = [writer EXCEPT !.pc = "flushed"]
    /\ UNCHANGED <<state, disk, budget, dirty, pending, commit, queue, bounds>>

\* The waiters of the batch are told.
Complete ==
    /\ locked # "writer" /\ writer.pc = "flushed"
    /\ writer' = Waiting
    /\ UNCHANGED <<state, disk, budget, deferred, commit, queue, bounds>>

-----------------------------------------------------------------------------
(***************************************************************************)
(* The disk, crashes and restarts                                          *)
(***************************************************************************)

\* Something other than the cache spoils a payload file.
Damage(file) ==
    /\ damage < MaxDamage
    /\ file \in files \ damaged
    /\ damaged' = damaged \cup {file}
    /\ damage' = damage + 1
    /\ UNCHANGED <<state, manifest, files, budget, deferred, commit, queue, writer,
                   jobs, crashes>>

\* The process dies: only the disk is left.
Crash ==
    /\ crashes < MaxCrashes
    /\ crashes' = crashes + 1
    /\ entries' = Empty /\ order' = <<>>
    /\ active' = FALSE /\ dirty' = FALSE /\ pending' = {}
    /\ removing' = {} /\ locked' = "no"
    /\ queue' = <<>>
    /\ writer' = [Waiting EXCEPT !.pc = "down"]
    /\ UNCHANGED <<disk, budget, jobs, damage>>

\* A mutant of LoadManifest: open does not enforce the budget.
LoadUnbounded ==
    /\ writer.pc = "down"
    /\ budget' \in Budgets
    /\ entries' = manifest.entries /\ order' = manifest.order
    /\ writer' = [writer EXCEPT !.pc = "opened"]
    /\ UNCHANGED <<disk, deferred, commit, queue, bounds>>

\* PersistentCache::open, up to enforce_budget.  The budget is an option of the
\* command line, so it may have changed.
LoadManifest ==
    /\ writer.pc = "down"
    /\ \E maximum \in Budgets :
         LET kept == Evict(manifest.entries, manifest.order, maximum)
         IN /\ budget' = maximum
            /\ entries' = kept.entries /\ order' = kept.order
            /\ manifest' = kept
    /\ writer' = [writer EXCEPT !.pc = "opened"]
    /\ UNCHANGED <<files, damaged, deferred, commit, queue, bounds>>

\* remove_orphaned_files, one file; the cache is open when none is left.
RemoveOrphan ==
    /\ writer.pc = "opened"
    /\ \/ \E file \in files \ Referenced(entries) :
             Unlink({file}, entries) /\ UNCHANGED writer
       \/ /\ files \subseteq Referenced(entries)
          /\ writer' = Waiting
          /\ UNCHANGED <<files, damaged>>
    /\ UNCHANGED <<state, manifest, budget, deferred, commit, queue, bounds>>

-----------------------------------------------------------------------------
Work == \/ BeginBatch \/ Invalidate \/ Prepare \/ WritePayload \/ WriteFails
        \/ Splice \/ Flush \/ FlushFails \/ Complete

Next ==
    \/ \E k \in Keys : Read(k) \/ Heal(k)
    \/ \E job \in Jobs : Enqueue(job)
    \/ Work
    \/ RemoveObsolete
    \/ \E file \in Keys \X Contents : Damage(file)
    \/ Crash \/ LoadManifest \/ RemoveOrphan

Spec == Init /\ [][Next]_vars

-----------------------------------------------------------------------------
(***************************************************************************)
(* Properties                                                              *)
(***************************************************************************)

\* The variables have their types, and last_access orders exactly the keys that
\* have an entry.
TypeOK ==
    /\ entries \in [Keys -> Contents \cup {None}]
    /\ ToSet(order) = Present(entries) /\ IsInjective(order)
    /\ manifest.entries \in [Keys -> Contents \cup {None}]
    /\ ToSet(manifest.order) = Present(manifest.entries)
    /\ damaged \subseteq files /\ files \subseteq Keys \X Contents
    /\ budget \in Budgets
    /\ active \in BOOLEAN /\ dirty \in BOOLEAN
    /\ pending \cup removing \subseteq Keys \X Contents
    /\ locked \in {"no", "reader", "writer"}
    /\ \A i \in DOMAIN queue : queue[i] \in Jobs
    /\ writer.pc \in {"idle", "job", "write", "flushed", "down", "opened"}
    /\ writer.written = SubSeq(writer.prepared, 1, Len(writer.written))

\* Neither a deferred removal, nor the clean-up of a store, nor a reader healing
\* an entry deletes a payload file that a live entry refers to.
EntriesOnDisk == Referenced(entries) \subseteq files

\* "manifest first, then file removal": wherever the process is stopped, the
\* manifest it leaves refers to payload files that exist.
ManifestOnDisk == Referenced(manifest.entries) \subseteq files

\* What is in memory and not in the manifest is marked, so that the next commit
\* or flush writes it, after failed flushes and concurrent healing too.
UnsavedIsDirty == Open /\ manifest.entries # entries => dirty

\* A running cache loses track of no payload file: each one is referred to by an
\* entry or the manifest, is waiting for its removal, or is being written.
NoOrphans ==
    Open => files \subseteq Referenced(entries) \cup Referenced(manifest.entries)
                            \cup pending \cup removing \cup ToSet(writer.written)

\* The entries never hold more than maximum_payload_bytes, in memory and in the
\* manifest, after a restart with a smaller budget too.
WithinBudget ==
    Open => /\ PayloadBytes(entries) <= budget
            /\ PayloadBytes(manifest.entries) <= budget
=============================================================================
