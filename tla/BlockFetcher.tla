---------------------------- MODULE BlockFetcher ----------------------------
(***************************************************************************)
(* Demand reads and speculative fetches of one file, through the map of    *)
(* shared fetches and the two tiers of cached ranges, while the file is    *)
(* written through another handle.  A block's data is the revision it was  *)
(* read at.                                                                *)
(* Source: Fetcher::fetch_block, CachedFilesystem::read_online,            *)
(* read_range_versioned and write_range in                                 *)
(* src/crates/client-core/src/cached.rs, and the range cache of            *)
(* NonBlockingPersistentCache in src/crates/cache/src/lib.rs.              *)
(***************************************************************************)
EXTENDS Integers, Sequences, FiniteSets

CONSTANTS
    Readers,            \* demand reads, each through a handle of its own
    Speculators,        \* speculative fetches
    Blocks,
    Cells,              \* what a shared fetch may be kept in
    None,
    Retries,            \* STALE_REVISION_RETRIES
    StoreLimit,         \* store_job_limit
    Workloads,          \* what a behaviour may do: spans, writers, reads, faults
    MaxRevision         \* bound

VARIABLES
    file,               \* the file's revision at the server
    handle,             \* reader -> revision recorded for its handle
    hot, disk,          \* cached ranges: key -> data
    jobs,               \* the cache writer's queue
    cells,              \* shared fetches: cell -> leader and result
    fetches,            \* range_fetches: key -> registered cell
    calls,              \* fetch_block calls
    readers,            \* demand reads
    writer,             \* the write in progress
    workload, reads, faults,
    written             \* history: the revision of the last write that returned

bounds == << workload, reads, faults >>
vars == << file, handle, hot, disk, jobs, cells, fetches, calls, readers, writer, bounds, written >>

Keys == [revision : 1 .. MaxRevision, block : Blocks]
Key(r, b) == [revision |-> r, block |-> b]

\* A demand read makes one call for each block; all run together.
Calls == (Readers \X Blocks) \cup (Speculators \X Blocks)

FetcherConstants ==
    /\ Readers \cap Speculators = {} /\ None \notin Cells \cup Calls
    /\ \A w \in Workloads : \A r \in Readers : w.span[r] # {} /\ w.span[r] \subseteq Blocks

Ok(d) == << "ok", d >>
Stale == << "stale", 0 >>
Offline == << "offline", 0 >>
Pending == << "pending", 0 >>

IdleCall == [pc |-> "idle", key |-> None, cell |-> None, answer |-> Pending]
FreeCell == [leader |-> None, result |-> Pending]
IdleReader == [pc |-> "idle", span |-> {}, revision |-> 0, attempt |-> 0, floor |-> 0, data |-> {}]

Init ==
    /\ file = 1
    /\ handle = [r \in Readers |-> 1]
    /\ hot = {} /\ disk = {} /\ jobs = << >>
    /\ cells = [c \in Cells |-> FreeCell]
    /\ fetches = [k \in {} |-> None]
    /\ calls = [f \in Calls |-> IdleCall]
    /\ readers = [r \in Readers |-> IdleReader]
    /\ writer = "idle" /\ written = 1
    /\ workload \in Workloads /\ reads = 0 /\ faults = 0

cache == << hot, disk, jobs >>

-----------------------------------------------------------------------------
(* fetch_block *)

Data(tier, k) == {d \in 1 .. MaxRevision : << k, d >> \in tier}

\* f initializes cell c: the cache is asked first, the ranges in memory, then those
\* on disk, which are brought into memory; without them a request is sent.
Initializes(f, c) ==
    LET k == calls[f].key
    IN  IF Data(hot \cup disk, k) = {}
        THEN /\ calls' = [calls EXCEPT ![f].pc = "request", ![f].cell = c]
             /\ cells' = [cells EXCEPT ![c] = [leader |-> f, result |-> Pending]]
             /\ UNCHANGED hot
        ELSE \E d \in IF Data(hot, k) # {} THEN Data(hot, k) ELSE Data(disk, k) :
                /\ calls' = [calls EXCEPT ![f].pc = "remove", ![f].cell = c]
                /\ cells' = [cells EXCEPT ![c] = [leader |-> f, result |-> Ok(d)]]
                /\ hot' = hot \cup {<< k, d >>}

\* A new Arc is one that nobody has.
Unused(c) == /\ \A g \in Calls : calls[g].cell # c
             /\ \A j \in DOMAIN fetches : fetches[j] # c
NewCell == CHOOSE c \in Cells : Unused(c)

\* The call registers a new cell for its block and initializes it, or joins the
\* registered one.
Register(f) ==
    /\ calls[f].pc = "register"
    /\ LET k == calls[f].key
       IN  IF k \in DOMAIN fetches
           THEN /\ calls' = [calls EXCEPT ![f].pc = "wait", ![f].cell = fetches[k]]
                /\ UNCHANGED << cells, fetches, hot >>
           ELSE /\ NewCell \in Cells /\ Unused(NewCell)
                /\ Initializes(f, NewCell)
                /\ fetches' = [j \in DOMAIN fetches \cup {k} |-> IF j = k THEN NewCell ELSE fetches[j]]
    /\ UNCHANGED << file, handle, disk, jobs, readers, writer, bounds, written >>

\* get_or_init: a waiting call takes over a cell whose initializer was dropped.
Lead(f) ==
    /\ calls[f].pc = "wait" /\ cells[calls[f].cell] = FreeCell
    /\ Initializes(f, calls[f].cell)
    /\ UNCHANGED << file, handle, disk, jobs, fetches, readers, writer, bounds, written >>

\* Mutant: the revision that was read is not compared.
AnyRevision(k) == TRUE

\* read.revision must be the expected one.
Expected(k) == file = k.revision

\* pending_jobs is compared before the job is added.
TooLong == Len(jobs) > StoreLimit

\* The server answers.  What was read at the expected revision is stored: in
\* memory, and by a job of the cache writer unless its queue is too long.
Answered(f) ==
    /\ calls[f].pc = "request"
    /\ LET k == calls[f].key  c == calls[f].cell
       IN  IF Expected(k)
           THEN /\ cells' = [cells EXCEPT ![c].result = Ok(file)]
                /\ hot' = hot \cup {<< k, file >>}
                /\ jobs' = IF TooLong THEN jobs ELSE Append(jobs, << k, file >>)
           ELSE cells' = [cells EXCEPT ![c].result = Stale] /\ UNCHANGED << hot, jobs >>
    /\ calls' = [calls EXCEPT ![f].pc = "remove"]
    /\ UNCHANGED << file, handle, disk, fetches, readers, writer, bounds, written >>

\* The request fails after the resilient layer gave up: every caller of the
\* cell is offline.
RequestFails(f) ==
    /\ calls[f].pc = "request" /\ faults < workload.faults
    /\ faults' = faults + 1
    /\ cells' = [cells EXCEPT ![calls[f].cell].result = Offline]
    /\ calls' = [calls EXCEPT ![f].pc = "remove"]
    /\ UNCHANGED << file, handle, cache, fetches, readers, writer, workload, reads, written >>

\* Mutant: whatever is registered for the block is removed.
RemovesAny(f) == calls[f].key \in DOMAIN fetches

\* Arc::ptr_eq: only the cell this call used is removed.
RemovesOwn(f) == calls[f].key \in DOMAIN fetches /\ fetches[calls[f].key] = calls[f].cell

\* A cell that is neither registered nor used by a call other than f is freed.
Kept(f, registered) ==
    [c \in Cells |-> IF \/ \E k \in DOMAIN registered : registered[k] = c
                       \/ \E g \in Calls \ {f} : calls[g].cell = c
                    THEN cells[c] ELSE FreeCell]

\* The initializer, or a call that waited for it, has the cell's result.
Remove(f) ==
    /\ calls[f].pc \in {"wait", "remove"} /\ cells[calls[f].cell].result # Pending
    /\ fetches' = IF RemovesOwn(f) THEN [j \in DOMAIN fetches \ {calls[f].key} |-> fetches[j]] ELSE fetches
    /\ calls' = [calls EXCEPT ![f] =
          IF f[1] \in Readers THEN [IdleCall EXCEPT !.pc = "done", !.answer = cells[calls[f].cell].result]
          ELSE IdleCall]
    /\ cells' = Kept(f, fetches')
    /\ UNCHANGED << file, handle, cache, readers, writer, bounds, written >>

\* OnceCell: a dropped initializer leaves the cell to the next.
Released(c) == [c EXCEPT !.leader = None]

\* PREFETCH_FETCH_DEADLINE: the future of a speculative fetch is dropped.  A call
\* that joined it takes over; the registration stays.
Deadline(f) ==
    /\ f[1] \in Speculators /\ calls[f].pc \in {"wait", "request"} /\ faults < workload.faults
    /\ faults' = faults + 1
    /\ cells' = IF calls[f].pc = "wait" THEN cells ELSE [cells EXCEPT ![calls[f].cell] = Released(@)]
    /\ calls' = [calls EXCEPT ![f] = IdleCall]
    /\ UNCHANGED << file, handle, cache, fetches, readers, writer, workload, reads, written >>

-----------------------------------------------------------------------------
(* Demand reads *)

Called(r, span, revision) ==
    [f \in Calls |-> IF f[1] = r /\ f[2] \in span
                     THEN [IdleCall EXCEPT !.pc = "register", !.key = Key(revision, f[2])] ELSE calls[f]]

\* read_range_versioned takes the handle's state and reads at its revision.
BeginRead(r) ==
    /\ readers[r].pc \in {"idle", "answered", "failed"} /\ reads < workload.reads
    /\ reads' = reads + 1
    /\ readers' = [readers EXCEPT ![r] = [IdleReader EXCEPT !.pc = "read", !.span = workload.span[r],
                                          !.revision = handle[r], !.floor = written]]
    /\ calls' = Called(r, workload.span[r], handle[r])
    /\ UNCHANGED << file, handle, cache, cells, fetches, writer, workload, faults, written >>

Answers(r) == {calls[<< r, b >>].answer : b \in readers[r].span}
AllDone(r) == readers[r].pc = "read" /\ \A b \in readers[r].span : calls[<< r, b >>].pc = "done"
Quiet(r) == [f \in Calls |-> IF f[1] = r THEN IdleCall ELSE calls[f]]

\* Every block arrived.  The read is answered, and maybe_prefetch may spawn a
\* speculative fetch of another block at the same revision.
Assemble(r) ==
    /\ AllDone(r) /\ \A a \in Answers(r) : a[1] = "ok"
    /\ readers' = [readers EXCEPT ![r].pc = "answered", ![r].data = {a[2] : a \in Answers(r)}]
    /\ \/ calls' = Quiet(r)
       \/ \E s \in Speculators, b \in Blocks \ readers[r].span :
             /\ \A f \in Calls : f[1] = s => calls[f] = IdleCall
             /\ calls' = [Quiet(r) EXCEPT ![<< s, b >>] =
                             [IdleCall EXCEPT !.pc = "register", !.key = Key(readers[r].revision, b)]]
    /\ UNCHANGED << file, handle, cache, cells, fetches, writer, bounds, written >>

\* Some block was unreachable: what the cache holds of the revision, or an error.
AssembleOffline(r) ==
    /\ AllDone(r) /\ Offline \in Answers(r) /\ Stale \notin Answers(r)
    /\ LET k(b) == Key(readers[r].revision, b)
       IN  readers' = [readers EXCEPT
              ![r].pc = IF \A b \in readers[r].span : Data(hot \cup disk, k(b)) # {} THEN "answered" ELSE "failed",
              ![r].data = UNION {Data(hot \cup disk, k(b)) : b \in readers[r].span}]
    /\ calls' = Quiet(r)
    /\ UNCHANGED << file, handle, cache, cells, fetches, writer, bounds, written >>

\* The file has moved on: refresh the handle's revision and retry, a few times.
Refresh(r) ==
    /\ AllDone(r) /\ Stale \in Answers(r)
    /\ IF readers[r].attempt < Retries
       THEN /\ handle' = [handle EXCEPT ![r] = file]
            /\ readers' = [readers EXCEPT ![r].attempt = @ + 1, ![r].revision = file]
            /\ calls' = Called(r, readers[r].span, file)
       ELSE /\ readers' = [readers EXCEPT ![r].pc = "failed"]
            /\ calls' = Quiet(r)
            /\ UNCHANGED handle
    /\ UNCHANGED << file, cache, cells, fetches, writer, bounds, written >>

-----------------------------------------------------------------------------
(* Writes and the cache writer *)

\* A write through another handle of this mount, or by another client.
WriteAtServer(by) ==
    /\ by \in workload.writers /\ writer = "idle" /\ file < workload.revisions
    /\ file' = file + 1
    /\ writer' = IF by = "remote" THEN "idle" ELSE by
    /\ UNCHANGED << handle, cache, cells, fetches, calls, readers, bounds, written >>

\* write_range drops the ranges in memory only; set_attributes, allocate_file and
\* copy_file_range also queue their removal from disk.
WriteReturns ==
    /\ writer # "idle"
    /\ hot' = {}
    /\ jobs' = IF writer = "write" THEN jobs ELSE Append(jobs, "invalidate")
    /\ written' = file
    /\ writer' = "idle"
    /\ UNCHANGED << file, handle, disk, cells, fetches, calls, readers, bounds >>

RunJob ==
    /\ jobs # << >>
    /\ disk' = IF Head(jobs) = "invalidate" THEN {} ELSE disk \cup {Head(jobs)}
    /\ jobs' = Tail(jobs)
    /\ UNCHANGED << file, handle, hot, cells, fetches, calls, readers, writer, bounds, written >>

-----------------------------------------------------------------------------
Step(f) == Register(f) \/ Lead(f) \/ Answered(f) \/ Remove(f)
Proceeds(r) == Assemble(r) \/ AssembleOffline(r) \/ Refresh(r)

Next ==
    \/ \E f \in Calls : Step(f) \/ RequestFails(f) \/ Deadline(f)
    \/ \E r \in Readers : BeginRead(r) \/ Proceeds(r)
    \/ \E by \in {"write", "truncate", "remote"} : WriteAtServer(by)
    \/ WriteReturns
    \/ RunJob

Spec == Init /\ [][Next]_vars

-----------------------------------------------------------------------------
(* Properties *)

\* The store jobs waiting for the cache writer are bounded by its limit.
TypeOK ==
    /\ file \in 1 .. MaxRevision
    /\ handle \in [Readers -> 1 .. MaxRevision]
    /\ DOMAIN fetches \subseteq Keys /\ \A k \in DOMAIN fetches : fetches[k] \in Cells
    /\ Len(SelectSeq(jobs, LAMBDA j : j # "invalidate")) <= StoreLimit + 1

\* One request for a block is on the wire at a time, however demand reads,
\* speculative fetches, finished and dropped fetches of it overlap.
OneRequestPerBlock ==
    \A f, g \in Calls :
        (calls[f].pc = "request" /\ calls[g].pc = "request" /\ calls[f].key = calls[g].key) => f = g

\* An answered read is of one revision, the one it reports, although its blocks
\* were fetched by different tasks and the file was written meanwhile.
ReadsAreOfOneRevision ==
    \A r \in Readers : readers[r].pc = "answered" => readers[r].data = {readers[r].revision}

\* A call that waits for a shared fetch waits for one that is still being made, or
\* may take it over: a speculative fetch dropped at its deadline leaves nobody
\* waiting for a result that cannot come.
WaitersAreServed ==
    \A f \in Calls :
        LET c == cells[calls[f].cell]  leader == calls[c.leader]
        IN  (calls[f].pc = "wait" /\ c.result = Pending /\ c.leader # None) =>
                leader.pc = "request" /\ leader.cell = calls[f].cell

\* Fetches of a block are shared, and whoever shares one gets a result.
FetchesShared == OneRequestPerBlock /\ WaitersAreServed

\* A read that begins after a mutation has returned does not observe older data.
NoStaleRead ==
    \A r \in Readers : readers[r].pc = "answered" => readers[r].revision >= readers[r].floor
=============================================================================
