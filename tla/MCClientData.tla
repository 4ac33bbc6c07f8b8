---------------------------- MODULE MCClientData ----------------------------
(***************************************************************************)
(* What the client keeps of the export: the persistent cache, with failing *)
(* writes and with crashes, the block fetcher and the read-ahead.  They    *)
(* share no state here, so a behaviour is one of one part, chosen in the   *)
(* initial state: the variables of BlockFetcher and ReadAhead are those of *)
(* their parts, and s1 to s16 those of the cache.                          *)
(***************************************************************************)
EXTENDS BlockFetcher, ReadAhead, TLC

CONSTANTS r1, r2,         \* the readers
          dir, leaf,      \* nodes
          list, meta,     \* keys: the listing of dir, the metadata of leaf
          stats,          \* key: the statistics of the filesystem
          old, new        \* contents

VARIABLES part, s1, s2, s3, s4, s5, s6, s7, s8, s9, s10, s11, s12, s13, s14, s15, s16

cacheVars == << s1, s2, s3, s4, s5, s6, s7, s8, s9, s10, s11, s12, s13, s14, s15, s16 >>
all == << part, vars, aheadVars, cacheVars >>

-----------------------------------------------------------------------------
Owner == (list :> dir) @@ (meta :> leaf) @@ (stats :> None)
Names == old :> {leaf} @@ new :> {}
Bytes == old :> 2 @@ new :> 1

\* A listing whose file has two names and changed between the two, and the
\* statistics; writes of payloads and of the manifest fail.
Hardlinks == {<< << list, old >>, << meta, old >>, << meta, new >> >>, << << stats, new >> >>}

Faulty == INSTANCE PersistentCache WITH
    Nodes <- {dir, leaf}, Keys <- {list, meta, stats}, NodeOf <- Owner,
    Directories <- {list}, Contents <- {old, new}, Listed <- Names, Length <- Bytes,
    Matches <- {{list}}, MaxEntries <- 2, BatchMax <- 2, MaxJobs <- 3, MaxDamage <- 1,
    Budgets <- {2, 4}, Stores <- Hardlinks, Faults <- {"payload", "manifest"}, MaxCrashes <- 0,
    entries <- s1, order <- s2, manifest <- s3, files <- s4, damaged <- s5,
    budget <- s6, active <- s7, dirty <- s8, pending <- s9, removing <- s10,
    locked <- s11, queue <- s12, writer <- s13, jobs <- s14, damage <- s15, crashes <- s16

\* One entry at a time; the manifest may fail to be written and the process stops.
Singles == {<< << list, old >> >>, << << list, new >> >>, << << meta, old >> >>}

Crashing == INSTANCE PersistentCache WITH
    Nodes <- {dir, leaf}, Keys <- {list, meta}, NodeOf <- (list :> dir) @@ (meta :> leaf),
    Directories <- {list}, Contents <- {old, new}, Listed <- Names, Length <- Bytes,
    Matches <- {{list}}, MaxEntries <- 2, BatchMax <- 2, MaxJobs <- 3, MaxDamage <- 1,
    Budgets <- {3, 4}, Stores <- Singles, Faults <- {"manifest"}, MaxCrashes <- 1,
    entries <- s1, order <- s2, manifest <- s3, files <- s4, damaged <- s5,
    budget <- s6, active <- s7, dirty <- s8, pending <- s9, removing <- s10,
    locked <- s11, queue <- s12, writer <- s13, jobs <- s14, damage <- s15, crashes <- s16

ASSUME Faulty!CacheConstants /\ Crashing!CacheConstants

\* Two readers and a speculative fetch on two blocks: the same block again and
\* again with a failure, the same two blocks while the file is written, and
\* blocks the other's read-ahead fetches.
Mix(a, b, writers, n, f, v) ==
    [span |-> (r1 :> a) @@ (r2 :> b), writers |-> writers, reads |-> n,
     faults |-> f, revisions |-> v]
Mixes ==
    {Mix({0}, {0}, {}, 4, 1, 1), Mix({0}, {0, 1}, {"truncate"}, 2, 0, 2),
     Mix({0}, {1}, {"remote"}, 2, 1, 3), Mix({0}, {0}, {"write"}, 3, 0, 2),
     Mix({0, 1}, {0}, {"remote"}, 2, 0, 3)}

ASSUME FetcherConstants

\* The read-ahead: six blocks, two streams, windows of one to four blocks, more
\* slots than permits.
ASSUME AheadConstants

-----------------------------------------------------------------------------
CacheUnused == /\ s1 = 0 /\ s2 = 0 /\ s3 = 0 /\ s4 = 0 /\ s5 = 0 /\ s6 = 0 /\ s7 = 0 /\ s8 = 0
               /\ s9 = 0 /\ s10 = 0 /\ s11 = 0 /\ s12 = 0 /\ s13 = 0 /\ s14 = 0 /\ s15 = 0 /\ s16 = 0
FetcherUnused == Init /\ workload = CHOOSE w \in Workloads : TRUE

DataInit ==
    \/ part = "fetcher" /\ Init /\ AheadInit /\ CacheUnused
    \/ /\ FetcherUnused /\ AheadInit
       /\ \/ part = "faults" /\ Faulty!Init
          \/ part = "crashes" /\ Crashing!Init
          \/ part = "ahead" /\ CacheUnused

DataNext ==
    \/ part = "fetcher" /\ Next /\ UNCHANGED << part, aheadVars, cacheVars >>
    \/ part = "faults" /\ Faulty!Next /\ UNCHANGED << part, vars, aheadVars >>
    \/ part = "crashes" /\ Crashing!Next /\ UNCHANGED << part, vars, aheadVars >>
    \/ part = "ahead" /\ AheadNext /\ UNCHANGED << part, vars, cacheVars >>

DataSpec == DataInit /\ [][DataNext]_all

-----------------------------------------------------------------------------
(* Properties; those of BlockFetcher and ReadAhead are their own *)

\* The shape of each part's state, with the limits on entries and their order,
\* on waiting stores, on streams and on windows; the entries never hold more than
\* maximum_payload_bytes, after load_manifest with a smaller budget too.
WithinLimits ==
    /\ part = "faults" => Faulty!TypeOK
    /\ part = "crashes" => Crashing!TypeOK /\ Crashing!WithinBudget
    /\ part = "fetcher" => TypeOK
    /\ part = "ahead" => AheadTypeOK

\* Neither a deferred removal, nor the clean-up of a failed store, nor read_key
\* healing an entry deletes a payload file that a live entry refers to, and a
\* running cache loses track of none.  "manifest first, then file removal":
\* wherever the process is stopped, the manifest refers to files that exist.
PayloadsOnDisk ==
    /\ part = "faults" => Faulty!EntriesOnDisk /\ Faulty!NoOrphans
    /\ part = "crashes" => Crashing!ManifestOnDisk

\* What is in memory and not in the manifest is marked dirty, after a failed
\* flush_deferred_commits and concurrent healing too.
UnsavedIsDirty == part = "faults" => Faulty!UnsavedIsDirty
=============================================================================
