--------------------------- MODULE MCServerTables ---------------------------
(***************************************************************************)
(* The shared tables of server-core: the lock table, with requests that do *)
(* not wait, the loop that merges its records, and the node registry.      *)
(* They share no state, so a behaviour is one of one part, chosen in the   *)
(* initial state: the variables of AdvisoryLocks, those of NodeRegistry,   *)
(* or r1 to r10, stay as they are in the others.                           *)
(***************************************************************************)
EXTENDS AdvisoryLocks, NodeRegistry, TLC

CONSTANTS a, b, c, n1, n2, n3

VARIABLES part, r1, r2, r3, r4, r5, r6, r7, r8, r9, r10

slots == << r1, r2, r3, r4, r5, r6, r7, r8, r9, r10 >>
all   == << part, vars, registryVars, slots >>

\* The registry with two files, pools of one and one session: every request, two of
\* which change the tree.
OneFile == (a :> n1) @@ (b :> NoNode)

ASSUME RegistryConstants

-----------------------------------------------------------------------------
\* merge_owner_locks sorts by numbers.
Merge == INSTANCE LockMerge WITH
    Identities <- {1}, Sessions <- {1, 2}, Owners <- {1}, Pids <- {1, 2}, MaxOffset <- 2,
    table <- r1

\* Three files, pools of two: references, eviction, forget and ending sessions.
References == INSTANCE NodeRegistry WITH
    Connections <- Sessions, Nodes <- {n1, n2, n3}, Paths <- {a, b, c},
    InitialTree <- (a :> n1) @@ (b :> n2) @@ (c :> n3),
    Requests <- {"access", "scan", "forget", "drop"},
    RenameModes <- {"Replace"}, MaxKnown <- 2, MaxTotal <- 2, MaxChanges <- 0,
    tree <- r1, registered <- r2, paths <- r3, refs <- r4, globalFree <- r5, known <- r6,
    sessionFree <- r7, open <- r8, running <- r9, changes <- r10

\* Two files and a free name: scans beside renames.
Renames == INSTANCE NodeRegistry WITH
    Nodes <- {n1, n2}, Paths <- {a, b, c},
    InitialTree <- (a :> n1) @@ (b :> n2) @@ (c :> NoNode),
    Requests <- {"scan", "rename"}, RenameModes <- {"Replace"},
    MaxKnown <- 2, MaxTotal <- 2, MaxChanges <- 2,
    tree <- r1, registered <- r2, paths <- r3, refs <- r4, globalFree <- r5, known <- r6,
    sessionFree <- r7, open <- r8, running <- r9, changes <- r10

ASSUME References!RegistryConstants /\ Renames!RegistryConstants

-----------------------------------------------------------------------------
\* Stuttering where the program may stop: every connection is gone, or every
\* table that merge_owner_locks is run on was built.
Stop == part \in {"locks", "merge"} /\ UNCHANGED all

TablesInit ==
    /\ Init /\ RegistryInit
    /\ \/ part \in {"locks", "churn"} /\ r1 = 0 /\ r2 = 0 /\ r3 = 0 /\ r4 = 0 /\ r5 = 0
                                     /\ r6 = 0 /\ r7 = 0 /\ r8 = 0 /\ r9 = 0 /\ r10 = 0
       \/ part = "merge" /\ Merge!Init /\ r2 = 0 /\ r3 = 0 /\ r4 = 0 /\ r5 = 0
                         /\ r6 = 0 /\ r7 = 0 /\ r8 = 0 /\ r9 = 0 /\ r10 = 0
       \/ part = "references" /\ References!RegistryInit

TablesNext ==
    \/ part = "locks" /\ Next /\ UNCHANGED << part, registryVars, slots >>
    \/ part = "merge" /\ Merge!Next
                      /\ UNCHANGED << part, vars, registryVars, r2, r3, r4, r5, r6, r7, r8, r9, r10 >>
    \/ part = "churn" /\ RegistryNext /\ UNCHANGED << part, vars, slots >>
    \/ part = "references" /\ References!RegistryNext /\ UNCHANGED << part, vars, registryVars >>
    \/ Stop

TablesSpec == TablesInit /\ [][TablesNext]_all

RenamesSpec == Init /\ RegistryInit /\ part = "renames" /\ Renames!RegistryInit
                 /\ [][Renames!RegistryNext /\ UNCHANGED << part, vars, registryVars >>]_all

Symmetry == Permutations(Sessions) \cup Permutations(Handles) \cup Permutations(Requesters)

-----------------------------------------------------------------------------
(* Properties; those of AdvisoryLocks and RegistryIntact are their modules' own *)

\* The loop of merge_owner_locks computes the maximal runs of the vector it
\* is given, whatever request replace_owner_range serves.
LoopMergesMaximalRuns == part = "merge" => Merge!LoopMergesMaximalRuns

\* Between two sessions that fill their pools, session_references counts exactly
\* the sessions that track the node and the releases still to come, so that no node
\* a session relies on is evicted, and no permit is lost.
SharedNodesCounted == part = "references" => References!RegistryIntact

\* "node IDs survive renames": when nothing is in progress, a registered node
\* that is still in the tree is found through one of its paths.
RenamedNodesAreFound == part = "renames" => Renames!NodesSurviveRenames
=============================================================================
