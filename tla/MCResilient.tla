---------------------------- MODULE MCResilient -----------------------------
(***************************************************************************)
(* ResilientFilesystem with three loads: mutations and open files, which   *)
(* are recovered after a loss of the connection, two locks of one file,    *)
(* which are replayed, and two callers that race for a lock.  A behaviour  *)
(* has one of them: the variables of ResilientFilesystem are those of the  *)
(* first load, and s1 to s16 those of the others.                          *)
(***************************************************************************)
EXTENDS ResilientFilesystem, TLC

CONSTANTS l1, l2

VARIABLES load, s1, s2, s3, s4, s5, s6, s7, s8, s9, s10, s11, s12, s13, s14, s15, s16

slots == << s1, s2, s3, s4, s5, s6, s7, s8, s9, s10, s11, s12, s13, s14, s15, s16 >>
all   == << load, vars, slots >>

\* Digests of three versions of a file: the second change has a smaller one
\* than the first.
Digests == [v \in 0 .. 2 |-> CASE v = 0 -> 1 [] v = 1 -> 3 [] OTHER -> 2]

ASSUME ResilientConstants

Locking == INSTANCE ResilientFilesystem WITH
    Tasks <- {"caller"}, Locks <- {l1, l2}, Modes <- {"write"},
    Requests <- {"safe", "open", "read", "lock", "close", "other lock"},
    Attempts <- 1, LockHistory <- 4, RevisionOf <- [v \in {0} |-> 1], MaxGeneration <- 3,
    MaxChanges <- 0, MaxLockCalls <- 2,
    generation <- s1, failed <- s2, lastFailure <- s3, reconnecting <- s4, handles <- s5,
    handlesLock <- s6, mutation <- s7, tasks <- s8, live <- s9, version <- s10, held <- s11,
    foreign <- s12, executed <- s13, granted <- s14, changes <- s15, lockCalls <- s16

Racing == INSTANCE ResilientFilesystem WITH
    Locks <- {l1}, Modes <- {"write"}, Requests <- {"open", "read", "lock"},
    Attempts <- 1, LockHistory <- 4, RevisionOf <- [v \in {0} |-> 1], MaxGeneration <- 2,
    MaxChanges <- 0, MaxLockCalls <- 1,
    generation <- s1, failed <- s2, lastFailure <- s3, reconnecting <- s4, handles <- s5,
    handlesLock <- s6, mutation <- s7, tasks <- s8, live <- s9, version <- s10, held <- s11,
    foreign <- s12, executed <- s13, granted <- s14, changes <- s15, lockCalls <- s16

ASSUME Locking!ResilientConstants /\ Racing!ResilientConstants

SlotsUnused == /\ s1 = 0 /\ s2 = 0 /\ s3 = 0 /\ s4 = 0 /\ s5 = 0 /\ s6 = 0 /\ s7 = 0 /\ s8 = 0
               /\ s9 = 0 /\ s10 = 0 /\ s11 = 0 /\ s12 = 0 /\ s13 = 0 /\ s14 = 0 /\ s15 = 0 /\ s16 = 0

LoadInit ==
    /\ Init
    /\ \/ load = "recovery" /\ SlotsUnused
       \/ load = "locking" /\ Locking!Init

LoadNext ==
    \/ load = "recovery" /\ Next /\ UNCHANGED << load, slots >>
    \/ load = "locking" /\ Locking!Next /\ UNCHANGED << load, vars >>

LoadSpec == LoadInit /\ [][LoadNext]_all

RaceSpec == /\ load = "race" /\ Init /\ Racing!Init
            /\ [][Racing!Next /\ UNCHANGED << load, vars >>]_all

Symmetry == Permutations(Tasks)

-----------------------------------------------------------------------------
(* Properties; those of the first load are ResilientFilesystem's own *)

\* "a surviving client's active advisory locks are replayed": once a handle works
\* on the current connection, the server holds every lock the application was
\* told it has.  The state of every load has its shape, and what the first load
\* shows of reconnections and recovered handles is so with locks as well.
LocksAreReplayed ==
    /\ TypeOK
    /\ load = "locking" => /\ Locking!TypeOK /\ Locking!SingleFlight
                           /\ Locking!RecoveredUnchanged /\ Locking!LocksReplayed
    /\ load = "race" => Racing!LocksReplayed
=============================================================================
