-------------------------- MODULE MCClientLiveness --------------------------
(***************************************************************************)
(* What must happen in the client: operations on a connection that is lost *)
(* again and again end, and a directory's cached listing becomes the       *)
(* current one.  ResilientFilesystem and ClientCache are checked apart, so *)
(* a behaviour is one of one part, chosen in the initial state; the        *)
(* variables of the other keep their initial values.                       *)
(***************************************************************************)
EXTENDS Naturals, TLC

CONSTANTS Tasks, Lister, Handles

VARIABLES part,
          generation, failed, lastFailure, reconnecting, handles, handlesLock, mutation,
          operations, live, version, held, foreign, executed, granted, changes, lockCalls,
          mix, server, memory, disk, jobs, refreshing, tasks, up, listed

resilient == << generation, failed, lastFailure, reconnecting, handles, handlesLock, mutation,
                operations, live, version, held, foreign, executed, granted, changes, lockCalls >>
cache     == << mix, server, memory, disk, jobs, refreshing, tasks, up, listed >>
vars      == << part, resilient, cache >>

Resilient == INSTANCE ResilientFilesystem WITH
    Locks <- {}, Modes <- {"write"}, Requests <- {"open", "read", "flush", "close"},
    Attempts <- 2, LockHistory <- 4, RevisionOf <- (0 :> 1), MaxGeneration <- 2,
    MaxChanges <- 0, MaxLockCalls <- 0, tasks <- operations

ASSUME Resilient!ResilientConstants

-----------------------------------------------------------------------------
\* One caller lists the directory again and again while another uses a few of the
\* other operations, with at most one outage.
Mix(calls, outages, kept) == [calls |-> calls, outages |-> outages, kept |-> kept]

Creating == Mix({<< "create", "dir" >>, << "metadata", "dir" >>}, 0, FALSE)
Viewing == Mix({<< "create", "dir" >>, << "view", "dir" >>}, 1, FALSE)
Naming == {Mix({<< op, "dir" >>}, 0, TRUE) : op \in {"remove", "rename", "link"}}
Changing == {Mix({<< op, "file" >>, << "metadata", "file" >>, << "view", "dir" >>}, 0, FALSE) :
                op \in {"attributes", "alter", "write", "exchange"}}
Looking == {Mix({<< "metadata", "dir" >>, << "view", "dir" >>}, 1, kept) : kept \in BOOLEAN}
Listing == Mix({<< "attributes", "file" >>}, 0, FALSE)

Cache == INSTANCE ClientCache WITH
    StoreLimit <- 0, MaxRevision <- 2,
    Mixes <- {Creating, Viewing, Listing} \cup Naming \cup Changing \cup Looking

-----------------------------------------------------------------------------
Init ==
    /\ Resilient!Init /\ Cache!Init
    /\ \/ part = "resilient" /\ mix = Listing
       \/ part = "cache" /\ mix # Listing

\* The application need not ask for anything more; the Lister goes on for ever.
Next ==
    \/ part = "resilient" /\ (Resilient!Next \/ UNCHANGED resilient) /\ UNCHANGED << part, cache >>
    \/ part = "cache" /\ Cache!Next /\ UNCHANGED << part, resilient >>

\* The fairness of the two specifications, each in its part.
Spec ==
    /\ Init /\ [][Next]_vars
    /\ \A t \in Tasks : /\ WF_resilient(part = "resilient" /\ Resilient!Step(t))
                        /\ SF_resilient(part = "resilient" /\ Resilient!Acquire(t))
    /\ \A t \in Tasks \cup {Cache!Background} : WF_cache(part = "cache" /\ Cache!Step(t))
    /\ WF_cache(part = "cache" /\ Cache!Begin(Lister, "list", "dir"))
    /\ WF_cache(part = "cache" /\ Cache!Reconnect)

-----------------------------------------------------------------------------
(* Properties *)

\* Every operation ends, whatever fails: the guards it takes are never taken in
\* conflicting orders and are dropped on every path out.
OperationsFinish == Resilient!OperationsFinish

\* A directory that keeps being listed is eventually listed as it is: answers
\* from the cache are refreshed behind, whatever late answers overwrite.
ListingsBecomeCurrent == part = "cache" => Cache!ListingsBecomeCurrent
=============================================================================
