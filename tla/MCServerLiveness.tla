-------------------------- MODULE MCServerLiveness --------------------------
(***************************************************************************)
(* What server-core makes its requests wait for: the locks of other        *)
(* clients, and the gates of the contents of files.  The two share no      *)
(* state, so a behaviour is one of one part, chosen in the initial state;  *)
(* the variables of the other keep their initial values, in which none of  *)
(* its fair steps is enabled.                                              *)
(***************************************************************************)
EXTENDS AdvisoryLocks

CONSTANTS Requesters,           \* the tasks of the requests for contents
          MaxCalls, MaxGivenUp, MaxFaults

VARIABLES part, content, revision, fork, attr, gate, appender, requests, orphans,
          workload, calls, givenUp, faults

contents == << content, revision, fork, attr, gate, appender, requests, orphans,
               workload, calls, givenUp, faults >>

-----------------------------------------------------------------------------
\* Mutations that take the gates of two files, with one that takes one gate, and
\* the ones of one file that wait for the append mutex inside the gate.
Mixes == {[ops |-> {"exchange", "copy"}, on |-> {<< 1, 2 >>, << 2, 1 >>}],
          [ops |-> {"copy", "write"}, on |-> {<< 1, 2 >>, << 2, 1 >>}],
          [ops |-> {"append", "read", "truncate"}, on |-> {<< 1, 1 >>}]}

Contents == INSTANCE FileContents WITH
    Files <- {1, 2}, Tasks <- Requesters, Workloads <- Mixes, tasks <- requests

WaitInit ==
    /\ Init /\ Contents!Init
    /\ \/ part = "locks" /\ workload = CHOOSE w \in Mixes : TRUE
       \/ part = "contents"

WaitNext ==
    \/ part = "locks" /\ Next /\ UNCHANGED << part, contents >>
    \/ part = "contents" /\ Contents!Next /\ UNCHANGED << part, vars >>

WaitSpec ==
    /\ WaitInit /\ [][WaitNext]_<< part, vars, contents >>
    /\ Fairness
    /\ \A t \in Requesters : WF_contents(part = "contents" /\ Contents!Step(t))

-----------------------------------------------------------------------------
(* Properties; those of AdvisoryLocks are its own *)

\* Every request ends: nobody waits for ever for gates taken in two orders.
RequestsEnd == Contents!RequestsEnd
=============================================================================
