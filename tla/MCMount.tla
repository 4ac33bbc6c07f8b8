------------------------------ MODULE MCMount -------------------------------
(***************************************************************************)
(* The three tables of the macFUSE adapter: write buffers, inodes and      *)
(* directory views.  They share no state, so a behaviour is one of one of  *)
(* them, chosen in the initial state: the variables of InodeTable are those *)
(* of the inodes, and s1 to s14 those of the other two.                    *)
(***************************************************************************)
EXTENDS InodeTable, TLC

CONSTANTS Files, x, y, d1, d2, f1, f2, MaxHandles, MaxFaults, MaxReads, MaxChanges, Limit

VARIABLES part, s1, s2, s3, s4, s5, s6, s7, s8, s9, s10, s11, s12, s13, s14

slots == << s1, s2, s3, s4, s5, s6, s7, s8, s9, s10, s11, s12, s13, s14 >>
all   == << part, vars, slots >>

\* Calls that observe, flush or drop what a write left in a buffer.
Mixes == {{"write", "read", "fsync", "release", "pathtruncate"}, {"write", "allocate", "truncate"},
          {"write", "copy", "stat"}, {"write", "lock", "flush", "seek", "release"},
          {"read", "seek", "release", "destroy"}}

Buffers == INSTANCE WriteBuffer WITH
    Workloads <- Mixes, Accesses <- {"both", "read"},
    WriteRanges <- {<< 0, 1 >>, << 1, 1 >>, << 1, 3 >>}, ReadRanges <- {<< 0, 3 >>},
    files <- s1, history <- s2, handles <- s3, remote <- s4, pending <- s5,
    guard <- s6, known <- s7, mounted <- s8, workload <- s9, tasks <- s10,
    closing <- s11, calls <- s12, faults <- s13, fate <- s14

\* A directory below the root, and a file in it, beside it or not yet there.
Tree(dir, file) ==
    [e \in {Root, d1} \X Names |-> IF e = dir THEN d1 ELSE IF e = file THEN f1 ELSE 0]
Places == {Tree(<< Root, x >>, << Root, y >>), Tree(<< Root, x >>, << d1, x >>),
           Tree(<< Root, x >>, << >>), Tree(<< >>, << Root, x >>)}

\* The file in both directories, in one of them, not yet there; two files.
Trees == {[nodes |-> {d1, d2, f1}, children |-> (d1 :> {f1}) @@ (d2 :> {f1})],
          [nodes |-> {d1, d2, f1}, children |-> (d1 :> {f1}) @@ (d2 :> {})],
          [nodes |-> {d1, f1}, children |-> (d1 :> {}) @@ (d2 :> {})],
          [nodes |-> {f1, f2}, children |-> (d1 :> {f1, f2}) @@ (d2 :> {})]}

Views == INSTANCE MountViews WITH Dirs <- {d1, d2}, FileNodes <- {f1, f2}, Exports <- Trees,
    version <- s1, children <- s2, views <- s3, listing <- s4, replied <- s5,
    reads <- s6, changes <- s7, scope <- s8, tasks <- s9

ASSUME InodeConstants

HighUnused == s10 = 0 /\ s11 = 0 /\ s12 = 0 /\ s13 = 0 /\ s14 = 0
SlotsUnused == /\ s1 = 0 /\ s2 = 0 /\ s3 = 0 /\ s4 = 0 /\ s5 = 0 /\ s6 = 0 /\ s7 = 0 /\ s8 = 0 /\ s9 = 0
               /\ HighUnused
InodesUnused == Init /\ entries = CHOOSE e \in Exports : TRUE

MountInit ==
    \/ part = "inodes" /\ Init /\ SlotsUnused
    \/ /\ InodesUnused
       /\ \/ part = "buffers" /\ Buffers!Init
          \/ part = "views" /\ Views!Init /\ HighUnused

MountNext ==
    \/ part = "inodes" /\ Next /\ UNCHANGED << part, slots >>
    \/ part = "buffers" /\ Buffers!Next /\ UNCHANGED << part, vars >>
    \/ part = "views" /\ Views!Next /\ UNCHANGED << part, vars, s10, s11, s12, s13, s14 >>

MountSpec == MountInit /\ [][MountNext]_all

Sym == Permutations(Tasks)

-----------------------------------------------------------------------------
(* Properties; TablesAgree, LookupsCounted and KernelInodesKnown are InodeTable's own *)

\* Bytes that write_async has acknowledged are in the buffer of their handle or
\* in the hands of a callback until the server has them: no interleaving of
\* writes, flushes, truncates and releases drops them in silence, and no write is
\* buffered after release_async took its handle's record away.
AcceptedBytesKept ==
    part = "buffers" => /\ Buffers!TypeOK /\ Buffers!AcceptedBytesKept
                        /\ Buffers!BuffersAreOfOpenHandles

\* A read, flush, fsync, seek, truncate, preallocation, copy or close reaches
\* the server after every write acknowledged on its handles before it began, and
\* a write that write_async sends at once overtakes no buffered bytes of its handle.
FlushedBeforeObserved ==
    part = "buffers" => Buffers!FlushedBeforeObserved /\ Buffers!NoOvertaking

\* What read_async puts together over several ranged reads is of one revision.
ReadsAreWhole == part = "buffers" => Buffers!ReadsAreWhole

\* A callback asks the server for a descriptor that is still open there: neither
\* a release nor the closes of destroy_mount overtake it.
DescriptorsAreOpen == part = "buffers" => Buffers!DescriptorsAreOpen

\* Callbacks never wait for each other's handle guards in a circle, copies
\* between the same two handles in opposite directions included.
NoCircularWait == part = "buffers" => Buffers!NoCircularWait

\* When an own mutation has replied, no view that was up to date when it was
\* remembered still shows a changed node as it was before.  The listing mutex of a
\* directory is held by the one readdir_async that loads the directory, also when
\* the load fails or runs into its deadline.
FreshViewsInvalidated ==
    part = "views" => /\ Views!TypeOK /\ Views!FreshViewsInvalidated
                      /\ Views!OneListingAtATime /\ Views!MutexHolderLists
=============================================================================
