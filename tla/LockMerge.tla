----------------------------- MODULE LockMerge -----------------------------
(***************************************************************************)
(* merge_owner_locks as the loop the code runs, against the declarative    *)
(* MergeOwnerLocks of LockTable, on every vector that replace_owner_range  *)
(* hands it.  The tables are those that any sequence of granted requests   *)
(* builds; identities, sessions and owners are numbers, so that the sort   *)
(* key of the code orders them.                                            *)
(***************************************************************************)
EXTENDS LockTable, SequencesExt

CONSTANTS Identities, Sessions, Owners, Pids, MaxOffset

VARIABLE table

Offsets == 0 .. MaxOffset

KindNumber(kind) == IF kind = "Read" THEN 0 ELSE 1

SortKey(record) ==
    <<record.identity, record.session, record.owner, KindNumber(record.kind),
      record.start>>

LexLess(left, right) ==
    \E i \in DOMAIN left : /\ left[i] < right[i]
                           /\ \A j \in 1 .. i - 1 : left[j] = right[j]

SaturatingAdd(offset, n) == Min({offset + n, MaxOffset})

\* A mutant of Extend: records that touch without overlapping stay apart.
ExtendOverlapping(merged, record) ==
    LET previous == merged[Len(merged)]
    IN IF /\ merged # <<>>
          /\ SameRun(previous, record)
          /\ previous.end >= record.start
       THEN [merged EXCEPT ![Len(merged)].end = Max({previous.end, record.end})]
       ELSE Append(merged, record)

\* One turn of the loop: the record extends the last merged one or starts a
\* new one.
Extend(merged, record) ==
    LET previous == merged[Len(merged)]
    IN IF /\ merged # <<>>
          /\ SameRun(previous, record)
          /\ SaturatingAdd(previous.end, 1) >= record.start
       THEN [merged EXCEPT ![Len(merged)].end = Max({previous.end, record.end})]
       ELSE Append(merged, record)

\* sort_by_key: the records of one owner are disjoint, so no two keys are equal.
SortByKey(records) ==
    [i \in 1 .. Cardinality(records) |->
        CHOOSE record \in records :
            i = 1 + Cardinality({r \in records : LexLess(SortKey(r), SortKey(record))})]

MergeLoop(records) == FoldLeft(Extend, <<>>, SortByKey(records))

LockRequests == [owner : Owners, pid : Pids, kind : {"Read", "Write", "Unlock"},
             start : Offsets, end : Offsets]

Init == table = {}

Replace(identity, session, requested) ==
    /\ requested.start <= requested.end
    /\ requested.kind # "Unlock" =>
            Conflicts(table, identity, session, requested) = {}
    /\ table' = ReplaceOwnerRange(table, identity, session, requested,
                                  requested.kind # "Unlock")

Next == \E identity \in Identities, session \in Sessions, requested \in LockRequests :
            Replace(identity, session, requested)

Spec == Init /\ [][Next]_table

\* The loop of merge_owner_locks computes the maximal runs of the vector it
\* is given, without duplicates, whatever request replace_owner_range serves.
LoopMergesMaximalRuns ==
    \A identity \in Identities, session \in Sessions, requested \in LockRequests :
        requested.start <= requested.end =>
            LET vector == Spliced(table, identity, session, requested,
                                  requested.kind # "Unlock")
                merged == MergeLoop(vector)
            IN /\ ToSet(merged) = MergeOwnerLocks(vector)
               /\ Len(merged) = Cardinality(ToSet(merged))
=============================================================================
