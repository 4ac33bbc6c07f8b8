----------------------------- MODULE LockTable -----------------------------
(***************************************************************************)
(* The advisory-lock table of server-core as pure operators.               *)
(*                                                                         *)
(* A LockRecord of the code is [identity, session, lock]; the fields of    *)
(* its FileLock are kept in the same TLA+ record.  Both ends of a range    *)
(* are inclusive, as in FileLock.  The code keeps the records in a sorted  *)
(* Vec; here the table is a set, because no two records of a table are     *)
(* equal (those of one owner are disjoint) and only merge_owner_locks,     *)
(* which sorts first, looks at the order.                                  *)
(***************************************************************************)
EXTENDS Integers, FiniteSets

RangesOverlap(left, right) ==
    left.start <= right.end /\ right.start <= left.end

SameOwner(record, identity, session, owner) ==
    /\ record.identity = identity
    /\ record.session = session
    /\ record.owner = owner

\* A mutant of Conflicts: read locks are taken to be compatible with writes.
ConflictsOnlyBetweenWriters(locks, identity, session, requested) ==
    {record \in locks :
        /\ record.identity = identity
        /\ ~(record.session = session /\ record.owner = requested.owner)
        /\ RangesOverlap(record, requested)
        /\ record.kind = "Write" /\ requested.kind = "Write"}

\* The records first_conflict filters; it returns the one that starts first,
\* and set_lock only asks whether there is one.
Conflicts(locks, identity, session, requested) ==
    {record \in locks :
        /\ record.identity = identity
        /\ ~(record.session = session /\ record.owner = requested.owner)
        /\ RangesOverlap(record, requested)
        /\ record.kind = "Write" \/ requested.kind = "Write"}

(***************************************************************************)
(* merge_owner_locks: touching records of one owner, kind and pid become   *)
(* one.  Declaratively, the records of the result are the maximal          *)
(* intervals of the bytes that a run of equal records covers.              *)
(***************************************************************************)
SameRun(left, right) ==
    /\ SameOwner(left, right.identity, right.session, right.owner)
    /\ left.kind = right.kind
    /\ left.pid = right.pid

RunBytes(records, record) ==
    UNION {r.start .. r.end : r \in {r \in records : SameRun(r, record)}}

\* The record from the start of first to the end of last.
Stretched(first, last) == [first EXCEPT !.end = last.end]

MergeOwnerLocks(records) ==
    {run \in {Stretched(first, last) : first, last \in records} :
       /\ run.start <= run.end
       /\ run.start .. run.end \subseteq RunBytes(records, run)
       /\ (run.start - 1) \notin RunBytes(records, run)
       /\ (run.end + 1) \notin RunBytes(records, run)}

(***************************************************************************)
(* replace_owner_range: the owner's records that overlap the request lose  *)
(* the overlap (splitting in two when the request lies inside), the        *)
(* request is added when it is a lock, and the result is merged.  The      *)
(* code's error, a table above MAX_LOCK_RECORDS, is left to the caller.    *)
(***************************************************************************)
Remainder(record, requested) ==
    {part \in {[record EXCEPT !.end = requested.start - 1],
               [record EXCEPT !.start = requested.end + 1]} :
       part.start <= part.end}

\* A mutant of Spliced: the part after the request is dropped.
SplicedLosesTail(locks, identity, session, requested, insert) ==
    LET replaced == {record \in locks :
                       /\ SameOwner(record, identity, session, requested.owner)
                       /\ RangesOverlap(record, requested)}
        heads == {[record EXCEPT !.end = requested.start - 1] :
                    record \in {r \in replaced : r.start < requested.start}}
        added == [identity |-> identity, session |-> session,
                  owner |-> requested.owner, pid |-> requested.pid,
                  kind |-> requested.kind, start |-> requested.start,
                  end |-> requested.end]
    IN (locks \ replaced) \cup heads
         \cup (IF insert THEN {added} ELSE {})

\* The vector `next` of replace_owner_range before it is merged.
Spliced(locks, identity, session, requested, insert) ==
    LET replaced == {record \in locks :
                       /\ SameOwner(record, identity, session, requested.owner)
                       /\ RangesOverlap(record, requested)}
        added == [identity |-> identity, session |-> session,
                  owner |-> requested.owner, pid |-> requested.pid,
                  kind |-> requested.kind, start |-> requested.start,
                  end |-> requested.end]
    IN (locks \ replaced)
         \cup (UNION {Remainder(record, requested) : record \in replaced})
         \cup (IF insert THEN {added} ELSE {})

ReplaceOwnerRange(locks, identity, session, requested, insert) ==
    MergeOwnerLocks(Spliced(locks, identity, session, requested, insert))
=============================================================================
