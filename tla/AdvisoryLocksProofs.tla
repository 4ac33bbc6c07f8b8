------------------------ MODULE AdvisoryLocksProofs ------------------------
(***************************************************************************)
(* Proofs about the lock service, for any number of sessions, owners,      *)
(* files, handles and tasks and any offset range and table limit.          *)
(***************************************************************************)
EXTENDS AdvisoryLocks, FiniteSetTheorems, WellFoundedInduction, TLAPS

(***************************************************************************)
(* The lock table                                                          *)
(***************************************************************************)

\* What set_lock passes to replace_owner_range once its checks are through.
Acceptable(identity, sid, requested, insert) ==
    /\ identity \in Files
    /\ sid \in Sessions
    /\ requested \in FileLock
    /\ requested.start <= requested.end
    /\ insert = (requested.kind # "Unlock")

\* The parts of a record that replace_owner_range keeps are records of the
\* same owner and kind, inside the record and clear of the request.
LEMMA RemainderFacts ==
    ASSUME NEW record \in LockRecord, NEW requested \in FileLock,
           RangesOverlap(record, requested),
           requested.start <= requested.end,
           NEW part \in Remainder(record, requested)
    PROVE  /\ part \in LockRecord
           /\ SameRun(part, record)
           /\ part.start >= record.start /\ part.end <= record.end
           /\ ~RangesOverlap(part, requested)
<1>0. /\ record.start \in Offsets /\ record.end \in Offsets
      /\ requested.start \in Offsets /\ requested.end \in Offsets
      /\ \A x \in Offsets : x \in Int /\ 0 <= x /\ x <= MaxOffset
      /\ MaxOffset \in Int
  BY LockConstants DEF LockRecord, FileLock, Offsets
<1>1. CASE part = [record EXCEPT !.end = requested.start - 1]
  <2>1. /\ part.start = record.start /\ part.end = requested.start - 1
        /\ part.start <= part.end
    BY <1>1, Zenon DEF Remainder, LockRecord
  <2>2. part.end \in Offsets
    BY <1>0, <2>1 DEF Offsets
  <2>3. part \in LockRecord /\ SameRun(part, record)
    BY <1>1, <2>1, <2>2, Zenon DEF LockRecord, SameRun, SameOwner
  <2> QED
    BY <1>0, <2>1, <2>3 DEF RangesOverlap
<1>2. CASE part = [record EXCEPT !.start = requested.end + 1]
  <2>1. /\ part.start = requested.end + 1 /\ part.end = record.end
        /\ part.start <= part.end
    BY <1>2, Zenon DEF Remainder, LockRecord
  <2>2. part.start \in Offsets
    BY <1>0, <2>1 DEF Offsets
  <2>3. part \in LockRecord /\ SameRun(part, record)
    BY <1>2, <2>1, <2>2, Zenon DEF LockRecord, SameRun, SameOwner
  <2> QED
    BY <1>0, <2>1, <2>3 DEF RangesOverlap
<1> QED
  BY <1>1, <1>2, Zenon DEF Remainder

\* The exclusion property of a set of records, as an operator.
Excluding(records) ==
    \A left, right \in records :
        left # right /\ left.identity = right.identity
            /\ RangesOverlap(left, right)
        => /\ Holder(left) # Holder(right)
           /\ left.kind = "Read" /\ right.kind = "Read"

\* Every record that replace_owner_range keeps comes from a record of the
\* table, unchanged or cut down to a part that is clear of the request.
LEMMA SplicedOrigin ==
    ASSUME NEW table \in SUBSET LockRecord,
           NEW identity, NEW sid, NEW requested, NEW insert,
           Acceptable(identity, sid, requested, insert),
           NEW record \in Spliced(table, identity, sid, requested, insert)
    PROVE  \/ /\ insert
              /\ record = [identity |-> identity, session |-> sid,
                           owner |-> requested.owner, pid |-> requested.pid,
                           kind |-> requested.kind, start |-> requested.start,
                           end |-> requested.end]
           \/ \E base \in table :
                 \/ /\ record = base
                    /\ ~(SameOwner(base, identity, sid, requested.owner)
                           /\ RangesOverlap(base, requested))
                 \/ /\ record \in Remainder(base, requested)
                    /\ SameOwner(base, identity, sid, requested.owner)
                    /\ RangesOverlap(base, requested)
BY Zenon DEF Spliced

\* The records replace_owner_range builds are lock records.
LEMMA SplicedType ==
    ASSUME NEW table \in SUBSET LockRecord,
           NEW identity, NEW sid, NEW requested, NEW insert,
           Acceptable(identity, sid, requested, insert)
    PROVE  Spliced(table, identity, sid, requested, insert) \subseteq LockRecord
<1> SUFFICES ASSUME NEW record \in Spliced(table, identity, sid, requested, insert)
             PROVE  record \in LockRecord
  BY Zenon
<1>1. CASE /\ insert
           /\ record = [identity |-> identity, session |-> sid,
                        owner |-> requested.owner, pid |-> requested.pid,
                        kind |-> requested.kind, start |-> requested.start,
                        end |-> requested.end]
  BY <1>1, Zenon DEF Acceptable, FileLock, LockRecord
<1>2. CASE \E base \in table :
             /\ record \in Remainder(base, requested)
             /\ RangesOverlap(base, requested)
  BY <1>2, RemainderFacts, Zenon DEF Acceptable
<1>3. CASE record \in table
  BY <1>3, Zenon
<1> QED
  BY <1>1, <1>2, <1>3, SplicedOrigin, Zenon

\* Splicing keeps the table exclusive: parts of one record are disjoint, and
\* the request went in because nothing conflicted with it.
LEMMA SplicedExcluding ==
    ASSUME NEW table \in SUBSET LockRecord, Excluding(table),
           NEW identity, NEW sid, NEW requested, NEW insert,
           Acceptable(identity, sid, requested, insert),
           insert => Conflicts(table, identity, sid, requested) = {}
    PROVE  Excluding(Spliced(table, identity, sid, requested, insert))
<1> DEFINE added == [identity |-> identity, session |-> sid,
                     owner |-> requested.owner, pid |-> requested.pid,
                     kind |-> requested.kind, start |-> requested.start,
                     end |-> requested.end]
           Kept(base, record) ==
               /\ record \in LockRecord
               /\ SameRun(record, base)
               /\ record.start >= base.start /\ record.end <= base.end
               /\ SameOwner(base, identity, sid, requested.owner)
                      => ~RangesOverlap(record, requested)
           Replaced(base) == /\ SameOwner(base, identity, sid, requested.owner)
                             /\ RangesOverlap(base, requested)
           Origin(base, record) ==
               \/ record = base /\ ~Replaced(base)
               \/ record \in Remainder(base, requested) /\ Replaced(base)
<1>1. ASSUME NEW record \in Spliced(table, identity, sid, requested, insert),
             ~(insert /\ record = added)
      PROVE  \E base \in table :
                Kept(base, record) /\ Origin(base, record)
  <2>1. PICK base \in table : Origin(base, record)
    BY <1>1, SplicedOrigin, Zenon
  <2>2. CASE record = base /\ ~(SameOwner(base, identity, sid, requested.owner)
                                  /\ RangesOverlap(base, requested))
    <3>1. base.start \in Int /\ base.end \in Int
      BY LockConstants DEF LockRecord, Offsets
    <3> QED BY <2>2, <3>1 DEF SameRun, SameOwner
  <2>3. CASE record \in Remainder(base, requested) /\ Replaced(base)
    <3>1. Kept(base, record)
      BY <2>3, RemainderFacts, Zenon DEF Acceptable
    <3> QED BY <2>3, <3>1, Zenon
  <2> QED BY <2>1, <2>2, <2>3, Zenon
<1>2. (requested.kind # "Unlock" /\ insert) \/ ~insert
  BY Zenon DEF Acceptable
<1>3. ASSUME NEW record \in Spliced(table, identity, sid, requested, insert),
             insert, record # added, record.identity = identity,
             RangesOverlap(record, added)
      PROVE  /\ Holder(record) # Holder(added)
             /\ record.kind = "Read" /\ requested.kind = "Read"
  <2>1. PICK base \in table : Kept(base, record)
    BY <1>1, <1>3, Zenon
  <2>2. RangesOverlap(record, requested)
    BY <1>3, Zenon DEF RangesOverlap
  <2>3. /\ record.start \in Int /\ record.end \in Int
        /\ base.start \in Int /\ base.end \in Int
        /\ requested.start \in Int /\ requested.end \in Int
    BY <2>1, LockConstants DEF LockRecord, Offsets, Acceptable, FileLock
  <2>4. RangesOverlap(base, requested)
    BY <2>1, <2>2, <2>3 DEF RangesOverlap
  <2>5. ~SameOwner(base, identity, sid, requested.owner)
    BY <2>1, <2>2, Zenon
  <2>6. ~(base.kind = "Write" \/ requested.kind = "Write")
    BY <1>3, <2>1, <2>4, <2>5, Zenon DEF Conflicts, SameRun, SameOwner
  <2>7. record.kind = base.kind /\ base.kind \in LockKinds
        /\ requested.kind \in LockKinds \cup {"Unlock"}
    BY <2>1, Zenon DEF SameRun, LockRecord, Acceptable, FileLock
  <2>8. Holder(record) # Holder(added)
    BY <1>3, <2>1, <2>5, Zenon DEF Holder, SameRun, SameOwner
  <2> QED
    BY <1>2, <1>3, <2>6, <2>7, <2>8, Zenon DEF LockKinds
<1>4. ASSUME NEW left \in Spliced(table, identity, sid, requested, insert),
             NEW right \in Spliced(table, identity, sid, requested, insert),
             ~(insert /\ left = added), ~(insert /\ right = added),
             left # right, left.identity = right.identity,
             RangesOverlap(left, right)
      PROVE  /\ Holder(left) # Holder(right)
             /\ left.kind = "Read" /\ right.kind = "Read"
  <2>1. PICK lbase \in table : Kept(lbase, left) /\ Origin(lbase, left)
    BY <1>1, <1>4, Zenon
  <2>2. PICK rbase \in table : Kept(rbase, right) /\ Origin(rbase, right)
    BY <1>1, <1>4, Zenon
  <2>3. /\ left.start \in Int /\ left.end \in Int
        /\ right.start \in Int /\ right.end \in Int
        /\ lbase.start \in Int /\ lbase.end \in Int
        /\ rbase.start \in Int /\ rbase.end \in Int
        /\ requested.start \in Int /\ requested.end \in Int
    BY <2>1, <2>2, LockConstants DEF LockRecord, Offsets, Acceptable, FileLock
  <2>4. CASE lbase # rbase
    <3>1. RangesOverlap(lbase, rbase)
      BY <1>4, <2>1, <2>2, <2>3 DEF RangesOverlap
    <3>2. lbase.identity = rbase.identity
      BY <1>4, <2>1, <2>2, Zenon DEF SameRun, SameOwner
    <3>3. /\ Holder(lbase) # Holder(rbase)
          /\ lbase.kind = "Read" /\ rbase.kind = "Read"
      BY <2>4, <3>1, <3>2, Zenon DEF Excluding
    <3> QED
      BY <2>1, <2>2, <3>3, Zenon DEF Holder, SameRun, SameOwner
  <2>5. CASE lbase = rbase
    \* Either both are the base, or they are its two disjoint parts.
    <3>1. left \in Remainder(lbase, requested) /\ right \in Remainder(lbase, requested)
      BY <1>4, <2>1, <2>2, <2>5, Zenon
    <3>2. \/ left.end = requested.start - 1 /\ right.start = requested.end + 1
          \/ right.end = requested.start - 1 /\ left.start = requested.end + 1
      BY <1>4, <3>1, Zenon DEF Remainder, LockRecord
    <3>3. requested.start <= requested.end
      BY Zenon DEF Acceptable
    <3>4. ~RangesOverlap(left, right)
      BY <2>3, <3>2, <3>3 DEF RangesOverlap
    <3> QED BY <1>4, <3>4, Zenon
  <2> QED BY <2>4, <2>5, Zenon
<1>5. \A record : RangesOverlap(added, record) => RangesOverlap(record, added)
  BY Zenon DEF RangesOverlap
<1> QED
  BY <1>3, <1>4, <1>5 DEF Excluding

\* A merged record covers only bytes that records of the same owner, kind
\* and pid covered.
LEMMA MergeCovered ==
    ASSUME NEW records \in SUBSET LockRecord,
           NEW run \in MergeOwnerLocks(records),
           NEW x \in run.start .. run.end
    PROVE  \E r \in records : SameRun(r, run) /\ x \in r.start .. r.end
BY DEF MergeOwnerLocks, RunBytes

\* merge_owner_locks returns lock records with a non-empty range.
LEMMA MergeType ==
    ASSUME NEW records \in SUBSET LockRecord
    PROVE  /\ MergeOwnerLocks(records) \subseteq LockRecord
           /\ \A run \in MergeOwnerLocks(records) :
                 \E r \in records : SameRun(r, run) /\ run.start <= run.end
<1> SUFFICES ASSUME NEW run \in MergeOwnerLocks(records)
             PROVE  /\ run \in LockRecord /\ run.start <= run.end
                    /\ \E r \in records : SameRun(r, run)
  BY Zenon
<1>1. PICK first \in records, last \in records :
        run = Stretched(first, last)
  BY DEF MergeOwnerLocks
<1>2. run.start <= run.end
  BY DEF MergeOwnerLocks
<1>3. run \in LockRecord /\ SameRun(first, run)
  BY <1>1, Zenon DEF Stretched, LockRecord, SameRun, SameOwner
<1> QED BY <1>2, <1>3, Zenon

\* Merging keeps the table exclusive: overlapping runs share a byte, so the
\* records that cover it either differ, and exclude each other, or are one
\* record, and the runs, being maximal, are one run.
LEMMA MergeExcluding ==
    ASSUME NEW records \in SUBSET LockRecord, Excluding(records)
    PROVE  Excluding(MergeOwnerLocks(records))
<1> SUFFICES ASSUME NEW left \in MergeOwnerLocks(records),
                    NEW right \in MergeOwnerLocks(records),
                    left # right, left.identity = right.identity,
                    RangesOverlap(left, right)
             PROVE  /\ Holder(left) # Holder(right)
                    /\ left.kind = "Read" /\ right.kind = "Read"
  BY Zenon DEF Excluding
<1>1. /\ left \in LockRecord /\ left.start <= left.end
      /\ right \in LockRecord /\ right.start <= right.end
  BY MergeType, Zenon
<1>2. /\ left.start \in Int /\ left.end \in Int
      /\ right.start \in Int /\ right.end \in Int
  BY <1>1, LockConstants DEF LockRecord, Offsets
<1> DEFINE x == IF left.start <= right.start THEN right.start ELSE left.start
<1>3. x \in left.start .. left.end /\ x \in right.start .. right.end
  BY <1>1, <1>2 DEF RangesOverlap
<1>4. PICK l \in records : SameRun(l, left) /\ x \in l.start .. l.end
  BY <1>3, MergeCovered, Zenon
<1>5. PICK r \in records : SameRun(r, right) /\ x \in r.start .. r.end
  BY <1>3, MergeCovered, Zenon
<1>6. CASE l # r
  <2>1. /\ l.start \in Int /\ l.end \in Int
        /\ r.start \in Int /\ r.end \in Int
    BY LockConstants DEF LockRecord, Offsets
  <2>2. RangesOverlap(l, r)
    BY <1>2, <1>4, <1>5, <2>1 DEF RangesOverlap
  <2>3. l.identity = r.identity
    BY <1>4, <1>5, Zenon DEF SameRun, SameOwner
  <2>4. Holder(l) # Holder(r) /\ l.kind = "Read" /\ r.kind = "Read"
    BY <1>6, <2>2, <2>3, Zenon DEF Excluding
  <2> QED
    BY <1>4, <1>5, <2>4, Zenon DEF Holder, SameRun, SameOwner
<1>7. CASE l = r
  <2>1. SameRun(left, right)
    BY <1>4, <1>5, <1>7, Zenon DEF SameRun, SameOwner
  <2>2. RunBytes(records, left) = RunBytes(records, right)
    BY <2>1, Zenon DEF RunBytes, SameRun, SameOwner
  <2>3. /\ left.start .. left.end \subseteq RunBytes(records, left)
        /\ (left.start - 1) \notin RunBytes(records, left)
        /\ (left.end + 1) \notin RunBytes(records, left)
        /\ right.start .. right.end \subseteq RunBytes(records, left)
        /\ (right.start - 1) \notin RunBytes(records, left)
        /\ (right.end + 1) \notin RunBytes(records, left)
    BY <2>2 DEF MergeOwnerLocks
  <2>4. left.start = right.start
    <3>1. ~(left.start < right.start)
      BY <1>1, <1>2, <1>3, <2>3
    <3>2. ~(right.start < left.start)
      BY <1>1, <1>2, <1>3, <2>3
    <3> QED BY <1>2, <3>1, <3>2
  <2>5. left.end = right.end
    <3>1. ~(left.end < right.end)
      BY <1>1, <1>2, <1>3, <2>3
    <3>2. ~(right.end < left.end)
      BY <1>1, <1>2, <1>3, <2>3
    <3> QED BY <1>2, <3>1, <3>2
  <2>6. left = right
    BY <1>1, <2>1, <2>4, <2>5 DEF LockRecord, SameRun, SameOwner
  <2> QED BY <2>6, Zenon
<1> QED BY <1>6, <1>7, Zenon

\* The image of a finite set under a function is finite.
LEMMA FiniteRange ==
    ASSUME NEW S, IsFiniteSet(S), NEW f, f = [x \in S |-> f[x]]
    PROVE  IsFiniteSet({f[x] : x \in S})
<1>1. f \in Surjection(S, {f[x] : x \in S})
  BY Zenon DEF Surjection
<1> QED BY <1>1, FS_Surjection, Zenon

\* replace_owner_range makes a finite table out of a finite one.
LEMMA ReplaceFinite ==
    ASSUME NEW table, IsFiniteSet(table),
           NEW identity, NEW sid, NEW requested, NEW insert
    PROVE  IsFiniteSet(ReplaceOwnerRange(table, identity, sid, requested, insert))
<1> DEFINE heads == [r \in table |-> [r EXCEPT !.end = requested.start - 1]]
           tails == [r \in table |-> [r EXCEPT !.start = requested.end + 1]]
           added == [identity |-> identity, session |-> sid,
                     owner |-> requested.owner, pid |-> requested.pid,
                     kind |-> requested.kind, start |-> requested.start,
                     end |-> requested.end]
           H == {heads[r] : r \in table}
           T == {tails[r] : r \in table}
           vector == Spliced(table, identity, sid, requested, insert)
           runs == [p \in vector \X vector |-> Stretched(p[1], p[2])]
           R == {runs[p] : p \in vector \X vector}
<1>1. IsFiniteSet(H) /\ IsFiniteSet(T)
  <2>1. heads = [x \in table |-> heads[x]] /\ tails = [x \in table |-> tails[x]]
    BY Zenon
  <2> HIDE DEF heads, tails
  <2> QED BY <2>1, FiniteRange
<1>2. IsFiniteSet({added})
  BY FS_Singleton, Zenon
<1>3. vector \subseteq ((table \cup H) \cup T) \cup {added}
  BY DEF Spliced, Remainder
<1>4. IsFiniteSet(((table \cup H) \cup T) \cup {added})
  <2> HIDE DEF H, T, added
  <2> QED BY <1>1, <1>2, FS_Union, Zenon
<1>5. IsFiniteSet(vector)
  <2> HIDE DEF H, T, added, vector
  <2> QED BY <1>3, <1>4, FS_Subset, Zenon
<1>6. IsFiniteSet(R)
  <2>1. runs = [p \in vector \X vector |-> runs[p]]
    BY Zenon
  <2>2. IsFiniteSet(vector \X vector)
    <3> HIDE DEF vector
    <3> QED BY <1>5, FS_Product, Zenon
  <2> HIDE DEF runs
  <2> QED BY <2>1, <2>2, FiniteRange
<1>7. MergeOwnerLocks(vector) \subseteq R
  <2>1. ASSUME NEW run \in MergeOwnerLocks(vector) PROVE run \in R
    <3>1. PICK first \in vector, last \in vector :
            run = Stretched(first, last)
      BY DEF MergeOwnerLocks
    <3>2. <<first, last>> \in vector \X vector
      BY Zenon
    <3>3. runs[<<first, last>>] = Stretched(first, last)
      BY Zenon
    <3> HIDE DEF vector, runs
    <3> QED BY <3>1, <3>2, <3>3, Zenon
  <2> QED BY <2>1, Zenon
<1> QED
  <2> HIDE DEF R, vector
  <2>1. IsFiniteSet(MergeOwnerLocks(vector))
    BY <1>6, <1>7, FS_Subset, Zenon
  <2> QED BY <2>1, Zenon DEF ReplaceOwnerRange, vector

\* What one replace_owner_range of set_lock preserves.
LEMMA ReplaceFacts ==
    ASSUME NEW table \in SUBSET LockRecord, IsFiniteSet(table), Excluding(table),
           NEW identity, NEW sid, NEW requested, NEW insert,
           Acceptable(identity, sid, requested, insert),
           insert => Conflicts(table, identity, sid, requested) = {}
    PROVE  LET next == ReplaceOwnerRange(table, identity, sid, requested, insert)
           IN /\ next \subseteq LockRecord
              /\ IsFiniteSet(next)
              /\ Excluding(next)
<1> DEFINE vector == Spliced(table, identity, sid, requested, insert)
<1>1. vector \subseteq LockRecord
  BY SplicedType, Zenon
<1>2. Excluding(vector)
  BY SplicedExcluding, Zenon
<1> HIDE DEF vector
<1>3. MergeOwnerLocks(vector) \subseteq LockRecord
  BY <1>1, MergeType, Zenon
<1>4. Excluding(MergeOwnerLocks(vector))
  BY <1>1, <1>2, MergeExcluding, Zenon
<1> QED
  BY <1>3, <1>4, ReplaceFinite, Zenon DEF ReplaceOwnerRange, vector

(***************************************************************************)
(* The inductive invariant.  Exclusion needs the type of the table (to     *)
(* compare offsets) and that a request in set_lock passed validate_lock.   *)
(***************************************************************************)
RequestsValid ==
    \A t \in Tasks : tasks[t].pc \in {"check", "waiting"}
                        => ValidateLock(tasks[t].requested)

LockInv == TypeOK /\ RequestsValid /\ Exclusion

\* Removing records keeps the table's part of the invariant.
LEMMA RemovalFacts ==
    ASSUME LockInv, NEW removed, locks' = locks \ removed
    PROVE  /\ locks' \subseteq LockRecord /\ IsFiniteSet(locks')
           /\ Cardinality(locks') <= MaxLockRecords
           /\ Exclusion'
<1>1. locks \subseteq LockRecord /\ IsFiniteSet(locks)
      /\ Cardinality(locks) <= MaxLockRecords
  BY Zenon DEF LockInv, TypeOK
<1>2. locks' \in SUBSET locks
  BY Zenon
<1>3. IsFiniteSet(locks') /\ Cardinality(locks') <= Cardinality(locks)
  BY <1>1, <1>2, FS_Subset, Zenon
<1>4. Cardinality(locks) \in Nat /\ Cardinality(locks') \in Nat
  BY <1>1, <1>3, FS_CardinalityType, Zenon
<1>5. Exclusion'
  BY <1>2, Zenon DEF LockInv, Exclusion, Holder, RangesOverlap
<1> QED
  BY <1>1, <1>2, <1>3, <1>4, <1>5, LockConstants

\* A task in set_lock carries its request.
LEMMA TaskShape ==
    ASSUME TypeOK, NEW t \in Tasks
    PROVE  /\ tasks[t].pc \in {"check", "waiting"} => tasks[t] \in LockTask
           /\ tasks[t].pc = "notify" =>
                 \E s \in Sessions : tasks[t] = Notifying(s)
           /\ tasks[t].pc \in {"idle", "check", "waiting", "notify"}
BY DEF TypeOK, Idle, Notifying, LockTask

\* The clean-up of a handler leaves it idle or about to notify.
LEMMA AfterRemovalFacts ==
    ASSUME NEW s \in Sessions, NEW removed
    PROVE  /\ AfterRemoval(s, removed) \in {Idle} \cup {Notifying(x) : x \in Sessions}
           /\ AfterRemoval(s, removed).pc \in {"idle", "notify"}
           /\ removed # {} => AfterRemoval(s, removed).pc = "notify"
BY Zenon DEF AfterRemoval, Idle, Notifying

\* Waking a task changes nothing but its flag.
LEMMA WakeFacts ==
    ASSUME TypeOK, NEW t \in Tasks
    PROVE  /\ WakeAll(tasks[t]) \in {Idle} \cup {Notifying(s) : s \in Sessions}
                                          \cup LockTask
           /\ WakeAll(tasks[t]).pc = tasks[t].pc
           /\ tasks[t].pc \in {"check", "waiting"} =>
                 /\ WakeAll(tasks[t]).requested = tasks[t].requested
                 /\ WakeAll(tasks[t]).woken
           /\ tasks[t] # Idle => /\ WakeAll(tasks[t]) # Idle
                                  /\ WakeAll(tasks[t]).session = tasks[t].session
           /\ tasks[t] = Idle => WakeAll(tasks[t]) = Idle
<1>1. CASE tasks[t].pc \in {"check", "waiting"}
  <2>1. tasks[t] \in LockTask
    BY <1>1, TaskShape, Zenon
  <2> QED BY <1>1, <2>1, Zenon DEF WakeAll, LockTask, Idle
<1>2. CASE tasks[t].pc \notin {"check", "waiting"}
  BY <1>2, Zenon DEF WakeAll, TypeOK
<1> QED BY <1>1, <1>2, Zenon

\* Every step of the service preserves the invariant.
LEMMA LockInvStep == LockInv /\ [Next]_vars => LockInv'
<1> SUFFICES ASSUME LockInv, [Next]_vars PROVE LockInv'
  BY Zenon
<1> USE DEF LockInv
<1>0. /\ handles \in [Handles -> OpenFile \cup {Closed}]
      /\ tasks \in [Tasks -> {Idle} \cup {Notifying(s) : s \in Sessions}
                                    \cup LockTask]
      /\ session \in [Sessions -> {"live", "closing", "notify", "gone"}]
      /\ TypeOK
  BY Zenon DEF TypeOK
<1>1. ASSUME NEW s \in Sessions, NEW h \in Handles, NEW f \in Files,
             NEW a \in OpenModes, Open(s, h, f, a)
      PROVE  LockInv'
  <2>1. handles' \in [Handles -> OpenFile \cup {Closed}]
    BY <1>0, <1>1, LockConstants, Zenon DEF Open, OpenFile, Accesses
  <2> QED
    BY <1>1, <2>1, Zenon DEF Open, TypeOK, RequestsValid, Exclusion
<1>2. ASSUME NEW t \in Tasks, NEW h \in Handles, NEW requested \in FileLock,
             NEW wait \in WaitModes, SetLock(t, h, requested, wait)
      PROVE  LockInv'
  <2>1. handles[h] \in OpenFile
    BY <1>0, <1>2, Zenon DEF SetLock
  <2> DEFINE task == [pc |-> "check", session |-> handles[h].session,
                      identity |-> handles[h].identity, requested |-> requested,
                      wait |-> wait, woken |-> FALSE]
  <2>2. task \in LockTask /\ ValidateLock(task.requested)
    BY <1>2, <2>1, LockConstants, Zenon DEF SetLock, LockTask, OpenFile
  <2>3. tasks' = [tasks EXCEPT ![t] = task]
    BY <1>2, Zenon DEF SetLock
  <2> HIDE DEF task
  <2>4. tasks' \in [Tasks -> {Idle} \cup {Notifying(s) : s \in Sessions}
                                    \cup LockTask]
    BY <1>0, <2>2, <2>3, Zenon
  <2>5. RequestsValid'
    BY <1>0, <2>2, <2>3, Zenon DEF RequestsValid
  <2> QED
    BY <1>2, <2>4, <2>5, Zenon DEF SetLock, TypeOK, Exclusion
<1>3. ASSUME NEW t \in Tasks, Apply(t)
      PROVE  LockInv'
  <2> DEFINE task == tasks[t]
             next == ReplaceOwnerRange(locks, task.identity, task.session,
                         task.requested, task.requested.kind # "Unlock")
  <2>1. task \in LockTask
    BY <1>0, <1>3, TaskShape, Zenon DEF Apply
  <2>2. Acceptable(task.identity, task.session, task.requested,
                   task.requested.kind # "Unlock")
    BY <1>3, <2>1, Zenon DEF Acceptable, LockTask, RequestsValid, ValidateLock, Apply
  <2>3. task.requested.kind # "Unlock" =>
          Conflicts(locks, task.identity, task.session, task.requested) = {}
    BY <1>3, Zenon DEF Apply, Blocked
  <2>4. Excluding(locks) /\ locks \in SUBSET LockRecord /\ IsFiniteSet(locks)
    BY Zenon DEF Excluding, Exclusion, TypeOK
  <2>5. next \subseteq LockRecord /\ IsFiniteSet(next) /\ Excluding(next)
    BY <2>2, <2>3, <2>4, ReplaceFacts, Zenon
  <2> HIDE DEF next
  <2>6. tasks' \in [Tasks -> {Idle} \cup {Notifying(s) : s \in Sessions}
                                    \cup LockTask]
    BY <1>0, <1>3, <2>1 DEF Apply, LockTask
  <2>7. RequestsValid'
    BY <1>0, <1>3 DEF Apply, RequestsValid, Idle, Notifying
  <2>8. \/ locks' = next /\ Cardinality(next) <= MaxLockRecords
        \/ locks' = locks
    BY <1>3, Zenon DEF Apply, next
  <2>9. /\ locks' \subseteq LockRecord /\ IsFiniteSet(locks')
        /\ Cardinality(locks') <= MaxLockRecords
        /\ Exclusion'
    BY <2>4, <2>5, <2>8, Zenon DEF Excluding, Exclusion, TypeOK
  <2> QED
    BY <1>0, <1>3, <2>6, <2>7, <2>9, Zenon DEF Apply, TypeOK
<1>4. ASSUME NEW t \in Tasks, Refuse(t) \/ Retry(t) \/ Abort(t)
      PROVE  LockInv'
  <2>1. tasks[t] \in LockTask
    BY <1>0, <1>4, TaskShape, Zenon DEF Refuse, Retry, Abort
  <2>2. PICK next : /\ tasks' = [tasks EXCEPT ![t] = next]
                    /\ \/ next = Idle
                       \/ /\ next \in LockTask
                          /\ next.requested = tasks[t].requested
    <3> DEFINE waiting == [tasks[t] EXCEPT !.pc = "waiting"]
               again == [tasks[t] EXCEPT !.pc = "check", !.woken = FALSE]
    <3>0. /\ waiting \in LockTask /\ waiting.requested = tasks[t].requested
          /\ again \in LockTask /\ again.requested = tasks[t].requested
      BY <2>1, Zenon DEF LockTask
    <3>1. CASE Refuse(t)
      <4>1. tasks' = [tasks EXCEPT ![t] = waiting] \/ tasks' = [tasks EXCEPT ![t] = Idle]
        BY <3>1, Zenon DEF Refuse
      <4> HIDE DEF waiting
      <4> QED BY <3>0, <4>1, Zenon
    <3>2. CASE Retry(t)
      <4>1. tasks' = [tasks EXCEPT ![t] = again]
        BY <3>2, Zenon DEF Retry
      <4> HIDE DEF again
      <4> QED BY <3>0, <4>1, Zenon
    <3>3. CASE Abort(t)
      BY <3>3, Zenon DEF Abort
    <3> QED BY <1>4, <3>1, <3>2, <3>3, Zenon
  <2>3. tasks' \in [Tasks -> {Idle} \cup {Notifying(s) : s \in Sessions}
                                    \cup LockTask]
    BY <1>0, <2>2, Zenon
  <2>4. tasks[t].pc \in {"check", "waiting"}
    BY <2>1, Zenon DEF LockTask
  <2>5. RequestsValid'
    BY <1>0, <2>2, <2>4 DEF RequestsValid, Idle
  <2> QED
    BY <1>4, <2>3, <2>5, Zenon DEF Refuse, Retry, Abort, TypeOK, Exclusion
<1>5. ASSUME NEW t \in Tasks, NEW h \in Handles,
             \/ Close(t, h)
             \/ \E o \in Owners : Flush(t, h, o)
      PROVE  LockInv'
  <2>1. handles[h].session \in Sessions
    BY <1>0, <1>5, Zenon DEF Close, Flush, OpenFile
  <2>2. PICK removed : /\ locks' = locks \ removed
                       /\ tasks' = [tasks EXCEPT ![t] =
                              AfterRemoval(handles[h].session, removed)]
    BY <1>5, Zenon DEF Close, Flush
  <2>3. /\ locks' \subseteq LockRecord /\ IsFiniteSet(locks')
        /\ Cardinality(locks') <= MaxLockRecords
        /\ Exclusion'
    BY <2>2, RemovalFacts, Zenon
  <2> DEFINE after == AfterRemoval(handles[h].session, removed)
  <2>4. /\ after \in {Idle} \cup {Notifying(x) : x \in Sessions}
        /\ after.pc \in {"idle", "notify"}
    BY <2>1, AfterRemovalFacts, Zenon
  <2> HIDE DEF after
  <2>5. tasks' \in [Tasks -> {Idle} \cup {Notifying(s) : s \in Sessions}
                                    \cup LockTask]
    BY <1>0, <2>2, <2>4, Zenon DEF after
  <2>6. RequestsValid'
    BY <1>0, <2>2, <2>4, Zenon DEF after, RequestsValid
  <2>7. handles' \in [Handles -> OpenFile \cup {Closed}]
    BY <1>0, <1>5, Zenon DEF Close, Flush
  <2>8. session' = session
    BY <1>5, Zenon DEF Close, Flush
  <2> QED
    BY <1>0, <2>3, <2>5, <2>6, <2>7, <2>8, Zenon DEF TypeOK
<1>6. ASSUME NEW t \in Tasks, NotifyWaiters(t)
      PROVE  LockInv'
  <2>1. \A u \in Tasks : tasks'[u] = Idle \/ tasks'[u] = WakeAll(tasks[u])
    BY <1>6, Zenon DEF NotifyWaiters
  <2>2. tasks' \in [Tasks -> {Idle} \cup {Notifying(s) : s \in Sessions}
                                    \cup LockTask]
    BY <1>0, <1>6, WakeFacts, Zenon DEF NotifyWaiters
  <2>3. RequestsValid'
    BY <1>0, <2>1, WakeFacts DEF RequestsValid, Idle
  <2> QED
    BY <1>6, <2>2, <2>3, Zenon DEF NotifyWaiters, TypeOK, Exclusion
<1>7. ASSUME NEW s \in Sessions, Disconnect(s)
      PROVE  LockInv'
  BY <1>0, <1>7, Zenon DEF Disconnect, TypeOK, RequestsValid, Exclusion
<1>8. ASSUME NEW s \in Sessions, Cleanup(s)
      PROVE  LockInv'
  <2>1. locks' = locks \ {r \in locks : r.session = s}
    BY <1>8, Zenon DEF Cleanup
  <2>2. /\ locks' \subseteq LockRecord /\ IsFiniteSet(locks')
        /\ Cardinality(locks') <= MaxLockRecords
        /\ Exclusion'
    BY <2>1, RemovalFacts, Zenon
  <2>3. handles' \in [Handles -> OpenFile \cup {Closed}]
    BY <1>0, <1>8, Zenon DEF Cleanup
  <2>4. session' \in [Sessions -> {"live", "closing", "notify", "gone"}]
    BY <1>0, <1>8, Zenon DEF Cleanup
  <2> QED
    BY <1>0, <1>8, <2>2, <2>3, <2>4, Zenon DEF Cleanup, TypeOK, RequestsValid
<1>9. ASSUME NEW s \in Sessions, NotifyGone(s)
      PROVE  LockInv'
  <2>1. tasks' \in [Tasks -> {Idle} \cup {Notifying(x) : x \in Sessions}
                                    \cup LockTask]
    BY <1>0, <1>9, WakeFacts, Zenon DEF NotifyGone
  <2>2. RequestsValid'
    BY <1>0, <1>9, WakeFacts, Zenon DEF NotifyGone, RequestsValid
  <2>3. session' \in [Sessions -> {"live", "closing", "notify", "gone"}]
    BY <1>0, <1>9, Zenon DEF NotifyGone
  <2> QED
    BY <1>0, <1>9, <2>1, <2>2, <2>3, Zenon DEF NotifyGone, TypeOK, Exclusion
<1>10. CASE UNCHANGED vars
  BY <1>10, Zenon DEF vars, TypeOK, RequestsValid, Exclusion
<1> QED
  BY <1>1, <1>2, <1>3, <1>4, <1>5, <1>6, <1>7, <1>8, <1>9, <1>10, Zenon DEF Next

\* Initially there is no lock and no request.
LEMMA LockInvInit == Init => LockInv
<1> SUFFICES ASSUME Init PROVE LockInv
  BY Zenon
<1>1. Cardinality({}) = 0 /\ IsFiniteSet({})
  BY FS_EmptySet, Zenon
<1>2. TypeOK
  BY <1>1, LockConstants DEF Init, TypeOK
<1>3. RequestsValid
  BY Zenon DEF Init, RequestsValid, Idle
<1>4. Exclusion
  BY Zenon DEF Init, Exclusion
<1> QED BY <1>2, <1>3, <1>4, Zenon DEF LockInv

\* The service keeps its types: every record is a granted lock on an offset
\* range, and set_lock never lets the table outgrow MAX_LOCK_RECORDS.
THEOREM TypeCorrect == Spec => []TypeOK
<1>1. LockInv => TypeOK
  BY Zenon DEF LockInv
<1> QED BY <1>1, LockInvInit, LockInvStep, PTL DEF Spec

\* set_lock excludes: no interleaving of set_lock, flush, close and the end
\* of connections ever leaves two incompatible locks on a byte, nor two locks
\* of one owner.
THEOREM LocksExclude == Spec => []Exclusion
<1>1. LockInv => Exclusion
  BY Zenon DEF LockInv
<1> QED BY <1>1, LockInvInit, LockInvStep, PTL DEF Spec

(***************************************************************************)
(* Wakeups                                                                 *)
(***************************************************************************)

NotifyPending == \/ \E u \in Tasks : tasks[u].pc = "notify"
                 \/ \E s \in Sessions : session[s] = "notify"

\* A step that leaves the table alone and puts no new task to sleep without
\* cause cannot lose a wakeup, as long as it takes no notification away.
LEMMA QuietStep ==
    ASSUME NoLostWakeup, locks' = locks,
           NotifyPending => NotifyPending',
           \A u \in Tasks : tasks'[u].pc = "waiting" /\ ~tasks'[u].woken =>
               \/ tasks'[u] = tasks[u]
               \/ Blocked(tasks'[u])
    PROVE  NoLostWakeup'
BY Zenon DEF NoLostWakeup, NotifyPending, Blocked

\* Every step preserves the absence of lost wakeups.
LEMMA WakeupStep == LockInv /\ NoLostWakeup /\ [Next]_vars => NoLostWakeup'
<1> SUFFICES ASSUME LockInv, NoLostWakeup, [Next]_vars PROVE NoLostWakeup'
  BY Zenon
<1>0. /\ tasks \in [Tasks -> {Idle} \cup {Notifying(s) : s \in Sessions}
                                    \cup LockTask]
      /\ handles \in [Handles -> OpenFile \cup {Closed}]
      /\ session \in [Sessions -> {"live", "closing", "notify", "gone"}]
      /\ TypeOK
  BY Zenon DEF LockInv, TypeOK
<1>1. NotifyPending' => NoLostWakeup'
  BY Zenon DEF NotifyPending, NoLostWakeup
<1>2. ASSUME NEW s \in Sessions, NEW h \in Handles, NEW f \in Files,
             NEW a \in OpenModes, Open(s, h, f, a)
      PROVE  NoLostWakeup'
  BY <1>2, QuietStep, Zenon DEF Open, NotifyPending
<1>3. ASSUME NEW t \in Tasks, NEW h \in Handles, NEW requested \in FileLock,
             NEW wait \in WaitModes, SetLock(t, h, requested, wait)
      PROVE  NoLostWakeup'
  <2>1. \A u \in Tasks : tasks'[u] = tasks[u] \/ tasks'[u].pc = "check"
    BY <1>0, <1>3, Zenon DEF SetLock
  <2>2. NotifyPending => NotifyPending'
    <3>1. \A u \in Tasks : tasks[u].pc = "notify" => tasks'[u] = tasks[u]
      <4>1. tasks[t] = Idle
        BY <1>3, Zenon DEF SetLock
      <4>2. tasks[t].pc = "idle"
        BY <4>1 DEF Idle
      <4>3. \A u \in Tasks : u # t => tasks'[u] = tasks[u]
        BY <1>0, <1>3, Zenon DEF SetLock
      <4> QED BY <4>2, <4>3, Zenon
    <3>2. session' = session
      BY <1>3, Zenon DEF SetLock
    <3> QED BY <3>1, <3>2, Zenon DEF NotifyPending
  <2> QED BY <1>3, <2>1, <2>2, QuietStep, Zenon DEF SetLock
<1>4. ASSUME NEW t \in Tasks, Apply(t)
      PROVE  NoLostWakeup'
  <2>1. CASE tasks' = [tasks EXCEPT ![t] = Notifying(tasks[t].session)]
    <3>1. tasks'[t].pc = "notify"
      BY <1>0, <2>1, Zenon DEF Notifying
    <3> QED BY <1>1, <3>1, Zenon DEF NotifyPending
  <2>2. CASE locks' = locks /\ tasks' = [tasks EXCEPT ![t] = Idle]
    <3>1. \A u \in Tasks : tasks'[u] = tasks[u] \/ tasks'[u].pc = "idle"
      BY <1>0, <2>2, Zenon DEF Idle
    <3>2. NotifyPending => NotifyPending'
      BY <1>0, <1>4, <2>2, Zenon DEF Apply, NotifyPending
    <3> QED BY <2>2, <3>1, <3>2, QuietStep, Zenon
  <2> QED BY <1>4, <2>1, <2>2, Zenon DEF Apply
<1>5. ASSUME NEW t \in Tasks, Refuse(t) \/ Retry(t) \/ Abort(t)
      PROVE  NoLostWakeup'
  <2>1. tasks[t] \in LockTask
    BY <1>0, <1>5, TaskShape, Zenon DEF Refuse, Retry, Abort
  <2>2. NotifyPending => NotifyPending'
    BY <1>0, <1>5, <2>1, Zenon DEF Refuse, Retry, Abort, NotifyPending, LockTask
  <2>3. \A u \in Tasks : u # t => tasks'[u] = tasks[u]
    BY <1>0, <1>5, Zenon DEF Refuse, Retry, Abort
  <2>4. tasks'[t].pc = "waiting" => Blocked(tasks'[t])
    <3>1. CASE Refuse(t)
      <4>1. \/ tasks'[t] = [tasks[t] EXCEPT !.pc = "waiting"]
            \/ tasks'[t] = Idle
        BY <1>0, <3>1, Zenon DEF Refuse
      <4>2. Blocked(tasks[t])
        BY <3>1, Zenon DEF Refuse
      <4> QED BY <2>1, <4>1, <4>2 DEF Blocked, LockTask, Idle
    <3>2. CASE Retry(t)
      <4>1. tasks'[t] = [tasks[t] EXCEPT !.pc = "check", !.woken = FALSE]
        BY <1>0, <3>2, Zenon DEF Retry
      <4> QED BY <2>1, <4>1, Zenon DEF LockTask
    <3>3. CASE Abort(t)
      BY <1>0, <3>3, Zenon DEF Abort, Idle
    <3> QED BY <1>5, <3>1, <3>2, <3>3, Zenon
  <2>5. locks' = locks
    BY <1>5, Zenon DEF Refuse, Retry, Abort
  <2> QED BY <2>2, <2>3, <2>4, <2>5, QuietStep, Zenon
<1>6. ASSUME NEW t \in Tasks, NEW h \in Handles,
             \/ Close(t, h)
             \/ \E o \in Owners : Flush(t, h, o)
      PROVE  NoLostWakeup'
  <2>1. handles[h].session \in Sessions
    BY <1>0, <1>6, Zenon DEF Close, Flush, OpenFile
  <2>2. PICK removed : /\ locks' = locks \ removed
                       /\ tasks' = [tasks EXCEPT ![t] =
                              AfterRemoval(handles[h].session, removed)]
                       /\ session' = session /\ tasks[t] = Idle
    BY <1>6, Zenon DEF Close, Flush
  <2>3. CASE removed # {}
    <3>1. tasks'[t].pc = "notify"
      BY <1>0, <2>1, <2>2, <2>3, AfterRemovalFacts, Zenon
    <3> QED BY <1>1, <3>1, Zenon DEF NotifyPending
  <2>4. CASE removed = {}
    <3>1. locks' = locks /\ tasks' = tasks
      BY <1>0, <2>2, <2>4 DEF AfterRemoval
    <3> QED BY <2>2, <3>1, QuietStep, Zenon DEF NotifyPending
  <2> QED BY <2>3, <2>4, Zenon
<1>7. ASSUME \A u \in Tasks : tasks'[u] = Idle \/ tasks'[u] = WakeAll(tasks[u])
      PROVE  NoLostWakeup'
  BY <1>0, <1>7, WakeFacts DEF NoLostWakeup, Idle
<1>8. ASSUME NEW t \in Tasks, NotifyWaiters(t)
      PROVE  NoLostWakeup'
  BY <1>7, <1>8, Zenon DEF NotifyWaiters
<1>9. ASSUME NEW s \in Sessions, Disconnect(s)
      PROVE  NoLostWakeup'
  <2>1. NotifyPending => NotifyPending'
    BY <1>0, <1>9, Zenon DEF Disconnect, NotifyPending
  <2> QED BY <1>9, <2>1, QuietStep, Zenon DEF Disconnect
<1>10. ASSUME NEW s \in Sessions, Cleanup(s)
       PROVE  NoLostWakeup'
  <2>1. CASE locks' = locks
    <3>1. NotifyPending => NotifyPending'
      BY <1>0, <1>10, Zenon DEF Cleanup, NotifyPending
    <3> QED BY <1>10, <2>1, <3>1, QuietStep, Zenon DEF Cleanup
  <2>2. CASE locks' # locks
    <3>1. session'[s] = "notify"
      BY <1>0, <1>10, <2>2, Zenon DEF Cleanup
    <3> QED BY <1>1, <3>1, Zenon DEF NotifyPending
  <2> QED BY <2>1, <2>2, Zenon
<1>11. ASSUME NEW s \in Sessions, NotifyGone(s)
       PROVE  NoLostWakeup'
  BY <1>7, <1>11, Zenon DEF NotifyGone
<1>12. CASE UNCHANGED vars
  BY <1>12, QuietStep, Zenon DEF vars, NotifyPending
<1> QED
  BY <1>2, <1>3, <1>4, <1>5, <1>6, <1>8, <1>9, <1>10, <1>11, <1>12, Zenon DEF Next

\* No wakeup is lost: set_lock makes its `notified` future before it looks at
\* the table, so that a release between the look and the await still wakes it.
THEOREM WakeupsArrive == Spec => []NoLostWakeup
<1>1. Init => NoLostWakeup
  BY DEF Init, NoLostWakeup, Idle
<1> QED BY <1>1, LockInvInit, LockInvStep, WakeupStep, PTL DEF Spec

(***************************************************************************)
(* The end of a connection                                                 *)
(***************************************************************************)

\* replace_owner_range brings in records of the requesting session only.
LEMMA ReplaceSessions ==
    ASSUME NEW table \in SUBSET LockRecord,
           NEW identity, NEW sid, NEW requested, NEW insert,
           Acceptable(identity, sid, requested, insert),
           NEW record \in ReplaceOwnerRange(table, identity, sid, requested, insert)
    PROVE  record.session = sid \/ \E r \in table : r.session = record.session
<1> DEFINE vector == Spliced(table, identity, sid, requested, insert)
<1>1. vector \subseteq LockRecord
  BY SplicedType, Zenon
<1> HIDE DEF vector
<1>2. PICK r \in vector : SameRun(r, record)
  BY <1>1, MergeType, Zenon DEF ReplaceOwnerRange, vector
<1>3. r.session = sid \/ \E b \in table : b.session = r.session
  <2>1. ASSUME NEW base \in table, r \in Remainder(base, requested),
               RangesOverlap(base, requested)
        PROVE  base.session = r.session
    BY <2>1, RemainderFacts, Zenon DEF Acceptable, SameRun, SameOwner
  <2>2. \/ r.session = sid
        \/ \E base \in table : \/ r = base
                               \/ /\ r \in Remainder(base, requested)
                                  /\ RangesOverlap(base, requested)
    BY SplicedOrigin DEF vector
  <2> QED BY <2>1, <2>2, Zenon
<1> QED BY <1>2, <1>3, Zenon DEF SameRun, SameOwner

\* What a step may leave of a connection that is cleaned up.
LEMMA GoneStep == LockInv /\ GoneLeavesNothing /\ [Next]_vars => GoneLeavesNothing'
<1> SUFFICES ASSUME LockInv, GoneLeavesNothing, [Next]_vars,
                    NEW g \in Sessions, session'[g] \in {"notify", "gone"}
             PROVE  /\ \A r \in locks' : r.session # g
                    /\ \A h \in Handles : handles'[h] # Closed => handles'[h].session # g
                    /\ \A t \in Tasks : tasks'[t] # Idle => tasks'[t].session # g
  BY Zenon DEF GoneLeavesNothing, Joined
<1>0. /\ tasks \in [Tasks -> {Idle} \cup {Notifying(s) : s \in Sessions}
                                    \cup LockTask]
      /\ handles \in [Handles -> OpenFile \cup {Closed}]
      /\ session \in [Sessions -> {"live", "closing", "notify", "gone"}]
      /\ TypeOK
  BY Zenon DEF LockInv, TypeOK
<1> DEFINE Clear == /\ \A r \in locks : r.session # g
                    /\ \A h \in Handles : handles[h] # Closed => handles[h].session # g
                    /\ \A t \in Tasks : tasks[t] # Idle => tasks[t].session # g
<1>1. session[g] \in {"notify", "gone"} => Clear
  BY Zenon DEF GoneLeavesNothing, Joined
<1> HIDE DEF Clear
<1>2. ASSUME NEW s \in Sessions, NEW h \in Handles, NEW f \in Files,
             NEW a \in OpenModes, Open(s, h, f, a)
      PROVE  Clear'
  <2>1. Clear /\ g # s
    BY <1>0, <1>1, <1>2, Zenon DEF Open
  <2> QED BY <1>0, <1>2, <2>1, Zenon DEF Open, Clear
<1>3. ASSUME NEW t \in Tasks, NEW h \in Handles, NEW requested \in FileLock,
             NEW wait \in WaitModes, SetLock(t, h, requested, wait)
      PROVE  Clear'
  <2>1. Clear /\ handles[h].session # g
    BY <1>0, <1>1, <1>3, Zenon DEF SetLock
  <2> QED BY <1>0, <1>3, <2>1, Zenon DEF SetLock, Clear
<1>4. ASSUME NEW t \in Tasks, Apply(t)
      PROVE  Clear'
  <2> DEFINE task == tasks[t]
             insert == task.requested.kind # "Unlock"
  <2>1. task \in LockTask
    BY <1>0, <1>4, TaskShape, Zenon DEF Apply
  <2>2. Clear
    BY <1>1, <1>4, Zenon DEF Apply
  <2>3. task.session # g
    BY <2>1, <2>2 DEF Clear, LockTask, Idle
  <2>4. Acceptable(task.identity, task.session, task.requested, insert)
    BY <1>4, <2>1, Zenon DEF Acceptable, LockTask, LockInv, RequestsValid, ValidateLock, Apply
  <2>5. locks \in SUBSET LockRecord
    BY <1>0, Zenon DEF TypeOK
  <2>6. \A r \in ReplaceOwnerRange(locks, task.identity, task.session,
                                   task.requested, insert) : r.session # g
    BY <2>2, <2>3, <2>4, <2>5, ReplaceSessions DEF Clear
  <2>7. \A r \in locks' : r.session # g
    BY <1>4, <2>2, <2>6, Zenon DEF Apply, Clear
  <2>8. \A u \in Tasks : tasks'[u] # Idle => tasks'[u].session # g
    BY <1>0, <1>4, <2>2, <2>3 DEF Apply, Clear, Notifying
  <2> QED BY <1>4, <2>2, <2>7, <2>8, Zenon DEF Apply, Clear
<1>5. ASSUME NEW t \in Tasks, Refuse(t) \/ Retry(t) \/ Abort(t)
      PROVE  Clear'
  <2>1. tasks[t] \in LockTask
    BY <1>0, <1>5, TaskShape, Zenon DEF Refuse, Retry, Abort
  <2>2. Clear
    BY <1>1, <1>5, Zenon DEF Refuse, Retry, Abort
  <2>3. tasks[t].session # g
    BY <2>1, <2>2 DEF Clear, LockTask, Idle
  <2>4. \A u \in Tasks : u # t => tasks'[u] = tasks[u]
    BY <1>0, <1>5, Zenon DEF Refuse, Retry, Abort
  <2>5. tasks'[t] = Idle \/ tasks'[t].session = tasks[t].session
    <3>1. CASE Refuse(t)
      <4>1. \/ tasks'[t] = [tasks[t] EXCEPT !.pc = "waiting"]
            \/ tasks'[t] = Idle
        BY <1>0, <3>1, Zenon DEF Refuse
      <4> QED BY <2>1, <4>1, Zenon DEF LockTask
    <3>2. CASE Retry(t)
      <4>1. tasks'[t] = [tasks[t] EXCEPT !.pc = "check", !.woken = FALSE]
        BY <1>0, <3>2, Zenon DEF Retry
      <4> QED BY <2>1, <4>1, Zenon DEF LockTask
    <3>3. CASE Abort(t)
      BY <1>0, <3>3, Zenon DEF Abort
    <3> QED BY <1>5, <3>1, <3>2, <3>3, Zenon
  <2> QED BY <1>5, <2>2, <2>3, <2>4, <2>5, Zenon DEF Refuse, Retry, Abort, Clear
<1>6. ASSUME NEW t \in Tasks, NEW h \in Handles,
             \/ Close(t, h)
             \/ \E o \in Owners : Flush(t, h, o)
      PROVE  Clear'
  <2>1. Clear /\ handles[h].session # g
    BY <1>0, <1>1, <1>6, Zenon DEF Close, Flush
  <2>2. PICK removed : /\ locks' = locks \ removed
                       /\ tasks' = [tasks EXCEPT ![t] =
                              AfterRemoval(handles[h].session, removed)]
    BY <1>6, Zenon DEF Close, Flush
  <2>3. \A u \in Tasks : tasks'[u] # Idle => tasks'[u].session # g
    BY <1>0, <2>1, <2>2, Zenon DEF Clear, AfterRemoval, Notifying
  <2>4. \A k \in Handles : handles'[k] # Closed => handles'[k] = handles[k]
    BY <1>0, <1>6, Zenon DEF Close, Flush
  <2> QED BY <2>1, <2>2, <2>3, <2>4, Zenon DEF Clear
<1>7. ASSUME NEW t \in Tasks, NotifyWaiters(t)
      PROVE  Clear'
  <2>1. Clear
    BY <1>1, <1>7, Zenon DEF NotifyWaiters
  <2>2. \A u \in Tasks : tasks'[u] = Idle \/ tasks'[u] = WakeAll(tasks[u])
    BY <1>7, Zenon DEF NotifyWaiters
  <2> QED BY <1>0, <1>7, <2>1, <2>2, WakeFacts DEF NotifyWaiters, Clear
<1>8. ASSUME NEW s \in Sessions, Disconnect(s)
      PROVE  Clear'
  BY <1>0, <1>1, <1>8, Zenon DEF Disconnect, Clear
<1>9. ASSUME NEW s \in Sessions, Cleanup(s)
      PROVE  Clear'
  <2>1. /\ locks' \subseteq locks /\ tasks' = tasks
        /\ \A h \in Handles : handles'[h] # Closed => handles'[h] = handles[h]
    BY <1>0, <1>9, Zenon DEF Cleanup
  <2>2. CASE g = s
    <3>1. /\ \A r \in locks' : r.session # g
          /\ \A t \in Tasks : tasks'[t] # Idle => tasks'[t].session # g
      BY <1>9, <2>2, Zenon DEF Cleanup, Joined
    <3>2. \A h \in Handles : handles'[h] # Closed => handles'[h].session # g
      BY <1>9, <2>2, Zenon DEF Cleanup
    <3> QED BY <3>1, <3>2, Zenon DEF Clear
  <2>3. CASE g # s
    <3>1. Clear
      BY <1>0, <1>1, <1>9, <2>3, Zenon DEF Cleanup
    <3> QED BY <2>1, <3>1, Zenon DEF Clear
  <2> QED BY <2>2, <2>3, Zenon
<1>10. ASSUME NEW s \in Sessions, NotifyGone(s)
       PROVE  Clear'
  <2>1. Clear
    BY <1>0, <1>1, <1>10, Zenon DEF NotifyGone
  <2>2. \A u \in Tasks : tasks'[u] = WakeAll(tasks[u])
    BY <1>10, Zenon DEF NotifyGone
  <2>3. \A u \in Tasks : tasks'[u] # Idle => tasks'[u].session # g
    BY <1>0, <2>1, <2>2, WakeFacts DEF Clear
  <2> QED BY <1>10, <2>1, <2>3, Zenon DEF NotifyGone, Clear
<1>11. ASSUME UNCHANGED vars PROVE Clear'
  BY <1>1, <1>11, Zenon DEF vars, Clear
<1>12. Clear'
  BY <1>2, <1>3, <1>4, <1>5, <1>6, <1>7, <1>8, <1>9, <1>10, <1>11, Zenon DEF Next
<1> QED BY <1>12, Zenon DEF Clear

\* Once the daemon has joined a connection's tasks and run cleanup_locks, no
\* lock, handle or lock request of that connection exists or reappears.
THEOREM GoneForGood == Spec => []GoneLeavesNothing
<1>1. Init => GoneLeavesNothing
  BY Zenon DEF Init, GoneLeavesNothing
<1> QED BY <1>1, LockInvInit, LockInvStep, GoneStep, PTL DEF Spec

(***************************************************************************)
(* The byte-wise promise                                                   *)
(***************************************************************************)

\* Every non-empty set of naturals has a least element.
LEMMA LeastNatural ==
    ASSUME NEW S \in SUBSET Nat, S # {}
    PROVE  \E least \in S : \A n \in S : least <= n
<1>1. \E less : /\ \E x \in S : \A y \in S : ~(<<y, x>> \in less)
                /\ \A y, x \in S : y < x => <<y, x>> \in less
  <2>1. \E x \in S : \A y \in S : ~(<<y, x>> \in OpToRel(<, Nat))
    BY WFMin, NatLessThanWellFounded, Zenon
  <2>2. \A y, x \in S : y < x => <<y, x>> \in OpToRel(<, Nat)
    BY Zenon DEF OpToRel
  <2> QED BY <2>1, <2>2, Zenon
<1>2. PICK less : /\ \E x \in S : \A y \in S : ~(<<y, x>> \in less)
                  /\ \A y, x \in S : y < x => <<y, x>> \in less
  BY <1>1, Zenon
<1>3. PICK x \in S : \A y \in S : ~(<<y, x>> \in less)
  BY <1>2, Zenon
<1>4. \A y \in S : ~(y < x)
  BY <1>2, <1>3, Zenon
<1> QED BY <1>4

\* merge_owner_locks drops no byte: what a record covers, a run of the same
\* owner, kind and pid covers in the result.
LEMMA MergeCovers ==
    ASSUME NEW records \in SUBSET LockRecord, NEW record \in records,
           NEW x \in record.start .. record.end
    PROVE  \E run \in MergeOwnerLocks(records) :
              SameRun(run, record) /\ x \in run.start .. run.end
<1> DEFINE Bytes == RunBytes(records, record)
           starts == {a \in Nat : a <= x /\ a .. x \subseteq Bytes}
           rests == {d \in Nat : x <= MaxOffset - d /\ x .. (MaxOffset - d) \subseteq Bytes}
<1>1. \A r \in records : /\ r.start \in Nat /\ r.end \in Nat
                         /\ r.start <= MaxOffset /\ r.end <= MaxOffset
                         /\ r \in LockRecord
  BY LockConstants DEF LockRecord, Offsets
<1>2. /\ x \in Nat /\ x <= MaxOffset /\ MaxOffset \in Nat
      /\ record.start \in Nat /\ record.end \in Nat
  BY <1>1, LockConstants
<1>3. \A y : y \in Bytes <=> \E r \in records : SameRun(r, record) /\ y \in r.start .. r.end
  BY Zenon DEF RunBytes
<1>4. SameRun(record, record)
  BY Zenon DEF SameRun, SameOwner
<1>5. x \in Bytes
  BY <1>3, <1>4, Zenon
<1> HIDE DEF Bytes
<1>6. \A y \in Bytes : y \in Nat /\ y <= MaxOffset
  BY <1>1, <1>2, <1>3
<1>7. PICK a \in starts : \A n \in starts : a <= n
  <2>1. x .. x = {x}
    BY <1>2
  <2>2. x \in starts
    BY <2>1, <1>2, <1>5
  <2> HIDE DEF starts
  <2>3. starts \in SUBSET Nat
    BY Zenon DEF starts
  <2> QED BY <2>2, <2>3, LeastNatural, Zenon
<1>8. PICK d \in rests : \A n \in rests : d <= n
  <2>1. x .. x = {x} /\ MaxOffset - x \in Nat /\ MaxOffset - (MaxOffset - x) = x
    BY <1>2
  <2>2. MaxOffset - x \in rests
    BY <2>1, <1>2, <1>5
  <2> HIDE DEF rests
  <2>3. rests \in SUBSET Nat
    BY Zenon DEF rests
  <2> QED BY <2>2, <2>3, LeastNatural, Zenon
<1> DEFINE b == MaxOffset - d
<1>9. /\ a \in Nat /\ a <= x /\ a .. x \subseteq Bytes
      /\ d \in Nat /\ x <= b /\ x .. b \subseteq Bytes
      /\ b \in Nat
  BY <1>2, <1>7, <1>8
<1>10. PICK first \in records : SameRun(first, record) /\ first.start = a
  <2>1. a \in Bytes
    BY <1>9
  <2>2. PICK r \in records : SameRun(r, record) /\ a \in r.start .. r.end
    BY <2>1, <1>3, Zenon
  <2>3. r.start \in Nat /\ r.end \in Nat /\ r.start <= a /\ a <= r.end
    BY <2>2, <1>1, <1>9
  <2>4. \A y \in r.start .. x : y \in Bytes
    <3> SUFFICES ASSUME NEW y \in r.start .. x PROVE y \in Bytes
      BY Zenon
    <3>1. CASE y < a
      BY <3>1, <2>2, <2>3, <1>3, <1>9
    <3>2. CASE y >= a
      BY <3>2, <2>3, <1>9, <1>2
    <3> QED BY <3>1, <3>2, <2>3, <1>9
  <2>5. r.start \in starts
    BY <2>3, <2>4, <1>9, <1>2
  <2> QED BY <2>2, <2>3, <2>5, <1>7, <1>9
<1>11. PICK last \in records : SameRun(last, record) /\ last.end = b
  <2>1. b \in Bytes
    BY <1>2, <1>9
  <2>2. PICK r \in records : SameRun(r, record) /\ b \in r.start .. r.end
    BY <2>1, <1>3, Zenon
  <2>3. r.start \in Nat /\ r.end \in Nat /\ r.start <= b /\ b <= r.end /\ r.end <= MaxOffset
    BY <2>2, <1>1, <1>9
  <2>4. \A y \in x .. r.end : y \in Bytes
    <3> SUFFICES ASSUME NEW y \in x .. r.end PROVE y \in Bytes
      BY Zenon
    <3>1. CASE y > b
      BY <3>1, <2>2, <2>3, <1>3, <1>9
    <3>2. CASE y <= b
      BY <3>2, <2>3, <1>9, <1>2
    <3> QED BY <3>1, <3>2, <2>3, <1>9, <1>2
  <2>5. MaxOffset - r.end \in Nat /\ MaxOffset - (MaxOffset - r.end) = r.end
    BY <2>3, <1>2
  <2>6. MaxOffset - r.end \in rests
    BY <2>3, <2>4, <2>5, <1>9, <1>2
  <2>7. d <= MaxOffset - r.end
    BY <2>6, <1>8, Zenon
  <2> QED BY <2>2, <2>3, <2>7, <1>2, <1>9
<1> DEFINE run == Stretched(first, last)
<1>12. run.start = a /\ run.end = b /\ SameRun(run, record)
  BY <1>1, <1>10, <1>11, Zenon DEF Stretched, LockRecord, SameRun, SameOwner
<1>13. RunBytes(records, run) = Bytes
  BY <1>12, Zenon DEF Bytes, RunBytes, SameRun, SameOwner
<1>14. /\ a <= b /\ x \in a .. b
       /\ a .. b \subseteq Bytes
  BY <1>2, <1>9
<1>15. (a - 1) \notin Bytes
  <2> SUFFICES ASSUME (a - 1) \in Bytes PROVE FALSE
    BY Zenon
  <2>1. a - 1 \in Nat
    BY <1>6, Zenon
  <2>2. \A y \in (a - 1) .. x : y = a - 1 \/ y \in a .. x
    BY <1>2, <1>9
  <2>3. a - 1 \in starts
    BY <2>1, <2>2, <1>2, <1>9
  <2> QED BY <2>3, <1>7, <1>9
<1>16. (b + 1) \notin Bytes
  <2> SUFFICES ASSUME (b + 1) \in Bytes PROVE FALSE
    BY Zenon
  <2>1. b + 1 \in Nat /\ b + 1 <= MaxOffset
    BY <1>6, Zenon
  <2>2. d - 1 \in Nat /\ MaxOffset - (d - 1) = b + 1
    BY <2>1, <1>2, <1>9
  <2>3. \A y \in x .. (b + 1) : y = b + 1 \/ y \in x .. b
    BY <1>2, <1>9
  <2>4. d - 1 \in rests
    BY <2>1, <2>2, <2>3, <1>2, <1>9
  <2> QED BY <2>4, <1>8, <1>9
<1>17. run \in {Stretched(p, q) : p, q \in records}
  BY <1>10, <1>11
<1> HIDE DEF run, b
<1>18. run \in MergeOwnerLocks(records)
  BY <1>12, <1>13, <1>14, <1>15, <1>16, <1>17 DEF MergeOwnerLocks
<1> QED BY <1>12, <1>14, <1>18, Zenon

LockCells == Files \X Offsets \X Sessions \X Owners

Covers(record, cell) ==
    /\ SameOwner(record, cell[1], cell[3], cell[4])
    /\ record.start <= cell[2] /\ cell[2] <= record.end

HasKind(table, cell, kind) == \E r \in table : Covers(r, cell) /\ r.kind = kind

\* HeldKind of a given table.
KindAt(table, cell) ==
    LET covering == {r \in table : Covers(r, cell)}
    IN IF covering = {} THEN "None" ELSE (CHOOSE r \in covering : TRUE).kind

\* In an exclusive table one record of an owner covers a byte at most, so which
\* one HeldKind chooses makes no difference.
LEMMA KindAtFacts ==
    ASSUME NEW table \in SUBSET LockRecord, Excluding(table), NEW cell \in LockCells
    PROVE  /\ KindAt(table, cell) \in LockKinds \cup {"None"}
           /\ \A k \in LockKinds : KindAt(table, cell) = k <=> HasKind(table, cell, k)
<1> DEFINE covering == {r \in table : Covers(r, cell)}
<1>1. "None" \notin LockKinds
  BY Zenon DEF LockKinds
<1>2. CASE covering = {}
  <2>1. KindAt(table, cell) = "None"
    BY <1>2, Zenon DEF KindAt
  <2>2. \A k \in LockKinds : ~HasKind(table, cell, k)
    BY <1>2, Zenon DEF HasKind
  <2> QED BY <1>1, <2>1, <2>2, Zenon
<1>3. CASE covering # {}
  <2>1. PICK r \in covering : KindAt(table, cell) = r.kind
    BY <1>3, Zenon DEF KindAt
  <2>2. r.kind \in LockKinds
    BY Zenon DEF LockRecord
  <2>3. \A q \in covering : q = r
    <3> SUFFICES ASSUME NEW q \in covering, q # r PROVE FALSE
      BY Zenon
    <3>1. /\ q.identity = r.identity /\ Holder(q) = Holder(r)
      BY Zenon DEF Covers, SameOwner, Holder
    <3>2. /\ q.start \in Int /\ q.end \in Int /\ r.start \in Int /\ r.end \in Int
          /\ cell[2] \in Int
      BY LockConstants DEF LockRecord, Offsets, LockCells
    <3>3. RangesOverlap(q, r)
      BY <3>2 DEF Covers, RangesOverlap
    <3> QED BY <3>1, <3>3, Zenon DEF Excluding
  <2>4. \A k \in LockKinds : HasKind(table, cell, k) <=> r.kind = k
    BY <2>3, Zenon DEF HasKind
  <2> QED BY <2>1, <2>2, <2>4, Zenon
<1> QED BY <1>2, <1>3, Zenon

\* Two exclusive tables with the same kinds at a byte give it the same holder.
LEMMA SameKinds ==
    ASSUME NEW table \in SUBSET LockRecord, Excluding(table),
           NEW other \in SUBSET LockRecord, Excluding(other), NEW cell \in LockCells,
           \A k \in LockKinds : HasKind(other, cell, k) <=> HasKind(table, cell, k)
    PROVE  KindAt(other, cell) = KindAt(table, cell)
<1>1. /\ KindAt(table, cell) \in LockKinds \cup {"None"}
      /\ \A k \in LockKinds : KindAt(table, cell) = k <=> HasKind(table, cell, k)
  BY KindAtFacts, Zenon
<1>2. /\ KindAt(other, cell) \in LockKinds \cup {"None"}
      /\ \A k \in LockKinds : KindAt(other, cell) = k <=> HasKind(other, cell, k)
  BY KindAtFacts, Zenon
<1> QED BY <1>1, <1>2, Zenon

\* merge_owner_locks changes nobody's lock on any byte.
LEMMA MergeKinds ==
    ASSUME NEW records \in SUBSET LockRecord, NEW cell \in LockCells, NEW k
    PROVE  HasKind(MergeOwnerLocks(records), cell, k) <=> HasKind(records, cell, k)
<1>0. cell[2] \in Int /\ \A r \in LockRecord : r.start \in Int /\ r.end \in Int
  BY LockConstants DEF LockRecord, Offsets, LockCells
<1>1. ASSUME HasKind(MergeOwnerLocks(records), cell, k) PROVE HasKind(records, cell, k)
  <2>1. PICK run \in MergeOwnerLocks(records) : Covers(run, cell) /\ run.kind = k
    BY <1>1, Zenon DEF HasKind
  <2>2. run \in LockRecord
    BY MergeType, Zenon
  <2>3. cell[2] \in run.start .. run.end
    BY <1>0, <2>1, <2>2 DEF Covers
  <2>4. PICK r \in records : SameRun(r, run) /\ cell[2] \in r.start .. r.end
    BY <2>3, MergeCovered, Zenon
  <2>5. Covers(r, cell) /\ r.kind = k
    BY <1>0, <2>1, <2>4 DEF Covers, SameRun, SameOwner
  <2> QED BY <2>5, Zenon DEF HasKind
<1>2. ASSUME HasKind(records, cell, k) PROVE HasKind(MergeOwnerLocks(records), cell, k)
  <2>1. PICK r \in records : Covers(r, cell) /\ r.kind = k
    BY <1>2, Zenon DEF HasKind
  <2>2. cell[2] \in r.start .. r.end
    BY <1>0, <2>1 DEF Covers
  <2>3. PICK run \in MergeOwnerLocks(records) : SameRun(run, r) /\ cell[2] \in run.start .. run.end
    BY <2>2, MergeCovers, Zenon
  <2>4. run \in LockRecord
    BY MergeType, Zenon
  <2>5. Covers(run, cell) /\ run.kind = k
    BY <1>0, <2>1, <2>3, <2>4 DEF Covers, SameRun, SameOwner
  <2> QED BY <2>5, Zenon DEF HasKind
<1> QED BY <1>1, <1>2, Zenon

\* The bytes a request is about.
Asked(identity, sid, requested) ==
    {identity} \X (requested.start .. requested.end) \X {sid} \X {requested.owner}

\* Before it is merged, the new table holds the request where it was asked for
\* and the old locks everywhere else, the two sides of a split included.
LEMMA SplicedKinds ==
    ASSUME NEW table \in SUBSET LockRecord,
           NEW identity, NEW sid, NEW requested, NEW insert,
           Acceptable(identity, sid, requested, insert),
           NEW cell \in LockCells, NEW k
    PROVE  LET next == Spliced(table, identity, sid, requested, insert)
           IN /\ cell \in Asked(identity, sid, requested) =>
                    (HasKind(next, cell, k) <=> insert /\ k = requested.kind)
              /\ cell \notin Asked(identity, sid, requested) =>
                    (HasKind(next, cell, k) <=> HasKind(table, cell, k))
<1> DEFINE next == Spliced(table, identity, sid, requested, insert)
           added == [identity |-> identity, session |-> sid,
                     owner |-> requested.owner, pid |-> requested.pid,
                     kind |-> requested.kind, start |-> requested.start,
                     end |-> requested.end]
           Replaced(base) == /\ SameOwner(base, identity, sid, requested.owner)
                             /\ RangesOverlap(base, requested)
<1>0. /\ \A r \in LockRecord : r.start \in Int /\ r.end \in Int
      /\ requested \in FileLock /\ requested.start \in Int /\ requested.end \in Int
      /\ requested.start <= requested.end
      /\ cell[2] \in Int
  BY LockConstants DEF LockRecord, FileLock, Offsets, LockCells, Acceptable
<1>1. cell \in Asked(identity, sid, requested) <=>
        /\ cell[1] = identity /\ cell[3] = sid /\ cell[4] = requested.owner
        /\ requested.start <= cell[2] /\ cell[2] <= requested.end
  BY <1>0 DEF Asked, LockCells
<1>2. Covers(added, cell) <=> cell \in Asked(identity, sid, requested)
  BY <1>1, Zenon DEF Covers, SameOwner
<1>3. ASSUME NEW base \in table, Replaced(base), NEW part \in Remainder(base, requested)
      PROVE  /\ part \in LockRecord /\ SameRun(part, base)
             /\ part.start >= base.start /\ part.end <= base.end
             /\ ~RangesOverlap(part, requested)
  BY <1>0, <1>3, RemainderFacts, Zenon
<1>4. ASSUME NEW base \in table, Replaced(base), Covers(base, cell),
             cell \notin Asked(identity, sid, requested)
      PROVE  \E part \in Remainder(base, requested) : Covers(part, cell) /\ part.kind = base.kind
  <2>0. base \in LockRecord /\ base.start \in Int /\ base.end \in Int
    BY <1>0, Zenon
  <2>1. cell[2] < requested.start \/ requested.end < cell[2]
    BY <1>0, <1>1, <1>4 DEF Covers, SameOwner
  <2>2. CASE cell[2] < requested.start
    <3> DEFINE part == [base EXCEPT !.end = requested.start - 1]
    <3>1. /\ part.start = base.start /\ part.end = requested.start - 1
          /\ part.identity = base.identity /\ part.session = base.session
          /\ part.owner = base.owner /\ part.kind = base.kind
      BY <2>0, Zenon DEF LockRecord
    <3>2. part.start <= part.end /\ Covers(part, cell)
      BY <2>0, <2>2, <3>1, <1>0, <1>4 DEF Covers, SameOwner
    <3>3. part \in Remainder(base, requested)
      BY <3>2, Zenon DEF Remainder
    <3> QED BY <3>1, <3>2, <3>3, Zenon
  <2>3. CASE requested.end < cell[2]
    <3> DEFINE part == [base EXCEPT !.start = requested.end + 1]
    <3>1. /\ part.end = base.end /\ part.start = requested.end + 1
          /\ part.identity = base.identity /\ part.session = base.session
          /\ part.owner = base.owner /\ part.kind = base.kind
      BY <2>0, Zenon DEF LockRecord
    <3>2. part.start <= part.end /\ Covers(part, cell)
      BY <2>0, <2>3, <3>1, <1>0, <1>4 DEF Covers, SameOwner
    <3>3. part \in Remainder(base, requested)
      BY <3>2, Zenon DEF Remainder
    <3> QED BY <3>1, <3>2, <3>3, Zenon
  <2> QED BY <2>1, <2>2, <2>3, Zenon
<1>5. /\ \A base \in table : ~Replaced(base) => base \in next
      /\ \A base \in table : Replaced(base) => Remainder(base, requested) \subseteq next
      /\ insert => added \in next
  BY Zenon DEF Spliced
<1>6. \A r \in next : \/ insert /\ r = added
                      \/ r \in table /\ ~Replaced(r)
                      \/ \E base \in table : Replaced(base) /\ r \in Remainder(base, requested)
  BY SplicedOrigin
<1> HIDE DEF next
<1>7. CASE cell \in Asked(identity, sid, requested)
  <2>1. ASSUME NEW r \in next, Covers(r, cell) PROVE insert /\ r = added
    <3>1. CASE r \in table /\ ~Replaced(r)
      BY <1>0, <1>1, <1>7, <2>1, <3>1 DEF Covers, SameOwner, RangesOverlap
    <3>2. CASE \E base \in table : Replaced(base) /\ r \in Remainder(base, requested)
      BY <1>0, <1>1, <1>3, <1>7, <2>1, <3>2 DEF Covers, RangesOverlap
    <3> QED BY <1>6, <3>1, <3>2, Zenon
  <2>2. HasKind(next, cell, k) => insert /\ k = requested.kind
    BY <2>1 DEF HasKind
  <2>3. insert /\ k = requested.kind => HasKind(next, cell, k)
    BY <1>2, <1>5, <1>7, Zenon DEF HasKind
  <2> QED BY <1>7, <2>2, <2>3, Zenon DEF next
<1>8. CASE cell \notin Asked(identity, sid, requested)
  <2>1. ASSUME HasKind(next, cell, k) PROVE HasKind(table, cell, k)
    <3>1. PICK r \in next : Covers(r, cell) /\ r.kind = k
      BY <2>1, Zenon DEF HasKind
    <3>2. CASE r \in table
      BY <3>1, <3>2, Zenon DEF HasKind
    <3>3. ASSUME NEW base \in table, Replaced(base), r \in Remainder(base, requested)
          PROVE  HasKind(table, cell, k)
      <4>1. Covers(base, cell) /\ base.kind = k
        BY <1>0, <1>3, <3>1, <3>3 DEF Covers, SameRun, SameOwner
      <4> QED BY <4>1, Zenon DEF HasKind
    <3> QED BY <1>2, <1>6, <1>8, <3>1, <3>2, <3>3, Zenon
  <2>2. ASSUME HasKind(table, cell, k) PROVE HasKind(next, cell, k)
    <3>1. PICK r \in table : Covers(r, cell) /\ r.kind = k
      BY <2>2, Zenon DEF HasKind
    <3>2. CASE Replaced(r)
      BY <1>4, <1>5, <1>8, <3>1, <3>2, Zenon DEF HasKind
    <3>3. CASE ~Replaced(r)
      BY <1>5, <3>1, <3>3, Zenon DEF HasKind
    <3> QED BY <3>2, <3>3, Zenon
  <2> QED BY <1>8, <2>1, <2>2, Zenon DEF next
<1> QED BY <1>7, <1>8, Zenon

\* replace_owner_range changes what its owner holds on the requested bytes, and
\* nothing else.
LEMMA ReplaceKinds ==
    ASSUME NEW table \in SUBSET LockRecord, IsFiniteSet(table), Excluding(table),
           NEW identity, NEW sid, NEW requested, NEW insert,
           Acceptable(identity, sid, requested, insert),
           insert => Conflicts(table, identity, sid, requested) = {},
           NEW cell \in LockCells,
           NEW next, next = ReplaceOwnerRange(table, identity, sid, requested, insert)
    PROVE  KindAt(next, cell) =
              IF cell \in Asked(identity, sid, requested)
              THEN IF insert THEN requested.kind ELSE "None"
              ELSE KindAt(table, cell)
<1> DEFINE vector == Spliced(table, identity, sid, requested, insert)
<1>1. next \in SUBSET LockRecord /\ Excluding(next)
  BY ReplaceFacts, Zenon
<1>2. /\ KindAt(next, cell) \in LockKinds \cup {"None"}
      /\ \A k \in LockKinds : KindAt(next, cell) = k <=> HasKind(next, cell, k)
  BY <1>1, KindAtFacts, Zenon
<1>3. \A k : /\ cell \in Asked(identity, sid, requested) =>
                  (HasKind(vector, cell, k) <=> insert /\ k = requested.kind)
             /\ cell \notin Asked(identity, sid, requested) =>
                  (HasKind(vector, cell, k) <=> HasKind(table, cell, k))
  BY SplicedKinds, Zenon
<1>4. vector \in SUBSET LockRecord
  BY SplicedType, Zenon
<1>5. next = MergeOwnerLocks(vector)
  BY Zenon DEF ReplaceOwnerRange
<1> HIDE DEF vector
<1>6. \A k : HasKind(next, cell, k) <=> HasKind(vector, cell, k)
  BY <1>4, <1>5, MergeKinds
<1>7. insert => requested.kind \in LockKinds
  BY Zenon DEF Acceptable, FileLock, LockKinds
<1>8. CASE cell \in Asked(identity, sid, requested)
  BY <1>2, <1>3, <1>6, <1>7, <1>8, Zenon
<1>9. CASE cell \notin Asked(identity, sid, requested)
  <2>1. \A k \in LockKinds : HasKind(next, cell, k) <=> HasKind(table, cell, k)
    BY <1>3, <1>6, <1>9, Zenon
  <2> QED BY <1>1, <1>9, <2>1, SameKinds, Zenon
<1> QED BY <1>8, <1>9, Zenon

\* remove_locks changes what the removed locks covered, and nothing else.
LEMMA RemoveKinds ==
    ASSUME NEW table \in SUBSET LockRecord, Excluding(table),
           NEW removed \in SUBSET table, NEW cells, NEW cell \in LockCells,
           \A r \in table : Covers(r, cell) => (r \in removed <=> cell \in cells)
    PROVE  KindAt(table \ removed, cell) = IF cell \in cells THEN "None" ELSE KindAt(table, cell)
<1>1. table \ removed \in SUBSET LockRecord /\ Excluding(table \ removed)
  BY Zenon DEF Excluding
<1>2. CASE cell \in cells
  <2>1. {r \in table \ removed : Covers(r, cell)} = {}
    BY <1>2, Zenon
  <2> QED BY <1>2, <2>1, Zenon DEF KindAt
<1>3. CASE cell \notin cells
  <2>1. \A k \in LockKinds : HasKind(table \ removed, cell, k) <=> HasKind(table, cell, k)
    BY <1>3, Zenon DEF HasKind
  <2> QED BY <1>1, <1>3, <2>1, SameKinds, Zenon
<1> QED BY <1>2, <1>3, Zenon

\* A request with no conflict asks for bytes that nobody else holds
\* incompatibly.
LEMMA UnblockedIsFree ==
    ASSUME NEW table \in SUBSET LockRecord, Excluding(table),
           NEW identity \in Files, NEW sid, NEW requested \in FileLock, requested.kind # "Unlock",
           Conflicts(table, identity, sid, requested) = {},
           NEW x \in requested.start .. requested.end, NEW s \in Sessions, NEW o \in Owners,
           ~(s = sid /\ o = requested.owner)
    PROVE  \/ KindAt(table, <<identity, x, s, o>>) = "None"
           \/ KindAt(table, <<identity, x, s, o>>) = "Read" /\ requested.kind = "Read"
<1> DEFINE cell == <<identity, x, s, o>>
<1>0. /\ \A r \in LockRecord : r.start \in Int /\ r.end \in Int
      /\ requested.start \in Offsets /\ requested.end \in Offsets
      /\ requested.kind \in LockKinds
      /\ MaxOffset \in Nat /\ identity \in Files
  BY LockConstants DEF LockRecord, FileLock, Offsets, LockKinds
<1>1. x \in Offsets
  BY <1>0 DEF Offsets
<1>2. cell \in LockCells
  BY <1>0, <1>1, Zenon DEF LockCells
<1>3. ASSUME NEW r \in table, Covers(r, cell) PROVE r.kind = "Read" /\ requested.kind = "Read"
  <2>1. r.identity = identity /\ ~(r.session = sid /\ r.owner = requested.owner)
    BY <1>3, Zenon DEF Covers, SameOwner
  <2>2. RangesOverlap(r, requested)
    BY <1>0, <1>1, <1>3 DEF Covers, RangesOverlap, Offsets
  <2>3. ~(r.kind = "Write" \/ requested.kind = "Write")
    BY <2>1, <2>2, Zenon DEF Conflicts
  <2> QED BY <1>0, <2>3, Zenon DEF LockRecord, LockKinds
<1>4. /\ KindAt(table, cell) \in LockKinds \cup {"None"}
      /\ \A k \in LockKinds : KindAt(table, cell) = k <=> HasKind(table, cell, k)
  BY <1>2, KindAtFacts, Zenon
<1>5. \A k \in LockKinds : HasKind(table, cell, k) => k = "Read" /\ requested.kind = "Read"
  BY <1>3, Zenon DEF HasKind
<1> QED BY <1>4, <1>5, Zenon

\* The state of the promise that a state of the service stands for.
Held == [cell \in Files \X Offsets \X Sessions \X Owners |-> HeldKind(cell)]

LEMMA HeldFacts ==
    /\ Held = [cell \in LockCells |-> KindAt(locks, cell)]
    /\ Held' = [cell \in LockCells |-> KindAt(locks', cell)]
BY Zenon DEF Held, LockCells, HeldKind, KindAt, Covers

LEMMA PutFacts ==
    ASSUME NEW cells, NEW kind,
           \A cell \in LockCells :
              KindAt(locks', cell) = IF cell \in cells THEN kind ELSE KindAt(locks, cell)
    PROVE  Promise!Put(cells, kind)
<1>1. Held' = [cell \in LockCells |-> IF cell \in cells THEN kind ELSE Held[cell]]
  BY HeldFacts, Zenon
<1>2. LockCells = Promise!Cells
  BY Zenon DEF LockCells, Promise!Cells, Promise!Offsets, Offsets
<1> QED BY <1>1, <1>2, Zenon DEF Promise!Put, Held

\* A look at the table grants or releases exactly what was asked.
LEMMA ApplyPromise ==
    ASSUME LockInv, NEW t \in Tasks, Apply(t)
    PROVE  Promise!Next \/ Held' = Held
<1> DEFINE task == tasks[t]
           requested == task.requested
           insert == requested.kind # "Unlock"
           next == ReplaceOwnerRange(locks, task.identity, task.session, requested, insert)
<1>1. CASE locks' = locks
  BY <1>1, HeldFacts, Zenon
<1>2. CASE locks' = next
  <2>1. /\ locks \in SUBSET LockRecord /\ IsFiniteSet(locks)
    BY Zenon DEF LockInv, TypeOK
  <2>2. Excluding(locks)
    BY Zenon DEF LockInv, Exclusion, Excluding
  <2>3. task \in LockTask
    BY TaskShape, Zenon DEF LockInv, Apply
  <2>4. ValidateLock(requested)
    BY Zenon DEF LockInv, RequestsValid, Apply
  <2>5. Acceptable(task.identity, task.session, requested, insert)
    BY <2>3, <2>4, Zenon DEF Acceptable, ValidateLock, LockTask
  <2>6. insert => Conflicts(locks, task.identity, task.session, requested) = {}
    BY Zenon DEF Apply, Blocked
  <2>7. /\ task.session \in Sessions /\ task.identity \in Files
        /\ requested.owner \in Owners
        /\ requested.start \in Promise!Offsets /\ requested.end \in Promise!Offsets
        /\ insert => requested.kind \in {"Read", "Write"}
    BY <2>3, Zenon DEF LockTask, FileLock, LockKinds, Offsets, Promise!Offsets
  <2> HIDE DEF task, next, requested, insert
  <2>8. \A cell \in LockCells :
           KindAt(locks', cell) =
              IF cell \in Asked(task.identity, task.session, requested)
              THEN IF insert THEN requested.kind ELSE "None"
              ELSE KindAt(locks, cell)
    BY <1>2, <2>1, <2>2, <2>5, <2>6, ReplaceKinds DEF next
  <2>9. CASE ~insert
    <3>1. Promise!Put(Asked(task.identity, task.session, requested), "None")
      BY <2>8, <2>9, PutFacts, Zenon
    <3>2. Promise!Unlock(task.session, requested.owner, task.identity,
                         requested.start .. requested.end)
      BY <3>1, Zenon DEF Promise!Unlock, Asked
    <3> QED BY <3>2, <2>7, Zenon DEF Promise!Next
  <2>10. CASE insert
    <3>1. Promise!Put(Asked(task.identity, task.session, requested), requested.kind)
      BY <2>8, <2>10, PutFacts, Zenon
    <3>2. ASSUME NEW x \in requested.start .. requested.end, NEW s \in Sessions, NEW o \in Owners,
                 <<s, o>> # <<task.session, requested.owner>>
          PROVE  \/ Held[<<task.identity, x, s, o>>] = "None"
                 \/ Held[<<task.identity, x, s, o>>] = "Read" /\ requested.kind = "Read"
      <4>1. /\ Conflicts(locks, task.identity, task.session, requested) = {}
            /\ requested.kind # "Unlock" /\ requested \in FileLock
            /\ ~(s = task.session /\ o = requested.owner)
        BY <2>5, <2>6, <2>10, <3>2, Zenon DEF Acceptable, insert
      <4>2. <<task.identity, x, s, o>> \in LockCells
        <5>1. x \in Offsets
          BY <2>7, LockConstants DEF Offsets, Promise!Offsets
        <5> QED BY <5>1, <2>7, Zenon DEF LockCells
      <4>3. \/ KindAt(locks, <<task.identity, x, s, o>>) = "None"
            \/ KindAt(locks, <<task.identity, x, s, o>>) = "Read" /\ requested.kind = "Read"
        BY <2>1, <2>2, <2>7, <4>1, UnblockedIsFree
      <4> QED BY <4>2, <4>3, HeldFacts, Zenon
    <3>3. Promise!Free(task.identity, requested.start .. requested.end,
                       task.session, requested.owner, requested.kind)
      BY <3>2, Zenon DEF Promise!Free, Held
    <3>4. Promise!Grant(task.session, requested.owner, task.identity,
                        requested.start .. requested.end, requested.kind)
      BY <3>1, <3>3, Zenon DEF Promise!Grant, Asked
    <3> QED BY <3>4, <2>7, <2>10, Zenon DEF Promise!Next
  <2> QED BY <2>9, <2>10, Zenon
<1> QED BY <1>1, <1>2, Zenon DEF Apply

\* Close, flush and the end of a connection release what they are to release.
LEMMA RemovalPromise ==
    ASSUME LockInv, NEW removed \in SUBSET locks, locks' = locks \ removed, NEW cells,
           \A cell \in LockCells, r \in locks :
              Covers(r, cell) => (r \in removed <=> cell \in cells)
    PROVE  Promise!Put(cells, "None")
<1>1. locks \in SUBSET LockRecord
  BY Zenon DEF LockInv, TypeOK
<1>2. Excluding(locks)
  BY Zenon DEF LockInv, Exclusion, Excluding
<1>3. \A cell \in LockCells :
        KindAt(locks', cell) = IF cell \in cells THEN "None" ELSE KindAt(locks, cell)
  BY <1>1, <1>2, RemoveKinds
<1> QED BY <1>3, PutFacts, Zenon

\* Every step of the service is a step of the promise or changes nothing held.
LEMMA PromiseStep == LockInv /\ [Next]_vars => [Promise!Next]_Held
<1> SUFFICES ASSUME LockInv, [Next]_vars PROVE Promise!Next \/ Held' = Held
  BY Zenon
<1>0. /\ handles \in [Handles -> OpenFile \cup {Closed}]
      /\ locks \subseteq LockRecord
      /\ Offsets = Promise!Offsets
  BY Zenon DEF LockInv, TypeOK, Offsets, Promise!Offsets
<1>1. CASE locks' = locks
  BY <1>1, HeldFacts, Zenon
<1>2. ASSUME NEW t \in Tasks, Apply(t) PROVE Promise!Next \/ Held' = Held
  BY <1>2, ApplyPromise, Zenon
<1>3. ASSUME NEW t \in Tasks, NEW h \in Handles, Close(t, h) PROVE Promise!Next
  <2> DEFINE s == handles[h].session
             f == handles[h].identity
             removed == {r \in locks : r.session = s /\ r.identity = f}
  <2>1. s \in Sessions /\ f \in Files
    BY <1>0, <1>3, Zenon DEF Close, OpenFile
  <2>2. locks' = locks \ removed
    BY <1>3, Zenon DEF Close
  <2> HIDE DEF s, f
  <2>3. \A cell \in LockCells, r \in locks :
           Covers(r, cell) => (r \in removed <=> cell \in {f} \X Offsets \X {s} \X Owners)
    BY Zenon DEF Covers, SameOwner, LockCells
  <2>4. Promise!Put({f} \X Offsets \X {s} \X Owners, "None")
    BY <2>2, <2>3, RemovalPromise, Zenon
  <2>5. Promise!ReleaseFile(s, f)
    BY <2>4, <1>0, Zenon DEF Promise!ReleaseFile
  <2> QED BY <2>1, <2>5, Zenon DEF Promise!Next
<1>4. ASSUME NEW t \in Tasks, NEW h \in Handles, NEW o \in Owners, Flush(t, h, o)
      PROVE  Promise!Next
  <2> DEFINE s == handles[h].session
             f == handles[h].identity
             removed == {r \in locks : SameOwner(r, f, s, o)}
  <2>1. s \in Sessions /\ f \in Files
    BY <1>0, <1>4, Zenon DEF Flush, OpenFile
  <2>2. locks' = locks \ removed
    BY <1>4, Zenon DEF Flush
  <2> HIDE DEF s, f
  <2>3. \A cell \in LockCells, r \in locks :
           Covers(r, cell) => (r \in removed <=> cell \in {f} \X Offsets \X {s} \X {o})
    BY Zenon DEF Covers, SameOwner, LockCells
  <2>4. Promise!Put({f} \X Offsets \X {s} \X {o}, "None")
    BY <2>2, <2>3, RemovalPromise, Zenon
  <2>5. Promise!ReleaseOwner(s, o, f)
    BY <2>4, <1>0, Zenon DEF Promise!ReleaseOwner
  <2> QED BY <2>1, <2>5, Zenon DEF Promise!Next
<1>5. ASSUME NEW s \in Sessions, Cleanup(s) PROVE Promise!Next
  <2> DEFINE removed == {r \in locks : r.session = s}
  <2>2. locks' = locks \ removed
    BY <1>5, Zenon DEF Cleanup
  <2>3. \A cell \in LockCells, r \in locks :
           Covers(r, cell) => (r \in removed <=> cell \in Files \X Offsets \X {s} \X Owners)
    BY Zenon DEF Covers, SameOwner, LockCells
  <2>4. Promise!Put(Files \X Offsets \X {s} \X Owners, "None")
    BY <2>2, <2>3, RemovalPromise, Zenon
  <2>5. Promise!ReleaseSession(s)
    BY <2>4, <1>0, Zenon DEF Promise!ReleaseSession
  <2> QED BY <2>5, Zenon DEF Promise!Next
<1>6. \/ locks' = locks
      \/ \E t \in Tasks : Apply(t)
      \/ \E t \in Tasks, h \in Handles : Close(t, h)
      \/ \E t \in Tasks, h \in Handles, o \in Owners : Flush(t, h, o)
      \/ \E s \in Sessions : Cleanup(s)
  BY Zenon DEF Next, vars, Open, SetLock, Refuse, Retry, Abort, NotifyWaiters, Disconnect, NotifyGone
<1> QED BY <1>1, <1>2, <1>3, <1>4, <1>5, <1>6, Zenon

\* The lock service keeps its byte-wise promise: the table of records, with its
\* splitting and merging, grants and releases exactly the bytes that were asked
\* for, for every set of sessions, owners and files and every offset range.
THEOREM LocksKeepPromise == Spec => ImplementsPosixLocks
<1>1. Init => Promise!Init
  <2> SUFFICES ASSUME Init PROVE Held = [cell \in Promise!Cells |-> "None"]
    BY Zenon DEF Promise!Init, Held
  <2>1. \A cell \in LockCells : KindAt(locks, cell) = "None"
    BY Zenon DEF Init, KindAt
  <2>2. LockCells = Promise!Cells
    BY Zenon DEF LockCells, Promise!Cells, Promise!Offsets, Offsets
  <2> QED BY <2>1, <2>2, HeldFacts, Zenon
<1> QED
  BY <1>1, LockInvInit, LockInvStep, PromiseStep, PTL
  DEF Spec, ImplementsPosixLocks, Promise!Spec, Held
=============================================================================
