-------------------------- MODULE InodeTableProofs --------------------------
(***************************************************************************)
(* Proofs about the inode table of a mount, for any number of nodes,       *)
(* names, callbacks and inode numbers.                                     *)
(***************************************************************************)
EXTENDS InodeTable, FiniteSetTheorems, TLAPS

\* What by_inode, by_node, by_entry and next_inode have to do with each other:
\* numbers given out are below the next one, numbers and nodes correspond, and an
\* entry names a number that is in use.
Relation(byInode, byNode, byEntry, next) ==
    /\ next \in Nat /\ next >= 2
    /\ \A i \in DOMAIN byInode :
          /\ i \in 1 .. next - 1
          /\ "node" \in DOMAIN byInode[i]
          /\ byInode[i].node \in DOMAIN byNode /\ byNode[byInode[i].node] = i
    /\ \A n \in DOMAIN byNode :
          byNode[n] \in DOMAIN byInode /\ byInode[byNode[n]].node = n
    /\ \A e \in DOMAIN byEntry : byEntry[e] \in DOMAIN byInode

\* The inductive invariant, of a value of the table.
Agree(tab) ==
    /\ DOMAIN tab = {"byInode", "byNode", "byEntry", "lookups", "next"}
    /\ Relation(tab.byInode, tab.byNode, tab.byEntry, tab.next)

-----------------------------------------------------------------------------
\* A node that has a number gets an entry.
LEMMA EntryAdded ==
    ASSUME NEW g, NEW h, NEW f, NEW next, Relation(g, h, f, next), NEW n \in DOMAIN h, NEW e
    PROVE  Relation(g, h, With(f, e, h[n]), next)
BY Zenon DEF Relation, With

\* A new node gets the next number.
LEMMA NodeAdded ==
    ASSUME NEW g, NEW h, NEW f, NEW next, Relation(g, h, f, next), NEW n, n \notin DOMAIN h,
           NEW e, NEW p
    PROVE  Relation(With(g, next, [node |-> n, parent |-> p]), With(h, n, next),
                    With(f, e, next), next + 1)
<1> DEFINE g2 == With(g, next, [node |-> n, parent |-> p])
           h2 == With(h, n, next)
           f2 == With(f, e, next)
<1>1. /\ DOMAIN g2 = DOMAIN g \cup {next}
      /\ g2[next].node = n /\ "node" \in DOMAIN g2[next]
      /\ \A i \in DOMAIN g : i # next => g2[i] = g[i]
  BY Zenon DEF With
<1>2. DOMAIN h2 = DOMAIN h \cup {n} /\ h2[n] = next /\ \A m \in DOMAIN h : m # n => h2[m] = h[m]
  BY Zenon DEF With
<1>3. DOMAIN f2 = DOMAIN f \cup {e} /\ f2[e] = next /\ \A x \in DOMAIN f : x # e => f2[x] = f[x]
  BY Zenon DEF With
<1>4. next \notin DOMAIN g
  BY DEF Relation
<1> HIDE DEF g2, h2, f2
<1>5. next + 1 \in Nat /\ next + 1 >= 2
  BY DEF Relation
<1>6. \A i \in DOMAIN g2 : i \in 1 .. (next + 1) - 1
  BY <1>1 DEF Relation
<1>7. ASSUME NEW i \in DOMAIN g2
      PROVE  "node" \in DOMAIN g2[i] /\ g2[i].node \in DOMAIN h2 /\ h2[g2[i].node] = i
  <2>1. CASE i = next
    BY <2>1, <1>1, <1>2, Zenon
  <2>2. CASE i # next
    BY <2>2, <1>1, <1>2 DEF Relation
  <2> QED BY <2>1, <2>2, Zenon
<1>8. ASSUME NEW m \in DOMAIN h2 PROVE h2[m] \in DOMAIN g2 /\ g2[h2[m]].node = m
  <2>1. CASE m = n
    BY <2>1, <1>1, <1>2, Zenon
  <2>2. CASE m # n
    BY <2>2, <1>1, <1>2, <1>4 DEF Relation
  <2> QED BY <2>1, <2>2, Zenon
<1>9. \A x \in DOMAIN f2 : f2[x] \in DOMAIN g2
  BY <1>1, <1>3, Zenon DEF Relation
<1>10. Relation(g2, h2, f2, next + 1)
  BY <1>5, <1>6, <1>7, <1>8, <1>9, Zenon DEF Relation
<1> QED BY <1>10, Zenon DEF g2, h2, f2

\* remember_entry.
LEMMA RememberedAgrees ==
    ASSUME NEW tab, Agree(tab), NEW n, NEW p, NEW name
    PROVE  Agree(Remembered(tab, n, p, name))
<1> DEFINE new == Remembered(tab, n, p, name)
<1>1. CASE n \in DOMAIN tab.byNode
  <2>1. /\ DOMAIN new = DOMAIN tab
        /\ new.byEntry = With(tab.byEntry, << p, name >>, tab.byNode[n])
        /\ new.byInode = tab.byInode /\ new.byNode = tab.byNode /\ new.next = tab.next
    BY <1>1, Zenon DEF Agree, Remembered
  <2> HIDE DEF new
  <2>2. Agree(new)
    BY <1>1, <2>1, EntryAdded, Zenon DEF Agree
  <2> QED BY <2>2, Zenon DEF new
<1>2. CASE n \notin DOMAIN tab.byNode
  <2>1. /\ DOMAIN new = DOMAIN tab
        /\ new.byEntry = With(tab.byEntry, << p, name >>, tab.next)
        /\ new.byInode = With(tab.byInode, tab.next, [node |-> n, parent |-> p])
        /\ new.byNode = With(tab.byNode, n, tab.next) /\ new.next = tab.next + 1
    BY <1>2, Zenon DEF Agree, Remembered
  <2> HIDE DEF new
  <2>2. Agree(new)
    BY <1>2, <2>1, NodeAdded, Zenon DEF Agree
  <2> QED BY <2>2, Zenon DEF new
<1> QED BY <1>1, <1>2, Zenon

\* reconcile_directory_entries and forget_entry only remove entries.
LEMMA EntriesRemoved ==
    ASSUME NEW tab, Agree(tab), NEW S \in SUBSET DOMAIN tab.byEntry
    PROVE  Agree([tab EXCEPT !.byEntry = [e \in S |-> tab.byEntry[e]]])
<1> DEFINE new == [tab EXCEPT !.byEntry = [e \in S |-> tab.byEntry[e]]]
<1>1. /\ DOMAIN new = DOMAIN tab
      /\ new.byEntry = [e \in S |-> tab.byEntry[e]]
      /\ new.byInode = tab.byInode /\ new.byNode = tab.byNode /\ new.next = tab.next
  BY Zenon DEF Agree
<1>2. /\ \A e \in DOMAIN new.byEntry : new.byEntry[e] \in DOMAIN new.byInode
  BY <1>1, Zenon DEF Agree, Relation
<1> HIDE DEF new
<1>3. Agree(new)
  BY <1>1, <1>2, Zenon DEF Agree, Relation
<1> QED BY <1>3, Zenon DEF new

\* add_lookup, and an eviction that only lowers the count.
LEMMA LookupsChanged ==
    ASSUME NEW tab, Agree(tab), NEW counts
    PROVE  Agree([tab EXCEPT !.lookups = counts])
<1> DEFINE new == [tab EXCEPT !.lookups = counts]
<1>1. /\ DOMAIN new = DOMAIN tab /\ new.byEntry = tab.byEntry
      /\ new.byInode = tab.byInode /\ new.byNode = tab.byNode /\ new.next = tab.next
  BY Zenon DEF Agree
<1> HIDE DEF new
<1>2. Agree(new)
  BY <1>1, Zenon DEF Agree
<1> QED BY <1>2, Zenon DEF new

\* evict_inode: a number goes with its node and its entries.
LEMMA DroppedAgrees ==
    ASSUME Agree(table), NEW i
    PROVE  Agree(Dropped(i, TRUE))
<1> DEFINE new == Dropped(i, TRUE)
           g == table.byInode
           h == table.byNode
           f == table.byEntry
           gone == {g[j].node : j \in DOMAIN g \cap {i}}
<1>1. /\ DOMAIN new = DOMAIN table /\ new.next = table.next
      /\ new.byInode = [j \in DOMAIN g \ {i} |-> g[j]]
      /\ new.byNode = [n \in DOMAIN h \ gone |-> h[n]]
      /\ new.byEntry = [e \in {e \in DOMAIN f : f[e] # i} |-> f[e]]
  BY Zenon DEF Agree, Dropped, Restrict
<1>2. \A n \in DOMAIN h : n \in gone <=> h[n] = i
  BY DEF Agree, Relation
<1> HIDE DEF new, gone
<1>3. Relation(new.byInode, new.byNode, new.byEntry, new.next)
  <2>1. \A j \in DOMAIN new.byInode :
           /\ j \in 1 .. new.next - 1 /\ "node" \in DOMAIN new.byInode[j]
           /\ new.byInode[j].node \in DOMAIN new.byNode /\ new.byNode[new.byInode[j].node] = j
    BY <1>1, <1>2 DEF Agree, Relation
  <2>2. \A n \in DOMAIN new.byNode :
           new.byNode[n] \in DOMAIN new.byInode /\ new.byInode[new.byNode[n]].node = n
    BY <1>1, <1>2 DEF Agree, Relation
  <2>3. \A e \in DOMAIN new.byEntry : new.byEntry[e] \in DOMAIN new.byInode
    BY <1>1, Zenon DEF Agree, Relation
  <2> QED BY <1>1, <2>1, <2>2, <2>3, Zenon DEF Agree, Relation
<1>4. Agree(new)
  BY <1>1, <1>3, Zenon DEF Agree
<1> QED BY <1>4, Zenon DEF new

LEMMA EvictedAgrees ==
    ASSUME Agree(table), NEW i, NEW amount, NEW inUse
    PROVE  Agree(Evicted(i, amount, inUse))
<1>1. Agree(Reduced(i, amount))
  BY LookupsChanged, Zenon DEF Reduced
<1> QED BY <1>1, DroppedAgrees, Zenon DEF Evicted

\* move_entry: the entries change places, the numbers only their parents.
LEMMA MovedAgrees ==
    ASSUME Agree(table), NEW p, NEW name, NEW q, NEW other, NEW exchange
    PROVE  Agree(Moved(p, name, q, other, exchange))
<1> DEFINE new == Moved(p, name, q, other, exchange)
           g == table.byInode
           f == table.byEntry
           src == << p, name >>
           dst == << q, other >>
           rest == [e \in DOMAIN f \ {src, dst} |-> f[e]]
           back == IF exchange /\ dst \in DOMAIN f /\ dst # src
                   THEN With(rest, src, f[dst]) ELSE rest
           forth == IF src \in DOMAIN f THEN With(back, dst, f[src]) ELSE back
           parents == [i \in DOMAIN g |->
                         CASE src \in DOMAIN f /\ i = f[src] -> [g[i] EXCEPT !.parent = q]
                           [] exchange /\ dst \in DOMAIN f /\ i = f[dst] ->
                                [g[i] EXCEPT !.parent = p]
                           [] OTHER -> g[i]]
<1>1. /\ DOMAIN new = DOMAIN table /\ new.next = table.next /\ new.byNode = table.byNode
      /\ new.byEntry = forth /\ new.byInode = parents
  BY Zenon DEF Agree, Moved, Restrict
<1>2. /\ DOMAIN parents = DOMAIN g
      /\ \A i \in DOMAIN g : "node" \in DOMAIN parents[i] /\ parents[i].node = g[i].node
  BY Zenon DEF Agree, Relation
<1>3. \A e \in DOMAIN rest : rest[e] \in DOMAIN g
  BY Zenon DEF Agree, Relation
<1> HIDE DEF rest
<1>4. \A e \in DOMAIN back : back[e] \in DOMAIN g
  BY <1>3, Zenon DEF With, Agree, Relation
<1> HIDE DEF back
<1>5. \A e \in DOMAIN forth : forth[e] \in DOMAIN g
  BY <1>4, Zenon DEF With, Agree, Relation
<1> HIDE DEF new, forth, parents
<1>6. Relation(new.byInode, new.byNode, new.byEntry, new.next)
  BY <1>1, <1>2, <1>5 DEF Agree, Relation
<1>7. Agree(new)
  BY <1>1, <1>6, Zenon DEF Agree
<1> QED BY <1>7, Zenon DEF new

-----------------------------------------------------------------------------
\* Every callback and every task changes the table only through its operations.
LEMMA AgreeStep ==
    ASSUME Agree(table), [Next]_vars PROVE Agree(table')
<1>1. ASSUME NEW t, Call(t) PROVE table' = table
  <2>1. ASSUME NEW p, NEW name, NEW op, List(t, op, p, name) \/ LookupEntry(t, p, name)
        PROVE  table' = table
    BY <2>1, Zenon DEF List, LookupEntry
  <2>2. ASSUME NEW p, NEW name, NEW n, Create(t, p, name, n) \/ Unlink(t, p, name)
        PROVE  table' = table
    BY <2>2, Zenon DEF Create, Unlink
  <2>3. ASSUME NEW i, NEW p, NEW name, Link(t, i, p, name) PROVE table' = table
    BY <2>3, Zenon DEF Link
  <2>4. ASSUME NEW p, NEW name, NEW q, NEW other, NEW exchange,
               Rename(t, p, name, q, other, exchange)
        PROVE  table' = table
    BY <2>4, Zenon DEF Rename
  <2>5. ASSUME NEW i, NEW amount, OpenStart(t, i) \/ Forget(t, i, amount) PROVE table' = table
    BY <2>5, Zenon DEF OpenStart, Forget
  <2> QED BY <1>1, <2>1, <2>2, <2>3, <2>4, <2>5, Zenon DEF Call
<1>2. ASSUME NEW t, Step(t) PROVE Agree(table')
  <2>1. CASE FetchMetadata(t) \/ OpenDirectory(t) \/ OpenEnd(t) \/ TakeHandle(t) \/ Fail(t)
             \/ CheckUse(t)
    BY <2>1, Zenon DEF FetchMetadata, OpenDirectory, OpenEnd, TakeHandle, Fail, CheckUse
  <2>2. CASE Reconcile(t)
    BY <2>2, EntriesRemoved, Zenon DEF Reconcile, Reconciled, Restrict
  <2>3. CASE RememberEntry(t)
    BY <2>3, RememberedAgrees, Zenon DEF RememberEntry
  <2>4. CASE Select(t)
    <3>1. table' = table \/ \E n, p, name : table' = Remembered(table, n, p, name)
      BY <2>4, Zenon DEF Select
    <3> QED BY <3>1, RememberedAgrees, Zenon
  <2>5. CASE CountLookup(t)
    BY <2>5, LookupsChanged, Zenon DEF CountLookup, Counted
  <2>6. CASE NameCreated(t)
    BY <2>6, RememberedAgrees, Zenon DEF NameCreated
  <2>7. CASE ForgetEntry(t)
    BY <2>7, EntriesRemoved, Zenon DEF ForgetEntry, EntryForgotten, Restrict
  <2>8. CASE MoveEntry(t)
    BY <2>8, MovedAgrees, Zenon DEF MoveEntry
  <2>9. CASE Evict(t)
    BY <2>9, EvictedAgrees, Zenon DEF Evict
  <2> QED BY <1>2, <2>1, <2>2, <2>3, <2>4, <2>5, <2>6, <2>7, <2>8, <2>9, Zenon DEF Step
<1>3. ASSUME NEW d, NEW name, NEW n, ExportChanges(d, name, n) PROVE table' = table
  BY <1>3, Zenon DEF ExportChanges
<1>4. ASSUME NEW d, ReleaseDirectory(d) PROVE table' = table
  BY <1>4, Zenon DEF ReleaseDirectory
<1>5. ASSUME NEW t, NEW x, Retire(t, x) \/ Release(t, x) PROVE table' = table
  BY <1>5, Zenon DEF Retire, Release
<1>6. CASE UNCHANGED vars
  BY <1>6, Zenon DEF vars
<1> QED BY <1>1, <1>2, <1>3, <1>4, <1>5, <1>6, Zenon DEF Next

\* InodeTable::new knows the root.
LEMMA AgreeAtFirst ==
    ASSUME table = [byInode |-> [i \in {Root} |-> [node |-> Root, parent |-> Root]],
                    byNode |-> [n \in {Root} |-> Root], byEntry |-> << >>, lookups |-> << >>, next |-> 2]
    PROVE  Agree(table)
BY DEF Agree, Relation, Root

\* by_inode, by_node and by_entry describe one relation after any interleaving of
\* lookups, listings, creations, renames, exchanges, removals, forgets and evictions:
\* an entry never names a number that was evicted.
THEOREM MapsAgree == Spec => []TablesAgree
<1>1. Init => Agree(table)
  BY AgreeAtFirst, Zenon DEF Init
<1>2. Agree(table) /\ [Next]_vars => Agree(table)'
  BY AgreeStep, Zenon
<1>3. Agree(table) => TablesAgree
  <2> SUFFICES ASSUME Agree(table) PROVE TablesAgree
    BY Zenon
  <2>1. DOMAIN table.byNode = {table.byInode[i].node : i \in DOMAIN table.byInode}
    BY DEF Agree, Relation
  <2> QED BY <2>1, Zenon DEF Agree, Relation, TablesAgree
<1> QED BY <1>1, <1>2, <1>3, PTL DEF Spec

-----------------------------------------------------------------------------
(***************************************************************************)
(* Counting: the references on their way back, and the handles on their    *)
(* way out, when one task changes.                                         *)
(***************************************************************************)

Amounts(ts, P) == UNION {{u} \X (1 .. ts[u].amount) : u \in P}
Wants(ts, i) == {u \in Tasks : Forgets(ts[u], i)}

\* What one task has yet to give back.
Own(task, i) == IF Forgets(task, i) THEN task.amount ELSE 0

LEMMA UnitsCount ==
    ASSUME NEW x, NEW n \in Nat
    PROVE  IsFiniteSet({x} \X (1 .. n)) /\ Cardinality({x} \X (1 .. n)) = n
<1>1. IsFiniteSet({x}) /\ Cardinality({x}) = 1
  BY FS_Singleton, Zenon
<1>2. 1 \in Int /\ n \in Int
  OBVIOUS
<1>3. IsFiniteSet(1 .. n) /\ Cardinality(1 .. n) = IF 1 > n THEN 0 ELSE n - 1 + 1
  BY <1>2, FS_Interval, Zenon
<1>4. Cardinality(1 .. n) = n
  BY <1>3
<1>5. /\ IsFiniteSet({x} \X (1 .. n))
      /\ Cardinality({x} \X (1 .. n)) = Cardinality({x}) * Cardinality(1 .. n)
  BY <1>1, <1>3, FS_Product, Zenon
<1> QED BY <1>1, <1>4, <1>5

LEMMA AmountsFinite ==
    ASSUME NEW ts, NEW P, IsFiniteSet(P), \A u \in P : ts[u].amount \in Nat
    PROVE  IsFiniteSet(Amounts(ts, P))
<1> DEFINE U(u) == {u} \X (1 .. ts[u].amount)
           S == {U(u) : u \in P}
           f == [u \in P |-> U(u)]
<1>1. ASSUME NEW u \in P PROVE IsFiniteSet(U(u))
  BY UnitsCount, Zenon
<1>2. f \in Surjection(P, S)
  BY Zenon DEF Surjection
<1> HIDE DEF f
<1>3. IsFiniteSet(S)
  BY <1>2, FS_Surjection, Zenon
<1>4. IsFiniteSet(UNION S)
  BY <1>1, <1>3, FS_UNION, Zenon
<1> QED BY <1>4, Zenon DEF Amounts

LEMMA AmountsSplit ==
    ASSUME NEW ts, NEW P, IsFiniteSet(P), \A u \in P : ts[u].amount \in Nat, NEW t \in P
    PROVE  /\ Cardinality(Amounts(ts, P)) = Cardinality(Amounts(ts, P \ {t})) + ts[t].amount
           /\ Cardinality(Amounts(ts, P \ {t})) \in Nat
<1> DEFINE A == Amounts(ts, P \ {t})
           B == {t} \X (1 .. ts[t].amount)
<1>1. Amounts(ts, P) = A \cup B
  BY Zenon DEF Amounts
<1>2. A \cap B = {}
  BY DEF Amounts
<1>3. IsFiniteSet(P \ {t})
  BY FS_RemoveElement, Zenon
<1>4. IsFiniteSet(A)
  BY <1>3, AmountsFinite, Zenon
<1>5. IsFiniteSet(B) /\ Cardinality(B) = ts[t].amount
  BY UnitsCount, Zenon
<1> HIDE DEF A, B
<1>6. Cardinality(A \cup B) = Cardinality(A) + Cardinality(B) - Cardinality(A \cap B)
  BY <1>4, <1>5, FS_Union, Zenon
<1>7. Cardinality(A \cap B) = 0
  BY <1>2, FS_EmptySet, Zenon
<1>8. Cardinality(A) \in Nat
  BY <1>4, FS_CardinalityType, Zenon
<1> QED BY <1>1, <1>5, <1>6, <1>7, <1>8, SMTT(30) DEF A

\* The references on their way back are those of one task and those of the rest.
LEMMA WantsSplit ==
    ASSUME IsFiniteSet(Tasks), NEW ts, \A u \in Tasks : ts[u].amount \in Nat,
           NEW t \in Tasks, NEW i
    PROVE  /\ Cardinality(Amounts(ts, Wants(ts, i))) =
                 Cardinality(Amounts(ts, Wants(ts, i) \ {t})) + Own(ts[t], i)
           /\ Cardinality(Amounts(ts, Wants(ts, i) \ {t})) \in Nat
<1> DEFINE P == Wants(ts, i)
<1>1. P \in SUBSET Tasks /\ (t \in P <=> Forgets(ts[t], i))
  BY Zenon DEF Wants
<1>2. IsFiniteSet(P) /\ \A u \in P : ts[u].amount \in Nat
  BY <1>1, FS_Subset, Zenon
<1> HIDE DEF P
<1>3. CASE t \in P
  BY <1>1, <1>2, <1>3, AmountsSplit, Zenon DEF P, Own
<1>4. CASE t \notin P
  <2>1. P \ {t} = P
    BY <1>4, Zenon
  <2>2. IsFiniteSet(Amounts(ts, P))
    BY <1>2, AmountsFinite, Zenon
  <2>3. Cardinality(Amounts(ts, P)) \in Nat
    BY <2>2, FS_CardinalityType, Zenon
  <2> QED BY <1>1, <1>4, <2>1, <2>3 DEF P, Own
<1> QED BY <1>3, <1>4, Zenon

\* One task changes.
LEMMA ForgettingMoves ==
    ASSUME IsFiniteSet(Tasks), tasks = [u \in Tasks |-> tasks[u]],
           \A u \in Tasks : tasks[u].amount \in Nat,
           NEW t \in Tasks, NEW r, r.amount \in Nat, tasks' = [tasks EXCEPT ![t] = r], NEW i
    PROVE  \E rest \in Nat : /\ Forgetting(i) = rest + Own(tasks[t], i)
                             /\ Forgetting(i)' = rest + Own(r, i)
<1>1. /\ tasks'[t] = r /\ \A u \in Tasks \ {t} : tasks'[u] = tasks[u]
      /\ \A u \in Tasks : tasks'[u].amount \in Nat
  BY Zenon
<1>2. Forgetting(i) = Cardinality(Amounts(tasks, Wants(tasks, i)))
  BY Zenon DEF Forgetting, Amounts, Wants, Units
<1>3. Forgetting(i)' = Cardinality(Amounts(tasks', Wants(tasks', i)))
  BY Zenon DEF Forgetting, Amounts, Wants, Units, Forgets
<1>4. Wants(tasks, i) \ {t} = Wants(tasks', i) \ {t}
  BY <1>1, Zenon DEF Wants
<1>5. Amounts(tasks, Wants(tasks, i) \ {t}) = Amounts(tasks', Wants(tasks', i) \ {t})
  <2> DEFINE Q == Wants(tasks, i) \ {t}
  <2>1. \A u \in Q : tasks'[u] = tasks[u]
    BY <1>1, Zenon DEF Wants
  <2> HIDE DEF Q
  <2>2. Amounts(tasks, Q) = Amounts(tasks', Q)
    BY <2>1, Zenon DEF Amounts
  <2> QED BY <1>4, <2>2, Zenon DEF Q
<1> DEFINE ts == tasks'
           rest == Cardinality(Amounts(tasks, Wants(tasks, i) \ {t}))
<1>6. Cardinality(Amounts(tasks, Wants(tasks, i))) = rest + Own(tasks[t], i) /\ rest \in Nat
  BY WantsSplit, Zenon
<1>7. Cardinality(Amounts(ts, Wants(ts, i))) =
         Cardinality(Amounts(ts, Wants(ts, i) \ {t})) + Own(ts[t], i)
  <2>1. \A u \in Tasks : ts[u].amount \in Nat
    BY <1>1, Zenon
  <2> HIDE DEF ts
  <2> QED BY <2>1, WantsSplit, Zenon
<1> HIDE DEF rest
<1>8. Forgetting(i) = rest + Own(tasks[t], i) /\ Forgetting(i)' = rest + Own(r, i)
  BY <1>1, <1>2, <1>3, <1>5, <1>6, <1>7, Zenon DEF rest
<1> QED BY <1>6, <1>8, Zenon

\* Whether a task is on its way to drop a handle of the inode.
Drops(task, i) == task.pc = "release" /\ task.inode = i

LEMMA ReleasingMoves ==
    ASSUME IsFiniteSet(Tasks), tasks = [u \in Tasks |-> tasks[u]],
           NEW t \in Tasks, NEW r, tasks' = [tasks EXCEPT ![t] = r], NEW i
    PROVE  \E rest \in Nat :
             /\ Cardinality(Releasing(i)) = rest + (IF Drops(tasks[t], i) THEN 1 ELSE 0)
             /\ Cardinality(Releasing(i)') = rest + (IF Drops(r, i) THEN 1 ELSE 0)
<1> DEFINE P == {u \in Tasks \ {t} : Drops(tasks[u], i)}
<1>1. IsFiniteSet(P) /\ Cardinality(P) \in Nat /\ t \notin P
  <2>1. P \in SUBSET Tasks
    BY Zenon
  <2>2. IsFiniteSet(P)
    BY <2>1, FS_Subset, Zenon
  <2> QED BY <2>2, FS_CardinalityType, Zenon
<1>2. Releasing(i) = IF Drops(tasks[t], i) THEN P \cup {t} ELSE P
  BY Zenon DEF Releasing, Drops
<1>3. Releasing(i)' = IF Drops(r, i) THEN P \cup {t} ELSE P
  BY Zenon DEF Releasing, Drops
<1> HIDE DEF P
<1>4. Cardinality(P \cup {t}) = Cardinality(P) + 1
  BY <1>1, FS_AddElement, Zenon
<1>5. /\ Cardinality(Releasing(i)) = Cardinality(P) + (IF Drops(tasks[t], i) THEN 1 ELSE 0)
      /\ Cardinality(Releasing(i)') = Cardinality(P) + (IF Drops(r, i) THEN 1 ELSE 0)
  BY <1>1, <1>2, <1>3, <1>4
<1> QED BY <1>1, <1>5, Zenon

-----------------------------------------------------------------------------
(***************************************************************************)
(* The shape of the state                                                  *)
(***************************************************************************)

\* The values of the table.
TableOK(tab) ==
    /\ Agree(tab)
    /\ tab.next <= MaxInodes + 1
    /\ \A i \in DOMAIN tab.byInode :
          /\ tab.byInode[i].node \in {Root} \cup Nodes
          /\ "parent" \in DOMAIN tab.byInode[i] /\ tab.byInode[i].parent \in Inodes
    /\ \A i \in DOMAIN tab.lookups : tab.lookups[i] \in Nat

\* The lookup count of a number, zero when there is none.
CountIn(lookups, i) == IF i \in DOMAIN lookups THEN lookups[i] ELSE 0

LEMMA NumbersAreInodes ==
    ASSUME InodeConstants, NEW tab, TableOK(tab)
    PROVE  /\ DOMAIN tab.byInode \subseteq Inodes
           /\ \A n \in DOMAIN tab.byNode : tab.byNode[n] \in Inodes
           /\ \A e \in DOMAIN tab.byEntry : tab.byEntry[e] \in Inodes
<1>1. \A i : i \in 1 .. tab.next - 1 => i \in Inodes
  BY DEF TableOK, Agree, Relation, Inodes, InodeConstants
<1> QED BY <1>1, Zenon DEF TableOK, Agree, Relation

\* remember_entry.
LEMMA RememberedOK ==
    ASSUME InodeConstants, NEW tab, TableOK(tab), NEW n \in Nodes, NEW p \in Inodes, NEW name,
           Remembered(tab, n, p, name).next <= MaxInodes + 1
    PROVE  /\ TableOK(Remembered(tab, n, p, name))
           /\ Remembered(tab, n, p, name).lookups = tab.lookups
           /\ Remembered(tab, n, p, name).byNode[n] \in Inodes
<1> DEFINE new == Remembered(tab, n, p, name)
<1>1. Agree(new)
  BY RememberedAgrees, Zenon DEF TableOK
<1>2. CASE n \in DOMAIN tab.byNode
  <2>1. /\ new.byInode = tab.byInode /\ new.byNode = tab.byNode /\ new.next = tab.next
        /\ new.lookups = tab.lookups
    BY <1>2, Zenon DEF TableOK, Agree, Remembered
  <2> HIDE DEF new
  <2>2. TableOK(new)
    BY <1>1, <2>1, Zenon DEF TableOK
  <2>3. new.byNode[n] \in Inodes
    BY <1>2, <2>1, <2>2, NumbersAreInodes, Zenon
  <2> QED BY <2>1, <2>2, <2>3, Zenon DEF new
<1>3. CASE n \notin DOMAIN tab.byNode
  <2>1. /\ new.byInode = With(tab.byInode, tab.next, [node |-> n, parent |-> p])
        /\ new.byNode = With(tab.byNode, n, tab.next) /\ new.lookups = tab.lookups
        /\ new.next <= MaxInodes + 1
    BY <1>3, Zenon DEF TableOK, Agree, Remembered
  <2> HIDE DEF new
  <2>2. /\ DOMAIN new.byInode = DOMAIN tab.byInode \cup {tab.next}
        /\ new.byInode[tab.next] = [node |-> n, parent |-> p]
        /\ \A i \in DOMAIN tab.byInode \ {tab.next} : new.byInode[i] = tab.byInode[i]
        /\ n \in DOMAIN new.byNode
    BY <2>1, Zenon DEF With
  <2>3. \A i \in DOMAIN new.byInode :
          /\ new.byInode[i].node \in {Root} \cup Nodes
          /\ "parent" \in DOMAIN new.byInode[i] /\ new.byInode[i].parent \in Inodes
    BY <2>2 DEF TableOK
  <2>4. TableOK(new)
    BY <1>1, <2>1, <2>3, Zenon DEF TableOK
  <2>5. new.byNode[n] \in Inodes
    BY <2>2, <2>4, NumbersAreInodes, Zenon
  <2> QED BY <2>1, <2>4, <2>5, Zenon DEF new
<1> QED BY <1>2, <1>3, Zenon

\* reconcile_directory_entries and forget_entry.
LEMMA EntriesRemovedOK ==
    ASSUME NEW tab, TableOK(tab), NEW S \in SUBSET DOMAIN tab.byEntry
    PROVE  /\ TableOK([tab EXCEPT !.byEntry = [e \in S |-> tab.byEntry[e]]])
           /\ [tab EXCEPT !.byEntry = [e \in S |-> tab.byEntry[e]]].lookups = tab.lookups
<1> DEFINE new == [tab EXCEPT !.byEntry = [e \in S |-> tab.byEntry[e]]]
<1>1. Agree(new)
  BY EntriesRemoved, Zenon DEF TableOK
<1>2. new.byInode = tab.byInode /\ new.next = tab.next /\ new.lookups = tab.lookups
  BY Zenon DEF TableOK, Agree
<1> HIDE DEF new
<1>3. TableOK(new)
  BY <1>1, <1>2, Zenon DEF TableOK
<1> QED BY <1>2, <1>3, Zenon DEF new

\* add_lookup, and an eviction that only lowers the count.
SetCount(tab, i, k) == [tab EXCEPT !.lookups = With(tab.lookups, i, k)]

LEMMA LookupsChangedOK ==
    ASSUME NEW tab, TableOK(tab), NEW i, NEW k \in Nat
    PROVE  /\ TableOK(SetCount(tab, i, k))
           /\ \A j : CountIn(SetCount(tab, i, k).lookups, j) =
                        IF j = i THEN k ELSE CountIn(tab.lookups, j)
<1> DEFINE new == SetCount(tab, i, k)
<1>1. Agree(new)
  BY LookupsChanged, Zenon DEF TableOK, SetCount
<1>2. /\ new.byInode = tab.byInode /\ new.next = tab.next
      /\ new.lookups = With(tab.lookups, i, k)
  BY Zenon DEF TableOK, Agree, SetCount
<1> HIDE DEF new
<1>3. /\ DOMAIN new.lookups = DOMAIN tab.lookups \cup {i} /\ new.lookups[i] = k
      /\ \A j \in DOMAIN tab.lookups \ {i} : new.lookups[j] = tab.lookups[j]
  BY <1>2, Zenon DEF With
<1>4. TableOK(new)
  BY <1>1, <1>2, <1>3, Zenon DEF TableOK
<1>5. \A j : CountIn(new.lookups, j) = IF j = i THEN k ELSE CountIn(tab.lookups, j)
  BY <1>3, Zenon DEF CountIn
<1> QED BY <1>4, <1>5, Zenon DEF new

LEMMA CountIsNat == ASSUME TableOK(table), NEW i PROVE Count(i) \in Nat /\ Count(i) = CountIn(table.lookups, i)
BY Zenon DEF TableOK, Count, CountIn

\* evict_inode takes the amount off the count, and no count of another number changes.
LEMMA EvictedOK ==
    ASSUME TableOK(table), NEW i, NEW amount \in Nat, NEW inUse, Count(i) >= amount
    PROVE  /\ TableOK(Evicted(i, amount, inUse))
           /\ \A j : j # Root => CountIn(Evicted(i, amount, inUse).lookups, j) =
                        IF j = i THEN Count(i) - amount ELSE Count(j)
<1>0. \A j : Count(j) \in Nat /\ Count(j) = CountIn(table.lookups, j)
  BY CountIsNat, Zenon
<1>1. CASE i = Root
  BY <1>0, <1>1, Zenon DEF Evicted
<1>2. CASE i # Root /\ (Count(i) > amount \/ inUse)
  <2> DEFINE k == IF Count(i) > amount THEN Count(i) - amount ELSE 0
  <2>1. k \in Nat /\ k = Count(i) - amount
    BY <1>0
  <2> HIDE DEF k
  <2>2. Evicted(i, amount, inUse) = SetCount(table, i, k)
    BY <1>2, Zenon DEF Evicted, Reduced, SetCount, k
  <2>3. /\ TableOK(SetCount(table, i, k))
        /\ \A j : CountIn(SetCount(table, i, k).lookups, j) =
                     IF j = i THEN k ELSE CountIn(table.lookups, j)
    BY <2>1, LookupsChangedOK
  <2> QED BY <1>0, <2>1, <2>2, <2>3, Zenon
<1>3. CASE i # Root /\ ~(Count(i) > amount \/ inUse)
  <2> DEFINE new == Dropped(i, TRUE)
  <2>1. Agree(new) /\ Evicted(i, amount, inUse) = new
    BY <1>3, DroppedAgrees, Zenon DEF TableOK, Evicted
  <2>2. /\ new.next = table.next
        /\ new.byInode = [j \in DOMAIN table.byInode \ {i} |-> table.byInode[j]]
        /\ new.lookups = [j \in DOMAIN table.lookups \ {i} |-> table.lookups[j]]
    BY Zenon DEF TableOK, Agree, Dropped, Restrict
  <2> HIDE DEF new
  <2>3. TableOK(new)
    BY <2>1, <2>2, Zenon DEF TableOK
  <2>4. \A j : CountIn(new.lookups, j) = IF j = i THEN 0 ELSE CountIn(table.lookups, j)
    BY <2>2, Zenon DEF CountIn
  <2>5. Count(i) - amount = 0
    BY <1>0, <1>3
  <2> QED BY <1>0, <2>1, <2>3, <2>4, <2>5, Zenon
<1> QED BY <1>1, <1>2, <1>3, Zenon

\* move_entry.
LEMMA MovedOK ==
    ASSUME TableOK(table), NEW p \in Inodes, NEW name, NEW q \in Inodes, NEW other, NEW exchange
    PROVE  /\ TableOK(Moved(p, name, q, other, exchange))
           /\ Moved(p, name, q, other, exchange).lookups = table.lookups
<1> DEFINE new == Moved(p, name, q, other, exchange)
           g == table.byInode
           f == table.byEntry
           src == << p, name >>
           dst == << q, other >>
           parents == [i \in DOMAIN g |->
                         CASE src \in DOMAIN f /\ i = f[src] -> [g[i] EXCEPT !.parent = q]
                           [] exchange /\ dst \in DOMAIN f /\ i = f[dst] ->
                                [g[i] EXCEPT !.parent = p]
                           [] OTHER -> g[i]]
<1>1. Agree(new)
  BY MovedAgrees, Zenon DEF TableOK
<1>2. new.next = table.next /\ new.byInode = parents /\ new.lookups = table.lookups
  BY Zenon DEF TableOK, Agree, Moved
<1>3. ASSUME NEW i \in DOMAIN g
      PROVE  /\ parents[i].node \in {Root} \cup Nodes
             /\ "parent" \in DOMAIN parents[i] /\ parents[i].parent \in Inodes
  <2>1. /\ g[i].node \in {Root} \cup Nodes /\ "node" \in DOMAIN g[i]
        /\ "parent" \in DOMAIN g[i] /\ g[i].parent \in Inodes
    BY Zenon DEF TableOK, Agree, Relation
  <2>2. \/ parents[i] = [g[i] EXCEPT !.parent = q]
        \/ parents[i] = [g[i] EXCEPT !.parent = p]
        \/ parents[i] = g[i]
    OBVIOUS
  <2> HIDE DEF parents
  <2> QED BY <2>1, <2>2, Zenon
<1> HIDE DEF parents
<1>4. DOMAIN parents = DOMAIN g
  BY Zenon DEF parents
<1> HIDE DEF new
<1>5. TableOK(new)
  BY <1>1, <1>2, <1>3, <1>4, Zenon DEF TableOK
<1> QED BY <1>2, <1>5, Zenon DEF new

\* The fields of a task at each of its steps.
Fields(r) ==
    /\ {"op", "pc", "uses"} \subseteq DOMAIN r
    /\ r.pc \in {"list", "remember"} =>
          {"name", "listing"} \subseteq DOMAIN r /\ r.listing \subseteq Names \X Nodes
    /\ r.pc = "remember" =>
          /\ {"left", "inodes"} \subseteq DOMAIN r
          /\ r.left \subseteq Names \X Nodes /\ r.inodes \subseteq Inodes
    /\ r.pc \in {"list", "remember", "getattr", "count", "open", "release", "name", "unlink", "move"} =>
          "inode" \in DOMAIN r /\ r.inode \in Inodes
    /\ r.pc = "name" => "node" \in DOMAIN r /\ r.node \in Nodes
    /\ r.pc = "move" => "to" \in DOMAIN r /\ r.to \in Inodes
    /\ r.pc \in {"forget", "evict"} => "left" \in DOMAIN r /\ r.left \subseteq Inodes
    /\ r.pc = "evict" => "inode" \in DOMAIN r /\ r.inode \in Inodes \ r.left

\* Only a forget carries an amount.
TaskOK(r) ==
    /\ "amount" \in DOMAIN r /\ r.amount \in Nat
    /\ r.pc \notin {"forget", "evict"} => r.amount = 0
    /\ Fields(r)

\* A callback that starts with all its fields.
LEMMA StartedOK ==
    ASSUME NEW c, Fields(c), "amount" \notin DOMAIN c, c.pc \notin {"forget", "evict", "release"}
    PROVE  /\ TaskOK(Updated(Idle, c))
           /\ Updated(Idle, c).amount = 0 /\ Updated(Idle, c).pc # "release"
<1> DEFINE r == Updated(Idle, c)
<1>0. "amount" \in DOMAIN Idle /\ Idle.amount = 0
  BY Zenon DEF Idle
<1>1. /\ DOMAIN r = DOMAIN Idle \cup DOMAIN c
      /\ \A f \in DOMAIN c : r[f] = c[f] /\ f \in DOMAIN r
  BY Zenon DEF Updated
<1>2. "amount" \in DOMAIN r /\ r.amount = 0
  BY <1>0, Zenon DEF Updated
<1>3. "pc" \in DOMAIN c /\ r.pc = c.pc
  BY <1>1, Zenon DEF Fields
<1> HIDE DEF r
<1>4. Fields(r)
  BY <1>1, <1>3, Zenon DEF Fields
<1> QED BY <1>2, <1>3, <1>4 DEF TaskOK, r

Surroundings ==
    /\ entries \in [Folders \X Names -> Nodes \cup {NoNode}] /\ born \subseteq Nodes
    /\ TableOK(table)
    /\ opened \in [Inodes -> Int] /\ kernel \in [Inodes -> Nat]
    /\ \A d \in opendirs : d.inode \in Inodes /\ d.listed \subseteq Inodes
    /\ retained \subseteq SUBSET Inodes
    /\ calls \in 0 .. MaxCalls

\* The inductive invariant: a handle is dropped by one release.
InodesInv ==
    /\ Surroundings
    /\ tasks = [t \in Tasks |-> tasks[t]] /\ \A t \in Tasks : TaskOK(tasks[t])
    /\ \A i \in Inodes : Cardinality(Releasing(i)) <= opened[i]
    /\ LookupsMatchKernel

\* One task changes, and the counts with it.
LEMMA TaskMoves ==
    ASSUME InodeConstants, InodesInv, NEW t \in Tasks, NEW r,
           tasks' = [tasks EXCEPT ![t] = r], TaskOK(r), Surroundings',
           \A i \in Inodes : Cardinality(Releasing(i)) + (IF Drops(r, i) THEN 1 ELSE 0)
                                <= opened'[i] + (IF Drops(tasks[t], i) THEN 1 ELSE 0),
           \A i \in Inodes \ {Root} :
              CountIn(table'.lookups, i) + kernel[i] + Own(tasks[t], i)
                 = Count(i) + kernel'[i] + Own(r, i)
    PROVE  InodesInv'
<1>0. IsFiniteSet(Tasks) /\ tasks = [u \in Tasks |-> tasks[u]] /\ r.amount \in Nat
      /\ \A u \in Tasks : tasks[u].amount \in Nat
  BY Zenon DEF InodeConstants, InodesInv, TaskOK
<1>1. tasks' = [u \in Tasks |-> tasks'[u]] /\ \A u \in Tasks : TaskOK(tasks'[u])
  BY Zenon DEF InodesInv
<1>2. ASSUME NEW i \in Inodes PROVE Cardinality(Releasing(i)') <= opened'[i]
  <2>1. PICK rest \in Nat :
           /\ Cardinality(Releasing(i)) = rest + (IF Drops(tasks[t], i) THEN 1 ELSE 0)
           /\ Cardinality(Releasing(i)') = rest + (IF Drops(r, i) THEN 1 ELSE 0)
    BY <1>0, ReleasingMoves, Zenon
  <2>2. opened'[i] \in Int
    BY Zenon DEF Surroundings
  <2>3. Cardinality(Releasing(i)) + (IF Drops(r, i) THEN 1 ELSE 0)
           <= opened'[i] + (IF Drops(tasks[t], i) THEN 1 ELSE 0)
    BY Zenon
  <2> QED BY <2>1, <2>2, <2>3
<1>3. ASSUME NEW i \in Inodes \ {Root}
      PROVE  Count(i)' = kernel'[i] + Forgetting(i)'
  <2>1. PICK rest \in Nat : /\ Forgetting(i) = rest + Own(tasks[t], i)
                            /\ Forgetting(i)' = rest + Own(r, i)
    BY <1>0, ForgettingMoves
  <2>2. Count(i) = kernel[i] + Forgetting(i)
    BY Zenon DEF InodesInv, LookupsMatchKernel
  <2>3. Count(i)' = CountIn(table'.lookups, i)
    BY Zenon DEF Count, CountIn
  <2>4. Own(tasks[t], i) \in Nat /\ Own(r, i) \in Nat
    BY <1>0, Zenon DEF Own
  <2>5. kernel[i] \in Nat /\ kernel'[i] \in Nat
    BY Zenon DEF InodesInv, Surroundings
  <2>6. CountIn(table'.lookups, i) \in Nat
    BY Zenon DEF Surroundings, TableOK, CountIn
  <2>7. CountIn(table'.lookups, i) + kernel[i] + Own(tasks[t], i)
           = Count(i) + kernel'[i] + Own(r, i)
    BY Zenon
  <2> QED BY <2>1, <2>2, <2>3, <2>4, <2>5, <2>6, <2>7, SMTT(30)
<1>4. LookupsMatchKernel'
  BY <1>3, Zenon DEF LookupsMatchKernel, Inodes, Root
<1>5. \A i \in Inodes : (Cardinality(Releasing(i)) <= opened[i])'
  BY <1>2, Zenon
<1>6. (tasks = [u \in Tasks |-> tasks[u]] /\ \A u \in Tasks : TaskOK(tasks[u]))'
  BY <1>1, Zenon DEF TaskOK
<1> QED BY <1>4, <1>5, <1>6, Zenon DEF InodesInv, Inodes

LEMMA ReleasingIsNat ==
    ASSUME InodeConstants, NEW i PROVE Cardinality(Releasing(i)) \in Nat
<1>1. Releasing(i) \in SUBSET Tasks
  BY Zenon DEF Releasing
<1>2. IsFiniteSet(Releasing(i))
  BY <1>1, FS_Subset, Zenon DEF InodeConstants
<1> QED BY <1>2, FS_CardinalityType, Zenon

\* A step of a task that neither gives references back nor drops a handle.
LEMMA QuietMoves ==
    ASSUME InodeConstants, InodesInv, NEW t \in Tasks, NEW r,
           tasks' = [tasks EXCEPT ![t] = r], TaskOK(r), Surroundings',
           tasks[t].amount = 0, r.amount = 0, tasks[t].pc # "release", r.pc # "release",
           UNCHANGED << opened, kernel >>, table'.lookups = table.lookups
    PROVE  InodesInv'
<1>1. ASSUME NEW i \in Inodes
      PROVE  Cardinality(Releasing(i)) + (IF Drops(r, i) THEN 1 ELSE 0)
                                <= opened'[i] + (IF Drops(tasks[t], i) THEN 1 ELSE 0)
  <2>1. ~Drops(r, i) /\ ~Drops(tasks[t], i)
    BY Zenon DEF Drops
  <2>2. Cardinality(Releasing(i)) <= opened[i] /\ opened[i] \in Int
    BY Zenon DEF InodesInv, Surroundings
  <2>3. Cardinality(Releasing(i)) \in Nat
    BY ReleasingIsNat, Zenon
  <2> QED BY <2>1, <2>2, <2>3, SMTT(30)
<1>2. ASSUME NEW i \in Inodes \ {Root}
      PROVE  CountIn(table'.lookups, i) + kernel[i] + Own(tasks[t], i)
                 = Count(i) + kernel'[i] + Own(r, i)
  <2>1. Own(tasks[t], i) = 0 /\ Own(r, i) = 0
    BY Zenon DEF Own
  <2>2. CountIn(table'.lookups, i) = Count(i)
    BY Zenon DEF CountIn, Count
  <2> QED BY <2>1, <2>2, Zenon
<1> QED BY <1>1, <1>2, TaskMoves, Zenon

\* Outside the tasks nothing that is counted changes.
LEMMA OutsideMoves ==
    ASSUME InodeConstants, InodesInv, Surroundings', UNCHANGED << table, opened, kernel, tasks >>
    PROVE  InodesInv'
<1>1. LookupsMatchKernel'
  <2>1. ASSUME NEW i PROVE Forgetting(i)' = Forgetting(i) /\ Count(i)' = Count(i)
    BY Zenon DEF Forgetting, Units, Forgets, Count
  <2> QED BY <2>1, Zenon DEF InodesInv, LookupsMatchKernel
<1>2. \A i \in Inodes : (Cardinality(Releasing(i)) <= opened[i])'
  BY Zenon DEF InodesInv, Releasing
<1> QED BY <1>1, <1>2, Zenon DEF InodesInv, TaskOK, Inodes

\* The surroundings of a state are those of its components.
LEMMA TableOKMoves == ASSUME TableOK(table') PROVE TableOK(table)'
BY Zenon DEF TableOK, Agree, Relation, Inodes, Nodes, Root

LEMMA SurroundingsMoved ==
    ASSUME Surroundings, entries' \in [Folders \X Names -> Nodes \cup {NoNode}], born' \subseteq Nodes,
           TableOK(table'), opened' \in [Inodes -> Int], kernel' \in [Inodes -> Nat],
           UNCHANGED << opendirs, retained >>, calls' \in 0 .. MaxCalls
    PROVE  Surroundings'
<1>1. TableOK(table)'
  BY TableOKMoves, Zenon
<1>2. (\A d \in opendirs : d.inode \in Inodes /\ d.listed \subseteq Inodes)'
  BY Zenon DEF Surroundings, Inodes
<1>3. (entries \in [Folders \X Names -> Nodes \cup {NoNode}] /\ born \subseteq Nodes)'
  BY Zenon DEF Folders, Nodes, NoNode, Root
<1>4. (opened \in [Inodes -> Int] /\ kernel \in [Inodes -> Nat])'
  BY Zenon DEF Inodes
<1>5. (retained \subseteq SUBSET Inodes /\ calls \in 0 .. MaxCalls)'
  BY Zenon DEF Surroundings, Inodes
<1> QED BY <1>1, <1>2, <1>3, <1>4, <1>5, Zenon DEF Surroundings

\* A step of a task leaves the export and the directory handles alone.
LEMMA SurroundingsKept ==
    ASSUME Surroundings, UNCHANGED << entries, born, opendirs, retained, calls >>,
           TableOK(table'), opened' \in [Inodes -> Int], kernel' \in [Inodes -> Nat]
    PROVE  Surroundings'
BY SurroundingsMoved, Zenon DEF Surroundings

\* The callbacks of the kernel start a task.
LEMMA CallMoves ==
    ASSUME InodeConstants, InodesInv, NEW t \in Tasks, Call(t) PROVE InodesInv'
<1>0. /\ tasks[t] = Idle /\ tasks = [u \in Tasks |-> tasks[u]]
      /\ calls \in 0 .. MaxCalls /\ calls < MaxCalls /\ Surroundings
      /\ TableOK(table)
  BY Zenon DEF Call, InodesInv, Surroundings
<1>1. /\ \A e \in DOMAIN table.byEntry : table.byEntry[e] \in Inodes
      /\ DOMAIN table.byInode \subseteq Inodes
  BY <1>0, NumbersAreInodes, Zenon
<1>2. ASSUME NEW c, Start(t, c), "amount" \notin DOMAIN c, Fields(c),
             c.pc \notin {"forget", "evict", "release"},
             entries' \in [Folders \X Names -> Nodes \cup {NoNode}], born' \subseteq Nodes,
             UNCHANGED << table, opened, opendirs, retained, kernel >>
      PROVE  InodesInv'
  <2> DEFINE r == Updated(Idle, c)
  <2>1. tasks' = [tasks EXCEPT ![t] = r] /\ calls' = calls + 1
    BY <1>0, <1>2, Zenon DEF Start, Continue
  <2>2. TaskOK(r) /\ r.pc # "release" /\ r.amount = 0
    BY <1>2, StartedOK, Zenon
  <2>4. tasks[t].amount = 0 /\ tasks[t].pc = "idle"
    BY <1>0 DEF Idle
  <2>3. Surroundings'
    <3>1. calls' \in 0 .. MaxCalls
      BY <1>0, <2>1 DEF InodeConstants
    <3>2. opened' \in [Inodes -> Int] /\ kernel' \in [Inodes -> Nat] /\ TableOK(table')
      BY <1>0, <1>2, Zenon DEF Surroundings
    <3> QED BY <1>0, <1>2, <3>1, <3>2, SurroundingsMoved, Zenon
  <2> HIDE DEF r
  <2> QED BY <1>2, <2>1, <2>2, <2>3, <2>4, QuietMoves, Zenon
<1>3. ASSUME NEW p \in Parents, NEW name, NEW op, List(t, op, p, name) PROVE InodesInv'
  <2> DEFINE c == [op |-> op, pc |-> "list", uses |-> {p}, name |-> name,
                   listing |-> Listing(NodeOf(p)), inode |-> p]
  <2>1. Start(t, c) /\ UNCHANGED << entries, born, table, opened, opendirs, retained, kernel >>
        /\ NodeOf(p) \in Folders /\ p \in Inodes
    BY <1>3, Zenon DEF List, Folder, Parents
  <2>2. Listing(NodeOf(p)) \subseteq Names \X Nodes
    <3>1. \A m \in Names : entries[<< NodeOf(p), m >>] \in Nodes \cup {NoNode}
      BY <1>0, <2>1, Zenon DEF Surroundings
    <3>2. ASSUME NEW e \in Listing(NodeOf(p)) PROVE e \in Names \X Nodes
      <4>1. PICK m \in Names : /\ entries[<< NodeOf(p), m >>] # NoNode
                               /\ e = << m, entries[<< NodeOf(p), m >>] >>
        BY Zenon DEF Listing
      <4> QED BY <3>1, <4>1, Zenon
    <3> QED BY <3>2, Zenon
  <2>3. Fields(c)
    BY <2>1, <2>2, Zenon DEF Fields
  <2>4. "amount" \notin DOMAIN c /\ c.pc \notin {"forget", "evict", "release"}
    BY Zenon
  <2> HIDE DEF c
  <2> QED BY <1>0, <1>2, <2>1, <2>3, <2>4, Zenon DEF Surroundings
<1>4. ASSUME NEW p, NEW name, LookupEntry(t, p, name) PROVE InodesInv'
  <2> DEFINE c == [op |-> "lookup", pc |-> "getattr", uses |-> {p},
                   inode |-> table.byEntry[<< p, name >>]]
  <2>1. Start(t, c) /\ UNCHANGED << entries, born, table, opened, opendirs, retained, kernel >>
    BY <1>4, Zenon DEF LookupEntry
  <2>2. table.byEntry[<< p, name >>] \in Inodes
    BY <1>1, <1>4, Zenon DEF LookupEntry
  <2>3. Fields(c)
    BY <2>2, Zenon DEF Fields
  <2>4. "amount" \notin DOMAIN c /\ c.pc \notin {"forget", "evict", "release"}
    BY Zenon
  <2> HIDE DEF c
  <2> QED BY <1>0, <1>2, <2>1, <2>3, <2>4, Zenon DEF Surroundings
<1>5. ASSUME NEW p \in Parents, NEW name \in Names, NEW n \in Nodes, Create(t, p, name, n)
      PROVE  InodesInv'
  <2> DEFINE c == [op |-> IF n \in FileNodes THEN "create" ELSE "mkdir", pc |-> "name",
                   uses |-> {p}, inode |-> p, name |-> name, node |-> n]
  <2>1. /\ Start(t, c) /\ UNCHANGED << table, opened, opendirs, retained, kernel >>
        /\ NodeOf(p) \in Folders /\ p \in Inodes
        /\ entries' = [entries EXCEPT ![<< NodeOf(p), name >>] = n] /\ born' = born \cup {n}
    BY <1>5, Zenon DEF Create, Folder, Parents
  <2>2. entries' \in [Folders \X Names -> Nodes \cup {NoNode}] /\ born' \subseteq Nodes
    BY <1>0, <2>1, Zenon DEF Surroundings
  <2>3. Fields(c)
    BY <2>1, Zenon DEF Fields
  <2>4. "amount" \notin DOMAIN c /\ c.pc \notin {"forget", "evict", "release"}
    BY Zenon
  <2> HIDE DEF c
  <2> QED BY <1>2, <2>1, <2>2, <2>3, <2>4, Zenon
<1>6. ASSUME NEW i, NEW p \in Parents, NEW name \in Names, Link(t, i, p, name) PROVE InodesInv'
  <2> DEFINE c == [op |-> "link", pc |-> "name", uses |-> {i, p}, inode |-> p, name |-> name,
                   node |-> NodeOf(i)]
  <2>1. /\ Start(t, c) /\ UNCHANGED << born, table, opened, opendirs, retained, kernel >>
        /\ NodeOf(p) \in Folders /\ p \in Inodes /\ NodeOf(i) \in Nodes
        /\ entries' = [entries EXCEPT ![<< NodeOf(p), name >>] = NodeOf(i)]
    BY <1>6, Zenon DEF Link, Folder, Parents, Nodes
  <2>2. entries' \in [Folders \X Names -> Nodes \cup {NoNode}] /\ born' \subseteq Nodes
    BY <1>0, <2>1, Zenon DEF Surroundings
  <2>3. Fields(c)
    BY <2>1, Zenon DEF Fields
  <2>4. "amount" \notin DOMAIN c /\ c.pc \notin {"forget", "evict", "release"}
    BY Zenon
  <2> HIDE DEF c
  <2> QED BY <1>2, <2>1, <2>2, <2>3, <2>4, Zenon
<1>7. ASSUME NEW p \in Parents, NEW name \in Names, Unlink(t, p, name) PROVE InodesInv'
  <2> DEFINE c == [op |-> "remove", pc |-> "unlink", uses |-> {p}, inode |-> p, name |-> name]
  <2>1. /\ Start(t, c) /\ UNCHANGED << born, table, opened, opendirs, retained, kernel >>
        /\ NodeOf(p) \in Folders /\ p \in Inodes
        /\ entries' = [entries EXCEPT ![<< NodeOf(p), name >>] = NoNode]
    BY <1>7, Zenon DEF Unlink, Folder, Parents
  <2>2. entries' \in [Folders \X Names -> Nodes \cup {NoNode}] /\ born' \subseteq Nodes
    BY <1>0, <2>1, Zenon DEF Surroundings
  <2>3. Fields(c)
    BY <2>1, Zenon DEF Fields
  <2>4. "amount" \notin DOMAIN c /\ c.pc \notin {"forget", "evict", "release"}
    BY Zenon
  <2> HIDE DEF c
  <2> QED BY <1>2, <2>1, <2>2, <2>3, <2>4, Zenon
<1>8. ASSUME NEW p \in Parents, NEW name \in Names, NEW q \in Parents, NEW other \in Names,
             NEW exchange \in BOOLEAN, Rename(t, p, name, q, other, exchange)
      PROVE  InodesInv'
  <2> DEFINE c == [op |-> "rename", pc |-> "move", uses |-> {p, q}, inode |-> p, name |-> name,
                   to |-> q, other |-> other, exchange |-> exchange]
             src == << NodeOf(p), name >>
             dst == << NodeOf(q), other >>
  <2>1. /\ Start(t, c) /\ UNCHANGED << born, table, opened, opendirs, retained, kernel >>
        /\ src \in Folders \X Names /\ dst \in Folders \X Names /\ p \in Inodes /\ q \in Inodes
        /\ entries' = [entries EXCEPT ![dst] = entries[src],
                                      ![src] = IF exchange THEN entries[dst] ELSE NoNode]
    BY <1>8, Zenon DEF Rename, Folder, Parents
  <2>2. entries' \in [Folders \X Names -> Nodes \cup {NoNode}] /\ born' \subseteq Nodes
    <3> HIDE DEF src, dst
    <3> QED BY <1>0, <2>1, Zenon DEF Surroundings
  <2>3. Fields(c)
    BY <2>1, Zenon DEF Fields
  <2>4. "amount" \notin DOMAIN c /\ c.pc \notin {"forget", "evict", "release"}
    BY Zenon
  <2> HIDE DEF c
  <2> QED BY <1>2, <2>1, <2>2, <2>3, <2>4, Zenon
<1>9. ASSUME NEW i \in Inodes, OpenStart(t, i) PROVE InodesInv'
  <2> DEFINE c == [op |-> "open", pc |-> "open", uses |-> {i}, inode |-> i]
  <2>1. Start(t, c) /\ UNCHANGED << entries, born, table, opened, opendirs, retained, kernel >>
    BY <1>9, Zenon DEF OpenStart
  <2>3. Fields(c)
    BY Zenon DEF Fields
  <2>4. "amount" \notin DOMAIN c /\ c.pc \notin {"forget", "evict", "release"}
    BY Zenon
  <2> HIDE DEF c
  <2> QED BY <1>0, <1>2, <2>1, <2>3, <2>4, Zenon DEF Surroundings
<1>10. ASSUME NEW i \in Inodes, NEW amount \in 1 .. kernel[i], Forget(t, i, amount)
       PROVE  InodesInv'
  <2> DEFINE c == [op |-> "forget", pc |-> "forget", uses |-> {}, amount |-> amount,
                   left |-> {i}]
             r == Updated(Idle, c)
  <2>0. kernel[i] \in Nat /\ kernel \in [Inodes -> Nat] /\ amount \in Nat
    BY <1>0 DEF Surroundings
  <2>1. /\ tasks' = [tasks EXCEPT ![t] = r] /\ calls' = calls + 1 /\ i # Root
        /\ kernel' = [kernel EXCEPT ![i] = @ - amount] /\ amount <= kernel[i]
        /\ UNCHANGED << entries, born, table, opened, opendirs, retained >>
    BY <1>0, <1>10, Zenon DEF Forget, Start, Continue
  <2>2. /\ r.pc = "forget" /\ r.amount = amount /\ r.left = {i} /\ tasks[t].pc = "idle"
        /\ {"op", "pc", "uses", "amount", "left"} \subseteq DOMAIN r
    <3>1. /\ DOMAIN c = {"op", "pc", "uses", "amount", "left"}
          /\ c.pc = "forget" /\ c.amount = amount /\ c.left = {i}
      BY Zenon
    <3> HIDE DEF c
    <3>2. DOMAIN r = DOMAIN Idle \cup DOMAIN c /\ \A f \in DOMAIN c : r[f] = c[f]
      BY Zenon DEF Updated
    <3>3. tasks[t].pc = "idle"
      BY <1>0 DEF Idle
    <3> HIDE DEF r
    <3> QED BY <3>1, <3>2, <3>3, Zenon
  <2>3. kernel' \in [Inodes -> Nat] /\ kernel'[i] = kernel[i] - amount
        /\ \A j \in Inodes \ {i} : kernel'[j] = kernel[j]
    BY <2>0, <2>1
  <2> HIDE DEF r
  <2>7. TaskOK(r)
    BY <2>0, <2>2, Zenon DEF TaskOK, Fields
  <2>4. Surroundings'
    <3>1. calls' \in 0 .. MaxCalls
      BY <1>0, <2>1 DEF InodeConstants
    <3>2. /\ opened' \in [Inodes -> Int] /\ TableOK(table')
          /\ entries' \in [Folders \X Names -> Nodes \cup {NoNode}] /\ born' \subseteq Nodes
      BY <1>0, <2>1, Zenon DEF Surroundings
    <3> QED BY <1>0, <2>1, <2>3, <3>1, <3>2, SurroundingsMoved, Zenon
  <2>5. ASSUME NEW j \in Inodes
        PROVE  Cardinality(Releasing(j)) + (IF Drops(r, j) THEN 1 ELSE 0)
                  <= opened'[j] + (IF Drops(tasks[t], j) THEN 1 ELSE 0)
    <3>1. ~Drops(r, j) /\ ~Drops(tasks[t], j)
      BY <2>2, Zenon DEF Drops
    <3>2. Cardinality(Releasing(j)) <= opened[j] /\ opened[j] \in Int
      BY Zenon DEF InodesInv, Surroundings
    <3>3. Cardinality(Releasing(j)) \in Nat
      BY ReleasingIsNat, Zenon
    <3> QED BY <2>1, <3>1, <3>2, <3>3
  <2>6. ASSUME NEW j \in Inodes \ {Root}
        PROVE  CountIn(table'.lookups, j) + kernel[j] + Own(tasks[t], j)
                  = Count(j) + kernel'[j] + Own(r, j)
    <3>1. Own(tasks[t], j) = 0
      BY <2>2, Zenon DEF Own, Forgets
    <3>2. Own(r, j) = IF j = i THEN amount ELSE 0
      BY <2>2, Zenon DEF Own, Forgets
    <3>3. CountIn(table'.lookups, j) = Count(j) /\ Count(j) \in Nat
      BY <1>0, <2>1, CountIsNat, Zenon
    <3>4. kernel[j] \in Nat
      BY <2>0, Zenon
    <3> QED BY <2>0, <2>3, <3>1, <3>2, <3>3, <3>4
  <2> QED BY <2>1, <2>4, <2>5, <2>6, <2>7, TaskMoves, Zenon
<1> QED BY <1>3, <1>4, <1>5, <1>6, <1>7, <1>8, <1>9, <1>10, SMTT(30) DEF Call


LEMMA IdleOK == TaskOK(Idle) /\ Idle.pc = "idle" /\ Idle.amount = 0
BY Zenon DEF TaskOK, Fields, Idle

LEMMA QuietSteps ==
    ASSUME InodeConstants, InodesInv, NEW t \in Tasks, NEW r,
           tasks' = [tasks EXCEPT ![t] = r], TaskOK(r), r.amount = 0, r.pc # "release",
           tasks[t].pc \notin {"forget", "evict", "release"},
           TableOK(table'), table'.lookups = table.lookups,
           UNCHANGED << entries, born, opened, opendirs, retained, kernel, calls >>
    PROVE  InodesInv'
<1>1. Surroundings'
  BY SurroundingsKept, Zenon DEF InodesInv, Surroundings
<1>2. tasks[t].amount = 0
  BY Zenon DEF InodesInv, TaskOK
<1> QED BY <1>1, <1>2, QuietMoves, Zenon

\* lookup_from_listing answers ENOENT, or remembers the entry it found.
LEMMA SelectFacts ==
    ASSUME NEW t, Select(t)
    PROVE  LET task == tasks[t]
               found == {e \in task.listing : e[1] = task.name}
           IN /\ found = {} => tasks' = [tasks EXCEPT ![t] = Idle] /\ table' = table
              /\ found # {} => \E e \in found :
                    /\ Remembered(table, e[2], task.inode, e[1]).next <= MaxInodes + 1
                    /\ table' = Remembered(table, e[2], task.inode, e[1])
                    /\ Continue(t, [pc |-> "count",
                           inode |-> Remembered(table, e[2], task.inode, e[1]).byNode[e[2]]])
BY Zenon DEF Select, Reply

\* The steps of a task that only change the maps.
LEMMA MapSteps ==
    ASSUME InodeConstants, InodesInv, NEW t \in Tasks,
           \/ FetchMetadata(t) \/ Reconcile(t) \/ RememberEntry(t) \/ Select(t)
           \/ NameCreated(t) \/ ForgetEntry(t) \/ MoveEntry(t) \/ Fail(t)
    PROVE  InodesInv'
<1> DEFINE task == tasks[t]
<1>0. TaskOK(task) /\ TableOK(table) /\ tasks = [u \in Tasks |-> tasks[u]]
  BY Zenon DEF InodesInv, Surroundings
<1>1. CASE FetchMetadata(t)
  <2> DEFINE r == Updated(task, [pc |-> "count"])
  <2>1. /\ task.pc = "getattr" /\ table' = table
        /\ tasks' = [tasks EXCEPT ![t] = r] \/ tasks' = [tasks EXCEPT ![t] = Idle]
        /\ UNCHANGED << entries, born, opened, opendirs, retained, kernel, calls >>
    BY <1>1, Zenon DEF FetchMetadata, Continue, Reply
  <2>2. TaskOK(r) /\ r.amount = 0 /\ r.pc = "count"
    <3>1. task.inode \in Inodes /\ {"op", "pc", "uses", "amount", "inode"} \subseteq DOMAIN task
          /\ task.amount = 0
      BY <1>0, <2>1, Zenon DEF TaskOK, Fields
    <3>2. /\ r.pc = "count" /\ r.inode = task.inode /\ r.amount = 0
          /\ DOMAIN task \subseteq DOMAIN r
      BY <3>1, Zenon DEF Updated
    <3> HIDE DEF r
    <3> QED BY <3>1, <3>2 DEF TaskOK, Fields
  <2> HIDE DEF r
  <2> QED BY <1>0, <2>1, <2>2, IdleOK, QuietSteps, Zenon
<1>2. CASE Reconcile(t)
  <2> DEFINE r == Updated(task, [pc |-> "remember", left |-> task.listing, inodes |-> {}])
             S == {e \in DOMAIN table.byEntry :
                     e[1] # task.inode \/ e[2] \in {x[1] : x \in task.listing}}
  <2>1. /\ task.pc = "list" /\ tasks' = [tasks EXCEPT ![t] = r]
        /\ table' = [table EXCEPT !.byEntry = [e \in S |-> table.byEntry[e]]]
        /\ UNCHANGED << entries, born, opened, opendirs, retained, kernel, calls >>
    BY <1>2, Zenon DEF Reconcile, Continue, Reconciled, Restrict
  <2>2. r.amount = 0 /\ r.pc = "remember" /\ TaskOK(r)
    <3>1. /\ task.inode \in Inodes /\ task.amount = 0 /\ task.listing \subseteq Names \X Nodes
          /\ {"op", "pc", "uses", "amount", "inode", "name", "listing"} \subseteq DOMAIN task
      BY <1>0, <2>1, Zenon DEF TaskOK, Fields
    <3>2. /\ r.pc = "remember" /\ r.inode = task.inode /\ r.amount = 0 /\ r.listing = task.listing
          /\ r.left = task.listing /\ r.inodes = {}
          /\ DOMAIN task \cup {"left", "inodes"} \subseteq DOMAIN r
      BY <3>1, Zenon DEF Updated
    <3> HIDE DEF r
    <3> QED BY <3>1, <3>2 DEF TaskOK, Fields
  <2>4. S \in SUBSET DOMAIN table.byEntry
    BY Zenon
  <2> HIDE DEF r, S
  <2>5. TableOK(table') /\ table'.lookups = table.lookups
    BY <1>0, <2>1, <2>4, EntriesRemovedOK, Zenon
  <2> QED BY <2>1, <2>2, <2>5, QuietSteps, Zenon
<1>3. CASE RememberEntry(t)
  <2>1. task.pc = "remember" /\ task.left \subseteq Names \X Nodes /\ task.inode \in Inodes
        /\ task.inodes \subseteq Inodes
    BY <1>0, <1>3, Zenon DEF RememberEntry, TaskOK, Fields
  <2>2. PICK e \in task.left :
           /\ Remembered(table, e[2], task.inode, e[1]).next <= MaxInodes + 1
           /\ table' = Remembered(table, e[2], task.inode, e[1])
           /\ Continue(t, [left |-> task.left \ {e},
                           inodes |-> task.inodes
                              \cup {Remembered(table, e[2], task.inode, e[1]).byNode[e[2]]}])
    BY <1>3, Zenon DEF RememberEntry
  <2>3. e[2] \in Nodes
    BY <2>1, Zenon
  <2>4. /\ TableOK(table') /\ table'.lookups = table.lookups /\ table'.byNode[e[2]] \in Inodes
    BY <1>0, <2>1, <2>2, <2>3, RememberedOK, SMTT(30)
  <2> DEFINE r == Updated(task, [left |-> task.left \ {e},
                                 inodes |-> task.inodes \cup {table'.byNode[e[2]]}])
  <2>5. tasks' = [tasks EXCEPT ![t] = r]
        /\ UNCHANGED << entries, born, opened, opendirs, retained, kernel, calls >>
    BY <1>3, <2>2, Zenon DEF RememberEntry, Continue
  <2>6. r.amount = 0 /\ r.pc = "remember" /\ TaskOK(r)
    <3>1. /\ task.inode \in Inodes /\ task.amount = 0 /\ task.listing \subseteq Names \X Nodes
          /\ task.pc = "remember"
          /\ {"op", "pc", "uses", "amount", "inode", "name", "listing"} \subseteq DOMAIN task
      BY <1>0, <2>1, Zenon DEF TaskOK, Fields
    <3> DEFINE left == task.left \ {e}
               inodes == task.inodes \cup {table'.byNode[e[2]]}
    <3>2. left \subseteq Names \X Nodes /\ inodes \subseteq Inodes
      BY <2>1, <2>4, Zenon
    <3> HIDE DEF left, inodes
    <3>3. /\ r.pc = "remember" /\ r.inode = task.inode /\ r.amount = 0 /\ r.listing = task.listing
          /\ r.left = left /\ r.inodes = inodes
          /\ DOMAIN task \cup {"left", "inodes"} \subseteq DOMAIN r
      BY <3>1, Zenon DEF Updated, left, inodes
    <3> HIDE DEF r
    <3> QED BY <3>1, <3>2, <3>3 DEF TaskOK, Fields
  <2> HIDE DEF r
  <2> QED BY <2>1, <2>4, <2>5, <2>6, QuietSteps, Zenon
<1>4. CASE Select(t)
  <2> DEFINE found == {e \in task.listing : e[1] = task.name}
  <2>1. task.pc = "remember" /\ task.listing \subseteq Names \X Nodes /\ task.inode \in Inodes
        /\ UNCHANGED << entries, born, opened, opendirs, retained, kernel, calls >>
    BY <1>0, <1>4, Zenon DEF Select, TaskOK, Fields
  <2>2. CASE found = {}
    <3>1. tasks' = [tasks EXCEPT ![t] = Idle] /\ table' = table
      BY <1>4, <2>2, SelectFacts, Zenon
    <3> QED BY <1>0, <2>1, <3>1, IdleOK, QuietSteps, Zenon
  <2>3. CASE found # {}
    <3>1. PICK e \in found :
             /\ Remembered(table, e[2], task.inode, e[1]).next <= MaxInodes + 1
             /\ table' = Remembered(table, e[2], task.inode, e[1])
             /\ Continue(t, [pc |-> "count",
                             inode |-> Remembered(table, e[2], task.inode, e[1]).byNode[e[2]]])
      BY <1>4, <2>3, SelectFacts, Zenon
    <3>2. e[2] \in Nodes
      BY <2>1, Zenon
    <3>3. TableOK(table') /\ table'.lookups = table.lookups /\ table'.byNode[e[2]] \in Inodes
      BY <1>0, <2>1, <3>1, <3>2, RememberedOK, Zenon
    <3> DEFINE r == Updated(task, [pc |-> "count", inode |-> table'.byNode[e[2]]])
    <3>4. tasks' = [tasks EXCEPT ![t] = r]
      BY <3>1, Zenon DEF Continue
    <3>5. TaskOK(r) /\ r.amount = 0 /\ r.pc = "count"
      <4> DEFINE i == table'.byNode[e[2]]
      <4>1. task.amount = 0 /\ {"op", "pc", "uses", "amount"} \subseteq DOMAIN task
        BY <1>0, <2>1, Zenon DEF TaskOK, Fields
      <4>2. i \in Inodes
        BY <3>3, Zenon
      <4> HIDE DEF i
      <4>3. /\ r.pc = "count" /\ r.inode = i /\ r.amount = 0
            /\ DOMAIN task \cup {"inode"} \subseteq DOMAIN r
        BY <4>1, Zenon DEF Updated, i
      <4> HIDE DEF r
      <4> QED BY <4>1, <4>2, <4>3 DEF TaskOK, Fields
    <3> HIDE DEF r
    <3> QED BY <2>1, <3>3, <3>4, <3>5, QuietSteps, Zenon
  <2> QED BY <2>2, <2>3, Zenon
<1>5. CASE NameCreated(t)
  <2>1. task.pc = "name" /\ task.node \in Nodes /\ task.inode \in Inodes
        /\ UNCHANGED << entries, born, opened, opendirs, retained, kernel, calls >>
    BY <1>0, <1>5, Zenon DEF NameCreated, TaskOK, Fields
  <2>2. /\ Remembered(table, task.node, task.inode, task.name).next <= MaxInodes + 1
        /\ table' = Remembered(table, task.node, task.inode, task.name)
        /\ Continue(t, [pc |-> "count",
               inode |-> Remembered(table, task.node, task.inode, task.name).byNode[task.node]])
    BY <1>5, Zenon DEF NameCreated
  <2>3. TableOK(table') /\ table'.lookups = table.lookups /\ table'.byNode[task.node] \in Inodes
    BY <1>0, <2>1, <2>2, RememberedOK
  <2> DEFINE r == Updated(task, [pc |-> "count", inode |-> table'.byNode[task.node]])
  <2>4. tasks' = [tasks EXCEPT ![t] = r]
    BY <2>2, Zenon DEF Continue
  <2>5. TaskOK(r) /\ r.amount = 0 /\ r.pc = "count"
    <3> DEFINE i == table'.byNode[task.node]
    <3>1. task.amount = 0 /\ {"op", "pc", "uses", "amount"} \subseteq DOMAIN task
      BY <1>0, <2>1, Zenon DEF TaskOK, Fields
    <3>2. i \in Inodes
      BY <2>3, Zenon
    <3> HIDE DEF i
    <3>3. /\ r.pc = "count" /\ r.inode = i /\ r.amount = 0
          /\ DOMAIN task \cup {"inode"} \subseteq DOMAIN r
      BY <3>1, Zenon DEF Updated, i
    <3> HIDE DEF r
    <3> QED BY <3>1, <3>2, <3>3 DEF TaskOK, Fields
  <2> HIDE DEF r
  <2> QED BY <2>1, <2>3, <2>4, <2>5, QuietSteps, Zenon
<1>6. CASE ForgetEntry(t)
  <2> DEFINE S == DOMAIN table.byEntry \ {<< task.inode, task.name >>}
  <2>1. /\ task.pc = "unlink" /\ tasks' = [tasks EXCEPT ![t] = Idle]
        /\ table' = [table EXCEPT !.byEntry = [e \in S |-> table.byEntry[e]]]
        /\ UNCHANGED << entries, born, opened, opendirs, retained, kernel, calls >>
    BY <1>6, Zenon DEF ForgetEntry, Reply, EntryForgotten, Restrict
  <2>2. S \in SUBSET DOMAIN table.byEntry
    BY Zenon
  <2> HIDE DEF S
  <2>3. TableOK(table') /\ table'.lookups = table.lookups
    BY <1>0, <2>1, <2>2, EntriesRemovedOK, Zenon
  <2> QED BY <2>1, <2>3, IdleOK, QuietSteps, Zenon
<1>7. CASE MoveEntry(t)
  <2>1. /\ task.pc = "move" /\ tasks' = [tasks EXCEPT ![t] = Idle]
        /\ table' = Moved(task.inode, task.name, task.to, task.other, task.exchange)
        /\ UNCHANGED << entries, born, opened, opendirs, retained, kernel, calls >>
    BY <1>7, Zenon DEF MoveEntry, Reply
  <2>2. task.inode \in Inodes /\ task.to \in Inodes
    BY <1>0, <2>1, Zenon DEF TaskOK, Fields
  <2>3. TableOK(table') /\ table'.lookups = table.lookups
    BY <1>0, <2>1, <2>2, MovedOK
  <2> QED BY <2>1, <2>3, IdleOK, QuietSteps, Zenon
<1>8. CASE Fail(t)
  <2>1. /\ task.pc \notin {"forget", "evict", "release"}
        /\ tasks' = [tasks EXCEPT ![t] = Idle] /\ table' = table
        /\ UNCHANGED << entries, born, opened, opendirs, retained, kernel, calls >>
    BY <1>8, Zenon DEF Fail, Reply
  <2> QED BY <1>0, <2>1, IdleOK, QuietSteps, Zenon
<1> QED BY <1>1, <1>2, <1>3, <1>4, <1>5, <1>6, <1>7, <1>8, SMTT(30)

\* The steps of a task that change a count: the handles and the references.
LEMMA CountSteps ==
    ASSUME InodeConstants, InodesInv, NEW t \in Tasks,
           \/ CountLookup(t) \/ OpenDirectory(t) \/ OpenEnd(t) \/ TakeHandle(t)
    PROVE  InodesInv'
<1> DEFINE task == tasks[t]
<1>0. /\ TaskOK(task) /\ TableOK(table) /\ Surroundings
      /\ opened \in [Inodes -> Int] /\ kernel \in [Inodes -> Nat]
  BY Zenon DEF InodesInv, Surroundings
<1>1. \A j \in Inodes : /\ Cardinality(Releasing(j)) <= opened[j]
                        /\ Cardinality(Releasing(j)) \in Nat
  BY ReleasingIsNat, Zenon DEF InodesInv
<1>2. \A j : Count(j) \in Nat /\ Count(j) = CountIn(table.lookups, j)
  BY <1>0, CountIsNat, Zenon
<1>3. \A j : Own(Idle, j) = 0 /\ ~Drops(Idle, j)
  BY Zenon DEF Own, Forgets, Drops, Idle
<1>4. \A j : task.pc \notin {"forget", "evict"} => Own(task, j) = 0
  BY Zenon DEF Own, Forgets
<1>5. CASE CountLookup(t)
  <2> DEFINE i == task.inode
  <2>1. /\ task.pc = "count" /\ tasks' = [tasks EXCEPT ![t] = Idle]
        /\ table' = SetCount(table, i, Count(i) + 1)
        /\ kernel' = [kernel EXCEPT ![i] = @ + 1]
        /\ opened' = [opened EXCEPT ![i] = @ + 1] \/ opened' = opened
        /\ UNCHANGED << entries, born, opendirs, retained, calls >>
    BY <1>5, Zenon DEF CountLookup, Reply, Counted, SetCount
  <2>2. i \in Inodes
    BY <1>0, <2>1, Zenon DEF TaskOK, Fields
  <2> HIDE DEF i
  <2>3. /\ TableOK(table')
        /\ \A j : CountIn(table'.lookups, j) = IF j = i THEN Count(i) + 1 ELSE Count(j)
    BY <1>0, <1>2, <2>1, LookupsChangedOK, SMTT(30)
  <2>4. /\ opened' \in [Inodes -> Int] /\ \A j \in Inodes : opened'[j] >= opened[j]
        /\ kernel' \in [Inodes -> Nat]
        /\ \A j \in Inodes : kernel'[j] = IF j = i THEN kernel[i] + 1 ELSE kernel[j]
    BY <1>0, <2>1, <2>2, SMTT(30)
  <2>5. Surroundings'
    BY <1>0, <2>1, <2>3, <2>4, SurroundingsKept, Zenon
  <2>6. ASSUME NEW j \in Inodes
        PROVE  Cardinality(Releasing(j)) + (IF Drops(Idle, j) THEN 1 ELSE 0)
                  <= opened'[j] + (IF Drops(task, j) THEN 1 ELSE 0)
    <3>1. ~Drops(Idle, j) /\ ~Drops(task, j)
      BY <1>3, <2>1, Zenon DEF Drops
    <3>2. opened[j] \in Int /\ opened'[j] \in Int /\ opened'[j] >= opened[j]
      BY <1>0, <2>4, Zenon
    <3> QED BY <1>1, <3>1, <3>2, SMTT(30)
  <2>7. ASSUME NEW j \in Inodes \ {Root}
        PROVE  CountIn(table'.lookups, j) + kernel[j] + Own(task, j)
                  = Count(j) + kernel'[j] + Own(Idle, j)
    <3>1. Own(Idle, j) = 0 /\ Own(task, j) = 0
      BY <1>3, <1>4, <2>1, Zenon
    <3>2. kernel[j] \in Nat /\ Count(j) \in Nat
      BY <1>0, <1>2, Zenon
    <3> QED BY <2>3, <2>4, <3>1, <3>2, SMTT(30)
  <2> QED BY <2>1, <2>5, <2>6, <2>7, IdleOK, TaskMoves, Zenon
<1>6. CASE OpenDirectory(t)
  <2>1. /\ task.pc = "remember" /\ tasks' = [tasks EXCEPT ![t] = Idle]
        /\ UNCHANGED << entries, born, table, opened, retained, kernel, calls >>
        /\ \/ opendirs' = opendirs \cup {[inode |-> task.inode, listed |-> task.inodes]}
           \/ opendirs' = opendirs
    BY <1>6, Zenon DEF OpenDirectory, Reply
  <2>2. task.inode \in Inodes /\ task.inodes \subseteq Inodes /\ task.amount = 0
    BY <1>0, <2>1, Zenon DEF TaskOK, Fields
  <2>3. \A d \in opendirs' : d.inode \in Inodes /\ d.listed \subseteq Inodes
    BY <1>0, <2>1, <2>2, SMTT(30) DEF Surroundings
  <2>4. TableOK(table)'
    BY <1>0, <2>1, Zenon DEF TableOK, Agree, Relation, Inodes
  <2>5. Surroundings'
    BY <1>0, <2>1, <2>3, <2>4, Zenon DEF Surroundings, Inodes, Folders, Nodes, Root
  <2> QED BY <2>1, <2>2, <2>5, IdleOK, QuietMoves, Zenon
<1>7. CASE OpenEnd(t)
  <2> DEFINE i == task.inode
  <2>1. /\ task.pc = "open" /\ tasks' = [tasks EXCEPT ![t] = Idle]
        /\ opened' = [opened EXCEPT ![i] = @ + 1]
        /\ UNCHANGED << entries, born, table, opendirs, retained, kernel, calls >>
    BY <1>7, Zenon DEF OpenEnd, Reply
  <2>6. i \in Inodes
    BY <1>0, <2>1, Zenon DEF TaskOK, Fields
  <2> HIDE DEF i
  <2>2. opened' \in [Inodes -> Int] /\ \A j \in Inodes : opened'[j] >= opened[j]
    BY <1>0, <2>1, <2>6
  <2>3. Surroundings'
    BY <1>0, <2>1, <2>2, SurroundingsKept, Zenon
  <2>4. ASSUME NEW j \in Inodes
        PROVE  Cardinality(Releasing(j)) + (IF Drops(Idle, j) THEN 1 ELSE 0)
                  <= opened'[j] + (IF Drops(task, j) THEN 1 ELSE 0)
    <3>1. ~Drops(Idle, j) /\ ~Drops(task, j)
      BY <1>3, <2>1, Zenon DEF Drops
    <3>2. opened[j] \in Int /\ opened'[j] \in Int /\ opened'[j] >= opened[j]
      BY <1>0, <2>2, Zenon
    <3> QED BY <1>1, <3>1, <3>2
  <2>5. ASSUME NEW j \in Inodes \ {Root}
        PROVE  CountIn(table'.lookups, j) + kernel[j] + Own(task, j)
                  = Count(j) + kernel'[j] + Own(Idle, j)
    BY <1>2, <1>3, <1>4, <2>1, Zenon
  <2> QED BY <2>1, <2>3, <2>4, <2>5, IdleOK, TaskMoves, Zenon
<1>8. CASE TakeHandle(t)
  <2> DEFINE i == task.inode
             r == Updated(task, [pc |-> "forget", left |-> {i}])
  <2>1. /\ task.pc = "release" /\ tasks' = [tasks EXCEPT ![t] = r]
        /\ opened' = [opened EXCEPT ![i] = @ - 1]
        /\ UNCHANGED << entries, born, table, opendirs, retained, kernel, calls >>
    BY <1>8, Zenon DEF TakeHandle, Continue
  <2>2. /\ i \in Inodes /\ task.amount = 0
        /\ {"op", "pc", "uses", "amount"} \subseteq DOMAIN task
    BY <1>0, <2>1, Zenon DEF TaskOK, Fields
  <2>3. /\ r.pc = "forget" /\ r.amount = 0 /\ r.left = {i}
        /\ DOMAIN task \cup {"left"} \subseteq DOMAIN r
    BY <2>2, Zenon DEF Updated
  <2>4. TaskOK(r)
    <3> HIDE DEF r
    <3> QED BY <2>2, <2>3 DEF TaskOK, Fields
  <2> HIDE DEF r
  <2>5. /\ opened' \in [Inodes -> Int]
        /\ \A j \in Inodes : opened'[j] = IF j = i THEN opened[i] - 1 ELSE opened[j]
    BY <1>0, <2>1, <2>2
  <2>6. Surroundings'
    BY <1>0, <2>1, <2>5, SurroundingsKept, Zenon
  <2>7. ASSUME NEW j \in Inodes
        PROVE  Cardinality(Releasing(j)) + (IF Drops(r, j) THEN 1 ELSE 0)
                  <= opened'[j] + (IF Drops(task, j) THEN 1 ELSE 0)
    <3>1. ~Drops(r, j) /\ (Drops(task, j) <=> j = i)
      BY <2>1, <2>3, Zenon DEF Drops
    <3>2. opened[j] \in Int /\ opened'[j] = IF j = i THEN opened[j] - 1 ELSE opened[j]
      BY <1>0, <2>5, Zenon
    <3>3. Cardinality(Releasing(j)) <= opened[j] /\ Cardinality(Releasing(j)) \in Nat
      BY <1>1, Zenon
    <3>4. CASE j = i
      BY <3>1, <3>2, <3>3, <3>4
    <3>5. CASE j # i
      BY <3>1, <3>2, <3>3, <3>5
    <3> QED BY <3>4, <3>5, Zenon
  <2>8. ASSUME NEW j \in Inodes \ {Root}
        PROVE  CountIn(table'.lookups, j) + kernel[j] + Own(task, j)
                  = Count(j) + kernel'[j] + Own(r, j)
    <3>1. Own(r, j) = 0 /\ Own(task, j) = 0
      BY <1>4, <2>1, <2>3, Zenon DEF Own
    <3> QED BY <1>2, <2>1, <3>1, Zenon
  <2> QED BY <2>1, <2>4, <2>6, <2>7, <2>8, TaskMoves, Zenon
<1> QED BY <1>5, <1>6, <1>7, <1>8, Zenon

\* A forget: evict_inode takes no more off a count than the forget brought.
LEMMA ForgetSteps ==
    ASSUME InodeConstants, InodesInv, NEW t \in Tasks, CheckUse(t) \/ Evict(t)
    PROVE  InodesInv'
<1> DEFINE task == tasks[t]
<1>0. /\ TaskOK(task) /\ TableOK(table) /\ Surroundings
      /\ opened \in [Inodes -> Int] /\ kernel \in [Inodes -> Nat]
      /\ IsFiniteSet(Tasks) /\ \A u \in Tasks : tasks[u].amount \in Nat
  BY Zenon DEF InodesInv, Surroundings, TaskOK, InodeConstants
<1>1. \A j \in Inodes : /\ Cardinality(Releasing(j)) <= opened[j]
                        /\ Cardinality(Releasing(j)) \in Nat
  BY ReleasingIsNat, Zenon DEF InodesInv
<1>2. \A j : Count(j) \in Nat /\ Count(j) = CountIn(table.lookups, j)
  BY <1>0, CountIsNat, Zenon
<1>3. /\ task.pc \in {"forget", "evict"} /\ task.left \subseteq Inodes /\ task.amount \in Nat
      /\ UNCHANGED << entries, born, opened, opendirs, retained, kernel, calls >>
  BY <1>0, Zenon DEF CheckUse, Evict, TaskOK, Fields
<1>4. ASSUME NEW r, tasks' = [tasks EXCEPT ![t] = r], TaskOK(r), r.pc # "release", TableOK(table'),
             \A j \in Inodes \ {Root} :
                CountIn(table'.lookups, j) + Own(task, j) = Count(j) + Own(r, j)
      PROVE  InodesInv'
  <2>1. Surroundings'
    BY <1>0, <1>3, <1>4, SurroundingsKept, Zenon
  <2>2. ASSUME NEW j \in Inodes
        PROVE  Cardinality(Releasing(j)) + (IF Drops(r, j) THEN 1 ELSE 0)
                  <= opened'[j] + (IF Drops(task, j) THEN 1 ELSE 0)
    <3>1. ~Drops(r, j) /\ ~Drops(task, j)
      BY <1>3, <1>4, Zenon DEF Drops
    <3>2. opened[j] \in Int
      BY <1>0, Zenon
    <3> QED BY <1>1, <1>3, <3>1, <3>2, SMTT(30)
  <2>3. ASSUME NEW j \in Inodes \ {Root}
        PROVE  CountIn(table'.lookups, j) + kernel[j] + Own(task, j)
                  = Count(j) + kernel'[j] + Own(r, j)
    <3>1. kernel[j] \in Nat /\ kernel'[j] = kernel[j] /\ Count(j) \in Nat
      BY <1>0, <1>2, <1>3, Zenon
    <3>2. Own(task, j) \in Nat /\ Own(r, j) \in Nat /\ CountIn(table'.lookups, j) \in Nat
      BY <1>3, <1>4, Zenon DEF Own, TaskOK, TableOK, CountIn
    <3> QED BY <1>4, <3>1, <3>2
  <2> QED BY <1>4, <2>1, <2>2, <2>3, TaskMoves, Zenon
<1>5. CASE CheckUse(t)
  <2>1. task.pc = "forget" /\ table' = table
    BY <1>5, Zenon DEF CheckUse
  <2>2. CASE task.left = {}
    <3>1. tasks' = [tasks EXCEPT ![t] = Idle]
      BY <1>5, <2>2, Zenon DEF CheckUse, Reply
    <3>2. \A j : Own(task, j) = 0 /\ Own(Idle, j) = 0
      BY <2>1, <2>2, Zenon DEF Own, Forgets, Idle
    <3> QED BY <1>0, <1>2, <1>4, <2>1, <3>1, <3>2, IdleOK, Zenon
  <2>3. CASE task.left # {}
    <3>1. PICK i \in task.left :
             Continue(t, [pc |-> "evict", inode |-> i, left |-> task.left \ {i},
                          inUse |-> InUse(i)])
      BY <1>5, <2>3, Zenon DEF CheckUse
    <3> DEFINE r == Updated(task, [pc |-> "evict", inode |-> i, left |-> task.left \ {i},
                                   inUse |-> InUse(i)])
    <3>2. tasks' = [tasks EXCEPT ![t] = r]
      BY <3>1, Zenon DEF Continue
    <3>3. /\ r.pc = "evict" /\ r.inode = i /\ r.left = task.left \ {i} /\ r.amount = task.amount
          /\ {"op", "pc", "uses", "amount", "left", "inode"} \subseteq DOMAIN r
      BY <1>0, Zenon DEF Updated, TaskOK, Fields
    <3> HIDE DEF r
    <3>4. TaskOK(r)
      BY <1>3, <3>3, Zenon DEF TaskOK, Fields
    <3>5. \A j : Own(task, j) = Own(r, j)
      BY <2>1, <3>3, Zenon DEF Own, Forgets
    <3> QED BY <1>0, <1>2, <1>4, <2>1, <3>2, <3>3, <3>4, <3>5, Zenon
  <2> QED BY <2>2, <2>3, Zenon
<1>6. CASE Evict(t)
  <2> DEFINE i == task.inode
             r == IF task.left = {} THEN Idle ELSE Updated(task, [pc |-> "forget"])
  <2>1. /\ task.pc = "evict" /\ table' = Evicted(i, task.amount, task.inUse)
        /\ tasks' = [tasks EXCEPT ![t] = r]
    BY <1>6, Zenon DEF Evict, Reply, Continue
  <2>2. i \in Inodes \ task.left
    BY <1>0, <2>1, Zenon DEF TaskOK, Fields
  <2>3. TaskOK(r) /\ r.pc # "release"
    <3>1. CASE task.left = {}
      BY <3>1, IdleOK, Zenon
    <3>2. CASE task.left # {}
      <4> DEFINE q == Updated(task, [pc |-> "forget"])
      <4>1. /\ {"op", "pc", "uses", "amount", "left"} \subseteq DOMAIN task
            /\ task.amount \in Nat /\ task.left \subseteq Inodes
        BY <1>0, <2>1, Zenon DEF TaskOK, Fields
      <4>2. /\ q.pc = "forget" /\ q.left = task.left /\ q.amount = task.amount
            /\ {"op", "pc", "uses", "amount", "left"} \subseteq DOMAIN q
        BY <4>1, Zenon DEF Updated
      <4>3. r = q
        BY <3>2, Zenon
      <4> HIDE DEF q
      <4> QED BY <4>1, <4>2, <4>3, Zenon DEF TaskOK, Fields
    <3> QED BY <3>1, <3>2, Zenon
  <2>4. \A j : Own(r, j) = IF j \in task.left THEN task.amount ELSE 0
    <3>1. CASE task.left = {}
      BY <3>1, Zenon DEF Own, Forgets, Idle
    <3>2. CASE task.left # {}
      <4> DEFINE q == Updated(task, [pc |-> "forget"])
      <4>1. q.pc = "forget" /\ q.left = task.left /\ q.amount = task.amount
        <5>1. {"amount", "left"} \subseteq DOMAIN task
          BY <1>0, <2>1, Zenon DEF TaskOK, Fields
        <5> QED BY <5>1, Zenon DEF Updated
      <4>2. r = q
        BY <3>2, Zenon
      <4> HIDE DEF q
      <4> QED BY <4>1, <4>2, Zenon DEF Own, Forgets
    <3> QED BY <3>1, <3>2, Zenon
  <2>5. \A j : Own(task, j) = IF j = i \/ j \in task.left THEN task.amount ELSE 0
    BY <2>1, Zenon DEF Own, Forgets
  <2> HIDE DEF r, i
  <2>6. CASE i = Root
    <3>1. table' = table
      BY <2>1, <2>6, Zenon DEF Evicted
    <3>2. \A j \in Inodes \ {Root} : CountIn(table'.lookups, j) + Own(task, j) = Count(j) + Own(r, j)
      BY <1>2, <2>4, <2>5, <2>6, <3>1
    <3> QED BY <1>0, <1>4, <2>1, <2>3, <3>1, <3>2, Zenon
  <2>7. CASE i # Root
    <3>1. Count(i) >= task.amount
      <4>1. Count(i) = kernel[i] + Forgetting(i) /\ kernel[i] \in Nat
        BY <1>0, <2>2, <2>7, Zenon DEF InodesInv, LookupsMatchKernel
      <4>2. Forgetting(i) = Cardinality(Amounts(tasks, Wants(tasks, i)))
        BY Zenon DEF Forgetting, Amounts, Wants, Units
      <4>3. /\ Cardinality(Amounts(tasks, Wants(tasks, i))) =
                  Cardinality(Amounts(tasks, Wants(tasks, i) \ {t})) + Own(task, i)
            /\ Cardinality(Amounts(tasks, Wants(tasks, i) \ {t})) \in Nat
        BY <1>0, WantsSplit, Zenon
      <4>4. Own(task, i) = task.amount
        BY <2>5, Zenon
      <4> QED BY <1>2, <1>3, <4>1, <4>2, <4>3, <4>4
    <3>2. /\ TableOK(table')
          /\ \A j : j # Root => CountIn(table'.lookups, j) =
                       IF j = i THEN Count(i) - task.amount ELSE Count(j)
      BY <1>0, <1>3, <2>1, <3>1, EvictedOK
    <3>3. ASSUME NEW j \in Inodes \ {Root}
          PROVE  CountIn(table'.lookups, j) + Own(task, j) = Count(j) + Own(r, j)
      <4>1. Count(j) \in Nat /\ Count(i) \in Nat
        BY <1>2, Zenon
      <4> QED BY <1>3, <2>2, <2>4, <2>5, <3>2, <4>1
    <3> QED BY <1>4, <2>1, <2>3, <3>2, <3>3, Zenon
  <2> QED BY <2>6, <2>7, Zenon
<1> QED BY <1>5, <1>6, Zenon

\* The tasks the adapter starts by itself: release, and the end of a listing.
LEMMA OwnTasks ==
    ASSUME InodeConstants, InodesInv, NEW t \in Tasks,
           \/ \E inodes \in retained : Retire(t, inodes)
           \/ \E i \in Inodes : Release(t, i)
    PROVE  InodesInv'
<1>0. /\ TableOK(table) /\ Surroundings /\ tasks[t] = Idle
      /\ opened \in [Inodes -> Int] /\ kernel \in [Inodes -> Nat]
  BY Zenon DEF InodesInv, Surroundings, Retire, Release
<1>1. \A j \in Inodes : /\ Cardinality(Releasing(j)) <= opened[j]
                        /\ Cardinality(Releasing(j)) \in Nat
  BY ReleasingIsNat, Zenon DEF InodesInv
<1>2. TableOK(table') /\ UNCHANGED << entries, born, table, opened, opendirs, kernel, calls >>
  BY <1>0, Zenon DEF Retire, Release
<1>3. ASSUME NEW inodes \in retained, Retire(t, inodes) PROVE InodesInv'
  <2> DEFINE r == [op |-> "forget", pc |-> "forget", uses |-> {}, amount |-> 0, left |-> inodes]
  <2>1. tasks' = [tasks EXCEPT ![t] = r] /\ retained' \subseteq retained
    BY <1>3, Zenon DEF Retire
  <2>2. TaskOK(r) /\ r.amount = 0 /\ r.pc # "release"
    BY <1>0, Zenon DEF TaskOK, Fields, Surroundings
  <2>3. TableOK(table)'
    BY <1>2, Zenon DEF TableOK, Agree, Relation, Inodes
  <2>4. Surroundings'
    BY <1>0, <1>2, <2>1, <2>3, Zenon DEF Surroundings, Inodes, Folders, Nodes, Root
  <2> HIDE DEF r
  <2> QED BY <1>0, <1>2, <2>1, <2>2, <2>4, IdleOK, QuietMoves, Zenon
<1>4. ASSUME NEW i \in Inodes, Release(t, i) PROVE InodesInv'
  <2> DEFINE r == [op |-> "forget", pc |-> "release", uses |-> {}, amount |-> 0, inode |-> i]
  <2>1. /\ tasks' = [tasks EXCEPT ![t] = r] /\ retained' = retained
        /\ opened[i] > Cardinality(Releasing(i))
    BY <1>4, Zenon DEF Release
  <2>2. TaskOK(r) /\ r.amount = 0 /\ r.pc = "release" /\ r.inode = i
    BY Zenon DEF TaskOK, Fields
  <2> HIDE DEF r
  <2>3. Surroundings'
    BY <1>0, <1>2, <2>1, SurroundingsKept, Zenon
  <2>4. ASSUME NEW j \in Inodes
        PROVE  Cardinality(Releasing(j)) + (IF Drops(r, j) THEN 1 ELSE 0)
                  <= opened'[j] + (IF Drops(tasks[t], j) THEN 1 ELSE 0)
    <3>1. (Drops(r, j) <=> j = i) /\ ~Drops(tasks[t], j)
      BY <1>0, <2>2, IdleOK DEF Drops
    <3>2. opened[j] \in Int
      BY <1>0, Zenon
    <3> QED BY <1>1, <1>2, <2>1, <3>1, <3>2
  <2>5. ASSUME NEW j \in Inodes \ {Root}
        PROVE  CountIn(table'.lookups, j) + kernel[j] + Own(tasks[t], j)
                  = Count(j) + kernel'[j] + Own(r, j)
    <3>1. Own(r, j) = 0 /\ Own(tasks[t], j) = 0
      BY <1>0, <2>2, IdleOK, Zenon DEF Own, Forgets
    <3>2. CountIn(table'.lookups, j) = Count(j)
      BY <1>0, <1>2, CountIsNat, Zenon
    <3> QED BY <1>2, <3>1, <3>2, Zenon
  <2> QED BY <2>1, <2>2, <2>3, <2>4, <2>5, TaskMoves, Zenon
<1> QED BY <1>3, <1>4, Zenon

\* Another client changes the export, or a directory handle is closed.
LEMMA OtherSteps ==
    ASSUME InodeConstants, InodesInv,
           \/ \E d \in Folders, name \in Names, n \in Nodes \cup {NoNode} : ExportChanges(d, name, n)
           \/ \E d \in opendirs : ReleaseDirectory(d)
    PROVE  InodesInv'
<1>0. Surroundings /\ TableOK(table) /\ UNCHANGED << table, opened, kernel, tasks >>
  BY Zenon DEF InodesInv, Surroundings, ExportChanges, ReleaseDirectory
<1>1. TableOK(table)'
  BY <1>0, Zenon DEF TableOK, Agree, Relation, Inodes
<1>2. ASSUME NEW d \in Folders, NEW name \in Names, NEW n \in Nodes \cup {NoNode},
             ExportChanges(d, name, n)
      PROVE  Surroundings'
  <2>1. /\ entries' \in [Folders \X Names -> Nodes \cup {NoNode}] /\ born' \subseteq Nodes
        /\ UNCHANGED << opendirs, retained >>
    BY <1>0, <1>2, Zenon DEF ExportChanges, Surroundings
  <2>2. calls' \in 0 .. MaxCalls
    BY <1>0, <1>2, SMTT(30) DEF ExportChanges, Surroundings, InodeConstants
  <2> QED BY <1>0, <1>1, <2>1, <2>2, Zenon DEF Surroundings, Inodes, Folders, Nodes, Root
<1>3. ASSUME NEW d \in opendirs, ReleaseDirectory(d) PROVE Surroundings'
  <2>1. /\ \A e \in opendirs' : e.inode \in Inodes /\ e.listed \subseteq Inodes
        /\ retained' \subseteq SUBSET Inodes
    BY <1>0, <1>3 DEF ReleaseDirectory, Surroundings
  <2>2. UNCHANGED << entries, born, calls >>
    BY <1>3, Zenon DEF ReleaseDirectory
  <2> QED BY <1>0, <1>1, <2>1, <2>2, Zenon DEF Surroundings, Inodes, Folders, Nodes, Root
<1>4. Surroundings'
  BY <1>2, <1>3, Zenon
<1> QED BY <1>0, <1>4, OutsideMoves, Zenon

LEMMA InodesInvInit == ASSUME InodeConstants, Init PROVE InodesInv
<1>1. /\ tasks = [t \in Tasks |-> Idle] /\ \A t \in Tasks : tasks[t].pc = "idle"
      /\ calls = 0 /\ opendirs = {} /\ retained = {}
      /\ kernel = [i \in Inodes |-> 0] /\ opened = [i \in Inodes |-> 0]
  BY IdleOK, Zenon DEF Init
<1>2. TableOK(table)
  <2>0. table = [byInode |-> [i \in {Root} |-> [node |-> Root, parent |-> Root]],
                 byNode |-> [n \in {Root} |-> Root], byEntry |-> << >>, lookups |-> << >>, next |-> 2]
    BY Zenon DEF Init
  <2>1. Agree(table)
    BY <2>0, AgreeAtFirst, Zenon
  <2>2. /\ table.next = 2 /\ table.byInode = [i \in {Root} |-> [node |-> Root, parent |-> Root]]
        /\ table.lookups = << >>
    BY <2>0, Zenon
  <2>3. Root \in Inodes /\ 2 <= MaxInodes + 1
    BY DEF Root, Inodes, InodeConstants
  <2>4. \A i \in DOMAIN table.byInode :
           /\ table.byInode[i].node \in {Root} \cup Nodes
           /\ "parent" \in DOMAIN table.byInode[i] /\ table.byInode[i].parent \in Inodes
    BY <2>2, <2>3
  <2>5. \A i \in DOMAIN table.lookups : table.lookups[i] \in Nat
    BY <2>2
  <2> QED BY <2>1, <2>2, <2>3, <2>4, <2>5, Zenon DEF TableOK
<1>3. Surroundings
  <2>1. entries \in [Folders \X Names -> Nodes \cup {NoNode}]
    BY Zenon DEF Init, InodeConstants
  <2>2. born \subseteq Nodes
    BY <2>1, Zenon DEF Init
  <2> QED BY <1>1, <1>2, <2>1, <2>2 DEF Surroundings, InodeConstants
<1>4. ASSUME NEW i \in Inodes PROVE Cardinality(Releasing(i)) <= opened[i]
  <2>1. Releasing(i) = {}
    BY <1>1, Zenon DEF Releasing
  <2> QED BY <1>1, <2>1, FS_EmptySet
<1>5. LookupsMatchKernel
  <2>1. ASSUME NEW i \in Inodes PROVE Count(i) = kernel[i] + Forgetting(i)
    <3>1. UNION {Units(t) : t \in {u \in Tasks : Forgets(tasks[u], i)}} = {}
      BY <1>1, Zenon DEF Forgets
    <3>2. Forgetting(i) = 0
      BY <3>1, FS_EmptySet, Zenon DEF Forgetting
    <3>3. Count(i) = 0
      BY DEF Init, Count
    <3> QED BY <1>1, <3>2, <3>3
  <2> QED BY <2>1, Zenon DEF LookupsMatchKernel
<1>6. tasks = [t \in Tasks |-> tasks[t]] /\ \A t \in Tasks : TaskOK(tasks[t])
  BY <1>1, IdleOK, Zenon
<1> QED BY <1>3, <1>4, <1>5, <1>6, Zenon DEF InodesInv

LEMMA InodesInvStep == ASSUME InodeConstants, InodesInv, [Next]_vars PROVE InodesInv'
<1>1. ASSUME NEW t \in Tasks, Step(t) PROVE InodesInv'
  BY <1>1, MapSteps, CountSteps, ForgetSteps, Zenon DEF Step
<1>2. CASE UNCHANGED vars
  <2>1. Surroundings'
    BY <1>2, SurroundingsKept, Zenon DEF vars, InodesInv, Surroundings
  <2> QED BY <1>2, <2>1, OutsideMoves, Zenon DEF vars
<1> QED BY <1>1, <1>2, CallMoves, OwnTasks, OtherSteps, Zenon DEF Next

\* Every reference is counted: in every state the adapter's lookup count of an
\* inode is what the kernel holds plus what forgets on their way will give
\* back, and no handle count falls below zero, for any export, any number of
\* tasks and any number of callbacks (add_lookup, evict_inode, release_async).
THEOREM LookupsAreCounted == ASSUME InodeConstants PROVE Spec => []LookupsCounted
<1>1. Init => InodesInv
  BY InodesInvInit, Zenon
<1>2. InodesInv /\ [Next]_vars => InodesInv'
  BY InodesInvStep, Zenon
<1>3. InodesInv => LookupsCounted
  <2> SUFFICES ASSUME InodesInv PROVE TypeOK
    BY Zenon DEF LookupsCounted, InodesInv
  <2>2. /\ DOMAIN table.byInode \subseteq 1 .. table.next - 1 /\ table.next \in 2 .. MaxInodes + 1
        /\ \A i \in DOMAIN table.byInode :
             table.byInode[i].node \in {Root} \cup Nodes /\ table.byInode[i].parent \in Inodes
    BY SMTT(30) DEF InodesInv, Surroundings, TableOK, Agree, Relation, InodeConstants
  <2>3. opened \in [Inodes -> Nat]
    <3>1. opened \in [Inodes -> Int] /\ \A i \in Inodes : Cardinality(Releasing(i)) <= opened[i]
      BY Zenon DEF InodesInv, Surroundings
    <3>2. \A i \in Inodes : Cardinality(Releasing(i)) \in Nat
      BY ReleasingIsNat, Zenon
    <3>3. \A i \in Inodes : opened[i] \in Nat
      BY <3>1, <3>2
    <3> QED BY <3>1, <3>3, Zenon
  <2> QED BY <2>2, <2>3, Zenon DEF TypeOK, InodesInv, Surroundings
<1> QED BY <1>1, <1>2, <1>3, PTL DEF Spec

=============================================================================
