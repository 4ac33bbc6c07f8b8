------------------------- MODULE BlockFetcherProofs -------------------------
(***************************************************************************)
(* Proofs about shared fetches, for any number of readers, speculative     *)
(* fetches, blocks, revisions and faults.                                  *)
(***************************************************************************)
EXTENDS BlockFetcher, TLAPS

AllKeys == [revision : Nat, block : Blocks]

\* A range in the cache is of the revision of its key.
Ranges == {x \in AllKeys \X Nat : x[2] = x[1].revision}

\* What a fetch of key k may have given.
Results(k) == {Pending, Stale, Offline, Ok(k.revision)}

\* The steps of fetch_block that have a cell, and all that have a key.
Using == {"wait", "request", "remove"}
Keyed == {"register", "wait", "request", "remove"}

IsCall(q) ==
    /\ DOMAIN q = {"pc", "key", "cell", "answer"}
    /\ q.pc \in Keyed \cup {"idle", "done"}
    /\ q.cell = None <=> q.pc \notin Using
    /\ q.pc \in Using => q.cell \in Cells
    /\ q.pc \in Keyed => q.key \in AllKeys

\* A call, its cell and the map of shared fetches: a fetch without result is the one
\* registered for its key, whose initializer is on the wire or was dropped.
CallInv(f, t, s, m) ==
    t[f].cell # None =>
        /\ s[t[f].cell].result \in Results(t[f].key)
        /\ s[t[f].cell].result = Pending => t[f].key \in DOMAIN m /\ m[t[f].key] = t[f].cell
        /\ \A k \in DOMAIN m : m[k] = t[f].cell => k = t[f].key
        /\ t[f].pc = "request" => s[t[f].cell] = [leader |-> f, result |-> Pending]

KeyInv(k, s, m) ==
    /\ k \in AllKeys /\ m[k] \in Cells /\ s[m[k]].result \in Results(k)
    /\ \A j \in DOMAIN m : m[j] = m[k] => j = k

LeaderInv(c, t, s) ==
    s[c].result = Pending /\ s[c].leader # None =>
        s[c].leader \in Calls /\ t[s[c].leader].pc = "request" /\ t[s[c].leader].cell = c

\* A demand read: its calls are at its revision, and none is left over.
ReaderInv(r, x, t) ==
    /\ DOMAIN x = {"pc", "span", "revision", "attempt", "floor", "data"}
    /\ x.revision \in Nat /\ x.span \subseteq Blocks
    /\ x.pc = "read" => x.span # {}
    /\ x.pc = "answered" => x.data = {x.revision}
    /\ \A b \in Blocks :
          /\ x.pc # "read" \/ b \notin x.span => t[<< r, b >>].pc = "idle"
          /\ t[<< r, b >>].pc \in Keyed => t[<< r, b >>].key = Key(x.revision, b)
          /\ t[<< r, b >>].pc = "done" => t[<< r, b >>].answer \in {Stale, Offline, Ok(x.revision)}

CacheInv ==
    /\ file \in Nat /\ handle \in [Readers -> Nat] /\ workload \in Workloads
    /\ hot \subseteq Ranges /\ disk \subseteq Ranges /\ jobs \in Seq(Ranges \cup {"invalidate"})

CallsInv == calls = [f \in Calls |-> calls[f]] /\ \A f \in Calls : IsCall(calls[f])

SharedInv ==
    /\ cells = [c \in Cells |-> cells[c]] /\ \A c \in Cells : DOMAIN cells[c] = {"leader", "result"}
    /\ \A f \in Calls : CallInv(f, calls, cells, fetches)
    /\ \A k \in DOMAIN fetches : KeyInv(k, cells, fetches)
    /\ \A c \in Cells : LeaderInv(c, calls, cells)

ReadersInv ==
    readers = [r \in Readers |-> readers[r]] /\ \A r \in Readers : ReaderInv(r, readers[r], calls)

FetchInv == CacheInv /\ CallsInv /\ SharedInv /\ ReadersInv

-----------------------------------------------------------------------------
\* Call f takes a step and becomes q.
Became(f, q) ==
    /\ calls' = [g \in Calls |-> calls'[g]] /\ calls'[f] = q
    /\ \A g \in Calls : g # f => calls'[g] = calls[g]

LEMMA BecameFacts ==
    ASSUME CallsInv, NEW f \in Calls, NEW q, calls' = [calls EXCEPT ![f] = q], IsCall(q)
    PROVE  Became(f, q) /\ CallsInv'
BY Zenon DEF CallsInv, Became

\* A call of a demand read keeps its key and ends with what its fetch gave.
LEMMA ReadersKept ==
    ASSUME CallsInv, ReadersInv, FetcherConstants, NEW f \in Calls, NEW q, Became(f, q),
           UNCHANGED readers, calls[f].pc \in Keyed,
           q.pc \in Keyed => q.key = calls[f].key,
           q.pc = "done" => q.answer \in {Stale, Offline, Ok(calls[f].key.revision)}
    PROVE  ReadersInv'
<1>1. ASSUME NEW r \in Readers PROVE ReaderInv(r, readers[r], calls')
  <2>1. ReaderInv(r, readers[r], calls)
    BY Zenon DEF ReadersInv
  <2>2. ASSUME NEW b \in Blocks
        PROVE  /\ readers[r].pc # "read" \/ b \notin readers[r].span => calls'[<< r, b >>].pc = "idle"
               /\ calls'[<< r, b >>].pc \in Keyed => calls'[<< r, b >>].key = Key(readers[r].revision, b)
               /\ calls'[<< r, b >>].pc = "done" =>
                     calls'[<< r, b >>].answer \in {Stale, Offline, Ok(readers[r].revision)}
    <3>0. << r, b >> \in Calls
      BY Zenon DEF Calls
    <3>1. /\ readers[r].pc # "read" \/ b \notin readers[r].span => calls[<< r, b >>].pc = "idle"
          /\ calls[<< r, b >>].pc \in Keyed => calls[<< r, b >>].key = Key(readers[r].revision, b)
          /\ calls[<< r, b >>].pc = "done" =>
                calls[<< r, b >>].answer \in {Stale, Offline, Ok(readers[r].revision)}
      BY <2>1, Zenon DEF ReaderInv
    <3>2. CASE << r, b >> # f
      BY <3>0, <3>1, <3>2, Zenon DEF Became
    <3>3. CASE << r, b >> = f
      <4>1. calls'[<< r, b >>] = q /\ calls[<< r, b >>].pc # "idle"
        BY <3>3, Zenon DEF Became, Keyed
      <4>2. calls[f].key = Key(readers[r].revision, b)
        BY <3>1, <3>3, Zenon
      <4>3. calls[f].key.revision = readers[r].revision
        BY <4>2 DEF Key
      <4> QED BY <3>1, <4>1, <4>2, <4>3, Zenon
    <3> QED BY <3>2, <3>3, Zenon
  <2> QED BY <2>1, <2>2, Zenon DEF ReaderInv
<1> QED BY <1>1, Zenon DEF ReadersInv

LEMMA SpeculatorsFree ==
    ASSUME ReadersInv, FetcherConstants, NEW f \in Calls, f[1] \in Speculators, NEW q, Became(f, q),
           UNCHANGED readers
    PROVE  ReadersInv'
<1>1. ASSUME NEW r \in Readers PROVE ReaderInv(r, readers[r], calls')
  <2>1. ReaderInv(r, readers[r], calls)
    BY Zenon DEF ReadersInv
  <2>2. ASSUME NEW b \in Blocks PROVE calls'[<< r, b >>] = calls[<< r, b >>]
    <3>1. << r, b >> \in Calls /\ << r, b >>[1] = r
      BY Zenon DEF Calls
    <3>2. << r, b >> # f
      BY <3>1, Zenon DEF FetcherConstants
    <3> QED BY <3>1, <3>2, Zenon DEF Became
  <2> QED BY <2>1, <2>2, Zenon DEF ReaderInv
<1> QED BY <1>1, Zenon DEF ReadersInv

-----------------------------------------------------------------------------
\* The call initializes a cell that is registered for its key, and that no other
\* call initializes.
Owns(f, c, m) ==
    /\ calls[f].key \in DOMAIN m /\ m[calls[f].key] = c
    /\ \A k \in DOMAIN m : m[k] = c => k = calls[f].key
    /\ \A k \in DOMAIN m : k # calls[f].key => k \in DOMAIN fetches /\ m[k] = fetches[k]
    /\ \A k \in DOMAIN fetches : k \in DOMAIN m
    /\ calls[f].key \in DOMAIN fetches => fetches[calls[f].key] = c
    /\ \A g \in Calls : g # f /\ calls[g].cell = c =>
                           calls[g].key = calls[f].key /\ calls[g].pc # "request"

LEMMA InitializesShared ==
    ASSUME FetchInv, FetcherConstants, NEW f \in Calls, NEW c \in Cells, NEW m, NEW q,
           calls[f].pc \in Keyed, Became(f, q), q.key = calls[f].key, q.cell = c, IsCall(q),
           q.pc \in {"request", "remove"},
           NEW res \in Results(calls[f].key),
           res = Pending <=> q.pc = "request",
           cells' = [cells EXCEPT ![c] = [leader |-> f, result |-> res]],
           fetches' = m, Owns(f, c, m)
    PROVE  SharedInv'
<1> USE DEF Owns
<1> DEFINE k0 == calls[f].key
           new == [leader |-> f, result |-> res]
<1>0. /\ CallsInv /\ SharedInv /\ k0 \in AllKeys /\ c # None /\ f # None
      /\ \A g \in Calls : IsCall(calls[g])
  BY Zenon DEF FetchInv, CallsInv, IsCall, FetcherConstants
<1>1. /\ cells' = [d \in Cells |-> cells'[d]] /\ cells'[c] = new
      /\ \A d \in Cells : d # c => cells'[d] = cells[d]
      /\ new.leader = f /\ new.result = res /\ DOMAIN new = {"leader", "result"}
  BY <1>0, Zenon DEF SharedInv
<1>2. \A d \in Cells : DOMAIN cells'[d] = {"leader", "result"}
  BY <1>0, <1>1, Zenon DEF SharedInv
<1> HIDE DEF new
<1>3. ASSUME NEW g \in Calls PROVE CallInv(g, calls', cells', fetches')
  <2>1. CASE g = f
    <3>1. calls'[g] = q
      BY <2>1, Zenon DEF Became
    <3>2. q.pc = "request" => cells'[c] = [leader |-> f, result |-> Pending]
      BY <1>1, Zenon DEF new
    <3> QED BY <1>1, <2>1, <3>1, <3>2, Zenon DEF CallInv
  <2>2. CASE g # f
    <3>1. calls'[g] = calls[g] /\ CallInv(g, calls, cells, fetches) /\ IsCall(calls[g])
      BY <1>0, <2>2, Zenon DEF Became, SharedInv
    <3>2. CASE calls[g].cell = c
      BY <1>0, <1>1, <2>2, <3>1, <3>2 DEF CallInv
    <3>3. CASE calls[g].cell # c /\ calls[g].cell # None
      <4>1. calls[g].cell \in Cells
        BY <3>1, <3>3, Zenon DEF IsCall
      <4>2. cells'[calls[g].cell] = cells[calls[g].cell]
        BY <1>1, <3>3, <4>1, Zenon
      <4>3. \A k \in DOMAIN m : m[k] = calls[g].cell => k = calls[g].key
        BY <3>1, <3>3 DEF CallInv
      <4>4. cells[calls[g].cell].result = Pending =>
               calls[g].key \in DOMAIN m /\ m[calls[g].key] = calls[g].cell
        BY <3>1, <3>3, Zenon DEF CallInv
      <4> QED BY <3>1, <3>3, <4>2, <4>3, <4>4 DEF CallInv
    <3> QED BY <3>1, <3>2, <3>3, Zenon DEF CallInv
  <2> QED BY <2>1, <2>2, Zenon
<1>4. ASSUME NEW k \in DOMAIN m PROVE KeyInv(k, cells', m)
  <2>1. CASE k = k0
    BY <1>0, <1>1, <2>1 DEF KeyInv
  <2>2. CASE k # k0
    <3>1. k \in DOMAIN fetches /\ m[k] = fetches[k] /\ KeyInv(k, cells, fetches) /\ m[k] # c
      BY <1>0, <2>2, Zenon DEF SharedInv
    <3> QED BY <1>1, <3>1 DEF KeyInv
  <2> QED BY <2>1, <2>2, Zenon
<1>5. ASSUME NEW d \in Cells PROVE LeaderInv(d, calls', cells')
  <2>1. CASE d = c
    BY <1>1, <2>1 DEF LeaderInv, Became
  <2>2. CASE d # c
    <3>1. LeaderInv(d, calls, cells) /\ cells'[d] = cells[d]
      BY <1>0, <1>1, <2>2, Zenon DEF SharedInv
    <3>2. ASSUME cells[d].result = Pending, cells[d].leader # None, cells[d].leader = f PROVE FALSE
      <4>1. calls[f].pc = "request" /\ calls[f].cell = d
        BY <3>1, <3>2, Zenon DEF LeaderInv
      <4>2. CallInv(f, calls, cells, fetches) /\ d # None
        BY <1>0, <4>1, Zenon DEF SharedInv, IsCall, Using
      <4>3. fetches[k0] = d /\ k0 \in DOMAIN fetches
        BY <3>2, <4>1, <4>2, Zenon DEF CallInv
      <4> QED BY <2>2, <4>3, Zenon
    <3> QED BY <3>1, <3>2, Zenon DEF LeaderInv, Became
  <2> QED BY <2>1, <2>2, Zenon
<1> QED BY <1>1, <1>2, <1>3, <1>4, <1>5, Zenon DEF SharedInv

\* What the cache holds of a key is of its revision.
LEMMA DataFacts ==
    ASSUME NEW tier \in SUBSET Ranges, NEW k, NEW d \in Data(tier, k)
    PROVE  d = k.revision /\ << k, d >> \in Ranges
<1>1. << k, d >> \in Ranges
  BY Zenon DEF Data
<1> QED BY <1>1, Zenon DEF Ranges

LEMMA ResultFacts ==
    ASSUME NEW d
    PROVE  /\ Ok(d) # Pending /\ Stale # Pending /\ Offline # Pending /\ Ok(d)[1] = "ok"
           /\ Ok(d)[2] = d /\ Stale[1] # "ok" /\ Offline[1] # "ok" /\ Ok(d) # Stale /\ Ok(d) # Offline
           /\ Pending[1] # "ok"
BY Zenon DEF Ok, Pending, Stale, Offline

\* get_or_init of a cell that is this call's to initialize.
LEMMA InitializesSteps ==
    ASSUME FetchInv, FetcherConstants, NEW f \in Calls, NEW c \in Cells, NEW m,
           calls[f].pc \in Keyed, Initializes(f, c), fetches' = m, Owns(f, c, m),
           UNCHANGED << file, handle, disk, jobs, readers, workload >>
    PROVE  FetchInv'
<1> DEFINE k == calls[f].key
<1>0. /\ CallsInv /\ CacheInv /\ ReadersInv /\ IsCall(calls[f]) /\ k \in AllKeys
  BY Zenon DEF FetchInv, CallsInv, IsCall
<1>1. ASSUME NEW q, IsCall(q), q.pc \in {"request", "remove"}, q.key = k, q.cell = c,
             calls' = [calls EXCEPT ![f] = q],
             NEW res \in Results(k), res = Pending <=> q.pc = "request",
             cells' = [cells EXCEPT ![c] = [leader |-> f, result |-> res]],
             hot' \subseteq Ranges
      PROVE  FetchInv'
  <2>1. Became(f, q) /\ CallsInv'
    BY <1>0, <1>1, BecameFacts, Zenon
  <2>2. SharedInv'
    BY <1>1, <2>1, InitializesShared, Zenon
  <2>3. ReadersInv'
    <3>1. q.pc # "done"
      BY <1>1, Zenon
    <3> QED BY <1>0, <1>1, <2>1, <3>1, ReadersKept, Zenon
  <2>4. CacheInv'
    BY <1>0, <1>1, Zenon DEF CacheInv
  <2> QED BY <2>1, <2>2, <2>3, <2>4, Zenon DEF FetchInv
<1>2. \A pc \in {"request", "remove"} :
         LET q == [calls[f] EXCEPT !.pc = pc, !.cell = c]
         IN  IsCall(q) /\ q.pc = pc /\ q.key = k /\ q.cell = c
  <2> SUFFICES ASSUME NEW pc \in {"request", "remove"}
               PROVE  LET q == [calls[f] EXCEPT !.pc = pc, !.cell = c]
                      IN  IsCall(q) /\ q.pc = pc /\ q.key = k /\ q.cell = c
    BY Zenon
  <2> DEFINE q == [calls[f] EXCEPT !.pc = pc, !.cell = c]
  <2>1. /\ DOMAIN q = {"pc", "key", "cell", "answer"} /\ q.pc = pc /\ q.key = k /\ q.cell = c
    BY <1>0, Zenon DEF IsCall
  <2> HIDE DEF q
  <2>2. IsCall(q)
    BY <1>0, <2>1, Zenon DEF IsCall, Keyed, Using, FetcherConstants
  <2> QED BY <2>1, <2>2, Zenon DEF q
<1>3. CASE Data(hot \cup disk, k) = {}
  <2> DEFINE q == [calls[f] EXCEPT !.pc = "request", !.cell = c]
  <2>1. /\ calls' = [calls EXCEPT ![f] = q] /\ UNCHANGED hot
        /\ cells' = [cells EXCEPT ![c] = [leader |-> f, result |-> Pending]]
    BY <1>3, Zenon DEF Initializes
  <2>2. IsCall(q) /\ q.pc = "request" /\ q.key = k /\ q.cell = c
    BY <1>2, Zenon
  <2> HIDE DEF q
  <2>3. Pending \in Results(k) /\ hot' \subseteq Ranges
    BY <1>0, <2>1, Zenon DEF Results, CacheInv
  <2> QED BY <1>1, <2>1, <2>2, <2>3, Zenon
<1>4. CASE Data(hot \cup disk, k) # {}
  <2> DEFINE q == [calls[f] EXCEPT !.pc = "remove", !.cell = c]
  <2>1. PICK d \in IF Data(hot, k) # {} THEN Data(hot, k) ELSE Data(disk, k) :
           /\ calls' = [calls EXCEPT ![f] = q]
           /\ cells' = [cells EXCEPT ![c] = [leader |-> f, result |-> Ok(d)]]
           /\ hot' = hot \cup {<< k, d >>}
    BY <1>4, ZenonT(20) DEF Initializes
  <2>2. IsCall(q) /\ q.pc = "remove" /\ q.key = k /\ q.cell = c
    BY <1>2, Zenon
  <2> HIDE DEF q
  <2>3. d = k.revision /\ << k, d >> \in Ranges
    <3>1. hot \in SUBSET Ranges /\ disk \in SUBSET Ranges
      BY <1>0, Zenon DEF CacheInv
    <3> QED BY <3>1, DataFacts, Zenon
  <2>4. Ok(d) \in Results(k) /\ Ok(d) # Pending /\ hot' \subseteq Ranges
    BY <1>0, <2>1, <2>3, ResultFacts, Zenon DEF Results, CacheInv
  <2> QED BY <1>1, <2>1, <2>2, <2>4, Zenon
<1> QED BY <1>3, <1>4, Zenon

\* fetch_block joins the registered fetch, registers one, or takes over a dropped one.
LEMMA RegisterSteps ==
    ASSUME FetchInv, FetcherConstants, NEW f \in Calls, Register(f) \/ Lead(f)
    PROVE  FetchInv'
<1> DEFINE k == calls[f].key
<1>0. /\ CallsInv /\ CacheInv /\ ReadersInv /\ SharedInv /\ IsCall(calls[f])
      /\ calls[f].pc \in Keyed /\ k \in AllKeys
      /\ UNCHANGED << file, handle, disk, jobs, readers, workload >>
  BY Zenon DEF FetchInv, CallsInv, IsCall, Register, Lead, Keyed, bounds
<1>1. CASE Register(f) /\ k \in DOMAIN fetches
  <2> DEFINE q == [calls[f] EXCEPT !.pc = "wait", !.cell = fetches[k]]
  <2>1. calls' = [calls EXCEPT ![f] = q] /\ UNCHANGED << cells, fetches, hot >>
    BY <1>1, Zenon DEF Register
  <2>2. KeyInv(k, cells, fetches) /\ fetches[k] \in Cells /\ fetches[k] # None
    BY <1>0, <1>1, Zenon DEF SharedInv, KeyInv, FetcherConstants
  <2>3. /\ DOMAIN q = {"pc", "key", "cell", "answer"} /\ q.pc = "wait" /\ q.key = k
        /\ q.cell = fetches[k]
    BY <1>0, Zenon DEF IsCall
  <2> HIDE DEF q
  <2>4. IsCall(q)
    BY <1>0, <2>2, <2>3, Zenon DEF IsCall, Keyed, Using
  <2>5. Became(f, q) /\ CallsInv'
    BY <1>0, <2>1, <2>4, BecameFacts, Zenon
  <2>6. ReadersInv'
    BY <1>0, <2>3, <2>5, ReadersKept, Zenon
  <2>7. ASSUME NEW g \in Calls PROVE CallInv(g, calls', cells, fetches)
    <3>1. CASE g = f
      <4>1. calls'[g] = q
        BY <2>5, <3>1, Zenon DEF Became
      <4> QED BY <1>1, <2>2, <2>3, <4>1, Zenon DEF CallInv, KeyInv
    <3>2. CASE g # f
      BY <1>0, <2>5, <3>2, Zenon DEF SharedInv, CallInv, Became
    <3> QED BY <3>1, <3>2, Zenon
  <2>8. \A c \in Cells : LeaderInv(c, calls', cells)
    BY <1>0, <1>1, <2>5, Zenon DEF SharedInv, LeaderInv, Became, Register
  <2>9. SharedInv'
    BY <1>0, <2>1, <2>7, <2>8, Zenon DEF SharedInv
  <2>10. CacheInv'
    BY <1>0, <2>1, Zenon DEF CacheInv
  <2> QED BY <2>5, <2>6, <2>9, <2>10, Zenon DEF FetchInv
<1>2. CASE Register(f) /\ k \notin DOMAIN fetches
  <2> DEFINE c == NewCell
             m == [j \in DOMAIN fetches \cup {k} |-> IF j = k THEN c ELSE fetches[j]]
  <2>1. c \in Cells /\ Unused(c) /\ Initializes(f, c) /\ fetches' = m
    BY <1>2, Zenon DEF Register
  <2> HIDE DEF c
  <2>2. Owns(f, c, m)
    BY <1>2, <2>1, Zenon DEF Owns, Unused
  <2> HIDE DEF m
  <2> QED BY <1>0, <2>1, <2>2, InitializesSteps, Zenon
<1>3. CASE Lead(f)
  <2> DEFINE c == calls[f].cell
  <2>1. Initializes(f, c) /\ cells[c] = FreeCell /\ calls[f].pc = "wait" /\ UNCHANGED fetches
    BY <1>3, Zenon DEF Lead
  <2>2. c \in Cells /\ c # None /\ cells[c].result = Pending /\ cells[c].leader = None
    BY <1>0, <2>1 DEF IsCall, FreeCell, Using, FetcherConstants
  <2>3. CallInv(f, calls, cells, fetches)
    BY <1>0, Zenon DEF SharedInv
  <2>4. k \in DOMAIN fetches /\ fetches[k] = c /\ \A j \in DOMAIN fetches : fetches[j] = c => j = k
    BY <2>2, <2>3, Zenon DEF CallInv
  <2>5. ASSUME NEW g \in Calls, calls[g].cell = c PROVE calls[g].key = k /\ calls[g].pc # "request"
    <3>1. CallInv(g, calls, cells, fetches)
      BY <1>0, Zenon DEF SharedInv
    <3>2. calls[g].key = k
      BY <2>2, <2>4, <2>5, <3>1, Zenon DEF CallInv
    <3>3. g # None
      BY Zenon DEF FetcherConstants
    <3>4. calls[g].pc = "request" => cells[c].leader = g
      BY <2>2, <2>5, <3>1 DEF CallInv
    <3> QED BY <2>2, <3>2, <3>3, <3>4, Zenon
  <2>6. Owns(f, c, fetches)
    BY <2>4, <2>5, Zenon DEF Owns
  <2> QED BY <1>0, <2>1, <2>2, <2>6, InitializesSteps, Zenon
<1> QED BY <1>1, <1>2, <1>3, Zenon

\* The request of an initializer has an answer, or failed for good.
LEMMA FinishedSteps ==
    ASSUME FetchInv, FetcherConstants, NEW f \in Calls, calls[f].pc = "request",
           NEW res \in Results(calls[f].key), res # Pending,
           cells' = [cells EXCEPT ![calls[f].cell].result = res],
           calls' = [calls EXCEPT ![f].pc = "remove"], UNCHANGED << fetches, readers >>
    PROVE  CallsInv' /\ SharedInv' /\ ReadersInv'
<1> DEFINE k == calls[f].key
           c == calls[f].cell
           q == [calls[f] EXCEPT !.pc = "remove"]
<1>0. /\ CallsInv /\ ReadersInv /\ SharedInv /\ IsCall(calls[f]) /\ calls[f].pc \in Keyed
      /\ \A g \in Calls : IsCall(calls[g])
  BY Zenon DEF FetchInv, CallsInv, Keyed
<1>1. c \in Cells /\ c # None /\ CallInv(f, calls, cells, fetches)
  BY <1>0, Zenon DEF IsCall, Using, SharedInv
<1>2. /\ cells[c].result = Pending /\ k \in DOMAIN fetches /\ fetches[k] = c
      /\ \A j \in DOMAIN fetches : fetches[j] = c => j = k
  <2>1. cells[c] = [leader |-> f, result |-> Pending]
    BY <1>1, Zenon DEF CallInv
  <2>2. cells[c].result = Pending
    BY <2>1
  <2> QED BY <1>1, <2>2, Zenon DEF CallInv
<1>3. /\ DOMAIN q = {"pc", "key", "cell", "answer"} /\ q.pc = "remove" /\ q.key = k /\ q.cell = c
      /\ calls' = [calls EXCEPT ![f] = q]
  BY <1>0, Zenon DEF IsCall
<1> HIDE DEF q
<1>4. IsCall(q)
  BY <1>0, <1>1, <1>3, Zenon DEF IsCall, Using, Keyed
<1>5. Became(f, q) /\ CallsInv'
  BY <1>0, <1>3, <1>4, BecameFacts, Zenon
<1>6. ReadersInv'
  BY <1>0, <1>3, <1>5, ReadersKept, Zenon
<1>7. /\ cells' = [d \in Cells |-> cells'[d]] /\ cells'[c].result = res
      /\ \A d \in Cells : d # c => cells'[d] = cells[d]
      /\ \A d \in Cells : DOMAIN cells'[d] = {"leader", "result"}
  BY <1>0, <1>1, Zenon DEF SharedInv
<1>8. ASSUME NEW g \in Calls PROVE CallInv(g, calls', cells', fetches)
  <2>1. CASE g = f
    <3>1. calls'[g] = q
      BY <1>5, <2>1, Zenon DEF Became
    <3> QED BY <1>2, <1>3, <1>7, <3>1 DEF CallInv
  <2>2. CASE g # f
    <3>1. calls'[g] = calls[g] /\ CallInv(g, calls, cells, fetches) /\ IsCall(calls[g])
      BY <1>0, <1>5, <2>2, Zenon DEF Became, SharedInv
    <3>2. CASE calls[g].cell = c
      <4>1. calls[g].key = k
        BY <1>1, <1>2, <3>1, <3>2, Zenon DEF CallInv
      <4>2. calls[g].pc # "request"
        <5>1. calls[g].pc = "request" => cells[c] = [leader |-> g, result |-> Pending]
          BY <1>1, <3>1, <3>2, Zenon DEF CallInv
        <5>2. cells[c] = [leader |-> f, result |-> Pending]
          BY <1>1, Zenon DEF CallInv
        <5>3. calls[g].pc = "request" => cells[c].leader = g /\ cells[c].leader = f
          BY <5>1, <5>2
        <5> QED BY <2>2, <5>3, Zenon
      <4> QED BY <1>2, <1>7, <3>1, <3>2, <4>1, <4>2 DEF CallInv
    <3>3. CASE calls[g].cell # c
      <4>1. calls[g].cell # None => calls[g].cell \in Cells
        BY <3>1, Zenon DEF IsCall
      <4> QED BY <1>7, <3>1, <3>3, <4>1, Zenon DEF CallInv
    <3> QED BY <3>2, <3>3, Zenon
  <2> QED BY <2>1, <2>2, Zenon
<1>9. ASSUME NEW j \in DOMAIN fetches PROVE KeyInv(j, cells', fetches)
  <2>1. KeyInv(j, cells, fetches)
    BY <1>0, Zenon DEF SharedInv
  <2> QED BY <1>2, <1>7, <2>1, Zenon DEF KeyInv
<1>10. ASSUME NEW d \in Cells PROVE LeaderInv(d, calls', cells')
  <2>1. CASE d = c
    BY <1>7, <2>1, Zenon DEF LeaderInv
  <2>2. CASE d # c
    <3>1. LeaderInv(d, calls, cells) /\ cells'[d] = cells[d]
      BY <1>0, <1>7, <2>2, Zenon DEF SharedInv
    <3> QED BY <1>5, <2>2, <3>1, Zenon DEF LeaderInv, Became
  <2> QED BY <2>1, <2>2, Zenon
<1>11. SharedInv'
  BY <1>7, <1>8, <1>9, <1>10, Zenon DEF SharedInv
<1> QED BY <1>5, <1>6, <1>11, Zenon

LEMMA AnswerSteps ==
    ASSUME FetchInv, FetcherConstants, NEW f \in Calls, Answered(f) \/ RequestFails(f)
    PROVE  FetchInv'
<1> DEFINE k == calls[f].key
<1>0. /\ CacheInv /\ k \in AllKeys /\ calls[f].pc = "request" /\ calls' = [calls EXCEPT ![f].pc = "remove"]
      /\ UNCHANGED << fetches, readers, file, handle, disk, workload >>
  BY Zenon DEF FetchInv, CallsInv, IsCall, Keyed, Answered, RequestFails, cache, bounds
<1>1. ASSUME NEW res \in {Stale, Offline}, cells' = [cells EXCEPT ![calls[f].cell].result = res],
             UNCHANGED << hot, jobs >>
      PROVE  FetchInv'
  <2>1. res \in Results(k) /\ res # Pending
    BY ResultFacts, Zenon DEF Results
  <2>2. CallsInv' /\ SharedInv' /\ ReadersInv'
    BY <1>0, <1>1, <2>1, FinishedSteps, Zenon
  <2> QED BY <1>0, <1>1, <2>2, Zenon DEF FetchInv, CacheInv
<1>2. CASE RequestFails(f)
  BY <1>1, <1>2, Zenon DEF RequestFails, cache
<1>3. CASE Answered(f) /\ ~Expected(k)
  BY <1>1, <1>3, Zenon DEF Answered
<1>4. CASE Answered(f) /\ Expected(k)
  <2>1. /\ cells' = [cells EXCEPT ![calls[f].cell].result = Ok(file)]
        /\ hot' = hot \cup {<< k, file >>}
        /\ jobs' = IF TooLong THEN jobs ELSE Append(jobs, << k, file >>)
        /\ file = k.revision
    BY <1>4, Zenon DEF Answered, Expected
  <2>2. Ok(file) \in Results(k) /\ Ok(file) # Pending
    BY <2>1, ResultFacts, Zenon DEF Results
  <2>3. CallsInv' /\ SharedInv' /\ ReadersInv'
    BY <1>0, <2>1, <2>2, FinishedSteps, Zenon
  <2>4. << k, file >> \in Ranges
    BY <1>0, <2>1, Zenon DEF CacheInv, Ranges
  <2>5. CacheInv'
    <3>1. jobs \in Seq(Ranges \cup {"invalidate"}) /\ hot \subseteq Ranges
      BY <1>0, Zenon DEF CacheInv
    <3>2. jobs' \in Seq(Ranges \cup {"invalidate"}) /\ hot' \subseteq Ranges
      BY <2>1, <2>4, <3>1
    <3> QED BY <1>0, <3>2, Zenon DEF CacheInv
  <2> QED BY <2>3, <2>5, Zenon DEF FetchInv
<1> QED BY <1>2, <1>3, <1>4, Zenon

-----------------------------------------------------------------------------
\* A call has the result of its cell and takes the cell out of the map.
LEMMA RemoveSteps ==
    ASSUME FetchInv, FetcherConstants, NEW f \in Calls, Remove(f)
    PROVE  FetchInv'
<1> DEFINE k == calls[f].key
           c == calls[f].cell
           res == cells[c].result
           q == IF f[1] \in Readers THEN [IdleCall EXCEPT !.pc = "done", !.answer = res] ELSE IdleCall
           m == IF RemovesOwn(f) THEN [j \in DOMAIN fetches \ {k} |-> fetches[j]] ELSE fetches
<1>0. /\ CallsInv /\ ReadersInv /\ SharedInv /\ CacheInv /\ IsCall(calls[f])
      /\ \A g \in Calls : IsCall(calls[g])
  BY Zenon DEF FetchInv, CallsInv
<1>1. /\ calls[f].pc \in {"wait", "remove"} /\ res # Pending /\ fetches' = m
      /\ calls' = [calls EXCEPT ![f] = q] /\ cells' = Kept(f, m)
      /\ UNCHANGED << file, handle, hot, disk, jobs, readers, workload >>
  BY Zenon DEF Remove, cache, bounds
<1>2. c \in Cells /\ c # None /\ CallInv(f, calls, cells, fetches) /\ calls[f].pc \in Keyed
  BY <1>0, <1>1, Zenon DEF IsCall, Using, SharedInv, Keyed
<1>3. res \in {Stale, Offline, Ok(k.revision)}
  BY <1>1, <1>2, Zenon DEF CallInv, Results
<1>4. /\ IsCall(q) /\ q.cell = None /\ q.pc \in {"idle", "done"}
      /\ q.pc = "done" => q.answer = res
  BY Zenon DEF IsCall, IdleCall, Using, Keyed
<1>5. /\ DOMAIN m \subseteq DOMAIN fetches /\ \A j \in DOMAIN m : m[j] = fetches[j]
      /\ \A j \in DOMAIN fetches : fetches[j] # c => j \in DOMAIN m
  BY Zenon DEF RemovesOwn
<1> HIDE DEF q, m
<1>6. Became(f, q) /\ CallsInv'
  BY <1>0, <1>1, <1>4, BecameFacts, Zenon
<1>7. ReadersInv'
  BY <1>0, <1>1, <1>2, <1>3, <1>4, <1>6, ReadersKept, Zenon DEF Keyed
<1>8. /\ cells' = [d \in Cells |-> cells'[d]]
      /\ \A d \in Cells : cells'[d] = cells[d] \/ cells'[d] = FreeCell
      /\ \A j \in DOMAIN m : m[j] \in Cells => cells'[m[j]] = cells[m[j]]
      /\ \A g \in Calls : g # f /\ calls[g].cell \in Cells => cells'[calls[g].cell] = cells[calls[g].cell]
  BY <1>1, Zenon DEF Kept
<1>9. ASSUME NEW g \in Calls PROVE CallInv(g, calls', cells', m)
  <2>1. CASE g = f
    BY <1>4, <1>6, <2>1, Zenon DEF CallInv, Became
  <2>2. CASE g # f
    <3>1. calls'[g] = calls[g] /\ CallInv(g, calls, cells, fetches) /\ IsCall(calls[g])
      BY <1>0, <1>6, <2>2, Zenon DEF Became, SharedInv
    <3>2. ASSUME calls[g].cell # None
          PROVE  calls[g].cell \in Cells /\ cells'[calls[g].cell] = cells[calls[g].cell]
      BY <1>8, <2>2, <3>1, <3>2, Zenon DEF IsCall
    <3>3. ASSUME calls[g].cell # None, cells[calls[g].cell].result = Pending
          PROVE  calls[g].key \in DOMAIN m /\ m[calls[g].key] = calls[g].cell
      <4>1. calls[g].key \in DOMAIN fetches /\ fetches[calls[g].key] = calls[g].cell
        BY <3>1, <3>3, Zenon DEF CallInv
      <4>2. calls[g].cell # c
        BY <1>1, <3>3, Zenon
      <4> QED BY <1>5, <4>1, <4>2, Zenon
    <3> QED BY <1>5, <3>1, <3>2, <3>3, Zenon DEF CallInv
  <2> QED BY <2>1, <2>2, Zenon
<1>10. ASSUME NEW j \in DOMAIN m PROVE KeyInv(j, cells', m)
  <2>1. KeyInv(j, cells, fetches) /\ m[j] = fetches[j]
    BY <1>0, <1>5, Zenon DEF SharedInv
  <2> QED BY <1>5, <1>8, <2>1 DEF KeyInv
<1>11. ASSUME NEW d \in Cells PROVE LeaderInv(d, calls', cells')
  <2>1. LeaderInv(d, calls, cells) /\ (cells'[d] = cells[d] \/ cells'[d] = FreeCell)
    BY <1>0, <1>8, Zenon DEF SharedInv
  <2>2. FreeCell.leader = None
    BY Zenon DEF FreeCell
  <2>3. cells[d].result = Pending /\ cells[d].leader # None => cells[d].leader # f
    BY <1>1, <2>1, Zenon DEF LeaderInv
  <2> QED BY <1>6, <2>1, <2>2, <2>3, Zenon DEF LeaderInv, Became
<1>12. \A d \in Cells : DOMAIN cells'[d] = {"leader", "result"}
  BY <1>0, <1>8, Zenon DEF SharedInv, FreeCell
<1>13. SharedInv'
  BY <1>1, <1>8, <1>9, <1>10, <1>11, <1>12, Zenon DEF SharedInv
<1>14. CacheInv'
  BY <1>0, <1>1, Zenon DEF CacheInv
<1> QED BY <1>6, <1>7, <1>13, <1>14, Zenon DEF FetchInv

\* The future of a speculative fetch is dropped at its deadline.
LEMMA DeadlineSteps ==
    ASSUME FetchInv, FetcherConstants, NEW f \in Calls, Deadline(f)
    PROVE  FetchInv'
<1> DEFINE c == calls[f].cell
<1>0. /\ CallsInv /\ ReadersInv /\ SharedInv /\ CacheInv /\ IsCall(calls[f])
      /\ \A g \in Calls : IsCall(calls[g])
  BY Zenon DEF FetchInv, CallsInv
<1>1. /\ calls[f].pc \in {"wait", "request"} /\ f[1] \in Speculators
      /\ cells' = IF calls[f].pc = "wait" THEN cells ELSE [cells EXCEPT ![c] = Released(@)]
      /\ calls' = [calls EXCEPT ![f] = IdleCall]
      /\ UNCHANGED << file, handle, hot, disk, jobs, fetches, readers, workload >>
  BY Zenon DEF Deadline, cache
<1>2. c \in Cells /\ c # None /\ CallInv(f, calls, cells, fetches)
  BY <1>0, <1>1, Zenon DEF IsCall, Using, SharedInv
<1>3. IsCall(IdleCall) /\ IdleCall.cell = None /\ IdleCall.pc = "idle"
  BY Zenon DEF IsCall, IdleCall, Using, Keyed
<1>4. Became(f, IdleCall) /\ CallsInv'
  BY <1>0, <1>1, <1>3, BecameFacts, Zenon
<1>5. ReadersInv'
  BY <1>0, <1>1, <1>4, SpeculatorsFree, Zenon
<1>6. /\ cells' = [d \in Cells |-> cells'[d]]
      /\ \A d \in Cells : cells'[d].result = cells[d].result /\ DOMAIN cells'[d] = {"leader", "result"}
      /\ \A d \in Cells : d # c => cells'[d] = cells[d]
      /\ calls[f].pc = "wait" => cells' = cells
      /\ calls[f].pc = "request" => cells'[c].leader = None
  <2>1. CASE calls[f].pc = "wait"
    BY <1>0, <1>1, <2>1, Zenon DEF SharedInv
  <2>2. CASE calls[f].pc = "request"
    <3>1. DOMAIN cells[c] = {"leader", "result"} /\ cells = [d \in Cells |-> cells[d]]
      BY <1>0, <1>2, Zenon DEF SharedInv
    <3>2. cells' = [cells EXCEPT ![c] = [cells[c] EXCEPT !.leader = None]]
      BY <1>1, <2>2, Zenon DEF Released
    <3>3. /\ [cells[c] EXCEPT !.leader = None].result = cells[c].result
          /\ [cells[c] EXCEPT !.leader = None].leader = None
          /\ DOMAIN [cells[c] EXCEPT !.leader = None] = {"leader", "result"}
      BY <3>1, Zenon
    <3> QED BY <1>0, <1>2, <2>2, <3>1, <3>2, <3>3, Zenon DEF SharedInv
  <2> QED BY <1>1, <2>1, <2>2, Zenon
<1>7. ASSUME NEW g \in Calls PROVE CallInv(g, calls', cells', fetches)
  <2>1. CASE g = f
    BY <1>3, <1>4, <2>1, Zenon DEF CallInv, Became
  <2>2. CASE g # f
    <3>1. calls'[g] = calls[g] /\ CallInv(g, calls, cells, fetches) /\ IsCall(calls[g])
      BY <1>0, <1>4, <2>2, Zenon DEF Became, SharedInv
    <3>2. ASSUME calls[g].cell = c, calls[g].pc = "request", calls[f].pc = "request" PROVE FALSE
      <4>1. /\ cells[c] = [leader |-> g, result |-> Pending]
            /\ cells[c] = [leader |-> f, result |-> Pending]
        BY <1>2, <3>1, <3>2, Zenon DEF CallInv
      <4>2. cells[c].leader = g /\ cells[c].leader = f
        BY <4>1
      <4> QED BY <2>2, <4>2, Zenon
    <3>3. calls[g].cell # None => calls[g].cell \in Cells
      BY <3>1, Zenon DEF IsCall
    <3> QED BY <1>1, <1>6, <3>1, <3>2, <3>3 DEF CallInv
  <2> QED BY <2>1, <2>2, Zenon
<1>8. ASSUME NEW j \in DOMAIN fetches PROVE KeyInv(j, cells', fetches)
  BY <1>0, <1>6, Zenon DEF SharedInv, KeyInv
<1>9. ASSUME NEW d \in Cells PROVE LeaderInv(d, calls', cells')
  <2>1. LeaderInv(d, calls, cells)
    BY <1>0, Zenon DEF SharedInv
  <2>2. CASE calls[f].pc = "wait"
    BY <1>4, <1>6, <2>1, <2>2 DEF LeaderInv, Became
  <2>3. CASE calls[f].pc = "request" /\ d = c
    BY <1>6, <2>3, Zenon DEF LeaderInv
  <2>4. CASE d # c
    BY <1>4, <1>6, <2>1, <2>4 DEF LeaderInv, Became
  <2> QED BY <1>1, <2>2, <2>3, <2>4, Zenon
<1>10. SharedInv'
  BY <1>1, <1>6, <1>7, <1>8, <1>9, Zenon DEF SharedInv
<1>11. CacheInv'
  BY <1>0, <1>1, Zenon DEF CacheInv
<1> QED BY <1>4, <1>5, <1>10, <1>11, Zenon DEF FetchInv

-----------------------------------------------------------------------------
\* Calls without a cell leave what is shared alone.
LEMMA LooseCalls ==
    ASSUME CallsInv, SharedInv, UNCHANGED << cells, fetches >>, calls' = [g \in Calls |-> calls'[g]],
           \A g \in Calls : \/ calls'[g] = calls[g]
                            \/ calls[g].pc \notin Using /\ calls'[g].pc \notin Using /\ IsCall(calls'[g])
    PROVE  CallsInv' /\ SharedInv'
<1>1. \A g \in Calls : IsCall(calls[g])
  BY Zenon DEF CallsInv
<1>2. CallsInv'
  BY <1>1, Zenon DEF CallsInv
<1>3. ASSUME NEW g \in Calls PROVE CallInv(g, calls', cells, fetches)
  <2>1. CallInv(g, calls, cells, fetches)
    BY Zenon DEF SharedInv
  <2>2. CASE calls'[g] = calls[g]
    BY <2>1, <2>2, Zenon DEF CallInv
  <2>3. CASE calls'[g].pc \notin Using /\ IsCall(calls'[g])
    BY <2>3, Zenon DEF CallInv, IsCall
  <2> QED BY <2>2, <2>3, Zenon
<1>4. ASSUME NEW c \in Cells PROVE LeaderInv(c, calls', cells)
  <2>1. LeaderInv(c, calls, cells)
    BY Zenon DEF SharedInv
  <2>2. \A g \in Calls : calls[g].pc = "request" => calls'[g] = calls[g]
    BY Zenon DEF Using
  <2> QED BY <2>1, <2>2, Zenon DEF LeaderInv
<1> QED BY <1>2, <1>3, <1>4, Zenon DEF SharedInv

\* One demand read moves, and no other's calls do.
LEMMA ReaderMoves ==
    ASSUME ReadersInv, NEW r \in Readers, NEW x, readers' = [readers EXCEPT ![r] = x],
           ReaderInv(r, x, calls'),
           \A g \in Calls : g[1] \in Readers \ {r} => calls'[g] = calls[g]
    PROVE  ReadersInv'
<1>1. ASSUME NEW p \in Readers, p # r PROVE ReaderInv(p, readers[p], calls')
  <2>1. ReaderInv(p, readers[p], calls)
    BY Zenon DEF ReadersInv
  <2>2. ASSUME NEW b \in Blocks PROVE calls'[<< p, b >>] = calls[<< p, b >>]
    <3>1. << p, b >> \in Calls /\ << p, b >>[1] = p
      BY Zenon DEF Calls
    <3> QED BY <1>1, <3>1, Zenon
  <2> QED BY <2>1, <2>2 DEF ReaderInv
<1> QED BY <1>1, Zenon DEF ReadersInv

\* Calls of a demand read that begins, or begins again.
LEMMA CalledFacts ==
    ASSUME CallsInv, FetcherConstants, NEW r \in Readers, NEW span \in SUBSET Blocks, NEW v \in Nat,
           \A b \in Blocks : calls[<< r, b >>].pc \in {"idle", "done"} /\ (b \notin span => calls[<< r, b >>].pc = "idle"),
           calls' = Called(r, span, v)
    PROVE  /\ calls' = [g \in Calls |-> calls'[g]]
           /\ \A g \in Calls : \/ calls'[g] = calls[g]
                               \/ calls[g].pc \notin Using /\ calls'[g].pc \notin Using /\ IsCall(calls'[g])
           /\ \A g \in Calls : g[1] \in Readers \ {r} => calls'[g] = calls[g]
           /\ \A b \in Blocks : IF b \in span
                                THEN calls'[<< r, b >>].pc = "register" /\ calls'[<< r, b >>].key = Key(v, b)
                                ELSE calls'[<< r, b >>].pc = "idle"
<1> DEFINE q(b) == [IdleCall EXCEPT !.pc = "register", !.key = Key(v, b)]
<1>1. ASSUME NEW b \in Blocks
      PROVE  q(b).pc = "register" /\ q(b).key = Key(v, b) /\ IsCall(q(b))
  BY Zenon DEF IsCall, IdleCall, Using, Keyed, Key, AllKeys
<1>2. calls' = [g \in Calls |-> IF g[1] = r /\ g[2] \in span THEN q(g[2]) ELSE calls[g]]
  BY Zenon DEF Called
<1> HIDE DEF q
<1>3. ASSUME NEW b \in Blocks PROVE << r, b >> \in Calls /\ << r, b >>[1] = r /\ << r, b >>[2] = b
  BY Zenon DEF Calls
<1>4. ASSUME NEW b \in Blocks
      PROVE  IF b \in span THEN calls'[<< r, b >>].pc = "register" /\ calls'[<< r, b >>].key = Key(v, b)
             ELSE calls'[<< r, b >>].pc = "idle"
  <2>1. b \in span => calls'[<< r, b >>] = q(b)
    BY <1>2, <1>3, Zenon
  <2>2. b \notin span => calls'[<< r, b >>] = calls[<< r, b >>]
    BY <1>2, <1>3
  <2> QED BY <1>1, <2>1, <2>2, Zenon
<1>5. ASSUME NEW g \in Calls
      PROVE  \/ calls'[g] = calls[g]
             \/ calls[g].pc \notin Using /\ calls'[g].pc \notin Using /\ IsCall(calls'[g])
  <2>1. CASE g[1] = r /\ g[2] \in span
    <3>1. g = << r, g[2] >> /\ g[2] \in Blocks
      BY <2>1 DEF Calls
    <3>2. calls'[g] = q(g[2]) /\ calls[g].pc \in {"idle", "done"}
      BY <1>2, <2>1, <3>1, Zenon
    <3> QED BY <1>1, <3>1, <3>2, Zenon DEF Using
  <2>2. CASE ~(g[1] = r /\ g[2] \in span)
    BY <1>2, <2>2, Zenon
  <2> QED BY <2>1, <2>2, Zenon
<1> QED BY <1>2, <1>4, <1>5, Zenon

\* The calls of a demand read that has its answers.
LEMMA DoneFacts ==
    ASSUME FetchInv, NEW r \in Readers, AllDone(r)
    PROVE  /\ \A b \in Blocks : calls[<< r, b >>].pc \in {"idle", "done"}
                                /\ (b \notin readers[r].span => calls[<< r, b >>].pc = "idle")
           /\ \A a \in Answers(r) : a \in {Stale, Offline, Ok(readers[r].revision)}
           /\ Answers(r) # {} /\ readers[r].span # {} /\ readers[r].span \subseteq Blocks
           /\ readers[r].revision \in Nat /\ readers[r].pc = "read"
           /\ DOMAIN readers[r] = {"pc", "span", "revision", "attempt", "floor", "data"}
<1>1. ReaderInv(r, readers[r], calls)
  BY Zenon DEF FetchInv, ReadersInv
<1>2. /\ readers[r].pc = "read" /\ readers[r].span # {} /\ readers[r].span \subseteq Blocks
      /\ readers[r].revision \in Nat
      /\ DOMAIN readers[r] = {"pc", "span", "revision", "attempt", "floor", "data"}
  BY <1>1, Zenon DEF ReaderInv, AllDone
<1>3. \A b \in Blocks : calls[<< r, b >>].pc \in {"idle", "done"}
                        /\ (b \notin readers[r].span => calls[<< r, b >>].pc = "idle")
  BY <1>1, Zenon DEF ReaderInv, AllDone
<1>4. \A b \in readers[r].span : calls[<< r, b >>].answer \in {Stale, Offline, Ok(readers[r].revision)}
  BY <1>1, <1>2, Zenon DEF ReaderInv, AllDone
<1> QED BY <1>2, <1>3, <1>4, Zenon DEF Answers

\* A demand read that ends forgets its calls.
LEMMA QuietFacts ==
    ASSUME FetchInv, NEW r \in Readers, AllDone(r)
    PROVE  LET t == Quiet(r)
           IN  /\ t = [g \in Calls |-> t[g]]
               /\ \A g \in Calls : t[g] = calls[g] \/ (calls[g].pc \notin Using /\ t[g] = IdleCall)
               /\ \A g \in Calls : g[1] # r => t[g] = calls[g]
               /\ \A b \in Blocks : t[<< r, b >>] = IdleCall
<1>1. ASSUME NEW b \in Blocks PROVE << r, b >> \in Calls /\ << r, b >>[1] = r
  BY Zenon DEF Calls
<1>2. ASSUME NEW g \in Calls, g[1] = r PROVE calls[g].pc \notin Using
  <2>1. CASE g \in Readers \X Blocks
    <3>1. g = << r, g[2] >> /\ g[2] \in Blocks
      BY <1>2, <2>1
    <3>2. calls[g].pc \in {"idle", "done"}
      BY <3>1, DoneFacts, Zenon
    <3> QED BY <3>2, Zenon DEF Using
  <2>2. CASE g \in Speculators \X Blocks
    <3>1. g = << r, g[2] >> /\ g[2] \in Blocks
      BY <1>2, <2>2
    <3>2. calls[g].pc \in {"idle", "done"}
      BY <3>1, DoneFacts, Zenon
    <3> QED BY <3>2, Zenon DEF Using
  <2> QED BY <2>1, <2>2, Zenon DEF Calls
<1> QED BY <1>1, <1>2, Zenon DEF Quiet

LEMMA IdleFacts == IsCall(IdleCall) /\ IdleCall.pc = "idle" /\ "idle" \notin Using \cup Keyed
BY Zenon DEF IsCall, IdleCall, Using, Keyed

\* A demand read that ends with its data, or failed.
LEMMA EndSteps ==
    ASSUME FetchInv, FetcherConstants, NEW r \in Readers, AllDone(r), NEW x,
           readers' = [readers EXCEPT ![r] = x], calls' = Quiet(r),
           DOMAIN x = DOMAIN readers[r], x.span = readers[r].span, x.revision = readers[r].revision,
           x.pc \in {"answered", "failed"}, x.pc = "answered" => x.data = {x.revision},
           UNCHANGED << file, handle, hot, disk, jobs, cells, fetches, workload >>
    PROVE  FetchInv'
<1>0. CacheInv /\ CallsInv /\ SharedInv /\ ReadersInv
  BY Zenon DEF FetchInv
<1>1. /\ calls' = [g \in Calls |-> calls'[g]]
      /\ \A g \in Calls : calls'[g] = calls[g] \/ (calls[g].pc \notin Using /\ calls'[g] = IdleCall)
      /\ \A g \in Calls : g[1] # r => calls'[g] = calls[g]
      /\ \A b \in Blocks : calls'[<< r, b >>] = IdleCall
  BY QuietFacts, Zenon
<1>2. CallsInv' /\ SharedInv'
  BY <1>0, <1>1, IdleFacts, LooseCalls
<1>3. ReaderInv(r, x, calls')
  BY <1>1, IdleFacts, DoneFacts DEF ReaderInv, Keyed
<1>4. ReadersInv'
  BY <1>0, <1>1, <1>3, ReaderMoves, Zenon
<1>5. CacheInv'
  BY <1>0, Zenon DEF CacheInv
<1> QED BY <1>2, <1>4, <1>5, Zenon DEF FetchInv

\* A demand read begins, or begins again at a refreshed revision.
LEMMA CalledSteps ==
    ASSUME FetchInv, FetcherConstants, NEW r \in Readers, NEW x, NEW v \in Nat, NEW span \in SUBSET Blocks,
           span # {}, readers' = [readers EXCEPT ![r] = x], calls' = Called(r, span, v),
           \A b \in Blocks : calls[<< r, b >>].pc \in {"idle", "done"} /\ (b \notin span => calls[<< r, b >>].pc = "idle"),
           DOMAIN x = {"pc", "span", "revision", "attempt", "floor", "data"},
           x.pc = "read", x.span = span, x.revision = v,
           UNCHANGED << cells, fetches >>
    PROVE  CallsInv' /\ SharedInv' /\ ReadersInv'
<1>0. CacheInv /\ CallsInv /\ SharedInv /\ ReadersInv
  BY Zenon DEF FetchInv
<1>1. /\ calls' = [g \in Calls |-> calls'[g]]
      /\ \A g \in Calls : \/ calls'[g] = calls[g]
                          \/ calls[g].pc \notin Using /\ calls'[g].pc \notin Using /\ IsCall(calls'[g])
      /\ \A g \in Calls : g[1] \in Readers \ {r} => calls'[g] = calls[g]
      /\ \A b \in Blocks : IF b \in span
                           THEN calls'[<< r, b >>].pc = "register" /\ calls'[<< r, b >>].key = Key(v, b)
                           ELSE calls'[<< r, b >>].pc = "idle"
  BY <1>0, CalledFacts
<1>2. CallsInv' /\ SharedInv'
  BY <1>0, <1>1, LooseCalls, Zenon
<1>3. ReaderInv(r, x, calls')
  BY <1>1 DEF ReaderInv, Keyed
<1>4. ReadersInv'
  BY <1>0, <1>1, <1>3, ReaderMoves, Zenon
<1> QED BY <1>2, <1>4, Zenon

LEMMA BeginSteps ==
    ASSUME FetchInv, FetcherConstants, NEW r \in Readers, BeginRead(r)
    PROVE  FetchInv'
<1> DEFINE span == workload.span[r]
           x == [IdleReader EXCEPT !.pc = "read", !.span = span, !.revision = handle[r], !.floor = written]
<1>0. /\ CacheInv /\ ReadersInv /\ readers[r].pc # "read"
      /\ readers' = [readers EXCEPT ![r] = x] /\ calls' = Called(r, span, handle[r])
      /\ UNCHANGED << file, handle, hot, disk, jobs, cells, fetches, workload >>
  BY Zenon DEF FetchInv, BeginRead, cache
<1>1. span # {} /\ span \in SUBSET Blocks /\ handle[r] \in Nat
  BY <1>0, Zenon DEF CacheInv, FetcherConstants
<1>2. \A b \in Blocks : calls[<< r, b >>].pc = "idle"
  BY <1>0, Zenon DEF ReadersInv, ReaderInv
<1>3. /\ DOMAIN x = {"pc", "span", "revision", "attempt", "floor", "data"}
      /\ x.pc = "read" /\ x.span = span /\ x.revision = handle[r]
  BY Zenon DEF IdleReader
<1> HIDE DEF x, span
<1>4. CallsInv' /\ SharedInv' /\ ReadersInv'
  BY <1>0, <1>1, <1>2, <1>3, CalledSteps, Zenon
<1>5. CacheInv'
  BY <1>0, Zenon DEF CacheInv
<1> QED BY <1>4, <1>5, Zenon DEF FetchInv

LEMMA RefreshSteps ==
    ASSUME FetchInv, FetcherConstants, NEW r \in Readers, Refresh(r)
    PROVE  FetchInv'
<1>0. /\ CacheInv /\ AllDone(r) /\ UNCHANGED << file, hot, disk, jobs, cells, fetches, workload >>
  BY Zenon DEF FetchInv, Refresh, cache, bounds
<1>1. CASE readers[r].attempt < Retries
  <2> DEFINE x == [readers[r] EXCEPT !.attempt = @ + 1, !.revision = file]
  <2>1. /\ readers' = [readers EXCEPT ![r] = x] /\ calls' = Called(r, readers[r].span, file)
        /\ handle' = [handle EXCEPT ![r] = file]
    <3>1. /\ readers' = [readers EXCEPT ![r].attempt = @ + 1, ![r].revision = file]
          /\ calls' = Called(r, readers[r].span, file) /\ handle' = [handle EXCEPT ![r] = file]
      BY <1>1, Zenon DEF Refresh
    <3>2. readers = [p \in Readers |-> readers[p]]
      BY Zenon DEF FetchInv, ReadersInv
    <3> QED BY <3>1, <3>2, Zenon
  <2>2. /\ DOMAIN x = {"pc", "span", "revision", "attempt", "floor", "data"}
        /\ x.pc = "read" /\ x.span = readers[r].span /\ x.revision = file
    BY <1>0, DoneFacts, Zenon
  <2> HIDE DEF x
  <2>3. CallsInv' /\ SharedInv' /\ ReadersInv'
    BY <1>0, <2>1, <2>2, DoneFacts, CalledSteps, Zenon DEF CacheInv
  <2>4. CacheInv'
    BY <1>0, <2>1, Zenon DEF CacheInv
  <2> QED BY <2>3, <2>4, Zenon DEF FetchInv
<1>2. CASE ~(readers[r].attempt < Retries)
  <2> DEFINE x == [readers[r] EXCEPT !.pc = "failed"]
  <2>1. readers' = [readers EXCEPT ![r] = x] /\ calls' = Quiet(r) /\ UNCHANGED handle
    BY <1>2, Zenon DEF Refresh
  <2>2. /\ DOMAIN x = DOMAIN readers[r] /\ x.span = readers[r].span /\ x.revision = readers[r].revision
        /\ x.pc = "failed"
    BY DoneFacts, <1>0, Zenon
  <2> HIDE DEF x
  <2> QED BY <1>0, <2>1, <2>2, EndSteps, Zenon
<1> QED BY <1>1, <1>2, Zenon

LEMMA AssembleOfflineSteps ==
    ASSUME FetchInv, FetcherConstants, NEW r \in Readers, AssembleOffline(r)
    PROVE  FetchInv'
<1> DEFINE v == readers[r].revision
           D(b) == Data(hot \cup disk, Key(v, b))
           x == [readers[r] EXCEPT !.pc = IF \A b \in readers[r].span : D(b) # {} THEN "answered" ELSE "failed",
                                   !.data = UNION {D(b) : b \in readers[r].span}]
<1>0. /\ CacheInv /\ AllDone(r) /\ calls' = Quiet(r) /\ readers = [p \in Readers |-> readers[p]]
      /\ readers' = [readers EXCEPT
              ![r].pc = IF \A b \in readers[r].span : D(b) # {} THEN "answered" ELSE "failed",
              ![r].data = UNION {D(b) : b \in readers[r].span}]
      /\ UNCHANGED << file, handle, hot, disk, jobs, cells, fetches, workload >>
  BY Zenon DEF FetchInv, AssembleOffline, ReadersInv, cache, bounds
<1>1. ASSUME NEW b \in readers[r].span PROVE D(b) \subseteq {v}
  <2>1. hot \cup disk \in SUBSET Ranges /\ Key(v, b).revision = v
    BY <1>0, Zenon DEF CacheInv, Key
  <2> QED BY <2>1, DataFacts, Zenon
<1> HIDE DEF D
<1>2. readers' = [readers EXCEPT ![r] = x]
  BY <1>0, Zenon
<1>3. /\ DOMAIN x = DOMAIN readers[r] /\ x.span = readers[r].span /\ x.revision = v
      /\ x.pc \in {"answered", "failed"}
      /\ x.pc = "answered" => \A b \in readers[r].span : D(b) # {}
      /\ x.data = UNION {D(b) : b \in readers[r].span}
  BY <1>0, DoneFacts, ZenonT(20)
<1> HIDE DEF x
<1>4. x.pc = "answered" => x.data = {v}
  <2>1. readers[r].span # {}
    BY <1>0, DoneFacts, Zenon
  <2> QED BY <1>1, <1>3, <2>1
<1> QED BY <1>0, <1>2, <1>3, <1>4, EndSteps, Zenon

\* Every block arrived; a speculative fetch may be spawned.
LEMMA AssembleSteps ==
    ASSUME FetchInv, FetcherConstants, NEW r \in Readers, Assemble(r)
    PROVE  FetchInv'
<1> DEFINE v == readers[r].revision
           x == [readers[r] EXCEPT !.pc = "answered", !.data = {a[2] : a \in Answers(r)}]
<1>0. /\ CacheInv /\ CallsInv /\ SharedInv /\ ReadersInv /\ AllDone(r) /\ \A a \in Answers(r) : a[1] = "ok"
      /\ readers' = [readers EXCEPT ![r].pc = "answered", ![r].data = {a[2] : a \in Answers(r)}]
      /\ UNCHANGED << file, handle, hot, disk, jobs, cells, fetches, workload >>
  BY Zenon DEF FetchInv, Assemble, cache, bounds
<1>1. {a[2] : a \in Answers(r)} = {v}
  <2>1. \A a \in Answers(r) : a = Ok(v)
    BY <1>0, DoneFacts, ResultFacts
  <2>2. Answers(r) = {Ok(v)}
    BY <1>0, <2>1, DoneFacts
  <2> QED BY <2>2, ResultFacts
<1>2. readers' = [readers EXCEPT ![r] = x]
  BY <1>0, Zenon DEF ReadersInv
<1>3. /\ DOMAIN x = DOMAIN readers[r] /\ x.span = readers[r].span /\ x.revision = v
      /\ x.pc = "answered" /\ x.data = {v}
  BY <1>0, <1>1, DoneFacts
<1> HIDE DEF x
<1>4. CASE calls' = Quiet(r)
  BY <1>0, <1>2, <1>3, <1>4, EndSteps, Zenon
<1>5. CASE \E s \in Speculators, b \in Blocks \ readers[r].span :
             /\ \A f \in Calls : f[1] = s => calls[f] = IdleCall
             /\ calls' = [Quiet(r) EXCEPT ![<< s, b >>] =
                             [IdleCall EXCEPT !.pc = "register", !.key = Key(v, b)]]
  <2>1. PICK s \in Speculators, b \in Blocks :
             /\ \A f \in Calls : f[1] = s => calls[f] = IdleCall
             /\ calls' = [Quiet(r) EXCEPT ![<< s, b >>] =
                             [IdleCall EXCEPT !.pc = "register", !.key = Key(v, b)]]
    BY <1>5, Zenon
  <2> DEFINE q == [IdleCall EXCEPT !.pc = "register", !.key = Key(v, b)]
             t == Quiet(r)
  <2>2. q.pc = "register" /\ IsCall(q) /\ q.pc \notin Using
    <3>1. Key(v, b) \in AllKeys
      BY <1>0, DoneFacts, Zenon DEF Key, AllKeys
    <3> QED BY <3>1, Zenon DEF IsCall, IdleCall, Using, Keyed
  <2>3. /\ t = [g \in Calls |-> t[g]]
        /\ \A g \in Calls : t[g] = calls[g] \/ (calls[g].pc \notin Using /\ t[g] = IdleCall)
        /\ \A g \in Calls : g[1] # r => t[g] = calls[g]
        /\ \A p \in Blocks : t[<< r, p >>] = IdleCall
    BY <1>0, QuietFacts, Zenon
  <2>4. /\ << s, b >> \in Calls /\ << s, b >>[1] = s /\ s \notin Readers /\ s # r
        /\ calls[<< s, b >>] = IdleCall
    <3>1. << s, b >> \in Calls /\ << s, b >>[1] = s
      BY Zenon DEF Calls
    <3> QED BY <2>1, <3>1, Zenon DEF FetcherConstants
  <2> HIDE DEF q, t
  <2>5. /\ calls' = [g \in Calls |-> calls'[g]] /\ calls'[<< s, b >>] = q
        /\ \A g \in Calls : g # << s, b >> => calls'[g] = t[g]
    BY <2>1, <2>3, <2>4, Zenon DEF q, t
  <2>6. CallsInv' /\ SharedInv'
    <3>1. ASSUME NEW g \in Calls
          PROVE  \/ calls'[g] = calls[g]
                 \/ calls[g].pc \notin Using /\ calls'[g].pc \notin Using /\ IsCall(calls'[g])
      BY <2>2, <2>3, <2>4, <2>5, IdleFacts
    <3> QED BY <1>0, <2>5, <3>1, LooseCalls, Zenon
  <2>7. \A g \in Calls : g[1] \in Readers \ {r} => calls'[g] = calls[g]
    BY <2>3, <2>4, <2>5
  <2>8. ReaderInv(r, x, calls')
    <3>1. ASSUME NEW p \in Blocks PROVE calls'[<< r, p >>] = IdleCall
      <4>1. << r, p >> \in Calls /\ << r, p >>[1] = r
        BY Zenon DEF Calls
      <4>2. << r, p >> # << s, b >>
        BY <2>4, Zenon
      <4> QED BY <2>3, <2>5, <4>1, <4>2, Zenon
    <3> QED BY <1>0, <1>3, <3>1, IdleFacts, DoneFacts DEF ReaderInv, Keyed
  <2>9. ReadersInv'
    BY <1>0, <1>2, <2>7, <2>8, ReaderMoves, Zenon
  <2>10. CacheInv'
    BY <1>0, Zenon DEF CacheInv
  <2> QED BY <2>6, <2>9, <2>10, Zenon DEF FetchInv
<1> QED BY <1>4, <1>5, Zenon DEF Assemble

-----------------------------------------------------------------------------
\* Writes and the cache writer change the cached ranges only.
LEMMA CacheSteps ==
    ASSUME FetchInv, (\E by \in {"write", "truncate", "remote"} : WriteAtServer(by)) \/ WriteReturns \/ RunJob
    PROVE  FetchInv'
<1>0. /\ CacheInv /\ CallsInv /\ SharedInv /\ ReadersInv
      /\ UNCHANGED << handle, workload, cells, fetches, calls, readers >>
  BY Zenon DEF FetchInv, WriteAtServer, WriteReturns, RunJob, bounds
<1>1. CallsInv' /\ SharedInv' /\ ReadersInv'
  BY <1>0, Zenon DEF CallsInv, SharedInv, ReadersInv
<1>2. CacheInv'
  <2>1. CASE \E by \in {"write", "truncate", "remote"} : WriteAtServer(by)
    BY <1>0, <2>1 DEF CacheInv, WriteAtServer, cache
  <2>2. CASE WriteReturns
    <3>1. /\ hot' = {} /\ UNCHANGED << file, disk >>
          /\ jobs' = jobs \/ jobs' = Append(jobs, "invalidate")
      BY <2>2, Zenon DEF WriteReturns
    <3>2. jobs' \in Seq(Ranges \cup {"invalidate"})
      BY <1>0, <3>1 DEF CacheInv
    <3> QED BY <1>0, <3>1, <3>2, Zenon DEF CacheInv
  <2>3. CASE RunJob
    <3>1. /\ jobs # << >> /\ jobs' = Tail(jobs) /\ UNCHANGED << file, hot >>
          /\ disk' = IF Head(jobs) = "invalidate" THEN {} ELSE disk \cup {Head(jobs)}
      BY <2>3, Zenon DEF RunJob
    <3>2. jobs \in Seq(Ranges \cup {"invalidate"})
      BY <1>0, Zenon DEF CacheInv
    <3>3. Head(jobs) \in Ranges \cup {"invalidate"} /\ jobs' \in Seq(Ranges \cup {"invalidate"})
      BY <3>1, <3>2
    <3> QED BY <1>0, <3>1, <3>3, Zenon DEF CacheInv
  <2> QED BY <2>1, <2>2, <2>3, Zenon
<1> QED BY <1>1, <1>2, Zenon DEF FetchInv

LEMMA FetchInvInit == ASSUME FetcherConstants PROVE Init => FetchInv
<1> SUFFICES ASSUME Init PROVE FetchInv
  BY Zenon
<1>1. CacheInv
  BY DEF Init, CacheInv
<1>2. CallsInv
  BY IdleFacts, Zenon DEF Init, CallsInv
<1>3. SharedInv
  BY Zenon DEF Init, SharedInv, FreeCell, CallInv, KeyInv, LeaderInv, IdleCall
<1>4. ASSUME NEW r \in Readers PROVE ReaderInv(r, readers[r], calls)
  <2>1. \A b \in Blocks : << r, b >> \in Calls
    BY Zenon DEF Calls
  <2>2. \A b \in Blocks : calls[<< r, b >>].pc = "idle"
    BY <2>1, IdleFacts, Zenon DEF Init
  <2>3. readers[r] = IdleReader
    BY Zenon DEF Init
  <2> QED BY <2>2, <2>3 DEF ReaderInv, IdleReader, Keyed
<1>5. ReadersInv
  BY <1>4, Zenon DEF Init, ReadersInv
<1> QED BY <1>1, <1>2, <1>3, <1>5, Zenon DEF FetchInv

LEMMA FetchInvStep == ASSUME FetcherConstants, FetchInv, [Next]_vars PROVE FetchInv'
<1>1. CASE UNCHANGED vars
  BY <1>1, Zenon DEF vars, bounds, FetchInv, CacheInv, CallsInv, SharedInv, ReadersInv
<1>2. ASSUME NEW f \in Calls, Step(f) \/ RequestFails(f) \/ Deadline(f) PROVE FetchInv'
  <2>1. CASE Register(f) \/ Lead(f)
    BY <2>1, RegisterSteps, Zenon
  <2>2. CASE Answered(f) \/ RequestFails(f)
    BY <2>2, AnswerSteps, Zenon
  <2>3. CASE Remove(f)
    BY <2>3, RemoveSteps, Zenon
  <2>4. CASE Deadline(f)
    BY <2>4, DeadlineSteps, Zenon
  <2> QED BY <1>2, <2>1, <2>2, <2>3, <2>4, Zenon DEF Step
<1>3. ASSUME NEW r \in Readers, BeginRead(r) \/ Proceeds(r) PROVE FetchInv'
  BY <1>3, BeginSteps, AssembleSteps, AssembleOfflineSteps, RefreshSteps, Zenon DEF Proceeds
<1>4. CASE (\E by \in {"write", "truncate", "remote"} : WriteAtServer(by)) \/ WriteReturns \/ RunJob
  BY <1>4, CacheSteps, Zenon
<1> QED BY <1>1, <1>2, <1>3, <1>4, Zenon DEF Next

LEMMA FetchInvHolds == ASSUME FetcherConstants PROVE Spec => []FetchInv
<1>1. Init => FetchInv
  BY FetchInvInit, Zenon
<1>2. FetchInv /\ [Next]_vars => FetchInv'
  BY FetchInvStep, Zenon
<1> QED BY <1>1, <1>2, PTL DEF Spec

-----------------------------------------------------------------------------
\* fetch_block has one request for a block on the wire at a time, and a call that
\* waits for a shared fetch waits for one that is being made, or may take it over.
THEOREM FetchesAreShared == ASSUME FetcherConstants PROVE Spec => []FetchesShared
<1>1. ASSUME FetchInv PROVE FetchesShared
  <2>0. SharedInv /\ CallsInv
    BY <1>1, Zenon DEF FetchInv
  <2>1. OneRequestPerBlock
    <3> SUFFICES ASSUME NEW f \in Calls, NEW g \in Calls, calls[f].pc = "request", calls[g].pc = "request",
                        calls[f].key = calls[g].key
                 PROVE  f = g
      BY Zenon DEF OneRequestPerBlock
    <3>1. calls[f].cell # None /\ calls[g].cell # None
      BY <2>0, Zenon DEF CallsInv, IsCall, Using
    <3>2. /\ cells[calls[f].cell] = [leader |-> f, result |-> Pending]
          /\ cells[calls[g].cell] = [leader |-> g, result |-> Pending]
      BY <2>0, <3>1, Zenon DEF SharedInv, CallInv
    <3>3. /\ cells[calls[f].cell].result = Pending /\ cells[calls[f].cell].leader = f
          /\ cells[calls[g].cell].result = Pending /\ cells[calls[g].cell].leader = g
      BY <3>2
    <3>4. calls[f].cell = fetches[calls[f].key] /\ calls[g].cell = fetches[calls[g].key]
      BY <2>0, <3>1, <3>3, Zenon DEF SharedInv, CallInv
    <3> QED BY <3>3, <3>4, Zenon
  <2>2. WaitersAreServed
    <3> SUFFICES ASSUME NEW f \in Calls, calls[f].pc = "wait", cells[calls[f].cell].result = Pending,
                        cells[calls[f].cell].leader # None
                 PROVE  /\ calls[cells[calls[f].cell].leader].pc = "request"
                        /\ calls[cells[calls[f].cell].leader].cell = calls[f].cell
      BY Zenon DEF WaitersAreServed
    <3>1. calls[f].cell \in Cells
      BY <2>0, Zenon DEF CallsInv, IsCall, Using
    <3> QED BY <2>0, <3>1, Zenon DEF SharedInv, LeaderInv
  <2> QED BY <2>1, <2>2, Zenon DEF FetchesShared
<1> QED BY <1>1, FetchInvHolds, PTL

\* read_range_versioned answers with bytes of one revision, the one it reports.
THEOREM ReadsHaveOneRevision == ASSUME FetcherConstants PROVE Spec => []ReadsAreOfOneRevision
<1>1. FetchInv => ReadsAreOfOneRevision
  BY Zenon DEF FetchInv, ReadersInv, ReaderInv, ReadsAreOfOneRevision
<1> QED BY <1>1, FetchInvHolds, PTL
=============================================================================
