--------------------------- MODULE ReadAheadProofs ---------------------------
(***************************************************************************)
(* Proofs about the read-ahead of a handle, for any size of the file, any  *)
(* windows, budgets and number of streams.                                 *)
(***************************************************************************)
EXTENDS ReadAhead, FiniteSetTheorems, FunctionTheorems, TLAPS

Stream == [id : Nat, active : BOOLEAN, nextExpected : Nat, run : Nat, cursor : Nat,
           window : 0 .. Cap, inflight : Nat, delivered : Nat]

\* Streams in a sequence, whose identifiers are at most top, each with one of its own.
Tracked(ss, top) ==
    /\ ss \in Seq(Stream) /\ \A i \in DOMAIN ss : ss[i].id <= top
    /\ \A i, j \in DOMAIN ss : ss[i].id = ss[j].id => i = j

StreamsInv == nextId \in Nat /\ Len(streams) <= MaxStreams /\ Tracked(streams, nextId)

\* A fetch belongs to an earlier read.
BudgetInv ==
    /\ IsFiniteSet(inFlight) /\ BudgetsConserved
    /\ slots \in Nat /\ permits \in Nat /\ observed \in Nat /\ \A f \in inFlight : f.read \in 0 .. observed - 1

\* What lies between the demand and the cursor of stream s has been asked for.
Filled(s, blocks) == \A b \in s.nextExpected .. s.cursor - 1 : b \in blocks

CursorInv ==
    /\ revision \in Nat /\ fileRevision \in Nat /\ revision <= fileRevision
    /\ fileRevision = revision => \A i \in DOMAIN streams : Filled(streams[i], asked)

AheadInv == StreamsInv /\ BudgetInv /\ CursorInv

-----------------------------------------------------------------------------
(* The controller's functions *)

LEMMA LeastMost ==
    ASSUME NEW a \in Int, NEW b \in Int
    PROVE  /\ Least(a, b) \in {a, b} /\ Least(a, b) <= a /\ Least(a, b) <= b
           /\ Most(a, b) \in {a, b} /\ Most(a, b) >= a /\ Most(a, b) >= b
BY DEF Least, Most

\* A read moves the demand on, and the cursor at most to the demand.
LEMMA AdvancedFacts ==
    ASSUME AheadConstants, NEW s \in Stream, NEW end \in Nat, NEW returned \in Nat, NEW stalled,
           NEW a, a = Advanced(s, end, returned, stalled)
    PROVE  /\ a \in Stream /\ a.id = s.id /\ a.nextExpected >= end /\ a.nextExpected >= s.nextExpected
           /\ a.cursor = s.cursor \/ a.cursor = end
<1> DEFINE r == Least(s.run + 1, Trigger)
           ne == Most(s.nextExpected, end)
           run == [s EXCEPT !.run = r, !.nextExpected = ne]
           w == Least(InitialWindow, Cap)
           c == Most(s.cursor, end)
           armed == IF s.active THEN run
                    ELSE [run EXCEPT !.active = TRUE, !.window = w, !.cursor = c, !.delivered = 0]
           d == Least(armed.delivered + returned, Cap)
           fed == [armed EXCEPT !.delivered = d]
           ww == Least(2 * fed.window, Cap)
           Good(t) == /\ t \in Stream /\ t.id = s.id /\ t.nextExpected = ne
                      /\ t.cursor = s.cursor \/ t.cursor = end
<1> USE DEF AheadConstants
<1>1. /\ r \in Nat /\ ne \in Nat /\ ne >= end /\ ne >= s.nextExpected
      /\ w \in 0 .. Cap /\ c \in Nat /\ (c = s.cursor \/ c = end)
  BY DEF Stream, Least, Most
<1> HIDE DEF r, ne, w, c
<1>2. Good(run) /\ run.cursor = s.cursor
  BY <1>1, Zenon DEF Stream
<1>3. Good(armed)
  <2>1. CASE s.active
    BY <1>2, <2>1, Zenon
  <2>2. CASE ~s.active
    <3> HIDE DEF run
    <3>1. armed = [run EXCEPT !.active = TRUE, !.window = w, !.cursor = c, !.delivered = 0]
      BY <2>2, Zenon
    <3>2. /\ armed \in Stream /\ armed.id = run.id /\ armed.nextExpected = run.nextExpected /\ armed.cursor = c
      BY <1>1, <1>2, <3>1, Zenon DEF Stream
    <3> QED BY <1>1, <1>2, <3>2, Zenon
  <2> QED BY <2>1, <2>2, Zenon
<1> HIDE DEF armed
<1>4. d \in Nat
  BY <1>3 DEF Stream, Least
<1> HIDE DEF d
<1>5. Good(fed)
  <2>1. fed \in Stream /\ fed.id = armed.id /\ fed.nextExpected = armed.nextExpected /\ fed.cursor = armed.cursor
    BY <1>3, <1>4, Zenon DEF Stream
  <2> QED BY <1>3, <2>1, Zenon
<1> HIDE DEF fed
<1>6. ww \in 0 .. Cap
  BY <1>5 DEF Stream, Least
<1> HIDE DEF ww
<1>7. Good([fed EXCEPT !.window = ww, !.delivered = 0])
  <2> DEFINE t == [fed EXCEPT !.window = ww, !.delivered = 0]
  <2>1. t \in Stream /\ t.id = fed.id /\ t.nextExpected = fed.nextExpected /\ t.cursor = fed.cursor
    BY <1>5, <1>6, Zenon DEF Stream
  <2> QED BY <1>5, <2>1, Zenon
<1>8. Advanced(s, end, returned, stalled) \in {run, fed, [fed EXCEPT !.window = ww, !.delivered = 0]}
  <2>1. Advanced(s, end, returned, stalled)
          = IF run.run < Trigger THEN run
            ELSE IF stalled /\ fed.window < Cap /\ 2 * fed.delivered >= Most(fed.window, 1)
            THEN [fed EXCEPT !.window = ww, !.delivered = 0] ELSE fed
    BY DEF Advanced, run, armed, fed, r, ne, w, c, d, ww
  <2> HIDE DEF run
  <2> QED BY <2>1, Zenon
<1>9. Good(a)
  BY <1>2, <1>5, <1>7, <1>8, Zenon
<1> QED BY <1>1, <1>9, Zenon

LEMMA ScheduleFacts ==
    ASSUME AheadConstants, NEW s \in Stream, NEW end \in Nat, end <= Size
    PROVE  /\ Count(s, end) \in Nat /\ From(s, end) \in Nat
           /\ From(s, end) = s.cursor \/ From(s, end) = end
<1> USE DEF AheadConstants, Stream
<1>1. DemandEnd(end) = end
  BY Zenon DEF DemandEnd, Least
<1>2. From(s, end) \in Nat /\ (From(s, end) = s.cursor \/ From(s, end) = end)
  BY <1>1, Zenon DEF From, Most, Least
<1>3. Count(s, end) \in Nat
  BY <1>1 DEF Count, Most, Least
<1> QED BY <1>2, <1>3, Zenon

\* What a stream is left with when g of its n blocks had a budget.
Kept(s, end, g) == Unscheduled(Scheduled(s, end), From(s, end) + g, Count(s, end) - g)

LEMMA KeptFacts ==
    ASSUME AheadConstants, NEW s \in Stream, NEW end \in Nat, end <= Size, NEW g \in 0 .. Count(s, end)
    PROVE  LET k == Kept(s, end, g)
           IN  /\ k \in Stream /\ k.id = s.id /\ k.nextExpected = s.nextExpected
               /\ k.cursor = From(s, end) + g
<1> DEFINE n == Count(s, end)
           from == From(s, end)
<1>0. n \in Nat /\ from \in Nat /\ g \in Nat /\ g <= n
  BY ScheduleFacts
<1> HIDE DEF n, from
<1> DEFINE c == from + n
           held == s.inflight + n
<1>1. Scheduled(s, end) = [s EXCEPT !.cursor = c, !.inflight = held]
  BY Zenon DEF Scheduled, n, from
<1>10. c \in Nat /\ held \in Nat
  BY <1>0 DEF Stream
<1>2. /\ Scheduled(s, end) \in Stream /\ Scheduled(s, end).id = s.id
      /\ Scheduled(s, end).nextExpected = s.nextExpected
      /\ Scheduled(s, end).cursor = from + n
  <2> HIDE DEF c, held
  <2>1. /\ Scheduled(s, end) \in Stream /\ Scheduled(s, end).id = s.id
        /\ Scheduled(s, end).nextExpected = s.nextExpected /\ Scheduled(s, end).cursor = c
    BY <1>1, <1>10, Zenon DEF Stream
  <2> QED BY <2>1, Zenon DEF c
<1>3. Kept(s, end, g) = Unscheduled(Scheduled(s, end), from + g, n - g)
  BY Zenon DEF Kept, n, from
<1>4. CASE g = n
  BY <1>0, <1>2, <1>3, <1>4 DEF Unscheduled, from
<1>5. CASE g < n
  <2>1. n - g \in Nat \ {0}
    BY <1>0, <1>5
  <2> DEFINE sc == Scheduled(s, end)
             left == Most(0, sc.inflight - (n - g))
             at == Least(sc.cursor, from + g)
  <2>2. Kept(s, end, g) = [sc EXCEPT !.inflight = left, !.cursor = at]
    BY <1>3, <2>1, Zenon DEF Unscheduled
  <2>3. at = from + g /\ at \in Nat
    BY <1>0, <1>2, <1>5 DEF Least
  <2>4. left \in Nat
    BY <1>2, <2>1 DEF Stream, Most
  <2> HIDE DEF sc, left, at
  <2>5. sc \in Stream /\ sc.id = s.id /\ sc.nextExpected = s.nextExpected
    BY <1>2, Zenon DEF sc
  <2>6. /\ Kept(s, end, g) \in Stream /\ Kept(s, end, g).id = s.id
        /\ Kept(s, end, g).nextExpected = s.nextExpected /\ Kept(s, end, g).cursor = at
    BY <2>2, <2>3, <2>4, <2>5, Zenon DEF Stream
  <2> QED BY <2>3, <2>6, Zenon DEF from
<1> QED BY <1>0, <1>4, <1>5

-----------------------------------------------------------------------------
(* Finding the stream of a read *)

\* Some of the streams of ss, each once.
LEMMA PartTracked ==
    ASSUME NEW top \in Nat, NEW ss, Tracked(ss, top), NEW rr \in Seq(Stream),
           NEW h \in [DOMAIN rr -> DOMAIN ss], \A i, j \in DOMAIN rr : h[i] = h[j] => i = j,
           \A i \in DOMAIN rr : rr[i] = ss[h[i]]
    PROVE  Tracked(rr, top)
BY DEF Tracked

LEMMA RoomFacts ==
    ASSUME AheadConstants, NEW top \in Nat, NEW ss, Tracked(ss, top), Len(ss) <= MaxStreams
    PROVE  /\ Tracked(Room(ss), top) /\ Len(Room(ss)) < MaxStreams
           /\ \A i \in DOMAIN Room(ss) : \E j \in DOMAIN ss : Room(ss)[i] = ss[j]
<1>0. ss \in Seq(Stream) /\ Len(ss) \in Nat /\ MaxStreams \in Nat \ {0}
  BY DEF Tracked, AheadConstants
<1>1. CASE Len(ss) >= MaxStreams
  <2>1. Room(ss) = Tail(ss) /\ ss # << >>
    BY <1>0, <1>1 DEF Room
  <2>2. /\ Room(ss) \in Seq(Stream) /\ Len(Room(ss)) = Len(ss) - 1
        /\ \A i \in DOMAIN Room(ss) : i + 1 \in DOMAIN ss /\ Room(ss)[i] = ss[i + 1]
    BY <1>0, <2>1
  <2>3. DOMAIN Room(ss) \subseteq Int
    BY <2>2
  <2> DEFINE h == [i \in DOMAIN Room(ss) |-> i + 1]
  <2>4. /\ h \in [DOMAIN Room(ss) -> DOMAIN ss] /\ \A i, j \in DOMAIN Room(ss) : h[i] = h[j] => i = j
        /\ \A i \in DOMAIN Room(ss) : Room(ss)[i] = ss[h[i]]
    BY <2>2, <2>3
  <2> HIDE DEF h
  <2>5. Tracked(Room(ss), top)
    BY <2>2, <2>4, PartTracked
  <2> QED BY <1>0, <2>2, <2>5
<1>2. CASE Len(ss) < MaxStreams
  BY <1>0, <1>2 DEF Room
<1> QED BY <1>0, <1>1, <1>2

LEMMA WithoutFacts ==
    ASSUME AheadConstants, NEW top \in Nat, NEW ss, Tracked(ss, top), Len(ss) <= MaxStreams, NEW k \in DOMAIN ss
    PROVE  /\ Tracked(Without(ss, k), top) /\ Len(Without(ss, k)) < MaxStreams
           /\ \A i \in DOMAIN Without(ss, k) : \E j \in DOMAIN ss : j # k /\ Without(ss, k)[i] = ss[j]
<1> DEFINE rr == Without(ss, k)
           h == [i \in 1 .. Len(ss) - 1 |-> IF i < k THEN i ELSE i + 1]
<1>0. ss \in Seq(Stream) /\ Len(ss) \in Nat \ {0} /\ MaxStreams \in Nat \ {0} /\ k \in 1 .. Len(ss)
  BY DEF Tracked, AheadConstants
<1>1. /\ h \in [1 .. Len(ss) - 1 -> DOMAIN ss] /\ \A i, j \in 1 .. Len(ss) - 1 : h[i] = h[j] => i = j
      /\ \A i \in 1 .. Len(ss) - 1 : h[i] # k
  BY <1>0
<1>2. rr = [i \in 1 .. Len(ss) - 1 |-> ss[h[i]]]
  BY <1>0, Zenon DEF Without
<1> HIDE DEF h, rr
<1>3. rr \in Seq(Stream) /\ Len(rr) = Len(ss) - 1 /\ DOMAIN rr = 1 .. Len(ss) - 1
  <2>1. \A i \in 1 .. Len(ss) - 1 : ss[h[i]] \in Stream
    BY <1>0, <1>1
  <2> QED BY <1>0, <1>2, <2>1
<1>4. Tracked(rr, top)
  BY <1>1, <1>2, <1>3, PartTracked, Zenon
<1>5. \A i \in DOMAIN rr : \E j \in DOMAIN ss : j # k /\ rr[i] = ss[j]
  BY <1>1, <1>2, <1>3, Zenon
<1> QED BY <1>0, <1>3, <1>4, <1>5 DEF rr

\* What observe finds for a read: the stream is like no other, begins where the
\* demand ends, and what it has asked for ahead of that was asked for.
Found(m, end, top) ==
    /\ Tracked(m.rest, top) /\ Len(m.rest) < MaxStreams
    /\ m.stream \in Stream /\ m.stream.id <= top /\ \A i \in DOMAIN m.rest : m.rest[i].id # m.stream.id
    /\ m.stream.nextExpected >= end
    /\ fileRevision # revision => m.rest = << >>
    /\ fileRevision = revision => \A i \in DOMAIN m.rest : Filled(m.rest[i], asked)
    /\ \A b \in m.stream.nextExpected .. m.stream.cursor - 1 : fileRevision = revision /\ b \in asked

LEMMA MatchFacts ==
    ASSUME AheadConstants, AheadInv, NEW offset \in Nat, NEW returned \in Nat, NEW stalled,
           NEW m \in StreamsFor(offset, returned, stalled)
    PROVE  /\ CurrentId \in Nat /\ m.new \in BOOLEAN
           /\ Found(m, offset + returned, IF m.new THEN CurrentId + 1 ELSE CurrentId)
<1> DEFINE ss == CurrentStreams
           id == CurrentId
           end == offset + returned
<1>0. /\ id \in Nat /\ Tracked(ss, id) /\ Len(ss) <= MaxStreams /\ end \in Nat /\ Len(ss) \in Nat
      /\ fileRevision # revision => ss = << >>
      /\ fileRevision = revision => \A i \in DOMAIN ss : Filled(ss[i], asked)
  <2>1. CASE fileRevision = revision
    <3>1. ss = streams /\ id = nextId
      BY <2>1, Zenon DEF CurrentStreams, CurrentId
    <3> QED BY <2>1, <3>1 DEF AheadInv, StreamsInv, CursorInv, Tracked
  <2>2. CASE fileRevision # revision
    <3>1. ss = << >> /\ id = 0
      BY <2>2, Zenon DEF CurrentStreams, CurrentId
    <3> QED BY <2>2, <3>1 DEF AheadConstants, Tracked
  <2> QED BY <2>1, <2>2, Zenon
<1> HIDE DEF ss, id, end
<1>1. CASE Continued(ss, offset) = {}
  <2> DEFINE started == NewStream(id + 1, end)
             w == Least(PrimeWindow, Cap)
             new == IF ss = << >> THEN [started EXCEPT !.window = w] ELSE started
  <2>1. m = [rest |-> Room(ss), new |-> TRUE, stream |-> new]
    BY <1>1, Zenon DEF StreamsFor, ss, id, end
  <2>2. started \in Stream /\ started.id = id + 1 /\ started.nextExpected = end /\ started.cursor = end
    BY <1>0 DEF NewStream, Stream, AheadConstants
  <2>3. w \in 0 .. Cap
    BY DEF AheadConstants, Least
  <2> HIDE DEF started, w
  <2>4. new \in Stream /\ new.id = id + 1 /\ new.nextExpected = end /\ new.cursor = end
    BY <2>2, <2>3, Zenon DEF Stream
  <2> HIDE DEF new
  <2>5. m.rest = Room(ss) /\ m.new = TRUE /\ m.stream = new
    BY <2>1, Zenon
  <2>6. /\ Tracked(Room(ss), id) /\ Len(Room(ss)) < MaxStreams
        /\ \A i \in DOMAIN Room(ss) : \E j \in DOMAIN ss : Room(ss)[i] = ss[j]
    BY <1>0, RoomFacts
  <2>7. Tracked(Room(ss), id + 1) /\ \A i \in DOMAIN Room(ss) : Room(ss)[i].id # id + 1
    <3>1. \A i \in DOMAIN Room(ss) : Room(ss)[i].id \in Nat /\ Room(ss)[i].id <= id
      <4>1. \A i \in DOMAIN Room(ss) : Room(ss)[i] \in Stream /\ Room(ss)[i].id <= id
        BY <2>6 DEF Tracked
      <4> QED BY <4>1, Zenon DEF Stream
    <3> QED BY <1>0, <2>6, <3>1 DEF Tracked
  <2>8. fileRevision # revision => Room(ss) = << >>
    <3>1. ASSUME ss = << >> PROVE Room(ss) = << >>
      BY <3>1 DEF Room, AheadConstants
    <3> QED BY <1>0, <3>1, Zenon
  <2>9. \A b \in new.nextExpected .. new.cursor - 1 : FALSE
    BY <1>0, <2>4
  <2>10. fileRevision = revision => \A i \in DOMAIN Room(ss) : Filled(Room(ss)[i], asked)
    BY <1>0, <2>6, Zenon
  <2>11. Found(m, end, id + 1)
    BY <1>0, <2>4, <2>5, <2>6, <2>7, <2>8, <2>9, <2>10 DEF Found
  <2> QED BY <1>0, <2>5, <2>11, Zenon DEF id, end
<1>2. CASE Continued(ss, offset) # {}
  <2>1. PICK k \in DOMAIN ss :
           m = [rest |-> Without(ss, k), new |-> FALSE, stream |-> Advanced(ss[k], end, returned, stalled)]
    <3>1. Continued(ss, offset) \subseteq DOMAIN ss
      BY Zenon DEF Continued
    <3> QED BY <1>2, <3>1, Zenon DEF StreamsFor, ss, id, end
  <2> DEFINE a == Advanced(ss[k], end, returned, stalled)
  <2>2. ss[k] \in Stream /\ ss[k].id <= id
    BY <1>0 DEF Tracked
  <2> HIDE DEF a
  <2>11. a = Advanced(ss[k], end, returned, stalled)
    BY Zenon DEF a
  <2>3. /\ a \in Stream /\ a.id = ss[k].id /\ a.nextExpected >= end /\ a.nextExpected >= ss[k].nextExpected
        /\ a.cursor = ss[k].cursor \/ a.cursor = end
    BY <1>0, <2>2, <2>11, AdvancedFacts
  <2>4. m.rest = Without(ss, k) /\ m.new = FALSE /\ m.stream = a
    BY <2>1, Zenon DEF a
  <2>5. /\ Tracked(Without(ss, k), id) /\ Len(Without(ss, k)) < MaxStreams
        /\ \A i \in DOMAIN Without(ss, k) : \E j \in DOMAIN ss : j # k /\ Without(ss, k)[i] = ss[j]
    BY <1>0, WithoutFacts
  <2>6. \A i \in DOMAIN Without(ss, k) : Without(ss, k)[i].id # a.id
    BY <1>0, <2>3, <2>5, Zenon DEF Tracked
  <2>7. fileRevision = revision
    BY <1>0, <2>1
  <2>8. ASSUME NEW b \in a.nextExpected .. a.cursor - 1 PROVE b \in asked
    <3>1. a.nextExpected \in Nat /\ a.cursor \in Nat /\ ss[k].nextExpected \in Nat /\ ss[k].cursor \in Nat
      BY <2>2, <2>3, Zenon DEF Stream
    <3>2. b \in ss[k].nextExpected .. ss[k].cursor - 1
      <4>1. a.cursor = ss[k].cursor
        BY <1>0, <2>3, <3>1
      <4>2. a.nextExpected >= ss[k].nextExpected
        BY <2>3, Zenon
      <4> QED BY <3>1, <4>1, <4>2
    <3> QED BY <1>0, <2>7, <3>2, Zenon DEF Filled
  <2>9. \A i \in DOMAIN Without(ss, k) : Filled(Without(ss, k)[i], asked)
    BY <1>0, <2>5, <2>7, Zenon
  <2>10. Found(m, end, id)
    BY <2>2, <2>3, <2>4, <2>5, <2>6, <2>7, <2>8, <2>9 DEF Found
  <2> QED BY <1>0, <2>4, <2>10, Zenon DEF id, end
<1> QED BY <1>1, <1>2, Zenon

-----------------------------------------------------------------------------
(* Steps *)

LEMMA AppendTracked ==
    ASSUME NEW top \in Nat, NEW ss, Tracked(ss, top), NEW e \in Stream, e.id <= top,
           \A i \in DOMAIN ss : ss[i].id # e.id
    PROVE  /\ Tracked(Append(ss, e), top) /\ Len(Append(ss, e)) = Len(ss) + 1
           /\ \A i \in DOMAIN Append(ss, e) : (i \in DOMAIN ss /\ Append(ss, e)[i] = ss[i]) \/ Append(ss, e)[i] = e
<1> DEFINE t == Append(ss, e)
<1>1. /\ ss \in Seq(Stream) /\ \A i \in DOMAIN ss : ss[i].id <= top
      /\ \A i, j \in DOMAIN ss : ss[i].id = ss[j].id => i = j
  BY Zenon DEF Tracked
<1>2. /\ t \in Seq(Stream) /\ Len(t) = Len(ss) + 1 /\ DOMAIN t = 1 .. Len(ss) + 1 /\ DOMAIN ss = 1 .. Len(ss)
      /\ Len(ss) \in Nat /\ \A i \in 1 .. Len(ss) : t[i] = ss[i]
      /\ t[Len(ss) + 1] = e
  BY <1>1
<1> HIDE DEF t
<1>3. \A i \in DOMAIN t : (i \in DOMAIN ss /\ t[i] = ss[i]) \/ (i = Len(ss) + 1 /\ t[i] = e)
  BY <1>2
<1>4. Tracked(t, top)
  BY <1>1, <1>2, <1>3 DEF Tracked
<1> QED BY <1>2, <1>3, <1>4, Zenon DEF t

\* The fetches of g blocks are g fetches.
Spawned(from, g, v, id, n) ==
    {[block |-> b, revision |-> v, stream |-> id, read |-> n] : b \in from .. from + g - 1}

LEMMA SpawnedFacts ==
    ASSUME NEW from \in Nat, NEW g \in Nat, NEW v, NEW id, NEW n
    PROVE  IsFiniteSet(Spawned(from, g, v, id, n)) /\ Cardinality(Spawned(from, g, v, id, n)) = g
<1> DEFINE I == from .. from + g - 1
           R(b) == [block |-> b, revision |-> v, stream |-> id, read |-> n]
           recs == Spawned(from, g, v, id, n)
           f == [b \in I |-> R(b)]
<1>1. IsFiniteSet(I) /\ Cardinality(I) = g
  BY FS_Interval
<1>2. recs = {R(b) : b \in I} /\ \A b \in I : R(b).block = b
  BY Zenon DEF Spawned
<1> HIDE DEF I, R, recs
<1>3. f \in [I -> recs] /\ \A a, b \in I : f[a] = f[b] => a = b
  BY <1>2, Zenon
<1>4. \A t \in recs : \E a \in I : f[a] = t
  BY <1>2, Zenon
<1> HIDE DEF f
<1>5. f \in Bijection(I, recs)
  BY <1>3, <1>4, Fun_IsBij, Zenon
<1>6. ExistsBijection(I, recs)
  BY <1>5, Zenon DEF ExistsBijection
<1> QED BY <1>1, <1>6, FS_Bijection, Zenon DEF recs

LEMMA GrantedFacts ==
    ASSUME AheadInv, NEW n \in Nat
    PROVE  Granted(n) \in 0 .. n /\ Granted(n) <= slots /\ Granted(n) <= permits
BY DEF AheadInv, BudgetInv, Granted, Least

LEMMA ObserveSteps ==
    ASSUME AheadConstants, AheadInv, NEW offset \in Nat, NEW returned \in Nat, NEW stalled,
           Observe(offset, returned, stalled)
    PROVE  AheadInv'
<1> DEFINE end == offset + returned
<1>0. /\ end \in Nat /\ end <= Size /\ observed' = observed + 1 /\ revision' = fileRevision
      /\ UNCHANGED fileRevision
  BY DEF Observe
<1>1. PICK m \in StreamsFor(offset, returned, stalled) :
          LET n == Count(m.stream, end)  from == From(m.stream, end)  g == Granted(n)
              kept == Unscheduled(Scheduled(m.stream, end), from + g, n - g)
              blocks == from .. from + g - 1
          IN  /\ nextId' = IF m.new THEN CurrentId + 1 ELSE CurrentId
              /\ streams' = Append(m.rest, IF m.new THEN [kept EXCEPT !.window = 0] ELSE kept)
              /\ inFlight' = inFlight \cup {[block |-> b, revision |-> fileRevision,
                                           stream |-> m.stream.id, read |-> observed] : b \in blocks}
              /\ asked' = (IF fileRevision = revision THEN asked ELSE {}) \cup blocks
              /\ slots' = SlotsAfter(n)
              /\ permits' = permits - g
  BY Zenon DEF Observe
<1> DEFINE n == Count(m.stream, end)
           from == From(m.stream, end)
           g == Granted(n)
           kept == Kept(m.stream, end, g)
           e == IF m.new THEN [kept EXCEPT !.window = 0] ELSE kept
           blocks == from .. from + g - 1
           recs == {[block |-> b, revision |-> fileRevision, stream |-> m.stream.id, read |-> observed] : b \in blocks}
           top == IF m.new THEN CurrentId + 1 ELSE CurrentId
<1>2. /\ nextId' = top /\ streams' = Append(m.rest, e) /\ inFlight' = inFlight \cup recs
      /\ asked' = (IF fileRevision = revision THEN asked ELSE {}) \cup blocks
      /\ slots' = slots - g /\ permits' = permits - g
  BY <1>1, Zenon DEF Kept, SlotsAfter
<1>3. top \in Nat /\ Found(m, end, top)
  BY <1>0, MatchFacts
<1> HIDE DEF end, top
<1>4. n \in Nat /\ from \in Nat /\ (from = m.stream.cursor \/ from = end)
  BY <1>0, <1>3, ScheduleFacts, Zenon DEF Found
<1>5. g \in 0 .. n /\ g <= slots /\ g <= permits
  BY <1>4, GrantedFacts, Zenon
<1>6. /\ kept \in Stream /\ kept.id = m.stream.id /\ kept.nextExpected = m.stream.nextExpected
      /\ kept.cursor = from + g
  BY <1>0, <1>3, <1>5, KeptFacts, Zenon DEF Found
<1> HIDE DEF n, from, g, kept
<1>7. /\ e \in Stream /\ e.id = m.stream.id /\ e.nextExpected = m.stream.nextExpected
      /\ e.cursor = from + g
  <2>1. 0 \in 0 .. Cap
    BY DEF AheadConstants
  <2> QED BY <1>6, <2>1, Zenon DEF Stream
<1> HIDE DEF e, recs
<1>8. StreamsInv'
  <2>1. /\ Tracked(streams', top) /\ Len(streams') = Len(m.rest) + 1
    <3>1. /\ Tracked(m.rest, top) /\ e.id <= top /\ \A i \in DOMAIN m.rest : m.rest[i].id # e.id
      BY <1>3, <1>7, Zenon DEF Found
    <3>2. Tracked(Append(m.rest, e), top) /\ Len(Append(m.rest, e)) = Len(m.rest) + 1
      BY <1>3, <1>7, <3>1, AppendTracked
    <3> QED BY <1>2, <3>2, Zenon
  <2>2. Len(m.rest) \in Nat /\ Len(m.rest) < MaxStreams
    BY <1>3 DEF Found, Tracked
  <2> QED BY <1>2, <1>3, <2>1, <2>2 DEF StreamsInv, AheadConstants
<1>9. BudgetInv'
  <2>0. /\ IsFiniteSet(inFlight) /\ slots + Cardinality(inFlight) = Slots
        /\ permits + Cardinality(inFlight) = Permits
        /\ slots \in Nat /\ permits \in Nat /\ observed \in Nat /\ \A f \in inFlight : f.read \in 0 .. observed - 1
    BY Zenon DEF AheadInv, BudgetInv, BudgetsConserved
  <2>1. IsFiniteSet(recs) /\ Cardinality(recs) = g /\ g \in Nat
    <3>1. recs = Spawned(from, g, fileRevision, m.stream.id, observed)
      BY Zenon DEF recs, Spawned
    <3>2. from \in Nat /\ g \in Nat
      BY <1>4, <1>5
    <3> QED BY <3>1, <3>2, SpawnedFacts
  <2>2. \A f \in recs : f.read = observed
    BY DEF recs
  <2>3. inFlight \cap recs = {}
    BY <2>0, <2>2
  <2>4. /\ IsFiniteSet(inFlight \cup recs)
        /\ Cardinality(inFlight \cup recs) = Cardinality(inFlight) + g - Cardinality(inFlight \cap recs)
    BY <2>0, <2>1, FS_Union, Zenon
  <2>5. Cardinality(inFlight \cap recs) = 0
    BY <2>3, FS_EmptySet, Zenon
  <2>6. Cardinality(inFlight) \in Nat
    BY <2>0, FS_CardinalityType, Zenon
  <2>7. /\ slots' + Cardinality(inFlight') = Slots /\ permits' + Cardinality(inFlight') = Permits
        /\ slots' \in Nat /\ permits' \in Nat
    BY <1>2, <1>5, <2>0, <2>1, <2>4, <2>5, <2>6
  <2>8. observed' \in Nat /\ \A f \in inFlight' : f.read \in 0 .. observed' - 1
    BY <1>0, <1>2, <2>0, <2>2
  <2> QED BY <1>2, <2>4, <2>7, <2>8, Zenon DEF BudgetInv, BudgetsConserved
<1>10. CursorInv'
  <2>1. Filled(e, asked')
    <3>5. SUFFICES ASSUME NEW b \in e.nextExpected .. e.cursor - 1 PROVE b \in asked'
      BY Zenon DEF Filled
    <3>4. b \in m.stream.nextExpected .. from + g - 1
      <4>1. from \in Nat /\ g \in Nat /\ m.stream.nextExpected \in Nat
        BY <1>3, <1>4, <1>5 DEF Found, Stream
      <4> QED BY <1>7, <3>5, <4>1
    <3>0. m.stream.nextExpected \in Nat /\ m.stream.cursor \in Nat /\ m.stream.nextExpected >= end /\ g \in Nat
      BY <1>3, <1>4, <1>5 DEF Found, Stream
    <3>1. CASE b >= from
      BY <1>2, <1>4, <3>0, <3>1, <3>4
    <3>2. CASE b < from
      <4>1. b \in m.stream.nextExpected .. m.stream.cursor - 1
        BY <1>0, <1>4, <3>0, <3>2, <3>4
      <4>2. fileRevision = revision /\ b \in asked
        BY <1>3, <4>1, Zenon DEF Found
      <4> QED BY <1>2, <4>2, Zenon
    <3> QED BY <1>4, <3>0, <3>1, <3>2, <3>4
  <2>2. ASSUME NEW i \in DOMAIN m.rest PROVE Filled(m.rest[i], asked')
    <3>1. fileRevision = revision
      <4>1. m.rest = << >> => DOMAIN m.rest = {}
        OBVIOUS
      <4> QED BY <1>3, <2>2, <4>1, Zenon DEF Found
    <3>2. Filled(m.rest[i], asked)
      BY <1>3, <2>2, <3>1, Zenon DEF Found
    <3> QED BY <1>2, <3>1, <3>2, Zenon DEF Filled
  <2>3. \A i \in DOMAIN streams' : (i \in DOMAIN m.rest /\ streams'[i] = m.rest[i]) \/ streams'[i] = e
    BY <1>2, <1>3, <1>7, AppendTracked DEF Found
  <2>4. \A i \in DOMAIN streams' : Filled(streams'[i], asked')
    BY <2>1, <2>2, <2>3, Zenon
  <2> QED BY <1>0, <2>4 DEF CursorInv, AheadInv, Filled
<1> QED BY <1>8, <1>9, <1>10, Zenon DEF AheadInv

\* complete changes no cursor, no demand and no identifier.
LEMMA CompleteSteps ==
    ASSUME AheadConstants, AheadInv, NEW f \in inFlight, NEW ok, Complete(f, ok)
    PROVE  AheadInv'
<1>0. /\ StreamsInv /\ BudgetInv /\ CursorInv /\ inFlight' = inFlight \ {f}
      /\ slots' = slots + 1 /\ permits' = permits + 1
      /\ UNCHANGED << revision, nextId, fileRevision, observed, asked >>
  BY Zenon DEF AheadInv, Complete, Returned
<1>1. streams \in Seq(Stream) /\ Len(streams) \in Nat /\ DOMAIN streams = 1 .. Len(streams)
  BY <1>0 DEF StreamsInv, Tracked
<1>2. /\ streams' = [i \in DOMAIN streams |-> streams'[i]]
      /\ \A i \in DOMAIN streams :
            /\ streams'[i] \in Stream /\ streams'[i].id = streams[i].id
            /\ streams'[i].nextExpected = streams[i].nextExpected /\ streams'[i].cursor = streams[i].cursor
  <2> DEFINE left(i) == Most(0, streams[i].inflight - 1)
             done(i) == [streams[i] EXCEPT !.inflight = left(i)]
             paused(i) == [streams[i] EXCEPT !.inflight = left(i), !.active = FALSE, !.window = 0, !.delivered = 0]
             Same(t, i) == /\ t \in Stream /\ t.id = streams[i].id
                           /\ t.nextExpected = streams[i].nextExpected /\ t.cursor = streams[i].cursor
  <2>1. streams' = [i \in DOMAIN streams |-> IF streams[i].id # f.stream THEN streams[i]
                                             ELSE IF ok THEN done(i) ELSE paused(i)]
    BY Zenon DEF Complete
  <2>2. ASSUME NEW i \in DOMAIN streams PROVE Same(streams[i], i) /\ Same(done(i), i) /\ Same(paused(i), i)
    <3>1. streams[i] \in Stream /\ 0 \in 0 .. Cap
      BY <1>1 DEF AheadConstants
    <3>2. left(i) \in Nat
      BY <3>1 DEF Stream, Most
    <3> HIDE DEF left
    <3> QED BY <3>1, <3>2, Zenon DEF Stream
  <2> HIDE DEF Same, done, paused
  <2>3. \A i \in DOMAIN streams : streams'[i] \in {streams[i], done(i), paused(i)}
    BY <2>1, Zenon
  <2>4. \A i \in DOMAIN streams : Same(streams'[i], i)
    BY <2>2, <2>3, Zenon
  <2>5. DOMAIN streams' = DOMAIN streams /\ streams' = [i \in DOMAIN streams |-> streams'[i]]
    BY <2>1, Zenon
  <2> QED BY <2>4, <2>5, Zenon DEF Same
<1>3. streams' \in Seq(Stream) /\ Len(streams') = Len(streams) /\ DOMAIN streams' = DOMAIN streams
  <2>1. streams' \in [1 .. Len(streams) -> Stream]
    BY <1>1, <1>2, Zenon
  <2> QED BY <1>1, <2>1
<1>4. StreamsInv'
  <2>1. Tracked(streams, nextId) /\ Len(streams) <= MaxStreams /\ nextId \in Nat
    BY <1>0, Zenon DEF StreamsInv
  <2>2. Tracked(streams', nextId)
    BY <1>2, <1>3, <2>1 DEF Tracked
  <2> QED BY <1>0, <1>3, <2>1, <2>2, Zenon DEF StreamsInv
<1>5. CursorInv'
  BY <1>0, <1>2, <1>3, Zenon DEF CursorInv, Filled
<1>6. BudgetInv'
  <2>0. /\ IsFiniteSet(inFlight) /\ slots + Cardinality(inFlight) = Slots
        /\ permits + Cardinality(inFlight) = Permits /\ slots \in Nat /\ permits \in Nat
        /\ observed \in Nat /\ \A g \in inFlight : g.read \in 0 .. observed - 1
    BY <1>0, Zenon DEF BudgetInv, BudgetsConserved
  <2>1. IsFiniteSet(inFlight \ {f}) /\ Cardinality(inFlight \ {f}) = Cardinality(inFlight) - 1
    BY <2>0, FS_RemoveElement, Zenon
  <2>2. Cardinality(inFlight) \in Nat
    BY <2>0, FS_CardinalityType, Zenon
  <2>3. slots' + Cardinality(inFlight') = Slots /\ permits' + Cardinality(inFlight') = Permits
    BY <1>0, <2>0, <2>1, <2>2
  <2> QED BY <1>0, <2>0, <2>1, <2>3 DEF BudgetInv, BudgetsConserved
<1> QED BY <1>4, <1>5, <1>6, Zenon DEF AheadInv

LEMMA AheadInvStep == ASSUME AheadConstants, AheadInv, [AheadNext]_aheadVars PROVE AheadInv'
<1>1. ASSUME NEW offset \in 0 .. Size - 1, NEW returned \in 1 .. 2, NEW stalled \in BOOLEAN,
             Observe(offset, returned, stalled)
      PROVE  AheadInv'
  <2>1. offset \in Nat /\ returned \in Nat
    BY DEF AheadConstants
  <2> QED BY <1>1, <2>1, ObserveSteps, Zenon
<1>2. ASSUME NEW f \in inFlight, NEW ok \in BOOLEAN, Complete(f, ok) PROVE AheadInv'
  BY <1>2, CompleteSteps, Zenon
<1>3. CASE NewRevision
  <2>1. /\ StreamsInv' /\ BudgetInv'
    BY <1>3, Zenon DEF NewRevision, AheadInv, StreamsInv, BudgetInv, BudgetsConserved
  <2>2. CursorInv'
    BY <1>3 DEF NewRevision, AheadInv, CursorInv
  <2> QED BY <2>1, <2>2, Zenon DEF AheadInv
<1>4. CASE UNCHANGED aheadVars
  BY <1>4, Zenon DEF aheadVars, AheadInv, StreamsInv, BudgetInv, BudgetsConserved, CursorInv
<1> QED BY <1>1, <1>2, <1>3, <1>4, Zenon DEF AheadNext

LEMMA AheadInvInit == ASSUME AheadConstants PROVE AheadInit => AheadInv
<1> SUFFICES ASSUME AheadInit PROVE AheadInv
  BY Zenon
<1>1. StreamsInv
  BY DEF AheadInit, StreamsInv, Tracked, AheadConstants
<1>2. BudgetInv
  BY FS_EmptySet DEF AheadInit, BudgetInv, BudgetsConserved, AheadConstants
<1>3. CursorInv
  BY DEF AheadInit, CursorInv
<1> QED BY <1>1, <1>2, <1>3, Zenon DEF AheadInv

LEMMA AheadInvHolds == ASSUME AheadConstants PROVE AheadSpec => []AheadInv
<1>1. AheadInit => AheadInv
  BY AheadInvInit, Zenon
<1>2. AheadInv /\ [AheadNext]_aheadVars => AheadInv'
  BY AheadInvStep, Zenon
<1> QED BY <1>1, <1>2, PTL DEF AheadSpec

-----------------------------------------------------------------------------
\* Every fetch of maybe_prefetch in flight holds one slot and one permit of the
\* mount's budgets, and nothing else does.
THEOREM BudgetsAreConserved == ASSUME AheadConstants PROVE AheadSpec => []BudgetsConserved
<1>1. AheadInv => BudgetsConserved
  BY Zenon DEF AheadInv, BudgetInv
<1> QED BY <1>1, AheadInvHolds, PTL

\* unschedule leaves no hole: each block between a stream's demand and its cursor has
\* been asked for, whatever budget was missing and whatever failed.
THEOREM NothingIsSkipped == ASSUME AheadConstants PROVE AheadSpec => []NoHole
<1>1. AheadInv => NoHole
  BY Zenon DEF AheadInv, CursorInv, Filled, NoHole
<1> QED BY <1>1, AheadInvHolds, PTL

\* observe tracks at most MAX_PREFETCH_STREAMS streams, each with an identifier of its
\* own, and no window exceeds the ceiling.
THEOREM StreamsAreBounded == ASSUME AheadConstants PROVE AheadSpec => []AheadTypeOK
<1>1. ASSUME AheadInv PROVE AheadTypeOK
  <2>1. \A i \in DOMAIN streams : streams[i] \in Stream
    BY <1>1 DEF AheadInv, StreamsInv, Tracked
  <2>2. \A i \in DOMAIN streams : streams[i].window \in 0 .. Cap /\ streams[i].inflight \in Nat
    BY <2>1, Zenon DEF Stream
  <2>3. slots \in 0 .. Slots /\ permits \in 0 .. Permits
    <3>1. Cardinality(inFlight) \in Nat
      BY <1>1, FS_CardinalityType, Zenon DEF AheadInv, BudgetInv
    <3> QED BY <1>1, <3>1 DEF AheadInv, BudgetInv, BudgetsConserved, AheadConstants
  <2> QED BY <1>1, <2>2, <2>3, Zenon DEF AheadTypeOK, AheadInv, StreamsInv, Tracked
<1> QED BY <1>1, AheadInvHolds, PTL
=============================================================================
