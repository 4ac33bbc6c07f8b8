----------------------------- MODULE ReadAhead ------------------------------
(***************************************************************************)
(* The adaptive read-ahead of one open handle: which sequential streams a  *)
(* sequence of demand reads forms, which blocks are fetched ahead of them, *)
(* and the mount's two budgets for fetches in flight.  Offsets and sizes   *)
(* count blocks; every fetch ends, well or badly, at any later time.       *)
(* Source: SequentialPrefetcher and CachedFilesystem::maybe_prefetch in    *)
(* src/crates/client-core/src/cached.rs.                                   *)
(***************************************************************************)
EXTENDS Integers, Sequences, FiniteSets

CONSTANTS
    Size,               \* of the file
    Cap,                \* cap_blocks: read_ahead_max_bytes / granularity
    MaxStreams, Trigger, PrimeWindow, InitialWindow, Slack, Burst,
    Slots, Permits,     \* the budgets: fetches, and blocks of data, in flight
    MaxReads, MaxFileRevision   \* bounds

AheadConstants ==
    /\ Size \in Nat /\ Cap \in Nat /\ MaxStreams \in Nat \ {0} /\ Trigger \in Nat
    /\ PrimeWindow \in Nat /\ InitialWindow \in Nat /\ Slack \in Nat /\ Burst \in Nat
    /\ Slots \in Nat /\ Permits \in Nat

VARIABLES
    revision, nextId,   \* of the controller
    streams,            \* tracked streams, least recently used first
    inFlight,           \* speculative fetches in flight
    slots, permits,     \* free
    fileRevision,       \* the revision the handle reads at
    observed,           \* demand reads so far
    asked               \* history: the blocks of this revision asked for ahead

aheadVars == << revision, nextId, streams, inFlight, slots, permits, fileRevision, observed, asked >>

AheadInit ==
    /\ revision = 0 /\ nextId = 0 /\ streams = << >>
    /\ inFlight = {}
    /\ slots = Slots /\ permits = Permits
    /\ fileRevision = 1
    /\ observed = 0 /\ asked = {}

Least(a, b) == IF a <= b THEN a ELSE b
Most(a, b) == IF a >= b THEN a ELSE b
Distance(a, b) == IF a <= b THEN b - a ELSE a - b

-----------------------------------------------------------------------------
(* The controller *)

\* observe starts over when the file's revision has changed.
CurrentStreams == IF fileRevision = revision THEN streams ELSE << >>
CurrentId == IF fileRevision = revision THEN nextId ELSE 0

\* The streams a read at offset may continue: the nearest within the slack.
Continued(ss, offset) ==
    LET near == {i \in DOMAIN ss : Distance(ss[i].nextExpected, offset) <= Slack}
    IN  {i \in near : \A j \in near :
            Distance(ss[i].nextExpected, offset) <= Distance(ss[j].nextExpected, offset)}

NewStream(id, end) ==
    [id |-> id, active |-> FALSE, nextExpected |-> end, run |-> 1, cursor |-> end,
     window |-> 0, inflight |-> 0, delivered |-> 0]

\* The least recently used stream makes room for a new one.
Room(ss) == IF Len(ss) >= MaxStreams THEN Tail(ss) ELSE ss

\* The streams other than the one at i, which is the last touched now.
Without(ss, i) == [j \in 1 .. Len(ss) - 1 |-> IF j < i THEN ss[j] ELSE ss[j + 1]]

\* A confirmed run arms its window; a read that stalled doubles it, at most once
\* for half a window delivered.
Advanced(s, end, returned, stalled) ==
    LET run == [s EXCEPT !.run = Least(@ + 1, Trigger), !.nextExpected = Most(@, end)]
        armed == IF s.active THEN run
                 ELSE [run EXCEPT !.active = TRUE, !.window = Least(InitialWindow, Cap),
                                  !.cursor = Most(@, end), !.delivered = 0]
        fed == [armed EXCEPT !.delivered = Least(@ + returned, Cap)]
    IN  IF run.run < Trigger THEN run
        ELSE IF stalled /\ fed.window < Cap /\ 2 * fed.delivered >= Most(fed.window, 1)
        THEN [fed EXCEPT !.window = Least(2 * @, Cap), !.delivered = 0]
        ELSE fed

\* schedule: the cursor moves past the demand read, then over the blocks to fetch.
DemandEnd(end) == Least(end, Size)

Count(s, end) ==
    LET window == Least(s.window, Cap)
        from == Most(s.cursor, DemandEnd(end))
        target == Least(DemandEnd(end) + window, Size)
    IN  IF window = 0 \/ Size = 0 THEN 0
        ELSE Least(Most(0, target - from), Least(Most(0, window - s.inflight), Burst))

From(s, end) == IF Least(s.window, Cap) = 0 THEN s.cursor ELSE Most(s.cursor, DemandEnd(end))

Scheduled(s, end) ==
    [s EXCEPT !.cursor = From(s, end) + Count(s, end), !.inflight = @ + Count(s, end)]

\* Mutant: the cursor stays where it is.
UnscheduledInPlace(s, first, n) == [s EXCEPT !.inflight = Most(0, @ - n)]

\* unschedule: n blocks from first on are given back.
Unscheduled(s, first, n) ==
    IF n = 0 THEN s ELSE [s EXCEPT !.inflight = Most(0, @ - n), !.cursor = Least(@, first)]

-----------------------------------------------------------------------------
(* Reads and fetches *)

\* How many of n blocks get a slot and a permit each.
Granted(n) == Least(n, Least(slots, permits))

\* Mutant: a block denied its permit keeps the slot it got first.
SlotsKept(n) == slots - Least(n, Granted(n) + 1)

\* try_acquire_owned for both budgets; the slot of a block denied its permit is
\* dropped again.
SlotsAfter(n) == slots - Granted(n)

\* The stream a read belongs to, ready to be scheduled, and the other streams:
\* a new one, primed when it is the first of the handle, or one it continues.
StreamsFor(offset, returned, stalled) ==
    LET ss == CurrentStreams  end == offset + returned
        started == NewStream(CurrentId + 1, end)
    IN  IF Continued(ss, offset) = {}
        THEN {[rest |-> Room(ss), new |-> TRUE,
               stream |-> IF ss = << >> THEN [started EXCEPT !.window = Least(PrimeWindow, Cap)] ELSE started]}
        ELSE {[rest |-> Without(ss, i), new |-> FALSE,
               stream |-> Advanced(ss[i], end, returned, stalled)] : i \in Continued(ss, offset)}

\* A demand read has been answered.  Under the controller's lock its stream is
\* found and scheduled; blocks with a budget are spawned, the others unscheduled.
Observe(offset, returned, stalled) ==
    /\ observed < MaxReads /\ offset + returned <= Size
    /\ observed' = observed + 1
    /\ revision' = fileRevision
    /\ \E m \in StreamsFor(offset, returned, stalled) :
          LET end == offset + returned
              n == Count(m.stream, end)  from == From(m.stream, end)  g == Granted(n)
              kept == Unscheduled(Scheduled(m.stream, end), from + g, n - g)
              blocks == from .. from + g - 1
          IN  /\ nextId' = IF m.new THEN CurrentId + 1 ELSE CurrentId
              /\ streams' = Append(m.rest, IF m.new THEN [kept EXCEPT !.window = 0] ELSE kept)
              /\ inFlight' = inFlight \cup {[block |-> b, revision |-> fileRevision,
                                             stream |-> m.stream.id, read |-> observed] : b \in blocks}
              /\ asked' = (IF fileRevision = revision THEN asked ELSE {}) \cup blocks
              /\ slots' = SlotsAfter(n)
              /\ permits' = permits - g
    /\ UNCHANGED fileRevision

\* The task ends and drops its slot and its permit.
Returned(ok) == 1

\* A fetch ends: complete finds its stream by identifier, and pauses it on error.
Complete(f, ok) ==
    /\ inFlight' = inFlight \ {f}
    /\ slots' = slots + 1
    /\ permits' = permits + Returned(ok)
    /\ streams' = [i \in DOMAIN streams |->
          IF streams[i].id # f.stream THEN streams[i]
          ELSE IF ok THEN [streams[i] EXCEPT !.inflight = Most(0, @ - 1)]
          ELSE [streams[i] EXCEPT !.inflight = Most(0, @ - 1), !.active = FALSE,
                                  !.window = 0, !.delivered = 0]]
    /\ UNCHANGED << revision, nextId, fileRevision, observed, asked >>

\* A write or a refresh gives the handle another revision to read at.
NewRevision ==
    /\ fileRevision < MaxFileRevision
    /\ fileRevision' = fileRevision + 1
    /\ UNCHANGED << revision, nextId, streams, inFlight, slots, permits, observed, asked >>

AheadNext ==
    \/ \E offset \in 0 .. Size - 1, returned \in 1 .. 2, stalled \in BOOLEAN :
          Observe(offset, returned, stalled)
    \/ \E f \in inFlight, ok \in BOOLEAN : Complete(f, ok)
    \/ NewRevision

AheadSpec == AheadInit /\ [][AheadNext]_aheadVars

-----------------------------------------------------------------------------
(* Properties *)

\* Streams are no more than MAX_PREFETCH_STREAMS, with identifiers of their own,
\* and a window never exceeds the ceiling.
AheadTypeOK ==
    /\ Len(streams) <= MaxStreams
    /\ \A i, j \in DOMAIN streams : streams[i].id = streams[j].id => i = j
    /\ \A i \in DOMAIN streams :
          streams[i].window \in 0 .. Cap /\ streams[i].inflight \in Nat
    /\ slots \in 0 .. Slots /\ permits \in 0 .. Permits

\* Every fetch in flight holds one slot and one permit and nothing else does:
\* denied, failed and late fetches give both back, so speculation never stops
\* for want of a budget nobody uses.
BudgetsConserved ==
    /\ slots + Cardinality(inFlight) = Slots
    /\ permits + Cardinality(inFlight) = Permits

\* No hole in the window: each block between a stream's demand and its cursor has
\* been asked for, so the controller never believes a block is coming that
\* nothing fetches, whatever budget was missing.
NoHole ==
    fileRevision = revision =>
        \A i \in DOMAIN streams :
            \A b \in streams[i].nextExpected .. streams[i].cursor - 1 : b \in asked

=============================================================================
