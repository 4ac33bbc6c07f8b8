-------------------------- MODULE DirectoryStream ---------------------------
(***************************************************************************)
(* A directory listing from the export to the client: the daemon scans the *)
(* directory entry by entry while it and its children change, checks that  *)
(* it stood still, and sends the result as one frame or as a stream of     *)
(* frames, which the client puts together again.                           *)
(* Source: directory_view, scan_directory and list_with_revision_blocking  *)
(* in src/crates/server-core/src/lib.rs, write_directory_view in           *)
(* src/servers/linux/server-daemon/src/main.rs, the codec in               *)
(* src/crates/protocol/src/lib.rs and list_directory_view_streamed in      *)
(* src/crates/client-core/src/lib.rs.                                      *)
(***************************************************************************)
EXTENDS Integers, Sequences, FiniteSets, SequencesExt

CONSTANTS
    Workloads,          \* [op, names: the first listing, base, xattrs, inline: sizes by name]
    Names,              \* names that may be in the directory, in order: 1 .. n
    FrameLimit,         \* MAX_FRAME_SIZE
    Overhead,           \* FrameLimit - DIRECTORY_VIEW_CHUNK_BUDGET
    InlineTotal,        \* options.inline_xattr_total_size
    MaxChanges          \* bound

VARIABLES
    workload,           \* the request of this behaviour
    dir,                \* [revision, names]: the directory
    child,              \* name -> revision
    past,               \* history: revision -> names
    server,             \* the handler: [pc, before, todo, stats, done, inline, chunk, revision]
    frames,             \* sent and not yet received
    sent,               \* history: the sizes of the frames sent
    open,               \* the stream is neither finished nor reset
    client,             \* [pc, revision, entries]
    changes

vars == << workload, dir, child, past, server, frames, sent, open, client, changes >>

Budget == FrameLimit - Overhead

Init ==
    /\ workload \in Workloads
    /\ dir = [revision |-> 1, names |-> workload.names]
    /\ child = [n \in Names |-> 1]
    /\ past = [r \in 1 .. MaxChanges + 1 |-> workload.names]
    /\ server = [pc |-> "prepare", before |-> 0, todo |-> {}, stats |-> << >>, done |-> {},
                 inline |-> InlineTotal, chunk |-> << >>, revision |-> 0]
    /\ frames = << >> /\ sent = {} /\ open = TRUE
    /\ client = [pc |-> "first", revision |-> 0, entries |-> << >>]
    /\ changes = 0

-----------------------------------------------------------------------------
(* The export under the scan *)

\* An entry is created or removed, by any process on the server.
ChangeDirectory(n) ==
    /\ changes < MaxChanges /\ changes' = changes + 1
    /\ dir' = [revision |-> dir.revision + 1,
               names |-> IF n \in dir.names THEN dir.names \ {n} ELSE dir.names \cup {n}]
    /\ past' = [past EXCEPT ![dir'.revision] = dir'.names]
    /\ UNCHANGED << workload, child, server, frames, sent, open, client >>

ChangeChild(n) ==
    /\ changes < MaxChanges /\ changes' = changes + 1
    /\ n \in dir.names
    /\ child' = [child EXCEPT ![n] = @ + 1]
    /\ UNCHANGED << workload, dir, past, server, frames, sent, open, client >>

-----------------------------------------------------------------------------
(* The scan *)

\* A response of one small frame, which ends the stream.
Respond(message) ==
    /\ frames' = Append(frames, message) /\ sent' = sent \cup {1}
    /\ open' = FALSE
    /\ server' = [server EXCEPT !.pc = "done"]

Error == [kind |-> "error", entries |-> << >>, revision |-> 0]

\* prepare_directory_scan: the directory is opened and its metadata read, then
\* its names.
Prepare ==
    /\ \/ /\ server.pc = "prepare"
          /\ server' = [server EXCEPT !.pc = "names", !.before = dir.revision]
       \/ /\ server.pc = "names"
          /\ server' = [server EXCEPT !.pc = "scan", !.todo = dir.names]
    /\ UNCHANGED << workload, dir, child, past, frames, sent, open, client, changes >>

\* scan_directory_entry: each entry's metadata, in any order; an entry that is
\* gone fails the scan.
Stat(n) ==
    /\ server.pc = "scan" /\ n \in server.todo
    /\ IF n \in dir.names
       THEN /\ server' = [server EXCEPT !.todo = @ \ {n}, !.stats = Append(@, << n, child[n] >>)]
            /\ UNCHANGED << frames, sent, open >>
       ELSE Respond(Error)
    /\ UNCHANGED << workload, dir, child, past, client, changes >>

\* The entry's revision is read again after its xattrs.
ChangedMeanwhile(n, r) == child[n] # r

Sizes(n) == [base |-> workload.base[n], xattrs |-> workload.xattrs[n], inline |-> workload.inline[n]]

\* claim_inline_budget: the view's inline values share one budget.
Claims(n) == Sizes(n).inline <= server.inline

\* An entry with its xattr names and the inline values it could claim.
Enriched(n, r) ==
    [name |-> n, meta |-> r, xattr |-> child[n], base |-> Sizes(n).base,
     xattrs |-> Sizes(n).xattrs, inline |-> IF Claims(n) THEN Sizes(n).inline ELSE 0]

\* An entry of list_with_revision_blocking, which reads no xattrs.
Plain(n, r) ==
    [name |-> n, meta |-> r, xattr |-> r, base |-> Sizes(n).base, xattrs |-> 0, inline |-> 0]

Enrich ==
    /\ server.pc = "scan" /\ server.stats # << >>
    /\ LET n == Head(server.stats)[1]  r == Head(server.stats)[2]
       IN  CASE workload.op = "view" /\ ChangedMeanwhile(n, r) -> Respond(Error)
             [] workload.op = "view" /\ ~ChangedMeanwhile(n, r) ->
                  /\ server' = [server EXCEPT !.stats = Tail(@), !.done = @ \cup {Enriched(n, r)},
                                              !.inline = IF Claims(n) THEN @ - Sizes(n).inline ELSE @]
                  /\ UNCHANGED << frames, sent, open >>
             [] workload.op = "list" ->
                  /\ server' = [server EXCEPT !.stats = Tail(@), !.done = @ \cup {Plain(n, r)}]
                  /\ UNCHANGED << frames, sent, open >>
    /\ UNCHANGED << workload, dir, child, past, client, changes >>

\* Mutant: any directory of as many entries will do.
SameNumber == Cardinality(dir.names) = Cardinality(server.done)

\* The directory stood still from the first look at it to the last.
Unchanged == dir.revision = server.before

Size(e) == e.base + e.xattrs + e.inline
Total(s) == FoldLeft(LAMBDA sum, e : sum + Size(e), 0, s)
Entries == SetToSortSeq(server.done, LAMBDA a, b : a.name < b.name)

\* scan_directory compares the revisions after the scan, directory_view once
\* more after the directory's own xattrs and its parent.
Check ==
    /\ server.pc = "final" \/ (server.pc = "scan" /\ server.todo = {} /\ server.stats = << >>)
    /\ IF Unchanged
       THEN /\ server' = [server EXCEPT !.pc = IF server.pc = "scan" /\ workload.op = "view"
                                               THEN "final" ELSE "send",
                                        !.revision = dir.revision]
            /\ UNCHANGED << frames, sent, open >>
       ELSE Respond(Error)
    /\ UNCHANGED << workload, dir, child, past, client, changes >>

-----------------------------------------------------------------------------
(* The response *)

Frame(kind, entries) == [kind |-> kind, entries |-> entries, revision |-> server.revision]

Write(frame) ==
    /\ frames' = Append(frames, frame)
    /\ sent' = sent \cup {Overhead + Total(frame.entries)}

\* encode_frame refuses what exceeds a frame: a view is then streamed, and a
\* plain listing is an error.
Send ==
    /\ server.pc = "send"
    /\ IF Overhead + Total(Entries) <= FrameLimit
       THEN /\ Write(Frame("whole", Entries))
            /\ open' = FALSE /\ server' = [server EXCEPT !.pc = "done"]
       ELSE IF workload.op = "list" THEN Respond(Error)
       ELSE /\ Write(Frame("start", << >>))
            /\ server' = [server EXCEPT !.pc = "pack"]
            /\ UNCHANGED open
    /\ UNCHANGED << workload, dir, child, past, client, changes >>

\* A lone entry above the budget loses its inline values, then its xattrs.
Shed(e) ==
    LET values == [e EXCEPT !.inline = 0]
    IN  IF Size(e) <= Budget THEN e
        ELSE IF Size(values) <= Budget THEN values
        ELSE [values EXCEPT !.xattrs = 0]

FullWith(chunk, e) == chunk # << >> /\ Total(chunk) + Size(e) > Budget

\* The next entry is put in the chunk, which is sent first if it has no room.
Pack ==
    /\ server.pc = "pack" /\ server.done # {}
    /\ LET first == Head(Entries)
           e == Shed(first)
       IN  IF FullWith(server.chunk, e)
           THEN Write(Frame("chunk", server.chunk))
                /\ server' = [server EXCEPT !.done = @ \ {first}, !.chunk = << e >>]
           ELSE /\ server' = [server EXCEPT !.done = @ \ {first}, !.chunk = Append(@, e)]
                /\ UNCHANGED << frames, sent >>
    /\ UNCHANGED << workload, dir, child, past, open, client, changes >>

\* The last chunk.
WithLast(chunk) == IF chunk = << >> THEN frames ELSE Append(frames, Frame("chunk", chunk))

EndStream ==
    /\ server.pc = "pack" /\ server.done = {}
    /\ frames' = Append(WithLast(server.chunk), Frame("end", << >>))
    /\ sent' = sent \cup {Overhead + Total(server.chunk)}
    /\ open' = FALSE /\ server' = [server EXCEPT !.pc = "done", !.chunk = << >>]
    /\ UNCHANGED << workload, dir, child, past, client, changes >>

\* The connection is lost: the client gets a prefix of what was sent.
Cut ==
    /\ server.pc # "done" \/ frames # << >>
    /\ \E n \in 0 .. Len(frames) : frames' = SubSeq(frames, 1, n)
    /\ open' = FALSE /\ server' = [server EXCEPT !.pc = "done"]
    /\ UNCHANGED << workload, dir, child, past, sent, client, changes >>

-----------------------------------------------------------------------------
(* The client *)

Waiting == client.pc \in {"first", "more"}

Received(f) ==
    CASE f.kind = "whole" -> [pc |-> "returned", revision |-> f.revision, entries |-> f.entries]
      [] f.kind = "start" -> [client EXCEPT !.pc = "more", !.revision = f.revision]
      [] f.kind = "chunk" -> [client EXCEPT !.entries = @ \o f.entries]
      [] f.kind = "end" -> [client EXCEPT !.pc = "returned"]
      [] f.kind = "error" -> [client EXCEPT !.pc = "failed"]

Receive ==
    /\ Waiting /\ frames # << >>
    /\ client' = Received(Head(frames))
    /\ frames' = Tail(frames)
    /\ UNCHANGED << workload, dir, child, past, server, sent, open, changes >>

\* The stream ended before the view did.
Give ==
    /\ Waiting /\ frames = << >> /\ ~open
    /\ client' = [client EXCEPT !.pc = "failed"]
    /\ UNCHANGED << workload, dir, child, past, server, frames, sent, open, changes >>

\* No frame came in time.
TimeOut ==
    /\ Waiting /\ frames = << >> /\ open
    /\ client' = [client EXCEPT !.pc = "failed"]
    /\ UNCHANGED << workload, dir, child, past, server, frames, sent, open, changes >>

-----------------------------------------------------------------------------
Scan == Prepare \/ (\E n \in Names : Stat(n)) \/ Enrich \/ Check
Reply == Send \/ Pack \/ EndStream

Next ==
    \/ Scan
    \/ Reply
    \/ \E n \in Names : ChangeDirectory(n) \/ ChangeChild(n)
    \/ Cut
    \/ Receive
    \/ Give
    \/ TimeOut

Spec == Init /\ [][Next]_vars

-----------------------------------------------------------------------------
(* Properties *)

\* No frame exceeds the limit of the codec, which would end the stream, however
\* entries are packed and whatever sizes their xattrs have.
TypeOK ==
    /\ server.inline \in 0 .. InlineTotal
    /\ \A size \in sent : size <= FrameLimit
    /\ client.pc \in {"first", "more", "returned", "failed"}

\* A listing that the client returns has, in order and each once, the names the
\* directory had at the revision it is returned with: no entry that came or went
\* during the scan, none lost between two chunks or with the end of the stream.
ViewsAreSnapshots ==
    client.pc = "returned" =>
        [i \in DOMAIN client.entries |-> client.entries[i].name]
            = SetToSortSeq(past[client.revision], <)

\* The xattrs sent with an entry are those of the revision in its metadata.
EntriesAreOfOneRevision ==
    client.pc = "returned" =>
        \A i \in DOMAIN client.entries : client.entries[i].meta = client.entries[i].xattr
=============================================================================
