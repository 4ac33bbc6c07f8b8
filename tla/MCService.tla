----------------------------- MODULE MCService ------------------------------
(***************************************************************************)
(* What serves a request: its admission, the contents of files, streamed   *)
(* directory listings; and the files of the daemon's state and of the      *)
(* clients' trust stores.  They share no state, so a behaviour is one of   *)
(* one part, chosen in the initial state: the variables of StateFiles and  *)
(* of RequestAdmission are those of their parts, and s1 to s12 those of    *)
(* the others.                                                             *)
(***************************************************************************)
EXTENDS StateFiles, RequestAdmission

CONSTANTS c1, c2, p1, p2, r1, r2

VARIABLES part, s1, s2, s3, s4, s5, s6, s7, s8, s9, s10, s11, s12

others == << s1, s2, s3, s4, s5, s6, s7, s8, s9, s10, s11, s12 >>
all    == << part, vars, admissionVars, others >>

-----------------------------------------------------------------------------
\* Two connections of two peers, one of them or both authenticated before.
Kinds == {[kinds |-> {"auth"}, ready |-> {}],
          [kinds |-> {"auth", "read", "ping", "other"}, ready |-> {c2}],
          [kinds |-> {"write"}, ready |-> {c1, c2}],
          [kinds |-> {"read", "write"}, ready |-> {c1}]}

PeerOf == (c1 :> p1) @@ (c2 :> p2)

ASSUME BudgetsAssumption

-----------------------------------------------------------------------------
Cmd(op, at, on, value) == [op |-> op, at |-> at, on |-> on, value |-> value]

\* Accounts, identities, pins, pairing while the identity changes, and the first
\* start of a server.
Accounts ==
    {Cmd("add", "users", u, "-") : u \in Users} \cup {Cmd("remove", "users", u, "-") : u \in Users}
    \cup {Cmd("password", "users", u, 2) : u \in Users}
    \cup {Cmd(op, "users", Owner, b) : op \in {"enable", "grant"}, b \in BOOLEAN}
Identities == {Cmd("install", "identity", "-", "-"), Cmd("enable", "users", Owner, FALSE)}
Pairing == {Cmd("pair", m, "a", i) : m \in Machines, i \in Pairings}
Pins ==
    Pairing \cup {Cmd("import", m, s, "root") : m \in Machines, s \in {"a", "b"}}
    \cup {Cmd("forget", m, "a", "-") : m \in Machines} \cup {Cmd("createpairing", "users", "-", "-")}
Rotation == {Cmd("install", "identity", "-", "-")} \cup Pairing
FirstStart == {Cmd("init", "identity", "-", "-"), Cmd("install", "identity", "-", "-")}
                \cup {Cmd("add", "users", u, "-") : u \in Users}

Loads == {Accounts, Identities, Pins, Rotation, FirstStart}

ASSUME CommandsAssumption

-----------------------------------------------------------------------------
Work(op, names, base, xattrs, inline) ==
    [op |-> op, names |-> names, base |-> base, xattrs |-> xattrs, inline |-> inline]

\* Listings that fit a frame, ones streamed in several chunks, entries too large
\* for a chunk, and names alone, in one frame and in one too small.
Listings ==
    {Work("view", {1, 2}, << 1, 1, 1 >>, << 0, 1, 0 >>, << 1, 1, 0 >>),
     Work("view", {1, 2, 3}, << 2, 1, 2 >>, << 1, 0, 1 >>, << 0, 2, 0 >>),
     Work("view", {1, 2, 3}, << 2, 2, 1 >>, << 2, 5, 0 >>, << 3, 1, 1 >>),
     Work("list", {1, 3}, << 2, 2, 2 >>, << 1, 1, 1 >>, << 1, 1, 1 >>),
     Work("list", {1, 2, 3}, << 3, 3, 1 >>, << 0, 0, 0 >>, << 0, 0, 0 >>)}

Stream == INSTANCE DirectoryStream WITH
    Workloads <- Listings, Names <- 1 .. 3, FrameLimit <- 5, Overhead <- 1, InlineTotal <- 4,
    MaxChanges <- 2,
    workload <- s1, dir <- s2, child <- s3, past <- s4, server <- s5, frames <- s6,
    sent <- s7, open <- s8, client <- s9, changes <- s10

-----------------------------------------------------------------------------
\* Operations that can disturb each other, on one file and on two.
OnOne == {{"read", "write", "pathtruncate"}, {"append", "read", "truncate"},
          {"setattr", "setmiddle", "setend"}, {"createattr", "removeattr", "replaceattr"},
          {"getattr", "listattrs", "removeattr"},
          {"allocate", "sync", "seek", "mapblock", "pathtruncate"}}
OnTwo == {{"copy", "write"}, {"exchange", "copy"}, {"exchange", "read"}}

Mixes == [ops : OnOne, on : {{<< 1, 1 >>}}] \cup
         [ops : OnTwo, on : {{<< 1, 1 >>, << 1, 2 >>, << 2, 1 >>}}]

Contents == INSTANCE FileContents WITH
    Files <- {1, 2}, Tasks <- {r1, r2}, Workloads <- Mixes, MaxCalls <- 2, MaxGivenUp <- 1,
    MaxFaults <- 1,
    content <- s1, revision <- s2, fork <- s3, attr <- s4, gate <- s5, appender <- s6,
    tasks <- s7, orphans <- s8, workload <- s9, calls <- s10, givenUp <- s11, faults <- s12

-----------------------------------------------------------------------------
OthersUnused == /\ s1 = 0 /\ s2 = 0 /\ s3 = 0 /\ s4 = 0 /\ s5 = 0 /\ s6 = 0 /\ s7 = 0 /\ s8 = 0
                /\ s9 = 0 /\ s10 = 0 /\ s11 = 0 /\ s12 = 0
FilesUnused == Init /\ workload = Accounts
AdmissionUnused == AdmissionInit /\ load = [kinds |-> {"auth"}, ready |-> {}]

ServiceInit ==
    \/ part = "state" /\ Init /\ AdmissionUnused /\ OthersUnused
    \/ part = "admission" /\ AdmissionInit /\ FilesUnused /\ OthersUnused
    \/ /\ FilesUnused /\ AdmissionUnused
       /\ \/ part = "stream" /\ Stream!Init /\ s11 = 0 /\ s12 = 0
          \/ part = "contents" /\ Contents!Init

ServiceNext ==
    \/ part = "state" /\ Next /\ UNCHANGED << part, admissionVars, others >>
    \/ part = "admission" /\ AdmissionNext /\ UNCHANGED << part, vars, others >>
    \/ part = "stream" /\ Stream!Next /\ UNCHANGED << part, vars, admissionVars, s11, s12 >>
    \/ part = "contents" /\ Contents!Next /\ UNCHANGED << part, vars, admissionVars >>

ServiceSpec == ServiceInit /\ [][ServiceNext]_all

Sym == Permutations({r1, r2})

-----------------------------------------------------------------------------
(* Properties; those of StateFiles and RequestAdmission are their own *)

\* A listing that the client returns has the names the directory had at the
\* revision it is returned with, in order and each once, the xattrs sent with an
\* entry are those of the revision in its metadata, and no frame is too large,
\* however write_directory_view packs entries.
ViewsAreSnapshots ==
    part = "stream" => /\ Stream!TypeOK /\ Stream!ViewsAreSnapshots
                       /\ Stream!EntriesAreOfOneRevision

\* A read that succeeds returns bytes the file held together, whatever
\* truncations by path and abandoned work did meanwhile without a gate.
ReadsConsistent == part = "contents" => Contents!ReadsConsistent

\* copy_file_range, exchange_data and set_xattr at a position read first and
\* write later, and their results are those of running alone; a failed exchange
\* does not leave one resource fork changed; and the bytes of one append stay
\* together, also when its request is given up while the write is under way.
MutationsAreWhole ==
    part = "contents" => /\ Contents!TypeOK /\ Contents!ExclusiveWorkIsAlone
                         /\ Contents!ForksTogether /\ Contents!AppendsWhole
=============================================================================
