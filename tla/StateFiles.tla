----------------------------- MODULE StateFiles -----------------------------
(***************************************************************************)
(* The files that hold accounts, pairings, server identities and pinned    *)
(* servers, and the commands that change them: processes of their own,     *)
(* which may overlap and may be killed between any two steps.  Lock files  *)
(* keep them apart, and a file is replaced by renaming a complete one.     *)
(* Source: src/crates/auth/src/lib.rs,                                     *)
(* src/clients/macos/client-cli/src/main.rs and the daemon's               *)
(* administration commands and Pair handler.                               *)
(***************************************************************************)
EXTENDS Integers, FiniteSets, Functions, TLC

CONSTANTS
    Procs, Users, Machines,     \* client machines, one trust store each
    Servers, Home,              \* Home: the server whose state this is
    Generations, Pairings,
    MaxGenerations,
    Workloads,                  \* sets of commands; a behaviour runs those of one
    MaxCommands, MaxFaults      \* bounds

VARIABLES
    root,               \* files of the server's state directory
    users,              \* users.json: user -> record
    generations,        \* identities/: generation -> its files
    active,             \* active-identity
    pairings,           \* pairing records
    presented,          \* the identity the running daemon presents
    trust,              \* machine -> trusted-servers.json: server -> pin
    locked,             \* the lock files that exist
    procs,
    proofs,             \* history: pairing -> proofs the server has given
    userLog, trustLog,  \* history: the accounts and pins, every change applied in turn
    raced,              \* history: two first starts have overlapped
    workload, commands, faults

server == << root, users, generations, active, presented >>
history == << proofs, userLog, trustLog, raced >>
bounds == << workload, commands, faults >>
vars == << server, pairings, trust, locked, procs, history, bounds >>

Root == "root"
Down == "down"
Complete == {"key", "cert"}
Empty == [x \in {} |-> x]
Idle == [op |-> "idle", at |-> "-", on |-> "-", value |-> "-", pc |-> "-", copy |-> Empty]
Account == [password |-> 1, enabled |-> TRUE, writable |-> FALSE]
Owner == CHOOSE u \in Users : TRUE

UserCommands == {"add", "password", "enable", "grant", "remove"}
TrustCommands == {"pair", "import", "forget"}

LockFiles == {"users", "identity"} \cup Machines

\* Each command works on the files its lock is for.
IsCommand(c) ==
    /\ c.op \in UserCommands => c.at = "users" /\ c.on \in Users
    /\ c.op = "install" => c.at = "identity"
    /\ c.op \in TrustCommands => c.at \in Machines

\* A generation is not named like the files of the state directory itself.
CommandsAssumption ==
    /\ \A w \in Workloads : \A c \in w : IsCommand(c) /\ c.at \in LockFiles
    /\ Users # {} /\ Root \notin Generations /\ MaxGenerations \in Nat

With(f, k, v) == [x \in DOMAIN f \cup {k} |-> IF x = k THEN v ELSE f[x]]

\* A state directory that is new, or initialized with one account and served.
Init ==
    /\ workload \in Workloads
    /\ \E new \in BOOLEAN :
          /\ new <=> \E c \in workload : c.op = "init"
          /\ root = IF new THEN {} ELSE Complete \cup {"users"}
          /\ users = IF new THEN Empty ELSE [u \in {Owner} |-> Account]
          /\ pairings = IF new THEN {} ELSE Pairings
          /\ presented = IF new THEN Down ELSE Root
    /\ generations = Empty /\ active = Root
    /\ trust = [m \in Machines |-> Empty]
    /\ locked = {}
    /\ procs = [p \in Procs |-> Idle]
    /\ proofs = [i \in Pairings |-> 0]
    /\ userLog = users /\ trustLog = trust /\ raced = FALSE
    /\ commands = 0 /\ faults = 0

-----------------------------------------------------------------------------
(* A command's life *)

\* validate_server_state: every generation must be complete, not only the active one.
ValidState ==
    /\ Complete \cup {"users"} \subseteq root
    /\ \A g \in DOMAIN generations : generations[g] = Complete
    /\ active \in DOMAIN generations \cup {Root}

Ends(p) == procs' = [procs EXCEPT ![p] = Idle]
Goes(p, pc) == procs' = [procs EXCEPT ![p].pc = pc]

\* The first step of a command: administration validates the state, pairing
\* looks for a pin, the other client commands lock at once.
FirstStep(op) == CASE op = "init" -> "init"
                   [] op = "pair" -> "unpaired"
                   [] op \in {"import", "forget"} -> "lock"
                   [] OTHER -> "validate"

Begin(p) ==
    /\ procs[p] = Idle /\ commands < MaxCommands
    /\ \E c \in workload :
          procs' = [procs EXCEPT ![p] = [op |-> c.op, at |-> c.at, on |-> c.on, value |-> c.value,
                                         pc |-> FirstStep(c.op), copy |-> Empty]]
    /\ commands' = commands + 1
    /\ UNCHANGED << server, pairings, trust, locked, history, workload, faults >>

Validate(p) ==
    /\ procs[p].pc = "validate"
    /\ IF ValidState
       THEN Goes(p, IF procs[p].op = "createpairing" THEN "record" ELSE "lock")
       ELSE Ends(p)
    /\ UNCHANGED << server, pairings, trust, locked, history, bounds >>

\* Mutant: the lock file of the accounts is opened if it exists.
OpensLock(p) == procs[p].at = "users" \/ procs[p].at \notin locked

\* create_new: the lock file must not exist.
CreatesLock(p) == procs[p].at \notin locked

\* A command that finds the lock taken fails at once; none waits.
Lock(p) ==
    /\ procs[p].pc = "lock"
    /\ IF CreatesLock(p)
       THEN locked' = locked \cup {procs[p].at} /\ Goes(p, "read")
       ELSE Ends(p) /\ UNCHANGED locked
    /\ UNCHANGED << server, pairings, trust, history, bounds >>

\* The command returns and its lock guard removes the file.
Unlock(p) ==
    /\ procs[p].pc = "unlock"
    /\ locked' = locked \ {procs[p].at}
    /\ Ends(p)
    /\ UNCHANGED << server, pairings, trust, history, bounds >>

\* The temporary file cannot be written or renamed: it goes, and nothing changed.
WriteFails(p) ==
    /\ procs[p].pc \in {"write", "save"} /\ faults < MaxFaults
    /\ faults' = faults + 1
    /\ Goes(p, "unlock")
    /\ UNCHANGED << server, pairings, trust, locked, history, workload, commands >>

\* The process is killed and leaves what it has written, its lock file included.
Kill(p) ==
    /\ procs[p] # Idle /\ faults < MaxFaults
    /\ faults' = faults + 1
    /\ Ends(p)
    /\ UNCHANGED << server, pairings, trust, locked, history, workload, commands >>

\* The administrator removes the lock files left when no command runs.
RemoveStaleLocks ==
    /\ locked # {} /\ \A p \in Procs : procs[p] = Idle
    /\ locked' = {}
    /\ UNCHANGED << server, pairings, trust, procs, history, bounds >>

\* The daemon is started again; it serves only a state that validates.
Restart ==
    /\ presented' = IF ValidState THEN active ELSE Down
    /\ UNCHANGED << root, users, generations, active, pairings, trust, locked, procs, history, bounds >>

-----------------------------------------------------------------------------
(* Accounts *)

\* What a command makes of the accounts it has read.
Edited(c, db) ==
    CASE c.op = "add" -> With(db, c.on, Account)
      [] c.op = "password" -> [db EXCEPT ![c.on].password = c.value]
      [] c.op = "enable" -> [db EXCEPT ![c.on].enabled = c.value]
      [] c.op = "grant" -> [db EXCEPT ![c.on].writable = c.value]
      [] c.op = "remove" -> Restrict(db, DOMAIN db \ {c.on})

\* add_user wants a new account, every other command an existing one.
Applies(c, db) == (c.op = "add") # (c.on \in DOMAIN db)

ReadUsers(p) ==
    /\ procs[p].pc = "read" /\ procs[p].op \in UserCommands
    /\ procs' = [procs EXCEPT ![p].pc = IF Applies(procs[p], users) THEN "write" ELSE "unlock",
                              ![p].copy = users]
    /\ UNCHANGED << server, pairings, trust, locked, history, bounds >>

WriteUsers(p) ==
    /\ procs[p].pc = "write" /\ procs[p].op \in UserCommands
    /\ users' = Edited(procs[p], procs[p].copy)
    /\ userLog' = IF Applies(procs[p], userLog) THEN Edited(procs[p], userLog) ELSE userLog
    /\ Goes(p, "unlock")
    /\ UNCHANGED << root, generations, active, presented, pairings, trust, locked, proofs,
                    trustLog, raced, bounds >>

-----------------------------------------------------------------------------
(* Identities *)

\* initialize_with_identity: refuses a directory with any of its files, then
\* writes the key, the certificate and the empty accounts in this order.  No
\* lock is taken.
Initializing == {"initkey", "initcert", "initusers"}

Initialize(p) ==
    /\ \/ /\ procs[p].pc = "init"
          /\ IF root = {} /\ pairings = {} /\ generations = Empty /\ active = Root
             THEN /\ Goes(p, "initkey")
                  /\ raced' = (raced \/ \E q \in Procs : procs[q].pc \in Initializing)
             ELSE Ends(p) /\ UNCHANGED raced
          /\ UNCHANGED << root, users, userLog >>
       \/ /\ procs[p].pc = "initkey"
          /\ root' = root \cup {"key"} /\ Goes(p, "initcert") /\ UNCHANGED << users, userLog, raced >>
       \/ /\ procs[p].pc = "initcert"
          /\ root' = root \cup {"cert"} /\ Goes(p, "initusers") /\ UNCHANGED << users, userLog, raced >>
       \/ /\ procs[p].pc = "initusers"
          /\ root' = root \cup {"users"} /\ users' = Empty /\ userLog' = Empty /\ Ends(p)
          /\ UNCHANGED raced
    /\ UNCHANGED << generations, active, presented, pairings, trust, locked, proofs, trustLog, bounds >>

HasRoom == Cardinality(DOMAIN generations) < MaxGenerations

\* Mutant: the generation is selected before its certificate is written.
SelectsEarly(pc) == CASE pc = "key" -> "active" [] pc = "active" -> "cert" [] pc = "cert" -> "unlock"

\* The order of the three writes of install_identity.
InstallOrder(pc) == CASE pc = "key" -> "cert" [] pc = "cert" -> "active" [] pc = "active" -> "unlock"

\* create_dir of a generation with a new identifier.
CreateGeneration(p) ==
    /\ procs[p].pc = "read" /\ procs[p].op = "install"
    /\ \/ /\ HasRoom
          /\ \E g \in Generations \ DOMAIN generations :
                /\ generations' = With(generations, g, {})
                /\ procs' = [procs EXCEPT ![p].pc = "key", ![p].on = g]
       \/ /\ ~HasRoom
          /\ Goes(p, "unlock") /\ UNCHANGED generations
    /\ UNCHANGED << root, users, active, presented, pairings, trust, locked, history, bounds >>

InstallWrite(p) ==
    /\ procs[p].pc \in {"key", "cert", "active"}
    /\ \/ /\ procs[p].pc \in Complete
          /\ generations' = [generations EXCEPT ![procs[p].on] = @ \cup {procs[p].pc}]
          /\ UNCHANGED active
       \/ /\ procs[p].pc = "active"
          /\ active' = procs[p].on
          /\ UNCHANGED generations
    /\ Goes(p, InstallOrder(procs[p].pc))
    /\ UNCHANGED << root, users, presented, pairings, trust, locked, history, bounds >>

\* One of the writes fails: the files and the directory are removed.
InstallFails(p) ==
    /\ procs[p].pc \in {"key", "cert", "active"} /\ faults < MaxFaults
    /\ faults' = faults + 1
    /\ generations' = Restrict(generations, DOMAIN generations \ {procs[p].on})
    /\ Goes(p, "unlock")
    /\ UNCHANGED << root, users, active, presented, pairings, trust, locked, history, workload, commands >>

-----------------------------------------------------------------------------
(* Pairings *)

CreatePairing(p) ==
    /\ procs[p].pc = "record"
    /\ \E i \in Pairings : proofs[i] = 0 /\ i \notin pairings /\ pairings' = pairings \cup {i}
    /\ Ends(p)
    /\ UNCHANGED << server, trust, locked, history, bounds >>

Pinned(p) == procs[p].on \in DOMAIN trust[procs[p].at]

\* ensure_unpaired before the prompt.
CheckUnpaired(p) ==
    /\ procs[p].pc = "unpaired"
    /\ IF Pinned(p) THEN Ends(p) ELSE Goes(p, "lock")
    /\ UNCHANGED << server, pairings, trust, locked, history, bounds >>

\* ensure_unpaired again, under the lock.
RecheckedStep(p) ==
    IF Pinned(p) THEN "unlock" ELSE IF procs[p].op = "pair" THEN "load" ELSE "save"

Recheck(p) ==
    /\ procs[p].pc = "read" /\ procs[p].op \in {"pair", "import"}
    /\ Goes(p, RecheckedStep(p))
    /\ UNCHANGED << server, pairings, trust, locked, history, bounds >>

\* The daemon loads the record and verifies the client's proof; an expired
\* record is removed, and a wrong code leaves it.
LoadPairing(p) ==
    /\ procs[p].pc = "load"
    /\ \/ procs[p].value \in pairings /\ presented # Down /\ Goes(p, "consume") /\ UNCHANGED pairings
       \/ Goes(p, "unlock") /\ pairings' \in {pairings, pairings \ {procs[p].value}}
    /\ UNCHANGED << server, trust, locked, history, bounds >>

\* consume_pairing: remove_file fails for all but one.
Consumes(i) == i \in pairings

\* The daemon answers with its proof only if it consumed the record.  The client
\* keeps the identity it was presented.
ConsumePairing(p) ==
    /\ procs[p].pc = "consume"
    /\ IF Consumes(procs[p].value) /\ presented # Down
       THEN /\ pairings' = pairings \ {procs[p].value}
            /\ proofs' = [proofs EXCEPT ![procs[p].value] = @ + 1]
            /\ procs' = [procs EXCEPT ![p].pc = "save", ![p].value = presented]
       ELSE Goes(p, "unlock") /\ UNCHANGED << pairings, proofs >>
    /\ UNCHANGED << server, trust, locked, userLog, trustLog, raced, bounds >>

-----------------------------------------------------------------------------
(* Pins *)

\* save_trust_locked reads the pins, and keeps one it finds.
ReadTrust(p) ==
    /\ procs[p].pc = "save" \/ (procs[p].pc = "read" /\ procs[p].op = "forget")
    /\ procs' = [procs EXCEPT ![p].pc = IF Pinned(p) <=> procs[p].op = "forget" THEN "write" ELSE "unlock",
                              ![p].copy = trust[procs[p].at]]
    /\ UNCHANGED << server, pairings, trust, locked, history, bounds >>

Repinned(c, db) ==
    IF c.op = "forget" THEN Restrict(db, DOMAIN db \ {c.on}) ELSE With(db, c.on, c.value)

WriteTrust(p) ==
    /\ procs[p].pc = "write" /\ procs[p].op \in TrustCommands
    /\ trust' = [trust EXCEPT ![procs[p].at] = Repinned(procs[p], procs[p].copy)]
    /\ trustLog' = [trustLog EXCEPT ![procs[p].at] = Repinned(procs[p], @)]
    /\ Goes(p, "unlock")
    /\ UNCHANGED << server, pairings, locked, proofs, userLog, raced, bounds >>

-----------------------------------------------------------------------------
Next ==
    \/ \E p \in Procs :
          \/ Begin(p) \/ Validate(p) \/ Lock(p) \/ Unlock(p) \/ WriteFails(p) \/ Kill(p)
          \/ ReadUsers(p) \/ WriteUsers(p)
          \/ Initialize(p) \/ CreateGeneration(p) \/ InstallWrite(p) \/ InstallFails(p)
          \/ CreatePairing(p) \/ CheckUnpaired(p) \/ Recheck(p) \/ LoadPairing(p) \/ ConsumePairing(p)
          \/ ReadTrust(p) \/ WriteTrust(p)
    \/ RemoveStaleLocks
    \/ Restart

Spec == Init /\ [][Next]_vars

-----------------------------------------------------------------------------
(* Properties *)

\* No more generations than MAX_IDENTITY_GENERATIONS, which validate_server_state
\* would refuse ever after.
TypeOK ==
    /\ root \subseteq Complete \cup {"users"}
    /\ DOMAIN users \subseteq Users
    /\ DOMAIN generations \subseteq Generations
    /\ Cardinality(DOMAIN generations) <= MaxGenerations
    /\ active \in Generations \cup {Root}
    /\ presented \in Generations \cup {Root, Down}
    /\ pairings \subseteq Pairings
    /\ locked \subseteq LockFiles

\* The daemon gives one proof for a pairing record, whoever asks at the same time.
PairingOnce == \A i \in Pairings : proofs[i] <= 1

\* A client that already has a pin for the server does not ask the daemon for a
\* proof: the check before the prompt is repeated under the lock, so that a
\* pairing record is not used up for nothing.
PairsOnlyUnpinned == \A p \in Procs : procs[p].pc \in {"load", "consume"} => ~Pinned(p)

\* The accounts and the pins are what the completed commands make of them one
\* after the other: the lock files keep overlapping commands from overwriting
\* what another has written, also after kills and after stale locks are removed.
\* A first start takes no lock, so of two that overlap the second may replace
\* accounts that were added meanwhile.  A pairing record that was used stays used,
\* and a client with a pin does not use one.
NoLostUpdate == /\ ~raced => users = userLog
                /\ trust = trustLog
                /\ PairingOnce /\ PairsOnlyUnpinned

\* active-identity names a generation with its key and its certificate at every
\* moment, so a kill or a failed write never leaves the daemon without identity.
ActiveComplete == active # Root => active \in DOMAIN generations /\ generations[active] = Complete

\* Whatever is killed or fails, the identity in use is complete, and the state has
\* its shape: the generations stay within their limit also when installations
\* overlap and fail half-way.
StateIntact == TypeOK /\ ActiveComplete

\* After a kill it is enough to remove the stale lock file: with no command
\* running and no lock left, an initialized state validates.
RecoversByUnlocking ==
    (root = Complete \cup {"users"} /\ locked = {} /\ \A p \in Procs : procs[p] = Idle) => ValidState
=============================================================================
