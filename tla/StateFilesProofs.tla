-------------------------- MODULE StateFilesProofs --------------------------
(***************************************************************************)
(* Proofs about the commands that change the server's state and the        *)
(* clients' pins, for any number of processes, kills and failed writes.    *)
(***************************************************************************)
EXTENDS StateFiles, FiniteSetTheorems, TLAPS

\* The steps of a command that has its lock file, and of install_identity with a
\* generation of its own.
Held == {"read", "write", "save", "load", "consume", "key", "cert", "active", "unlock"}
Installing == {"key", "cert", "active"}

\* Which command takes which steps.
IsProc(c) ==
    /\ DOMAIN c = {"op", "at", "on", "value", "pc", "copy"}
    /\ IsCommand(c)
    /\ c.pc \in Installing => c.op = "install"
    /\ c.pc \in {"unpaired", "load", "consume"} => c.op = "pair"
    /\ c.pc = "save" => c.op \in {"pair", "import"}
    /\ c.pc = "write" => c.op \in UserCommands \cup TrustCommands

\* What a command under its lock knows of the files it is about to change.
KnowsUsers(c, db) ==
    c.pc = "write" /\ c.op \in UserCommands => c.copy = db /\ Applies(c, db)

KnowsPins(c, pins) ==
    /\ c.pc = "write" /\ c.op \in TrustCommands => c.copy = pins[c.at]
    /\ c.pc \in {"load", "consume"} => c.on \notin DOMAIN pins[c.at]

KnowsIdentity(c, dirs, name) ==
    /\ c.pc \in Installing => c.on \in DOMAIN dirs /\ c.on # name
    /\ c.pc = "key" => dirs[c.on] = {}
    /\ c.pc = "cert" => dirs[c.on] = {"key"}
    /\ c.pc = "active" => dirs[c.on] = Complete

\* A lock file has one owner at most, dead ones not counted.
LocksHeld(table, names) ==
    /\ \A p \in Procs : table[p].pc \in Held => table[p].at \in names
    /\ \A p, q \in Procs :
          p # q /\ table[p].pc \in Held /\ table[q].pc \in Held => table[p].at # table[q].at

Selected(dirs, name) == name # Root => name \in DOMAIN dirs /\ dirs[name] = Complete

ProcsInv ==
    /\ \A w \in workload : IsCommand(w)
    /\ procs = [p \in Procs |-> procs[p]]
    /\ \A p \in Procs : IsProc(procs[p])
    /\ LocksHeld(procs, locked)

PinsInv ==
    /\ trust = [m \in Machines |-> trust[m]] /\ trustLog = trust
    /\ \A p \in Procs : KnowsPins(procs[p], trust)

IdentityInv ==
    /\ Selected(generations, active)
    /\ \A p \in Procs : KnowsIdentity(procs[p], generations, active)

\* Until two first starts overlap: the accounts do not exist while one is under
\* way, and no command that wants them is past validate_server_state.
Exists(c) == c.op \in UserCommands /\ c.pc \in {"lock", "read", "write"}

StartsInv ==
    /\ \A p \in Procs : Exists(procs[p]) => "users" \in root
    /\ ~raced =>
          /\ \A p \in Procs : procs[p].pc \in Initializing => "users" \notin root
          /\ \A p, q \in Procs :
                procs[p].pc \in Initializing /\ procs[q].pc \in Initializing => p = q

UsersInv ==
    ~raced => /\ users = userLog
              /\ \A p \in Procs : KnowsUsers(procs[p], users)

\* A record that is there has not been used.
PairingsInv ==
    \A i \in Pairings : proofs[i] \in {0, 1} /\ (i \in pairings => proofs[i] = 0)

StateInv == ProcsInv /\ PinsInv /\ IdentityInv /\ StartsInv /\ UsersInv /\ PairingsInv

-----------------------------------------------------------------------------
\* Process p takes a step and becomes c; the others stay as they are.
Became(p, c) ==
    /\ procs' = [q \in Procs |-> procs'[q]] /\ procs'[p] = c
    /\ \A q \in Procs : q # p => procs'[q] = procs[q]

\* What its step may do to the lock files.
MayLock(p, c) ==
    /\ c.pc \in Held => /\ c.at \in locked'
                        /\ \A q \in Procs : q # p /\ procs[q].pc \in Held => procs[q].at # c.at
    /\ \A q \in Procs : q # p /\ procs[q].pc \in Held => procs[q].at \in locked'

LEMMA BecameFacts ==
    ASSUME ProcsInv, NEW p \in Procs, NEW c, procs' = [procs EXCEPT ![p] = c]
    PROVE  Became(p, c)
BY Zenon DEF ProcsInv, Became

LEMMA ProcsKept ==
    ASSUME ProcsInv, NEW p \in Procs, NEW c, Became(p, c), IsProc(c), MayLock(p, c),
           UNCHANGED workload
    PROVE  ProcsInv'
<1>1. \A w \in workload' : IsCommand(w)
  BY Zenon DEF ProcsInv
<1>2. \A q \in Procs : IsProc(procs'[q])
  BY Zenon DEF ProcsInv, Became
<1>3. LocksHeld(procs', locked')
  <2>1. LocksHeld(procs, locked)
    BY Zenon DEF ProcsInv
  <2> QED BY <2>1, Zenon DEF LocksHeld, Became, MayLock
<1> QED BY <1>1, <1>2, <1>3, Zenon DEF ProcsInv, Became

LEMMA PinsKept ==
    ASSUME PinsInv, NEW p \in Procs, NEW c, Became(p, c), KnowsPins(c, trust),
           UNCHANGED << trust, trustLog >>
    PROVE  PinsInv'
BY Zenon DEF PinsInv, Became

LEMMA IdentityKept ==
    ASSUME IdentityInv, NEW p \in Procs, NEW c, Became(p, c),
           KnowsIdentity(c, generations, active), UNCHANGED << generations, active >>
    PROVE  IdentityInv'
BY Zenon DEF IdentityInv, Became

LEMMA StartsKept ==
    ASSUME StartsInv, NEW p \in Procs, NEW c, Became(p, c), Exists(c) => "users" \in root,
           c.pc \notin Initializing, UNCHANGED << root, raced >>
    PROVE  StartsInv'
BY Zenon DEF StartsInv, Became

LEMMA UsersKept ==
    ASSUME UsersInv, NEW p \in Procs, NEW c, Became(p, c), ~raced => KnowsUsers(c, users),
           UNCHANGED << users, userLog, raced >>
    PROVE  UsersInv'
BY Zenon DEF UsersInv, Became

\* A step that changes no file but lock files.
Files == << root, users, generations, active, trust, pairings, proofs, userLog, trustLog, raced >>

LEMMA StepKeeps ==
    ASSUME StateInv, NEW p \in Procs, NEW c, procs' = [procs EXCEPT ![p] = c], IsProc(c),
           MayLock(p, c), UNCHANGED << Files, workload >>, c.pc \notin Initializing,
           Exists(c) => "users" \in root, KnowsPins(c, trust),
           KnowsIdentity(c, generations, active), ~raced => KnowsUsers(c, users)
    PROVE  StateInv'
<1>1. Became(p, c)
  BY BecameFacts, Zenon DEF StateInv
<1>2. UNCHANGED << root, users, generations, active, trust, pairings, proofs, userLog, trustLog,
                   raced, workload >>
  BY Zenon DEF Files
<1>3. ProcsInv'
  BY <1>1, <1>2, ProcsKept, Zenon DEF StateInv
<1>4. PinsInv'
  BY <1>1, <1>2, PinsKept, Zenon DEF StateInv
<1>5. IdentityInv'
  BY <1>1, <1>2, IdentityKept, Zenon DEF StateInv
<1>6. StartsInv'
  BY <1>1, <1>2, StartsKept, Zenon DEF StateInv
<1>7. UsersInv'
  BY <1>1, <1>2, UsersKept, Zenon DEF StateInv
<1>8. PairingsInv'
  BY <1>2, Zenon DEF StateInv, PairingsInv
<1> QED BY <1>3, <1>4, <1>5, <1>6, <1>7, <1>8, Zenon DEF StateInv

\* The steps at which a command knows nothing of the files.
Plain == {"init", "unpaired", "lock", "validate", "record", "read", "unlock", "-"}

LEMMA PlainFacts ==
    ASSUME NEW c, c.pc \in Plain
    PROVE  /\ c.pc \notin Initializing /\ KnowsPins(c, trust)
           /\ KnowsIdentity(c, generations, active) /\ KnowsUsers(c, users)
           /\ c.pc \notin Installing /\ c.pc \notin {"load", "consume", "save", "write"}
BY Zenon DEF Plain, Initializing, KnowsPins, KnowsIdentity, KnowsUsers, Installing

LEMMA IdleFacts == IsProc(Idle) /\ Idle.pc = "-" /\ ~Exists(Idle)
BY Zenon DEF Idle, IsProc, IsCommand, UserCommands, TrustCommands, Installing, Exists

\* A command that goes from one step to another.
Moved(p, pc) == [procs[p] EXCEPT !.pc = pc]

LEMMA MovedFacts ==
    ASSUME ProcsInv, NEW p \in Procs, NEW pc
    PROVE  /\ DOMAIN Moved(p, pc) = {"op", "at", "on", "value", "pc", "copy"}
           /\ Moved(p, pc).pc = pc /\ Moved(p, pc).op = procs[p].op /\ Moved(p, pc).at = procs[p].at
           /\ Moved(p, pc).on = procs[p].on /\ Moved(p, pc).value = procs[p].value
           /\ Moved(p, pc).copy = procs[p].copy
           /\ IsCommand(Moved(p, pc))
<1>1. IsProc(procs[p])
  BY Zenon DEF ProcsInv
<1>2. /\ DOMAIN Moved(p, pc) = {"op", "at", "on", "value", "pc", "copy"}
      /\ Moved(p, pc).pc = pc /\ Moved(p, pc).op = procs[p].op /\ Moved(p, pc).at = procs[p].at
      /\ Moved(p, pc).on = procs[p].on /\ Moved(p, pc).value = procs[p].value
      /\ Moved(p, pc).copy = procs[p].copy
  BY <1>1, Zenon DEF Moved, IsProc
<1> QED BY <1>1, <1>2, Zenon DEF IsProc, IsCommand

\* A command that leaves its lock file alone may go on under it, or end.
LEMMA LockStays ==
    ASSUME ProcsInv, NEW p \in Procs, NEW c, UNCHANGED locked,
           c.pc \in Held => procs[p].pc \in Held /\ c.at = procs[p].at
    PROVE  MayLock(p, c)
<1>1. LocksHeld(procs, locked)
  BY Zenon DEF ProcsInv
<1> QED BY <1>1, Zenon DEF LocksHeld, MayLock

\* A command ends where it is and leaves what it has written.
LEMMA EndKeeps ==
    ASSUME StateInv, NEW p \in Procs, Ends(p), UNCHANGED << Files, workload, locked >>
    PROVE  StateInv'
<1>1. procs' = [procs EXCEPT ![p] = Idle] /\ Idle.pc \in Plain /\ Idle.pc \notin Held
  BY IdleFacts, Zenon DEF Ends, Plain, Held
<1>2. MayLock(p, Idle)
  BY <1>1, LockStays, Zenon DEF StateInv
<1> QED BY <1>1, <1>2, IdleFacts, PlainFacts, StepKeeps, Zenon

\* A command goes on to a step at which it knows nothing.
LEMMA MoveKeeps ==
    ASSUME StateInv, NEW p \in Procs, NEW pc \in Plain \ {"unpaired"}, Goes(p, pc),
           UNCHANGED << Files, workload >>, MayLock(p, Moved(p, pc)),
           Exists(Moved(p, pc)) => "users" \in root
    PROVE  StateInv'
<1> DEFINE c == Moved(p, pc)
<1>1. c.pc = pc /\ IsCommand(c) /\ DOMAIN c = {"op", "at", "on", "value", "pc", "copy"}
  BY MovedFacts DEF StateInv
<1>2. procs' = [procs EXCEPT ![p] = c]
  BY Zenon DEF Goes, Moved
<1> HIDE DEF c
<1>3. IsProc(c)
  BY <1>1, PlainFacts, Zenon DEF IsProc
<1> QED BY <1>1, <1>2, <1>3, PlainFacts, StepKeeps, Zenon DEF c

-----------------------------------------------------------------------------
\* A command begins, validates the state, takes its lock and gives it back, fails
\* or is killed.
LEMMA CommandSteps ==
    ASSUME StateInv, NEW p \in Procs,
           Begin(p) \/ Validate(p) \/ Lock(p) \/ Unlock(p) \/ WriteFails(p) \/ Kill(p)
    PROVE  StateInv'
<1>1. CASE Begin(p)
  <2>1. PICK w \in workload :
           procs' = [procs EXCEPT ![p] = [op |-> w.op, at |-> w.at, on |-> w.on, value |-> w.value,
                                          pc |-> FirstStep(w.op), copy |-> Empty]]
    BY <1>1, Zenon DEF Begin
  <2> DEFINE c == [op |-> w.op, at |-> w.at, on |-> w.on, value |-> w.value,
                   pc |-> FirstStep(w.op), copy |-> Empty]
  <2>2. IsCommand(w)
    BY Zenon DEF StateInv, ProcsInv
  <2>3. /\ FirstStep(w.op) \in {"init", "unpaired", "lock", "validate"}
        /\ FirstStep(w.op) = "lock" => w.op \in {"import", "forget"}
        /\ FirstStep(w.op) = "unpaired" => w.op = "pair"
    BY Zenon DEF FirstStep
  <2>4. /\ DOMAIN c = {"op", "at", "on", "value", "pc", "copy"} /\ IsCommand(c)
        /\ c.pc = FirstStep(w.op) /\ c.op = w.op
    BY <2>2, Zenon DEF IsCommand
  <2> HIDE DEF c
  <2>5. c.pc \in Plain /\ c.pc \notin Held /\ ~Exists(c)
    BY <2>3, <2>4, Zenon DEF Plain, Held, Exists, UserCommands
  <2>6. IsProc(c)
    BY <2>3, <2>4, <2>5, PlainFacts, Zenon DEF IsProc
  <2>7. UNCHANGED << Files, workload, locked >>
    BY <1>1, Zenon DEF Begin, Files, server, history
  <2>8. MayLock(p, c)
    BY <2>5, <2>7, LockStays, Zenon DEF StateInv
  <2> QED BY <2>1, <2>5, <2>6, <2>7, <2>8, PlainFacts, StepKeeps, Zenon DEF c
<1>2. CASE Validate(p)
  <2>1. UNCHANGED << Files, workload, locked >>
    BY <1>2, Zenon DEF Validate, Files, server, history, bounds
  <2>2. CASE Ends(p)
    BY <2>1, <2>2, EndKeeps, Zenon
  <2>3. ASSUME NEW pc \in {"record", "lock"}, Goes(p, pc), ValidState PROVE StateInv'
    <3>1. pc \in Plain /\ "users" \in root /\ Moved(p, pc).pc \notin Held
      BY <2>3, MovedFacts, Zenon DEF Plain, ValidState, Held, StateInv
    <3>2. MayLock(p, Moved(p, pc))
      BY <2>1, <3>1, LockStays, Zenon DEF StateInv
    <3> QED BY <2>1, <2>3, <3>1, <3>2, MoveKeeps, Zenon
  <2> QED BY <1>2, <2>2, <2>3, Zenon DEF Validate
<1>3. CASE Lock(p)
  <2>1. UNCHANGED << Files, workload >> /\ procs[p].pc = "lock"
    BY <1>3, Zenon DEF Lock, Files, server, history, bounds
  <2>2. CASE Ends(p) /\ UNCHANGED locked
    BY <2>1, <2>2, EndKeeps, Zenon
  <2>3. CASE CreatesLock(p) /\ locked' = locked \cup {procs[p].at} /\ Goes(p, "read")
    <3>1. /\ Moved(p, "read").at = procs[p].at /\ Moved(p, "read").op = procs[p].op
          /\ Moved(p, "read").pc = "read"
      BY MovedFacts, Zenon DEF StateInv
    <3>2. LocksHeld(procs, locked)
      BY Zenon DEF StateInv, ProcsInv
    <3>3. MayLock(p, Moved(p, "read"))
      BY <2>3, <3>1, <3>2, Zenon DEF CreatesLock, LocksHeld, MayLock
    <3>4. Exists(Moved(p, "read")) => "users" \in root
      BY <2>1, <3>1, Zenon DEF StateInv, StartsInv, Exists
    <3> QED BY <2>1, <2>3, <3>3, <3>4, MoveKeeps, Zenon DEF Plain
  <2> QED BY <1>3, <2>2, <2>3, Zenon DEF Lock
<1>4. CASE Unlock(p)
  <2>1. /\ UNCHANGED << Files, workload >> /\ procs[p].pc = "unlock" /\ Ends(p)
        /\ locked' = locked \ {procs[p].at}
    BY <1>4, Zenon DEF Unlock, Files, server, history, bounds
  <2>2. procs' = [procs EXCEPT ![p] = Idle] /\ Idle.pc \in Plain /\ Idle.pc \notin Held
    BY <2>1, IdleFacts, Zenon DEF Ends, Plain, Held
  <2>3. LocksHeld(procs, locked)
    BY Zenon DEF StateInv, ProcsInv
  <2>4. MayLock(p, Idle)
    BY <2>1, <2>2, <2>3, Zenon DEF MayLock, LocksHeld, Held
  <2> QED BY <2>1, <2>2, <2>4, IdleFacts, PlainFacts, StepKeeps, Zenon
<1>5. CASE WriteFails(p)
  <2>1. /\ UNCHANGED << Files, workload, locked >> /\ procs[p].pc \in Held /\ Goes(p, "unlock")
    BY <1>5, Zenon DEF WriteFails, Files, server, history, Held
  <2>2. Moved(p, "unlock").at = procs[p].at /\ Moved(p, "unlock").pc = "unlock"
    BY MovedFacts, Zenon DEF StateInv
  <2>3. MayLock(p, Moved(p, "unlock")) /\ ~Exists(Moved(p, "unlock"))
    BY <2>1, <2>2, LockStays, Zenon DEF StateInv, Exists
  <2> QED BY <2>1, <2>3, MoveKeeps, Zenon DEF Plain
<1>6. CASE Kill(p)
  <2>1. UNCHANGED << Files, workload, locked >> /\ Ends(p)
    BY <1>6, Zenon DEF Kill, Files, server, history
  <2> QED BY <2>1, EndKeeps, Zenon
<1> QED BY <1>1, <1>2, <1>3, <1>4, <1>5, <1>6, Zenon

\* What happens beside the commands.
LEMMA OtherSteps ==
    ASSUME StateInv, RemoveStaleLocks \/ Restart \/ UNCHANGED vars
    PROVE  StateInv'
<1>1. UNCHANGED << Files, workload, procs >>
  BY Zenon DEF RemoveStaleLocks, Restart, vars, Files, server, history, bounds
<1>2. ProcsInv'
  <2>1. LocksHeld(procs, locked')
    <3>1. LocksHeld(procs, locked)
      BY Zenon DEF StateInv, ProcsInv
    <3>2. CASE RemoveStaleLocks
      BY <3>2, IdleFacts, Zenon DEF RemoveStaleLocks, LocksHeld, Held
    <3>3. CASE Restart \/ UNCHANGED vars
      BY <3>1, <3>3, Zenon DEF Restart, vars
    <3> QED BY <3>2, <3>3, Zenon
  <2> QED BY <1>1, <2>1, Zenon DEF StateInv, ProcsInv
<1>3. UNCHANGED << root, users, generations, active, trust, pairings, proofs, userLog, trustLog,
                   raced, workload, procs >>
  BY <1>1, Zenon DEF Files
<1>4. PinsInv' /\ IdentityInv'
  BY <1>3, Zenon DEF StateInv, PinsInv, IdentityInv
<1>5. StartsInv' /\ UsersInv'
  BY <1>3, Zenon DEF StateInv, StartsInv, UsersInv
<1>6. PairingsInv'
  BY <1>3, Zenon DEF StateInv, PairingsInv
<1> QED BY <1>2, <1>4, <1>5, <1>6, Zenon DEF StateInv

-----------------------------------------------------------------------------
\* Under a lock: the other commands that hold one hold another.
LEMMA Alone ==
    ASSUME ProcsInv, NEW p \in Procs, NEW q \in Procs, p # q,
           procs[p].pc \in Held, procs[q].pc \in Held
    PROVE  procs[q].at # procs[p].at
BY Zenon DEF ProcsInv, LocksHeld

\* The accounts are read and replaced under their lock.
LEMMA UserSteps ==
    ASSUME StateInv, NEW p \in Procs, ReadUsers(p) \/ WriteUsers(p)
    PROVE  StateInv'
<1>0. IsProc(procs[p]) /\ procs[p].at = "users" /\ procs[p].op \in UserCommands
  BY Zenon DEF StateInv, ProcsInv, IsProc, IsCommand, ReadUsers, WriteUsers
<1>1. CASE ReadUsers(p)
  <2> DEFINE x == IF Applies(procs[p], users) THEN "write" ELSE "unlock"
             c == [procs[p] EXCEPT !.pc = x, !.copy = users]
  <2>1. /\ procs' = [procs EXCEPT ![p] = c] /\ UNCHANGED << Files, workload, locked >>
        /\ procs[p].pc = "read"
    BY <1>1, Zenon DEF ReadUsers, Files, server, history, bounds
  <2>2. /\ DOMAIN c = {"op", "at", "on", "value", "pc", "copy"} /\ c.pc = x /\ c.copy = users
        /\ c.op = procs[p].op /\ c.at = procs[p].at /\ c.on = procs[p].on
    BY <1>0, Zenon DEF IsProc
  <2>3. x \in {"write", "unlock"} /\ (x = "write" => Applies(procs[p], users))
    BY Zenon
  <2> HIDE DEF c, x
  <2>4. IsProc(c)
    BY <1>0, <2>2, <2>3, Zenon DEF IsProc, IsCommand, Installing
  <2>5. MayLock(p, c)
    BY <2>1, <2>2, LockStays, Zenon DEF StateInv, Held
  <2>6. KnowsUsers(c, users)
    BY <2>2, <2>3, Zenon DEF KnowsUsers, Applies
  <2>7. KnowsPins(c, trust) /\ KnowsIdentity(c, generations, active) /\ c.pc \notin Initializing
    BY <1>0, <2>2, <2>3, Zenon DEF KnowsPins, KnowsIdentity, Initializing, Installing, UserCommands,
                            TrustCommands
  <2>8. "users" \in root
    BY <1>0, <2>1, Zenon DEF StateInv, StartsInv, Exists
  <2> QED BY <2>1, <2>4, <2>5, <2>6, <2>7, <2>8, StepKeeps, Zenon
<1>2. CASE WriteUsers(p)
  <2> DEFINE c == Moved(p, "unlock")
  <2>1. /\ procs' = [procs EXCEPT ![p] = c] /\ procs[p].pc = "write"
        /\ UNCHANGED << root, generations, active, pairings, trust, locked, proofs, trustLog,
                        raced, workload >>
    BY <1>2, Zenon DEF WriteUsers, Goes, Moved, bounds
  <2>2. /\ users' = Edited(procs[p], procs[p].copy)
        /\ userLog' = IF Applies(procs[p], userLog) THEN Edited(procs[p], userLog) ELSE userLog
    BY <1>2, Zenon DEF WriteUsers
  <2>3. c.pc = "unlock" /\ c.at = procs[p].at /\ IsProc(c)
    BY MovedFacts DEF StateInv, IsProc, Installing
  <2> HIDE DEF c
  <2>4. Became(p, c)
    BY <2>1, BecameFacts, Zenon DEF StateInv
  <2>5. /\ c.pc \in Plain /\ ~Exists(c) /\ c.pc \notin Initializing
        /\ KnowsPins(c, trust) /\ KnowsIdentity(c, generations, active)
    BY <2>3, PlainFacts DEF Plain, Exists
  <2>6. MayLock(p, c)
    BY <2>1, <2>3, LockStays, Zenon DEF StateInv, Held
  <2>7. ProcsInv'
    BY <2>1, <2>3, <2>4, <2>6, ProcsKept, Zenon DEF StateInv
  <2>8. PinsInv' /\ IdentityInv' /\ StartsInv'
    BY <2>1, <2>4, <2>5, PinsKept, IdentityKept, StartsKept, Zenon DEF StateInv
  <2>9. UsersInv'
    <3> SUFFICES ASSUME ~raced PROVE users' = userLog' /\ \A q \in Procs : KnowsUsers(procs'[q], users')
      BY <2>1, Zenon DEF UsersInv
    <3>1. users = userLog /\ KnowsUsers(procs[p], users)
      BY Zenon DEF StateInv, UsersInv
    <3>2. users' = userLog'
      BY <1>0, <2>1, <2>2, <3>1, Zenon DEF KnowsUsers
    <3>3. ASSUME NEW q \in Procs, q # p PROVE KnowsUsers(procs[q], users')
      <4>1. procs[q].pc = "write" /\ procs[q].op \in UserCommands => procs[q].at = "users"
        BY Zenon DEF StateInv, ProcsInv, IsProc, IsCommand
      <4> QED BY <1>0, <2>1, <3>3, <4>1, Alone, Zenon DEF KnowsUsers, StateInv, Held
    <3>4. KnowsUsers(c, users')
      BY <2>3, Zenon DEF KnowsUsers
    <3> QED BY <2>4, <3>2, <3>3, <3>4, Zenon DEF Became
  <2>10. PairingsInv'
    BY <2>1, Zenon DEF StateInv, PairingsInv
  <2> QED BY <2>7, <2>8, <2>9, <2>10, Zenon DEF StateInv
<1> QED BY <1>1, <1>2, Zenon

-----------------------------------------------------------------------------
\* A first start checks the directory and writes three files without a lock.
LEMMA InitializeSteps ==
    ASSUME StateInv, NEW p \in Procs, Initialize(p)
    PROVE  StateInv'
<1>0. UNCHANGED << generations, active, pairings, trust, locked, proofs, trustLog, workload >>
  BY Zenon DEF Initialize, bounds
<1>1. PairingsInv'
  BY <1>0, Zenon DEF StateInv, PairingsInv
<1>2. ASSUME NEW c, procs' = [procs EXCEPT ![p] = c], IsProc(c), c.pc \in Initializing \cup {"-"}
      PROVE  /\ Became(p, c) /\ ProcsInv' /\ PinsInv' /\ IdentityInv' /\ ~Exists(c)
             /\ \A db : KnowsUsers(c, db)
  <2>1. Became(p, c)
    BY <1>2, BecameFacts, Zenon DEF StateInv
  <2>2. /\ c.pc \notin Held /\ KnowsPins(c, trust) /\ KnowsIdentity(c, generations, active)
        /\ ~Exists(c) /\ \A db : KnowsUsers(c, db)
    BY <1>2, Zenon DEF Held, Initializing, KnowsPins, KnowsIdentity, KnowsUsers, Installing, Exists
  <2>3. MayLock(p, c)
    BY <1>0, <2>2, LockStays, Zenon DEF StateInv
  <2>4. ProcsInv'
    BY <1>0, <1>2, <2>1, <2>3, ProcsKept, Zenon DEF StateInv
  <2>5. PinsInv' /\ IdentityInv'
    BY <1>0, <2>1, <2>2, PinsKept, IdentityKept, Zenon DEF StateInv
  <2> QED BY <2>1, <2>2, <2>4, <2>5, Zenon
<1>3. \A pc \in Initializing : IsProc(Moved(p, pc)) /\ Moved(p, pc).pc = pc
  BY MovedFacts DEF StateInv, IsProc, Initializing, Installing
<1>4. CASE procs[p].pc = "init"
  <2>1. CASE Ends(p) /\ UNCHANGED << root, users, userLog, raced >>
    BY <1>0, <2>1, EndKeeps, Zenon DEF Files
  <2>2. CASE /\ root = {} /\ Goes(p, "initkey") /\ UNCHANGED << root, users, userLog >>
             /\ raced' = (raced \/ \E q \in Procs : procs[q].pc \in Initializing)
    <3> DEFINE c == Moved(p, "initkey")
    <3>1. procs' = [procs EXCEPT ![p] = c] /\ IsProc(c) /\ c.pc = "initkey"
      BY <1>3, <2>2, Zenon DEF Goes, Moved, Initializing
    <3> HIDE DEF c
    <3>2. Became(p, c) /\ ProcsInv' /\ PinsInv' /\ IdentityInv' /\ ~Exists(c) /\ KnowsUsers(c, users)
      BY <1>2, <3>1, Zenon DEF Initializing
    <3>3. StartsInv'
      <4>1. \A q \in Procs : Exists(procs'[q]) => "users" \in root'
        BY <2>2, <3>2, Zenon DEF Became, StateInv, StartsInv
      <4>2. ASSUME ~raced' PROVE \A q \in Procs : q # p => procs'[q].pc \notin Initializing
        BY <2>2, <3>2, <4>2, Zenon DEF Became
      <4>3. "users" \notin root'
        BY <2>2, Zenon
      <4> QED BY <4>1, <4>2, <4>3, Zenon DEF StartsInv
    <3>4. UsersInv'
      BY <2>2, <3>2, Zenon DEF Became, StateInv, UsersInv
    <3> QED BY <1>1, <3>2, <3>3, <3>4, Zenon DEF StateInv
  <2> QED BY <1>4, <2>1, <2>2, Zenon DEF Initialize
<1>5. ASSUME NEW pc \in {"initcert", "initusers"}, NEW f \in {"key", "cert"},
             procs[p].pc \in Initializing, Goes(p, pc), root' = root \cup {f},
             UNCHANGED << users, userLog, raced >>
      PROVE  StateInv'
  <2> DEFINE c == Moved(p, pc)
  <2>1. procs' = [procs EXCEPT ![p] = c] /\ IsProc(c) /\ c.pc \in Initializing
    BY <1>3, <1>5, Zenon DEF Goes, Moved, Initializing
  <2> HIDE DEF c
  <2>2. Became(p, c) /\ ProcsInv' /\ PinsInv' /\ IdentityInv' /\ ~Exists(c) /\ KnowsUsers(c, users)
    BY <1>2, <2>1, Zenon
  <2>3. ("users" \in root') = ("users" \in root)
    BY <1>5
  <2>4. StartsInv'
    <3>1. \A q \in Procs : Exists(procs'[q]) => "users" \in root'
      BY <2>2, <2>3, Zenon DEF Became, StateInv, StartsInv
    <3>2. ASSUME ~raced' PROVE /\ "users" \notin root'
                               /\ \A q \in Procs : q # p => procs'[q].pc \notin Initializing
      BY <1>5, <2>2, <2>3, <3>2, Zenon DEF Became, StateInv, StartsInv
    <3> QED BY <3>1, <3>2, Zenon DEF StartsInv
  <2>5. UsersInv'
    BY <1>5, <2>2, Zenon DEF Became, StateInv, UsersInv
  <2> QED BY <1>1, <2>2, <2>4, <2>5, Zenon DEF StateInv
<1>6. CASE procs[p].pc = "initusers"
  <2>1. /\ root' = root \cup {"users"} /\ users' = Empty /\ userLog' = Empty /\ raced' = raced
        /\ procs' = [procs EXCEPT ![p] = Idle]
    BY <1>6, Zenon DEF Initialize, Ends
  <2>2. Became(p, Idle) /\ ProcsInv' /\ PinsInv' /\ IdentityInv' /\ KnowsUsers(Idle, Empty)
    BY <1>2, <2>1, IdleFacts, Zenon
  <2>3. ASSUME ~raced PROVE /\ \A q \in Procs : ~Exists(procs[q])
                            /\ \A q \in Procs : q # p => procs[q].pc \notin Initializing
    BY <1>6, <2>3, Zenon DEF StateInv, StartsInv, Initializing
  <2>4. StartsInv'
    <3>1. \A q \in Procs : Exists(procs'[q]) => "users" \in root'
      BY <2>1, Zenon
    <3>2. ASSUME ~raced' PROVE \A q \in Procs : procs'[q].pc \notin Initializing
      BY <2>1, <2>2, <2>3, <3>2, IdleFacts, Zenon DEF Became, Initializing
    <3> QED BY <3>1, <3>2, Zenon DEF StartsInv
  <2>5. UsersInv'
    <3>1. ASSUME ~raced', NEW q \in Procs PROVE KnowsUsers(procs'[q], Empty)
      BY <2>1, <2>2, <2>3, <3>1, Zenon DEF Became, KnowsUsers, Exists
    <3> QED BY <2>1, <3>1, Zenon DEF UsersInv
  <2> QED BY <1>1, <2>2, <2>4, <2>5, Zenon DEF StateInv
<1>7. CASE procs[p].pc = "initkey"
  <2>1. root' = root \cup {"key"} /\ Goes(p, "initcert") /\ UNCHANGED << users, userLog, raced >>
    BY <1>7, Zenon DEF Initialize
  <2> QED BY <1>5, <1>7, <2>1, Zenon DEF Initializing
<1>8. CASE procs[p].pc = "initcert"
  <2>1. root' = root \cup {"cert"} /\ Goes(p, "initusers") /\ UNCHANGED << users, userLog, raced >>
    BY <1>8, Zenon DEF Initialize
  <2> QED BY <1>5, <1>8, <2>1, Zenon DEF Initializing
<1> QED BY <1>4, <1>6, <1>7, <1>8, Zenon DEF Initialize

-----------------------------------------------------------------------------
\* A step of install_identity, of which only the generations and the selection are
\* left to be looked at.
LEMMA IdentityFrame ==
    ASSUME StateInv, NEW p \in Procs, NEW c, procs' = [procs EXCEPT ![p] = c], IsProc(c),
           c.pc \in Installing \cup {"unlock"}, procs[p].pc \in Held, c.at = procs[p].at,
           UNCHANGED << root, users, pairings, trust, locked, history, workload >>
    PROVE  /\ Became(p, c) /\ ProcsInv' /\ PinsInv' /\ StartsInv' /\ UsersInv' /\ PairingsInv'
<1>1. Became(p, c)
  BY BecameFacts, Zenon DEF StateInv
<1>2. /\ KnowsPins(c, trust) /\ KnowsUsers(c, users) /\ ~Exists(c) /\ c.pc \notin Initializing
  BY Zenon DEF KnowsPins, KnowsUsers, Exists, Initializing, Installing
<1>3. MayLock(p, c)
  BY LockStays, Zenon DEF StateInv
<1>4. UNCHANGED << root, users, pairings, trust, proofs, userLog, trustLog, raced, workload >>
  BY Zenon DEF history
<1>5. ProcsInv' /\ PinsInv'
  BY <1>1, <1>2, <1>3, <1>4, ProcsKept, PinsKept, Zenon DEF StateInv
<1>6. StartsInv' /\ UsersInv'
  BY <1>1, <1>2, <1>4, StartsKept, UsersKept, Zenon DEF StateInv
<1>7. PairingsInv'
  BY <1>4, Zenon DEF StateInv, PairingsInv
<1> QED BY <1>1, <1>5, <1>6, <1>7, Zenon

\* Nobody else installs.
LEMMA OneInstaller ==
    ASSUME StateInv, NEW p \in Procs, procs[p].op = "install", procs[p].pc \in Held,
           NEW q \in Procs, q # p
    PROVE  procs[q].pc \notin Installing
<1>1. IsProc(procs[p]) /\ IsProc(procs[q])
  BY Zenon DEF StateInv, ProcsInv
<1>2. procs[p].at = "identity"
  BY <1>1, Zenon DEF IsProc, IsCommand
<1>3. procs[q].pc \in Installing => procs[q].at = "identity" /\ procs[q].pc \in Held
  BY <1>1, Zenon DEF IsProc, IsCommand, Installing, Held
<1> QED BY <1>2, <1>3, Alone, Zenon DEF StateInv

LEMMA IdentitySteps ==
    ASSUME StateInv, CommandsAssumption, NEW p \in Procs,
           CreateGeneration(p) \/ InstallWrite(p) \/ InstallFails(p)
    PROVE  StateInv'
<1>0. /\ IsProc(procs[p]) /\ procs[p].op = "install" /\ procs[p].pc \in Held
      /\ UNCHANGED << root, users, pairings, trust, locked, history, workload >>
  BY Zenon DEF StateInv, ProcsInv, IsProc, Installing, Held, CreateGeneration, InstallWrite,
         InstallFails, bounds
<1>1. /\ Selected(generations, active)
      /\ KnowsIdentity(procs[p], generations, active)
  BY Zenon DEF StateInv, IdentityInv
<1>2. ASSUME NEW c, procs' = [procs EXCEPT ![p] = c], IsProc(c),
             c.pc \in Installing \cup {"unlock"}, c.at = procs[p].at,
             Selected(generations', active'), KnowsIdentity(c, generations', active')
      PROVE  StateInv'
  <2>1. /\ Became(p, c) /\ ProcsInv' /\ PinsInv' /\ StartsInv' /\ UsersInv' /\ PairingsInv'
    BY <1>0, <1>2, IdentityFrame, Zenon
  <2>2. \A q \in Procs : q # p => procs[q].pc \notin Installing
    BY <1>0, OneInstaller, Zenon
  <2>3. \A q \in Procs : KnowsIdentity(procs'[q], generations', active')
    BY <1>2, <2>1, <2>2, Zenon DEF Became, KnowsIdentity, Installing
  <2> QED BY <1>2, <2>1, <2>3, Zenon DEF StateInv, IdentityInv
<1>3. \A pc \in {"cert", "active", "unlock"} :
         /\ IsProc(Moved(p, pc)) /\ Moved(p, pc).pc = pc /\ Moved(p, pc).at = procs[p].at
         /\ Moved(p, pc).on = procs[p].on
  BY <1>0, MovedFacts DEF StateInv, IsProc, Installing
<1>4. ASSUME Goes(p, "unlock"), Selected(generations', active') PROVE StateInv'
  <2> DEFINE c == Moved(p, "unlock")
  <2>1. /\ procs' = [procs EXCEPT ![p] = c] /\ IsProc(c) /\ c.pc = "unlock" /\ c.at = procs[p].at
    BY <1>3, <1>4, Zenon DEF Goes, Moved
  <2> HIDE DEF c
  <2>2. KnowsIdentity(c, generations', active')
    BY <2>1, Zenon DEF KnowsIdentity, Installing
  <2> QED BY <1>2, <1>4, <2>1, <2>2, Zenon
<1>5. CASE CreateGeneration(p)
  <2>1. CASE Goes(p, "unlock") /\ UNCHANGED generations
    BY <1>1, <1>4, <1>5, <2>1, Zenon DEF CreateGeneration
  <2>2. ASSUME NEW g \in Generations \ DOMAIN generations,
               generations' = With(generations, g, {}),
               procs' = [procs EXCEPT ![p].pc = "key", ![p].on = g]
        PROVE  StateInv'
    <3> DEFINE c == [procs[p] EXCEPT !.pc = "key", !.on = g]
    <3>1. /\ DOMAIN c = {"op", "at", "on", "value", "pc", "copy"} /\ c.pc = "key" /\ c.on = g
          /\ c.op = "install" /\ c.at = procs[p].at
      BY <1>0, Zenon DEF IsProc
    <3>2. procs' = [procs EXCEPT ![p] = c]
      BY <2>2, Zenon
    <3> HIDE DEF c
    <3>3. IsProc(c)
      BY <1>0, <3>1, Zenon DEF IsProc, IsCommand, Installing
    <3>4. /\ g # Root /\ active' = active
      BY <1>5, Zenon DEF CommandsAssumption, CreateGeneration
    <3>5. /\ DOMAIN generations' = DOMAIN generations \cup {g} /\ generations'[g] = {}
          /\ \A d \in DOMAIN generations : generations'[d] = generations[d]
      BY <2>2, Zenon DEF With
    <3>6. Selected(generations', active')
      BY <1>1, <3>4, <3>5, Zenon DEF Selected
    <3>7. g # active
      BY <1>1, <2>2, <3>4, Zenon DEF Selected
    <3>8. KnowsIdentity(c, generations', active')
      BY <3>1, <3>4, <3>5, <3>7, Zenon DEF KnowsIdentity
    <3> QED BY <1>2, <3>1, <3>2, <3>3, <3>6, <3>8, Zenon DEF Installing
  <2> QED BY <1>5, <2>1, <2>2, Zenon DEF CreateGeneration
<1>6. CASE InstallWrite(p)
  <2>1. ASSUME NEW f \in {"key", "cert"}, NEW pc \in {"cert", "active"}, procs[p].pc = f,
               Goes(p, pc), generations' = [generations EXCEPT ![procs[p].on] = @ \cup {f}],
               UNCHANGED active, f = "key" => pc = "cert", f = "cert" => pc = "active"
        PROVE  StateInv'
    <3> DEFINE c == Moved(p, pc)
               g == procs[p].on
    <3>1. /\ procs' = [procs EXCEPT ![p] = c] /\ IsProc(c) /\ c.pc = pc /\ c.at = procs[p].at
          /\ c.on = g
      BY <1>3, <2>1, Zenon DEF Goes, Moved
    <3> HIDE DEF c
    <3>2. g \in DOMAIN generations /\ g # active
      BY <1>1, <2>1, Zenon DEF KnowsIdentity, Installing
    <3>3. generations[g] = IF f = "key" THEN {} ELSE {"key"}
      BY <1>1, <2>1, Zenon DEF KnowsIdentity
    <3>4. /\ DOMAIN generations' = DOMAIN generations
          /\ generations'[g] = generations[g] \cup {f}
          /\ \A d \in DOMAIN generations : d # g => generations'[d] = generations[d]
      BY <2>1, <3>2, Zenon
    <3>5. Selected(generations', active')
      BY <1>1, <2>1, <3>2, <3>4, Zenon DEF Selected
    <3>6. generations'[g] = IF f = "key" THEN {"key"} ELSE Complete
      BY <3>3, <3>4, Zenon DEF Complete
    <3>7. KnowsIdentity(c, generations', active')
      BY <2>1, <3>1, <3>2, <3>4, <3>6, Zenon DEF KnowsIdentity
    <3> QED BY <1>2, <3>1, <3>5, <3>7, Zenon DEF Installing
  <2>2. CASE procs[p].pc = "active"
    <3>1. /\ active' = procs[p].on /\ UNCHANGED generations /\ Goes(p, InstallOrder("active"))
      BY <1>6, <2>2, Zenon DEF InstallWrite, Complete
    <3>2. InstallOrder("active") = "unlock"
      BY Zenon DEF InstallOrder
    <3>3. Selected(generations', active')
      BY <1>1, <2>2, <3>1, Zenon DEF Selected, KnowsIdentity, Installing
    <3> QED BY <1>4, <3>1, <3>2, <3>3, Zenon
  <2>3. CASE procs[p].pc = "key"
    <3>1. /\ generations' = [generations EXCEPT ![procs[p].on] = @ \cup {"key"}] /\ UNCHANGED active
          /\ Goes(p, InstallOrder("key")) /\ InstallOrder("key") = "cert"
      BY <1>6, <2>3, Zenon DEF InstallWrite, Complete, InstallOrder
    <3> QED BY <2>1, <2>3, <3>1, Zenon
  <2>4. CASE procs[p].pc = "cert"
    <3>1. /\ generations' = [generations EXCEPT ![procs[p].on] = @ \cup {"cert"}] /\ UNCHANGED active
          /\ Goes(p, InstallOrder("cert")) /\ InstallOrder("cert") = "active"
      BY <1>6, <2>4, Zenon DEF InstallWrite, Complete, InstallOrder
    <3> QED BY <2>1, <2>4, <3>1, Zenon
  <2> QED BY <1>6, <2>2, <2>3, <2>4, Zenon DEF InstallWrite
<1>7. CASE InstallFails(p)
  <2>1. /\ Goes(p, "unlock") /\ UNCHANGED active
        /\ generations' = Restrict(generations, DOMAIN generations \ {procs[p].on})
        /\ procs[p].on # active
    BY <1>1, <1>7, Zenon DEF InstallFails, KnowsIdentity, Installing
  <2>2. Selected(generations', active')
    BY <1>1, <2>1, Zenon DEF Selected, Restrict
  <2> QED BY <1>4, <2>1, <2>2, Zenon
<1> QED BY <1>5, <1>6, <1>7, Zenon

-----------------------------------------------------------------------------
\* A step of a command on pins and pairing records, of which only those are left to
\* be looked at.
LEMMA PairingFrame ==
    ASSUME StateInv, NEW p \in Procs, NEW c, procs' = [procs EXCEPT ![p] = c], IsProc(c),
           c.pc \in {"load", "consume", "save", "write", "unlock", "lock", "-"}, c.pc = "write" => c.op \in TrustCommands,
           c.op \notin UserCommands,
           c.pc \in Held => procs[p].pc \in Held /\ c.at = procs[p].at,
           UNCHANGED << root, users, generations, active, locked, userLog, raced, workload >>
    PROVE  Became(p, c) /\ ProcsInv' /\ IdentityInv' /\ StartsInv' /\ UsersInv'
<1>1. Became(p, c)
  BY BecameFacts, Zenon DEF StateInv
<1>2. /\ KnowsIdentity(c, generations, active) /\ KnowsUsers(c, users) /\ ~Exists(c)
      /\ c.pc \notin Initializing
  BY Zenon DEF KnowsIdentity, KnowsUsers, Exists, Initializing, Installing
<1>3. MayLock(p, c)
  BY LockStays, Zenon DEF StateInv
<1>4. ProcsInv' /\ IdentityInv'
  BY <1>1, <1>2, <1>3, ProcsKept, IdentityKept, Zenon DEF StateInv
<1>5. StartsInv' /\ UsersInv'
  BY <1>1, <1>2, StartsKept, UsersKept, Zenon DEF StateInv
<1> QED BY <1>1, <1>4, <1>5, Zenon

LEMMA PairingSteps ==
    ASSUME StateInv, NEW p \in Procs,
           \/ CreatePairing(p) \/ CheckUnpaired(p) \/ Recheck(p) \/ LoadPairing(p)
           \/ ConsumePairing(p)
    PROVE  StateInv'
<1>0. /\ IsProc(procs[p]) /\ UNCHANGED << root, users, generations, active, locked, userLog, raced,
                                          workload, trust, trustLog >>
  BY Zenon DEF StateInv, ProcsInv, CreatePairing, CheckUnpaired, Recheck, LoadPairing, ConsumePairing,
         server, history, bounds
<1>1. /\ KnowsPins(procs[p], trust) /\ PairingsInv
  BY Zenon DEF StateInv, PinsInv
<1>2. ASSUME NEW c, procs' = [procs EXCEPT ![p] = c], IsProc(c),
             c.pc \in {"load", "consume", "save", "unlock", "lock", "-"}, c.op \notin UserCommands,
             c.pc \in Held => procs[p].pc \in Held /\ c.at = procs[p].at,
             KnowsPins(c, trust), PairingsInv'
      PROVE  StateInv'
  <2>1. Became(p, c) /\ ProcsInv' /\ IdentityInv' /\ StartsInv' /\ UsersInv'
    BY <1>0, <1>2, PairingFrame, Zenon
  <2>2. PinsInv'
    BY <1>0, <1>2, <2>1, PinsKept, Zenon DEF StateInv
  <2> QED BY <1>2, <2>1, <2>2, Zenon DEF StateInv
<1>3. ASSUME Ends(p), PairingsInv' PROVE StateInv'
  <2>1. procs' = [procs EXCEPT ![p] = Idle] /\ Idle.pc = "-" /\ IsProc(Idle) /\ Idle.op = "idle"
    BY <1>3, IdleFacts, Zenon DEF Ends, Idle
  <2>2. KnowsPins(Idle, trust)
    BY <2>1, Zenon DEF KnowsPins
  <2> QED BY <1>2, <1>3, <2>1, <2>2, Zenon DEF Held, UserCommands
<1>4. ASSUME NEW pc \in {"load", "consume", "save", "unlock", "lock"}, Goes(p, pc), PairingsInv',
             procs[p].op \in {"pair", "import"},
             pc # "lock" => procs[p].pc \in Held,
             pc \in {"load", "consume"} => procs[p].op = "pair" /\ ~Pinned(p)
      PROVE  StateInv'
  <2> DEFINE c == Moved(p, pc)
  <2>1. /\ procs' = [procs EXCEPT ![p] = c] /\ c.pc = pc /\ c.op = procs[p].op
        /\ c.at = procs[p].at /\ c.on = procs[p].on /\ IsCommand(c)
        /\ DOMAIN c = {"op", "at", "on", "value", "pc", "copy"}
    BY <1>4, MovedFacts, Zenon DEF Goes, Moved, StateInv
  <2> HIDE DEF c
  <2>2. IsProc(c)
    BY <1>4, <2>1, Zenon DEF IsProc, Installing
  <2>3. KnowsPins(c, trust)
    BY <1>4, <2>1, Zenon DEF KnowsPins, Pinned
  <2>4. c.op \notin UserCommands /\ (c.pc \in Held => procs[p].pc \in Held)
    BY <1>4, <2>1, Zenon DEF UserCommands, Held
  <2> QED BY <1>2, <1>4, <2>1, <2>2, <2>3, <2>4, Zenon
<1>5. CASE CreatePairing(p)
  <2>1. Ends(p) /\ UNCHANGED proofs
    BY <1>5, Zenon DEF CreatePairing, history
  <2>2. \E i \in Pairings : proofs[i] = 0 /\ pairings' = pairings \cup {i}
    BY <1>5, Zenon DEF CreatePairing
  <2>3. PairingsInv'
    BY <1>1, <2>1, <2>2, Zenon DEF PairingsInv
  <2> QED BY <1>3, <2>1, <2>3, Zenon
<1>6. CASE CheckUnpaired(p)
  <2>1. UNCHANGED << Files, workload, locked >> /\ procs[p].pc = "unpaired"
    BY <1>6, Zenon DEF CheckUnpaired, Files, server, history, bounds
  <2>0. procs[p].op = "pair"
    BY <1>0, <2>1, Zenon DEF IsProc
  <2>2. CASE Ends(p)
    BY <2>1, <2>2, EndKeeps, Zenon
  <2>3. CASE Goes(p, "lock")
    <3>1. /\ Moved(p, "lock").pc = "lock" /\ Moved(p, "lock").op = procs[p].op
      BY MovedFacts, Zenon DEF StateInv
    <3>2. MayLock(p, Moved(p, "lock"))
      BY <2>1, <3>1, LockStays, Zenon DEF StateInv, Held
    <3>3. ~Exists(Moved(p, "lock"))
      BY <2>0, <3>1, Zenon DEF Exists, UserCommands
    <3> QED BY <2>1, <2>3, <3>2, <3>3, MoveKeeps, Zenon DEF Plain
  <2> QED BY <1>6, <2>2, <2>3, Zenon DEF CheckUnpaired
<1>7. CASE Recheck(p)
  <2>1. /\ Goes(p, RecheckedStep(p)) /\ procs[p].pc = "read" /\ procs[p].op \in {"pair", "import"}
        /\ UNCHANGED << pairings, proofs >>
    BY <1>7, Zenon DEF Recheck, history
  <2>2. PairingsInv'
    BY <1>1, <2>1, Zenon DEF PairingsInv
  <2>3. /\ RecheckedStep(p) \in {"unlock", "load", "save"}
        /\ RecheckedStep(p) = "load" => procs[p].op = "pair" /\ ~Pinned(p)
    BY Zenon DEF RecheckedStep
  <2> QED BY <1>4, <2>1, <2>2, <2>3, Zenon DEF Held
<1>8. CASE LoadPairing(p)
  <2>1. procs[p].pc = "load" /\ procs[p].op = "pair" /\ ~Pinned(p) /\ UNCHANGED proofs
    BY <1>0, <1>1, <1>8, Zenon DEF LoadPairing, IsProc, KnowsPins, Pinned, history
  <2>2. pairings' \subseteq pairings
    BY <1>8, Zenon DEF LoadPairing
  <2>3. PairingsInv'
    BY <1>1, <2>1, <2>2, Zenon DEF PairingsInv
  <2>4. Goes(p, "consume") \/ Goes(p, "unlock")
    BY <1>8, Zenon DEF LoadPairing
  <2> QED BY <1>4, <2>1, <2>3, <2>4, Zenon DEF Held
<1>9. CASE ConsumePairing(p)
  <2>1. procs[p].pc = "consume" /\ procs[p].op = "pair"
    BY <1>0, <1>9, Zenon DEF ConsumePairing, IsProc
  <2>2. CASE Goes(p, "unlock") /\ UNCHANGED << pairings, proofs >>
    <3>1. PairingsInv'
      BY <1>1, <2>2, Zenon DEF PairingsInv
    <3> QED BY <1>4, <2>1, <2>2, <3>1, Zenon DEF Held
  <2>3. CASE /\ Consumes(procs[p].value) /\ pairings' = pairings \ {procs[p].value}
             /\ proofs' = [proofs EXCEPT ![procs[p].value] = @ + 1]
             /\ procs' = [procs EXCEPT ![p].pc = "save", ![p].value = presented]
    <3> DEFINE c == [procs[p] EXCEPT !.pc = "save", !.value = presented]
    <3>1. /\ DOMAIN c = {"op", "at", "on", "value", "pc", "copy"} /\ c.pc = "save"
          /\ c.op = "pair" /\ c.at = procs[p].at
      BY <1>0, <2>1, Zenon DEF IsProc
    <3>2. procs' = [procs EXCEPT ![p] = c]
      BY <2>3, Zenon
    <3> HIDE DEF c
    <3>3. IsProc(c) /\ c.op \notin UserCommands /\ KnowsPins(c, trust)
      BY <1>0, <2>1, <3>1, Zenon DEF IsProc, IsCommand, Installing, UserCommands, KnowsPins
    <3>4. PairingsInv'
      BY <1>1, <2>3 DEF PairingsInv, Consumes
    <3> QED BY <1>2, <2>1, <3>1, <3>2, <3>3, <3>4, Zenon DEF Held
  <2> QED BY <1>9, <2>2, <2>3, Zenon DEF ConsumePairing
<1> QED BY <1>5, <1>6, <1>7, <1>8, <1>9, Zenon

\* The pins of a machine are read and replaced under its lock.
LEMMA PinSteps ==
    ASSUME StateInv, NEW p \in Procs, ReadTrust(p) \/ WriteTrust(p)
    PROVE  StateInv'
<1>0. /\ IsProc(procs[p]) /\ procs[p].op \in TrustCommands /\ procs[p].at \in Machines
      /\ procs[p].pc \in Held /\ procs[p].op \notin UserCommands
      /\ UNCHANGED << root, users, generations, active, locked, userLog, raced, workload,
                      pairings, proofs >>
  BY Zenon DEF StateInv, ProcsInv, IsProc, IsCommand, ReadTrust, WriteTrust, Held, TrustCommands,
         UserCommands, server, history, bounds
<1>1. PairingsInv'
  BY <1>0, Zenon DEF StateInv, PairingsInv
<1>2. CASE ReadTrust(p)
  <2> DEFINE x == IF Pinned(p) <=> procs[p].op = "forget" THEN "write" ELSE "unlock"
             c == [procs[p] EXCEPT !.pc = x, !.copy = trust[procs[p].at]]
  <2>1. procs' = [procs EXCEPT ![p] = c] /\ UNCHANGED << trust, trustLog >>
    BY <1>2, Zenon DEF ReadTrust, history
  <2>2. /\ DOMAIN c = {"op", "at", "on", "value", "pc", "copy"} /\ c.pc = x
        /\ c.copy = trust[procs[p].at] /\ c.op = procs[p].op /\ c.at = procs[p].at
    BY <1>0, Zenon DEF IsProc
  <2>3. x \in {"write", "unlock"}
    BY Zenon
  <2> HIDE DEF c, x
  <2>4. IsProc(c) /\ KnowsPins(c, trust)
    BY <1>0, <2>2, <2>3, Zenon DEF IsProc, IsCommand, Installing, KnowsPins
  <2>5. Became(p, c) /\ ProcsInv' /\ IdentityInv' /\ StartsInv' /\ UsersInv'
    BY <1>0, <2>1, <2>2, <2>3, <2>4, PairingFrame, Zenon
  <2>6. PinsInv'
    BY <2>1, <2>4, <2>5, PinsKept, Zenon DEF StateInv
  <2> QED BY <1>1, <2>5, <2>6, Zenon DEF StateInv
<1>3. CASE WriteTrust(p)
  <2> DEFINE c == Moved(p, "unlock")
             m == procs[p].at
  <2>1. /\ procs' = [procs EXCEPT ![p] = c] /\ procs[p].pc = "write"
        /\ trust' = [trust EXCEPT ![m] = Repinned(procs[p], procs[p].copy)]
        /\ trustLog' = [trustLog EXCEPT ![m] = Repinned(procs[p], trustLog[m])]
    BY <1>3, Zenon DEF WriteTrust, Goes, Moved
  <2>2. c.pc = "unlock" /\ c.at = procs[p].at /\ c.op = procs[p].op /\ IsProc(c)
    BY MovedFacts DEF StateInv, IsProc, Installing
  <2> HIDE DEF c
  <2>3. Became(p, c) /\ ProcsInv' /\ IdentityInv' /\ StartsInv' /\ UsersInv'
    BY <1>0, <2>1, <2>2, PairingFrame, Zenon
  <2>4. /\ trust = [n \in Machines |-> trust[n]] /\ trustLog = trust
        /\ procs[p].copy = trust[m]
    BY <1>0, <2>1, Zenon DEF StateInv, PinsInv, KnowsPins
  <2>5. trust' = [n \in Machines |-> trust'[n]] /\ trustLog' = trust'
    BY <2>1, <2>4, Zenon
  <2>6. \A n \in Machines : n # m => trust'[n] = trust[n]
    BY <2>1, <2>4, Zenon
  <2>7. ASSUME NEW q \in Procs PROVE KnowsPins(procs'[q], trust')
    <3>1. CASE q = p
      BY <2>2, <2>3, <3>1, Zenon DEF Became, KnowsPins
    <3>2. CASE q # p
      <4>1. /\ procs'[q] = procs[q] /\ KnowsPins(procs[q], trust) /\ IsProc(procs[q])
        BY <2>3, <3>2, Zenon DEF Became, StateInv, PinsInv, ProcsInv
      <4>2. procs[q].pc \in Held /\ procs[q].op \in TrustCommands =>
               procs[q].at \in Machines /\ procs[q].at # m
        BY <1>0, <3>2, <4>1, Alone, Zenon DEF StateInv, IsProc, IsCommand
      <4>3. procs[q].pc \in {"load", "consume"} => procs[q].op \in TrustCommands
        BY <4>1, Zenon DEF IsProc, TrustCommands
      <4> QED BY <2>6, <4>1, <4>2, <4>3, Zenon DEF KnowsPins, Held
    <3> QED BY <3>1, <3>2, Zenon
  <2>8. PinsInv'
    BY <2>5, <2>7, Zenon DEF PinsInv
  <2> QED BY <1>1, <2>3, <2>8, Zenon DEF StateInv
<1> QED BY <1>2, <1>3, Zenon

-----------------------------------------------------------------------------
LEMMA StateInvStep ==
    ASSUME StateInv, CommandsAssumption, [Next]_vars
    PROVE  StateInv'
<1>1. ASSUME NEW p \in Procs,
             Begin(p) \/ Validate(p) \/ Lock(p) \/ Unlock(p) \/ WriteFails(p) \/ Kill(p)
      PROVE  StateInv'
  BY <1>1, CommandSteps, Zenon
<1>2. ASSUME NEW p \in Procs, ReadUsers(p) \/ WriteUsers(p) PROVE StateInv'
  BY <1>2, UserSteps, Zenon
<1>3. ASSUME NEW p \in Procs, Initialize(p) PROVE StateInv'
  BY <1>3, InitializeSteps, Zenon
<1>4. ASSUME NEW p \in Procs, CreateGeneration(p) \/ InstallWrite(p) \/ InstallFails(p)
      PROVE  StateInv'
  BY <1>4, IdentitySteps, Zenon
<1>5. ASSUME NEW p \in Procs,
             \/ CreatePairing(p) \/ CheckUnpaired(p) \/ Recheck(p) \/ LoadPairing(p)
             \/ ConsumePairing(p)
      PROVE  StateInv'
  BY <1>5, PairingSteps, Zenon
<1>6. ASSUME NEW p \in Procs, ReadTrust(p) \/ WriteTrust(p) PROVE StateInv'
  BY <1>6, PinSteps, Zenon
<1>7. CASE RemoveStaleLocks \/ Restart \/ UNCHANGED vars
  BY <1>7, OtherSteps, Zenon
<1>8. ASSUME NEW p \in Procs,
             \/ Begin(p) \/ Validate(p) \/ Lock(p) \/ Unlock(p) \/ WriteFails(p) \/ Kill(p)
             \/ ReadUsers(p) \/ WriteUsers(p)
             \/ Initialize(p) \/ CreateGeneration(p) \/ InstallWrite(p) \/ InstallFails(p)
             \/ CreatePairing(p) \/ CheckUnpaired(p) \/ Recheck(p) \/ LoadPairing(p) \/ ConsumePairing(p)
             \/ ReadTrust(p) \/ WriteTrust(p)
      PROVE  StateInv'
  BY ONLY <1>1, <1>2, <1>3, <1>4, <1>5, <1>6, <1>8, Zenon
<1> QED BY <1>7, <1>8, Zenon DEF Next

LEMMA StateInvInit ==
    ASSUME Init, CommandsAssumption
    PROVE  StateInv
<1>1. /\ procs = [p \in Procs |-> Idle] /\ generations = Empty /\ active = Root /\ trustLog = trust
      /\ trust = [m \in Machines |-> Empty] /\ proofs = [i \in Pairings |-> 0] /\ userLog = users
      /\ workload \in Workloads
  BY Zenon DEF Init
<1>2. ProcsInv
  BY <1>1, IdleFacts, Zenon DEF ProcsInv, CommandsAssumption, LocksHeld, Held
<1>3. PinsInv
  BY <1>1, IdleFacts, Zenon DEF PinsInv, KnowsPins
<1>4. IdentityInv
  BY <1>1, IdleFacts, Zenon DEF IdentityInv, KnowsIdentity, Selected, Installing
<1>5. StartsInv
  BY <1>1, IdleFacts, Zenon DEF StartsInv, Initializing
<1>6. UsersInv
  BY <1>1, IdleFacts, Zenon DEF UsersInv, KnowsUsers
<1>7. PairingsInv
  BY <1>1, Zenon DEF PairingsInv
<1> QED BY <1>2, <1>3, <1>4, <1>5, <1>6, <1>7, Zenon DEF StateInv

LEMMA StateInvHolds ==
    ASSUME CommandsAssumption
    PROVE  Spec => []StateInv
<1>1. Init => StateInv
  BY StateInvInit, Zenon
<1>2. StateInv /\ [Next]_vars => StateInv'
  BY StateInvStep, Zenon
<1> QED BY <1>1, <1>2, PTL DEF Spec

-----------------------------------------------------------------------------
(* The shape of the state *)

\* A command that runs has a lock file, and has read accounts of users.
TypedProc(c) ==
    /\ c.pc # "-" => c.at \in LockFiles
    /\ c.pc = "write" /\ c.op \in UserCommands => DOMAIN c.copy \subseteq Users

TypesInv ==
    /\ TypeOK /\ IsFiniteSet(DOMAIN generations)
    /\ \A w \in workload : w.at \in LockFiles
    /\ \A p \in Procs : TypedProc(procs[p])

\* The tests of a directory's files do not look at the commands.
Shape == << root, users, generations, active, presented, pairings, locked >>

LEMMA TypeKept == ASSUME TypeOK, UNCHANGED Shape PROVE TypeOK'
BY Zenon DEF TypeOK, Shape, LockFiles

LEMMA TypedStep ==
    ASSUME StateInv, TypesInv, NEW p \in Procs, NEW c, procs' = [procs EXCEPT ![p] = c],
           TypedProc(c), TypeOK', IsFiniteSet(DOMAIN generations'), UNCHANGED workload
    PROVE  TypesInv'
<1>1. Became(p, c)
  BY BecameFacts, Zenon DEF StateInv
<1>2. \A q \in Procs : TypedProc(procs'[q])
  BY <1>1, Zenon DEF Became, TypesInv
<1>3. \A w \in workload' : w.at \in LockFiles
  BY Zenon DEF TypesInv
<1> QED BY <1>2, <1>3, Zenon DEF TypesInv, TypedProc, LockFiles

\* A command goes on to a step other than a write, or ends.
LEMMA TypedMove ==
    ASSUME StateInv, TypesInv, NEW p \in Procs, procs[p].pc # "-",
           Ends(p) \/ \E pc : pc # "write" /\ Goes(p, pc),
           TypeOK', IsFiniteSet(DOMAIN generations'), UNCHANGED workload
    PROVE  TypesInv'
<1>1. CASE Ends(p)
  <2>1. procs' = [procs EXCEPT ![p] = Idle] /\ TypedProc(Idle)
    BY <1>1, IdleFacts, Zenon DEF Ends, TypedProc
  <2> QED BY <2>1, TypedStep, Zenon
<1>2. ASSUME NEW pc, pc # "write", Goes(p, pc) PROVE TypesInv'
  <2> DEFINE c == Moved(p, pc)
  <2>1. procs' = [procs EXCEPT ![p] = c] /\ c.pc = pc /\ c.at = procs[p].at
    BY <1>2, MovedFacts, Zenon DEF Goes, Moved, StateInv
  <2> HIDE DEF c
  <2>2. TypedProc(c)
    BY <1>2, <2>1, Zenon DEF TypedProc, TypesInv
  <2> QED BY <2>1, <2>2, TypedStep, Zenon
<1> QED BY <1>1, <1>2, Zenon

\* The steps that write no file of the server and take no lock file.
LEMMA TypedPlainSteps ==
    ASSUME StateInv, TypesInv, NEW p \in Procs,
           Begin(p) \/ Validate(p) \/ WriteFails(p) \/ Kill(p) \/ ReadUsers(p)
             \/ CheckUnpaired(p) \/ Recheck(p) \/ ReadTrust(p) \/ WriteTrust(p)
    PROVE  TypesInv'
<1>0. IsProc(procs[p]) /\ TypedProc(procs[p])
  BY Zenon DEF StateInv, ProcsInv, TypesInv
<1>1. TypeOK' /\ IsFiniteSet(DOMAIN generations') /\ UNCHANGED workload
  <2>1. UNCHANGED << Shape, workload >>
    BY Zenon DEF Begin, Validate, WriteFails, Kill, ReadUsers, CheckUnpaired, Recheck, ReadTrust,
           WriteTrust, Shape, server, bounds
  <2> QED BY <2>1, TypeKept, Zenon DEF TypesInv, Shape
<1>2. CASE Begin(p)
  <2>1. PICK w \in workload :
          procs' = [procs EXCEPT ![p] = [op |-> w.op, at |-> w.at, on |-> w.on, value |-> w.value,
                                         pc |-> FirstStep(w.op), copy |-> Empty]]
    BY <1>2, Zenon DEF Begin
  <2> DEFINE c == [op |-> w.op, at |-> w.at, on |-> w.on, value |-> w.value,
                   pc |-> FirstStep(w.op), copy |-> Empty]
  <2>2. c.at = w.at /\ c.pc # "write"
    BY Zenon DEF FirstStep
  <2>3. procs' = [procs EXCEPT ![p] = c]
    BY <2>1, Zenon
  <2> HIDE DEF c
  <2>4. TypedProc(c)
    BY <2>2, Zenon DEF TypedProc, TypesInv
  <2> QED BY <1>1, <2>3, <2>4, TypedStep, Zenon
<1>3. CASE Validate(p) \/ WriteFails(p) \/ CheckUnpaired(p) \/ Recheck(p) \/ WriteTrust(p)
  <2>1. procs[p].pc # "-" /\ (Ends(p) \/ \E pc : pc # "write" /\ Goes(p, pc))
    BY <1>3, Zenon DEF Validate, WriteFails, CheckUnpaired, Recheck, WriteTrust, RecheckedStep
  <2> QED BY <1>1, <2>1, TypedMove, Zenon
<1>4. CASE Kill(p)
  <2>1. procs' = [procs EXCEPT ![p] = Idle] /\ TypedProc(Idle)
    BY <1>4, IdleFacts, Zenon DEF Kill, Ends, TypedProc
  <2> QED BY <1>1, <2>1, TypedStep, Zenon
<1>5. CASE ReadUsers(p)
  <2> DEFINE x == IF Applies(procs[p], users) THEN "write" ELSE "unlock"
             c == [procs[p] EXCEPT !.pc = x, !.copy = users]
  <2>1. procs' = [procs EXCEPT ![p] = c] /\ procs[p].pc = "read"
    BY <1>5, Zenon DEF ReadUsers
  <2>2. c.copy = users /\ c.at = procs[p].at
    BY <1>0, Zenon DEF IsProc
  <2> HIDE DEF c, x
  <2>3. TypedProc(c)
    BY <1>0, <2>1, <2>2, Zenon DEF TypedProc, TypesInv, TypeOK
  <2> QED BY <1>1, <2>1, <2>3, TypedStep, Zenon
<1>6. CASE ReadTrust(p)
  <2> DEFINE x == IF Pinned(p) <=> procs[p].op = "forget" THEN "write" ELSE "unlock"
             c == [procs[p] EXCEPT !.pc = x, !.copy = trust[procs[p].at]]
  <2>1. procs' = [procs EXCEPT ![p] = c] /\ procs[p].pc # "-" /\ procs[p].op \notin UserCommands
    BY <1>0, <1>6, Zenon DEF ReadTrust, IsProc, UserCommands
  <2>2. c.op = procs[p].op /\ c.at = procs[p].at
    BY <1>0, Zenon DEF IsProc
  <2> HIDE DEF c, x
  <2>3. TypedProc(c)
    BY <1>0, <2>1, <2>2, Zenon DEF TypedProc
  <2> QED BY <1>1, <2>1, <2>3, TypedStep, Zenon
<1> QED BY <1>2, <1>3, <1>4, <1>5, <1>6, Zenon

\* The steps that take and remove lock files, write accounts and records, and start
\* a new directory.
LEMMA TypedFileSteps ==
    ASSUME StateInv, TypesInv, NEW p \in Procs,
           Lock(p) \/ Unlock(p) \/ WriteUsers(p) \/ Initialize(p)
             \/ CreatePairing(p) \/ LoadPairing(p) \/ ConsumePairing(p)
    PROVE  TypesInv'
<1>0. IsProc(procs[p]) /\ TypedProc(procs[p]) /\ procs[p].pc # "-"
  BY Zenon DEF StateInv, ProcsInv, TypesInv, Lock, Unlock, WriteUsers, Initialize, CreatePairing,
         LoadPairing, ConsumePairing
<1>1. UNCHANGED << generations, active, presented, workload >> /\ IsFiniteSet(DOMAIN generations')
  BY Zenon DEF TypesInv, Lock, Unlock, WriteUsers, Initialize, CreatePairing, LoadPairing, ConsumePairing,
         server, bounds
<1>2. root' \subseteq Complete \cup {"users"}
  BY Zenon DEF TypesInv, TypeOK, Complete, Lock, Unlock, WriteUsers, Initialize, CreatePairing, LoadPairing,
         ConsumePairing, server
<1>3. DOMAIN users' \subseteq Users
  <2>1. CASE WriteUsers(p)
    <3> DEFINE db == procs[p].copy
    <3>1. /\ procs[p].on \in Users /\ procs[p].op \in UserCommands /\ DOMAIN db \subseteq Users
          /\ users' = Edited(procs[p], db)
      BY <1>0, <2>1, Zenon DEF WriteUsers, IsProc, IsCommand, TypedProc
    <3> HIDE DEF db
    <3> QED BY <3>1, Zenon DEF Edited, With, Restrict, UserCommands
  <2>2. CASE UNCHANGED users
    BY <2>2, Zenon DEF TypesInv, TypeOK
  <2>3. CASE users' = Empty
    BY <2>3, Zenon DEF Empty
  <2> QED BY <2>1, <2>2, <2>3, Zenon DEF Lock, Unlock, Initialize, CreatePairing, LoadPairing,
                                  ConsumePairing, server
<1>4. pairings' \subseteq Pairings
  BY DEF TypesInv, TypeOK, Lock, Unlock, WriteUsers, Initialize, CreatePairing, LoadPairing,
         ConsumePairing
<1>5. locked' \subseteq LockFiles
  BY <1>0, Zenon DEF TypesInv, TypeOK, TypedProc, Lock, Unlock, WriteUsers, Initialize, CreatePairing,
              LoadPairing, ConsumePairing
<1>6. TypeOK'
  BY <1>1, <1>2, <1>3, <1>4, <1>5, Zenon DEF TypesInv, TypeOK, LockFiles
<1>7. CASE ConsumePairing(p) /\ Consumes(procs[p].value) /\ presented # Down
  <2> DEFINE c == [procs[p] EXCEPT !.pc = "save", !.value = presented]
  <2>1. procs' = [procs EXCEPT ![p] = c]
    BY <1>7, Zenon DEF ConsumePairing
  <2>2. c.pc = "save" /\ c.at = procs[p].at
    BY <1>0, Zenon DEF IsProc
  <2> HIDE DEF c
  <2>3. TypedProc(c)
    BY <1>0, <2>2, Zenon DEF TypedProc
  <2> QED BY <1>1, <1>6, <2>1, <2>3, TypedStep, Zenon
<1>8. CASE ~(ConsumePairing(p) /\ Consumes(procs[p].value) /\ presented # Down)
  <2>1. Ends(p) \/ \E pc : pc # "write" /\ Goes(p, pc)
    BY <1>8, Zenon DEF Lock, Unlock, WriteUsers, Initialize, CreatePairing, LoadPairing, ConsumePairing
  <2> QED BY <1>0, <1>1, <1>6, <2>1, TypedMove, Zenon
<1> QED BY <1>7, <1>8, Zenon

\* install_identity makes a generation while there is room, and removes what it
\* could not complete.
LEMMA TypedInstallSteps ==
    ASSUME StateInv, TypesInv, CommandsAssumption, NEW p \in Procs,
           CreateGeneration(p) \/ InstallWrite(p) \/ InstallFails(p)
    PROVE  TypesInv'
<1>0. /\ IsProc(procs[p]) /\ TypedProc(procs[p]) /\ procs[p].pc # "-"
      /\ KnowsIdentity(procs[p], generations, active)
  BY Zenon DEF StateInv, ProcsInv, IdentityInv, TypesInv, CreateGeneration, InstallWrite, InstallFails
<1>1. UNCHANGED << root, users, presented, pairings, locked, workload >>
  BY Zenon DEF CreateGeneration, InstallWrite, InstallFails, bounds
<1>2. active' \in Generations \cup {Root}
  BY <1>0, Zenon DEF TypesInv, TypeOK, CreateGeneration, InstallWrite, InstallFails, KnowsIdentity, Installing
<1> DEFINE D == DOMAIN generations
<1>3. IsFiniteSet(D) /\ Cardinality(D) \in Nat /\ Cardinality(D) <= MaxGenerations /\ D \subseteq Generations
  BY FS_CardinalityType, Zenon DEF TypesInv, TypeOK
<1>4. ASSUME DOMAIN generations' \subseteq Generations, IsFiniteSet(DOMAIN generations'),
             Cardinality(DOMAIN generations') <= MaxGenerations
      PROVE  TypeOK'
  BY <1>1, <1>2, <1>4, Zenon DEF TypesInv, TypeOK, LockFiles
<1>5. CASE DOMAIN generations' = D
        /\ \E pc : pc # "write" /\ Goes(p, pc)
  <2>1. TypeOK' /\ IsFiniteSet(DOMAIN generations')
    BY <1>3, <1>4, <1>5, Zenon
  <2> QED BY <1>0, <1>1, <1>5, <2>1, TypedMove, Zenon
<1>6. ASSUME NEW g \in Generations \ D, HasRoom, generations' = With(generations, g, {}),
             procs' = [procs EXCEPT ![p].pc = "key", ![p].on = g]
      PROVE  TypesInv'
  <2> DEFINE c == [procs[p] EXCEPT !.pc = "key", !.on = g]
  <2>1. procs' = [procs EXCEPT ![p] = c]
    BY <1>6, Zenon
  <2>2. c.pc = "key" /\ c.at = procs[p].at
    BY <1>0, Zenon DEF IsProc
  <2> HIDE DEF c
  <2>3. TypedProc(c)
    BY <1>0, <2>2, Zenon DEF TypedProc
  <2>4. DOMAIN generations' = D \cup {g}
    BY <1>6, Zenon DEF With
  <2>5. IsFiniteSet(D \cup {g}) /\ Cardinality(D \cup {g}) = Cardinality(D) + 1
    BY <1>3, <1>6, FS_AddElement, Zenon
  <2>6. Cardinality(D) + 1 <= MaxGenerations
    BY <1>3, <1>6 DEF HasRoom, CommandsAssumption
  <2>7. TypeOK' /\ IsFiniteSet(DOMAIN generations')
    BY <1>3, <1>4, <1>6, <2>4, <2>5, <2>6, Zenon
  <2> QED BY <1>1, <2>1, <2>3, <2>7, TypedStep, Zenon
<1>7. CASE InstallFails(p)
  <2>1. DOMAIN generations' = D \ {procs[p].on} /\ Goes(p, "unlock")
    BY <1>7, Zenon DEF InstallFails, Restrict
  <2>2. /\ IsFiniteSet(D \ {procs[p].on}) /\ Cardinality(D \ {procs[p].on}) \in Nat
        /\ Cardinality(D \ {procs[p].on}) <= Cardinality(D)
    BY <1>3, FS_Subset, FS_CardinalityType, Zenon
  <2>3. Cardinality(D \ {procs[p].on}) <= MaxGenerations
    BY <1>3, <2>2 DEF CommandsAssumption
  <2>4. TypeOK' /\ IsFiniteSet(DOMAIN generations')
    BY <1>3, <1>4, <2>1, <2>2, <2>3, Zenon
  <2> QED BY <1>0, <1>1, <2>1, <2>4, TypedMove, Zenon
<1>8. CASE InstallWrite(p)
  <2>1. InstallOrder(procs[p].pc) # "write"
    BY <1>8, Zenon DEF InstallWrite, InstallOrder
  <2>2. DOMAIN generations' = D
    BY <1>8, Zenon DEF InstallWrite
  <2> QED BY <1>5, <1>8, <2>1, <2>2, Zenon DEF InstallWrite
<1>9. CASE CreateGeneration(p) /\ Goes(p, "unlock") /\ UNCHANGED generations
  BY <1>5, <1>9, Zenon
<1> QED BY <1>6, <1>7, <1>8, <1>9, Zenon DEF CreateGeneration

LEMMA TypesStep ==
    ASSUME StateInv, TypesInv, CommandsAssumption, [Next]_vars
    PROVE  TypesInv'
<1>1. CASE UNCHANGED vars
  <2>1. UNCHANGED << Shape, workload, procs >>
    BY <1>1, Zenon DEF vars, Shape, server, history, bounds
  <2>2. TypeOK' /\ UNCHANGED << generations, workload, procs >>
    BY <2>1, TypeKept, Zenon DEF TypesInv, Shape
  <2> QED BY <2>2, Zenon DEF TypesInv, TypedProc, LockFiles
<1>2. CASE RemoveStaleLocks \/ Restart
  <2>1. UNCHANGED << root, users, generations, active, pairings, workload, procs >>
    BY <1>2, Zenon DEF RemoveStaleLocks, Restart, server, bounds
  <2>2. locked' \subseteq LockFiles /\ presented' \in Generations \cup {Root, Down}
    BY <1>2, Zenon DEF TypesInv, TypeOK, RemoveStaleLocks, Restart, server
  <2>3. TypeOK'
    BY <2>1, <2>2, Zenon DEF TypesInv, TypeOK, LockFiles
  <2> QED BY <2>1, <2>3, Zenon DEF TypesInv, TypedProc, LockFiles
<1> QED BY <1>1, <1>2, TypedPlainSteps, TypedFileSteps, TypedInstallSteps, Zenon DEF Next

LEMMA TypesInit == ASSUME CommandsAssumption, Init PROVE TypesInv
<1>1. Owner \in Users
  BY Zenon DEF Owner, CommandsAssumption
<1>2. DOMAIN users \subseteq Users
  BY <1>1 DEF Init, Empty
<1>3. /\ root \subseteq Complete \cup {"users"} /\ active \in Generations \cup {Root}
      /\ presented \in Generations \cup {Root, Down} /\ pairings \subseteq Pairings
      /\ locked \subseteq LockFiles
  BY Zenon DEF Init
<1>4. DOMAIN generations = {}
  BY Zenon DEF Init, Empty
<1>5. IsFiniteSet({}) /\ Cardinality({}) = 0
  BY FS_EmptySet, Zenon
<1>6. TypeOK
  BY <1>2, <1>3, <1>4, <1>5 DEF TypeOK, CommandsAssumption
<1>7. \A w \in workload : w.at \in LockFiles
  BY Zenon DEF Init, CommandsAssumption
<1>8. \A p \in Procs : TypedProc(procs[p])
  BY IdleFacts, Zenon DEF Init, TypedProc
<1> QED BY <1>4, <1>5, <1>6, <1>7, <1>8, Zenon DEF TypesInv

\* active-identity names a complete generation at every moment, wherever
\* install_identity is killed or fails, and installations that overlap and fail
\* half-way never leave more generations than validate_server_state accepts.
THEOREM IdentityIsComplete ==
    ASSUME CommandsAssumption
    PROVE  Spec => []StateIntact
<1>1. Init => TypesInv
  BY TypesInit, Zenon
<1>2. StateInv /\ TypesInv /\ [Next]_vars => TypesInv'
  BY TypesStep, Zenon
<1>3. StateInv /\ TypesInv => StateIntact
  BY Zenon DEF StateInv, IdentityInv, Selected, ActiveComplete, TypesInv, StateIntact
<1>4. Spec => []StateInv
  BY StateInvHolds, Zenon
<1> QED BY <1>1, <1>2, <1>3, <1>4, PTL DEF Spec

\* consume_pairing gives one proof for a pairing record, whoever asks at once.
THEOREM PairsOnce ==
    ASSUME CommandsAssumption
    PROVE  Spec => []PairingOnce
<1>1. StateInv => PairingOnce
  BY DEF StateInv, PairingsInv, PairingOnce
<1> QED BY <1>1, StateInvHolds, PTL

\* ensure_unpaired under the lock: no client with a pin for the server uses up a
\* pairing record.
THEOREM PinnedDoNotPair ==
    ASSUME CommandsAssumption
    PROVE  Spec => []PairsOnlyUnpinned
<1>1. StateInv => PairsOnlyUnpinned
  BY Zenon DEF StateInv, PinsInv, KnowsPins, PairsOnlyUnpinned, Pinned
<1> QED BY <1>1, StateInvHolds, PTL

\* The accounts and the pins are what the completed commands make of them in turn:
\* create_new on the lock file keeps overlapping commands from writing back what
\* they read before another wrote, after kills and after stale locks are removed; pairing
\* records are used once, and by clients without a pin.
THEOREM UpdatesAreKept ==
    ASSUME CommandsAssumption
    PROVE  Spec => []NoLostUpdate
<1>1. StateInv /\ PairingOnce /\ PairsOnlyUnpinned => NoLostUpdate
  BY Zenon DEF StateInv, UsersInv, PinsInv, NoLostUpdate
<1> QED BY <1>1, StateInvHolds, PairsOnce, PinnedDoNotPair, PTL
=============================================================================
