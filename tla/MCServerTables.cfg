SPECIFICATION TablesSpec
CONSTANTS
    Sessions = {s1, s2}
    Writers = {s1, s2}
    Owners = {o1}
    Pids = {1}
    Files = {f1}
    Handles = {h1, h2}
    Tasks = {t1}
    OpenModes = {"ReadWrite"}
    WaitModes = {FALSE}
    MaxOffset = 2
    MaxLockRecords = 3
    Requesters = {q1, q2}
    Connections = {1}
    Nodes = {n1, n2}
    Paths = {a, b}
    InitialTree <- OneFile
    Requests = {"access", "open", "scan", "create", "link", "remove", "rename", "forget", "drop"}
    RenameModes = {"Replace", "NoReplace", "Exchange"}
    MaxKnown = 1
    MaxTotal = 1
    MaxChanges = 2
    a = a
    b = b
    c = c
    n1 = n1
    n2 = n2
    n3 = n3
    NoNode = NoNode
SYMMETRY Symmetry
INVARIANTS
    TypeOK Exclusion
    LoopMergesMaximalRuns
    RegistryIntact SharedNodesCounted
PROPERTIES
    ImplementsPosixLocks
