SPECIFICATION ServiceSpec
CONSTANTS
    c1 = c1
    c2 = c2
    p1 = p1
    p2 = p2
    r1 = r1
    r2 = r2
    Procs = {q1, q2}
    Users = {"ann", "bob"}
    Machines = {"m1", "m2"}
    Servers = {"a", "b"}
    Home = "a"
    Generations = {"g1", "g2", "g3"}
    Pairings = {"i1", "i2"}
    MaxGenerations = 2
    Workloads <- Loads
    Conns = {c1, c2}
    Peer <- PeerOf
    Slots = {r1, r2}
    AdmissionLoads <- Kinds
    MaxConnections = 2
    MaxRequests = 2
    MaxAuth = 1
    ReadBytes = 3
    WriteBytes = 3
    ConnectionWriteBytes = 2
    Lengths = {1, 2}
    FailureLimit = 1
    AttemptsPerWindow = 1
    Window = 1
    MaxBuckets = 1
    MaxStreams = 3
    MaxTime = 1
    MaxCommands = 3
    MaxFaults = 1
SYMMETRY Sym
CHECK_DEADLOCK FALSE
INVARIANTS
    PermitsConserved AttemptsLimited 
    NoLostUpdate StateIntact
    
     
