SPECIFICATION DataSpec
CONSTANTS
    Readers = {r1, r2}
    Speculators = {ahead}
    Blocks = {0, 1}
    Cells = {1, 2, 3, 4, 5}
    None = None
    Retries = 1
    StoreLimit = 0
    Workloads <- Mixes
    MaxRevision = 3
    Size = 6
    Cap = 4
    MaxStreams = 2
    Trigger = 2
    PrimeWindow = 1
    InitialWindow = 2
    Slack = 1
    Burst = 3
    Slots = 3
    Permits = 2
    MaxReads = 4
    MaxFileRevision = 2
    r1 = r1
    r2 = r2
    dir = dir
    leaf = leaf
    list = list
    meta = meta
    stats = stats
    old = old
    new = new
CHECK_DEADLOCK FALSE
INVARIANT NoStaleRead
