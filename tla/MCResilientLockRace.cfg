SPECIFICATION RaceSpec
CONSTANTS
    Tasks = {t1, t2}
    Handles = {h1}
    Locks = {}
    Modes = {"read", "truncate"}
    Requests = {"mutate", "open", "read", "write", "setattr", "close", "other write"}
    Attempts = 1
    LockHistory = 4
    RevisionOf <- Digests
    MaxGeneration = 2
    MaxChanges = 2
    MaxLockCalls = 0
    l1 = l1
    l2 = l2
SYMMETRY Symmetry
CHECK_DEADLOCK FALSE
INVARIANT LocksAreReplayed
