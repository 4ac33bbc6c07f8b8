SPECIFICATION MountSpec
CONSTANTS
    Tasks = {t1, t2}
    Files = {f1}
    Names = {x, y}
    Dirs = {d1}
    FileNodes = {f1}
    Exports <- Places
    x = x
    y = y
    d1 = d1
    d2 = d2
    f1 = f1
    f2 = f2
    MaxCalls = 3
    MaxHandles = 2
    MaxFaults = 1
    MaxInodes = 4
    MaxReads = 2
    MaxChanges = 1
    Limit = 2
SYMMETRY Sym
CHECK_DEADLOCK FALSE
INVARIANT KernelInodesKnown
