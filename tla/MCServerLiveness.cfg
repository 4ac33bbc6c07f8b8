SPECIFICATION WaitSpec
CONSTANTS
    Sessions = {s1, s2}
    Owners = {o1}
    Pids = {1}
    Files = {f1}
    Handles = {h1, h2}
    Writers = {s1}
    Tasks = {t1, t2}
    OpenModes = {"ReadOnly", "ReadWrite"}
    WaitModes = {TRUE}
    MaxOffset = 0
    MaxLockRecords = 2
    Requesters = {q1, q2}
    MaxCalls = 2
    MaxGivenUp = 1
    MaxFaults = 1
CHECK_DEADLOCK FALSE
INVARIANTS
    NoLostWakeup GoneLeavesNothing
PROPERTIES
    NoStuckWaiter LostSessionsEnd RequestsEnd
