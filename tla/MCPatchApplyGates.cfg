SPECIFICATION MCFairSpec
CONSTANTS
    f1 = f1
    f2 = f2
    c0 = c0
    c1 = c1
    c2 = c2
    Files = {f1, f2}
    Contents = {c0, c1, c2}
    Absent = Absent
    Torn = Torn
    NoContent = NoContent
    Runs = {r1}
    Rollbacks = {b1}
    Requests <- AllRequests
    Protected = {f2}
    FaultyBackups = {f1}
    User = User
    MaxStamp = 1
    MaxEnv = 2
INVARIANTS WritesAreGated OnlyFailuresArePartial
PROPERTIES EveryRunReturns
CHECK_DEADLOCK FALSE
