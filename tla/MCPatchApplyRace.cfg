SPECIFICATION MCSpec
CONSTANTS
    f1 = f1
    f2 = f2
    c0 = c0
    c1 = c1
    c2 = c2
    Files = {f1, f2}
    Contents = {c0, c1, c2}
    Absent = Absent
    Torn = Torn
    NoContent = NoContent
    Runs = {r1, r2}
    Rollbacks = {b1}
    Requests <- RacingRequests
    Protected = {}
    FaultyBackups = {}
    User = User
    MaxStamp = 1
    MaxEnv = 1
INVARIANTS OverwrittenIsBackedUp RollbackRestoresOriginal
SYMMETRY RunSymmetry
CHECK_DEADLOCK FALSE
