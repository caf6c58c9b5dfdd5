SPECIFICATION Spec
CONSTANTS
    Handlers = {h1, h2}
    f1 = f1
    f2 = f2
    Files = {f1, f2}
    Contents = {c1, c2}
    Faulty = {f2}
    Requests <- BothFiles
    Absent = Absent
    Torn = Torn
    MaxCalls = 3
    MaxEdits = 1
    MaxCrashes = 1
SYMMETRY Interchangeable
INVARIANTS TypeOK AcknowledgedIsRestorable RestoreBringsBack UnreportedIsUnchanged
CHECK_DEADLOCK FALSE
