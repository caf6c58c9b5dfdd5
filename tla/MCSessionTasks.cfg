SPECIFICATION Spec
CONSTANTS
    Handlers = {h1, h2}
    NDefaults = 2
    Dependencies <- OneDependency
    Asked <- AddsAndMoves
    MaxTime = 2
    MaxCalls = 6
    MaxOverlaps = 4
    MaxCrashes = 1
SYMMETRY Interchangeable
INVARIANTS StartedAfterDependencies AlwaysATaskToDo DefaultsComeOnce
PROPERTIES SerialFileIsABoard
CHECK_DEADLOCK FALSE
