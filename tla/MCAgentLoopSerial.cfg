SPECIFICATION FairSpec
CONSTANTS
    x = x
    y = y
    Procs = {p1}
    Proposals = {x, y}
    NoProposal = NoProposal
    ReadOnlySteps <- OneReadOnly
    StepKinds <- EveryKind
    MaxRequests = 2
    MaxCrashes = 0
PROPERTIES KeepsPromise EveryCommandEnds
