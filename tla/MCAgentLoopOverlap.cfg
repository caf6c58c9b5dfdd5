SPECIFICATION Spec
CONSTANTS
    x = x
    y = y
    Procs = {p1, p2}
    Proposals = {x, y}
    NoProposal = NoProposal
    ReadOnlySteps <- NoReadOnly
    StepKinds <- ApplyKinds
    MaxRequests = 1
    MaxCrashes = 1
SYMMETRY Interchangeable
INVARIANTS AppliedWasGranted ApprovalsNameProposal
