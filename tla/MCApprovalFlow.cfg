SPECIFICATION Spec
CONSTANTS
    x = x
    y = y
    f1 = f1
    f2 = f2
    Handlers = {h1, h2}
    Proposals = {x, y}
    Files = {f1, f2}
    FilesOf <- BothAndOne
    PlanFiles = {f1}
    HighRisk = {y}
    Passing <- WholeAndPart
    RequestKinds = {"plan", "patch", "rollback"}
    NoProposal = NoProposal
    NoDecision = NoDecision
    MaxPreviews = 1
    MaxCalls = 3
    MaxCrashes = 1
SYMMETRY Interchangeable
INVARIANTS AppliedWasCleared
PROPERTIES NewestDecisionRules
CHECK_DEADLOCK FALSE
