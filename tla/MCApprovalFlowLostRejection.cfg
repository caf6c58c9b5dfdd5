SPECIFICATION Spec
CONSTANTS
    x = x
    y = y
    f1 = f1
    f2 = f2
    Handlers = {h1, h2}
    Proposals = {x}
    Files = {f1, f2}
    FilesOf <- OneFile
    PlanFiles = {f1}
    HighRisk = {}
    Passing <- WholeOnly
    RequestKinds = {"patch"}
    NoProposal = NoProposal
    NoDecision = NoDecision
    MaxPreviews = 1
    MaxCalls = 3
    MaxCrashes = 0
PROPERTIES RejectionStands
CHECK_DEADLOCK FALSE
