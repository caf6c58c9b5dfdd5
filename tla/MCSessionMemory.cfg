SPECIFICATION Spec
CONSTANTS
    Handlers = {h1, h2}
    Questions <- OneQuestion
    Chosen <- Answers
    Statements <- OneRule
    MaxCalls = 3
    MaxOverlaps = 3
    MaxCrashes = 1
SYMMETRY Interchangeable
INVARIANTS TypeOK BlockedIsPreserved PlanHeedsDecisions RecordsAgree
PROPERTIES LogOnlyGrows
CHECK_DEADLOCK FALSE
