SPECIFICATION Spec
CONSTANTS
    Callers = {c1, c2}
    NSteps = 2
    MaxPlans = 2
    MaxCalls = 5
    MaxOverlaps = 3
    Asked <- LoopsAndSteps
SYMMETRY Interchangeable
INVARIANTS OnlyReadyPlansTakeEffect RunningStepsHaveARunner QueueTellsWhatRan CompletedLoopsRanTheirSteps ActivePlanServesObjective
 
CHECK_DEADLOCK FALSE
