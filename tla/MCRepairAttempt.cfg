SPECIFICATION FairSpec
CONSTANTS
    any = any
    plain = plain
    Attempts = {any, plain}
    target = target
    other = other
    Files = {target, other}
    oss = oss
    mini = mini
    opus = opus
    sonnet = sonnet
    Models = {oss, mini, opus, sonnet}
    NoModel = NoModel
    AgentPremium <- AgentsPremium
    TierOf <- TierOfNames
    Calls <- CallsOf
    Replies <- SomeReplies
    Prompts <- SomePrompts
INVARIANTS RealCallsAreOptedIn SentIsJudged DiffIsOfTheRepair ReportIsTheResult
PROPERTY EveryAttemptEnds
CHECK_DEADLOCK FALSE
