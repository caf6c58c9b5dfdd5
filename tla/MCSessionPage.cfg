SPECIFICATION FairSpec
CONSTANTS
    s1 = s1
    s2 = s2
    p1 = p1
    p2 = p2
    p3 = p3
    p4 = p4
    None = None
    Sessions <- AllSessions
    Proposals <- FewProposals
    Plans <- ThreePlans
    Attempts = {0, 1, 3}
    MaxQuestions = 1
    MaxExtras = 1
INVARIANTS
    PageTypeOK
    ShownBelongTogether
    GuideFollowsRender
    OfferIsActedOn
PROPERTIES
    GuideLeadsOn
CHECK_DEADLOCK FALSE
