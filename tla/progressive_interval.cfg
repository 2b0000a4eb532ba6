SPECIFICATION MCSpec
CONSTANTS
    Users = {"ann"}
    Everybody = "all"
    Statements = {"confirm", "skip"}
    Contradicts <- ContradictingPair
    Unacceptable = {}
    Ephemeral = {"confirm"}
    RecurrenceFor <- RecurrenceOf
    ValidatedAt <- OneUse
    Institutional = 2
    StaleValidated = 2
    StaleAfter = 1
    ExpiredAfter = 2
    DemoteAfter = 1
    RuleLimit = 1
    AutoLimit = 1
    Proposals <- NoProposals
    MaxRules = 2
    MaxReflections = 2
    MaxDay = 2
    Sessions = {"s"}
    Ends = {"e1", "e2"}
    Unbound = "unbound"
    EveryTurnEnds = TRUE
    Plenty = {TRUE}
    Interval = 5
    MaxMessages = 5
    Focuses = {"hooks"}
INVARIANTS ConsolidatesRegularly
CHECK_DEADLOCK FALSE
