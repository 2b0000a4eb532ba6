SPECIFICATION MCSpec
CONSTANTS
    Users = {"ann", "bob"}
    Everybody = "all"
    Statements = {"confirm", "skip"}
    Contradicts <- ContradictingPair
    Unacceptable = {}
    Ephemeral = {"confirm"}
    RecurrenceFor <- RecurrenceOf
    ValidatedAt <- OneUse
    Institutional = 2
    StaleValidated = 2
    StaleAfter = 1
    ExpiredAfter = 2
    DemoteAfter = 1
    RuleLimit = 1
    AutoLimit = 1
    Proposals <- TwoProposals
    MaxRules = 2
    MaxReflections = 2
    MaxDay = 2
    Sessions = {"s"}
    Ends = {"e1", "e2"}
    Unbound = "unbound"
    EveryTurnEnds = FALSE
    Plenty = {TRUE, FALSE}
    Interval = 2
    MaxMessages = 2
    Focuses = {"hooks", "rules"}
INVARIANTS
    OneVoice
    InjectedForUser
PROPERTIES
    RetiredStaysRetired
CHECK_DEADLOCK FALSE
