SPECIFICATION MCSpec
CONSTANTS
    Memories = {"c", "v"}
    Critical = {"c"}
    Vague = {"v"}
    ExistingLimit = 1
    DeriveLimit = 1
    MaxInsights = 3
    MaxGoals = 2
    MaxFeedback = 3
    MaxCycles = 3
    Sessions = {"s"}
    MaxEntries = 1
    MaxDrained = 3
    MaxRestarts = 1
    Calls = {1, 2}
    Estimates = {1, 2}
    Cheapest = 1
    MaxAnswer = 3
    DailyBudget = 6
    SessionBudget = 5
    Plans = {1, 2}
    MaxSteps = 2
    MaxPerDay = 1
    MaxPerSession = 1
    ConfirmTiers = {"confirm"}
    MaxDays = 2
    MaxResets = 2
INVARIANTS
    OnlyOverlapLoses
    UsageBounded
    ActionsBounded
PROPERTIES
    DismissedStaysAway
    PlansEnd
CHECK_DEADLOCK FALSE
