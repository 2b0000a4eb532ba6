SPECIFICATION MCSpec
CONSTANTS
    Users = {"a", "b"}
    Places = {1, 2, 3}
    Keys = {"k"}
    Values = {"x", "y"}
    Statements = {"r1", "r2"}
    MaxRules = 2
    MaxHints = 2
    MaxItems = 2
    None = None
    Processes = {p, q}
    Latest = 4
    Needs <- MCNeeds
    Tolerant = {2, 3}
    Cleaning = {3}
    SearchPhase = 4
    Rowids = {1, 2}
    Contents = {"a", "b", "j"}
    Junk = {"j"}
    Absent = Absent
    Sessions = {"s"}
    Memories = {"m", "n"}
    Strategies = {"hybrid", "keyword"}
    MaxRows = 1
    MinSamples = 2
    MinWeighed = 3
    Interval = 2
    Parameters = {"cooldown", "drain"}
    Top <- MCTop
    Window = 5
    MaxReverts = 2
INVARIANTS
    ProfileCurrent
    FeedbackSettles
    UpgradeComplete
    ParametersSurvive
PROPERTIES
    OnboardedOnce
CHECK_DEADLOCK FALSE
