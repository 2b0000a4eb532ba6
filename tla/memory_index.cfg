SPECIFICATION MCSpec
CONSTANTS
    MaxCalls = 3
    Texts = {"a", "b"}
    Kinds = {"local", "openai"}
    QueueLimit = 2
    ChunkSize = 1
    MaxDisturbed = 2
    Ids = {"m1", "m2", "m3", "m4"}
    MaxRelations = 2
    MaxInferred = 1
    MaxInjected = 1
    ScanTop = 2
    GraphLimit = 2
    Precedes <- MCPrecedes
    Users = {"u", "v"}
    Near <- MCNear
    Class <- MCClass
    Overlaps <- MCOverlaps
    AddedTypes = {"causes"}
    MinCluster = 2
    RecallLimit = 2
    Pool = {1, 2, 3, 4, 5, 6}
    Traits <- MCTraits
    Related = {3, 5, 6}
    RouteWord = "q"
    MostRecalled = 4
    MostJoined = 3
INVARIANTS
    EmbedAccounted
    AnswersMatch
    OnlyGraphCrossesScopes
    AutomaticRelationsBounded
    TraversalsAgree
    ForemostSelected
    SuppressedStaysOut
PROPERTIES
    EmbedSettles
    CompressionKeepsRelations
CHECK_DEADLOCK FALSE
