CONSTANTS
    m1 = m1
    m2 = m2
    m3 = m3
    alice = alice
    bob = bob
    chat = chat
    c1 = c1
    c1b = c1b
    c2 = c2
    Ids = {m1, m2, m3}
    Users = {alice, bob}
    Chats = {chat}
    None = None
    Types = {"fact", "summary"}
    Contents = {c1, c1b, c2}
    Callers = {None}
    MaxImportance = 1
    ImportantAt = 1
    HotAt = 0
    ProtectAt = 1
    SemanticAt = 1
    WorkingDays = 0
    StaleDays = 1
    MaxDay = 1
    Similar <- MCSimilar
    Inputs <- HouseInputs
    Consolidations <- PassConsolidations
    Housekeepings <- PassFilters
    KindLimit <- MCKindLimit
    Limit <- MCLimit
SPECIFICATION HouseSpec
SYMMETRY Symmetry
INVARIANTS
    HousekeepingSettles
PROPERTIES
    OnlyRestoreRevives
