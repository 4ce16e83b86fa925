SPECIFICATION PartsSpec
CHECK_DEADLOCK FALSE
CONSTANTS
    Worker = {w1, w2}
    Direct = {}
    IdempotencyKey = {key1, key2}
    MaxTries = 2
    MaxJob = 1
    MaxCandidate = 2
    MaxAttempt = 3
    MaxCase = 5
    MaxAnswers = 2
    Absent = Absent
    SetOf <- Sets
    LockedIds <- LockedCases
    Row <- Contains
    Shares <- Near
    Numeric <- Figures
    TARGET_LOCKED_CLUSTERS = 2
    DescriptiveTarget = 1
    MaxInventory = 2
    MaxEdit = 2
    Partial = Partial
    Statement <- Statements
    Guard <- Guards
    Entry = {1, 2, 3}
    Limit = 1
    Kinds = {"documents", "retention", "events", "versions"}
    Collection = {"collection"}
    Tag = {"tag"}
    Filter <- Narrowed
    Top = Top
    MaxInstant = 3
    MaxShift = 2
    Part = {"jobs", "listing", "inventory", "review", "screening"}
INVARIANTS
    EvaluationIsHonest
    ListingsAreWhole
PROPERTIES
    JobsEnd
