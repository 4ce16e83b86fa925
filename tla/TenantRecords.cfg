SPECIFICATION RecordsSpec
CONSTANTS
    m1 = m1
    m2 = m2
    Member = {m1, m2}
    Architect = {a1}
    Structure <- Structures
    MaxEpoch = 3
    MaxInteraction = 2
    MaxFeedback = 2
    c1 = c1
    Content = {c1, c2}
    MaxVersion = 2
    MaxImport = 2
    Chunk = {k1, k2}
    Sum = {s1, s2}
    MaxTicket = 2
    d1 = d1
    d2 = d2
    d3 = d3
    p1 = p1
    p2 = p2
    Doc = {d1, d2, d3}
    Own = {d1, d2}
    Page = {p1, p2}
    None = None
    PageOf <- Pages
    MaxEdition = 2
    MaxChange = 2
    Use <- EachKind
CHECK_DEADLOCK FALSE
INVARIANTS
    RecordsAgree
    RetrievalIsCurrent
    AnswersStandOnEvidence
PROPERTIES
    ClosedByRight
