SPECIFICATION FilesSpec
SYMMETRY Symmetry
CONSTANTS
    p1 = p1  p2 = p2  c1 = c1  c2 = c2  Base = Base
    None = None
    Proc = {p1, p2}
    Cand = {c1, c2}
    MaxRepair = 1
    MaxEval = 2
    MaxRun = 2
    MaxTask = 2
    MaxFault = 1
    MaxTouch = 1
    top = top  file = file  environment = environment  inner = inner
    link = link
    elsewhere = elsewhere  outer = outer  secret = secret
    Obj <- Objects
    KindOf <- Kind
    Layout <- TheLayout
    Nil = Nil
    Name = {"a", "e", "g"}
    EnvName = {"e"}
    Marker = "a"
    HolderRoot = "e"
    Git = "g"
    Platform = {"posix", "windows"}
    Repo = top
    Outside = {elsewhere, outer, secret}
    Quiescence = 1
    MaxMove = 2
    MaxTick = 3
CHECK_DEADLOCK FALSE
INVARIANTS
    EvidenceHolds
PROPERTIES
    RecordsTellTheTree
    RunsKeepTheirRecord
