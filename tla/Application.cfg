SPECIFICATION FairSpec
CONSTANTS
    kept = kept  added = added  gone = gone  note = note  pkg = pkg
    e1 = e1  e2 = e2
    New = New  None = None
    Path = {kept, added, gone, note}
    Dir = {pkg}
    Parent <- ParentOf
    Change <- EachKind
    Base = {"lf", "crlf"}
    Mine = {e1, e2}
    MaxCrash = 2
    MaxFault = 2
INVARIANTS
    NothingIsLost
    ReturnedTreeIsWhole
PROPERTIES
    CrashedApplyIsUndone
