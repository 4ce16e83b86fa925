SPECIFICATION Spec
CHECK_DEADLOCK FALSE
CONSTANTS
    CallKind = {"implementer", "evaluator", "command", "git", "status"}
    Host = {"posix", "windows"}
    Stream = {"stdout"}
    Limit = 1
    PromptSize = 2
    PipeSize = 1
    File = {"f1", "f2"}
    Commands = 2
    MaxAttempt = 2
    MaxEdit = 2
    Road = {"implementer", "code_audit", "locked_audit"}
    Changes = 2
INVARIANTS
    CallsAreHonest
    GateAgrees
    RepliesAreJudged
PROPERTIES
    CallEnds
