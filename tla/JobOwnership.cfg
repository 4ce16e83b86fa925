SPECIFICATION SidesSpec
CHECK_DEADLOCK FALSE
CONSTANTS
    Worker = {w1, w2}
    Direct = {p1}
    IdempotencyKey = {key1, key2}
    MaxTries = 2
    MaxJob = 2
    MaxCandidate = 2
    MaxAttempt = 3
    Publisher = {b1, b2}
    Reader = {r1}
    Purger = {u1}
    Body = {"sent", "other"}
    Expected = "sent"
    System = {"posix", "windows"}
    NoBody = "none"
    MaxObject = 2
    MaxDirectory = 2
SYMMETRY Alike
INVARIANTS
    JobsAgree
    StorageAnswers
PROPERTIES
    ClaimsAreHonoured
    SourceIsImmutable
