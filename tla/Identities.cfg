SPECIFICATION IdentitiesSpec
CONSTANTS
    Member = {m1}
    Account = {a1}
    Life = 1
    Window = 1
    Tolerance = 1
    Skews <- ClockDifferences
    Ends = {2}
    MaxTime = 2
    MaxEpoch = 2
    MaxPolicy = 2
    MaxRevision = 2
    MaxApproval = 2
    MaxProof = 2
    MaxUse = 2
    Tenant = {t1, t2}
    Subject = {s1}
    Conn = {c1}
    Request = {r1, r2}
    None = None
    Nothing = Nothing
    MaxSkew = 1
    MaxClock = 3
    MaxMove = 1
    Login = {l1, l2}
    Call = {k1, k2}
    LoginTime = 1
    SessionTime = 2
    Skew = 1
    MaxLogins = 1
    MaxSessions = 1
    MaxHour = 3
    Speaker = {1, 2, 3}
    MaxWaiting = 1
    MaxTokens = 4
    MaxPhrases = 2
    Registries <- SomeRegistries
CHECK_DEADLOCK FALSE
INVARIANTS
    AccountsAgree
    RequestsStayInTheirTenant
    SessionsKeepTheirLogin
    SpeechHolds
PROPERTIES
    AuthorityIsRecent
