SPECIFICATION Spec
CONSTANTS
    Requests = {"r1", "r2", "r3"}
    Users = {"anon", "alice"}
    UserOf <- OneUser
    Anonymous = "anon"
    SessionOf <- ThreeSessions
    NoSession = "none"
    SessionBoost = TRUE
    MaxPriorityRefreshRetries = 1
    RebuildThreshold = 2
    MaxSessions = 2
    MaxTokens = 1
    MaxClock = 6
INVARIANT RemembersMostRecent
PROPERTY NothingOutranks
