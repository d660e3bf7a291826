SPECIFICATION Spec
CONSTANTS
    Requests = {"r1", "r2", "r3", "r4"}
    Users = {"anon", "alice", "bob", "carol"}
    UserOf <- OneEach
    Anonymous = "anon"
    SessionOf <- NoSessions
    NoSession = "none"
    SessionBoost = FALSE
    MaxPriorityRefreshRetries = 1
    RebuildThreshold = 64
    MaxSessions = 1
    MaxTokens = 1
    MaxClock = 0
PROPERTY UnauthenticatedLast
