SPECIFICATION Spec
CONSTANTS
    Requests = {"r1", "r2", "r3"}
    Users = {"anon", "alice", "bob"}
    UserOf <- TwoOfAlice
    Anonymous = "anon"
    SessionOf <- NoSessions
    NoSession = "none"
    SessionBoost = FALSE
    MaxPriorityRefreshRetries = 0
    RebuildThreshold = 1
    MaxSessions = 1
    MaxTokens = 3
    MaxClock = 0
PROPERTY SameUserFIFO
