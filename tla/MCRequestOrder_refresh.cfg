SPECIFICATION FairSpec
CONSTANTS
    Requests = {"r1", "r2", "r3"}
    Users = {"anon", "alice", "bob"}
    UserOf <- OneEach
    Anonymous = "anon"
    SessionOf <- NoSessions
    NoSession = "none"
    SessionBoost = FALSE
    MaxPriorityRefreshRetries = 2
    RebuildThreshold = 2
    MaxSessions = 1
    MaxTokens = 2
    MaxClock = 0
INVARIANTS TypeOK HeapOrdered
PROPERTIES LeastUsageServed EveryoneServed
