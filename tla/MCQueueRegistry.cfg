SPECIFICATION FairSpec
CONSTANTS
    Names = {n1, n2}
    RouteKeys = {k1, k2}
    Requests = {r1, r2}
    Queues = {q1, q2}
    None = None
INVARIANTS TypeOK IndexesAgree NoLostQueue NobodyInClosedQueue
PROPERTY HandlersReturn
