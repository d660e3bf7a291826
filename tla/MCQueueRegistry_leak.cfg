SPECIFICATION Spec
CONSTANTS
    Names = {n1}
    RouteKeys = {k1}
    Requests = {r1}
    Queues = {q1}
    None = None
INVARIANT NoLeakedQueue
