SPECIFICATION HSpec
CONSTANTS
    Requests = {r1, r2}
    Pods = {p1}
    InflightPerPod = 1
    Grace = FALSE
    None = None
INVARIANT DequeuedOnCapacity
