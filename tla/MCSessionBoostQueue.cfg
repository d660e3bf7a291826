SPECIFICATION FairSpec
CONSTANTS
    Requests = {r1, r2}
    Pods = {p1}
    InflightPerPod = 1
    Grace = TRUE
    None = None
INVARIANTS TypeOK InflightConservation HeldForAReason NoneStranded
PROPERTIES LimitRespected HeldRequestsAnswered
