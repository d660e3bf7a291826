SPECIFICATION Spec
CONSTANTS
    MaxGroups = 1
    RoleReplicas = 1
    Policies = {"ServingGroupRecreate", "RoleRecreate", "None"}
    GracePeriods = {TRUE, FALSE}
    FaultKinds = {"api", "crash", "pod", "evict", "scale"}
    MaxFaults = 2
    MaxPods = 4
    MaxLag = 1
INVARIANTS TypeOK SettledMeansConverged
PROPERTY ReplacementsSpared
CHECK_DEADLOCK FALSE
