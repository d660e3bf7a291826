SPECIFICATION Spec
CONSTANTS
    MaxGroups = 1
    RoleReplicas = 2
    Policies = {"ServingGroupRecreate"}
    GracePeriods = {TRUE}
    FaultKinds = {"evict"}
    MaxFaults = 1
    MaxPods = 4
    MaxLag = 1
INVARIANT PolicyCarriedOut
CHECK_DEADLOCK FALSE
