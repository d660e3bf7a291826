SPECIFICATION FairSpec
CONSTANTS
  Requests = {r1, r2, r3}
  MaxConcurrent = 2
  None = None
INVARIANTS TypeOK PermitConservation ExclusiveOutcome OnePlace NoneStranded
PROPERTIES WaitersAnswered PermitsReturned ImplementsGate
