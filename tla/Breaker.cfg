CONSTANTS
  Callers = {c1, c2, c3}
  FailureThreshold = 3
  CooldownTicks = 0
  FailureCap = 5
SPECIFICATION FairSpec
INVARIANTS TypeOK ClosedBelowThreshold HalfOpenHasProbe
PROPERTIES RecoversWhenTried ImplementsPolicy
