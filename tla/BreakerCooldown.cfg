CONSTANTS
  Callers = {c1, c2}
  FailureThreshold = 1
  CooldownTicks = 2
  FailureCap = 2
SPECIFICATION Spec
PROPERTY StaysOpenForCooldown
