SPECIFICATION Spec
CONSTANTS
  a = a
  b = b
  p1 = p1
  p2 = p2
  Contacts = {a, b}
  Modes = {"VOICE_AI", "FIXED_SCRIPT"}
  Plan <- CentPlan
  MaxCallSeconds = 60
  MaxConcurrent = 1
  Throttle = 2
  MaxAttempts = 1
  RetryOn = {"NO_ANSWER"}
  InitialBalances = {1, 3}
  CreditLimit = 1
  Outcomes = {"COMPLETED", "NO_ANSWER"}
  MayOptOut = {}
  Passes = {p1, p2}
  MaxCalls = 2
  MaxRequests = 1
  MaxFaults = 0
SYMMETRY Alike
INVARIANTS
  CreditLimitHolds
  OverlapIsBounded
CHECK_DEADLOCK FALSE
