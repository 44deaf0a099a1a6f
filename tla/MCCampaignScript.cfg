SPECIFICATION Spec
CONSTANTS
  a = a
  b = b
  p1 = p1
  p2 = p2
  Contacts = {a}
  Modes = {"FIXED_SCRIPT"}
  Plan <- CentPlan
  MaxCallSeconds = 60
  MaxConcurrent = 1
  Throttle = 2
  MaxAttempts = 2
  RetryOn = {"NO_ANSWER"}
  InitialBalances = {3}
  CreditLimit = 1
  Outcomes = {"COMPLETED", "NO_ANSWER"}
  MayOptOut = {}
  Passes = {p1}
  MaxCalls = 2
  MaxRequests = 0
  MaxFaults = 0
INVARIANTS
  ScriptCallIsCharged
CHECK_DEADLOCK FALSE
