SPECIFICATION Spec
CONSTANTS
  c1 = c1
  Calls = {c1}
  Providers = {"yeastar"}
  Price <- PerMinute
  MaxCallSeconds = 60
  TickSecs = 90
  InitialBalances = {1}
  CreditLimit = 1
  MaxTicks = 1
  MaxTurns = 1
  MaxFaults = 0
PROPERTIES
  EscalatedCallIsNotHungUp
CHECK_DEADLOCK FALSE
