SPECIFICATION FairSpec
CONSTANTS
  c1 = c1
  Calls = {c1}
  Providers = {"asterisk", "yeastar"}
  Price <- PerMinute
  MaxCallSeconds = 60
  TickSecs = 90
  InitialBalances = {0, 1}
  CreditLimit = 1
  MaxTicks = 1
  MaxTurns = 1
  MaxFaults = 1
INVARIANTS
  BalanceExplained
  SecondSettlementHasACause
  SessionsAreSound
  
PROPERTIES
  AnsweredCallSettles
CHECK_DEADLOCK FALSE
