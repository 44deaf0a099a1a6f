SPECIFICATION FairSpec
CONSTANTS
  desk = desk
  web = web
  out = out
  Legs = {desk, web}
  Out = out
  MaxFaults = 1
INVARIANTS
  NothingIsLeftBehind
  DestinationIsNotAlone
PROPERTIES
  CallIsForgotten
CHECK_DEADLOCK FALSE
