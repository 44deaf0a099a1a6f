SPECIFICATION FairSpec
CONSTANTS
  in1 = in1
  ph = ph
  Inbound = {in1}
  Phone = {ph}
  Price <- PerMinute
  Talks = {1, 61}
  InitialBalances = {3}
  CreditLimit = 0
  MaxFaults = 1
INVARIANTS
  OnlyConversationIsCharged
  BillsAreSound
PROPERTIES
  ImplementsPromise
  BillIsTaken
  EndedCallIsClosed
CHECK_DEADLOCK FALSE
