SPECIFICATION Spec
CONSTANTS
  ModelRequests = {q1, q2}
  MaxRequests = 3
  MCalls = {c1}
  MaxConfig = 2
  MaxPrompt = 2
  AutoBlock = 1
  RTurns = {t1, t2}
  Protocol = "OPENAI_CHAT"
  Threshold = 2
  Digits = {1, 2}
  National = 2
  MaxDigits = 3
  OwnNumbers <- MCOwnNumbers
INVARIANTS
  
  KillSwitchCutsCalls
  MemoryIsCurrent
  SpokenTurnIsSafe
PROPERTIES
  BlockedIsFinal
  BreakerClosesForACause
CHECK_DEADLOCK FALSE
