SPECIFICATION Spec
CONSTANTS
  CreditLimit = 1
  InitialBalances = {2}
  Singles = {"x"}
  Bulk = {"m"}
  Starts = {"r1", "r2"}
  MaxSenders = 2
  Cost = 2
  MaxSmsFaults = 1
  ProductType = "CRM_BYO_PBX"
  Billings = {"b1", "b2"}
  Fee = 2
  MaxPeriod = 2
  TopUps = {"t"}
  Notices = {"n1", "n2"}
  Amount = 3
  Corrections = {"c"}
  Otps = {"o"}
  OtpCost = 1
  MaxTasks = 3
  MaxWalletFaults = 1
INVARIANTS
  SmsIsPaidOnce
  LedgerExplainsBalance
  NothingIsTakenTwice
PROPERTIES
  DeliveredIsFinal
  SmsCampaignEnds
  
CHECK_DEADLOCK FALSE
