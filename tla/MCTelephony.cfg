SPECIFICATION Spec
CONSTANTS
  Trunks = {t1}
  Extensions = {n1}
  Shared = "shared"
  Safe <- MCSafe
  Byo = {"w"}
  Stored <- MCStored
  Runs = {r1, r2}
  NewTrunks <- MCNewTrunks
  TrunkEdits <- MCTrunkEdits
  Users = {"u1"}
  MaxChanges = 1
  MaxFaults = 1
  PCalls = {p1, p2}
  Syncs = {s1}
  PageSize = 1
  Credentials = {1, 2, 3}
  Accepted = {1, 3}
  Host <- MCHost
  PTests = {k1, k2}
  MaxLines = 2
  LineOps = {o1, o2}
  r1 = r1
  d1 = d1
  d2 = d2
  Lanes = {1, 2}
  Clients = {"a", "b"}
  Dials = {d1, d2}
  Callee <- MCCallee
  Format = "national"
  MaxLaneWrites = 1
  MaxReadFaults = 1
  WLines = {"l1", "l2"}
  Selections = {s1, s2}
  WSessions = {c1, c2}
  PageCalls = {c1, c2}
  MaxPageFaults = 1
  TestCalls = {c1, c2}
  Simulations = {s1}
  MaxUtterances = 2
  MaxMishaps = 1
INVARIANTS
  EngineRunsTheRows
  
  
  NothingEscapesThePage
  LiveRowHasACause
CHECK_DEADLOCK FALSE
