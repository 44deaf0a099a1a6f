SPECIFICATION TenancySpec
CONSTANTS
  u1 = u1
  Admins = {a1}
  Users = {u1, u2}
  Logins = {l1, l2}
  Verifies = {v1, v2}
  TeamOps = {o1}
  MaxSecret = 2
  Keys = {x1}
  KeyOps = {e1, e2}
  Requests = {r1}
  Scopes = {"calls", "agents"}
  Width = 2
  AllowLists <- MCLists
  MaxAgents = 2
  Creations = {n1, n2}
  WCalls = {c1, c2}
  Urls = {"u1"}
  Attempts = 3
  MaxStalls = 1
  MaxUrlChanges = 2
  MaxCrashes = 1
  Endpoints <- MCEndpoints
  Names = {"api"}
  Answers <- MCAnswers
  PRequests = {q1}
  Insecure = FALSE
  MaxSockets = 1
  Subscribers = {"s1"}
  Foreign = {"f1"}
  Imports = {i1}
  Additions = {d1}
  Uploads = {f1, f2}
  MaxImportFaults = 1
  MaxFaults = 1
  Listed = {"c1"}
  Forms <- MCForms
  MaxCampaigns = 2
  MaxFailures = 1
  Members = {m1, m2}
  Screens = {s1}
  Policies <- MCPolicies
  Origins = {"client", "crm"}
  MaxRuns = 2
  MaxTries = 2
  Scripts = {k1}
  ScriptPasses = {p1, p2}
  ScriptRequests = {r1, r2}
  Base = 2
  Fits = 1
  MaxTurn = 2
  MaxVoice = 2
  MaxPromptFaults = 1
INVARIANTS
  GatesHold
  WorkIsAccountedFor
  ConnectionIsPublic
  SecondContactHasACause
  
CHECK_DEADLOCK FALSE
