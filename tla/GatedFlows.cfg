SPECIFICATION FlowsSpec
CONSTANTS
  asker = asker
  ann = ann
  bo = bo
  Requests = {1, 2}
  People = {asker, ann, bo}
  Asker = asker
  Role <- Roles
  Approvers = {ann, bo}
  Permitted = {}
  Anyone = Anyone
  Levels <- Chain
  NoLimit = NoLimit
  Amount <- Amounts
  Asked = {ann, bo}
  Flows <- Versions
  Block <- Inner
  Saves = {"book", "bill"}
  IfApproved = {"bill"}
  None = None
  MaxYes = 2
  MaxEdits = 1
  MaxFaults = 1
  Editable = {"file", "assign", "tell"}
  Blocks = {"tell"}
  PanelRoles = {"staff"}
  Admins = {"ann", "bo"}
  Texts = {"check", "run"}
  Needs <- Needing
  Uses <- Running
  Firsts <- First
  Ticked <- Staffed
  MaxRequests = 3
  MaxCuts = 1
  Ids = {1, 2}
  Residents = {"resident", "handler", "backup", "admin"}
  Covering = {"admin"}
  Routed = "handler"
  Level2 = {"backup"}
  MaxFilings = 2
  MaxPasses = 2
  MaxPlans = 1
  MaxBreaks = 1
INVARIANTS
  Gated OneAnswerDecides EveryStepOnce
  NoEditLost NeedsAreMet KeptInTheLoop NumbersDiffer
CHECK_DEADLOCK FALSE
