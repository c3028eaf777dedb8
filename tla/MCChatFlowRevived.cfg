CONSTANTS
  t1 = t1
  t2 = t2
  r1 = r1
  r2 = r2
  Turns = {t1, t2}
  ClientMsg <- DistinctMsgs
  Texts <- FlowTexts
  Actions = {}
  Editors = {}
  Requests = {}
  RequestKey <- DistinctKeys
  Staff = {}
  NoStaff = NoStaff
  Mode = "script_only"
  FlowsPublished = TRUE
  Channels = {"inapp"}
  MayCrash = FALSE
SPECIFICATION Spec
INVARIANTS SafetyStopsFlow
CHECK_DEADLOCK FALSE
