CONSTANTS
  t1 = t1
  t2 = t2
  r1 = r1
  r2 = r2
  Turns = {t1, t2}
  ClientMsg <- DistinctMsgs
  Texts <- SlotTexts
  Actions = {a1}
  Editors = {e1}
  Requests = {r1, r2}
  RequestKey <- SameKey
  Staff = {}
  NoStaff = NoStaff
  Mode = "script_only"
  FlowsPublished = FALSE
  Channels = {"inapp"}
  MayCrash = TRUE
SPECIFICATION Spec
INVARIANTS NoLostEdit OneRequestPerKey
CHECK_DEADLOCK FALSE
