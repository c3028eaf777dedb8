CONSTANTS
  t1 = t1
  t2 = t2
  r1 = r1
  r2 = r2
  Turns = {t1}
  ClientMsg <- DistinctMsgs
  Texts <- AllTexts
  Actions = {}
  Editors = {}
  Requests = {r1}
  RequestKey <- DistinctKeys
  Staff = {s1, s2}
  NoStaff = NoStaff
  Mode = "script_first"
  FlowsPublished = TRUE
  Channels = {"inapp", "email"}
  MayCrash = FALSE
SYMMETRY AlikeStaff
SPECIFICATION Spec
INVARIANTS TypeOK HandoffIsBacked
PROPERTIES TakeoverSilencesTurns
CHECK_DEADLOCK FALSE
