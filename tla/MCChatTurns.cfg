CONSTANTS
  t1 = t1
  t2 = t2
  r1 = r1
  r2 = r2
  Turns = {t1, t2}
  ClientMsg <- SameMsg
  Texts <- TurnTexts
  Actions = {}
  Editors = {}
  Requests = {}
  RequestKey <- DistinctKeys
  Staff = {s1}
  NoStaff = NoStaff
  Mode = "llm_first"
  FlowsPublished = TRUE
  Channels = {"inapp"}
  MayCrash = TRUE
SPECIFICATION FairSpec
INVARIANTS RetryIsAnsweredOnce FailedPipelineLeavesNothing
PROPERTIES KeptMessageIsDealtWith
CHECK_DEADLOCK FALSE
