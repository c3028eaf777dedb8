CONSTANTS
  f1 = f1
  f2 = f2
  v1 = v1
  n0 = n0
  n1 = n1
  n2 = n2
  n3 = n3
  yes = yes
  hello = hello
  school = school
  Flows = {f1, f2}
  Nodes = {n0, n1, n2, n3}
  Buttons = {yes}
  Actions = {school}
  Words = {hello}
  Texts <- Said
  Bodies <- Sent
  Flows0 <- OneLive
  Convs = {v1}
  Cursor0 <- AtQuestion
  Customers = {c1}
  MaxSteps = 3
  MaxCalls = 2
  NoRow = NoRow
  NoGraph = NoGraph
  NoNode = NoNode
  NoCursor = NoCursor
  NoCache = NoCache
  NoFlow = NoFlow
  Other = Other
SPECIFICATION FairSpec
INVARIANTS TypeOK ServedWasPublished CursorWaits TriggersUnique PublishSticks CacheIsFresh
PROPERTIES CacheCatchesUp
CHECK_DEADLOCK FALSE
