CONSTANTS
  bag = bag
  kit = kit
  o1 = o1
  d1 = d1
  Singles = {bag}
  Combos = {kit}
  Parts <- SingleAndCombo
  Orders = {o1}
  MaxRow = 4
  Lines <- HalfWay
  Deliveries = {d1}
  Papers <- OnePaper
  Stock0 <- LittleStock
  Callers = {cron, c1, c2}
  Cron = cron
  Kinds = {"book", "confirm", "revert", "edit", "touch", "deliver", "update", "mail", "export", "drop", "issue", "sync"}
  MaxQty = 1
  MaxCalls = 2
  NoOrder = NoOrder
  NoRow = NoRow
SPECIFICATION FairSpec
INVARIANTS TypeOK BookedWithinOrder StatusAgrees
PROPERTIES ApprovalWithinStock SyncRestores OverdueIsReleased
CHECK_DEADLOCK FALSE
