CONSTANTS
  Rows = {1, 2, 3}
  EmailRows = {2}
  Recipients = {p1, p2}
  Runs = {w1}
  BatchSize = 1
  MaxAttempts = 2
  MaxDeaths = 2
SPECIFICATION FairSpec
INVARIANTS RepeatsNeedDeaths
PROPERTIES PromiseKept RowSettles
CHECK_DEADLOCK FALSE
