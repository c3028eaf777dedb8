CONSTANTS
  Rows = {1, 2}
  EmailRows = {2}
  Recipients = {p1, p2}
  Runs = {w1, w2}
  BatchSize = 2
  MaxAttempts = 2
  MaxDeaths = 2
SPECIFICATION Spec
INVARIANTS TypeOK SettledIsTrue
CHECK_DEADLOCK FALSE
