CONSTANTS
  t1 = t1
  t2 = t2
  flash = flash
  lite = lite
  Turns = {t1, t2}
  Models = {flash, lite}
  Standard = {flash}
  Place <- Sorted
  Fallback = flash
  EnvModel = NoModel
  ConfigModel = lite
  Budgets = {1, 2}
  RetryAfters = {2}
  Pause = 1
  ModelAttempts = 2
  DayLength = 2
  MaxTime = 3
  NoModel = NoModel
SYMMETRY Alike
SPECIFICATION Spec
INVARIANTS TypeOK DayIsPaid QuietIsKept RetiredIsLeft
CHECK_DEADLOCK FALSE
