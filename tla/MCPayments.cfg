CONSTANTS
  k1 = k1
  k2 = k2
  g = g
  h = h
  so = so
  Purchases = {k1, k2, g, h}
  Purchases0 <- Pooled
  Sales = {so}
  Sales0 <- Unpaid
  MaxTx = 4
  Transactions0 <- Begun
  Bills <- OneAndTwo
  Amounts = {1, 2}
  Entries <- Sent
  Updates <- Named
  Outsourced = {k2}
  Callers = {c1, c2}
  Kinds <- AllKinds
  MaxCalls = 3
  NoOrder = NoOrder
  NoTx = NoTx
SYMMETRY Alike
SPECIFICATION Spec
INVARIANTS TypeOK NoMoneyInvented PaidIsAllocated
PROPERTIES SyncIsRight
CHECK_DEADLOCK FALSE
