CONSTANTS
  fabric = fabric
  bag = bag
  sack = sack
  kit = kit
  mill = mill
  r1 = r1
  r2 = r2
  x1 = x1
  g1 = g1
  poBag = poBag
  poFabric = poFabric
  NoRow = NoRow
  Materials = {fabric}
  Products = {bag, kit}
  Suppliers = {mill}
  Receipts = {r1, r2}
  Exports = {x1}
  Issues = {g1}
  PoItems = {poBag, poFabric}
  Ordered <- TwoItems
  Lines <- DocLines
  SupplierOf <- FromMill
  Parts <- KitParts
  Bom <- BagBom
  Callers = {c1}
  Kinds = {"adjust", "transfer", "convert", "confirm", "reset"}
  MaxQty = 1
  MaxCalls = 3
  MayFail = FALSE
SPECIFICATION Spec
INVARIANTS TypeOK BooksAgree DocumentMovesOnce OrderFollowsReceipts
CHECK_DEADLOCK FALSE
