CONSTANTS
  fabric = fabric
  bag = bag
  sack = sack
  kit = kit
  mill = mill
  r1 = r1
  r2 = r2
  x1 = x1
  g1 = g1
  poBag = poBag
  poFabric = poFabric
  NoRow = NoRow
  Materials = {fabric}
  Products = {bag, kit}
  Suppliers = {mill}
  Receipts = {r1, r2}
  Exports = {x1}
  Issues = {g1}
  PoItems = {poBag, poFabric}
  Ordered <- TwoItems
  Lines <- DocLines
  SupplierOf <- FromMill
  Parts <- KitParts
  Bom <- BagBom
  Callers = {c1, c2}
  Kinds = {"confirm", "delete", "deliver", "edit", "mail"}
  MaxQty = 1
  MaxCalls = 3
  MayFail = TRUE
SPECIFICATION Spec
INVARIANTS DoneWasMoved
CHECK_DEADLOCK FALSE
