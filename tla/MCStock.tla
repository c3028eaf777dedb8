------------------------------ MODULE MCStock ------------------------------
(* Small instances of StockLedger: one material, two variants of a product of which    *)
(* one is a combo in some runs, one supplier.                                          *)
EXTENDS StockLedger

CONSTANTS fabric, bag, sack, kit, mill, r1, r2, x1, g1, poBag, poFabric

KitParts == [p \in Products |-> IF p = kit THEN {bag, sack} \cap Products ELSE {}]
BagBom == [p \in Products |-> IF p = bag THEN {fabric} ELSE {}]
FromMill == [d \in Docs |-> mill]

\* The order asks for one bag and sixty pieces of fabric: 58 are within its tolerance, and make
\* 95% of all the pieces without the bag.
TwoItems == [p \in PoItems |-> IF p = poBag THEN 1 ELSE 60]

Line(i, q, p) == [item |-> i, qty |-> q, po |-> p]
DocLines == [d \in Docs |->
  CASE d = r1 -> <<Line(bag, 1, poBag)>>
    [] d = r2 -> <<Line(fabric, 58, poFabric), Line(bag, 1, NoRow)>>
    [] d = x1 -> <<Line(kit, 1, NoRow)>>
    [] OTHER -> <<Line(fabric, 1, NoRow)>>]
=============================================================================
