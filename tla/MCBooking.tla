----------------------------- MODULE MCBooking -----------------------------
(* Small instances of Booking: a single product and a combo of it. *)
EXTENDS Booking, TLC

CONSTANTS bag, kit, o1, d1

SingleAndCombo == (bag :> (bag :> 1)) @@ (kit :> (bag :> 2))
Line(o, item, q, b, st, e) ==
  [order |-> o, product |-> item, qty |-> q, booked |-> b, status |-> st, ends |-> e]
\* One piece of the product is booked, which is overdue, and the combo is approved and about to leave.
HalfWay == <<Line(o1, bag, 2, 1, "TEMPORARY", "past"), Line(o1, kit, 1, 1, "CONFIRMED", "never")>>
OnePaper == d1 :> [order |-> o1, product |-> kit, qty |-> 1, status |-> "PENDING_EXPORT"]
LittleStock == (bag :> 3) @@ (kit :> 0)
=============================================================================
