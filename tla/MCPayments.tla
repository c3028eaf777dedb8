----------------------------- MODULE MCPayments -----------------------------
(* A small instance of Payments. *)
EXTENDS Payments, TLC

CONSTANTS k1, k2, g, h, so

\* Two orders of one pool, on which 1 was paid: each has half of it, rounded up.
Pooled ==
  (k1 :> [total |-> 1, paid |-> 1, pool |-> g, pooled |-> FALSE])
  @@ (k2 :> [total |-> 1, paid |-> 1, pool |-> g, pooled |-> FALSE])
  @@ (g :> [total |-> 2, paid |-> 1, pool |-> NoOrder, pooled |-> TRUE])
  @@ (h :> NoOrder)

Unpaid == so :> [total |-> 2, status |-> "UNPAID"]

Begun ==
  <<[type |-> "EXPENSE", amount |-> 0, ref |-> NoOrder, sales |-> FALSE, status |-> "COMPLETED",
     shares |-> <<[order |-> g, amount |-> 1]>>],
    [type |-> "INCOME", amount |-> 2, ref |-> so, sales |-> TRUE, status |-> "DRAFT",
     shares |-> <<>>]>>

\* What users enter: income of the order, in full or a draft of part of it, an expense with an
\* allocation and no payment, and an income that has one.
Sent ==
  {[type |-> "INCOME", amount |-> 2, ref |-> so, sales |-> TRUE, status |-> "COMPLETED",
    shares |-> <<>>],
   [type |-> "INCOME", amount |-> 1, ref |-> so, sales |-> FALSE, status |-> "DRAFT",
    shares |-> <<>>],
   [type |-> "EXPENSE", amount |-> 1, ref |-> NoOrder, sales |-> FALSE, status |-> "COMPLETED",
    shares |-> <<[order |-> k1, amount |-> 1]>>]}

\* Corrections of the amount and the status, of the type, and of the allocations.
Named == {{"amount", "status"}, {"type", "ref", "sales"}, {"shares"}}

Alike == Permutations(Callers)

OneAndTwo == {[amount |-> 1, list |-> <<[order |-> k1, amount |-> 1]>>],
              [amount |-> 7, list |-> <<[order |-> g, amount |-> 6], [order |-> k2, amount |-> 1]>>]}
=============================================================================
