----------------------------- MODULE MCLlmGate -----------------------------
(* A small instance of LlmGate. *)
EXTENDS LlmGate, TLC

CONSTANTS t1, t2, flash, lite

Sorted == lite :> 1 @@ flash :> 2
Alike == Permutations(Turns)
=============================================================================
