-------------------------------- MODULE Sums --------------------------------
(***************************************************************************)
(* Sums over finite sets, as the services compute them from rows they have *)
(* loaded or with SUM in a query.  The numbers are given as a function, so *)
(* that two sums of equal numbers are equal whatever the numbers were      *)
(* computed from.  SumsProofs states what the proofs need of them.         *)
(***************************************************************************)
EXTENDS Integers, FiniteSets, FiniteSetsExt

Sum(f, S) == MapThenSumSet(LAMBDA x : f[x], S)
=============================================================================
