---------------------------- MODULE MCPathCharge ----------------------------
(* PathCharge with few accounts and calls, both symmetric. *)
EXTENDS PathCharge, TLC

Symmetry == Permutations(Accounts) \cup Permutations(Calls)
=============================================================================
