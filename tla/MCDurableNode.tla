---------------------------- MODULE MCDurableNode ----------------------------
(***************************************************************************)
(* A small instance of DurableNode for TLC: two longs that are underwater  *)
(* and solvent at 96, bankrupt at 90, and pay ten at a funding tick at 100.*)
(***************************************************************************)
EXTENDS DurableNode, MCRiskEngine

AnyAccount == Permutations(Accounts)
=============================================================================
