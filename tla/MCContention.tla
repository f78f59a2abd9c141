---------------------------- MODULE MCContention ----------------------------
(***************************************************************************)
(* The instances of MCRiskEngine, with the history of Contention.          *)
(***************************************************************************)
EXTENDS Contention, MCRiskEngine
=============================================================================
