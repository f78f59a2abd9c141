----------------------------- MODULE MCNarrator -----------------------------
(***************************************************************************)
(* Narrator with the advisor enabled or not and zero to three attempts.    *)
(***************************************************************************)
EXTENDS Narrator

SomeConfigs == [enabled : BOOLEAN, max_retries : 0 .. 3]
=============================================================================
