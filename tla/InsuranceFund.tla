--------------------------- MODULE InsuranceFund ---------------------------
(***************************************************************************)
(* The insurance fund of marginguard-core/src/insurance.rs: a balance that *)
(* the engine's lock guards, so each operation is one atomic function of   *)
(* the balance.                                                            *)
(***************************************************************************)
EXTENDS MarginMath

Credit(balance, amount) == SatAdd(balance, amount)

(* Mutants of Cover: a loss above the balance is socialised whole; the     *)
(* balance is not reset when it is drawn empty.                            *)
CoverAllOrNothing(balance, shortfall) ==
  IF balance >= shortfall
  THEN [balance |-> SatSub(balance, shortfall), drawn |-> shortfall, socialized |-> 0]
  ELSE [balance |-> balance, drawn |-> 0, socialized |-> shortfall]

CoverWithoutReset(balance, shortfall) ==
  IF balance >= shortfall
  THEN [balance |-> SatSub(balance, shortfall), drawn |-> shortfall, socialized |-> 0]
  ELSE [balance |-> balance, drawn |-> balance, socialized |-> shortfall - balance]

(* Draw what the balance allows; the rest of the shortfall is socialised.  *)
Cover(balance, shortfall) ==
  IF balance >= shortfall
  THEN [balance |-> SatSub(balance, shortfall), drawn |-> shortfall, socialized |-> 0]
  ELSE LET drawn == IF balance > 0 THEN balance ELSE 0
       IN  [balance |-> 0, drawn |-> drawn, socialized |-> SatSub(shortfall, drawn)]
============================================================================
