--------------------------- MODULE WaterfallLedger ---------------------------
(***************************************************************************)
(* What the insurance fund promises, free of positions, tasks and events:  *)
(* an account that fees flow into and that pays each loss as far as it     *)
(* can, the uncovered rest of a loss being socialised.  README.md:55-57.   *)
(***************************************************************************)
EXTENDS Integers

CONSTANTS Capital, Ceiling   \* the seed, and the largest balance

VARIABLES
  balance,      \* what the fund holds
  fees,         \* all that was paid in
  losses,       \* all shortfalls brought to the fund
  socialised    \* the part of them that it could not cover

ledger == <<balance, fees, losses, socialised>>

LedgerInit == balance = Capital /\ fees = 0 /\ losses = 0 /\ socialised = 0

(* A fee comes in: the balance grows by it, up to the ceiling.             *)
PayIn ==
  /\ fees' \in Int /\ fees' >= fees
  /\ LET sum == balance + (fees' - fees)
     IN  balance' = IF sum > Ceiling THEN Ceiling ELSE sum
  /\ UNCHANGED <<losses, socialised>>

(* A loss comes in: the fund pays first, and only what is left when it is  *)
(* empty is socialised.                                                    *)
Absorb ==
  /\ losses' \in Int /\ losses' >= losses
  /\ LET loss == losses' - losses
         drawn == IF loss <= balance THEN loss ELSE balance
     IN  /\ balance' = balance - drawn
         /\ socialised' = socialised + (loss - drawn)
  /\ UNCHANGED fees

LedgerNext == PayIn \/ Absorb

LedgerSpec == LedgerInit /\ [][LedgerNext]_ledger
=============================================================================
