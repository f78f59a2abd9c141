---------------------------- MODULE MCSimulation ----------------------------
(***************************************************************************)
(* A small instance of Simulation for TLC: the commands of MCRiskEngine    *)
(* for the serving node, and scenarios of a few accounts and steps.  With  *)
(* ten micro-units to the dollar a start price of 100 is a mark of 1000.   *)
(***************************************************************************)
EXTENDS Simulation, MCRiskEngine

CONSTANTS a3, a4

FourAccounts == <<a1, a2, a3, a4>>

Scenario(accounts, steps, start, drift, vol, funding, interval) ==
  [accounts |-> accounts, steps |-> steps, start_price |-> start, drift_bps |-> drift,
   vol_bps |-> vol, funding_bps |-> funding, funding_interval |-> interval]

(* A slow fall in which funding decides when a long goes under; a gap that *)
(* bankrupts the longs and exhausts the fund; a fall to the lowest price;  *)
(* a rally, first into the shorts' liquidation, then out of the range of   *)
(* prices; start prices at which the margin is cut to too little, to just  *)
(* enough, or that are no price; nobody, no steps, a funding rate at which *)
(* amounts saturate.                                                       *)
WalkedScenarios ==
  {Scenario(3, 4, 100, -38, 12, 100, 2),
   Scenario(3, 3, 100, -1200, 0, -100, 1),
   Scenario(2, 2, 100, -12000, 10, 0, 0),
   Scenario(4, 2, 150, 500, 15, 10, 2),
   Scenario(2, 3, 150, 1800, 0, 10, 1),
   Scenario(2, 3, 100, 0, -5, 3000, 1),
   Scenario(2, 1, 1, 0, 0, 0, 0), Scenario(2, 1, 3, 0, 0, 0, 0),
   Scenario(2, 1, 2, 0, 0, 0, 0), Scenario(1, 1, 0, 0, 0, 0, 0),
   Scenario(1, 1, 201, 0, 0, 0, 0), Scenario(0, 1, 3, -10, 5, 0, 1),
   Scenario(2, 0, 100, 0, 0, 10, 1)}
=============================================================================
