---------------------------- MODULE MCRiskEngine ----------------------------
(***************************************************************************)
(* Small instances of RiskEngine for TLC.  Prices, sizes and margins are   *)
(* those of tests/engine.rs scaled to whole dollars: ten contracts at 100  *)
(* have a notional of 1000, an initial margin of 50 and, at 96, a          *)
(* maintenance margin of 24 and a liquidation fee of 9.                    *)
(***************************************************************************)
EXTENDS RiskEngineClaims, TLC

CONSTANTS a1, a2, m1, m2, t1, t2

StandardParams == [initial_margin_bps |-> 500, maintenance_margin_bps |-> 250,
                   liquidation_fee_bps |-> 100]

Offer(a, s, side, margin) ==
  [key |-> <<a, s>>, side |-> side, size |-> 10 * SCALE, entry_price |-> 100 * SCALE,
   posted_margin |-> margin * SCALE]

Mark(s, price, rate) ==
  [symbol |-> s, mark_price |-> price * SCALE, funding_rate_bps |-> rate]

(* At 96 a long with 60 is underwater and solvent and one with 64 sits     *)
(* exactly on its maintenance margin; at 90 the first is bankrupt by 40    *)
(* and the second by 36.  At 100 and 100 bps a tick moves 10.  The market  *)
(* m2 is never given a mark.                                               *)
EdgeOffers == {Offer(a1, m1, "long", 60), Offer(a2, m1, "long", 64),
               Offer(a2, m1, "short", 60), Offer(a1, m2, "long", 60)}
GapMarks == {Mark(m1, 100, 100), Mark(m1, 96, 0), Mark(m1, 90, -100)}

(* The last rate is one at which the payment saturates, where SCALE = 10   *)
(* and UsdMax = 2 * 10^7.                                                  *)
EdgeMarks == {Mark(m1, 100, 100), Mark(m1, 96, 0), Mark(m1, 90, -3000)}

(* Longs with 64 are safe at 96 until a tick at that mark makes them pay   *)
(* 9: then they are underwater, solvent and due a fee, and a mark of 90    *)
(* leaves them bankrupt.                                                   *)
EdgeLongs == {Offer(a1, m1, "long", 64), Offer(a2, m1, "long", 64)}
FeeMarks == {Mark(m1, 96, 100), Mark(m1, 90, -100)}

TwoLongs == {Offer(a1, m1, "long", 60), Offer(a2, m1, "long", 60)}
OneLong == {Offer(a1, m1, "long", 60)}
TwoMarks == {Mark(m1, 100, 100), Mark(m1, 90, -100)}

(* Accounts and tasks are interchangeable where every account may send the *)
(* same commands.                                                          *)
Interchangeable == Permutations(Accounts) \cup Permutations(Tasks)
=============================================================================
