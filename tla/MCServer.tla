------------------------------ MODULE MCServer ------------------------------
(***************************************************************************)
(* A small instance of Server for TLC: the long of MCRiskEngine with 60    *)
(* posted has a margin ratio of 600 bps at 100, is six dollars above its    *)
(* maintenance margin at 97 and bankrupt at 90, where its ratio of -444    *)
(* bps is out of the range of the 400 given to I64Max.                     *)
(***************************************************************************)
EXTENDS Server

CONSTANTS a1, m1, t1, r1, q1

StandardParams == [initial_margin_bps |-> 500, maintenance_margin_bps |-> 250,
                   liquidation_fee_bps |-> 100]

OneLong == {[key |-> <<a1, m1>>, side |-> "long", size |-> 10,
             entry_price |-> 100, posted_margin |-> 60]}

Marks == {[symbol |-> m1, mark_price |-> p, funding_rate_bps |-> 100] :
            p \in {90, 97, 100}}
=============================================================================
