----------------------------- MODULE AtomicEngine -----------------------------
(***************************************************************************)
(* What the commands of the risk engine promise to a client that has one   *)
(* request at a time in flight: each command of engine.rs takes effect as  *)
(* a whole, in one step.  There are no tasks, snapshots, store calls,      *)
(* events or orders of visiting positions here.                            *)
(*                                                                         *)
(* A sweep visits the positions in an order that is not specified, and the *)
(* fund may take fees before or after it pays losses.  What the command    *)
(* promises is what does not depend on the order: no dollar is created or  *)
(* lost but the fees that do not fit under the ceiling of an amount, and a *)
(* loss is socialised only by a fund that has run empty.                   *)
(***************************************************************************)
EXTENDS MarginMath, FiniteSets, Functions

CONSTANTS Accounts, Symbols, Seed, Params, None

VARIABLES positions, markets, insurance, stats

engine == <<positions, markets, insurance, stats>>

Keys == Accounts \X Symbols
KeysIn(s) == {k \in Keys : k[2] = s /\ positions[k] # None}

AtomicInit ==
  /\ positions = [k \in Keys |-> None]
  /\ markets = [s \in Symbols |-> None]
  /\ insurance = Seed
  /\ stats = [open_positions |-> 0, liquidations |-> 0,
              funding_settlements |-> 0, adl_events |-> 0]

(* The count of open positions after n removals; it never goes below zero. *)
Fewer(n) == IF stats.open_positions > n THEN stats.open_positions - n ELSE 0

(* A free key takes a position that meets its initial margin.              *)
Open(k) ==
  LET pos == positions'[k]
  IN  /\ positions[k] = None
      /\ pos \in Position
      /\ pos.funding_paid = 0
      /\ pos.posted_margin >= InitialMargin(pos, pos.entry_price, Params)
      /\ positions' = [positions EXCEPT ![k] = pos]
      /\ stats' = [stats EXCEPT !.open_positions = @ + 1]
      /\ UNCHANGED <<markets, insurance>>

(* A close without a mark fails after the position has gone.               *)
Close(k) ==
  /\ positions[k] # None
  /\ positions' = [positions EXCEPT ![k] = None]
  /\ stats' = IF markets[k[2]] = None THEN stats
              ELSE [stats EXCEPT !.open_positions = Fewer(1)]
  /\ UNCHANGED <<markets, insurance>>

Update(s) ==
  LET m == markets'[s]
  IN  /\ m \in [mark_price : Price, funding_rate_bps : Int]
      /\ markets' = [markets EXCEPT ![s] = m]
      /\ UNCHANGED <<positions, insurance, stats>>

Accrue(s) ==
  /\ markets[s] # None
  /\ positions' = [k \in Keys |->
       IF k \in KeysIn(s)
       THEN [positions[k] EXCEPT !.funding_paid =
               SatAdd(@, FundingPayment(positions[k], markets[s].mark_price,
                                        markets[s].funding_rate_bps))]
       ELSE positions[k]]
  /\ stats' = [stats EXCEPT !.funding_settlements = @ + Cardinality(KeysIn(s))]
  /\ UNCHANGED <<markets, insurance>>

SmallerOf(a, b) == IF a < b THEN a ELSE b

(* The market is cleared of what breaches maintenance margin.  Fees go to  *)
(* the fund and losses come out of it, but for the socialised part; then   *)
(* the fund has been empty, and holds no more than the fees it took since. *)
(* What the fund holds is certain unless its fees would saturate it.       *)
Sweep(s) ==
  /\ markets[s] # None
  /\ LET mark == markets[s].mark_price
         equity(k) == PositionEquity(positions[k], mark)
         swept == {k \in KeysIn(s) : IsLiquidatable(positions[k], mark, Params)}
         solvent == {k \in swept : equity(k) >= 0}
         fees == SumFunction([k \in solvent |->
                   SmallerOf(LiquidationFee(positions[k], mark, Params), equity(k))])
         losses == SumFunction([k \in swept \ solvent |-> SatNeg(equity(k))])
     IN  /\ positions' = [k \in Keys |-> IF k \in swept THEN None ELSE positions[k]]
         /\ \E socialised \in 0 .. losses :
              /\ insurance' \in SmallerOf(insurance + fees, UsdMax) - (losses - socialised)
                                  .. insurance + fees - (losses - socialised)
              /\ insurance' >= 0
              /\ socialised > 0 => insurance' <= fees
              /\ stats' = [stats EXCEPT
                   !.open_positions = Fewer(Cardinality(swept)),
                   !.liquidations = @ + Cardinality(swept),
                   !.adl_events = IF socialised > 0 THEN @ + 1 ELSE @]
  /\ UNCHANGED markets

AtomicNext ==
  \/ \E k \in Keys : Open(k) \/ Close(k)
  \/ \E s \in Symbols : Update(s) \/ Accrue(s) \/ Sweep(s)

AtomicSpec == AtomicInit /\ [][AtomicNext]_engine
=============================================================================
