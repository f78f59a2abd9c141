--------------------------- MODULE RiskEngineProps ---------------------------
(***************************************************************************)
(* What the risk engine promises, stated over the state of RiskEngine and  *)
(* over the event stream it publishes.                                     *)
(***************************************************************************)
EXTENDS RiskEngine, SequencesExt

Due == 0 .. UsdMax

Event ==
  [type : {"PositionOpened"}, key : Keys, side : Side] \cup
  [type : {"PositionClosed"}, key : Keys, realized_pnl : Usd] \cup
  [type : {"MarketUpdated"}, symbol : Symbols, mark_price : Price,
   funding_rate_bps : Int] \cup
  [type : {"FundingSettled"}, key : Keys, amount : Usd] \cup
  [type : {"Liquidated"}, key : Keys, reason : {"Bankruptcy", "MaintenanceBreach"},
   insurance_draw : Due, socialized_loss : Due] \cup
  [type : {"AutoDeleveraged"}, symbol : Symbols, socialized_loss : Due]

Labels ==
  {"idle", "open_upsert", "open_count", "close_mark", "close_count",
   "fund_scan", "fund_upsert", "fund_count", "liq_scan", "liq_remove",
   "liq_settle", "liq_count", "liq_finish", "publish"}

HoldsView == {"fund_scan", "fund_upsert", "fund_count", "liq_scan", "liq_remove",
              "liq_settle", "liq_count", "liq_finish"}
HoldsPosition == {"open_upsert", "open_count", "close_mark", "close_count",
                  "liq_settle", "liq_count", "liq_finish"}

Request == [view : View \cup {None}, todo : SUBSET Snapshot,
            cur : Snapshot \cup {None}, evs : Seq(Event), social : Due]

(* A command in progress holds what its next step reads.                   *)
HoldsWhatItReads(t) ==
  /\ pc[t] \in HoldsView => req[t].view # None
  /\ pc[t] \in HoldsPosition => req[t].cur # None
  /\ pc[t] \in {"close_count", "publish"} => req[t].evs # <<>>
  /\ pc[t] \in {"fund_upsert", "liq_remove"} => req[t].todo # {}

(* The engine's shared state.                                              *)
StateOK ==
  /\ positions \in [Keys -> Position \cup {None}]
  /\ markets \in [Symbols -> MarketState \cup {None}]
  /\ insurance \in Usd
  /\ stats \in [open_positions : Nat, liquidations : Nat,
                funding_settlements : Nat, adl_events : Nat]
  /\ bus \in Seq(Event)
  /\ submitted \in Nat
  /\ book \in [fees : Nat, shortfalls : Nat, socialized : Nat]

(* The tasks' own state.                                                   *)
LocalsOK ==
  /\ pc \in [Tasks -> Labels]
  /\ req \in [Tasks -> Request]
  /\ \A t \in Tasks : HoldsWhatItReads(t)

(* The type invariant: every variable has its type, and no step of a       *)
(* command reads a snapshot, a position or an event that it does not hold. *)
TypeOK == StateOK /\ LocalsOK

----------------------------------------------------------------------------
(* The insurance fund (README.md:55-57: bankruptcy losses draw the fund    *)
(* first and only then are socialised, "never silently insolvent").        *)

(* The fund is never overdrawn, no more is socialised than was lost, and   *)
(* unless the balance has saturated the fund holds its seed plus the fees  *)
(* it took less the losses it paid: no interleaving of sweeps creates or   *)
(* loses money between the waterfall and the fund.                         *)
WaterfallConserves ==
  /\ insurance >= 0
  /\ 0 <= book.socialized /\ book.socialized <= book.shortfalls
  /\ Seed + book.fees <= UsdMax =>
       insurance = Seed + book.fees - (book.shortfalls - book.socialized)

(* Every step of the engine is a step of the abstract fund or leaves it    *)
(* alone: nothing but a sweep touches the balance, fees only flow in, and  *)
(* a loss is socialised only when the fund has been drained for it.        *)
Ledger == INSTANCE WaterfallLedger WITH
            Capital <- Seed, Ceiling <- UsdMax, balance <- insurance,
            fees <- book.fees, losses <- book.shortfalls,
            socialised <- book.socialized
ImplementsLedger == Ledger!LedgerSpec

(* What one event adds to a figure that a reader of the stream keeps: how  *)
(* many events of a type there were, what the Liquidated events say was    *)
(* drawn and socialised, what the AutoDeleveraged events announce and what *)
(* the FundingSettled events settle.                                       *)
Amount(figure, e) ==
  CASE figure = e.type -> 1
    [] figure = "drawn" /\ e.type = "Liquidated" -> e.insurance_draw
    [] figure = "socialized" /\ e.type = "Liquidated" -> e.socialized_loss
    [] figure = "announced" /\ e.type = "AutoDeleveraged" -> e.socialized_loss
    [] figure = "settled" /\ e.type = "FundingSettled" -> e.amount
    [] OTHER -> 0

Total(events, figure) == SumFunction([i \in DOMAIN events |-> Amount(figure, events[i])])

(* Once no command is in progress and no port has failed, the event stream *)
(* accounts for every loss of the waterfall: the draws and socialised      *)
(* losses of the Liquidated events are those of the fund, and the          *)
(* AutoDeleveraged events announce every socialised dollar once, unless    *)
(* the sum that a sweep keeps of them has saturated                        *)
(* (README.md:191-192, "explicitly event-sourced so it is auditable").     *)
WaterfallAudited ==
  Quiescent =>
    /\ Total(bus, "drawn") = book.shortfalls - book.socialized
    /\ Total(bus, "socialized") = book.socialized
    /\ book.socialized <= UsdMax => Total(bus, "announced") = book.socialized

(* Once no command is in progress the monotone counters of RiskStats agree *)
(* with the stream, however the commands were interleaved.                 *)
CountersMatchEvents ==
  Quiescent =>
    /\ stats.liquidations = Total(bus, "Liquidated")
    /\ stats.funding_settlements = Total(bus, "FundingSettled")
    /\ stats.adl_events = Total(bus, "AutoDeleveraged")

(* At any moment, and whatever port has failed, a reader of the stream has *)
(* seen no settlement, liquidation, draw or loss that the engine has not   *)
(* already made.                                                           *)
EventsNeverAhead ==
  /\ Total(bus, "Liquidated") <= stats.liquidations
  /\ Total(bus, "FundingSettled") <= stats.funding_settlements
  /\ Total(bus, "AutoDeleveraged") <= stats.adl_events
  /\ Total(bus, "drawn") <= book.shortfalls - book.socialized
  /\ Total(bus, "announced") <= book.socialized

----------------------------------------------------------------------------
(* The event stream as the record of the book.                             *)

(* What a consumer of the stream rebuilds: for each key the side and the   *)
(* funding paid since its position was opened, added up as the engine adds *)
(* its amounts, and the last market update.                                *)
Standing == [side : Side, funding : Usd]

ASSUME ReplayAssumption == None \notin Standing

Nothing == [book |-> [k \in Keys |-> None], markets |-> [s \in Symbols |-> None]]

ReplayEvent(r, e) ==
  CASE e.type = "PositionOpened" ->
         [r EXCEPT !.book[e.key] = [side |-> e.side, funding |-> 0]]
    [] e.type \in {"PositionClosed", "Liquidated"} -> [r EXCEPT !.book[e.key] = None]
    [] e.type = "FundingSettled" /\ r.book[e.key] # None ->
         [r EXCEPT !.book[e.key].funding = SatAdd(@, e.amount)]
    [] e.type = "MarketUpdated" ->
         [r EXCEPT !.markets[e.symbol] = [mark_price |-> e.mark_price,
                                          funding_rate_bps |-> e.funding_rate_bps]]
    [] OTHER -> r

Replay == FoldLeft(ReplayEvent, Nothing, bus)

(* A client that has one request at a time in flight can rebuild the       *)
(* engine from its events: between commands every stored position is one   *)
(* the stream shows open, with the same side and the funding the stream    *)
(* has settled on it, the markets are those last announced, and            *)
(* open_positions is what the stream has opened less what it has removed.  *)
ReplayRebuildsEngine ==
  Quiescent =>
    LET r == Replay IN
    /\ \A k \in Keys : positions[k] # None =>
         /\ r.book[k] # None
         /\ r.book[k].side = positions[k].side
         /\ r.book[k].funding = positions[k].funding_paid
    /\ r.markets = markets
    /\ stats.open_positions = Total(bus, "PositionOpened")
         - Total(bus, "PositionClosed") - Total(bus, "Liquidated")

Announces(e, s) == e.type = "MarketUpdated" /\ e.symbol = s

InForce(e, s) ==
  markets[s] = [mark_price |-> e.mark_price, funding_rate_bps |-> e.funding_rate_bps]

Announcing(t, s) == req[t].evs # <<>> /\ Announces(Head(req[t].evs), s)

AnnouncedAfter(i, s) == {j \in DOMAIN bus : j > i /\ Announces(bus[j], s)}

(* Events are published after the lock is released, so two updates of a    *)
(* market may be announced in the order opposite to that in which they     *)
(* took effect, and the last mark announced need not be the one in force.  *)
(* How far a reader of the stream may be misled: unless it has still to be *)
(* announced, the mark in force is among the last announcements of its     *)
(* market, as many as there are requests served at the same time.          *)
MarkInForceAnnounced ==
  \A s \in Symbols : markets[s] # None =>
    \/ \E t \in Tasks : Announcing(t, s) /\ InForce(Head(req[t].evs), s)
    \/ \E i \in DOMAIN bus :
         /\ Announces(bus[i], s) /\ InForce(bus[i], s)
         /\ Cardinality(AnnouncedAfter(i, s)) < Cardinality(Tasks)

----------------------------------------------------------------------------
(* Sweeps and funding, one command at a time.                              *)

UnderwaterNow(k) ==
  /\ positions[k] # None /\ markets[k[2]] # None
  /\ IsLiquidatable(positions[k], markets[k[2]].mark_price, Params)

(* The step with which task t ends its sweep of market s.                  *)
SweepEnds(t, s) ==
  /\ pc[t] \in {"liq_scan", "liq_finish"}
  /\ pc'[t] \in {"idle", "publish"}
  /\ req[t].view.symbol = s

(* When a sweep returns, no position of the market breaches maintenance    *)
(* margin at the prevailing mark (tests/engine.rs:427-428).                *)
SweepClearsMarket ==
  [][\A t \in Tasks, k \in Keys : SweepEnds(t, k[2]) => ~UnderwaterNow(k)]_vars

(* A sweep takes out only positions that breach maintenance margin at the  *)
(* prevailing mark (tests/engine.rs:330, healthy_position_is_not_          *)
(* liquidated).                                                            *)
SweepSparesHealthy ==
  [][\A t \in Tasks, k \in Keys :
       (pc[t] = "liq_remove" /\ pc'[t] # "liq_remove"
          /\ positions[k] # None /\ positions'[k] = None) => UnderwaterNow(k)]_vars

SizeOf(k) ==
  IF positions[k] = None THEN 0
  ELSE IF positions[k].side = "long" THEN positions[k].size ELSE -positions[k].size

KeysOf(s) == {k \in Keys : k[2] = s}

(* The book of a market is matched: every long of it has a short of the    *)
(* same size.                                                              *)
Matched(s) ==
  \A n \in {positions[k].size : k \in {j \in KeysOf(s) : positions[j] # None}} :
    Cardinality({k \in KeysOf(s) : SizeOf(k) = n})
      = Cardinality({k \in KeysOf(s) : SizeOf(k) = -n})

FundingTick(t) == Total(req[t].evs, "settled")

(* A funding tick over a matched book nets to zero (tests/engine.rs:458).  *)
FundingZeroSum ==
  [][\A t \in Tasks :
       (pc[t] = "fund_count" /\ pc'[t] = "publish" /\ Matched(req[t].view.symbol))
         => FundingTick(t) = 0]_vars

----------------------------------------------------------------------------
(* The liquidation price.                                                  *)

(* How far past the computed edge the rounding of margins may reach, for   *)
(* maintenance rates up to one half.                                       *)
EdgeSlack(pos) == 1 + (6 * SCALE) \div pos.size

(* The liquidation price of every stored position, whatever funding it has *)
(* paid or received, is the edge of the test the sweep makes: on the safe  *)
(* side of it a sweep spares the position, past it (by no more than the    *)
(* rounding) a sweep takes it out (tests/engine.rs:167-173).  The formula  *)
(* and the test are written independently, in fractions and in truncated   *)
(* amounts.  Where posted margin less funding is no amount the formula     *)
(* wraps around, and nothing is said.                                      *)
LiquidationPriceIsEdge ==
  \A k \in Keys : positions[k] # None =>
    LET pos == positions[k]
        edge == LiquidationPrice(pos, Params)
        safe == IF pos.side = "long" THEN edge + 1 ELSE edge
        past == IF pos.side = "long" THEN edge - EdgeSlack(pos)
                                     ELSE edge + 1 + EdgeSlack(pos)
    IN  edge # NoPrice /\ pos.posted_margin - pos.funding_paid \in Usd =>
          /\ safe \in Price => ~IsLiquidatable(pos, safe, Params)
          /\ past \in Price => IsLiquidatable(pos, past, Params)

----------------------------------------------------------------------------
(* Liveness.                                                               *)

(* Every command that has been started returns to its caller: no sweep or  *)
(* accrual loops over its snapshot for ever, and no task waits on another. *)
CommandReturns == \A t \in Tasks : pc[t] # "idle" ~> pc[t] = "idle"
=============================================================================
