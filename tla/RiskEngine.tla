----------------------------- MODULE RiskEngine -----------------------------
(***************************************************************************)
(* The risk engine of marginguard-core/src/engine.rs with its position     *)
(* store and event sink.                                                   *)
(*                                                                         *)
(* RiskEngine is a handle over Arcs: every request of the server applies   *)
(* its command on its own task, with no lock around the whole command.  A  *)
(* step of this module is what one task does in one lock section of the    *)
(* engine state or in one call of the store or of the sink, so the steps   *)
(* of two commands interleave as they do on the runtime's threads.         *)
(*                                                                         *)
(* A request that fails its first test (position exists, margin too low,   *)
(* position or market not found, rate limited) changes nothing and is not  *)
(* a step.  Leverage, margin mode and index price are stored and never     *)
(* read by the engine, and are left out.                                   *)
(***************************************************************************)
EXTENDS InsuranceFund, Sequences, FiniteSets

CONSTANTS
  Accounts, Symbols,   \* who trades what
  Tasks,               \* requests being served at the same time
  OpenCommands,        \* the OpenPosition commands clients send
  MarketUpdates,       \* the UpdateMarket commands clients send
  Seed,                \* initial balance of the insurance fund
  Params,              \* the engine's default risk parameters
  StoreMayFail,        \* whether a store call may fail or lose its answer
  SinkMayFail,         \* whether the event sink may fail
  MaxCommands,         \* bound: commands started in one behaviour
  None

Keys == Accounts \X Symbols
OpenCommand == [key : Keys, side : Side, size : Size, entry_price : Price,
                posted_margin : Usd]
MarketState == [mark_price : Price, funding_rate_bps : Int]
View == [symbol : Symbols, mark_price : Price, funding_rate_bps : Int]
Snapshot == [key : Keys, pos : Position]

ASSUME EngineAssumption ==
  /\ OpenCommands \subseteq OpenCommand
  /\ MarketUpdates \subseteq View
  /\ Seed \in 0 .. UsdMax
  /\ Params \in RiskParams
  /\ StoreMayFail \in BOOLEAN /\ SinkMayFail \in BOOLEAN
  /\ MaxCommands \in Nat
  /\ IsFiniteSet(Tasks)
  /\ None \notin Position \cup MarketState \cup View \cup Snapshot

VARIABLES
  positions,   \* the store: the position of each account in each market
  markets,     \* EngineState.markets
  insurance,   \* EngineState.insurance
  stats,       \* EngineState.stats
  pc,          \* where each task is in its command
  req,         \* what each task holds in local variables
  bus,         \* the events the sink has sent, in order
  submitted,   \* how many commands have been started
  book         \* history: what the waterfall has moved since the start

vars == <<positions, markets, insurance, stats, pc, req, bus, submitted, book>>

(* What a command in progress holds: the market snapshot it read, the      *)
(* position snapshots still to visit, the one in hand, the events so far   *)
(* and the loss its sweep has socialised.                                  *)
Idle == [view |-> None, todo |-> {}, cur |-> None, evs |-> <<>>, social |-> 0]

NoStats == [open_positions |-> 0, liquidations |-> 0,
            funding_settlements |-> 0, adl_events |-> 0]

Init ==
  /\ positions = [k \in Keys |-> None]
  /\ markets = [s \in Symbols |-> None]
  /\ insurance = Seed
  /\ stats = NoStats
  /\ pc = [t \in Tasks |-> "idle"]
  /\ req = [t \in Tasks |-> Idle]
  /\ bus = <<>>
  /\ submitted = 0
  /\ book = [fees |-> 0, shortfalls |-> 0, socialized |-> 0]

----------------------------------------------------------------------------
(* Control.                                                                *)

(* A task takes up a new command.                                          *)
Begin(t) ==
  /\ pc[t] = "idle"
  /\ submitted < MaxCommands
  /\ submitted' = submitted + 1

Goto(t, label) == pc' = [pc EXCEPT ![t] = label]

(* The command has returned Ok: publish its events, if there are any.      *)
Reply(t, events) ==
  /\ Goto(t, IF events = <<>> THEN "idle" ELSE "publish")
  /\ req' = [req EXCEPT ![t] = [Idle EXCEPT !.evs = events]]

(* The command has returned Err: what it held is dropped with it.          *)
Abandon(t) == Goto(t, "idle") /\ req' = [req EXCEPT ![t] = Idle]

(* PositionStore::by_market: copies of the positions now open in s.        *)
ByMarket(s) ==
  {[key |-> k, pos |-> positions[k]] :
     k \in {j \in Keys : j[2] = s /\ positions[j] # None}}

ViewOf(s) == [symbol |-> s, mark_price |-> markets[s].mark_price,
              funding_rate_bps |-> markets[s].funding_rate_bps]

(* stats.open_positions after one more, or one less, saturating.           *)
CountOpened == stats' = [stats EXCEPT !.open_positions = @ + 1]
CountRemoved == IF stats.open_positions > 0 THEN stats.open_positions - 1 ELSE 0

----------------------------------------------------------------------------
(* OpenPosition.                                                           *)

PositionOf(c) == [side |-> c.side, size |-> c.size, entry_price |-> c.entry_price,
                  posted_margin |-> c.posted_margin, funding_paid |-> 0]

OpenGet(t, c) ==
  /\ Begin(t)
  /\ positions[c.key] = None
  /\ c.posted_margin >= InitialMargin(PositionOf(c), c.entry_price, Params)
  /\ req' = [req EXCEPT ![t].cur = [key |-> c.key, pos |-> PositionOf(c)]]
  /\ Goto(t, "open_upsert")
  /\ UNCHANGED <<positions, markets, insurance, stats, bus, book>>

OpenUpsert(t) ==
  /\ pc[t] = "open_upsert"
  /\ positions' = [positions EXCEPT ![req[t].cur.key] = req[t].cur.pos]
  /\ Goto(t, "open_count")
  /\ UNCHANGED <<markets, insurance, stats, req, bus, submitted, book>>

OpenCount(t) ==
  /\ pc[t] = "open_count"
  /\ CountOpened
  /\ Reply(t, <<[type |-> "PositionOpened", key |-> req[t].cur.key,
                 side |-> req[t].cur.pos.side]>>)
  /\ UNCHANGED <<positions, markets, insurance, bus, submitted, book>>

----------------------------------------------------------------------------
(* ClosePosition: the position leaves the store before its market is read. *)

CloseRemove(t, k) ==
  /\ Begin(t)
  /\ positions[k] # None
  /\ positions' = [positions EXCEPT ![k] = None]
  /\ req' = [req EXCEPT ![t].cur = [key |-> k, pos |-> positions[k]]]
  /\ Goto(t, "close_mark")
  /\ UNCHANGED <<markets, insurance, stats, bus, book>>

RealizedPnl(pos, mark) == SatSub(PositionEquity(pos, mark), pos.posted_margin)

CloseMark(t) ==
  /\ pc[t] = "close_mark"
  /\ LET cur == req[t].cur
         m == markets[cur.key[2]]
     IN  IF m = None
         THEN Abandon(t)
         ELSE /\ req' = [req EXCEPT ![t].evs =
                   <<[type |-> "PositionClosed", key |-> cur.key,
                      realized_pnl |-> RealizedPnl(cur.pos, m.mark_price)]>>]
              /\ Goto(t, "close_count")
  /\ UNCHANGED <<positions, markets, insurance, stats, bus, submitted, book>>

CloseCount(t) ==
  /\ pc[t] = "close_count"
  /\ stats' = [stats EXCEPT !.open_positions = CountRemoved]
  /\ Reply(t, req[t].evs)
  /\ UNCHANGED <<positions, markets, insurance, bus, submitted, book>>

----------------------------------------------------------------------------
(* UpdateMarket: one lock section.                                         *)

UpdateMarket(t, u) ==
  /\ Begin(t)
  /\ markets' = [markets EXCEPT ![u.symbol] =
       [mark_price |-> u.mark_price, funding_rate_bps |-> u.funding_rate_bps]]
  /\ Reply(t, <<[type |-> "MarketUpdated", symbol |-> u.symbol,
                 mark_price |-> u.mark_price,
                 funding_rate_bps |-> u.funding_rate_bps]>>)
  /\ UNCHANGED <<positions, insurance, stats, bus, book>>

----------------------------------------------------------------------------
(* AccrueFunding: snapshot the market, snapshot the positions, write each  *)
(* updated copy back, then count.                                          *)

FundMarket(t, s) ==
  /\ Begin(t)
  /\ markets[s] # None
  /\ req' = [req EXCEPT ![t].view = ViewOf(s)]
  /\ Goto(t, "fund_scan")
  /\ UNCHANGED <<positions, markets, insurance, stats, bus, book>>

FundScan(t) ==
  /\ pc[t] = "fund_scan"
  /\ LET found == ByMarket(req[t].view.symbol)
     IN  IF found = {}
         THEN Reply(t, <<>>)
         ELSE /\ req' = [req EXCEPT ![t].todo = found]
              /\ Goto(t, "fund_upsert")
  /\ UNCHANGED <<positions, markets, insurance, stats, bus, submitted, book>>

(* Mutant of Settled: the payment replaces what was paid before.           *)
SettledOverwrites(pos, payment) == [pos EXCEPT !.funding_paid = payment]

(* The copy of the snapshot with one more settlement on it.                *)
Settled(pos, payment) == [pos EXCEPT !.funding_paid = SatAdd(@, payment)]

(* Mutant of FundUpsert: the tick ends after the first position.           *)
FundUpsertFirstOnly(t) ==
  /\ pc[t] = "fund_upsert"
  /\ \E e \in req[t].todo :
       LET payment == FundingPayment(e.pos, req[t].view.mark_price,
                                     req[t].view.funding_rate_bps)
       IN  /\ positions' = [positions EXCEPT ![e.key] = Settled(e.pos, payment)]
           /\ req' = [req EXCEPT ![t].todo = @ \ {e},
                ![t].evs = Append(@, [type |-> "FundingSettled", key |-> e.key,
                                      amount |-> payment])]
           /\ Goto(t, "fund_count")
  /\ UNCHANGED <<markets, insurance, stats, bus, submitted, book>>

FundUpsert(t) ==
  /\ pc[t] = "fund_upsert"
  /\ \E e \in req[t].todo :
       LET payment == FundingPayment(e.pos, req[t].view.mark_price,
                                     req[t].view.funding_rate_bps)
           rest == req[t].todo \ {e}
       IN  /\ positions' = [positions EXCEPT ![e.key] = Settled(e.pos, payment)]
           /\ req' = [req EXCEPT ![t].todo = rest,
                ![t].evs = Append(@, [type |-> "FundingSettled", key |-> e.key,
                                      amount |-> payment])]
           /\ Goto(t, IF rest = {} THEN "fund_count" ELSE "fund_upsert")
  /\ UNCHANGED <<markets, insurance, stats, bus, submitted, book>>

(* Mutant of FundCount: a tick is counted once, not once per position.     *)
FundCountOncePerTick(t) ==
  /\ pc[t] = "fund_count"
  /\ stats' = [stats EXCEPT !.funding_settlements = @ + 1]
  /\ Reply(t, req[t].evs)
  /\ UNCHANGED <<positions, markets, insurance, bus, submitted, book>>

FundCount(t) ==
  /\ pc[t] = "fund_count"
  /\ stats' = [stats EXCEPT !.funding_settlements = @ + Len(req[t].evs)]
  /\ Reply(t, req[t].evs)
  /\ UNCHANGED <<positions, markets, insurance, bus, submitted, book>>

----------------------------------------------------------------------------
(* LiquidateMarket: the waterfall.  Every test and amount is computed from *)
(* the snapshots; the position that remove() takes out is not looked at.   *)

LiqMarket(t, s) ==
  /\ Begin(t)
  /\ markets[s] # None
  /\ req' = [req EXCEPT ![t].view = ViewOf(s)]
  /\ Goto(t, "liq_scan")
  /\ UNCHANGED <<positions, markets, insurance, stats, bus, book>>

(* Mutants of Underwater: only the bankrupt are swept; a position exactly  *)
(* on its maintenance margin is swept.                                     *)
UnderwaterBankruptOnly(snapshots, mark) ==
  {e \in snapshots : PositionEquity(e.pos, mark) < 0}

UnderwaterAtMargin(snapshots, mark) ==
  {e \in snapshots :
     PositionEquity(e.pos, mark) <= MaintenanceMargin(e.pos, mark, Params)}

Underwater(snapshots, mark) == {e \in snapshots : IsLiquidatable(e.pos, mark, Params)}

(* Mutant of LiqScan: a sweep that finds nothing keeps waiting.            *)
LiqScanWaits(t) ==
  /\ pc[t] = "liq_scan"
  /\ LET found == Underwater(ByMarket(req[t].view.symbol), req[t].view.mark_price)
     IN  IF found = {}
         THEN UNCHANGED <<pc, req>>
         ELSE /\ req' = [req EXCEPT ![t].todo = found]
              /\ Goto(t, "liq_remove")
  /\ UNCHANGED <<positions, markets, insurance, stats, bus, submitted, book>>

(* Mutant of LiqScan: the sweep tests at the mark now in force and settles *)
(* at the one it read.                                                     *)
LiqScanLatestMark(t) ==
  /\ pc[t] = "liq_scan"
  /\ LET s == req[t].view.symbol
         found == Underwater(ByMarket(s), markets[s].mark_price)
     IN  IF found = {}
         THEN Reply(t, <<>>)
         ELSE /\ req' = [req EXCEPT ![t].todo = found]
              /\ Goto(t, "liq_remove")
  /\ UNCHANGED <<positions, markets, insurance, stats, bus, submitted, book>>

LiqScan(t) ==
  /\ pc[t] = "liq_scan"
  /\ LET found == Underwater(ByMarket(req[t].view.symbol), req[t].view.mark_price)
     IN  IF found = {}
         THEN Reply(t, <<>>)
         ELSE /\ req' = [req EXCEPT ![t].todo = found]
              /\ Goto(t, "liq_remove")
  /\ UNCHANGED <<positions, markets, insurance, stats, bus, submitted, book>>

(* Mutants of LiqRemove: the row stays; the rows of the whole sweep go.    *)
LiqRemoveNothing(t) ==
  /\ pc[t] = "liq_remove"
  /\ \E e \in req[t].todo : req' = [req EXCEPT ![t].todo = @ \ {e}, ![t].cur = e]
  /\ Goto(t, "liq_settle")
  /\ UNCHANGED <<positions, markets, insurance, stats, bus, submitted, book>>

LiqRemoveBatch(t) ==
  /\ pc[t] = "liq_remove"
  /\ \E e \in req[t].todo :
       /\ positions' = [k \in Keys |->
            IF \E d \in req[t].todo : d.key = k THEN None ELSE positions[k]]
       /\ req' = [req EXCEPT ![t].todo = @ \ {e}, ![t].cur = e]
  /\ Goto(t, "liq_settle")
  /\ UNCHANGED <<markets, insurance, stats, bus, submitted, book>>

LiqRemove(t) ==
  /\ pc[t] = "liq_remove"
  /\ \E e \in req[t].todo :
       /\ positions' = [positions EXCEPT ![e.key] = None]
       /\ req' = [req EXCEPT ![t].todo = @ \ {e}, ![t].cur = e]
  /\ Goto(t, "liq_settle")
  /\ UNCHANGED <<markets, insurance, stats, bus, submitted, book>>

Liquidated(k, reason, draw, loss) ==
  [type |-> "Liquidated", key |-> k, reason |-> reason,
   insurance_draw |-> draw, socialized_loss |-> loss]

(* Mutant of SettleBankrupt: the sweep's total keeps only the last loss.   *)
SettleBankruptLastLoss(t, equity) ==
  LET shortfall == SatNeg(equity)
      c == Cover(insurance, shortfall)
  IN  /\ insurance' = c.balance
      /\ book' = [book EXCEPT !.shortfalls = @ + shortfall,
                              !.socialized = @ + c.socialized]
      /\ req' = [req EXCEPT ![t].social = c.socialized,
           ![t].evs = Append(@, Liquidated(req[t].cur.key, "Bankruptcy",
                                           c.drawn, c.socialized))]

(* Equity is negative: the fund covers the shortfall, the rest is          *)
(* socialised.                                                             *)
SettleBankrupt(t, equity) ==
  LET shortfall == SatNeg(equity)
      c == Cover(insurance, shortfall)
  IN  /\ insurance' = c.balance
      /\ book' = [book EXCEPT !.shortfalls = @ + shortfall,
                              !.socialized = @ + c.socialized]
      /\ req' = [req EXCEPT ![t].social = SatAdd(@, c.socialized),
           ![t].evs = Append(@, Liquidated(req[t].cur.key, "Bankruptcy",
                                           c.drawn, c.socialized))]

(* Mutant of SettleSolvent: the whole fee is credited.                     *)
SettleSolventUncapped(t, equity) ==
  LET fee == LiquidationFee(req[t].cur.pos, req[t].view.mark_price, Params)
  IN  /\ insurance' = Credit(insurance, fee)
      /\ book' = [book EXCEPT !.fees = @ + fee]
      /\ req' = [req EXCEPT ![t].evs =
           Append(@, Liquidated(req[t].cur.key, "MaintenanceBreach", 0, 0))]

(* The fee, capped at the equity that is left, funds the pool.             *)
SettleSolvent(t, equity) ==
  LET fee == LiquidationFee(req[t].cur.pos, req[t].view.mark_price, Params)
      credited == IF fee < equity THEN fee ELSE equity
  IN  /\ insurance' = Credit(insurance, credited)
      /\ book' = [book EXCEPT !.fees = @ + credited]
      /\ req' = [req EXCEPT ![t].evs =
           Append(@, Liquidated(req[t].cur.key, "MaintenanceBreach", 0, 0))]

LiqSettle(t) ==
  /\ pc[t] = "liq_settle"
  /\ LET equity == PositionEquity(req[t].cur.pos, req[t].view.mark_price)
     IN  IF equity < 0 THEN SettleBankrupt(t, equity) ELSE SettleSolvent(t, equity)
  /\ Goto(t, "liq_count")
  /\ UNCHANGED <<positions, markets, stats, bus, submitted>>

(* Mutant of LiqCount: the loop does not test for its end.                 *)
LiqCountNoEnd(t) ==
  /\ pc[t] = "liq_count"
  /\ stats' = [stats EXCEPT !.open_positions = CountRemoved, !.liquidations = @ + 1]
  /\ Goto(t, "liq_remove")
  /\ UNCHANGED <<positions, markets, insurance, req, bus, submitted, book>>

LiqCount(t) ==
  /\ pc[t] = "liq_count"
  /\ stats' = [stats EXCEPT !.open_positions = CountRemoved, !.liquidations = @ + 1]
  /\ Goto(t, IF req[t].todo = {} THEN "liq_finish" ELSE "liq_remove")
  /\ UNCHANGED <<positions, markets, insurance, req, bus, submitted, book>>

LiqFinish(t) ==
  /\ pc[t] = "liq_finish"
  /\ IF req[t].social # 0
     THEN /\ stats' = [stats EXCEPT !.adl_events = @ + 1]
          /\ Reply(t, Append(req[t].evs,
                 [type |-> "AutoDeleveraged", symbol |-> req[t].view.symbol,
                  socialized_loss |-> req[t].social]))
     ELSE stats' = stats /\ Reply(t, req[t].evs)
  /\ UNCHANGED <<positions, markets, insurance, bus, submitted, book>>

----------------------------------------------------------------------------
(* EventSink::publish: the broadcast sink sends the events one by one.     *)

(* Mutant of Publish: every event is sent twice.                           *)
PublishTwice(t) ==
  /\ pc[t] = "publish"
  /\ bus' = bus \o <<Head(req[t].evs), Head(req[t].evs)>>
  /\ IF Len(req[t].evs) = 1
     THEN Abandon(t)
     ELSE req' = [req EXCEPT ![t].evs = Tail(@)] /\ UNCHANGED pc
  /\ UNCHANGED <<positions, markets, insurance, stats, submitted, book>>

Publish(t) ==
  /\ pc[t] = "publish"
  /\ bus' = Append(bus, Head(req[t].evs))
  /\ IF Len(req[t].evs) = 1
     THEN Abandon(t)
     ELSE req' = [req EXCEPT ![t].evs = Tail(@)] /\ UNCHANGED pc
  /\ UNCHANGED <<positions, markets, insurance, stats, submitted, book>>

----------------------------------------------------------------------------
(* Port failures: `?` returns the error and drops what the command held.   *)

(* At the first group of labels the failing call changed nothing; at the   *)
(* second the store has applied it and only the answer is lost, as when a  *)
(* connection breaks or the request is cancelled while it waits.           *)
AtStoreCall ==
  {"open_upsert", "fund_scan", "fund_upsert", "liq_scan", "liq_remove"} \cup
  {"open_count", "close_mark", "fund_count", "liq_settle"}

(* Mutant of StoreFails: the events gathered so far are published.         *)
StoreFailsPublishing(t) ==
  /\ StoreMayFail
  /\ pc[t] \in AtStoreCall
  /\ Reply(t, req[t].evs)
  /\ UNCHANGED <<positions, markets, insurance, stats, bus, submitted, book>>

StoreFails(t) ==
  /\ StoreMayFail
  /\ pc[t] \in AtStoreCall
  /\ Abandon(t)
  /\ UNCHANGED <<positions, markets, insurance, stats, bus, submitted, book>>

SinkFails(t) ==
  /\ SinkMayFail
  /\ pc[t] = "publish"
  /\ Abandon(t)
  /\ UNCHANGED <<positions, markets, insurance, stats, bus, submitted, book>>

----------------------------------------------------------------------------

Quiescent == \A t \in Tasks : pc[t] = "idle"

(* The bounded number of commands has been served.                         *)
Done == Quiescent /\ submitted = MaxCommands /\ UNCHANGED vars

(* A client's request: one of the five mutations.                          *)
Start(t) ==
  \/ \E c \in OpenCommands : OpenGet(t, c)
  \/ \E k \in Keys : CloseRemove(t, k)
  \/ \E u \in MarketUpdates : UpdateMarket(t, u)
  \/ \E s \in Symbols : FundMarket(t, s) \/ LiqMarket(t, s)

(* The steps of a command in progress.                                     *)
Continue(t) ==
  \/ OpenUpsert(t) \/ OpenCount(t)
  \/ CloseMark(t) \/ CloseCount(t)
  \/ FundScan(t) \/ FundUpsert(t) \/ FundCount(t)
  \/ LiqScan(t) \/ LiqRemove(t) \/ LiqSettle(t) \/ LiqCount(t) \/ LiqFinish(t)
  \/ Publish(t)

Next ==
  \/ \E t \in Tasks : Start(t) \/ Continue(t) \/ StoreFails(t) \/ SinkFails(t)
  \/ Done

Spec == Init /\ [][Next]_vars

(* The runtime keeps polling every request it has accepted.                *)
FairSpec == Spec /\ \A t \in Tasks : WF_vars(Continue(t))
=============================================================================
