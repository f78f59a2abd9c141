-------------------------- MODULE RiskEngineProofs --------------------------
(***************************************************************************)
(* Theorems of the risk engine, for any accounts, markets, tasks, commands *)
(* and risk parameters, with or without failing ports.                     *)
(***************************************************************************)
EXTENDS Contention, MarginMathProofs

(* The engine serving any command of its API, which is how the theorems    *)
(* are proved: a simulator sends other commands than the clients of a      *)
(* server do.                                                              *)
AnyStart(t) ==
  \/ \E c \in OpenCommand : OpenGet(t, c)
  \/ \E k \in Keys : CloseRemove(t, k)
  \/ \E u \in View : UpdateMarket(t, u)
  \/ \E s \in Symbols : FundMarket(t, s) \/ LiqMarket(t, s)

AnyNext ==
  \/ \E t \in Tasks : AnyStart(t) \/ Continue(t) \/ StoreFails(t) \/ SinkFails(t)
  \/ Done

AnySpec == Init /\ [][AnyNext]_vars

LEMMA StartIsAny == ASSUME NEW t \in Tasks, Start(t) PROVE AnyStart(t)
BY EngineAssumption DEF Start, AnyStart

LEMMA NextIsAny == [Next]_vars => [AnyNext]_vars
BY StartIsAny DEF Next, AnyNext

LEMMA SpecIsAny == Spec => AnySpec
BY NextIsAny, PTL DEF Spec, AnySpec

LEMMA IdleType == Idle \in Request
BY MathAssumption DEF Idle, Request, Due

(* A task's locals after it has replied, abandoned or moved on are typed.  *)
LEMMA EventTypes ==
  /\ \A k \in Keys, s \in Side :
       [type |-> "PositionOpened", key |-> k, side |-> s] \in Event
  /\ \A k \in Keys, a \in Usd :
       [type |-> "PositionClosed", key |-> k, realized_pnl |-> a] \in Event
  /\ \A s \in Symbols, p \in Price, r \in Int :
       [type |-> "MarketUpdated", symbol |-> s, mark_price |-> p,
        funding_rate_bps |-> r] \in Event
  /\ \A k \in Keys, a \in Usd :
       [type |-> "FundingSettled", key |-> k, amount |-> a] \in Event
  /\ \A k \in Keys, r \in {"Bankruptcy", "MaintenanceBreach"}, a, b \in Due :
       Liquidated(k, r, a, b) \in Event
  /\ \A s \in Symbols, a \in Due :
       [type |-> "AutoDeleveraged", symbol |-> s, socialized_loss |-> a] \in Event
BY DEF Event, Liquidated

LEMMA InitType == Init => TypeOK
<1> SUFFICES ASSUME Init PROVE TypeOK
  OBVIOUS
<1>1. insurance \in Usd
  BY MathAssumption, EngineAssumption DEF Init, Usd, UsdMin
<1>2. \A t \in Tasks : HoldsWhatItReads(t)
  BY DEF Init, HoldsWhatItReads, HoldsView, HoldsPosition
<1> QED
  BY <1>1, <1>2, IdleType DEF Init, TypeOK, StateOK, LocalsOK, NoStats, Labels

(* A task that holds r at label l, and no other task, has moved.           *)
Moved(t, r, l) == req' = [req EXCEPT ![t] = r] /\ pc' = [pc EXCEPT ![t] = l]

(* One task moves to a label with what that label reads: locals stay typed.*)
LEMMA MovedType ==
  ASSUME LocalsOK, NEW t \in Tasks, NEW r \in Request, NEW l \in Labels, Moved(t, r, l),
         l \in HoldsView => r.view # None,
         l \in HoldsPosition => r.cur # None,
         l \in {"close_count", "publish"} => r.evs # <<>>,
         l \in {"fund_upsert", "liq_remove"} => r.todo # {}
  PROVE  LocalsOK'
<1>1. req' \in [Tasks -> Request] /\ pc' \in [Tasks -> Labels]
  BY DEF LocalsOK, Moved
<1>2. req'[t] = r /\ pc'[t] = l
  BY DEF LocalsOK, Moved
<1>3. \A u \in Tasks \ {t} : req'[u] = req[u] /\ pc'[u] = pc[u]
  BY DEF LocalsOK, Moved
<1>4. HoldsWhatItReads(t)'
  BY <1>2 DEF HoldsWhatItReads
<1>5. \A u \in Tasks \ {t} : HoldsWhatItReads(u)'
  BY <1>3 DEF HoldsWhatItReads, LocalsOK
<1> QED
  BY <1>1, <1>4, <1>5 DEF LocalsOK

(* A command that returns leaves its events or nothing.                    *)
LEMMA ReplyType ==
  ASSUME LocalsOK, NEW t \in Tasks, NEW events \in Seq(Event), Reply(t, events)
  PROVE  LocalsOK'
<1> DEFINE r == [Idle EXCEPT !.evs = events]
           l == IF events = <<>> THEN "idle" ELSE "publish"
<1>1. r \in Request /\ r.evs = events
  <2>1. \A i \in Request : [i EXCEPT !.evs = events] \in Request
                           /\ [i EXCEPT !.evs = events].evs = events
    BY DEF Request
  <2> QED
    BY <2>1, IdleType
<1>2. Moved(t, r, l)
  BY DEF Reply, Goto, Moved
<1>3. l \in Labels /\ l \notin HoldsView \cup HoldsPosition
      /\ l \notin {"close_count", "fund_upsert", "liq_remove"}
      /\ (l = "publish" => events # <<>>)
  BY DEF Labels, HoldsView, HoldsPosition
<1> HIDE DEF r, l
<1> QED
  BY <1>1, <1>2, <1>3, MovedType

LEMMA AbandonType ==
  ASSUME LocalsOK, NEW t \in Tasks, Abandon(t)
  PROVE  LocalsOK'
<1>1. Moved(t, Idle, "idle")
  BY DEF Abandon, Goto, Moved
<1>2. "idle" \in Labels /\ "idle" \notin HoldsView \cup HoldsPosition
  BY DEF Labels, HoldsView, HoldsPosition
<1> QED
  BY <1>1, <1>2, IdleType, MovedType

(* Amounts that are not negative, as the waterfall moves them.             *)
LEMMA DueIsUsd ==
  /\ \A a \in Usd : a >= 0 => a \in Due
  /\ \A a \in Due : a \in Usd /\ a \in Nat
  /\ \A a, b \in Due : /\ SatAdd(a, b) \in Due /\ SatAdd(a, b) <= a + b
                       /\ a + b <= UsdMax => SatAdd(a, b) = a + b
BY MathAssumption DEF Due, Usd, UsdMin, SatAdd, Saturate

(* What a task holds at each label, as its types.                          *)
LEMMA Held ==
  ASSUME TypeOK, NEW t \in Tasks
  PROVE  /\ req[t] \in Request /\ pc[t] \in Labels
         /\ req[t].todo \in SUBSET Snapshot /\ req[t].evs \in Seq(Event)
         /\ req[t].social \in Due
         /\ pc[t] \in HoldsView => req[t].view \in View
         /\ pc[t] \in HoldsPosition => req[t].cur \in Snapshot
         /\ pc[t] \in {"close_count", "publish"} => req[t].evs # <<>>
<1>1. req[t] \in Request /\ pc[t] \in Labels /\ HoldsWhatItReads(t)
  BY DEF TypeOK, LocalsOK
<1> QED
  BY <1>1 DEF HoldsWhatItReads, Request

(* by_market returns snapshots.                                            *)
LEMMA ByMarketType ==
  ASSUME TypeOK, NEW s
  PROVE  ByMarket(s) \in SUBSET Snapshot
<1> SUFFICES ASSUME NEW k \in Keys, positions[k] # None
             PROVE  [key |-> k, pos |-> positions[k]] \in Snapshot
  BY DEF ByMarket
<1> QED
  BY DEF Snapshot, TypeOK, StateOK

----------------------------------------------------------------------------
(* Each step keeps TypeOK.                                                 *)

LEMMA NoneIsNone ==
  None \notin Position /\ None \notin MarketState /\ None \notin View /\ None \notin Snapshot
BY EngineAssumption

LEMMA OpenGetType ==
  ASSUME TypeOK, NEW t \in Tasks, NEW c \in OpenCommand, OpenGet(t, c)
  PROVE  TypeOK'
<1> DEFINE x == [key |-> c.key, pos |-> PositionOf(c)]
           r == [req[t] EXCEPT !.cur = x]
<1>1. x \in Snapshot
  <2>1. c \in OpenCommand
    BY EngineAssumption
  <2> QED
    BY <2>1, MathAssumption DEF OpenCommand, Snapshot, PositionOf, Position, Usd, UsdMin
<1> HIDE DEF x
<1>2. r \in Request /\ r.cur = x
  BY <1>1, Held DEF Request
<1>3. Moved(t, r, "open_upsert")
  BY DEF OpenGet, Goto, Moved, x
<1>4. "open_upsert" \in Labels \ HoldsView
  BY DEF Labels, HoldsView
<1> HIDE DEF r
<1>5. LocalsOK'
  BY <1>1, <1>2, <1>3, <1>4, NoneIsNone, MovedType DEF TypeOK
<1>6. StateOK'
  BY DEF TypeOK, StateOK, OpenGet, Begin
<1> QED
  BY <1>5, <1>6 DEF TypeOK

LEMMA OpenUpsertType ==
  ASSUME TypeOK, NEW t \in Tasks, OpenUpsert(t)
  PROVE  TypeOK'
<1>1. req[t].cur \in Snapshot
  BY Held DEF OpenUpsert, HoldsPosition
<1>2. Moved(t, req[t], "open_count")
  BY DEF TypeOK, OpenUpsert, Goto, Moved, LocalsOK
<1>3. "open_count" \in Labels \ HoldsView
  BY DEF Labels, HoldsView
<1>4. LocalsOK'
  BY <1>1, <1>2, <1>3, Held, NoneIsNone, MovedType DEF TypeOK
<1>5. positions' \in [Keys -> Position \cup {None}]
  BY <1>1 DEF TypeOK, OpenUpsert, StateOK, Snapshot
<1>6. StateOK'
  BY <1>5 DEF TypeOK, StateOK, OpenUpsert
<1> QED
  BY <1>4, <1>6 DEF TypeOK

LEMMA OpenCountType ==
  ASSUME TypeOK, NEW t \in Tasks, OpenCount(t)
  PROVE  TypeOK'
<1>1. req[t].cur \in Snapshot
  BY Held DEF OpenCount, HoldsPosition
<1> DEFINE e == [type |-> "PositionOpened", key |-> req[t].cur.key,
                 side |-> req[t].cur.pos.side]
<1>2. e \in Event
  BY <1>1, EventTypes DEF Snapshot, Position
<1> HIDE DEF e
<1>3. Reply(t, <<e>>)
  BY DEF OpenCount, e
<1>4. <<e>> \in Seq(Event)
  BY <1>2
<1>5. LocalsOK'
  BY <1>3, <1>4, ReplyType DEF TypeOK
<1>6. stats' \in [open_positions : Nat, liquidations : Nat,
                  funding_settlements : Nat, adl_events : Nat]
  BY DEF TypeOK, OpenCount, CountOpened, StateOK
<1>7. StateOK'
  BY <1>6 DEF TypeOK, StateOK, OpenCount
<1> QED
  BY <1>5, <1>7 DEF TypeOK

LEMMA CloseRemoveType ==
  ASSUME TypeOK, NEW t \in Tasks, NEW k \in Keys, CloseRemove(t, k)
  PROVE  TypeOK'
<1> DEFINE x == [key |-> k, pos |-> positions[k]]
           r == [req[t] EXCEPT !.cur = x]
<1>1. x \in Snapshot
  BY DEF TypeOK, CloseRemove, StateOK, Snapshot
<1> HIDE DEF x
<1>2. r \in Request /\ r.cur = x
  BY <1>1, Held DEF Request
<1>3. Moved(t, r, "close_mark")
  BY DEF CloseRemove, Goto, Moved, x
<1>4. "close_mark" \in Labels \ HoldsView
  BY DEF Labels, HoldsView
<1> HIDE DEF r
<1>5. LocalsOK'
  BY <1>1, <1>2, <1>3, <1>4, NoneIsNone, MovedType DEF TypeOK
<1>6. positions' \in [Keys -> Position \cup {None}]
  BY DEF TypeOK, StateOK, CloseRemove
<1>7. StateOK'
  BY <1>6 DEF TypeOK, StateOK, CloseRemove, Begin
<1> QED
  BY <1>5, <1>7 DEF TypeOK

LEMMA CloseMarkType ==
  ASSUME TypeOK, NEW t \in Tasks, CloseMark(t)
  PROVE  TypeOK'
<1> DEFINE cur == req[t].cur
           m == markets[cur.key[2]]
           e == [type |-> "PositionClosed", key |-> cur.key,
                 realized_pnl |-> RealizedPnl(cur.pos, m.mark_price)]
           evs == <<e>>
           r == [req[t] EXCEPT !.evs = evs]
<1>1. cur \in Snapshot
  BY Held DEF CloseMark, HoldsPosition
<1>2. CASE m = None
  <2>1. Abandon(t)
    BY <1>2 DEF CloseMark
  <2> QED
    BY <2>1, AbandonType DEF TypeOK, StateOK, CloseMark
<1>3. CASE m # None
  <2>1. m.mark_price \in Price
    BY <1>1, <1>3 DEF TypeOK, StateOK, MarketState, Snapshot, Keys
  <2>2. RealizedPnl(cur.pos, m.mark_price) \in Usd
    BY <1>1, <2>1, EquityType, PositionFields, SatType DEF RealizedPnl, Snapshot
  <2>3. e \in Event
    BY <1>1, <2>2, EventTypes DEF Snapshot
  <2>4. Moved(t, r, "close_count")
    BY <1>3 DEF CloseMark, Goto, Moved
  <2> HIDE DEF e
  <2>5. evs \in Seq(Event) /\ evs # <<>>
    BY <2>3
  <2> HIDE DEF evs
  <2>7. r \in Request /\ r.cur = cur /\ r.evs = evs
    <3>1. req[t] \in Request
      BY Held
    <3> QED
      BY <2>5, <3>1 DEF Request
  <2>6. "close_count" \in Labels \ HoldsView
    BY DEF Labels, HoldsView
  <2> HIDE DEF r, cur
  <2>8. LocalsOK'
    BY <1>1, <2>4, <2>5, <2>6, <2>7, NoneIsNone, MovedType DEF TypeOK
  <2> QED
    BY <2>8 DEF TypeOK, StateOK, CloseMark
<1> QED
  BY <1>2, <1>3

LEMMA UpdateMarketType ==
  ASSUME TypeOK, NEW t \in Tasks, NEW u \in View, UpdateMarket(t, u)
  PROVE  TypeOK'
<1> DEFINE e == [type |-> "MarketUpdated", symbol |-> u.symbol,
                 mark_price |-> u.mark_price,
                 funding_rate_bps |-> u.funding_rate_bps]
           m == [mark_price |-> u.mark_price, funding_rate_bps |-> u.funding_rate_bps]
<1>1. u \in View
  BY EngineAssumption
<1>2. e \in Event
  BY <1>1, EventTypes DEF View
<1>3. m \in MarketState
  BY <1>1 DEF View, MarketState
<1>4. Reply(t, <<e>>) /\ markets' = [markets EXCEPT ![u.symbol] = m]
  BY DEF UpdateMarket
<1> HIDE DEF e, m
<1>5. <<e>> \in Seq(Event)
  BY <1>2
<1>6. LocalsOK'
  BY <1>4, <1>5, ReplyType DEF TypeOK
<1>7. markets' \in [Symbols -> MarketState \cup {None}]
  BY <1>3, <1>4 DEF TypeOK, StateOK
<1>8. StateOK'
  BY <1>7 DEF TypeOK, StateOK, UpdateMarket, Begin
<1> QED
  BY <1>6, <1>8 DEF TypeOK

LEMMA FundMarketType ==
  ASSUME TypeOK, NEW t \in Tasks, NEW s \in Symbols, FundMarket(t, s)
  PROVE  TypeOK'
<1> DEFINE v == ViewOf(s)
           r == [req[t] EXCEPT !.view = v]
<1>1. v \in View
  BY DEF ViewOf, View, MarketState, FundMarket, TypeOK, StateOK
<1> HIDE DEF v
<1>2. r \in Request /\ r.view = v
  BY <1>1, Held DEF Request
<1>3. Moved(t, r, "fund_scan")
  BY DEF FundMarket, Goto, Moved, v
<1>4. "fund_scan" \in Labels \ HoldsPosition
  BY DEF Labels, HoldsPosition
<1> HIDE DEF r
<1>5. LocalsOK'
  BY <1>1, <1>2, <1>3, <1>4, NoneIsNone, MovedType DEF TypeOK
<1>6. StateOK'
  BY DEF TypeOK, StateOK, FundMarket, Begin
<1> QED
  BY <1>5, <1>6 DEF TypeOK

LEMMA LiqMarketType ==
  ASSUME TypeOK, NEW t \in Tasks, NEW s \in Symbols, LiqMarket(t, s)
  PROVE  TypeOK'
<1> DEFINE v == ViewOf(s)
           r == [req[t] EXCEPT !.view = v]
<1>1. v \in View
  BY DEF ViewOf, View, MarketState, LiqMarket, TypeOK, StateOK
<1> HIDE DEF v
<1>2. r \in Request /\ r.view = v
  BY <1>1, Held DEF Request
<1>3. Moved(t, r, "liq_scan")
  BY DEF LiqMarket, Goto, Moved, v
<1>4. "liq_scan" \in Labels \ HoldsPosition
  BY DEF Labels, HoldsPosition
<1> HIDE DEF r
<1>5. LocalsOK'
  BY <1>1, <1>2, <1>3, <1>4, NoneIsNone, MovedType DEF TypeOK
<1>6. StateOK'
  BY DEF TypeOK, StateOK, LiqMarket, Begin
<1> QED
  BY <1>5, <1>6 DEF TypeOK

LEMMA FundScanType ==
  ASSUME TypeOK, NEW t \in Tasks, FundScan(t)
  PROVE  TypeOK'
<1> DEFINE found == ByMarket(req[t].view.symbol)
           r == [req[t] EXCEPT !.todo = found]
<1>1. found \in SUBSET Snapshot
  BY ByMarketType
<1>2. IF found = {} THEN Reply(t, <<>>) ELSE Moved(t, r, "fund_upsert")
  BY DEF FundScan, Goto, Moved
<1>3. req[t].view \in View
  BY Held DEF FundScan, HoldsView
<1> HIDE DEF found
<1>4. r \in Request /\ r.todo = found /\ r.view = req[t].view
  BY <1>1, Held DEF Request
<1>5. "fund_upsert" \in Labels \ HoldsPosition
  BY DEF Labels, HoldsPosition
<1>6. <<>> \in Seq(Event)
  OBVIOUS
<1> HIDE DEF r
<1>7. LocalsOK'
  <2>1. CASE found = {}
    BY <1>2, <1>6, <2>1, ReplyType DEF TypeOK
  <2>2. CASE found # {}
    BY <1>2, <1>3, <1>4, <1>5, <2>2, NoneIsNone, MovedType DEF TypeOK
  <2> QED
    BY <2>1, <2>2
<1>8. StateOK'
  BY DEF TypeOK, StateOK, FundScan
<1> QED
  BY <1>7, <1>8 DEF TypeOK

LEMMA LiqScanType ==
  ASSUME TypeOK, NEW t \in Tasks, LiqScan(t)
  PROVE  TypeOK'
<1> DEFINE found == Underwater(ByMarket(req[t].view.symbol), req[t].view.mark_price)
           r == [req[t] EXCEPT !.todo = found]
<1>1. found \in SUBSET Snapshot
  BY ByMarketType DEF Underwater
<1>2. IF found = {} THEN Reply(t, <<>>) ELSE Moved(t, r, "liq_remove")
  BY DEF LiqScan, Goto, Moved
<1>3. req[t].view \in View
  BY Held DEF LiqScan, HoldsView
<1> HIDE DEF found
<1>4. r \in Request /\ r.todo = found /\ r.view = req[t].view
  BY <1>1, Held DEF Request
<1>5. "liq_remove" \in Labels \ HoldsPosition
  BY DEF Labels, HoldsPosition
<1>6. <<>> \in Seq(Event)
  OBVIOUS
<1> HIDE DEF r
<1>7. LocalsOK'
  <2>1. CASE found = {}
    BY <1>2, <1>6, <2>1, ReplyType DEF TypeOK
  <2>2. CASE found # {}
    BY <1>2, <1>3, <1>4, <1>5, <2>2, NoneIsNone, MovedType DEF TypeOK
  <2> QED
    BY <2>1, <2>2
<1>8. StateOK'
  BY DEF TypeOK, StateOK, LiqScan
<1> QED
  BY <1>7, <1>8 DEF TypeOK

(* An updated copy is a position.                                          *)
LEMMA SettledType ==
  ASSUME NEW pos \in Position, NEW a \in Usd
  PROVE  Settled(pos, a) \in Position
<1>1. SatAdd(pos.funding_paid, a) \in Usd
  BY PositionFields, SatType
<1> QED
  BY <1>1 DEF Settled, Position

LEMMA FundUpsertType ==
  ASSUME TypeOK, NEW t \in Tasks, FundUpsert(t)
  PROVE  TypeOK'
<1>1. req[t] \in Request /\ req[t].view \in View /\ req[t].evs \in Seq(Event)
      /\ req[t].todo \in SUBSET Snapshot
  BY Held DEF FundUpsert, HoldsView
<1> DEFINE payment(e) == FundingPayment(e.pos, req[t].view.mark_price,
                                        req[t].view.funding_rate_bps)
           event(e) == [type |-> "FundingSettled", key |-> e.key, amount |-> payment(e)]
<1>2. PICK e \in req[t].todo :
        /\ positions' = [positions EXCEPT ![e.key] = Settled(e.pos, payment(e))]
        /\ req' = [req EXCEPT ![t].todo = req[t].todo \ {e},
                              ![t].evs = Append(req[t].evs, event(e))]
        /\ Goto(t, IF req[t].todo \ {e} = {} THEN "fund_count" ELSE "fund_upsert")
  BY DEF FundUpsert
<1> DEFINE rest == req[t].todo \ {e}
           evs == Append(req[t].evs, event(e))
           r == [req[t] EXCEPT !.todo = rest, !.evs = evs]
           l == IF rest = {} THEN "fund_count" ELSE "fund_upsert"
<1>3. e \in Snapshot /\ rest \in SUBSET Snapshot
  BY <1>1
<1>4. e.key \in Keys /\ e.pos \in Position
  BY <1>3 DEF Snapshot
<1>5. payment(e) \in Usd
  BY <1>1, <1>4, FundingType DEF View
<1>6. event(e) \in Event
  BY <1>4, <1>5, EventTypes
<1>7. Settled(e.pos, payment(e)) \in Position
  BY <1>4, <1>5, SettledType
<1>8. Moved(t, r, l)
  BY <1>2 DEF Moved, Goto
<1>9. l \in Labels \ HoldsPosition /\ l \notin {"close_count", "publish", "liq_remove"}
      /\ (l = "fund_upsert" => rest # {})
  BY DEF Labels, HoldsPosition
<1>10. positions' \in [Keys -> Position \cup {None}]
  BY <1>2, <1>4, <1>7 DEF TypeOK, StateOK
<1> HIDE DEF payment, event, l, rest
<1>11. evs \in Seq(Event)
  BY <1>1, <1>6
<1> HIDE DEF evs
<1>12. r \in Request /\ r.todo = rest /\ r.view = req[t].view
  BY <1>1, <1>3, <1>11 DEF Request
<1> HIDE DEF r
<1>13. LocalsOK'
  BY <1>1, <1>8, <1>9, <1>12, NoneIsNone, MovedType DEF TypeOK
<1>14. StateOK'
  BY <1>10 DEF TypeOK, StateOK, FundUpsert
<1> QED
  BY <1>13, <1>14 DEF TypeOK

LEMMA FundCountType ==
  ASSUME TypeOK, NEW t \in Tasks, FundCount(t)
  PROVE  TypeOK'
<1>1. req[t].evs \in Seq(Event)
  BY Held
<1>2. LocalsOK'
  BY <1>1, ReplyType DEF TypeOK, FundCount
<1>3. Len(req[t].evs) \in Nat
  BY <1>1
<1>4. StateOK'
  BY <1>3 DEF TypeOK, StateOK, FundCount
<1> QED
  BY <1>2, <1>4 DEF TypeOK

LEMMA CloseCountType ==
  ASSUME TypeOK, NEW t \in Tasks, CloseCount(t)
  PROVE  TypeOK'
<1>1. req[t].evs \in Seq(Event)
  BY Held
<1>2. LocalsOK'
  BY <1>1, ReplyType DEF TypeOK, CloseCount
<1>3. CountRemoved \in Nat
  BY DEF TypeOK, StateOK, CountRemoved
<1>4. StateOK'
  BY <1>3 DEF TypeOK, StateOK, CloseCount
<1> QED
  BY <1>2, <1>4 DEF TypeOK

LEMMA LiqRemoveType ==
  ASSUME TypeOK, NEW t \in Tasks, LiqRemove(t)
  PROVE  TypeOK'
<1>1. req[t] \in Request /\ req[t].view \in View /\ req[t].todo \in SUBSET Snapshot
  BY Held DEF LiqRemove, HoldsView
<1>2. PICK e \in req[t].todo :
        /\ positions' = [positions EXCEPT ![e.key] = None]
        /\ Moved(t, [req[t] EXCEPT !.todo = req[t].todo \ {e}, !.cur = e], "liq_settle")
  BY DEF LiqRemove, Goto, Moved
<1> DEFINE r == [req[t] EXCEPT !.todo = req[t].todo \ {e}, !.cur = e]
<1>3. e \in Snapshot
  BY <1>1
<1>4. r \in Request /\ r.cur = e /\ r.view = req[t].view
  BY <1>1, <1>3 DEF Request
<1>5. "liq_settle" \in Labels
  BY DEF Labels
<1>6. positions' \in [Keys -> Position \cup {None}]
  BY <1>2, <1>3 DEF TypeOK, StateOK, Snapshot
<1> HIDE DEF r
<1>7. Moved(t, r, "liq_settle")
  BY <1>2 DEF r
<1>8. LocalsOK'
  BY <1>1, <1>3, <1>4, <1>5, <1>7, NoneIsNone, MovedType DEF TypeOK
<1>9. StateOK'
  BY <1>6 DEF TypeOK, StateOK, LiqRemove
<1> QED
  BY <1>8, <1>9 DEF TypeOK

(* What the waterfall may do to the fund and to its history: take in a     *)
(* fee, or cover a shortfall.                                              *)
TakesFee(a) ==
  insurance' = Credit(insurance, a) /\ book' = [book EXCEPT !.fees = book.fees + a]

CoversLoss(a) ==
  /\ insurance' = Cover(insurance, a).balance
  /\ book' = [book EXCEPT !.shortfalls = book.shortfalls + a,
                          !.socialized = book.socialized + Cover(insurance, a).socialized]

LEMMA LiqSettleEffect ==
  ASSUME TypeOK, NEW t \in Tasks, LiqSettle(t)
  PROVE  /\ LocalsOK'
         /\ \E a \in Usd : a >= 0 /\ (TakesFee(a) \/ CoversLoss(a))
<1> DEFINE cur == req[t].cur
           mark == req[t].view.mark_price
           equity == PositionEquity(cur.pos, mark)
<1>1. req[t] \in Request /\ req[t].view \in View /\ cur \in Snapshot
      /\ req[t].evs \in Seq(Event) /\ req[t].social \in Due
  BY Held DEF LiqSettle, HoldsView, HoldsPosition
<1>2. mark \in Price /\ cur.pos \in Position /\ cur.key \in Keys
  BY <1>1 DEF View, Snapshot
<1>3. equity \in Usd /\ equity \in Int /\ 0 \in Due
  BY <1>2, EquityType, MathAssumption DEF Usd, UsdMin, Due
<1>4. "liq_count" \in Labels /\ "liq_count" \notin {"close_count", "publish", "fund_upsert", "liq_remove"}
  BY DEF Labels
<1>5. req[t].view # None /\ cur # None
  BY <1>1, NoneIsNone
<1>6. CASE equity < 0
  <2> DEFINE shortfall == SatNeg(equity)
             c == Cover(insurance, shortfall)
             e == Liquidated(cur.key, "Bankruptcy", c.drawn, c.socialized)
             s == SatAdd(req[t].social, c.socialized)
             evs == Append(req[t].evs, e)
             r == [req[t] EXCEPT !.social = s, !.evs = evs]
  <2>1. shortfall \in Usd /\ shortfall >= 0
    BY <1>3, <1>6, SaturateType DEF SatNeg
  <2>2. insurance \in Usd
    BY DEF TypeOK, StateOK
  <2> HIDE DEF shortfall
  <2>3. c.drawn \in Due /\ c.socialized \in Due
    BY <2>1, <2>2, CoverSplits, DueIsUsd
  <2>4. SettleBankrupt(t, equity) /\ Goto(t, "liq_count")
    BY <1>6 DEF LiqSettle
  <2>5. Moved(t, r, "liq_count") /\ CoversLoss(shortfall)
    BY <2>4 DEF SettleBankrupt, Goto, Moved, CoversLoss, shortfall
  <2> HIDE DEF c
  <2>6. e \in Event /\ s \in Due
    BY <1>1, <1>2, <2>3, EventTypes, DueIsUsd
  <2> HIDE DEF e, s
  <2>7. evs \in Seq(Event)
    BY <1>1, <2>6
  <2> HIDE DEF evs
  <2>8. r \in Request /\ r.view = req[t].view /\ r.cur = req[t].cur
    BY <1>1, <2>6, <2>7 DEF Request
  <2> HIDE DEF r
  <2>9. LocalsOK'
    BY <1>4, <1>5, <2>5, <2>8, MovedType DEF TypeOK
  <2> QED
    BY <2>1, <2>5, <2>9
<1>7. CASE ~(equity < 0)
  <2> DEFINE fee == LiquidationFee(cur.pos, mark, Params)
             credited == IF fee < equity THEN fee ELSE equity
             e == Liquidated(cur.key, "MaintenanceBreach", 0, 0)
             evs == Append(req[t].evs, e)
             r == [req[t] EXCEPT !.evs = evs]
  <2>1. fee \in Usd /\ fee >= 0
    BY <1>2, FeeType, EngineAssumption
  <2> HIDE DEF fee
  <2>2. credited \in Usd /\ credited >= 0
    BY <1>3, <1>7, <2>1
  <2>3. SettleSolvent(t, equity) /\ Goto(t, "liq_count")
    BY <1>7 DEF LiqSettle
  <2>4. Moved(t, r, "liq_count") /\ TakesFee(credited)
    BY <2>3 DEF SettleSolvent, Goto, Moved, TakesFee, fee
  <2>5. e \in Event
    BY <1>2, <1>3, EventTypes
  <2> HIDE DEF e, credited
  <2>6. evs \in Seq(Event)
    BY <1>1, <2>5
  <2> HIDE DEF evs
  <2>7. r \in Request /\ r.view = req[t].view /\ r.cur = req[t].cur
    BY <1>1, <2>6 DEF Request
  <2> HIDE DEF r
  <2>8. LocalsOK'
    BY <1>4, <1>5, <2>4, <2>7, MovedType DEF TypeOK
  <2> QED
    BY <2>2, <2>4, <2>8
<1> QED
  BY <1>6, <1>7

LEMMA LiqSettleType ==
  ASSUME TypeOK, NEW t \in Tasks, LiqSettle(t)
  PROVE  TypeOK'
<1>1. PICK a \in Usd : a >= 0 /\ (TakesFee(a) \/ CoversLoss(a))
  BY LiqSettleEffect
<1>2. insurance \in Usd /\ a \in Int
  BY MathAssumption DEF TypeOK, StateOK, Usd, UsdMin
<1>3. CASE TakesFee(a)
  <2>1. insurance' \in Usd
    BY <1>2, <1>3, SatType DEF TakesFee, Credit
  <2>2. book.fees + a \in Nat /\ book \in [fees : Nat, shortfalls : Nat, socialized : Nat]
    BY <1>1, <1>2 DEF TypeOK, StateOK
  <2>3. book' \in [fees : Nat, shortfalls : Nat, socialized : Nat]
    BY <1>3, <2>2 DEF TakesFee
  <2> QED
    BY <2>1, <2>3, LiqSettleEffect DEF TypeOK, StateOK, LiqSettle
<1>4. CASE CoversLoss(a)
  <2> DEFINE c == Cover(insurance, a)
  <2>1. c.balance \in Usd /\ c.socialized \in Int /\ c.socialized >= 0
    BY <1>1, <1>2, CoverSplits, MathAssumption DEF Usd, UsdMin
  <2> HIDE DEF c
  <2>2. insurance' = c.balance
        /\ book' = [book EXCEPT !.shortfalls = book.shortfalls + a,
                                !.socialized = book.socialized + c.socialized]
    BY <1>4 DEF CoversLoss, c
  <2>3. /\ book.shortfalls + a \in Nat /\ book.socialized + c.socialized \in Nat
        /\ book \in [fees : Nat, shortfalls : Nat, socialized : Nat]
    BY <1>1, <1>2, <2>1 DEF TypeOK, StateOK
  <2>4. insurance' \in Usd /\ book' \in [fees : Nat, shortfalls : Nat, socialized : Nat]
    BY <2>1, <2>2, <2>3
  <2> QED
    BY <2>4, LiqSettleEffect DEF TypeOK, StateOK, LiqSettle
<1> QED
  BY <1>1, <1>3, <1>4

LEMMA LiqCountType ==
  ASSUME TypeOK, NEW t \in Tasks, LiqCount(t)
  PROVE  TypeOK'
<1> DEFINE l == IF req[t].todo = {} THEN "liq_finish" ELSE "liq_remove"
<1>1. req[t] \in Request /\ req[t].view \in View /\ req[t].cur \in Snapshot
  BY Held DEF LiqCount, HoldsView, HoldsPosition
<1>2. Moved(t, req[t], l)
  BY DEF LiqCount, Goto, Moved, TypeOK, LocalsOK
<1>3. l \in Labels /\ l \notin {"close_count", "publish", "fund_upsert"}
      /\ (l = "liq_remove" => req[t].todo # {})
  BY DEF Labels
<1> HIDE DEF l
<1>4. LocalsOK'
  BY <1>1, <1>2, <1>3, NoneIsNone, MovedType DEF TypeOK
<1>5. CountRemoved \in Nat
  BY DEF TypeOK, StateOK, CountRemoved
<1>6. stats' \in [open_positions : Nat, liquidations : Nat,
                  funding_settlements : Nat, adl_events : Nat]
  <2>1. stats \in [open_positions : Nat, liquidations : Nat,
                   funding_settlements : Nat, adl_events : Nat]
    BY DEF TypeOK, StateOK
  <2>2. stats.liquidations + 1 \in Nat
    BY <2>1
  <2>3. stats' = [stats EXCEPT !.open_positions = CountRemoved,
                               !.liquidations = stats.liquidations + 1]
    BY DEF LiqCount
  <2> QED
    BY <1>5, <2>1, <2>2, <2>3
<1>7. StateOK'
  BY <1>6 DEF TypeOK, StateOK, LiqCount
<1> QED
  BY <1>4, <1>7 DEF TypeOK

LEMMA LiqFinishType ==
  ASSUME TypeOK, NEW t \in Tasks, LiqFinish(t)
  PROVE  TypeOK'
<1> DEFINE e == [type |-> "AutoDeleveraged", symbol |-> req[t].view.symbol,
                 socialized_loss |-> req[t].social]
<1>1. req[t].view \in View /\ req[t].evs \in Seq(Event) /\ req[t].social \in Due
  BY Held DEF LiqFinish, HoldsView
<1>2. e \in Event
  BY <1>1, EventTypes DEF View
<1>3. Reply(t, Append(req[t].evs, e)) \/ Reply(t, req[t].evs)
  BY DEF LiqFinish
<1>4. stats' \in [open_positions : Nat, liquidations : Nat,
                  funding_settlements : Nat, adl_events : Nat]
  BY DEF LiqFinish, TypeOK, StateOK
<1> HIDE DEF e
<1>5. Append(req[t].evs, e) \in Seq(Event)
  BY <1>1, <1>2
<1>6. LocalsOK'
  BY <1>1, <1>3, <1>5, ReplyType DEF TypeOK
<1>7. StateOK'
  BY <1>4 DEF TypeOK, StateOK, LiqFinish
<1> QED
  BY <1>6, <1>7 DEF TypeOK

LEMMA PublishType ==
  ASSUME TypeOK, NEW t \in Tasks, Publish(t)
  PROVE  TypeOK'
<1> DEFINE evs == req[t].evs
           r == [req[t] EXCEPT !.evs = Tail(evs)]
<1>1. req[t] \in Request /\ evs \in Seq(Event) /\ evs # <<>>
  BY Held DEF Publish
<1>2. Head(evs) \in Event /\ Tail(evs) \in Seq(Event)
      /\ (Len(evs) # 1 => Tail(evs) # <<>>)
  <2> HIDE DEF evs
  <2>1. Len(evs) \in Nat /\ Len(evs) # 0
    BY <1>1
  <2>2. Head(evs) \in Event /\ Tail(evs) \in Seq(Event) /\ Len(Tail(evs)) = Len(evs) - 1
    BY <1>1, <2>1
  <2>3. Len(evs) # 1 => Len(Tail(evs)) # 0
    BY <2>1, <2>2
  <2>4. \A q \in Seq(Event) : Len(q) # 0 => q # <<>>
    OBVIOUS
  <2> QED
    BY <2>2, <2>3, <2>4
<1>3. bus' \in Seq(Event)
  BY <1>2 DEF Publish, TypeOK, StateOK
<1>4. LocalsOK'
  <2>1. CASE Len(evs) = 1
    BY <2>1, AbandonType DEF Publish, TypeOK
  <2>2. CASE Len(evs) # 1
    <3>1. Moved(t, r, "publish")
      BY <2>2 DEF Publish, Moved, TypeOK, LocalsOK
    <3>2. r \in Request /\ r.evs = Tail(evs)
      BY <1>1, <1>2 DEF Request
    <3>3. "publish" \in Labels /\ "publish" \notin HoldsView \cup HoldsPosition
      BY DEF Labels, HoldsView, HoldsPosition
    <3> HIDE DEF r
    <3> QED
      BY <1>2, <2>2, <3>1, <3>2, <3>3, MovedType DEF TypeOK
  <2> QED
    BY <2>1, <2>2
<1>5. StateOK'
  BY <1>3 DEF TypeOK, StateOK, Publish
<1> QED
  BY <1>4, <1>5 DEF TypeOK

LEMMA PortFailureType ==
  ASSUME TypeOK, NEW t \in Tasks, StoreFails(t) \/ SinkFails(t)
  PROVE  TypeOK'
<1>1. Abandon(t)
  BY DEF StoreFails, SinkFails
<1>2. LocalsOK'
  BY <1>1, AbandonType DEF TypeOK
<1>3. StateOK'
  BY DEF TypeOK, StateOK, StoreFails, SinkFails
<1> QED
  BY <1>2, <1>3 DEF TypeOK

LEMMA StutterType == TypeOK /\ UNCHANGED vars => TypeOK'
BY DEF TypeOK, StateOK, LocalsOK, HoldsWhatItReads, vars

LEMMA StepType == TypeOK /\ [AnyNext]_vars => TypeOK'
<1> SUFFICES ASSUME TypeOK, [AnyNext]_vars PROVE TypeOK'
  OBVIOUS
<1>1. ASSUME NEW t \in Tasks, AnyStart(t) PROVE TypeOK'
  BY <1>1, OpenGetType, CloseRemoveType, UpdateMarketType, FundMarketType,
     LiqMarketType DEF AnyStart
<1>2. ASSUME NEW t \in Tasks, Continue(t) PROVE TypeOK'
  BY <1>2, OpenUpsertType, OpenCountType, CloseMarkType, CloseCountType,
     FundScanType, FundUpsertType, FundCountType, LiqScanType, LiqRemoveType,
     LiqSettleType, LiqCountType, LiqFinishType, PublishType DEF Continue
<1>3. ASSUME NEW t \in Tasks, StoreFails(t) \/ SinkFails(t) PROVE TypeOK'
  BY <1>3, PortFailureType
<1>4. CASE Done \/ UNCHANGED vars
  BY <1>4, StutterType DEF Done
<1> QED
  BY <1>1, <1>2, <1>3, <1>4 DEF AnyNext

LEMMA TypeCorrectAny == AnySpec => []TypeOK
<1>1. Init => TypeOK
  BY InitType
<1>2. TypeOK /\ [AnyNext]_vars => TypeOK'
  BY StepType
<1> QED
  BY <1>1, <1>2, PTL DEF AnySpec

(* In every reachable state every variable has its type, and no command    *)
(* reads a market view, a position or an event that it does not hold.      *)
THEOREM TypeCorrect == Spec => []TypeOK
BY TypeCorrectAny, SpecIsAny

----------------------------------------------------------------------------
(* The insurance fund.  Only LiqSettle touches it, and it is a fee taken   *)
(* or a loss covered.                                                      *)

LEMMA FundStep ==
  ASSUME TypeOK, [AnyNext]_vars
  PROVE  \/ insurance' = insurance /\ book' = book
         \/ \E a \in Usd : a >= 0 /\ (TakesFee(a) \/ CoversLoss(a))
<1>1. ASSUME NEW t \in Tasks, AnyStart(t) PROVE insurance' = insurance /\ book' = book
  BY <1>1 DEF AnyStart, OpenGet, CloseRemove, UpdateMarket, FundMarket, LiqMarket
<1>2. ASSUME NEW t \in Tasks, Continue(t), ~LiqSettle(t)
      PROVE  insurance' = insurance /\ book' = book
  BY <1>2 DEF Continue, OpenUpsert, OpenCount, CloseMark, CloseCount, FundScan,
     FundUpsert, FundCount, LiqScan, LiqRemove, LiqCount, LiqFinish, Publish
<1>3. ASSUME NEW t \in Tasks, LiqSettle(t)
      PROVE  \E a \in Usd : a >= 0 /\ (TakesFee(a) \/ CoversLoss(a))
  BY <1>3, LiqSettleEffect
<1>4. ASSUME NEW t \in Tasks, StoreFails(t) \/ SinkFails(t)
      PROVE  insurance' = insurance /\ book' = book
  BY <1>4 DEF StoreFails, SinkFails
<1>5. CASE Done \/ UNCHANGED vars
  BY <1>5 DEF Done, vars
<1> QED
  BY <1>1, <1>2, <1>3, <1>4, <1>5 DEF AnyNext

LEMMA TakesFeeConserves ==
  ASSUME TypeOK, WaterfallConserves, NEW a \in Usd, a >= 0, TakesFee(a)
  PROVE  WaterfallConserves'
<1>1. insurance \in Int /\ a \in Int /\ Seed \in Int /\ UsdMax \in Int
      /\ insurance <= UsdMax /\ a <= UsdMax /\ UsdMin \in Int /\ UsdMin <= 0
  BY MathAssumption, EngineAssumption DEF TypeOK, StateOK, Usd, UsdMin
<1>2. book.fees \in Nat /\ book.shortfalls \in Nat /\ book.socialized \in Nat
  BY DEF TypeOK, StateOK
<1>3. /\ book'.fees = book.fees + a
      /\ book'.shortfalls = book.shortfalls
      /\ book'.socialized = book.socialized
  BY DEF TakesFee, TypeOK, StateOK
<1>4. insurance' = IF insurance + a > UsdMax THEN UsdMax ELSE insurance + a
  BY <1>1 DEF TakesFee, Credit, SatAdd, Saturate, WaterfallConserves
<1>5. insurance >= 0 /\ 0 <= book.socialized /\ book.socialized <= book.shortfalls
  BY DEF WaterfallConserves
<1>6. insurance' >= 0 /\ 0 <= book'.socialized /\ book'.socialized <= book'.shortfalls
  BY <1>1, <1>2, <1>3, <1>4, <1>5
<1>7. ASSUME Seed + book'.fees <= UsdMax
      PROVE  insurance' = Seed + book'.fees - (book'.shortfalls - book'.socialized)
  <2>1. Seed + book.fees <= UsdMax
    BY <1>1, <1>2, <1>3, <1>7
  <2>2. insurance = Seed + book.fees - (book.shortfalls - book.socialized)
    BY <2>1 DEF WaterfallConserves
  <2>3. insurance + a <= UsdMax
    BY <1>1, <1>2, <1>3, <1>5, <1>7, <2>2
  <2> QED
    BY <1>1, <1>2, <1>3, <1>4, <2>2, <2>3
<1> QED
  BY <1>6, <1>7 DEF WaterfallConserves

LEMMA CoversLossConserves ==
  ASSUME TypeOK, WaterfallConserves, NEW a \in Usd, a >= 0, CoversLoss(a)
  PROVE  WaterfallConserves'
<1> DEFINE c == Cover(insurance, a)
<1>1. insurance \in Usd /\ insurance \in Int /\ insurance >= 0 /\ a \in Int /\ Seed \in Int
      /\ UsdMax \in Int
  BY MathAssumption, EngineAssumption DEF TypeOK, StateOK, Usd, UsdMin, WaterfallConserves
<1>2. book.fees \in Nat /\ book.shortfalls \in Nat /\ book.socialized \in Nat
  BY DEF TypeOK, StateOK
<1>3. /\ c.drawn \in Usd /\ c.socialized \in Usd
      /\ c.drawn >= 0 /\ c.socialized >= 0 /\ c.drawn + c.socialized = a
      /\ c.balance >= 0 /\ c.balance = insurance - c.drawn
  BY <1>1, CoverSplits
<1>4. c.drawn \in Int /\ c.socialized \in Int
  BY <1>3, MathAssumption DEF Usd, UsdMin
<1> HIDE DEF c
<1>5. insurance' = c.balance
  BY DEF CoversLoss, c
<1>6. /\ book'.fees = book.fees
      /\ book'.shortfalls = book.shortfalls + a
      /\ book'.socialized = book.socialized + c.socialized
  BY DEF CoversLoss, c, TypeOK, StateOK
<1>7. insurance' >= 0 /\ 0 <= book'.socialized /\ book'.socialized <= book'.shortfalls
  BY <1>1, <1>2, <1>3, <1>4, <1>5, <1>6 DEF WaterfallConserves
<1>8. ASSUME Seed + book'.fees <= UsdMax
      PROVE  insurance' = Seed + book'.fees - (book'.shortfalls - book'.socialized)
  <2>1. insurance = Seed + book.fees - (book.shortfalls - book.socialized)
    BY <1>6, <1>8 DEF WaterfallConserves
  <2> QED
    BY <1>1, <1>2, <1>3, <1>4, <1>5, <1>6, <2>1
<1> QED
  BY <1>7, <1>8 DEF WaterfallConserves

LEMMA FundConservedAny == AnySpec => []WaterfallConserves
<1>1. Init => WaterfallConserves
  BY MathAssumption, EngineAssumption DEF Init, WaterfallConserves
<1>2. TypeOK /\ WaterfallConserves /\ [AnyNext]_vars => WaterfallConserves'
  <2> SUFFICES ASSUME TypeOK, WaterfallConserves, [AnyNext]_vars
               PROVE  WaterfallConserves'
    OBVIOUS
  <2>1. CASE insurance' = insurance /\ book' = book
    BY <2>1 DEF WaterfallConserves
  <2>2. ASSUME NEW a \in Usd, a >= 0, TakesFee(a) PROVE WaterfallConserves'
    BY <2>2, TakesFeeConserves
  <2>3. ASSUME NEW a \in Usd, a >= 0, CoversLoss(a) PROVE WaterfallConserves'
    BY <2>3, CoversLossConserves
  <2> QED
    BY <2>1, <2>2, <2>3, FundStep
<1> QED
  BY <1>1, <1>2, TypeCorrectAny, PTL DEF AnySpec

(* No interleaving of sweeps, and no failure of a port, overdraws the fund *)
(* or lets it hold anything but its seed and the fees it took less the     *)
(* losses it paid.                                                         *)
THEOREM FundConserved == Spec => []WaterfallConserves
BY FundConservedAny, SpecIsAny

LEMMA LedgerImplementedAny == AnySpec => ImplementsLedger
<1>1. Init => Ledger!LedgerInit
  BY DEF Init, Ledger!LedgerInit
<1>2. TypeOK /\ WaterfallConserves /\ [AnyNext]_vars => [Ledger!LedgerNext]_(Ledger!ledger)
  <2> SUFFICES ASSUME TypeOK, WaterfallConserves, [AnyNext]_vars
               PROVE  [Ledger!LedgerNext]_(Ledger!ledger)
    OBVIOUS
  <2>1. insurance \in Usd /\ insurance \in Int /\ insurance >= 0 /\ UsdMax \in Int
        /\ UsdMin \in Int /\ UsdMin <= 0
    BY MathAssumption DEF TypeOK, StateOK, Usd, UsdMin, WaterfallConserves
  <2>2. book.fees \in Nat /\ book.shortfalls \in Nat /\ book.socialized \in Nat
    BY DEF TypeOK, StateOK
  <2>3. CASE insurance' = insurance /\ book' = book
    BY <2>3 DEF Ledger!ledger
  <2>4. ASSUME NEW a \in Usd, a >= 0, TakesFee(a) PROVE Ledger!PayIn
    <3>1. a \in Int
      BY <2>4, MathAssumption DEF Usd, UsdMin
    <3>2. /\ book'.fees = book.fees + a
          /\ book'.shortfalls = book.shortfalls
          /\ book'.socialized = book.socialized
      BY <2>4 DEF TakesFee, TypeOK, StateOK
    <3>3. insurance' = IF insurance + a > UsdMax THEN UsdMax ELSE insurance + a
      BY <2>1, <2>4, <3>1 DEF TakesFee, Credit, SatAdd, Saturate
    <3> QED
      BY <2>1, <2>2, <2>4, <3>1, <3>2, <3>3 DEF Ledger!PayIn
  <2>5. ASSUME NEW a \in Usd, a >= 0, CoversLoss(a) PROVE Ledger!Absorb
    <3> DEFINE c == Cover(insurance, a)
    <3>1. a \in Int
      BY <2>5, MathAssumption DEF Usd, UsdMin
    <3>2. /\ c.drawn \in Int /\ c.socialized \in Int
          /\ c.drawn >= 0 /\ c.socialized >= 0 /\ c.drawn + c.socialized = a
          /\ c.balance >= 0 /\ c.balance = insurance - c.drawn
          /\ (c.socialized > 0 => c.balance = 0)
      BY <2>1, <2>5, CoverSplits, MathAssumption DEF Usd, UsdMin
    <3> HIDE DEF c
    <3>3. insurance' = c.balance
      BY <2>5 DEF CoversLoss, c
    <3>4. /\ book'.fees = book.fees
          /\ book'.shortfalls = book.shortfalls + a
          /\ book'.socialized = book.socialized + c.socialized
      BY <2>5 DEF CoversLoss, c, TypeOK, StateOK
    <3> QED
      BY <2>1, <2>2, <2>5, <3>1, <3>2, <3>3, <3>4 DEF Ledger!Absorb
  <2> QED
    BY <2>3, <2>4, <2>5, FundStep DEF Ledger!LedgerNext
<1> QED
  BY <1>1, <1>2, TypeCorrectAny, FundConservedAny, PTL
     DEF AnySpec, ImplementsLedger, Ledger!LedgerSpec

(* The engine implements the abstract fund: it starts as the fund does,    *)
(* and each of its steps is a payment in, a loss absorbed, or leaves the   *)
(* fund alone.                                                             *)
THEOREM LedgerImplemented == Spec => ImplementsLedger
BY LedgerImplementedAny, SpecIsAny

----------------------------------------------------------------------------
(* Totals of a stream of events.                                           *)

Figures == {"Liquidated", "FundingSettled", "AutoDeleveraged",
            "drawn", "socialized", "announced"}

LEMMA AmountType ==
  ASSUME NEW e \in Event
  PROVE  /\ \A g : Amount(g, e) \in Int
         /\ \A g \in Figures : Amount(g, e) \in Nat
<1>1. /\ e.type = "Liquidated" => e.insurance_draw \in Nat /\ e.socialized_loss \in Nat
      /\ e.type = "AutoDeleveraged" => e.socialized_loss \in Nat
      /\ e.type = "FundingSettled" => e.amount \in Int
  BY MathAssumption DEF Event, Due, Usd, UsdMin
<1> QED
  BY <1>1 DEF Amount, Figures

(* What each event adds to the figures of the waterfall and the counters.  *)
LEMMA AmountOf ==
  ASSUME NEW e, NEW g \in Figures
  PROVE  /\ e.type \in {"PositionOpened", "PositionClosed", "MarketUpdated"} =>
              Amount(g, e) = 0
         /\ e.type = "FundingSettled" =>
              Amount(g, e) = IF g = "FundingSettled" THEN 1 ELSE 0
         /\ e.type = "AutoDeleveraged" =>
              Amount(g, e) = IF g = "AutoDeleveraged" THEN 1
                             ELSE IF g = "announced" THEN e.socialized_loss ELSE 0
         /\ e.type = "Liquidated" =>
              Amount(g, e) = IF g = "Liquidated" THEN 1
                             ELSE IF g = "drawn" THEN e.insurance_draw
                             ELSE IF g = "socialized" THEN e.socialized_loss ELSE 0
BY DEF Amount, Figures

LEMMA TotalIsSum ==
  ASSUME NEW events \in Seq(Event), NEW g
  PROVE  Total(events, g)
           = SumFunctionOnSet([i \in 1 .. Len(events) |-> Amount(g, events[i])],
                              1 .. Len(events))
<1>1. DOMAIN events = 1 .. Len(events)
  OBVIOUS
<1> DEFINE f == [i \in 1 .. Len(events) |-> Amount(g, events[i])]
<1>2. Total(events, g) = SumFunction(f)
  BY <1>1 DEF Total
<1>3. DOMAIN f = 1 .. Len(events)
  OBVIOUS
<1> HIDE DEF f
<1>4. SumFunction(f) = SumFunctionOnSet(f, 1 .. Len(events))
  BY <1>3 DEF SumFunction
<1> QED
  BY <1>2, <1>4 DEF f

LEMMA TotalType ==
  ASSUME NEW events \in Seq(Event)
  PROVE  /\ \A g : Total(events, g) \in Int
         /\ \A g \in Figures : Total(events, g) \in Nat
<1>1. IsFiniteSet(1 .. Len(events)) /\ \A i \in 1 .. Len(events) : events[i] \in Event
  BY FS_Interval
<1>2. ASSUME NEW g PROVE Total(events, g) \in Int
  BY <1>1, TotalIsSum, AmountType, SumInt
<1>3. ASSUME NEW g \in Figures PROVE Total(events, g) \in Nat
  BY <1>1, TotalIsSum, AmountType, SumNat
<1> QED
  BY <1>2, <1>3

LEMMA TotalEmpty == \A g : Total(<<>>, g) = 0
<1> SUFFICES ASSUME NEW g PROVE Total(<<>>, g) = 0
  OBVIOUS
<1>1. <<>> \in Seq(Event) /\ Len(<<>>) = 0 /\ 1 .. 0 = {}
  OBVIOUS
<1> QED
  BY <1>1, TotalIsSum, SumEmpty

LEMMA TotalAppend ==
  ASSUME NEW events \in Seq(Event), NEW e \in Event, NEW g
  PROVE  Total(Append(events, e), g) = Total(events, g) + Amount(g, e)
<1> DEFINE n == Len(events)
           longer == Append(events, e)
           f == [i \in 1 .. n |-> Amount(g, events[i])]
           h == [i \in 1 .. n + 1 |-> Amount(g, longer[i])]
           S == 1 .. n
           x == n + 1
<1>1. n \in Nat /\ longer \in Seq(Event) /\ Len(longer) = n + 1
      /\ 1 .. n + 1 = S \cup {x} /\ x \notin S
  OBVIOUS
<1>2. IsFiniteSet(S)
  BY <1>1, FS_Interval
<1>3. /\ \A i \in S : events[i] \in Event /\ longer[i] = events[i]
      /\ longer[x] = e
  OBVIOUS
<1>4. (\A i \in S : h[i] \in Int /\ h[i] = f[i]) /\ h[x] = Amount(g, e) /\ h[x] \in Int
  BY <1>1, <1>3, AmountType
<1>5. Total(longer, g) = SumFunctionOnSet(h, S \cup {x})
  <2>1. Total(longer, g) = SumFunctionOnSet(h, 1 .. n + 1)
    BY <1>1, TotalIsSum
  <2> QED
    BY <1>1, <2>1
<1>6. Total(events, g) = SumFunctionOnSet(f, S)
  BY TotalIsSum
<1> HIDE DEF S, x, f, h
<1>7. SumFunctionOnSet(h, S \cup {x}) = SumFunctionOnSet(h, S) + h[x]
  BY <1>1, <1>2, <1>4, SumAddElement
<1>8. SumFunctionOnSet(h, S) = SumFunctionOnSet(f, S)
  BY <1>2, <1>4, SumSame
<1> QED
  BY <1>4, <1>5, <1>6, <1>7, <1>8

LEMMA TotalHead ==
  ASSUME NEW events \in Seq(Event), events # <<>>, NEW g
  PROVE  Total(events, g) = Amount(g, Head(events)) + Total(Tail(events), g)
<1> DEFINE n == Len(events) - 1
           rest == Tail(events)
           f == [i \in 1 .. n + 1 |-> Amount(g, events[i])]
           h == [i \in 1 .. n |-> Amount(g, rest[i])]
<1>1. n \in Nat /\ Len(events) = n + 1 /\ rest \in Seq(Event) /\ Len(rest) = n
  OBVIOUS
<1>2. /\ \A i \in 1 .. n + 1 : events[i] \in Event
      /\ \A i \in 1 .. n : rest[i] = events[i + 1]
      /\ Head(events) = events[1]
  OBVIOUS
<1>3. /\ \A i \in 1 .. n + 1 : f[i] \in Int
      /\ \A i \in 1 .. n : h[i] = f[i + 1]
      /\ f[1] = Amount(g, Head(events))
  BY <1>1, <1>2, AmountType
<1>4. Total(events, g) = SumFunctionOnSet(f, 1 .. n + 1)
  BY <1>1, TotalIsSum
<1>5. Total(rest, g) = SumFunctionOnSet(h, 1 .. n)
  BY <1>1, TotalIsSum
<1> HIDE DEF f, h, n
<1>6. SumFunctionOnSet(f, 1 .. n + 1) = f[1] + SumFunctionOnSet(h, 1 .. n)
  BY <1>1, <1>3, SumShift
<1> QED
  BY <1>3, <1>4, <1>5, <1>6

LEMMA TotalOne ==
  ASSUME NEW e \in Event, NEW g
  PROVE  Total(<<e>>, g) = Amount(g, e)
<1>1. <<>> \in Seq(Event) /\ <<e>> = Append(<<>>, e)
  OBVIOUS
<1>2. Total(Append(<<>>, e), g) = Total(<<>>, g) + Amount(g, e)
  BY <1>1, TotalAppend
<1>3. Amount(g, e) \in Int /\ Total(<<>>, g) = 0
  BY TotalEmpty, AmountType
<1>4. Total(<<e>>, g) = Total(Append(<<>>, e), g)
  BY <1>1, Zenon
<1> QED
  BY <1>2, <1>3, <1>4

----------------------------------------------------------------------------
(* The engine and its stream, figure by figure: what the engine has        *)
(* recorded is what the bus has carried, what the tasks still hold, and a  *)
(* surplus, which is what failing ports have dropped.                      *)

Recorded(g) ==
  CASE g = "Liquidated" -> stats.liquidations
    [] g = "FundingSettled" -> stats.funding_settlements
    [] g = "AutoDeleveraged" -> stats.adl_events
    [] g = "drawn" -> book.shortfalls - book.socialized
    [] OTHER -> book.socialized

(* What a task at label l that holds r has recorded and not published: a   *)
(* funding tick is counted at its end, a liquidation one step after its    *)
(* event is made, and losses are announced at the end of the sweep.        *)
Pending(g, l, r) ==
  CASE g = "FundingSettled" /\ l \in {"fund_upsert", "fund_count"} -> 0
    [] g = "Liquidated" /\ l = "liq_count" -> Total(r.evs, g) - 1
    [] g = "announced" -> Total(r.evs, g) + r.social
    [] OTHER -> Total(r.evs, g)

InFlight(g) == SumFunctionOnSet([t \in Tasks |-> Pending(g, pc[t], req[t])], Tasks)

Surplus(g) == Recorded(g) - Total(bus, g) - InFlight(g)

(* What a task at label l holds of events and losses.                      *)
HoldsNoEvents == {"idle", "open_upsert", "open_count", "close_mark", "fund_scan", "liq_scan"}
HoldsLoss == {"liq_remove", "liq_settle", "liq_count", "liq_finish"}

InOrder(l, r) ==
  /\ l \notin HoldsLoss => r.social = 0
  /\ l \in HoldsNoEvents => r.evs = <<>>
  /\ l \in {"fund_upsert", "fund_count"} => Total(r.evs, "FundingSettled") = Len(r.evs)
  /\ l = "liq_count" => Total(r.evs, "Liquidated") >= 1

TasksInOrder == \A t \in Tasks : InOrder(pc[t], req[t])

StreamBehind == TasksInOrder /\ \A g \in Figures : Surplus(g) >= 0

LEMMA PendingType ==
  ASSUME NEW r \in Request, NEW l, NEW g \in Figures
  PROVE  /\ Pending(g, l, r) \in Int
         /\ InOrder(l, r) => Pending(g, l, r) \in Nat
<1>1. r.evs \in Seq(Event) /\ r.social \in Nat
  BY MathAssumption DEF Request, Due
<1>2. Total(r.evs, g) \in Nat
  BY <1>1, TotalType
<1>3. Pending(g, l, r) \in Int
  BY <1>1, <1>2 DEF Pending
<1>4. ASSUME InOrder(l, r) PROVE Pending(g, l, r) \in Nat
  BY <1>1, <1>2, <1>4 DEF Pending, InOrder
<1> QED
  BY <1>3, <1>4

(* By how much a step of task t moves the surplus.                         *)
Drift(g, t) ==
  (Recorded(g)' - Recorded(g)) - (Total(bus', g) - Total(bus, g))
    - (Pending(g, pc'[t], req'[t]) - Pending(g, pc[t], req[t]))

LEMMA SurplusStep ==
  ASSUME TypeOK, TypeOK', NEW t \in Tasks, NEW g \in Figures,
         \A u \in Tasks \ {t} : pc'[u] = pc[u] /\ req'[u] = req[u]
  PROVE  Surplus(g)' = Surplus(g) + Drift(g, t) /\ Drift(g, t) \in Int
<1> DEFINE f == [u \in Tasks |-> Pending(g, pc[u], req[u])]
           h == [u \in Tasks |-> Pending(g, pc'[u], req'[u])]
<1>1. \A u \in Tasks : f[u] \in Int /\ h[u] \in Int
  BY PendingType DEF TypeOK, LocalsOK
<1>2. \A u \in Tasks \ {t} : f[u] = h[u]
  OBVIOUS
<1>3. f[t] = Pending(g, pc[t], req[t]) /\ h[t] = Pending(g, pc'[t], req'[t])
  OBVIOUS
<1>4. InFlight(g) = SumFunctionOnSet(f, Tasks) /\ InFlight(g)' = SumFunctionOnSet(h, Tasks)
  BY DEF InFlight, Pending
<1>5. IsFiniteSet(Tasks)
  BY EngineAssumption
<1>6. Recorded(g) \in Int /\ Recorded(g)' \in Int
  <2>1. Recorded(g) \in Int
    BY DEF TypeOK, StateOK, Recorded
  <2>2. /\ stats' \in [open_positions : Nat, liquidations : Nat,
                       funding_settlements : Nat, adl_events : Nat]
        /\ book' \in [fees : Nat, shortfalls : Nat, socialized : Nat]
    BY DEF TypeOK, StateOK
  <2>3. Recorded(g)' \in Int
    BY <2>2 DEF Recorded
  <2> QED
    BY <2>1, <2>3
<1>7. Total(bus, g) \in Int /\ Total(bus', g) \in Int
  BY TotalType DEF TypeOK, StateOK
<1> HIDE DEF f, h
<1>8. SumFunctionOnSet(h, Tasks) = SumFunctionOnSet(f, Tasks) - f[t] + h[t]
  BY <1>1, <1>2, <1>5, SumChange
<1>9. SumFunctionOnSet(f, Tasks) \in Int
  BY <1>1, <1>5, SumInt
<1>10. Surplus(g)' = Recorded(g)' - Total(bus', g) - InFlight(g)'
  BY DEF Surplus, Total, Amount
<1> QED
  BY <1>1, <1>3, <1>4, <1>6, <1>7, <1>8, <1>9, <1>10 DEF Surplus, Drift

(* A step of task t leaves it in order and moves no surplus.               *)
Accounted(t) == InOrder(pc'[t], req'[t]) /\ \A g \in Figures : Drift(g, t) = 0

SameRecords ==
  /\ bus' = bus /\ book' = book
  /\ stats'.liquidations = stats.liquidations
  /\ stats'.funding_settlements = stats.funding_settlements
  /\ stats'.adl_events = stats.adl_events

LEMMA SameRecordsDrift ==
  ASSUME TypeOK, NEW t \in Tasks, SameRecords, NEW g \in Figures,
         req'[t] \in Request
  PROVE  Drift(g, t) = Pending(g, pc[t], req[t]) - Pending(g, pc'[t], req'[t])
<1>1. Pending(g, pc[t], req[t]) \in Int /\ Pending(g, pc'[t], req'[t]) \in Int
  BY Held, PendingType
<1>2. Recorded(g)' = Recorded(g) /\ Recorded(g) \in Int
  BY DEF SameRecords, Recorded, TypeOK, StateOK
<1>3. Total(bus', g) = Total(bus, g) /\ Total(bus, g) \in Int
  BY TotalType DEF SameRecords, TypeOK, StateOK
<1> QED
  BY <1>1, <1>2, <1>3 DEF Drift

(* Where a task stands after it has moved, replied or given up.            *)
LEMMA MovedTo ==
  ASSUME LocalsOK, NEW t \in Tasks
  PROVE  /\ \A r, l : Moved(t, r, l) => req'[t] = r /\ pc'[t] = l
         /\ \A events \in Seq(Event) : Reply(t, events) =>
              /\ req'[t].evs = events /\ req'[t].social = 0
              /\ pc'[t] = IF events = <<>> THEN "idle" ELSE "publish"
         /\ Abandon(t) => req'[t] = Idle /\ pc'[t] = "idle"
BY DEF LocalsOK, Moved, Reply, Abandon, Goto, Idle

(* Pending in the labels where it is no special case.                      *)
LEMMA PendingPlain ==
  ASSUME NEW g, NEW l, NEW r, l \notin {"fund_upsert", "fund_count", "liq_count"}
  PROVE  Pending(g, l, r) = IF g = "announced" THEN Total(r.evs, g) + r.social
                                               ELSE Total(r.evs, g)
BY DEF Pending

LEMMA PendingNothing ==
  ASSUME NEW g \in Figures, NEW l, NEW r, l # "liq_count", r.evs = <<>>, r.social = 0
  PROVE  Pending(g, l, r) = 0
<1>1. Total(r.evs, g) = 0
  BY TotalEmpty
<1> QED
  BY <1>1 DEF Pending

(* Steps before a command has made its first event.                        *)
LEMMA EmptyHandsAccounted ==
  ASSUME TypeOK, NEW t \in Tasks, InOrder(pc[t], req[t]), SameRecords,
         pc[t] \in HoldsNoEvents, pc'[t] \in HoldsNoEvents \cup {"fund_upsert", "liq_remove"},
         req'[t] \in Request, req'[t].evs = <<>>, req'[t].social = 0
  PROVE  Accounted(t)
<1>1. req[t].evs = <<>> /\ req[t].social = 0 /\ pc[t] # "liq_count" /\ pc'[t] # "liq_count"
  BY DEF InOrder, HoldsNoEvents, HoldsLoss
<1>2. \A g \in Figures : Drift(g, t) = 0
  BY <1>1, SameRecordsDrift, PendingNothing
<1>3. Total(<<>>, "FundingSettled") = 0 /\ Len(<<>>) = 0
  BY TotalEmpty
<1>4. InOrder(pc'[t], req'[t])
  BY <1>1, <1>3 DEF InOrder
<1> QED
  BY <1>2, <1>4 DEF Accounted

(* Steps that make an event the figures do not count.                      *)
LEMMA OtherEventAccounted ==
  ASSUME TypeOK, NEW t \in Tasks, InOrder(pc[t], req[t]), SameRecords,
         pc[t] \in HoldsNoEvents, pc'[t] \in {"close_count", "publish"},
         req'[t] \in Request, req'[t].social = 0,
         NEW e \in Event, e.type \in {"PositionOpened", "PositionClosed", "MarketUpdated"},
         req'[t].evs = <<e>>
  PROVE  Accounted(t)
<1>1. req[t].evs = <<>> /\ req[t].social = 0 /\ pc[t] # "liq_count"
  BY DEF InOrder, HoldsNoEvents, HoldsLoss
<1>2. ASSUME NEW g \in Figures PROVE Drift(g, t) = 0
  <2>1. Pending(g, pc[t], req[t]) = 0
    BY <1>1, PendingNothing
  <2>2. Total(req'[t].evs, g) = 0
    BY TotalOne, AmountOf
  <2>3. Pending(g, pc'[t], req'[t]) = 0
    BY <2>2, PendingPlain
  <2> QED
    BY <2>1, <2>3, SameRecordsDrift
<1>3. InOrder(pc'[t], req'[t])
  BY DEF InOrder, HoldsNoEvents
<1> QED
  BY <1>2, <1>3 DEF Accounted

LEMMA OpenAccounted ==
  ASSUME TypeOK, TypeOK', TasksInOrder, NEW t \in Tasks,
         \/ \E c \in OpenCommand : OpenGet(t, c)
         \/ \E k \in Keys : CloseRemove(t, k)
         \/ \E s \in Symbols : FundMarket(t, s) \/ LiqMarket(t, s)
         \/ OpenUpsert(t)
  PROVE  Accounted(t)
<1>1. SameRecords
  BY DEF SameRecords, OpenGet, CloseRemove, FundMarket, LiqMarket, OpenUpsert
<1>2. req'[t].evs = req[t].evs /\ req'[t].social = req[t].social
  BY Held DEF OpenGet, CloseRemove, FundMarket, LiqMarket, OpenUpsert, Request, TypeOK, LocalsOK
<1>3. pc[t] \in HoldsNoEvents /\ pc'[t] \in HoldsNoEvents
  BY DEF OpenGet, CloseRemove, FundMarket, LiqMarket, OpenUpsert, Goto, Begin,
         HoldsNoEvents, TypeOK, LocalsOK
<1>4. req'[t] \in Request
  BY DEF TypeOK, LocalsOK
<1>5. InOrder(pc[t], req[t]) /\ req[t].evs = <<>> /\ req[t].social = 0
  BY <1>3 DEF TasksInOrder, InOrder, HoldsNoEvents, HoldsLoss
<1> QED
  BY <1>1, <1>2, <1>3, <1>4, <1>5, EmptyHandsAccounted

LEMMA ScanAccounted ==
  ASSUME TypeOK, TypeOK', TasksInOrder, NEW t \in Tasks, FundScan(t) \/ LiqScan(t)
  PROVE  Accounted(t)
<1>1. SameRecords
  BY DEF SameRecords, FundScan, LiqScan
<1>2. pc[t] \in HoldsNoEvents
  BY DEF FundScan, LiqScan, HoldsNoEvents
<1>3. InOrder(pc[t], req[t]) /\ req[t].evs = <<>> /\ req[t].social = 0
  BY <1>2 DEF TasksInOrder, InOrder, HoldsNoEvents, HoldsLoss
<1>4. \/ Reply(t, <<>>)
      \/ \E q : Moved(t, [req[t] EXCEPT !.todo = q], "fund_upsert")
      \/ \E q : Moved(t, [req[t] EXCEPT !.todo = q], "liq_remove")
  BY DEF FundScan, LiqScan, Goto, Moved
<1>5. /\ req'[t].evs = <<>> /\ req'[t].social = 0
      /\ pc'[t] \in HoldsNoEvents \cup {"fund_upsert", "liq_remove"}
  <2>1. CASE Reply(t, <<>>)
    <3>1. <<>> \in Seq(Event) /\ LocalsOK
      BY DEF TypeOK
    <3>2. req'[t].evs = <<>> /\ req'[t].social = 0 /\ pc'[t] = "idle"
      BY <2>1, <3>1, MovedTo
    <3> QED
      BY <3>2 DEF HoldsNoEvents
  <2>2. ASSUME NEW q, NEW l, Moved(t, [req[t] EXCEPT !.todo = q], l)
        PROVE  req'[t].evs = <<>> /\ req'[t].social = 0 /\ pc'[t] = l
    <3>1. req'[t] = [req[t] EXCEPT !.todo = q] /\ pc'[t] = l
      BY <2>2, MovedTo DEF TypeOK
    <3> QED
      BY <1>3, <3>1, Held DEF Request
  <2>3. CASE \E q : Moved(t, [req[t] EXCEPT !.todo = q], "fund_upsert")
    BY <2>2, <2>3
  <2>4. CASE \E q : Moved(t, [req[t] EXCEPT !.todo = q], "liq_remove")
    BY <2>2, <2>4
  <2> QED
    BY <1>4, <2>1, <2>3, <2>4
<1>6. req'[t] \in Request
  BY DEF TypeOK, LocalsOK
<1> QED
  BY <1>1, <1>2, <1>3, <1>5, <1>6, EmptyHandsAccounted

LEMMA ReplyEventAccounted ==
  ASSUME TypeOK, TypeOK', TasksInOrder, NEW t \in Tasks,
         OpenCount(t) \/ \E u \in View : UpdateMarket(t, u)
  PROVE  Accounted(t)
<1>1. SameRecords
  BY DEF SameRecords, OpenCount, UpdateMarket, CountOpened, TypeOK, StateOK
<1>2. pc[t] \in HoldsNoEvents
  BY DEF OpenCount, UpdateMarket, Begin, HoldsNoEvents
<1>3. PICK e : /\ Reply(t, <<e>>)
               /\ e.type \in {"PositionOpened", "MarketUpdated"}
  <2>1. CASE OpenCount(t)
    <3> DEFINE e == [type |-> "PositionOpened", key |-> req[t].cur.key,
                     side |-> req[t].cur.pos.side]
    <3>1. Reply(t, <<e>>) /\ e.type = "PositionOpened"
      BY <2>1 DEF OpenCount
    <3> QED
      BY <3>1
  <2>2. ASSUME NEW u, UpdateMarket(t, u)
        PROVE  \E e : Reply(t, <<e>>) /\ e.type \in {"PositionOpened", "MarketUpdated"}
    <3> DEFINE e == [type |-> "MarketUpdated", symbol |-> u.symbol,
                     mark_price |-> u.mark_price,
                     funding_rate_bps |-> u.funding_rate_bps]
    <3>1. Reply(t, <<e>>) /\ e.type = "MarketUpdated"
      BY <2>2 DEF UpdateMarket
    <3> QED
      BY <3>1
  <2> QED
    BY <2>1, <2>2
<1>4. req' = [req EXCEPT ![t] = [Idle EXCEPT !.evs = <<e>>]]
      /\ pc' = [pc EXCEPT ![t] = "publish"]
  BY <1>3 DEF Reply, Goto
<1>5. req'[t].evs = <<e>> /\ req'[t].social = 0 /\ pc'[t] = "publish"
  BY <1>4 DEF TypeOK, LocalsOK, Idle
<1>6. req'[t] \in Request /\ e \in Event
  <2>1. req'[t] \in Request /\ req'[t].evs \in Seq(Event)
    BY DEF TypeOK, LocalsOK, Request
  <2>2. <<e>> \in Seq(Event) /\ e = <<e>>[1]
    BY <1>5, <2>1
  <2> QED
    BY <2>1, <2>2
<1> QED
  BY <1>1, <1>2, <1>3, <1>5, <1>6, OtherEventAccounted DEF TasksInOrder

LEMMA CloseMarkAccounted ==
  ASSUME TypeOK, TypeOK', TasksInOrder, NEW t \in Tasks, CloseMark(t)
  PROVE  Accounted(t)
<1>1. SameRecords
  BY DEF SameRecords, CloseMark
<1>2. pc[t] \in HoldsNoEvents
  BY DEF CloseMark, HoldsNoEvents
<1>3. InOrder(pc[t], req[t]) /\ req[t].evs = <<>> /\ req[t].social = 0
  BY <1>2 DEF TasksInOrder, InOrder, HoldsNoEvents, HoldsLoss
<1>4. req'[t] \in Request
  BY DEF TypeOK, LocalsOK
<1>5. CASE Abandon(t)
  BY <1>1, <1>2, <1>3, <1>4, <1>5, MovedTo, EmptyHandsAccounted
     DEF TypeOK, HoldsNoEvents, Idle
<1>6. CASE ~Abandon(t)
  <2>1. PICK e : /\ Moved(t, [req[t] EXCEPT !.evs = <<e>>], "close_count")
                 /\ e.type = "PositionClosed"
    <3> DEFINE e == [type |-> "PositionClosed", key |-> req[t].cur.key,
                     realized_pnl |-> RealizedPnl(req[t].cur.pos,
                                        markets[req[t].cur.key[2]].mark_price)]
    <3>1. Moved(t, [req[t] EXCEPT !.evs = <<e>>], "close_count")
      BY <1>6 DEF CloseMark, Goto, Moved
    <3>2. e.type = "PositionClosed"
      OBVIOUS
    <3> HIDE DEF e
    <3> QED
      BY <3>1, <3>2
  <2>2. req'[t] = [req[t] EXCEPT !.evs = <<e>>] /\ pc'[t] = "close_count"
    BY <2>1, MovedTo DEF TypeOK
  <2>3. req'[t].evs = <<e>> /\ req'[t].social = 0
    BY <1>3, <2>2, Held DEF Request
  <2>4. e \in Event
    <3>1. <<e>> \in Seq(Event)
      BY <1>4, <2>3 DEF Request
    <3>2. e = <<e>>[1]
      OBVIOUS
    <3> QED
      BY <3>1, <3>2
  <2> QED
    BY <1>1, <1>2, <1>3, <1>4, <2>1, <2>2, <2>3, <2>4, OtherEventAccounted
<1> QED
  BY <1>5, <1>6

LEMMA CloseCountAccounted ==
  ASSUME TypeOK, TypeOK', TasksInOrder, NEW t \in Tasks, CloseCount(t)
  PROVE  Accounted(t)
<1>1. SameRecords
  BY DEF SameRecords, CloseCount, TypeOK, StateOK
<1>2. req[t].evs \in Seq(Event) /\ req[t].evs # <<>> /\ pc[t] = "close_count"
  BY Held DEF CloseCount
<1>3. req'[t].evs = req[t].evs /\ req'[t].social = 0 /\ pc'[t] = "publish"
  BY <1>2, MovedTo DEF TypeOK, CloseCount
<1>4. req'[t] \in Request
  BY DEF TypeOK, LocalsOK
<1>5. req[t].social = 0
  BY <1>2 DEF TasksInOrder, InOrder, HoldsLoss
<1>6. ASSUME NEW g \in Figures PROVE Drift(g, t) = 0
  <2>1. Pending(g, pc[t], req[t]) = Pending(g, pc'[t], req'[t])
    BY <1>2, <1>3, <1>5, PendingPlain
  <2>2. Pending(g, pc[t], req[t]) \in Int
    BY Held, PendingType
  <2> QED
    BY <1>1, <1>4, <2>1, <2>2, SameRecordsDrift
<1>7. InOrder(pc'[t], req'[t])
  BY <1>3 DEF InOrder, HoldsNoEvents
<1> QED
  BY <1>6, <1>7 DEF Accounted

LEMMA FundUpsertAccounted ==
  ASSUME TypeOK, TypeOK', TasksInOrder, NEW t \in Tasks, FundUpsert(t)
  PROVE  Accounted(t)
<1>1. SameRecords
  BY DEF SameRecords, FundUpsert
<1>2. req[t] \in Request /\ req[t].evs \in Seq(Event) /\ pc[t] = "fund_upsert"
  BY Held DEF FundUpsert
<1>3. PICK q, e, l :
        /\ Moved(t, [req[t] EXCEPT !.todo = q, !.evs = Append(req[t].evs, e)], l)
        /\ e.type = "FundingSettled" /\ l \in {"fund_upsert", "fund_count"}
  <2> DEFINE a(d) == FundingPayment(d.pos, req[t].view.mark_price,
                                    req[t].view.funding_rate_bps)
             e(d) == [type |-> "FundingSettled", key |-> d.key, amount |-> a(d)]
             l(d) == IF req[t].todo \ {d} = {} THEN "fund_count" ELSE "fund_upsert"
  <2>0. PICK d \in req[t].todo :
          /\ req' = [req EXCEPT ![t].todo = req[t].todo \ {d},
                                ![t].evs = Append(req[t].evs, e(d))]
          /\ Goto(t, l(d))
    BY DEF FundUpsert
  <2>1. Moved(t, [req[t] EXCEPT !.todo = req[t].todo \ {d},
                                !.evs = Append(req[t].evs, e(d))], l(d))
    BY <2>0 DEF Moved, Goto
  <2>2. e(d).type = "FundingSettled" /\ l(d) \in {"fund_upsert", "fund_count"}
    OBVIOUS
  <2> HIDE DEF e, l
  <2> QED
    BY <2>1, <2>2
<1>4. req'[t] = [req[t] EXCEPT !.todo = q, !.evs = Append(req[t].evs, e)] /\ pc'[t] = l
  BY <1>3, MovedTo DEF TypeOK
<1>5. req'[t].evs = Append(req[t].evs, e) /\ req'[t].social = req[t].social
  BY <1>2, <1>4 DEF Request
<1>6. req'[t] \in Request /\ e \in Event
  <2>1. req'[t] \in Request /\ req'[t].evs \in Seq(Event)
    BY DEF TypeOK, LocalsOK, Request
  <2>2. e = Append(req[t].evs, e)[Len(req[t].evs) + 1]
        /\ Len(Append(req[t].evs, e)) = Len(req[t].evs) + 1 /\ Len(req[t].evs) \in Nat
    BY <1>2
  <2> QED
    BY <1>5, <2>1, <2>2
<1>7. InOrder(pc[t], req[t]) /\ req[t].social = 0
      /\ Total(req[t].evs, "FundingSettled") = Len(req[t].evs)
  BY <1>2 DEF TasksInOrder, InOrder, HoldsLoss
<1>8. ASSUME NEW g \in Figures
      PROVE  Total(req'[t].evs, g) = Total(req[t].evs, g)
                                       + (IF g = "FundingSettled" THEN 1 ELSE 0)
  <2>1. Total(req'[t].evs, g) = Total(req[t].evs, g) + Amount(g, e)
    BY <1>2, <1>5, <1>6, TotalAppend
  <2>2. Amount(g, e) = IF g = "FundingSettled" THEN 1 ELSE 0
    BY <1>3, AmountOf
  <2> QED
    BY <2>1, <2>2
<1>9. ASSUME NEW g \in Figures PROVE Drift(g, t) = 0
  <2>1. Pending(g, pc'[t], req'[t]) = Pending(g, pc[t], req[t])
    <3>1. CASE g = "FundingSettled"
      BY <1>2, <1>3, <1>4, <3>1 DEF Pending
    <3>2. CASE g # "FundingSettled"
      <4>1. Total(req'[t].evs, g) = Total(req[t].evs, g)
        BY <1>2, <1>8, <3>2, TotalType
      <4>2. pc[t] # "liq_count" /\ pc'[t] # "liq_count"
        BY <1>2, <1>3, <1>4
      <4> QED
        BY <1>5, <3>2, <4>1, <4>2 DEF Pending
    <3> QED
      BY <3>1, <3>2
  <2>2. Pending(g, pc[t], req[t]) \in Int
    BY <1>2, PendingType
  <2> QED
    BY <1>1, <1>6, <2>1, <2>2, SameRecordsDrift
<1>10. InOrder(pc'[t], req'[t])
  <2>1. "FundingSettled" \in Figures /\ Len(req'[t].evs) = Len(req[t].evs) + 1
    BY <1>2, <1>5 DEF Figures
  <2>2. Total(req'[t].evs, "FundingSettled") = Len(req'[t].evs)
    BY <1>7, <1>8, <2>1
  <2> QED
    BY <1>3, <1>4, <1>5, <1>7, <2>2 DEF InOrder, HoldsNoEvents
<1> QED
  BY <1>9, <1>10 DEF Accounted

LEMMA FundCountAccounted ==
  ASSUME TypeOK, TypeOK', TasksInOrder, NEW t \in Tasks, FundCount(t)
  PROVE  Accounted(t)
<1> DEFINE evs == req[t].evs
<1>1. evs \in Seq(Event) /\ pc[t] = "fund_count" /\ Len(evs) \in Nat
  BY Held DEF FundCount
<1>2. req[t].social = 0 /\ Total(evs, "FundingSettled") = Len(evs)
  BY <1>1 DEF TasksInOrder, InOrder, HoldsLoss
<1>3. /\ req'[t].evs = evs /\ req'[t].social = 0
      /\ pc'[t] = IF evs = <<>> THEN "idle" ELSE "publish"
  BY <1>1, MovedTo DEF TypeOK, FundCount
<1>4. bus' = bus /\ book' = book /\ stats' = [stats EXCEPT !.funding_settlements = @ + Len(evs)]
  BY DEF FundCount
<1>5. ASSUME NEW g \in Figures PROVE Drift(g, t) = 0
  <2>1. /\ Total(bus, g) \in Int /\ Total(bus', g) = Total(bus, g) /\ Recorded(g) \in Int
        /\ Total(evs, g) \in Int
    <3>1. bus \in Seq(Event) /\ bus' = bus
      BY <1>4 DEF TypeOK, StateOK
    <3>2. Recorded(g) \in Int
      BY DEF TypeOK, StateOK, Recorded
    <3> HIDE DEF evs
    <3> QED
      BY <1>1, <3>1, <3>2, TotalType
  <2>2. Recorded(g)' - Recorded(g) = IF g = "FundingSettled" THEN Len(evs) ELSE 0
    <3> HIDE DEF evs
    <3>1. /\ stats.liquidations \in Nat /\ stats.funding_settlements \in Nat
          /\ stats.adl_events \in Nat
          /\ book.shortfalls \in Nat /\ book.socialized \in Nat
      BY DEF TypeOK, StateOK
    <3>2. /\ stats'.liquidations = stats.liquidations
          /\ stats'.funding_settlements = stats.funding_settlements + Len(evs)
          /\ stats'.adl_events = stats.adl_events
      BY <1>4 DEF TypeOK, StateOK
    <3> QED
      BY <1>1, <1>4, <3>1, <3>2 DEF Recorded
  <2>3. Pending(g, pc[t], req[t]) = IF g = "FundingSettled" THEN 0 ELSE Total(evs, g)
    BY <1>1, <1>2, <2>1 DEF Pending
  <2>4. Pending(g, pc'[t], req'[t]) = Total(evs, g)
    BY <1>3, <2>1, PendingPlain
  <2> QED
    BY <1>1, <1>2, <2>1, <2>2, <2>3, <2>4 DEF Drift
<1>6. InOrder(pc'[t], req'[t])
  BY <1>3 DEF InOrder, HoldsNoEvents
<1> QED
  BY <1>5, <1>6 DEF Accounted

LEMMA LiqRemoveAccounted ==
  ASSUME TypeOK, TypeOK', TasksInOrder, NEW t \in Tasks, LiqRemove(t)
  PROVE  Accounted(t)
<1>1. SameRecords
  BY DEF SameRecords, LiqRemove
<1>2. req[t] \in Request /\ pc[t] = "liq_remove" /\ req'[t] \in Request
  BY Held DEF LiqRemove, TypeOK, LocalsOK
<1>3. PICK e \in req[t].todo :
        Moved(t, [req[t] EXCEPT !.todo = req[t].todo \ {e}, !.cur = e], "liq_settle")
  BY DEF LiqRemove, Goto, Moved
<1>4. req'[t] = [req[t] EXCEPT !.todo = req[t].todo \ {e}, !.cur = e]
      /\ pc'[t] = "liq_settle"
  BY <1>3, MovedTo DEF TypeOK
<1>5. req'[t].evs = req[t].evs /\ req'[t].social = req[t].social
  BY <1>2, <1>4 DEF Request
<1>6. ASSUME NEW g \in Figures PROVE Drift(g, t) = 0
  <2>1. Pending(g, pc[t], req[t]) = Pending(g, pc'[t], req'[t])
    <3>1. pc[t] = "liq_remove" /\ pc'[t] = "liq_settle"
      BY <1>2, <1>4
    <3> QED
      BY <1>5, <3>1 DEF Pending
  <2>2. Pending(g, pc[t], req[t]) \in Int
    BY <1>2, PendingType
  <2> QED
    BY <1>1, <1>2, <2>1, <2>2, SameRecordsDrift
<1>7. InOrder(pc'[t], req'[t])
  BY <1>4 DEF InOrder, HoldsNoEvents, HoldsLoss
<1> QED
  BY <1>6, <1>7 DEF Accounted

(* What LiqSettle does to the history and to the events of its sweep.      *)
LEMMA LiqSettleRecords ==
  ASSUME TypeOK, NEW t \in Tasks, LiqSettle(t)
  PROVE  \E drawn, loss \in Due, e \in Event :
           /\ e.type = "Liquidated" /\ e.insurance_draw = drawn /\ e.socialized_loss = loss
           /\ book'.shortfalls - book'.socialized = book.shortfalls - book.socialized + drawn
           /\ book'.socialized = book.socialized + loss
           /\ Moved(t, [req[t] EXCEPT !.social = SatAdd(req[t].social, loss),
                                      !.evs = Append(req[t].evs, e)], "liq_count")
<1> DEFINE cur == req[t].cur
           equity == PositionEquity(cur.pos, req[t].view.mark_price)
<1>1. req[t] \in Request /\ cur \in Snapshot /\ req[t].view \in View /\ req[t].social \in Due
  BY Held DEF LiqSettle, HoldsView, HoldsPosition
<1>2. cur.pos \in Position /\ cur.key \in Keys /\ req[t].view.mark_price \in Price
  BY <1>1 DEF Snapshot, View
<1>3. equity \in Usd /\ equity \in Int
  BY <1>2, EquityType, MathAssumption DEF Usd, UsdMin
<1>4. book \in [fees : Nat, shortfalls : Nat, socialized : Nat]
  BY DEF TypeOK, StateOK
<1>5. CASE equity < 0
  <2> DEFINE shortfall == SatNeg(equity)
             c == Cover(insurance, shortfall)
             e == Liquidated(cur.key, "Bankruptcy", c.drawn, c.socialized)
  <2>1. shortfall \in Usd /\ shortfall >= 0 /\ insurance \in Usd
    BY <1>3, <1>5, SaturateType DEF SatNeg, TypeOK, StateOK
  <2>2. SettleBankrupt(t, equity) /\ Goto(t, "liq_count")
    BY <1>5 DEF LiqSettle
  <2>3. /\ Moved(t, [req[t] EXCEPT !.social = SatAdd(req[t].social, c.socialized),
                                   !.evs = Append(req[t].evs, e)], "liq_count")
        /\ book' = [book EXCEPT !.shortfalls = @ + shortfall, !.socialized = @ + c.socialized]
    BY <2>2 DEF SettleBankrupt, Goto, Moved
  <2> HIDE DEF shortfall
  <2>4. c.drawn \in Due /\ c.socialized \in Due /\ c.drawn + c.socialized = shortfall
    BY <2>1, CoverSplits, DueIsUsd
  <2> HIDE DEF c
  <2>5. e \in Event
    BY <1>2, <2>4, EventTypes
  <2>6. e.type = "Liquidated" /\ e.insurance_draw = c.drawn /\ e.socialized_loss = c.socialized
    BY DEF Liquidated
  <2> HIDE DEF e
  <2>7. /\ book'.shortfalls = book.shortfalls + shortfall
        /\ book'.socialized = book.socialized + c.socialized
    BY <1>4, <2>3
  <2>8. c.drawn \in Nat /\ c.socialized \in Nat /\ book.shortfalls \in Nat
        /\ book.socialized \in Nat
    BY <1>4, <2>4, DueIsUsd
  <2>9. book'.shortfalls - book'.socialized = book.shortfalls - book.socialized + c.drawn
    BY <2>4, <2>7, <2>8
  <2> QED
    BY <2>3, <2>4, <2>5, <2>6, <2>7, <2>9
<1>6. CASE ~(equity < 0)
  <2> DEFINE e == Liquidated(cur.key, "MaintenanceBreach", 0, 0)
  <2>1. SettleSolvent(t, equity) /\ Goto(t, "liq_count")
    BY <1>6 DEF LiqSettle
  <2>2. SatAdd(req[t].social, 0) = req[t].social
    <3>1. req[t].social \in Usd /\ req[t].social + 0 = req[t].social /\ req[t].social \in Int
      BY <1>1, DueIsUsd, MathAssumption DEF Usd, UsdMin
    <3> QED
      BY <3>1, SaturateType DEF SatAdd
  <2>3. req' = [req EXCEPT ![t].evs = Append(@, e)]
        /\ pc' = [pc EXCEPT ![t] = "liq_count"]
        /\ \E fee : book' = [book EXCEPT !.fees = fee]
    BY <2>1 DEF SettleSolvent, Goto
  <2>4. 0 \in Due
    BY MathAssumption DEF Due
  <2>5. e \in Event /\ e.type = "Liquidated" /\ e.insurance_draw = 0 /\ e.socialized_loss = 0
    <3>1. e \in Event
      BY <1>2, <2>4, EventTypes
    <3> QED
      BY <3>1 DEF Liquidated
  <2> HIDE DEF e
  <2>6. [req[t] EXCEPT !.evs = Append(req[t].evs, e)]
          = [req[t] EXCEPT !.social = SatAdd(req[t].social, 0), !.evs = Append(req[t].evs, e)]
    BY <1>1, <2>2 DEF Request
  <2>7. Moved(t, [req[t] EXCEPT !.social = SatAdd(req[t].social, 0),
                                !.evs = Append(req[t].evs, e)], "liq_count")
    BY <2>3, <2>6 DEF Moved
  <2>8. /\ book'.shortfalls - book'.socialized = book.shortfalls - book.socialized + 0
        /\ book'.socialized = book.socialized + 0
    BY <1>4, <2>3
  <2> QED
    BY <2>4, <2>5, <2>7, <2>8
<1> QED
  BY <1>5, <1>6

(* A sweep's step is exact, but for the sum that it announces: that one    *)
(* may saturate.                                                           *)
LEMMA LiqSettleStep ==
  ASSUME TypeOK, TypeOK', TasksInOrder, NEW t \in Tasks, LiqSettle(t)
  PROVE  /\ InOrder(pc'[t], req'[t])
         /\ \A g \in Figures : Drift(g, t) >= 0
         /\ \A g \in Figures :
              g # "announced" \/ req[t].social + (book'.socialized - book.socialized) <= UsdMax
                => Drift(g, t) = 0
<1> DEFINE evs == req[t].evs
           social == req[t].social
<1>1. PICK drawn, loss \in Due, e \in Event :
        /\ e.type = "Liquidated" /\ e.insurance_draw = drawn /\ e.socialized_loss = loss
        /\ book'.shortfalls - book'.socialized = book.shortfalls - book.socialized + drawn
        /\ book'.socialized = book.socialized + loss
        /\ Moved(t, [req[t] EXCEPT !.social = SatAdd(social, loss),
                                   !.evs = Append(evs, e)], "liq_count")
  BY LiqSettleRecords
<1>2. req[t] \in Request /\ evs \in Seq(Event) /\ social \in Due /\ pc[t] = "liq_settle"
  BY Held DEF LiqSettle
<1>3. /\ req'[t].evs = Append(evs, e) /\ req'[t].social = SatAdd(social, loss)
      /\ pc'[t] = "liq_count"
  <2>1. req'[t] = [req[t] EXCEPT !.social = SatAdd(social, loss), !.evs = Append(evs, e)]
        /\ pc'[t] = "liq_count"
    BY <1>1, MovedTo DEF TypeOK
  <2> QED
    BY <1>2, <2>1 DEF Request
<1>4. /\ drawn \in Nat /\ loss \in Nat /\ social \in Nat
      /\ SatAdd(social, loss) \in Nat
      /\ SatAdd(social, loss) <= social + loss
      /\ social + loss <= UsdMax => SatAdd(social, loss) = social + loss
  <2> HIDE DEF social
  <2>1. drawn \in Due /\ loss \in Due /\ social \in Due
    BY <1>1, <1>2
  <2>2. SatAdd(social, loss) \in Due
    BY <2>1, DueIsUsd
  <2>3. /\ SatAdd(social, loss) <= social + loss
        /\ social + loss <= UsdMax => SatAdd(social, loss) = social + loss
    BY <2>1, DueIsUsd
  <2> QED
    BY <2>1, <2>2, <2>3, DueIsUsd
<1>5. bus' = bus /\ stats' = stats
  BY DEF LiqSettle
<1>6. book.shortfalls \in Nat /\ book.socialized \in Nat
      /\ book'.shortfalls \in Nat /\ book'.socialized \in Nat
  BY DEF TypeOK, StateOK
<1> HIDE DEF evs, social
<1>7. ASSUME NEW g \in Figures
      PROVE  Drift(g, t) = IF g = "announced" THEN loss - (SatAdd(social, loss) - social) ELSE 0
  <2>1. /\ Total(bus, g) \in Int /\ Total(bus', g) = Total(bus, g)
        /\ Total(evs, g) \in Int
    BY <1>2, <1>5, TotalType DEF TypeOK, StateOK
  <2>2. Recorded(g) \in Int
    BY DEF TypeOK, StateOK, Recorded
  <2>3. Recorded(g)' - Recorded(g) =
          IF g = "drawn" THEN drawn
          ELSE IF g \in {"socialized", "announced"} THEN loss ELSE 0
    <3>1. CASE g \in {"Liquidated", "FundingSettled", "AutoDeleveraged"}
      BY <1>5, <2>2, <3>1 DEF Recorded
    <3>2. CASE g = "drawn"
      BY <1>1, <1>4, <1>6, <3>2 DEF Recorded
    <3>3. CASE g \in {"socialized", "announced"}
      BY <1>1, <1>4, <1>6, <3>3 DEF Recorded
    <3> QED
      BY <3>1, <3>2, <3>3 DEF Figures
  <2>4. Total(Append(evs, e), g) = Total(evs, g) + Amount(g, e)
    BY <1>2, TotalAppend
  <2>5. Amount(g, e) = IF g = "Liquidated" THEN 1
                       ELSE IF g = "drawn" THEN drawn
                       ELSE IF g = "socialized" THEN loss ELSE 0
    BY <1>1, AmountOf
  <2>6. Pending(g, pc[t], req[t]) = IF g = "announced" THEN Total(evs, g) + social
                                                      ELSE Total(evs, g)
    BY <1>2, PendingPlain DEF evs, social
  <2>7. Pending(g, pc'[t], req'[t]) =
          IF g = "Liquidated" THEN Total(Append(evs, e), g) - 1
          ELSE IF g = "announced" THEN Total(Append(evs, e), g) + SatAdd(social, loss)
          ELSE Total(Append(evs, e), g)
    BY <1>3 DEF Pending
  <2> QED
    BY <1>4, <2>1, <2>2, <2>3, <2>4, <2>5, <2>6, <2>7 DEF Drift
<1>8. InOrder(pc'[t], req'[t])
  <2>1. "Liquidated" \in Figures
    BY DEF Figures
  <2>2. Total(Append(evs, e), "Liquidated") = Total(evs, "Liquidated") + 1
    BY <1>1, <1>2, <2>1, TotalAppend, AmountOf
  <2>3. Total(evs, "Liquidated") \in Nat
    BY <1>2, <2>1, TotalType
  <2> QED
    BY <1>3, <2>2, <2>3 DEF InOrder, HoldsNoEvents, HoldsLoss
<1> QED
  BY <1>1, <1>4, <1>6, <1>7, <1>8 DEF social

LEMMA LiqCountAccounted ==
  ASSUME TypeOK, TypeOK', TasksInOrder, NEW t \in Tasks, LiqCount(t)
  PROVE  Accounted(t)
<1> DEFINE evs == req[t].evs
<1>1. req[t] \in Request /\ evs \in Seq(Event) /\ req[t].social \in Nat /\ pc[t] = "liq_count"
  BY Held, DueIsUsd DEF LiqCount
<1>2. /\ req'[t] = req[t] /\ pc'[t] \in {"liq_finish", "liq_remove"}
      /\ bus' = bus /\ book' = book
      /\ stats'.liquidations = stats.liquidations + 1
      /\ stats'.funding_settlements = stats.funding_settlements
      /\ stats'.adl_events = stats.adl_events
  BY DEF LiqCount, Goto, TypeOK, StateOK, LocalsOK
<1>3. ASSUME NEW g \in Figures PROVE Drift(g, t) = 0
  <2>1. /\ Total(bus, g) \in Int /\ Total(bus', g) = Total(bus, g)
        /\ Total(evs, g) \in Int
    BY <1>1, <1>2, TotalType DEF TypeOK, StateOK
  <2>2. Recorded(g) \in Int
    BY DEF TypeOK, StateOK, Recorded
  <2>3. Recorded(g)' - Recorded(g) = IF g = "Liquidated" THEN 1 ELSE 0
    <3>1. stats.liquidations \in Int
      BY DEF TypeOK, StateOK
    <3> QED
      BY <1>2, <2>2, <3>1 DEF Recorded
  <2>4. Pending(g, pc[t], req[t]) =
          IF g = "Liquidated" THEN Total(evs, g) - 1
          ELSE IF g = "announced" THEN Total(evs, g) + req[t].social ELSE Total(evs, g)
    BY <1>1 DEF Pending
  <2>5. Pending(g, pc'[t], req'[t]) =
          IF g = "announced" THEN Total(evs, g) + req[t].social ELSE Total(evs, g)
    BY <1>2 DEF Pending
  <2> QED
    BY <1>1, <2>1, <2>2, <2>3, <2>4, <2>5 DEF Drift
<1>4. InOrder(pc'[t], req'[t])
  BY <1>2 DEF InOrder, HoldsNoEvents, HoldsLoss
<1> QED
  BY <1>3, <1>4 DEF Accounted

LEMMA LiqFinishAccounted ==
  ASSUME TypeOK, TypeOK', TasksInOrder, NEW t \in Tasks, LiqFinish(t)
  PROVE  Accounted(t)
<1> DEFINE evs == req[t].evs
           social == req[t].social
           e == [type |-> "AutoDeleveraged", symbol |-> req[t].view.symbol,
                 socialized_loss |-> social]
           sent == IF social # 0 THEN Append(evs, e) ELSE evs
           n == IF social # 0 THEN 1 ELSE 0
<1>1. /\ evs \in Seq(Event) /\ social \in Due /\ social \in Nat /\ pc[t] = "liq_finish"
      /\ req[t].view \in View
  BY Held, DueIsUsd DEF LiqFinish, HoldsView
<1>2. e \in Event /\ e.type = "AutoDeleveraged" /\ e.socialized_loss = social
  BY <1>1, EventTypes DEF View
<1>3. /\ Reply(t, sent) /\ bus' = bus /\ book' = book
      /\ stats'.liquidations = stats.liquidations
      /\ stats'.funding_settlements = stats.funding_settlements
      /\ stats'.adl_events = stats.adl_events + n
  BY DEF LiqFinish, TypeOK, StateOK
<1> HIDE DEF e, evs, social
<1>4. sent \in Seq(Event)
  BY <1>1, <1>2
<1>5. /\ req'[t].evs = sent /\ req'[t].social = 0
      /\ pc'[t] = IF sent = <<>> THEN "idle" ELSE "publish"
  BY <1>3, <1>4, MovedTo DEF TypeOK
<1>6. ASSUME NEW g \in Figures PROVE Drift(g, t) = 0
  <2>1. /\ Total(bus, g) \in Int /\ Total(bus', g) = Total(bus, g)
        /\ Total(evs, g) \in Int
    BY <1>1, <1>3, TotalType DEF TypeOK, StateOK
  <2>2. Recorded(g) \in Int
    BY DEF TypeOK, StateOK, Recorded
  <2>3. Recorded(g)' - Recorded(g) = IF g = "AutoDeleveraged" THEN n ELSE 0
    <3>1. stats.adl_events \in Int
      BY DEF TypeOK, StateOK
    <3> QED
      BY <1>3, <2>2, <3>1 DEF Recorded
  <2>4. Pending(g, pc[t], req[t]) =
          IF g = "announced" THEN Total(evs, g) + social ELSE Total(evs, g)
    BY <1>1 DEF Pending, evs, social
  <2>5. Total(sent, g) = Total(evs, g) + (IF g = "AutoDeleveraged" THEN n
                                          ELSE IF g = "announced" THEN social ELSE 0)
    <3>1. CASE social = 0
      BY <1>1, <2>1, <3>1
    <3>2. CASE social # 0
      <4>1. Total(Append(evs, e), g) = Total(evs, g) + Amount(g, e)
        BY <1>1, <1>2, TotalAppend
      <4>2. Amount(g, e) = IF g = "AutoDeleveraged" THEN 1
                           ELSE IF g = "announced" THEN social ELSE 0
        BY <1>2, AmountOf
      <4> QED
        BY <3>2, <4>1, <4>2
    <3> QED
      BY <3>1, <3>2
  <2>6. Pending(g, pc'[t], req'[t]) =
          IF g = "announced" THEN Total(sent, g) + 0 ELSE Total(sent, g)
    BY <1>5, PendingPlain
  <2> QED
    BY <1>1, <2>1, <2>2, <2>3, <2>4, <2>5, <2>6 DEF Drift
<1>7. InOrder(pc'[t], req'[t])
  BY <1>5 DEF InOrder, HoldsNoEvents
<1> QED
  BY <1>6, <1>7 DEF Accounted

LEMMA PublishAccounted ==
  ASSUME TypeOK, TypeOK', TasksInOrder, NEW t \in Tasks, Publish(t)
  PROVE  Accounted(t)
<1> DEFINE evs == req[t].evs
           rest == Tail(evs)
<1>1. req[t] \in Request /\ evs \in Seq(Event) /\ evs # <<>> /\ pc[t] = "publish"
  BY Held DEF Publish
<1>2. req[t].social = 0
  BY <1>1 DEF TasksInOrder, InOrder, HoldsLoss
<1>3. Head(evs) \in Event /\ rest \in Seq(Event) /\ (Len(evs) = 1 => rest = <<>>)
  <2> HIDE DEF evs
  <2>1. Len(evs) \in Nat /\ Len(evs) # 0
    BY <1>1
  <2>2. Head(evs) \in Event /\ rest \in Seq(Event) /\ Len(rest) = Len(evs) - 1
    BY <1>1, <2>1
  <2>3. \A q \in Seq(Event) : Len(q) = 0 => q = <<>>
    OBVIOUS
  <2> QED
    BY <2>1, <2>2, <2>3
<1>4. bus' = Append(bus, Head(evs)) /\ book' = book /\ stats' = stats
  BY DEF Publish
<1>5. /\ req'[t].evs = rest /\ req'[t].social = 0
      /\ pc'[t] \in {"idle", "publish"} /\ (pc'[t] = "idle" => rest = <<>>)
  <2>1. CASE Len(evs) = 1
    <3>1. Abandon(t) /\ LocalsOK
      BY <2>1 DEF Publish, TypeOK
    <3>2. req'[t] = Idle /\ pc'[t] = "idle"
      BY <3>1, MovedTo
    <3>3. Idle.evs = <<>> /\ Idle.social = 0
      BY DEF Idle
    <3> QED
      BY <1>3, <2>1, <3>2, <3>3
  <2>2. CASE Len(evs) # 1
    <3>1. req'[t] = [req[t] EXCEPT !.evs = rest] /\ pc'[t] = "publish"
      BY <1>1, <2>2 DEF Publish, TypeOK, LocalsOK
    <3> QED
      BY <1>1, <1>2, <3>1 DEF Request
  <2> QED
    BY <2>1, <2>2
<1> HIDE DEF evs, rest
<1>6. ASSUME NEW g \in Figures PROVE Drift(g, t) = 0
  <2>1. /\ Total(bus, g) \in Int /\ Total(rest, g) \in Int /\ Amount(g, Head(evs)) \in Int
        /\ Total(bus', g) = Total(bus, g) + Amount(g, Head(evs))
    BY <1>3, <1>4, TotalType, TotalAppend, AmountType DEF TypeOK, StateOK
  <2>2. Recorded(g)' = Recorded(g) /\ Recorded(g) \in Int
    BY <1>4 DEF TypeOK, StateOK, Recorded
  <2>3. Total(evs, g) = Amount(g, Head(evs)) + Total(rest, g)
    BY <1>1, TotalHead DEF rest
  <2>4. Pending(g, pc[t], req[t]) = Total(evs, g)
    <3>1. Total(evs, g) \in Int
      BY <1>1, TotalType
    <3> QED
      BY <1>1, <1>2, <3>1, PendingPlain DEF evs
  <2>5. Pending(g, pc'[t], req'[t]) = Total(rest, g)
    BY <1>5, <2>1, PendingPlain
  <2> QED
    BY <2>1, <2>2, <2>3, <2>4, <2>5 DEF Drift
<1>7. InOrder(pc'[t], req'[t])
  BY <1>5 DEF InOrder, HoldsNoEvents
<1> QED
  BY <1>6, <1>7 DEF Accounted

(* A port that fails drops what its command had recorded and not published.*)
LEMMA PortFailureDrops ==
  ASSUME TypeOK, TypeOK', TasksInOrder, NEW t \in Tasks, StoreFails(t) \/ SinkFails(t)
  PROVE  InOrder(pc'[t], req'[t]) /\ \A g \in Figures : Drift(g, t) >= 0
<1>1. req'[t] = Idle /\ pc'[t] = "idle"
  BY MovedTo DEF TypeOK, StoreFails, SinkFails
<1>2. SameRecords
  BY DEF SameRecords, StoreFails, SinkFails
<1>3. Idle.evs = <<>> /\ Idle.social = 0
  BY DEF Idle
<1>4. req'[t] \in Request /\ req[t] \in Request
  BY DEF TypeOK, LocalsOK
<1>5. ASSUME NEW g \in Figures PROVE Drift(g, t) >= 0
  <2>1. Pending(g, pc[t], req[t]) \in Nat
    BY <1>4, PendingType DEF TasksInOrder
  <2>2. Pending(g, pc'[t], req'[t]) = 0
    BY <1>1, <1>3, PendingNothing
  <2> QED
    BY <1>2, <1>4, <2>1, <2>2, SameRecordsDrift
<1>6. InOrder(pc'[t], req'[t])
  BY <1>1, <1>3 DEF InOrder
<1> QED
  BY <1>5, <1>6

LEMMA LiqSettleOrAccounted ==
  ASSUME TypeOK, TypeOK', TasksInOrder, NEW t \in Tasks, AnyStart(t) \/ Continue(t)
  PROVE  Accounted(t) \/ LiqSettle(t)
BY OpenAccounted, ScanAccounted, ReplyEventAccounted, CloseMarkAccounted,
   CloseCountAccounted, FundUpsertAccounted, FundCountAccounted, LiqRemoveAccounted,
   LiqCountAccounted, LiqFinishAccounted, PublishAccounted
   DEF AnyStart, Continue

(* Only the task that takes a step moves.                                  *)
LEMMA OthersStay ==
  ASSUME TypeOK, NEW t \in Tasks, AnyStart(t) \/ Continue(t) \/ StoreFails(t) \/ SinkFails(t)
  PROVE  \A u \in Tasks \ {t} : pc'[u] = pc[u] /\ req'[u] = req[u]
<1> DEFINE Stay == \A u \in Tasks \ {t} : pc'[u] = pc[u] /\ req'[u] = req[u]
<1>1. LocalsOK
  BY DEF TypeOK
<1>2. CASE AnyStart(t)
  BY <1>1, <1>2 DEF AnyStart, OpenGet, CloseRemove, UpdateMarket, FundMarket, LiqMarket,
     Reply, Goto, LocalsOK
<1>3. CASE Abandon(t) \/ \E events : Reply(t, events)
  BY <1>1, <1>3 DEF Abandon, Reply, Goto, LocalsOK
<1>4. CASE OpenUpsert(t) \/ CloseMark(t) \/ FundScan(t) \/ LiqScan(t) \/ Publish(t)
  BY <1>1, <1>4 DEF OpenUpsert, CloseMark, FundScan, LiqScan, Publish, Abandon, Reply,
     Goto, LocalsOK
<1>5. CASE OpenCount(t) \/ CloseCount(t) \/ FundCount(t) \/ LiqFinish(t)
  BY <1>3, <1>5 DEF OpenCount, CloseCount, FundCount, LiqFinish
<1>6. CASE FundUpsert(t) \/ LiqRemove(t) \/ LiqCount(t)
  BY <1>1, <1>6 DEF FundUpsert, LiqRemove, LiqCount, Goto, LocalsOK
<1>7. CASE LiqSettle(t)
  BY <1>1, <1>7 DEF LiqSettle, SettleBankrupt, SettleSolvent, Goto, LocalsOK
<1>8. CASE StoreFails(t) \/ SinkFails(t)
  BY <1>3, <1>8 DEF StoreFails, SinkFails
<1> QED
  BY <1>2, <1>4, <1>5, <1>6, <1>7, <1>8 DEF Continue

----------------------------------------------------------------------------
(* The stream never runs ahead of the engine, and falls behind only by     *)
(* what failing ports have dropped.                                        *)

LEMMA StreamInit == Init => TasksInOrder /\ \A g \in Figures : Surplus(g) = 0
<1> SUFFICES ASSUME Init PROVE TasksInOrder /\ \A g \in Figures : Surplus(g) = 0
  OBVIOUS
<1>1. Idle.evs = <<>> /\ Idle.social = 0
  BY DEF Idle
<1>2. TasksInOrder
  BY <1>1 DEF Init, TasksInOrder, InOrder
<1>3. ASSUME NEW g \in Figures PROVE Surplus(g) = 0
  <2> DEFINE f == [t \in Tasks |-> Pending(g, pc[t], req[t])]
  <2>1. \A t \in Tasks : f[t] = 0
    BY <1>1, PendingNothing DEF Init
  <2>2. IsFiniteSet(Tasks)
    BY EngineAssumption
  <2>3. InFlight(g) = SumFunctionOnSet(f, Tasks)
    BY DEF InFlight
  <2> HIDE DEF f
  <2>4. InFlight(g) = 0
    BY <2>1, <2>2, <2>3, SumZero
  <2>5. Recorded(g) = 0 /\ Total(bus, g) = 0
    BY TotalEmpty DEF Init, Recorded, NoStats
  <2> QED
    BY <2>4, <2>5 DEF Surplus
<1> QED
  BY <1>2, <1>3

LEMMA SurplusType ==
  ASSUME TypeOK, NEW g \in Figures
  PROVE  /\ Surplus(g) \in Int /\ Recorded(g) \in Int /\ Total(bus, g) \in Nat
         /\ TasksInOrder =>
              /\ InFlight(g) \in Nat
              /\ \A t \in Tasks : Pending(g, pc[t], req[t]) <= InFlight(g)
<1> DEFINE f == [t \in Tasks |-> Pending(g, pc[t], req[t])]
<1>1. /\ \A t \in Tasks : f[t] \in Int
      /\ TasksInOrder => \A t \in Tasks : f[t] \in Nat
  BY PendingType DEF TypeOK, LocalsOK, TasksInOrder
<1>2. IsFiniteSet(Tasks)
  BY EngineAssumption
<1>3. InFlight(g) = SumFunctionOnSet(f, Tasks) /\ \A t \in Tasks : f[t] = Pending(g, pc[t], req[t])
  BY DEF InFlight
<1> HIDE DEF f
<1>4. InFlight(g) \in Int
  BY <1>1, <1>2, <1>3, SumInt
<1>5. TasksInOrder => InFlight(g) \in Nat
  BY <1>1, <1>2, <1>3, SumNat
<1>6. TasksInOrder => \A t \in Tasks : Pending(g, pc[t], req[t]) <= InFlight(g)
  BY <1>1, <1>2, <1>3, SumBoundsTerms
<1>7. Recorded(g) \in Int /\ Total(bus, g) \in Nat
  BY TotalType DEF TypeOK, StateOK, Recorded
<1> QED
  BY <1>4, <1>5, <1>6, <1>7 DEF Surplus

LEMMA SurplusStutter ==
  ASSUME UNCHANGED vars
  PROVE  (TasksInOrder => TasksInOrder') /\ \A g : Surplus(g)' = Surplus(g)
BY DEF vars, TasksInOrder, InOrder, Surplus, Recorded, InFlight, Pending

(* A step of one task leaves every task in order.                          *)
LEMMA InOrderStep ==
  ASSUME TypeOK, TasksInOrder, NEW t \in Tasks,
         AnyStart(t) \/ Continue(t) \/ StoreFails(t) \/ SinkFails(t), InOrder(pc'[t], req'[t])
  PROVE  TasksInOrder'
<1>1. \A u \in Tasks : InOrder(pc'[u], req'[u])
  BY OthersStay DEF TasksInOrder
<1> QED
  BY <1>1 DEF TasksInOrder, InOrder

LEMMA StreamBehindStep ==
  ASSUME TypeOK, TypeOK', StreamBehind, [AnyNext]_vars
  PROVE  StreamBehind'
<1>1. TasksInOrder /\ \A g \in Figures : Surplus(g) >= 0 /\ Surplus(g) \in Int
  BY SurplusType DEF StreamBehind
<1>2. ASSUME NEW t \in Tasks,
             AnyStart(t) \/ Continue(t) \/ StoreFails(t) \/ SinkFails(t)
      PROVE  StreamBehind'
  <2>1. InOrder(pc'[t], req'[t]) /\ \A g \in Figures : Drift(g, t) >= 0
    BY <1>1, <1>2, LiqSettleOrAccounted, LiqSettleStep, PortFailureDrops DEF Accounted
  <2>2. ASSUME NEW g \in Figures PROVE Surplus(g)' >= 0
    <3>1. Surplus(g)' = Surplus(g) + Drift(g, t) /\ Drift(g, t) \in Int
      BY <1>2, OthersStay, SurplusStep
    <3> QED
      BY <1>1, <2>1, <3>1
  <2>3. TasksInOrder'
    BY <1>1, <1>2, <2>1, InOrderStep
  <2> QED
    BY <2>2, <2>3 DEF StreamBehind
<1>3. CASE Done \/ UNCHANGED vars
  BY <1>1, <1>3, SurplusStutter DEF Done, StreamBehind
<1> QED
  BY <1>2, <1>3 DEF AnyNext

LEMMA StreamNeverAhead == AnySpec => []StreamBehind
<1>1. TypeOK /\ TypeOK' /\ StreamBehind /\ [AnyNext]_vars => StreamBehind'
  BY StreamBehindStep
<1>2. Init => StreamBehind
  BY StreamInit DEF StreamBehind
<1> QED
  BY <1>1, <1>2, TypeCorrectAny, PTL DEF AnySpec

LEMMA EventsFollowEngineAny == AnySpec => []EventsNeverAhead
<1>1. TypeOK /\ StreamBehind => EventsNeverAhead
  <2> SUFFICES ASSUME TypeOK, StreamBehind PROVE EventsNeverAhead
    OBVIOUS
  <2>1. ASSUME NEW g \in Figures PROVE Total(bus, g) <= Recorded(g)
    BY SurplusType DEF StreamBehind, Surplus
  <2> QED
    BY <2>1 DEF EventsNeverAhead, Figures, Recorded
<1> QED
  BY <1>1, StreamNeverAhead, TypeCorrectAny, PTL

(* At any moment, however commands interleave and whatever port has failed,*)
(* a reader of the stream has seen no settlement, liquidation, draw or     *)
(* loss that the engine has not already made.                              *)
THEOREM EventsFollowEngine == Spec => []EventsNeverAhead
BY EventsFollowEngineAny, SpecIsAny

----------------------------------------------------------------------------
(* Without failing ports nothing is dropped: the surplus stays nought,     *)
(* also that of announced losses until the sum of a sweep may saturate.    *)

Exact(g) == g # "announced" \/ book.socialized <= UsdMax

StreamExact == \A g \in Figures : Exact(g) => Surplus(g) = 0

LEMMA SocializedGrows ==
  ASSUME TypeOK, TypeOK', [AnyNext]_vars
  PROVE  book.socialized <= book'.socialized
<1>1. book.socialized \in Int /\ book \in [fees : Nat, shortfalls : Nat, socialized : Nat]
      /\ insurance \in Usd
  BY DEF TypeOK, StateOK
<1>2. CASE book' = book
  BY <1>1, <1>2
<1>3. ASSUME NEW a \in Usd, a >= 0, TakesFee(a) PROVE book.socialized <= book'.socialized
  BY <1>1, <1>3 DEF TakesFee
<1>4. ASSUME NEW a \in Usd, a >= 0, CoversLoss(a) PROVE book.socialized <= book'.socialized
  <2> DEFINE c == Cover(insurance, a)
  <2>1. c.socialized \in Nat
    BY <1>1, <1>4, CoverSplits, MathAssumption DEF Usd, UsdMin
  <2> HIDE DEF c
  <2>2. book'.socialized = book.socialized + c.socialized
    BY <1>1, <1>4 DEF CoversLoss, c
  <2> QED
    BY <1>1, <2>1, <2>2
<1> QED
  BY <1>2, <1>3, <1>4, FundStep

LEMMA StreamExactStep ==
  ASSUME ~StoreMayFail, ~SinkMayFail,
         TypeOK, TypeOK', StreamBehind, StreamExact, [AnyNext]_vars
  PROVE  StreamExact'
<1>1. TasksInOrder
  BY DEF StreamBehind
<1> SUFFICES ASSUME NEW g \in Figures, g # "announced" \/ book'.socialized <= UsdMax
             PROVE  Surplus(g)' = 0
  BY DEF StreamExact, Exact
<1>2. book.socialized \in Nat /\ book'.socialized \in Nat /\ UsdMax \in Nat
      /\ book.socialized <= book'.socialized
  BY SocializedGrows, MathAssumption DEF TypeOK, StateOK
<1>3. Surplus(g) = 0
  BY <1>2 DEF StreamExact, Exact
<1>4. ASSUME NEW t \in Tasks, AnyStart(t) \/ Continue(t) PROVE Surplus(g)' = 0
  <2>1. Surplus(g)' = Surplus(g) + Drift(g, t)
    BY <1>4, OthersStay, SurplusStep
  <2>2. CASE Accounted(t)
    BY <1>3, <2>1, <2>2 DEF Accounted
  <2>3. CASE LiqSettle(t)
    <3>1. CASE g # "announced"
      BY <1>1, <1>3, <2>1, <2>3, <3>1, LiqSettleStep
    <3>2. CASE g = "announced"
      <4>1. InFlight(g) \in Nat /\ Total(bus, g) \in Nat /\ Recorded(g) = book.socialized
            /\ Pending(g, pc[t], req[t]) <= InFlight(g)
        BY <1>1, <3>2, SurplusType DEF Recorded
      <4>2. InFlight(g) <= book.socialized
        BY <1>2, <1>3, <4>1 DEF Surplus
      <4>3. req[t].social \in Nat /\ Total(req[t].evs, g) \in Nat
        BY Held, DueIsUsd, TotalType
      <4>4. Pending(g, pc[t], req[t]) = Total(req[t].evs, g) + req[t].social
        BY <3>2 DEF Pending
      <4>5. req[t].social + (book'.socialized - book.socialized) <= UsdMax
        BY <1>2, <3>2, <4>1, <4>2, <4>3, <4>4
      <4> QED
        BY <1>1, <1>3, <2>1, <2>3, <4>5, LiqSettleStep
    <3> QED
      BY <3>1, <3>2
  <2> QED
    BY <1>1, <1>4, <2>2, <2>3, LiqSettleOrAccounted
<1>5. CASE Done \/ UNCHANGED vars
  BY <1>3, <1>5, SurplusStutter DEF Done
<1> QED
  BY <1>4, <1>5 DEF AnyNext, StoreFails, SinkFails

LEMMA StreamIsExact ==
  ASSUME ~StoreMayFail, ~SinkMayFail
  PROVE  AnySpec => []StreamExact
<1>1. Init => StreamExact
  BY StreamInit DEF StreamExact
<1>2. TypeOK /\ TypeOK' /\ StreamBehind /\ StreamExact /\ [AnyNext]_vars => StreamExact'
  BY StreamExactStep
<1> QED
  BY <1>1, <1>2, StreamNeverAhead, TypeCorrectAny, PTL DEF AnySpec

LEMMA NothingInFlight ==
  ASSUME TypeOK, TasksInOrder, Quiescent, NEW g \in Figures
  PROVE  InFlight(g) = 0
<1> DEFINE f == [t \in Tasks |-> Pending(g, pc[t], req[t])]
<1>1. \A t \in Tasks : f[t] = 0
  BY PendingNothing DEF Quiescent, TasksInOrder, InOrder, HoldsNoEvents, HoldsLoss
<1>2. IsFiniteSet(Tasks)
  BY EngineAssumption
<1>3. InFlight(g) = SumFunctionOnSet(f, Tasks)
  BY DEF InFlight
<1> HIDE DEF f
<1> QED
  BY <1>1, <1>2, <1>3, SumZero

LEMMA QuiescentTotals ==
  ASSUME TypeOK, StreamBehind, StreamExact, Quiescent, NEW g \in Figures, Exact(g)
  PROVE  Total(bus, g) = Recorded(g)
<1>1. InFlight(g) = 0 /\ Surplus(g) = 0
  BY NothingInFlight DEF StreamBehind, StreamExact
<1>2. Recorded(g) \in Int /\ Total(bus, g) \in Int
  BY SurplusType
<1> QED
  BY <1>1, <1>2 DEF Surplus

LEMMA StreamAuditsWaterfallAny ==
  ASSUME ~StoreMayFail, ~SinkMayFail
  PROVE  AnySpec => []WaterfallAudited
<1>1. TypeOK /\ StreamBehind /\ StreamExact => WaterfallAudited
  <2> SUFFICES ASSUME TypeOK, StreamBehind, StreamExact, Quiescent
               PROVE  /\ Total(bus, "drawn") = book.shortfalls - book.socialized
                      /\ Total(bus, "socialized") = book.socialized
                      /\ book.socialized <= UsdMax => Total(bus, "announced") = book.socialized
    BY DEF WaterfallAudited
  <2>1. {"drawn", "socialized", "announced"} \subseteq Figures
    BY DEF Figures
  <2> QED
    BY <2>1, QuiescentTotals DEF Exact, Recorded
<1> QED
  BY <1>1, StreamNeverAhead, StreamIsExact, TypeCorrectAny, PTL

(* While no port fails, once no command is in progress the draws and       *)
(* socialised losses that the stream tells of are those of the fund, and   *)
(* every socialised dollar has been announced once.                        *)
THEOREM StreamAuditsWaterfall ==
  ASSUME ~StoreMayFail, ~SinkMayFail
  PROVE  Spec => []WaterfallAudited
BY StreamAuditsWaterfallAny, SpecIsAny

LEMMA StreamAuditsCountersAny ==
  ASSUME ~StoreMayFail, ~SinkMayFail
  PROVE  AnySpec => []CountersMatchEvents
<1>1. TypeOK /\ StreamBehind /\ StreamExact => CountersMatchEvents
  <2> SUFFICES ASSUME TypeOK, StreamBehind, StreamExact, Quiescent
               PROVE  /\ stats.liquidations = Total(bus, "Liquidated")
                      /\ stats.funding_settlements = Total(bus, "FundingSettled")
                      /\ stats.adl_events = Total(bus, "AutoDeleveraged")
    BY DEF CountersMatchEvents
  <2>1. {"Liquidated", "FundingSettled", "AutoDeleveraged"} \subseteq Figures
    BY DEF Figures
  <2> QED
    BY <2>1, QuiescentTotals DEF Exact, Recorded
<1> QED
  BY <1>1, StreamNeverAhead, StreamIsExact, TypeCorrectAny, PTL

(* While no port fails, once no command is in progress the counters of     *)
(* RiskStats agree with the stream.                                        *)
THEOREM StreamAuditsCounters ==
  ASSUME ~StoreMayFail, ~SinkMayFail
  PROVE  Spec => []CountersMatchEvents
BY StreamAuditsCountersAny, SpecIsAny

----------------------------------------------------------------------------
(* One client: commands that do not overlap.                               *)

OneAtATime == \E t \in Tasks : Tasks = {t}

(* The one request that is being served.                                   *)
Client == CHOOSE t \in Tasks : Tasks = {t}

LEMMA OnlyClient ==
  ASSUME OneAtATime
  PROVE  Client \in Tasks /\ Tasks = {Client}
BY DEF OneAtATime, Client

(* The market that a command has read is still as it read it.              *)
ViewCurrent ==
  pc[Client] \in HoldsView =>
    LET v == req[Client].view
    IN  markets[v.symbol] # None /\ v = ViewOf(v.symbol)

(* The positions it still has to visit are stored as it found them.        *)
TodoStored == \A e \in req[Client].todo : positions[e.key] = e.pos /\ e.pos # None

TodoEmpty ==
  pc[Client] \notin {"fund_upsert", "liq_remove", "liq_settle", "liq_count"} =>
    req[Client].todo = {}

(* A sweep has to visit the positions of its market that are underwater at *)
(* its mark, and no others.                                                *)
Sinks(p, v) == IsLiquidatable(p, v.mark_price, Params)

SweepsUnderwater ==
  pc[Client] \in HoldsLoss =>
    \A e \in req[Client].todo : /\ e.key[2] = req[Client].view.symbol
                                /\ Sinks(e.pos, req[Client].view)
SweepsAll ==
  pc[Client] \in HoldsLoss =>
    \A k \in Keys :
      positions[k] # None /\ k[2] = req[Client].view.symbol
          /\ Sinks(positions[k], req[Client].view) =>
        \E e \in req[Client].todo : e.key = k

SweepExact == SweepsUnderwater /\ SweepsAll
SoloInv == ViewCurrent /\ TodoStored /\ TodoEmpty /\ SweepExact

LEMMA SoloStarts ==
  ASSUME OneAtATime
  PROVE  Init => SoloInv
BY OnlyClient DEF Init, Idle, SoloInv, ViewCurrent, TodoStored, TodoEmpty, SweepExact,
   SweepsUnderwater, SweepsAll, HoldsView, HoldsLoss

LEMMA SoloLocals ==
  ASSUME OneAtATime, TypeOK, NEW t \in Tasks
  PROVE  /\ t = Client /\ pc \in [Tasks -> Labels] /\ req \in [Tasks -> Request]
         /\ req[t] \in Request /\ req[t].todo \subseteq Snapshot
         /\ positions \in [Keys -> Position \cup {None}]
         /\ markets \in [Symbols -> MarketState \cup {None}]
BY OnlyClient DEF TypeOK, StateOK, LocalsOK, Request

(* A command that holds no market snapshot has nothing to visit.           *)
LEMMA EmptyHands ==
  ASSUME pc'[Client] \notin HoldsView, req'[Client].todo = {}
  PROVE  SoloInv'
BY DEF SoloInv, ViewCurrent, TodoStored, TodoEmpty, SweepExact, SweepsUnderwater, SweepsAll,
   HoldsView, HoldsLoss

LEMMA ReturnsEmptyHanded ==
  ASSUME OneAtATime, TypeOK, NEW t \in Tasks,
         (\E events : Reply(t, events)) \/ Abandon(t)
  PROVE  SoloInv'
<1>1. req'[t].todo = {} /\ pc'[t] \in {"idle", "publish"} /\ t = Client
  BY SoloLocals DEF Reply, Abandon, Goto, Idle
<1> QED
  BY <1>1, EmptyHands DEF HoldsView

LEMMA OpenSolo ==
  ASSUME OneAtATime, TypeOK, SoloInv, NEW t \in Tasks,
         \/ \E c \in OpenCommand : OpenGet(t, c)
         \/ \E k \in Keys : CloseRemove(t, k)
         \/ OpenUpsert(t)
  PROVE  SoloInv'
<1>1. /\ pc[t] \in {"idle", "open_upsert"} /\ req'[t].todo = req[t].todo /\ t = Client
      /\ pc'[t] \in {"open_upsert", "close_mark", "open_count"}
  BY SoloLocals DEF OpenGet, CloseRemove, OpenUpsert, Begin, Goto, Request
<1>2. req[t].todo = {}
  BY <1>1 DEF SoloInv, TodoEmpty
<1> QED
  BY <1>1, <1>2, EmptyHands DEF HoldsView

LEMMA CloseMarkSolo ==
  ASSUME OneAtATime, TypeOK, SoloInv, NEW t \in Tasks, CloseMark(t)
  PROVE  SoloInv'
<1>1. CASE Abandon(t)
  BY <1>1, ReturnsEmptyHanded
<1>2. CASE ~Abandon(t)
  <2>1. /\ pc[t] = "close_mark" /\ req'[t].todo = req[t].todo /\ t = Client
        /\ pc'[t] = "close_count"
    BY <1>2, SoloLocals DEF CloseMark, Goto, Request
  <2>2. req[t].todo = {}
    BY <2>1 DEF SoloInv, TodoEmpty
  <2> QED
    BY <2>1, <2>2, EmptyHands DEF HoldsView
<1> QED
  BY <1>1, <1>2

LEMMA PublishSolo ==
  ASSUME OneAtATime, TypeOK, SoloInv, NEW t \in Tasks, Publish(t)
  PROVE  SoloInv'
<1>1. CASE Abandon(t)
  BY <1>1, ReturnsEmptyHanded
<1>2. CASE ~Abandon(t)
  <2>1. pc[t] = "publish" /\ req'[t].todo = req[t].todo /\ t = Client /\ pc'[t] = "publish"
    BY <1>2, SoloLocals DEF Publish, Request
  <2>2. req[t].todo = {}
    BY <2>1 DEF SoloInv, TodoEmpty
  <2> QED
    BY <2>1, <2>2, EmptyHands DEF HoldsView
<1> QED
  BY <1>1, <1>2

LEMMA ReadMarketSolo ==
  ASSUME OneAtATime, TypeOK, SoloInv, NEW t \in Tasks, NEW s \in Symbols,
         FundMarket(t, s) \/ LiqMarket(t, s)
  PROVE  SoloInv'
<1>1. /\ pc[t] = "idle" /\ pc'[t] \in {"fund_scan", "liq_scan"} /\ t = Client
      /\ req'[t].todo = req[t].todo /\ req'[t].view = ViewOf(s)
      /\ markets[s] # None /\ markets' = markets
  BY SoloLocals DEF FundMarket, LiqMarket, Begin, Goto, Request
<1>2. req'[t].todo = {}
  BY <1>1 DEF SoloInv, TodoEmpty
<1>3. ViewCurrent'
  BY <1>1 DEF ViewCurrent, ViewOf
<1> QED
  BY <1>1, <1>2, <1>3 DEF SoloInv, TodoStored, TodoEmpty, SweepExact, SweepsUnderwater,
     SweepsAll, HoldsLoss

(* A step that leaves the positions, the markets and the snapshots alone.  *)
LEMMA SameSolo ==
  ASSUME SoloInv, UNCHANGED <<positions, markets>>,
         req'[Client].todo = req[Client].todo, req'[Client].view = req[Client].view,
         pc[Client] \in HoldsView, pc'[Client] \in HoldsView,
         pc'[Client] \in HoldsLoss => pc[Client] \in HoldsLoss,
         pc'[Client] \notin {"fund_upsert", "liq_remove", "liq_settle", "liq_count"} =>
           req[Client].todo = {}
  PROVE  SoloInv'
<1>1. ViewCurrent'
  BY DEF SoloInv, ViewCurrent, ViewOf
<1>2. TodoStored' /\ TodoEmpty'
  BY DEF SoloInv, TodoStored, TodoEmpty
<1>3. SweepExact'
  BY DEF SoloInv, SweepExact, SweepsUnderwater, SweepsAll
<1> QED
  BY <1>1, <1>2, <1>3 DEF SoloInv

LEMMA ByMarketStored ==
  ASSUME NEW s
  PROVE  /\ \A e \in ByMarket(s) : /\ e.key \in Keys /\ e.key[2] = s
                                   /\ positions[e.key] = e.pos /\ e.pos # None
         /\ \A k \in Keys : k[2] = s /\ positions[k] # None =>
              [key |-> k, pos |-> positions[k]] \in ByMarket(s)
BY DEF ByMarket

LEMMA FundScanSolo ==
  ASSUME OneAtATime, TypeOK, SoloInv, NEW t \in Tasks, FundScan(t)
  PROVE  SoloInv'
<1>1. CASE Reply(t, <<>>)
  BY <1>1, ReturnsEmptyHanded
<1>2. CASE ~Reply(t, <<>>)
  <2>1. /\ pc[t] = "fund_scan" /\ pc'[t] = "fund_upsert" /\ t = Client
        /\ req'[t].todo = ByMarket(req[t].view.symbol) /\ req'[t].view = req[t].view
        /\ positions' = positions /\ markets' = markets
    BY <1>2, SoloLocals DEF FundScan, Goto, Request
  <2>2. ViewCurrent'
    BY <2>1 DEF SoloInv, ViewCurrent, ViewOf, HoldsView
  <2>3. TodoStored'
    BY <2>1, ByMarketStored DEF TodoStored
  <2> QED
    BY <2>1, <2>2, <2>3 DEF SoloInv, TodoEmpty, SweepExact, SweepsUnderwater, SweepsAll,
       HoldsLoss
<1> QED
  BY <1>1, <1>2

LEMMA LiqScanSolo ==
  ASSUME OneAtATime, TypeOK, SoloInv, NEW t \in Tasks, LiqScan(t)
  PROVE  SoloInv'
<1>1. CASE Reply(t, <<>>)
  BY <1>1, ReturnsEmptyHanded
<1>2. CASE ~Reply(t, <<>>)
  <2> DEFINE v == req[t].view
             found == Underwater(ByMarket(v.symbol), v.mark_price)
  <2>1. /\ pc[t] = "liq_scan" /\ pc'[t] = "liq_remove" /\ t = Client
        /\ req'[t].todo = found /\ req'[t].view = v
        /\ positions' = positions /\ markets' = markets
    BY <1>2, SoloLocals DEF LiqScan, Goto, Request
  <2>2. ViewCurrent'
    BY <2>1 DEF SoloInv, ViewCurrent, ViewOf, HoldsView
  <2>3. \A e \in found : e \in ByMarket(v.symbol) /\ Sinks(e.pos, v)
    BY DEF Underwater, Sinks
  <2>4. TodoStored' /\ SweepsUnderwater'
    BY <2>1, <2>3, ByMarketStored DEF TodoStored, SweepsUnderwater
  <2>5. ASSUME NEW k \in Keys, positions[k] # None, k[2] = v.symbol, Sinks(positions[k], v)
        PROVE  \E e \in found : e.key = k
    <3> DEFINE e == [key |-> k, pos |-> positions[k]]
    <3>1. e \in ByMarket(v.symbol)
      BY <2>5, ByMarketStored
    <3>2. e \in found /\ e.key = k
      BY <2>5, <3>1 DEF Underwater, Sinks
    <3> QED
      BY <3>2
  <2> HIDE DEF found, v
  <2>6. SweepsAll'
    BY <2>1, <2>5 DEF SweepsAll
  <2> QED
    BY <2>1, <2>2, <2>4, <2>6 DEF SoloInv, TodoEmpty, SweepExact
<1> QED
  BY <1>1, <1>2

(* Two snapshots of one key are one.                                       *)
LEMMA TodoDistinct ==
  ASSUME TypeOK, SoloInv, Client \in Tasks
  PROVE  \A d, e \in req[Client].todo : d.key = e.key => d = e
<1>1. req[Client].todo \subseteq Snapshot
  BY DEF TypeOK, LocalsOK, Request
<1> QED
  BY <1>1 DEF SoloInv, TodoStored, Snapshot

LEMMA FundUpsertSolo ==
  ASSUME OneAtATime, TypeOK, SoloInv, NEW t \in Tasks, FundUpsert(t)
  PROVE  SoloInv'
<1>1. PICK e \in req[t].todo :
        /\ req'[t].todo = req[t].todo \ {e} /\ req'[t].view = req[t].view
        /\ pc'[t] = IF req[t].todo \ {e} = {} THEN "fund_count" ELSE "fund_upsert"
        /\ \A k \in Keys \ {e.key} : positions'[k] = positions[k]
  BY SoloLocals DEF FundUpsert, Goto, Request
<1>2. pc[t] = "fund_upsert" /\ markets' = markets /\ t = Client
  BY SoloLocals DEF FundUpsert
<1>3. ViewCurrent'
  BY <1>1, <1>2 DEF SoloInv, ViewCurrent, ViewOf, HoldsView
<1>4. TodoStored'
  <2>1. \A d \in req'[t].todo : d \in req[t].todo /\ d.key # e.key /\ d.key \in Keys
    BY <1>1, <1>2, TodoDistinct, SoloLocals DEF Snapshot
  <2> QED
    BY <1>1, <1>2, <2>1 DEF SoloInv, TodoStored
<1> QED
  BY <1>1, <1>2, <1>3, <1>4 DEF SoloInv, TodoEmpty, SweepExact, SweepsUnderwater, SweepsAll,
     HoldsLoss

LEMMA LiqRemoveStep ==
  ASSUME OneAtATime, TypeOK, SoloInv, NEW t \in Tasks, LiqRemove(t)
  PROVE  /\ pc[t] = "liq_remove" /\ pc'[t] = "liq_settle" /\ markets' = markets /\ t = Client
         /\ req'[t].view = req[t].view
         /\ \E e \in req[t].todo :
              /\ req'[t].todo = req[t].todo \ {e} /\ e.key \in Keys
              /\ positions'[e.key] = None
              /\ \A k \in Keys \ {e.key} : positions'[k] = positions[k]
BY SoloLocals DEF LiqRemove, Goto, Request, Snapshot

LEMMA LiqRemoveSolo ==
  ASSUME OneAtATime, TypeOK, SoloInv, NEW t \in Tasks, LiqRemove(t)
  PROVE  SoloInv'
<1>1. PICK e \in req[t].todo :
        /\ req'[t].todo = req[t].todo \ {e} /\ e.key \in Keys
        /\ positions'[e.key] = None
        /\ \A k \in Keys \ {e.key} : positions'[k] = positions[k]
  BY LiqRemoveStep
<1>2. /\ pc[t] = "liq_remove" /\ pc'[t] = "liq_settle" /\ markets' = markets /\ t = Client
      /\ req'[t].view = req[t].view
  BY LiqRemoveStep
<1>3. ViewCurrent'
  BY <1>2 DEF SoloInv, ViewCurrent, ViewOf, HoldsView
<1>4. \A d \in req'[t].todo : d \in req[t].todo /\ d.key # e.key /\ d.key \in Keys
  BY <1>1, <1>2, TodoDistinct, SoloLocals DEF Snapshot
<1>5. TodoStored' /\ SweepsUnderwater'
  BY <1>1, <1>2, <1>4 DEF SoloInv, TodoStored, SweepExact, SweepsUnderwater, HoldsLoss
<1>6. SweepsAll'
  <2> SUFFICES ASSUME NEW k \in Keys, positions'[k] # None, k[2] = req[t].view.symbol,
                      Sinks(positions'[k], req[t].view)
               PROVE  \E d \in req'[t].todo : d.key = k
    BY <1>2 DEF SweepsAll
  <2>1. k # e.key /\ positions'[k] = positions[k]
    BY <1>1
  <2>2. PICK d \in req[t].todo : d.key = k
    BY <1>2, <2>1 DEF SoloInv, SweepExact, SweepsAll, HoldsLoss
  <2> QED
    BY <1>1, <2>1, <2>2
<1> QED
  BY <1>2, <1>3, <1>5, <1>6 DEF SoloInv, TodoEmpty, SweepExact

LEMMA LiqSettleSolo ==
  ASSUME OneAtATime, TypeOK, SoloInv, NEW t \in Tasks, LiqSettle(t)
  PROVE  SoloInv'
<1> DEFINE equity == PositionEquity(req[t].cur.pos, req[t].view.mark_price)
<1>1. /\ pc[t] = "liq_settle" /\ pc'[t] = "liq_count" /\ t = Client
      /\ UNCHANGED <<positions, markets>>
      /\ SettleBankrupt(t, equity) \/ SettleSolvent(t, equity)
  BY SoloLocals DEF LiqSettle, Goto
<1> HIDE DEF equity
<1>2. req'[t].todo = req[t].todo /\ req'[t].view = req[t].view
  <2>1. CASE SettleBankrupt(t, equity)
    BY <2>1, SoloLocals DEF SettleBankrupt, Request
  <2>2. CASE SettleSolvent(t, equity)
    BY <2>2, SoloLocals DEF SettleSolvent, Request
  <2> QED
    BY <1>1, <2>1, <2>2
<1> QED
  BY <1>1, <1>2, SameSolo DEF HoldsView, HoldsLoss

LEMMA LiqCountSolo ==
  ASSUME OneAtATime, TypeOK, SoloInv, NEW t \in Tasks, LiqCount(t)
  PROVE  SoloInv'
<1>1. /\ pc[t] = "liq_count" /\ t = Client /\ UNCHANGED <<positions, markets, req>>
      /\ pc'[t] = IF req[t].todo = {} THEN "liq_finish" ELSE "liq_remove"
  BY SoloLocals DEF LiqCount, Goto
<1> QED
  BY <1>1, SameSolo DEF HoldsView, HoldsLoss

LEMMA SoloStep ==
  ASSUME OneAtATime
  PROVE  TypeOK /\ SoloInv /\ [AnyNext]_vars => SoloInv'
<1> SUFFICES ASSUME TypeOK, SoloInv, [AnyNext]_vars PROVE SoloInv'
  OBVIOUS
<1>1. ASSUME NEW t \in Tasks, AnyStart(t) PROVE SoloInv'
  <2>1. ASSUME NEW u \in View, UpdateMarket(t, u) PROVE SoloInv'
    BY <2>1, ReturnsEmptyHanded DEF UpdateMarket
  <2> QED
    BY <1>1, <2>1, OpenSolo, ReadMarketSolo DEF AnyStart
<1>2. ASSUME NEW t \in Tasks, OpenCount(t) \/ CloseCount(t) \/ FundCount(t) \/ LiqFinish(t)
      PROVE  SoloInv'
  <2>1. \E events : Reply(t, events)
    BY <1>2 DEF OpenCount, CloseCount, FundCount, LiqFinish
  <2> QED
    BY <2>1, ReturnsEmptyHanded
<1>3. ASSUME NEW t \in Tasks, Continue(t) PROVE SoloInv'
  BY <1>2, <1>3, OpenSolo, CloseMarkSolo, FundScanSolo, FundUpsertSolo, LiqScanSolo,
     LiqRemoveSolo, LiqSettleSolo, LiqCountSolo, PublishSolo DEF Continue
<1>4. ASSUME NEW t \in Tasks, StoreFails(t) \/ SinkFails(t) PROVE SoloInv'
  BY <1>4, ReturnsEmptyHanded DEF StoreFails, SinkFails
<1>5. CASE UNCHANGED vars
  BY <1>5 DEF vars, SoloInv, ViewCurrent, ViewOf, TodoStored, TodoEmpty, SweepExact,
     SweepsUnderwater, SweepsAll
<1> QED
  BY <1>1, <1>3, <1>4, <1>5 DEF AnyNext, Done

LEMMA SoloInvariant ==
  ASSUME OneAtATime
  PROVE  AnySpec => []SoloInv
BY SoloStarts, SoloStep, TypeCorrectAny, PTL DEF AnySpec

(* What a command that holds a market snapshot knows of a key of it.       *)
LEMMA SinksNow ==
  ASSUME SoloInv, pc[Client] \in HoldsView,
         NEW k \in Keys, k[2] = req[Client].view.symbol
  PROVE  UnderwaterNow(k) <=> positions[k] # None /\ Sinks(positions[k], req[Client].view)
<1>1. markets[k[2]] # None /\ req[Client].view = ViewOf(k[2])
  BY DEF SoloInv, ViewCurrent
<1>2. req[Client].view.mark_price = markets[k[2]].mark_price
  BY <1>1 DEF ViewOf
<1> QED
  BY <1>1, <1>2 DEF UnderwaterNow, Sinks

(* A sweep that no failing port cuts short leaves nothing underwater.      *)
LEMMA SweepLeavesClear ==
  ASSUME OneAtATime, TypeOK, SoloInv, NEW t \in Tasks, Continue(t), NEW k \in Keys,
         SweepEnds(t, k[2])
  PROVE  ~UnderwaterNow(k)
<1>1. t = Client /\ pc[t] \in {"liq_scan", "liq_finish"} /\ pc'[t] \in {"idle", "publish"}
      /\ k[2] = req[Client].view.symbol /\ pc[Client] \in HoldsView
  BY SoloLocals DEF SweepEnds, HoldsView
<1>2. CASE pc[t] = "liq_scan"
  <2>1. LiqScan(t)
    BY <1>2 DEF Continue, OpenUpsert, OpenCount, CloseMark, CloseCount, FundScan,
       FundUpsert, FundCount, LiqRemove, LiqSettle, LiqCount, LiqFinish, Publish
  <2> DEFINE v == req[t].view
             found == Underwater(ByMarket(v.symbol), v.mark_price)
  <2>2. found = {}
    BY <1>1, <2>1, SoloLocals DEF LiqScan, Goto
  <2>3. ASSUME positions[k] # None, Sinks(positions[k], v) PROVE FALSE
    <3>1. [key |-> k, pos |-> positions[k]] \in ByMarket(v.symbol)
      BY <1>1, <2>3, ByMarketStored
    <3>2. [key |-> k, pos |-> positions[k]] \in found
      BY <2>3, <3>1 DEF Underwater, Sinks
    <3> QED
      BY <2>2, <3>2
  <2> QED
    BY <1>1, <2>3, SinksNow
<1>3. CASE pc[t] = "liq_finish"
  <2>1. req[Client].todo = {}
    BY <1>1, <1>3 DEF SoloInv, TodoEmpty
  <2>2. ~(positions[k] # None /\ Sinks(positions[k], req[Client].view))
    BY <1>1, <1>3, <2>1 DEF SoloInv, SweepExact, SweepsAll, HoldsLoss
  <2> QED
    BY <1>1, <2>2, SinksNow
<1> QED
  BY <1>1, <1>2, <1>3

LEMMA SweepsClearMarketAny ==
  ASSUME OneAtATime, ~StoreMayFail
  PROVE  AnySpec => SweepClearsMarket
<1>1. ASSUME TypeOK, SoloInv, [AnyNext]_vars, NEW t \in Tasks, NEW k \in Keys,
             SweepEnds(t, k[2])
      PROVE  ~UnderwaterNow(k)
  <2>1. pc[t] # "idle" /\ pc[t] # "publish" /\ pc'[t] # pc[t]
    BY <1>1 DEF SweepEnds
  <2>2. PICK u \in Tasks : AnyStart(u) \/ Continue(u) \/ StoreFails(u) \/ SinkFails(u)
    BY <1>1, <2>1 DEF AnyNext, Done, vars
  <2>3. u = t
    BY OnlyClient
  <2>4. Continue(t)
    BY <2>1, <2>2, <2>3 DEF AnyStart, OpenGet, CloseRemove, UpdateMarket, FundMarket, LiqMarket,
       Begin, StoreFails, SinkFails
  <2> QED
    BY <1>1, <2>4, SweepLeavesClear
<1>2. TypeOK /\ SoloInv /\ [AnyNext]_vars =>
        (\A t \in Tasks, k \in Keys : SweepEnds(t, k[2]) => ~UnderwaterNow(k))
  BY <1>1
<1> QED
  BY <1>2, SoloInvariant, TypeCorrectAny, PTL DEF AnySpec, SweepClearsMarket

(* When commands do not overlap and the store does not fail, no position   *)
(* of a market breaches maintenance margin at the prevailing mark when a   *)
(* sweep of it returns.                                                    *)
THEOREM SweepsClearMarket ==
  ASSUME OneAtATime, ~StoreMayFail
  PROVE  Spec => SweepClearsMarket
BY SweepsClearMarketAny, SpecIsAny

LEMMA SweepsSpareHealthyAny ==
  ASSUME OneAtATime
  PROVE  AnySpec => SweepSparesHealthy
<1>1. ASSUME TypeOK, SoloInv, [AnyNext]_vars, NEW t \in Tasks, NEW k \in Keys,
             pc[t] = "liq_remove", pc'[t] # "liq_remove",
             positions[k] # None, positions'[k] = None
      PROVE  UnderwaterNow(k)
  <2>1. PICK u \in Tasks : AnyStart(u) \/ Continue(u) \/ StoreFails(u) \/ SinkFails(u)
    BY <1>1 DEF AnyNext, Done, vars
  <2>2. u = t
    BY OnlyClient
  <2>3. LiqRemove(t)
    BY <1>1, <2>1, <2>2 DEF AnyStart, OpenGet, CloseRemove, UpdateMarket, FundMarket, LiqMarket,
       Begin, StoreFails, SinkFails, Continue, OpenUpsert, OpenCount, CloseMark, CloseCount,
       FundScan, FundUpsert, FundCount, LiqScan, LiqSettle, LiqCount, LiqFinish, Publish
  <2>4. PICK e \in req[t].todo : \A j \in Keys \ {e.key} : positions'[j] = positions[j]
    BY <1>1, <2>3, LiqRemoveStep
  <2>5. k = e.key /\ t = Client
    BY <1>1, <2>4, OnlyClient
  <2>6. /\ k[2] = req[Client].view.symbol /\ Sinks(positions[k], req[Client].view)
        /\ pc[Client] \in HoldsView
    BY <1>1, <2>5 DEF SoloInv, SweepExact, SweepsUnderwater, TodoStored, HoldsLoss, HoldsView
  <2> QED
    BY <1>1, <2>6, SinksNow
<1>2. TypeOK /\ SoloInv /\ [AnyNext]_vars =>
        (\A t \in Tasks, k \in Keys :
           (pc[t] = "liq_remove" /\ pc'[t] # "liq_remove"
              /\ positions[k] # None /\ positions'[k] = None) => UnderwaterNow(k))
  BY <1>1
<1> QED
  BY <1>2, SoloInvariant, TypeCorrectAny, PTL DEF AnySpec, SweepSparesHealthy

(* When commands do not overlap, and whatever port fails, a sweep takes    *)
(* out only positions that breach maintenance margin at the prevailing     *)
(* mark.                                                                   *)
THEOREM SweepsSpareHealthy ==
  ASSUME OneAtATime
  PROVE  Spec => SweepSparesHealthy
BY SweepsSpareHealthyAny, SpecIsAny

----------------------------------------------------------------------------
(* What a consumer rebuilds from a stream of events, event by event.       *)

Rebuilt(log) == FoldLeft(ReplayEvent, Nothing, log)

LastOf(s) == CHOOSE x \in s : \A y \in s : x >= y

(* g maps every set of places in the log to what its events rebuild.       *)
Rebuilds(log, g) ==
  g = [s \in SUBSET DOMAIN log |->
         IF s = {} THEN Nothing ELSE ReplayEvent(g[s \ {LastOf(s)}], log[LastOf(s)])]

LEMMA IntervalLast ==
  ASSUME NEW n \in Nat
  PROVE  /\ LastOf(1 .. n + 1) = n + 1
         /\ (1 .. n + 1) \ {n + 1} = 1 .. n
<1>1. n + 1 \in 1 .. n + 1 /\ \A y \in 1 .. n + 1 : n + 1 >= y
  OBVIOUS
<1>2. \A x \in 1 .. n + 1 : (\A y \in 1 .. n + 1 : x >= y) => x = n + 1
  OBVIOUS
<1>3. LastOf(1 .. n + 1) = n + 1
  BY <1>1, <1>2 DEF LastOf
<1> QED
  BY <1>3

(* A finite set of numbers has a last one.                                 *)
LEMMA HasLast ==
  ASSUME NEW n \in Nat
  PROVE  \A s \in SUBSET (1 .. n) : s # {} => LastOf(s) \in s
<1> DEFINE Ns == {m \in Nat : \A s \in SUBSET (1 .. m) : s # {} =>
                                \E x \in s : \A y \in s : x >= y}
<1>1. 0 \in Ns
  <2>1. 1 .. 0 = {}
    OBVIOUS
  <2> QED
    BY <2>1
<1>2. \A m \in Nat : m \in Ns => m + 1 \in Ns
  <2> SUFFICES ASSUME NEW m \in Nat, m \in Ns, NEW s \in SUBSET (1 .. m + 1), s # {}
               PROVE  \E x \in s : \A y \in s : x >= y
    OBVIOUS
  <2>1. CASE m + 1 \in s
    BY <2>1
  <2>2. CASE m + 1 \notin s
    <3>1. s \in SUBSET (1 .. m)
      BY <2>2
    <3> QED
      BY <3>1
  <2> QED
    BY <2>1, <2>2
<1> HIDE DEF Ns
<1>3. n \in Ns
  BY <1>1, <1>2, NatSetInduction
<1> QED
  BY <1>3 DEF Ns, LastOf

LEMMA RebuildExists ==
  ASSUME NEW log \in Seq(Event)
  PROVE  \E g : Rebuilds(log, g)
<1> DEFINE S == DOMAIN log
           Step(g) == [s \in SUBSET S |->
                         IF s = {} THEN Nothing
                         ELSE ReplayEvent(g[s \ {LastOf(s)}], log[LastOf(s)])]
           Small(n) == {s \in SUBSET S : Cardinality(s) <= n}
           OK(g, n) == \A s \in Small(n) : g[s] = Step(g)[s]
           Ns == {n \in Nat : \E g : OK(g, n)}
<1>00. S = 1 .. Len(log) /\ Len(log) \in Nat /\ IsFiniteSet(S)
  BY FS_Interval
<1>0. \A s \in SUBSET S : /\ IsFiniteSet(s) /\ Cardinality(s) \in Nat
                          /\ Cardinality(s) = 0 <=> s = {}
                          /\ s # {} => Cardinality(s \ {LastOf(s)}) = Cardinality(s) - 1
  BY <1>00, FS_Subset, FS_CardinalityType, FS_EmptySet, FS_RemoveElement, HasLast
<1> HIDE DEF S
<1>1. 0 \in Ns
  <2> DEFINE g == [s \in SUBSET S |-> Nothing]
  <2>1. ASSUME NEW s \in Small(0) PROVE s = {} /\ s \in SUBSET S
    <3>1. s \in SUBSET S /\ Cardinality(s) \in Nat /\ Cardinality(s) <= 0
      BY <1>0
    <3>2. Cardinality(s) = 0
      BY <3>1
    <3> QED
      BY <1>0, <3>1, <3>2
  <2>2. OK(g, 0)
    BY <2>1
  <2> HIDE DEF OK, g
  <2> QED
    BY <2>2
<1>2. \A n \in Nat : n \in Ns => n + 1 \in Ns
  <2> SUFFICES ASSUME NEW n \in Nat, NEW g, OK(g, n) PROVE \E h : OK(h, n + 1)
    <3> HIDE DEF OK
    <3> QED
      OBVIOUS
  <2> DEFINE h == Step(g)
  <2>1. \A s \in Small(n) : h[s] = g[s]
    OBVIOUS
  <2>2. ASSUME NEW s \in Small(n + 1), s # {}
        PROVE  s \ {LastOf(s)} \in Small(n)
    BY <2>2, <1>0
  <2>3. OK(h, n + 1)
    <3> SUFFICES ASSUME NEW s \in Small(n + 1) PROVE h[s] = Step(h)[s]
      OBVIOUS
    <3>1. s # {} => h[s \ {LastOf(s)}] = g[s \ {LastOf(s)}]
      BY <2>1, <2>2
    <3> QED
      BY <3>1
  <2> QED
    BY <2>3
<1>3. Cardinality(S) \in Ns
  <2>1. Cardinality(S) \in Nat
    BY <1>0
  <2> HIDE DEF Ns
  <2> QED
    BY <1>1, <1>2, <2>1, NatSetInduction
<1>4. PICK g : OK(g, Cardinality(S))
  BY <1>3
<1>5. \A s \in SUBSET S : s \in Small(Cardinality(S))
  BY <1>00, FS_Subset
<1> DEFINE h == Step(g)
<1>6. \A s \in SUBSET S : h[s] = g[s]
  BY <1>4, <1>5
<1>7. \A s \in SUBSET S : s # {} => h[s \ {LastOf(s)}] = g[s \ {LastOf(s)}]
  BY <1>6
<1>8. Rebuilds(log, h)
  BY <1>7 DEF Rebuilds, S
<1> QED
  BY <1>8

LEMMA RebuildUnfolds ==
  ASSUME NEW log \in Seq(Event)
  PROVE  \E g : Rebuilt(log) = g[DOMAIN log] /\ Rebuilds(log, g)
<1> DEFINE iter == CHOOSE g : g = [s \in SUBSET DOMAIN log |->
                     IF s = {} THEN Nothing
                     ELSE ReplayEvent(g[s \ {CHOOSE x \in s : \A y \in s : x >= y}],
                                      log[CHOOSE x \in s : \A y \in s : x >= y])]
<1>1. Rebuilt(log) = iter[DOMAIN log]
  BY DEF Rebuilt, FoldLeft, MapThenFoldSet, Max
<1>2. iter = [s \in SUBSET DOMAIN log |->
                IF s = {} THEN Nothing
                ELSE ReplayEvent(iter[s \ {CHOOSE x \in s : \A y \in s : x >= y}],
                                 log[CHOOSE x \in s : \A y \in s : x >= y])]
  <2>1. PICK g : Rebuilds(log, g)
    BY RebuildExists
  <2>2. g = [s \in SUBSET DOMAIN log |->
               IF s = {} THEN Nothing
               ELSE ReplayEvent(g[s \ {CHOOSE x \in s : \A y \in s : x >= y}],
                                log[CHOOSE x \in s : \A y \in s : x >= y])]
    BY <2>1, Zenon DEF Rebuilds, LastOf
  <2> QED
    BY <2>2
<1> HIDE DEF iter
<1> QED
  BY <1>1, <1>2 DEF LastOf, Rebuilds

LEMMA RebuiltFromNothing == Rebuilt(<<>>) = Nothing
<1>1. PICK g : Rebuilt(<<>>) = g[DOMAIN <<>>] /\ Rebuilds(<<>>, g)
  <2>1. <<>> \in Seq(Event)
    OBVIOUS
  <2> QED
    BY <2>1, RebuildUnfolds
<1>2. DOMAIN <<>> = {}
  OBVIOUS
<1> QED
  BY <1>1, <1>2 DEF Rebuilds

LEMMA RebuiltAppend ==
  ASSUME NEW log \in Seq(Event), NEW e \in Event
  PROVE  Rebuilt(Append(log, e)) = ReplayEvent(Rebuilt(log), e)
<1> DEFINE longer == Append(log, e)
           n == Len(log)
<1>1. PICK g : Rebuilt(log) = g[DOMAIN log] /\ Rebuilds(log, g)
  BY RebuildUnfolds
<1>2. longer \in Seq(Event) /\ DOMAIN longer = 1 .. n + 1 /\ DOMAIN log = 1 .. n /\ n \in Nat
      /\ longer[n + 1] = e /\ \A i \in 1 .. n : longer[i] = log[i]
  OBVIOUS
<1> HIDE DEF longer, n
<1>3. PICK h : Rebuilt(longer) = h[DOMAIN longer] /\ Rebuilds(longer, h)
  BY <1>2, RebuildUnfolds
<1>4. \A m \in Nat : m + 1 <= n =>
        g[1 .. m + 1] = ReplayEvent(g[1 .. m], log[m + 1])
  <2> SUFFICES ASSUME NEW m \in Nat, m + 1 <= n
               PROVE  g[1 .. m + 1] = ReplayEvent(g[1 .. m], log[m + 1])
    OBVIOUS
  <2> DEFINE s == 1 .. m + 1
  <2>1. LastOf(s) = m + 1 /\ s \ {m + 1} = 1 .. m
    BY IntervalLast
  <2>2. s \in SUBSET DOMAIN log /\ s # {}
    <3>1. 1 \in s /\ \A i \in s : i \in 1 .. n
      BY <1>2
    <3> QED
      BY <1>2, <3>1
  <2> HIDE DEF s
  <2>3. g[s] = ReplayEvent(g[s \ {LastOf(s)}], log[LastOf(s)])
    BY <1>1, <2>2 DEF Rebuilds
  <2>4. g[s] = ReplayEvent(g[1 .. m], log[m + 1])
    BY <2>1, <2>3
  <2> QED
    BY <2>4 DEF s
<1>5. \A m \in Nat : m <= n =>
        h[1 .. m + 1] = ReplayEvent(h[1 .. m], longer[m + 1])
  <2> SUFFICES ASSUME NEW m \in Nat, m <= n
               PROVE  h[1 .. m + 1] = ReplayEvent(h[1 .. m], longer[m + 1])
    OBVIOUS
  <2> DEFINE s == 1 .. m + 1
  <2>1. LastOf(s) = m + 1 /\ s \ {m + 1} = 1 .. m
    BY IntervalLast
  <2>2. s \in SUBSET DOMAIN longer /\ s # {}
    <3>1. 1 \in s /\ \A i \in s : i \in 1 .. n + 1
      BY <1>2
    <3> QED
      BY <1>2, <3>1
  <2> HIDE DEF s
  <2>3. h[s] = ReplayEvent(h[s \ {LastOf(s)}], longer[LastOf(s)])
    BY <1>3, <2>2 DEF Rebuilds
  <2>4. h[s] = ReplayEvent(h[1 .. m], longer[m + 1])
    BY <2>1, <2>3
  <2> QED
    BY <2>4 DEF s
<1> DEFINE Ns == {m \in Nat : m <= n => g[1 .. m] = h[1 .. m]}
<1>6. 0 \in Ns
  <2>1. 1 .. 0 = {} /\ {} \in SUBSET DOMAIN log /\ {} \in SUBSET DOMAIN longer
    OBVIOUS
  <2>2. g[{}] = Nothing /\ h[{}] = Nothing
    BY <1>1, <1>3, <2>1 DEF Rebuilds
  <2> QED
    BY <2>1, <2>2
<1>7. \A m \in Nat : m \in Ns => m + 1 \in Ns
  <2> SUFFICES ASSUME NEW m \in Nat, m \in Ns, m + 1 <= n
               PROVE  g[1 .. m + 1] = h[1 .. m + 1]
    OBVIOUS
  <2>1. g[1 .. m] = h[1 .. m] /\ log[m + 1] = longer[m + 1]
    BY <1>2
  <2>2. g[1 .. m + 1] = ReplayEvent(g[1 .. m], log[m + 1])
    BY <1>4
  <2>3. h[1 .. m + 1] = ReplayEvent(h[1 .. m], longer[m + 1])
    BY <1>2, <1>5
  <2> QED
    BY <2>1, <2>2, <2>3
<1> HIDE DEF Ns
<1>8. n \in Ns
  BY <1>2, <1>6, <1>7, NatSetInduction
<1>9. g[1 .. n] = h[1 .. n]
  BY <1>2, <1>8 DEF Ns
<1>10. h[1 .. n + 1] = ReplayEvent(h[1 .. n], e)
  BY <1>2, <1>5
<1>11. Rebuilt(longer) = ReplayEvent(Rebuilt(log), e)
  BY <1>1, <1>2, <1>3, <1>9, <1>10
<1> QED
  BY <1>11 DEF longer

(* What the client's events, published or not, tell.                       *)
Log == bus \o req[Client].evs
Told == Rebuilt(Log)

Pictures == [book : [Keys -> Standing \cup {None}],
             markets : [Symbols -> MarketState \cup {None}]]

(* A stored position is told open, on its side, with the funding it paid.  *)
Agrees(k) ==
  positions[k] # None =>
    /\ Told.book[k] # None
    /\ Told.book[k].side = positions[k].side
    /\ Told.book[k].funding = positions[k].funding_paid

(* A position that has just been stored, and is not yet told of, is new.   *)
Unpaid(p) == p # None /\ p.funding_paid = 0

OpeningUnpaid ==
  LET cur == req[Client].cur
  IN  /\ pc[Client] = "open_upsert" => Unpaid(cur.pos)
      /\ pc[Client] = "open_count" =>
           Unpaid(positions[cur.key]) /\ positions[cur.key].side = cur.pos.side

(* A position that a command has taken out is not stored.                  *)
TakenOut ==
  pc[Client] \in {"close_mark", "liq_settle"} => positions[req[Client].cur.key] = None

BookTold ==
  \A k \in Keys : (pc[Client] = "open_count" /\ req[Client].cur.key = k) \/ Agrees(k)

PictureInv == /\ Told \in Pictures /\ Told.markets = markets
              /\ BookTold /\ OpeningUnpaid /\ TakenOut

(* open_positions covers the stored positions, and the one that a command  *)
(* has taken out and not yet counted; so it never runs below zero.         *)
OpenKeys == {k \in Keys : positions[k] # None}
TakenNow(l) == IF l \in {"close_mark", "close_count", "liq_settle", "liq_count"} THEN 1 ELSE 0
OpeningNow(l) == IF l = "open_count" THEN 1 ELSE 0

CountCovers ==
  /\ IsFiniteSet(OpenKeys)
  /\ Cardinality(OpenKeys) + TakenNow(pc[Client]) - OpeningNow(pc[Client])
       <= stats.open_positions

(* What the stream tells to be open; a close and a liquidation are told    *)
(* one step before they are counted.                                       *)
OpenBalance(log) ==
  Total(log, "PositionOpened") - Total(log, "PositionClosed") - Total(log, "Liquidated")

ToldEarly(l) == IF l \in {"close_count", "liq_count"} THEN 1 ELSE 0

OpenTallies == stats.open_positions = OpenBalance(Log) + ToldEarly(pc[Client])

ReplayInv == PictureInv /\ CountCovers /\ OpenTallies

LEMMA LogParts ==
  ASSUME OneAtATime, TypeOK
  PROVE  /\ bus \in Seq(Event) /\ req[Client].evs \in Seq(Event) /\ Log \in Seq(Event)
         /\ req[Client] \in Request /\ pc[Client] \in Labels
         /\ positions \in [Keys -> Position \cup {None}]
         /\ markets \in [Symbols -> MarketState \cup {None}]
         /\ stats.open_positions \in Nat
<1>1. bus \in Seq(Event) /\ req[Client].evs \in Seq(Event) /\ Client \in Tasks
  BY OnlyClient DEF TypeOK, StateOK, LocalsOK, Request
<1>2. Log \in Seq(Event)
  BY <1>1 DEF Log
<1> QED
  BY <1>1, <1>2 DEF TypeOK, StateOK, LocalsOK

LEMMA SequencesEqual ==
  ASSUME NEW S, NEW p \in Seq(S), NEW q \in Seq(S), Len(p) = Len(q),
         \A i \in 1 .. Len(p) : p[i] = q[i]
  PROVE  p = q
<1>1. /\ p = [i \in 1 .. Len(p) |-> p[i]]
      /\ q = [i \in 1 .. Len(q) |-> q[i]]
  OBVIOUS
<1> QED
  BY <1>1

(* Where an event stands does not depend on whether it is published.       *)
LEMMA Splits ==
  ASSUME NEW S, NEW p \in Seq(S), NEW q \in Seq(S)
  PROVE  /\ \A x \in S : p \o Append(q, x) = Append(p \o q, x)
         /\ q # <<>> => Append(p, Head(q)) \o Tail(q) = p \o q
<1>1. ASSUME NEW x \in S
      PROVE  p \o Append(q, x) = Append(p \o q, x)
  <2> DEFINE a == p \o Append(q, x)
             b == Append(p \o q, x)
  <2>1. a \in Seq(S) /\ b \in Seq(S) /\ Len(a) = Len(b)
    OBVIOUS
  <2>2. \A i \in 1 .. Len(a) : a[i] = b[i]
    OBVIOUS
  <2> HIDE DEF a, b
  <2>3. a = b
    BY <2>1, <2>2, SequencesEqual
  <2> QED
    BY <2>3 DEF a, b
<1>2. ASSUME q # <<>>
      PROVE  Append(p, Head(q)) \o Tail(q) = p \o q
  <2> DEFINE a == Append(p, Head(q)) \o Tail(q)
             b == p \o q
  <2>1. a \in Seq(S) /\ b \in Seq(S) /\ Len(a) = Len(b)
    BY <1>2
  <2>2. \A i \in 1 .. Len(a) : a[i] = b[i]
    BY <1>2
  <2> HIDE DEF a, b
  <2>3. a = b
    BY <2>1, <2>2, SequencesEqual
  <2> QED
    BY <2>3 DEF a, b
<1> QED
  BY <1>1, <1>2

LEMMA SameLog ==
  ASSUME bus' = bus, req'[Client].evs = req[Client].evs
  PROVE  Log' = Log /\ Told' = Told
BY DEF Log, Told

LEMMA MoreLog ==
  ASSUME OneAtATime, TypeOK, bus' = bus, NEW e, TypeOK',
         req'[Client].evs = Append(req[Client].evs, e)
  PROVE  e \in Event /\ Log' = Append(Log, e) /\ Told' = ReplayEvent(Told, e)
<1> DEFINE s == req[Client].evs
           more == Append(s, e)
<1>1. s \in Seq(Event) /\ bus \in Seq(Event) /\ Log \in Seq(Event) /\ Log = bus \o s
  BY LogParts DEF Log
<1>2. more \in Seq(Event) /\ Log' = bus \o more
  BY OnlyClient DEF TypeOK, LocalsOK, Request, Log
<1>3. e = more[Len(s) + 1] /\ Len(s) + 1 \in 1 .. Len(more)
  BY <1>1
<1>4. e \in Event
  BY <1>2, <1>3
<1>5. bus \o more = Append(bus \o s, e)
  BY <1>1, <1>4, Splits
<1>6. Log' = Append(Log, e)
  BY <1>1, <1>2, <1>5
<1>7. Rebuilt(Append(Log, e)) = ReplayEvent(Rebuilt(Log), e)
  BY <1>1, <1>4, RebuiltAppend
<1>8. Told' = Rebuilt(Log')
  BY DEF Told
<1> QED
  BY <1>4, <1>6, <1>7, <1>8 DEF Told

LEMMA PublishedLog ==
  ASSUME OneAtATime, TypeOK, NEW t \in Tasks, Publish(t)
  PROVE  Log' = Log /\ Told' = Told
<1> DEFINE s == req[t].evs
<1>1. t = Client /\ s \in Seq(Event) /\ s # <<>> /\ bus \in Seq(Event)
      /\ bus' = Append(bus, Head(s)) /\ pc[t] = "publish"
  BY SoloLocals, LogParts DEF Publish, TypeOK, LocalsOK, HoldsWhatItReads
<1>2. req'[t].evs = Tail(s)
  <2>1. CASE Len(s) = 1
    <3>1. req'[t].evs = <<>>
      BY <1>1, <2>1, SoloLocals DEF Publish, Abandon, Idle
    <3>2. Tail(s) = <<>>
      <4>1. Tail(s) \in Seq(Event) /\ Len(Tail(s)) = 0
        BY <1>1, <2>1
      <4>2. \A q \in Seq(Event) : Len(q) = 0 => q = <<>>
        OBVIOUS
      <4> QED
        BY <4>1, <4>2
    <3> QED
      BY <3>1, <3>2
  <2>2. CASE Len(s) # 1
    BY <1>1, <2>2, SoloLocals DEF Publish, Request
  <2> QED
    BY <2>1, <2>2
<1>3. Append(bus, Head(s)) \o Tail(s) = bus \o s
  BY <1>1, Splits
<1>4. Log' = Log
  BY <1>1, <1>2, <1>3 DEF Log
<1> QED
  BY <1>4 DEF Told

(* What each event does to the picture.                                    *)
LEMMA PictureStep ==
  ASSUME NEW r \in Pictures, NEW e \in Event
  PROVE  /\ ReplayEvent(r, e) \in Pictures
         /\ e.type # "MarketUpdated" => ReplayEvent(r, e).markets = r.markets
         /\ e.type = "MarketUpdated" =>
              ReplayEvent(r, e).book = r.book
              /\ ReplayEvent(r, e).markets =
                   [r.markets EXCEPT ![e.symbol] = [mark_price |-> e.mark_price,
                                                    funding_rate_bps |-> e.funding_rate_bps]]
         /\ e.type = "PositionOpened" =>
              ReplayEvent(r, e).book =
                [r.book EXCEPT ![e.key] = [side |-> e.side, funding |-> 0]]
         /\ e.type \in {"PositionClosed", "Liquidated"} =>
              ReplayEvent(r, e).book = [r.book EXCEPT ![e.key] = None]
         /\ e.type = "AutoDeleveraged" => ReplayEvent(r, e) = r
         /\ e.type = "FundingSettled" =>
              /\ \A k \in Keys \ {e.key} : ReplayEvent(r, e).book[k] = r.book[k]
              /\ r.book[e.key] # None =>
                   ReplayEvent(r, e).book[e.key] =
                     [side |-> r.book[e.key].side,
                      funding |-> SatAdd(r.book[e.key].funding, e.amount)]
<1>1. r = [book |-> r.book, markets |-> r.markets]
      /\ r.book \in [Keys -> Standing \cup {None}]
      /\ r.markets \in [Symbols -> MarketState \cup {None}]
  BY DEF Pictures
<1>2. CASE e.type = "PositionOpened"
  <2>1. e.key \in Keys /\ [side |-> e.side, funding |-> 0] \in Standing
    BY <1>2, MathAssumption DEF Event, Standing, Usd, UsdMin
  <2>2. ReplayEvent(r, e) = [r EXCEPT !.book[e.key] = [side |-> e.side, funding |-> 0]]
    BY <1>2 DEF ReplayEvent
  <2> QED
    BY <1>1, <1>2, <2>1, <2>2 DEF Pictures
<1>3. CASE e.type \in {"PositionClosed", "Liquidated"}
  <2>1. e.key \in Keys
    BY <1>3 DEF Event
  <2>2. ReplayEvent(r, e) = [r EXCEPT !.book[e.key] = None]
    BY <1>3 DEF ReplayEvent
  <2> QED
    BY <1>1, <1>3, <2>1, <2>2 DEF Pictures
<1>4. CASE e.type = "MarketUpdated"
  <2> DEFINE m == [mark_price |-> e.mark_price, funding_rate_bps |-> e.funding_rate_bps]
  <2>1. e.symbol \in Symbols /\ m \in MarketState
    BY <1>4 DEF Event, MarketState
  <2>2. ReplayEvent(r, e) = [r EXCEPT !.markets[e.symbol] = m]
    BY <1>4 DEF ReplayEvent
  <2> HIDE DEF m
  <2>3. /\ ReplayEvent(r, e) \in Pictures
        /\ ReplayEvent(r, e).book = r.book
        /\ ReplayEvent(r, e).markets = [r.markets EXCEPT ![e.symbol] = m]
    BY <1>1, <2>1, <2>2 DEF Pictures
  <2> QED
    BY <1>4, <2>3 DEF m
<1>5. CASE e.type = "AutoDeleveraged"
  BY <1>5 DEF ReplayEvent
<1>6. CASE e.type = "FundingSettled" /\ r.book[e.key] = None
  BY <1>6 DEF ReplayEvent
<1>7. CASE e.type = "FundingSettled" /\ r.book[e.key] # None
  <2> DEFINE b == r.book[e.key]
             c == [b EXCEPT !.funding = SatAdd(@, e.amount)]
  <2>1. e.key \in Keys /\ e.amount \in Usd /\ b \in Standing
    BY <1>1, <1>7 DEF Event
  <2>2. b.side \in Side /\ b.funding \in Usd /\ b = [side |-> b.side, funding |-> b.funding]
    BY <2>1 DEF Standing
  <2>3. SatAdd(b.funding, e.amount) \in Usd
    BY <2>1, <2>2, SaturateType DEF SatAdd, Usd, UsdMin
  <2>4. c = [side |-> b.side, funding |-> SatAdd(b.funding, e.amount)] /\ c \in Standing
    BY <2>2, <2>3 DEF Standing
  <2>5. ReplayEvent(r, e) = [r EXCEPT !.book[e.key] = c]
    BY <1>7 DEF ReplayEvent
  <2> HIDE DEF b, c
  <2>6. /\ ReplayEvent(r, e).markets = r.markets
        /\ ReplayEvent(r, e).book = [r.book EXCEPT ![e.key] = c]
        /\ ReplayEvent(r, e) \in Pictures
    BY <1>1, <2>1, <2>4, <2>5 DEF Pictures
  <2> QED
    BY <1>1, <1>7, <2>1, <2>4, <2>6 DEF b
<1>8. e.type \in {"PositionOpened", "PositionClosed", "Liquidated", "MarketUpdated",
                  "AutoDeleveraged", "FundingSettled"}
  BY DEF Event
<1> QED
  BY <1>2, <1>3, <1>4, <1>5, <1>6, <1>7, <1>8

LEMMA OpenBalanceAppend ==
  ASSUME NEW log \in Seq(Event), NEW e \in Event
  PROVE  /\ OpenBalance(log) \in Int
         /\ e.type = "PositionOpened" => OpenBalance(Append(log, e)) = OpenBalance(log) + 1
         /\ e.type \in {"PositionClosed", "Liquidated"} =>
              OpenBalance(Append(log, e)) = OpenBalance(log) - 1
         /\ e.type \notin {"PositionOpened", "PositionClosed", "Liquidated"} =>
              OpenBalance(Append(log, e)) = OpenBalance(log)
<1>1. /\ Total(log, "PositionOpened") \in Int /\ Total(log, "PositionClosed") \in Int
      /\ Total(log, "Liquidated") \in Int
  BY TotalType
<1>2. \A g : Total(Append(log, e), g) = Total(log, g) + Amount(g, e)
  BY TotalAppend
<1>3. ASSUME NEW g \in {"PositionOpened", "PositionClosed", "Liquidated"}
      PROVE  Amount(g, e) = IF e.type = g THEN 1 ELSE 0
  BY DEF Amount
<1> QED
  BY <1>1, <1>2, <1>3 DEF OpenBalance

----------------------------------------------------------------------------
(* Each step keeps what the stream tells and the engine together.          *)

Ready == OneAtATime /\ TypeOK /\ SoloInv /\ TasksInOrder /\ ReplayInv

LEMMA NothingHeld ==
  ASSUME OneAtATime, TasksInOrder, pc[Client] \in HoldsNoEvents
  PROVE  req[Client].evs = <<>>
BY OnlyClient DEF TasksInOrder, InOrder

LEMMA RepliedWith ==
  ASSUME Ready, NEW t \in Tasks, NEW events, Reply(t, events)
  PROVE  t = Client /\ req'[t].evs = events /\ pc'[t] \in {"idle", "publish"}
BY SoloLocals DEF Ready, Reply, Goto, Idle

(* open_positions still covers the stored positions when it gives way by no*)
(* more than they do.                                                      *)
LEMMA CoversStep ==
  ASSUME CountCovers, IsFiniteSet(OpenKeys'),
         stats.open_positions \in Nat, stats'.open_positions \in Nat,
         NEW a \in Int, NEW b \in Int,
         TakenNow(pc[Client]) - OpeningNow(pc[Client]) = a,
         TakenNow(pc'[Client]) - OpeningNow(pc'[Client]) = b,
         Cardinality(OpenKeys') + b + stats.open_positions
           <= Cardinality(OpenKeys) + a + stats'.open_positions
  PROVE  CountCovers'
<1> DEFINE m == Cardinality(OpenKeys)
           n == Cardinality(OpenKeys')
           i == TakenNow(pc[Client])
           j == OpeningNow(pc[Client])
           k == TakenNow(pc'[Client])
           l == OpeningNow(pc'[Client])
<1>1. m \in Nat /\ n \in Nat
  BY FS_CardinalityType DEF CountCovers
<1>2. i \in Int /\ j \in Int /\ k \in Int /\ l \in Int
  BY DEF TakenNow, OpeningNow
<1>3. m + i - j <= stats.open_positions /\ i - j = a /\ k - l = b
      /\ n + b + stats.open_positions <= m + a + stats'.open_positions
  BY DEF CountCovers
<1> HIDE DEF m, n, i, j, k, l
<1>4. n + k - l <= stats'.open_positions
  BY <1>1, <1>2, <1>3
<1> QED
  BY <1>4 DEF n, k, l, CountCovers, TakenNow, OpeningNow

(* A step that tells nothing and changes nothing that is told of.          *)
LEMMA QuietReplay ==
  ASSUME ReplayInv, stats.open_positions \in Nat,
         Log' = Log, UNCHANGED <<positions, markets>>,
         stats'.open_positions = stats.open_positions,
         pc[Client] \notin {"open_count", "close_count", "liq_settle", "liq_count"},
         pc'[Client] \notin {"open_count", "close_mark", "close_count", "liq_settle", "liq_count"},
         pc'[Client] = "open_upsert" => Unpaid(req'[Client].cur.pos)
  PROVE  ReplayInv'
<1>1. Told' = Told
  BY DEF Told
<1>2. PictureInv'
  BY <1>1 DEF ReplayInv, PictureInv, BookTold, Agrees, OpeningUnpaid, Unpaid, TakenOut
<1>3. OpenKeys' = OpenKeys
  BY DEF OpenKeys
<1>4. TakenNow(pc'[Client]) = 0 /\ OpeningNow(pc'[Client]) = 0 /\ OpeningNow(pc[Client]) = 0
      /\ TakenNow(pc[Client]) \in {0, 1}
  BY DEF TakenNow, OpeningNow
<1>5. CountCovers'
  <2> DEFINE n == Cardinality(OpenKeys)
  <2>1. IsFiniteSet(OpenKeys) /\ n \in Nat
    BY FS_CardinalityType DEF ReplayInv, CountCovers
  <2>2. n + TakenNow(pc[Client]) - OpeningNow(pc[Client]) <= stats.open_positions
    BY DEF ReplayInv, CountCovers
  <2> HIDE DEF n
  <2>3. n + TakenNow(pc'[Client]) - OpeningNow(pc'[Client]) <= stats.open_positions
    BY <1>4, <2>1, <2>2
  <2> QED
    BY <1>3, <2>1, <2>3 DEF n, CountCovers, TakenNow, OpeningNow
<1>6. ToldEarly(pc'[Client]) = ToldEarly(pc[Client])
  BY DEF ToldEarly
<1>7. OpenTallies'
  <2>1. stats.open_positions = OpenBalance(Log) + ToldEarly(pc[Client])
    BY DEF ReplayInv, OpenTallies
  <2>2. stats'.open_positions = OpenBalance(Log') + ToldEarly(pc'[Client])
    BY <1>6, <2>1
  <2> QED
    BY <2>2 DEF OpenTallies, OpenBalance
<1> QED
  BY <1>2, <1>5, <1>7 DEF ReplayInv

LEMMA OpenGetReplay ==
  ASSUME Ready, NEW t \in Tasks, NEW c \in OpenCommand, OpenGet(t, c)
  PROVE  ReplayInv'
<1>1. /\ pc[t] = "idle" /\ pc'[t] = "open_upsert" /\ t = Client
      /\ UNCHANGED <<positions, markets, stats, bus>> /\ req'[t].evs = req[t].evs
      /\ req'[t].cur.pos = PositionOf(c)
  BY SoloLocals DEF Ready, OpenGet, Begin, Goto, Request
<1>2. Unpaid(PositionOf(c))
  <2>1. PositionOf(c) \in Position
    BY EngineAssumption, MathAssumption DEF PositionOf, OpenCommand, Position, Usd, UsdMin
  <2> QED
    BY <2>1, NoneIsNone DEF Unpaid, PositionOf
<1> QED
  BY <1>1, <1>2, SameLog, LogParts, QuietReplay DEF Ready

LEMMA ReadMarketReplay ==
  ASSUME Ready, NEW t \in Tasks, NEW s \in Symbols, FundMarket(t, s) \/ LiqMarket(t, s)
  PROVE  ReplayInv'
<1>1. /\ pc[t] = "idle" /\ pc'[t] \in {"fund_scan", "liq_scan"} /\ t = Client
      /\ UNCHANGED <<positions, markets, stats, bus>> /\ req'[t].evs = req[t].evs
  BY SoloLocals DEF Ready, FundMarket, LiqMarket, Begin, Goto, Request
<1> QED
  BY <1>1, SameLog, LogParts, QuietReplay DEF Ready

LEMMA ScanReplay ==
  ASSUME Ready, NEW t \in Tasks, FundScan(t) \/ LiqScan(t)
  PROVE  ReplayInv'
<1>1. /\ pc[t] \in {"fund_scan", "liq_scan"} /\ t = Client
      /\ UNCHANGED <<positions, markets, stats, bus>>
  BY SoloLocals DEF Ready, FundScan, LiqScan
<1>2. req[t].evs = <<>>
  BY <1>1, NothingHeld DEF Ready, HoldsNoEvents
<1>3. CASE Reply(t, <<>>)
  BY <1>1, <1>2, <1>3, RepliedWith, SameLog, LogParts, QuietReplay DEF Ready
<1>4. CASE ~Reply(t, <<>>)
  <2>1. req'[t].evs = req[t].evs /\ pc'[t] \in {"fund_upsert", "liq_remove"}
    BY <1>4, SoloLocals DEF Ready, FundScan, LiqScan, Goto, Request
  <2> QED
    BY <1>1, <2>1, SameLog, LogParts, QuietReplay DEF Ready
<1> QED
  BY <1>3, <1>4

LEMMA PublishReplay ==
  ASSUME Ready, NEW t \in Tasks, Publish(t)
  PROVE  ReplayInv'
<1>1. /\ pc[t] = "publish" /\ pc'[t] \in {"idle", "publish"} /\ t = Client
      /\ UNCHANGED <<positions, markets, stats>>
  BY SoloLocals DEF Ready, Publish, Abandon, Goto
<1> QED
  BY <1>1, PublishedLog, LogParts, QuietReplay DEF Ready

(* The stored positions after one more, and after one less.                *)
LEMMA OpenKeysStep ==
  ASSUME TypeOK, IsFiniteSet(OpenKeys), NEW x \in Keys,
         \A k \in Keys \ {x} : positions'[k] = positions[k]
  PROVE  /\ positions'[x] # None =>
              /\ OpenKeys' = OpenKeys \cup {x}
              /\ Cardinality(OpenKeys') <= Cardinality(OpenKeys) + 1
              /\ positions[x] # None => OpenKeys' = OpenKeys
         /\ positions'[x] = None /\ positions[x] # None =>
              /\ OpenKeys' = OpenKeys \ {x}
              /\ Cardinality(OpenKeys') + 1 = Cardinality(OpenKeys)
         /\ IsFiniteSet(OpenKeys') /\ Cardinality(OpenKeys') \in Nat
         /\ Cardinality(OpenKeys) \in Nat
<1>1. /\ positions'[x] # None => OpenKeys' = OpenKeys \cup {x}
      /\ positions'[x] = None => OpenKeys' = OpenKeys \ {x}
      /\ x \in OpenKeys <=> positions[x] # None
  BY DEF OpenKeys
<1>2. /\ IsFiniteSet(OpenKeys \cup {x}) /\ IsFiniteSet(OpenKeys \ {x})
      /\ Cardinality(OpenKeys \cup {x}) =
           IF x \in OpenKeys THEN Cardinality(OpenKeys) ELSE Cardinality(OpenKeys) + 1
      /\ Cardinality(OpenKeys \ {x}) =
           IF x \in OpenKeys THEN Cardinality(OpenKeys) - 1 ELSE Cardinality(OpenKeys)
      /\ Cardinality(OpenKeys) \in Nat
  BY FS_AddElement, FS_RemoveElement, FS_CardinalityType
<1>3. positions'[x] # None /\ positions[x] # None => OpenKeys' = OpenKeys
  BY <1>1
<1> HIDE DEF OpenKeys
<1>4. CASE positions'[x] # None
  <2>1. OpenKeys' = OpenKeys \cup {x}
    BY <1>1, <1>4
  <2>2. IsFiniteSet(OpenKeys') /\ Cardinality(OpenKeys') \in Nat
    BY <1>2, <2>1, FS_CardinalityType
  <2>3. Cardinality(OpenKeys') <= Cardinality(OpenKeys) + 1
    BY <1>2, <2>1
  <2> QED
    BY <1>2, <1>3, <1>4, <2>1, <2>2, <2>3
<1>5. CASE positions'[x] = None
  <2>1. OpenKeys' = OpenKeys \ {x}
    BY <1>1, <1>5
  <2>2. IsFiniteSet(OpenKeys') /\ Cardinality(OpenKeys') \in Nat
    BY <1>2, <2>1, FS_CardinalityType
  <2>3. positions[x] # None => Cardinality(OpenKeys') + 1 = Cardinality(OpenKeys)
    BY <1>1, <1>2, <2>1
  <2> QED
    BY <1>2, <1>5, <2>1, <2>2, <2>3
<1> QED
  BY <1>4, <1>5

LEMMA OpenUpsertReplay ==
  ASSUME Ready, NEW t \in Tasks, OpenUpsert(t)
  PROVE  ReplayInv'
<1> DEFINE cur == req[t].cur
<1>1. /\ pc[t] = "open_upsert" /\ pc'[t] = "open_count" /\ t = Client /\ req' = req
      /\ UNCHANGED <<markets, stats, bus>>
      /\ positions' = [positions EXCEPT ![cur.key] = cur.pos]
      /\ positions \in [Keys -> Position \cup {None}]
  BY SoloLocals DEF Ready, OpenUpsert, Goto
<1>2. cur \in Snapshot /\ cur.key \in Keys
  BY <1>1, Held DEF Ready, HoldsPosition, Snapshot
<1>3. positions'[cur.key] = cur.pos /\ \A k \in Keys \ {cur.key} : positions'[k] = positions[k]
  BY <1>1, <1>2
<1>4. Unpaid(cur.pos)
  BY <1>1 DEF Ready, ReplayInv, PictureInv, OpeningUnpaid
<1>5. Told' = Told /\ Log' = Log
  BY <1>1, SameLog
<1>6. PictureInv'
  <2>1. BookTold'
    BY <1>1, <1>3, <1>5 DEF Ready, ReplayInv, PictureInv, BookTold, Agrees
  <2>2. OpeningUnpaid' /\ TakenOut'
    BY <1>1, <1>3, <1>4 DEF OpeningUnpaid, Unpaid, TakenOut
  <2> QED
    BY <1>1, <1>5, <2>1, <2>2 DEF Ready, ReplayInv, PictureInv
<1>7. CountCovers'
  <2>1. /\ IsFiniteSet(OpenKeys') /\ Cardinality(OpenKeys') <= Cardinality(OpenKeys) + 1
        /\ Cardinality(OpenKeys') \in Nat /\ Cardinality(OpenKeys) \in Nat
    BY <1>2, <1>3, <1>4, OpenKeysStep DEF Ready, ReplayInv, CountCovers, Unpaid
  <2>2. Cardinality(OpenKeys) + 0 - 0 <= stats.open_positions /\ stats.open_positions \in Nat
    BY <1>1, LogParts DEF Ready, ReplayInv, CountCovers, TakenNow, OpeningNow
  <2>3. Cardinality(OpenKeys') + 0 - 1 <= stats'.open_positions
    BY <1>1, <2>1, <2>2
  <2> QED
    BY <1>1, <2>1, <2>3 DEF CountCovers, TakenNow, OpeningNow
<1>8. OpenTallies'
  BY <1>1, <1>5 DEF Ready, ReplayInv, OpenTallies, OpenBalance, ToldEarly
<1> QED
  BY <1>6, <1>7, <1>8 DEF ReplayInv

LEMMA OpenCountReplay ==
  ASSUME Ready, TypeOK', NEW t \in Tasks, OpenCount(t)
  PROVE  ReplayInv'
<1> DEFINE cur == req[t].cur
           e == [type |-> "PositionOpened", key |-> cur.key, side |-> cur.pos.side]
<1>1. /\ pc[t] = "open_count" /\ t = Client
      /\ UNCHANGED <<positions, markets, bus>> /\ Reply(t, <<e>>)
      /\ stats' = [stats EXCEPT !.open_positions = @ + 1]
  BY SoloLocals DEF Ready, OpenCount, CountOpened
<1>2. req[t].evs = <<>> /\ req'[t].evs = <<e>> /\ pc'[t] = "publish"
  <2>1. <<e>> # <<>>
    OBVIOUS
  <2> QED
    BY <1>1, <2>1, NothingHeld, SoloLocals DEF Ready, HoldsNoEvents, Reply, Goto, Idle
<1>3. stats.open_positions \in Nat /\ stats'.open_positions = stats.open_positions + 1
  BY <1>1 DEF Ready, TypeOK, StateOK
<1> HIDE DEF e
<1>4. e \in Event /\ Log' = Append(Log, e) /\ Told' = ReplayEvent(Told, e)
      /\ Log \in Seq(Event)
  BY <1>1, <1>2, MoreLog, LogParts DEF Ready
<1>5. e.type = "PositionOpened" /\ e.key = cur.key /\ e.side = cur.pos.side
  BY DEF e
<1>6. /\ Told' \in Pictures /\ Told'.markets = Told.markets /\ Told.book \in [Keys -> Standing \cup {None}]
      /\ Told'.book = [Told.book EXCEPT ![cur.key] = [side |-> cur.pos.side, funding |-> 0]]
  <2>1. Told \in Pictures /\ Told.book \in [Keys -> Standing \cup {None}]
    BY DEF Ready, ReplayInv, PictureInv, Pictures
  <2>2. /\ ReplayEvent(Told, e) \in Pictures /\ ReplayEvent(Told, e).markets = Told.markets
        /\ ReplayEvent(Told, e).book = [Told.book EXCEPT ![e.key] = [side |-> e.side, funding |-> 0]]
    BY <1>4, <1>5, <2>1, PictureStep
  <2> QED
    BY <1>4, <1>5, <2>1, <2>2
<1>7. BookTold'
  <2> SUFFICES ASSUME NEW k \in Keys, positions[k] # None
               PROVE  /\ Told'.book[k] # None
                      /\ Told'.book[k].side = positions[k].side
                      /\ Told'.book[k].funding = positions[k].funding_paid
    BY <1>1 DEF BookTold, Agrees
  <2>1. CASE k = cur.key
    <3> DEFINE s == [side |-> cur.pos.side, funding |-> 0]
    <3>1. Told'.book[k] = s /\ cur.pos.side = positions[k].side /\ positions[k].funding_paid = 0
      BY <1>1, <1>6, <2>1 DEF Ready, ReplayInv, PictureInv, OpeningUnpaid, Unpaid
    <3>2. positions[k] \in Position
      BY LogParts DEF Ready
    <3>3. s \in Standing
      BY <3>1, <3>2, MathAssumption DEF Standing, Position, Usd, UsdMin
    <3> QED
      BY <3>1, <3>3, ReplayAssumption
  <2>2. CASE k # cur.key
    BY <1>1, <1>6, <2>2 DEF Ready, ReplayInv, PictureInv, BookTold, Agrees
  <2> QED
    BY <2>1, <2>2
<1>8. PictureInv'
  BY <1>1, <1>2, <1>6, <1>7 DEF Ready, ReplayInv, PictureInv, OpeningUnpaid, TakenOut
<1>9. CountCovers'
  <2>1. OpenKeys' = OpenKeys /\ IsFiniteSet(OpenKeys) /\ Cardinality(OpenKeys) \in Nat
    BY <1>1, FS_CardinalityType DEF OpenKeys, Ready, ReplayInv, CountCovers
  <2>2. TakenNow(pc[Client]) - OpeningNow(pc[Client]) = -1
        /\ TakenNow(pc'[Client]) - OpeningNow(pc'[Client]) = 0
    BY <1>1, <1>2 DEF TakenNow, OpeningNow
  <2> QED
    BY <1>3, <2>1, <2>2, CoversStep DEF Ready, ReplayInv
<1>10. OpenTallies'
  <2>1. OpenBalance(Append(Log, e)) = OpenBalance(Log) + 1 /\ OpenBalance(Log) \in Int
    BY <1>4, <1>5, OpenBalanceAppend
  <2>2. OpenBalance(Log') = OpenBalance(Log) + 1
    BY <1>4, <2>1
  <2>3. stats.open_positions = OpenBalance(Log) + 0
    BY <1>1 DEF Ready, ReplayInv, OpenTallies, ToldEarly
  <2>4. stats'.open_positions = OpenBalance(Log') + 0
    BY <1>3, <2>1, <2>2, <2>3
  <2> QED
    BY <1>1, <1>2, <2>4 DEF OpenTallies, OpenBalance, ToldEarly
<1> QED
  BY <1>8, <1>9, <1>10 DEF ReplayInv

LEMMA CloseRemoveReplay ==
  ASSUME Ready, NEW t \in Tasks, NEW k \in Keys, CloseRemove(t, k)
  PROVE  ReplayInv'
<1>1. /\ pc[t] = "idle" /\ pc'[t] = "close_mark" /\ t = Client
      /\ UNCHANGED <<markets, stats, bus>> /\ req'[t].evs = req[t].evs
      /\ req'[t].cur.key = k /\ positions[k] # None /\ positions'[k] = None
      /\ \A j \in Keys \ {k} : positions'[j] = positions[j]
  BY SoloLocals DEF Ready, CloseRemove, Begin, Goto, Request
<1>2. Told' = Told /\ Log' = Log
  BY <1>1, SameLog
<1>3. PictureInv'
  BY <1>1, <1>2 DEF Ready, ReplayInv, PictureInv, BookTold, Agrees, OpeningUnpaid, TakenOut
<1>4. CountCovers'
  <2>1. /\ IsFiniteSet(OpenKeys') /\ Cardinality(OpenKeys') + 1 = Cardinality(OpenKeys)
        /\ Cardinality(OpenKeys') \in Nat /\ Cardinality(OpenKeys) \in Nat
    BY <1>1, OpenKeysStep DEF Ready, ReplayInv, CountCovers
  <2>2. TakenNow(pc[Client]) - OpeningNow(pc[Client]) = 0
        /\ TakenNow(pc'[Client]) - OpeningNow(pc'[Client]) = 1
    BY <1>1 DEF TakenNow, OpeningNow
  <2> QED
    BY <1>1, <2>1, <2>2, CoversStep, LogParts DEF Ready, ReplayInv
<1>5. OpenTallies'
  BY <1>1, <1>2 DEF Ready, ReplayInv, OpenTallies, OpenBalance, ToldEarly
<1> QED
  BY <1>3, <1>4, <1>5 DEF ReplayInv

(* A position that is gone is told to be gone: the next step counts it.    *)
LEMMA GoneReplay ==
  ASSUME Ready, TypeOK', UNCHANGED <<positions, markets, stats, bus>>, NEW e,
         pc[Client] \in {"close_mark", "liq_settle"},
         pc'[Client] \in {"close_count", "liq_count"},
         req'[Client].evs = Append(req[Client].evs, e),
         e.type \in {"PositionClosed", "Liquidated"}, e.key = req[Client].cur.key
  PROVE  ReplayInv'
<1> DEFINE key == req[Client].cur.key
<1>1. /\ e \in Event /\ Log' = Append(Log, e) /\ Told' = ReplayEvent(Told, e)
      /\ Log \in Seq(Event) /\ stats.open_positions \in Nat
  BY MoreLog, LogParts DEF Ready
<1>2. /\ Told' \in Pictures /\ Told'.markets = Told.markets
      /\ Told.book \in [Keys -> Standing \cup {None}]
      /\ Told'.book = [Told.book EXCEPT ![key] = None]
  <2>1. Told \in Pictures /\ Told.book \in [Keys -> Standing \cup {None}]
    BY DEF Ready, ReplayInv, PictureInv, Pictures
  <2>2. /\ ReplayEvent(Told, e) \in Pictures /\ ReplayEvent(Told, e).markets = Told.markets
        /\ ReplayEvent(Told, e).book = [Told.book EXCEPT ![e.key] = None]
    BY <1>1, <2>1, PictureStep
  <2> QED
    BY <1>1, <2>1, <2>2
<1>3. positions[key] = None
  BY DEF Ready, ReplayInv, PictureInv, TakenOut
<1>4. PictureInv'
  <2>1. BookTold'
    BY <1>2, <1>3 DEF Ready, ReplayInv, PictureInv, BookTold, Agrees
  <2> QED
    BY <1>2, <2>1 DEF Ready, ReplayInv, PictureInv, OpeningUnpaid, TakenOut
<1>5. CountCovers'
  <2>1. OpenKeys' = OpenKeys /\ IsFiniteSet(OpenKeys) /\ Cardinality(OpenKeys) \in Nat
    BY FS_CardinalityType DEF OpenKeys, Ready, ReplayInv, CountCovers
  <2>2. TakenNow(pc[Client]) - OpeningNow(pc[Client]) = 1
        /\ TakenNow(pc'[Client]) - OpeningNow(pc'[Client]) = 1
    BY DEF TakenNow, OpeningNow
  <2> QED
    BY <1>1, <2>1, <2>2, CoversStep DEF Ready, ReplayInv
<1>6. OpenTallies'
  <2>1. OpenBalance(Append(Log, e)) = OpenBalance(Log) - 1 /\ OpenBalance(Log) \in Int
    BY <1>1, OpenBalanceAppend
  <2>2. OpenBalance(Log') = OpenBalance(Log) - 1
    BY <1>1, <2>1
  <2>3. stats.open_positions = OpenBalance(Log) + 0
    BY DEF Ready, ReplayInv, OpenTallies, ToldEarly
  <2>4. stats'.open_positions = OpenBalance(Log') + 1
    BY <1>1, <2>1, <2>2, <2>3
  <2> QED
    BY <2>4 DEF OpenTallies, OpenBalance, ToldEarly
<1> QED
  BY <1>4, <1>5, <1>6 DEF ReplayInv

LEMMA OpenBalanceType ==
  ASSUME NEW log \in Seq(Event)
  PROVE  OpenBalance(log) \in Int
BY TotalType DEF OpenBalance

LEMMA CloseMarkReplay ==
  ASSUME Ready, TypeOK', NEW t \in Tasks, CloseMark(t)
  PROVE  ReplayInv'
<1> DEFINE cur == req[t].cur
           e == [type |-> "PositionClosed", key |-> cur.key,
                 realized_pnl |-> RealizedPnl(cur.pos, markets[cur.key[2]].mark_price)]
<1>1. /\ pc[t] = "close_mark" /\ t = Client
      /\ UNCHANGED <<positions, markets, stats, bus>>
  BY SoloLocals DEF Ready, CloseMark
<1>2. req[t].evs = <<>>
  BY <1>1, NothingHeld DEF Ready, HoldsNoEvents
<1>3. CASE Abandon(t)
  <2>1. pc'[t] = "idle" /\ req'[t].evs = <<>>
    BY <1>3, SoloLocals DEF Ready, Abandon, Goto, Idle
  <2> QED
    BY <1>1, <1>2, <2>1, SameLog, LogParts, QuietReplay DEF Ready
<1>4. CASE ~Abandon(t)
  <2>1. pc'[t] = "close_count" /\ req'[t].evs = <<e>>
    BY <1>4, SoloLocals DEF Ready, CloseMark, Goto, Request
  <2>2. e.type = "PositionClosed" /\ e.key = cur.key
    OBVIOUS
  <2> HIDE DEF e
  <2>3. req'[t].evs = Append(req[t].evs, e)
    BY <1>2, <2>1
  <2> QED
    BY <1>1, <2>1, <2>2, <2>3, GoneReplay
<1> QED
  BY <1>3, <1>4

LEMMA LiqSettleReplay ==
  ASSUME Ready, TypeOK', NEW t \in Tasks, LiqSettle(t)
  PROVE  ReplayInv'
<1> DEFINE equity == PositionEquity(req[t].cur.pos, req[t].view.mark_price)
<1>1. /\ pc[t] = "liq_settle" /\ pc'[t] = "liq_count" /\ t = Client
      /\ UNCHANGED <<positions, markets, stats, bus>>
      /\ SettleBankrupt(t, equity) \/ SettleSolvent(t, equity)
  BY SoloLocals DEF Ready, LiqSettle, Goto
<1> HIDE DEF equity
<1>2. \E e : /\ req'[t].evs = Append(req[t].evs, e)
             /\ e.type = "Liquidated" /\ e.key = req[t].cur.key
  <2>1. CASE SettleBankrupt(t, equity)
    <3> DEFINE c == Cover(insurance, SatNeg(equity))
               e == Liquidated(req[t].cur.key, "Bankruptcy", c.drawn, c.socialized)
    <3>1. e.type = "Liquidated" /\ e.key = req[t].cur.key
      BY DEF Liquidated
    <3>2. req'[t].evs = Append(req[t].evs, e)
      BY <2>1, SoloLocals DEF Ready, SettleBankrupt, Request
    <3> QED
      BY <3>1, <3>2
  <2>2. CASE SettleSolvent(t, equity)
    <3> DEFINE e == Liquidated(req[t].cur.key, "MaintenanceBreach", 0, 0)
    <3>1. e.type = "Liquidated" /\ e.key = req[t].cur.key
      BY DEF Liquidated
    <3>2. req'[t].evs = Append(req[t].evs, e)
      BY <2>2, SoloLocals DEF Ready, SettleSolvent, Request
    <3> QED
      BY <3>1, <3>2
  <2> QED
    BY <1>1, <2>1, <2>2
<1> QED
  BY <1>1, <1>2, GoneReplay

(* A position that is gone is counted, after it was told.                  *)
LEMMA GoneCounted ==
  ASSUME Ready, Log' = Log, UNCHANGED <<positions, markets>>,
         stats'.open_positions = CountRemoved,
         pc[Client] \in {"close_count", "liq_count"},
         pc'[Client] \in {"idle", "publish", "liq_finish", "liq_remove"}
  PROVE  ReplayInv'
<1>1. stats.open_positions \in Nat /\ IsFiniteSet(OpenKeys) /\ Cardinality(OpenKeys) \in Nat
      /\ OpenKeys' = OpenKeys
  BY LogParts, FS_CardinalityType DEF Ready, ReplayInv, CountCovers, OpenKeys
<1>2. Cardinality(OpenKeys) + 1 - 0 <= stats.open_positions
  BY DEF Ready, ReplayInv, CountCovers, TakenNow, OpeningNow
<1>3. stats'.open_positions = stats.open_positions - 1 /\ stats'.open_positions \in Nat
  BY <1>1, <1>2 DEF CountRemoved
<1>4. Told' = Told
  BY DEF Told
<1>5. PictureInv'
  BY <1>4 DEF Ready, ReplayInv, PictureInv, BookTold, Agrees, OpeningUnpaid, TakenOut
<1>6. CountCovers'
  <2>1. TakenNow(pc[Client]) - OpeningNow(pc[Client]) = 1
        /\ TakenNow(pc'[Client]) - OpeningNow(pc'[Client]) = 0
    BY DEF TakenNow, OpeningNow
  <2> QED
    BY <1>1, <1>3, <2>1, CoversStep DEF Ready, ReplayInv
<1>7. OpenTallies'
  <2>1. OpenBalance(Log) \in Int
    BY LogParts, OpenBalanceType DEF Ready
  <2>2. stats.open_positions = OpenBalance(Log) + 1
    BY DEF Ready, ReplayInv, OpenTallies, ToldEarly
  <2>3. stats'.open_positions = OpenBalance(Log') + 0
    BY <1>1, <1>3, <2>1, <2>2
  <2> QED
    BY <2>3 DEF OpenTallies, OpenBalance, ToldEarly
<1> QED
  BY <1>5, <1>6, <1>7 DEF ReplayInv

LEMMA GoneCountReplay ==
  ASSUME Ready, NEW t \in Tasks, CloseCount(t) \/ LiqCount(t)
  PROVE  ReplayInv'
<1>1. /\ pc[t] \in {"close_count", "liq_count"} /\ t = Client
      /\ UNCHANGED <<positions, markets, bus>>
      /\ stats'.open_positions = CountRemoved
  BY SoloLocals DEF Ready, TypeOK, StateOK, CloseCount, LiqCount
<1>2. req'[t].evs = req[t].evs /\ pc'[t] \in {"idle", "publish", "liq_finish", "liq_remove"}
  <2>1. CASE CloseCount(t)
    <3>1. Reply(t, req[t].evs)
      BY <2>1 DEF CloseCount
    <3> QED
      BY <3>1, RepliedWith
  <2>2. CASE LiqCount(t)
    BY <2>2, SoloLocals DEF Ready, LiqCount, Goto
  <2> QED
    BY <2>1, <2>2
<1> QED
  BY <1>1, <1>2, SameLog, GoneCounted

LEMMA UpdateMarketReplay ==
  ASSUME Ready, TypeOK', NEW t \in Tasks, NEW u \in View, UpdateMarket(t, u)
  PROVE  ReplayInv'
<1> DEFINE m == [mark_price |-> u.mark_price, funding_rate_bps |-> u.funding_rate_bps]
           e == [type |-> "MarketUpdated", symbol |-> u.symbol,
                 mark_price |-> u.mark_price, funding_rate_bps |-> u.funding_rate_bps]
<1>1. /\ pc[t] = "idle" /\ t = Client /\ UNCHANGED <<positions, stats, bus>>
      /\ markets' = [markets EXCEPT ![u.symbol] = m] /\ Reply(t, <<e>>)
  BY SoloLocals DEF Ready, UpdateMarket, Begin
<1>2. req[t].evs = <<>> /\ req'[t].evs = <<e>> /\ pc'[t] \in {"idle", "publish"}
  BY <1>1, NothingHeld, RepliedWith DEF Ready, HoldsNoEvents
<1>3. e.type = "MarketUpdated" /\ e.symbol = u.symbol /\ e.mark_price = u.mark_price
      /\ e.funding_rate_bps = u.funding_rate_bps
  OBVIOUS
<1> HIDE DEF e
<1>4. /\ e \in Event /\ Log' = Append(Log, e) /\ Told' = ReplayEvent(Told, e)
      /\ Log \in Seq(Event) /\ stats.open_positions \in Nat
  BY <1>1, <1>2, MoreLog, LogParts DEF Ready
<1>5. /\ Told' \in Pictures /\ Told'.book = Told.book
      /\ Told'.markets = [Told.markets EXCEPT ![u.symbol] = m]
  <2>1. Told \in Pictures
    BY DEF Ready, ReplayInv, PictureInv
  <2>2. /\ ReplayEvent(Told, e) \in Pictures /\ ReplayEvent(Told, e).book = Told.book
        /\ ReplayEvent(Told, e).markets = [Told.markets EXCEPT ![u.symbol] = m]
    <3>1. e.type = "MarketUpdated" /\ e.type # "PositionOpened"
      BY <1>3
    <3>2. /\ ReplayEvent(Told, e) \in Pictures /\ ReplayEvent(Told, e).book = Told.book
          /\ ReplayEvent(Told, e).markets =
               [Told.markets EXCEPT ![e.symbol] = [mark_price |-> e.mark_price,
                                                   funding_rate_bps |-> e.funding_rate_bps]]
      BY <1>4, <2>1, <3>1, PictureStep
    <3> QED
      BY <1>3, <3>2
  <2> QED
    BY <1>4, <2>2
<1>6. PictureInv'
  <2>1. Told'.markets = markets'
    BY <1>1, <1>5 DEF Ready, ReplayInv, PictureInv
  <2>2. BookTold'
    BY <1>1, <1>5 DEF Ready, ReplayInv, PictureInv, BookTold, Agrees
  <2> QED
    BY <1>1, <1>2, <1>5, <2>1, <2>2 DEF PictureInv, OpeningUnpaid, TakenOut
<1>7. CountCovers'
  <2>1. OpenKeys' = OpenKeys /\ IsFiniteSet(OpenKeys) /\ Cardinality(OpenKeys) \in Nat
    BY <1>1, FS_CardinalityType DEF OpenKeys, Ready, ReplayInv, CountCovers
  <2>2. TakenNow(pc[Client]) - OpeningNow(pc[Client]) = 0
        /\ TakenNow(pc'[Client]) - OpeningNow(pc'[Client]) = 0
    BY <1>1, <1>2 DEF TakenNow, OpeningNow
  <2> QED
    BY <1>1, <1>4, <2>1, <2>2, CoversStep DEF Ready, ReplayInv
<1>8. OpenTallies'
  <2>1. OpenBalance(Log') = OpenBalance(Log)
    BY <1>3, <1>4, OpenBalanceAppend
  <2>2. stats.open_positions = OpenBalance(Log) + 0
    BY <1>1 DEF Ready, ReplayInv, OpenTallies, ToldEarly
  <2>3. stats'.open_positions = OpenBalance(Log') + 0
    BY <1>1, <2>1, <2>2
  <2> QED
    BY <1>1, <1>2, <2>3 DEF OpenTallies, OpenBalance, ToldEarly
<1> QED
  BY <1>6, <1>7, <1>8 DEF ReplayInv

(* A settlement is told as it is written.                                  *)
LEMMA FundUpsertReplay ==
  ASSUME Ready, TypeOK', NEW t \in Tasks, FundUpsert(t)
  PROVE  ReplayInv'
<1>1. /\ pc[t] = "fund_upsert" /\ pc'[t] \in {"fund_count", "fund_upsert"} /\ t = Client
      /\ UNCHANGED <<markets, stats, bus>>
  BY SoloLocals DEF Ready, FundUpsert, Goto
<1>2. PICK e \in req[t].todo :
        LET payment == FundingPayment(e.pos, req[t].view.mark_price,
                                      req[t].view.funding_rate_bps)
        IN  /\ positions' = [positions EXCEPT ![e.key] = Settled(e.pos, payment)]
            /\ req'[t].evs = Append(req[t].evs,
                 [type |-> "FundingSettled", key |-> e.key, amount |-> payment])
  BY SoloLocals DEF Ready, FundUpsert, Request
<1> DEFINE payment == FundingPayment(e.pos, req[t].view.mark_price,
                                     req[t].view.funding_rate_bps)
           ev == [type |-> "FundingSettled", key |-> e.key, amount |-> payment]
           new == Settled(e.pos, payment)
<1>3. ev.type = "FundingSettled" /\ ev.key = e.key /\ ev.amount = payment
  OBVIOUS
<1>4. req'[t].evs = Append(req[t].evs, ev) /\ positions' = [positions EXCEPT ![e.key] = new]
  BY <1>2
<1> HIDE DEF ev
<1>5. /\ ev \in Event /\ Log' = Append(Log, ev) /\ Told' = ReplayEvent(Told, ev)
      /\ Log \in Seq(Event) /\ stats.open_positions \in Nat
  BY <1>1, <1>4, MoreLog, LogParts DEF Ready
<1>6. /\ positions[e.key] = e.pos /\ e.pos # None /\ e.key \in Keys /\ e.pos \in Position
  <2>1. e \in Snapshot /\ req[t].todo = req[Client].todo
    BY <1>1, SoloLocals DEF Ready
  <2> QED
    BY <1>2, <2>1 DEF Ready, SoloInv, TodoStored, Snapshot
<1>7. payment \in Usd
  BY <1>3, <1>5 DEF Event
<1> HIDE DEF payment
<1>8. new \in Position /\ new # None /\ new.side = e.pos.side
      /\ new.funding_paid = SatAdd(e.pos.funding_paid, payment)
  <2>1. new \in Position
    BY <1>6, <1>7, SettledType
  <2>2. new.side = e.pos.side /\ new.funding_paid = SatAdd(e.pos.funding_paid, payment)
    BY <1>6 DEF Settled, Position
  <2> QED
    BY <2>1, <2>2, NoneIsNone
<1> HIDE DEF new
<1>9. /\ positions'[e.key] = new /\ \A k \in Keys \ {e.key} : positions'[k] = positions[k]
  BY <1>4, <1>6, LogParts DEF Ready
<1>10. Agrees(e.key) /\ \A k \in Keys : Agrees(k)
  BY <1>1, <1>6 DEF Ready, ReplayInv, PictureInv, BookTold
<1>11. /\ Told' \in Pictures /\ Told'.markets = Told.markets
       /\ \A k \in Keys \ {e.key} : Told'.book[k] = Told.book[k]
       /\ Told'.book[e.key] = [side |-> e.pos.side,
                               funding |-> SatAdd(e.pos.funding_paid, payment)]
  <2>1. Told \in Pictures
    BY DEF Ready, ReplayInv, PictureInv
  <2>2. /\ Told.book[e.key] # None /\ Told.book[e.key].side = e.pos.side
        /\ Told.book[e.key].funding = e.pos.funding_paid
    BY <1>6, <1>10 DEF Agrees
  <2>3. /\ ReplayEvent(Told, ev) \in Pictures /\ ReplayEvent(Told, ev).markets = Told.markets
        /\ \A k \in Keys \ {ev.key} : ReplayEvent(Told, ev).book[k] = Told.book[k]
        /\ ReplayEvent(Told, ev).book[ev.key] =
             [side |-> Told.book[ev.key].side,
              funding |-> SatAdd(Told.book[ev.key].funding, ev.amount)]
    <3>1. ev.type # "MarketUpdated" /\ Told.book[ev.key] # None
      BY <1>3, <2>2
    <3> QED
      BY <1>3, <1>5, <2>1, <3>1, PictureStep
  <2> QED
    BY <1>3, <1>5, <2>2, <2>3
<1>12. PictureInv'
  <2>1. SatAdd(e.pos.funding_paid, payment) \in Usd /\ e.pos.side \in Side
    BY <1>6, <1>7, PositionFields, SatType
  <2>2. [side |-> e.pos.side, funding |-> SatAdd(e.pos.funding_paid, payment)] \in Standing
    BY <2>1 DEF Standing
  <2>3. BookTold'
    <3> SUFFICES ASSUME NEW k \in Keys, positions'[k] # None
                 PROVE  /\ Told'.book[k] # None
                        /\ Told'.book[k].side = positions'[k].side
                        /\ Told'.book[k].funding = positions'[k].funding_paid
      BY DEF BookTold, Agrees
    <3>1. CASE k = e.key
      BY <1>8, <1>9, <1>11, <2>2, <3>1, ReplayAssumption
    <3>2. CASE k # e.key
      BY <1>9, <1>10, <1>11, <3>2 DEF Agrees
    <3> QED
      BY <3>1, <3>2
  <2> QED
    BY <1>1, <1>11, <2>3 DEF Ready, ReplayInv, PictureInv, OpeningUnpaid, TakenOut
<1>13. CountCovers'
  <2>1. /\ OpenKeys' = OpenKeys /\ IsFiniteSet(OpenKeys) /\ Cardinality(OpenKeys) \in Nat
    BY <1>6, <1>8, <1>9, FS_CardinalityType DEF OpenKeys, Ready, ReplayInv, CountCovers
  <2>2. TakenNow(pc[Client]) - OpeningNow(pc[Client]) = 0
        /\ TakenNow(pc'[Client]) - OpeningNow(pc'[Client]) = 0
    BY <1>1 DEF TakenNow, OpeningNow
  <2> QED
    BY <1>1, <1>5, <2>1, <2>2, CoversStep DEF Ready, ReplayInv
<1>14. OpenTallies'
  <2>1. OpenBalance(Log') = OpenBalance(Log)
    BY <1>3, <1>5, OpenBalanceAppend
  <2>2. stats.open_positions = OpenBalance(Log) + 0
    BY <1>1 DEF Ready, ReplayInv, OpenTallies, ToldEarly
  <2>3. stats'.open_positions = OpenBalance(Log') + 0
    BY <1>1, <2>1, <2>2
  <2> QED
    BY <1>1, <2>3 DEF OpenTallies, OpenBalance, ToldEarly
<1> QED
  BY <1>12, <1>13, <1>14 DEF ReplayInv

LEMMA FundCountReplay ==
  ASSUME Ready, NEW t \in Tasks, FundCount(t)
  PROVE  ReplayInv'
<1>1. /\ pc[t] = "fund_count" /\ t = Client /\ UNCHANGED <<positions, markets, bus>>
      /\ Reply(t, req[t].evs) /\ stats'.open_positions = stats.open_positions
  BY SoloLocals DEF Ready, TypeOK, StateOK, FundCount
<1>2. req'[t].evs = req[t].evs /\ pc'[t] \in {"idle", "publish"}
  BY <1>1, RepliedWith
<1> QED
  BY <1>1, <1>2, SameLog, LogParts, QuietReplay DEF Ready

LEMMA LiqRemoveReplay ==
  ASSUME Ready, NEW t \in Tasks, LiqRemove(t)
  PROVE  ReplayInv'
<1>1. /\ pc[t] = "liq_remove" /\ pc'[t] = "liq_settle" /\ t = Client
      /\ UNCHANGED <<markets, stats, bus>>
  BY SoloLocals DEF Ready, LiqRemove, Goto
<1>2. PICK e \in req[t].todo :
        /\ positions' = [positions EXCEPT ![e.key] = None]
        /\ req'[t].cur = e /\ req'[t].evs = req[t].evs
  BY SoloLocals DEF Ready, LiqRemove, Request
<1>3. positions[e.key] # None /\ e.key \in Keys
  <2>1. e \in Snapshot /\ req[t].todo = req[Client].todo
    BY <1>1, SoloLocals DEF Ready
  <2> QED
    BY <1>2, <2>1 DEF Ready, SoloInv, TodoStored, Snapshot
<1>4. positions'[e.key] = None /\ \A k \in Keys \ {e.key} : positions'[k] = positions[k]
  BY <1>2, <1>3, LogParts DEF Ready
<1>5. Told' = Told /\ Log' = Log
  BY <1>1, <1>2, SameLog
<1>6. PictureInv'
  <2>1. BookTold'
    BY <1>1, <1>4, <1>5 DEF Ready, ReplayInv, PictureInv, BookTold, Agrees
  <2>2. OpeningUnpaid' /\ TakenOut'
    BY <1>1, <1>2, <1>4 DEF OpeningUnpaid, TakenOut
  <2> QED
    BY <1>1, <1>5, <2>1, <2>2 DEF Ready, ReplayInv, PictureInv
<1>7. CountCovers'
  <2>1. /\ IsFiniteSet(OpenKeys') /\ Cardinality(OpenKeys') + 1 = Cardinality(OpenKeys)
        /\ Cardinality(OpenKeys') \in Nat /\ Cardinality(OpenKeys) \in Nat
    BY <1>3, <1>4, OpenKeysStep DEF Ready, ReplayInv, CountCovers
  <2>2. TakenNow(pc[Client]) - OpeningNow(pc[Client]) = 0
        /\ TakenNow(pc'[Client]) - OpeningNow(pc'[Client]) = 1
    BY <1>1 DEF TakenNow, OpeningNow
  <2> QED
    BY <1>1, <2>1, <2>2, CoversStep, LogParts DEF Ready, ReplayInv
<1>8. OpenTallies'
  BY <1>1, <1>5 DEF Ready, ReplayInv, OpenTallies, OpenBalance, ToldEarly
<1> QED
  BY <1>6, <1>7, <1>8 DEF ReplayInv

LEMMA LiqFinishReplay ==
  ASSUME Ready, TypeOK', NEW t \in Tasks, LiqFinish(t)
  PROVE  ReplayInv'
<1> DEFINE e == [type |-> "AutoDeleveraged", symbol |-> req[t].view.symbol,
                 socialized_loss |-> req[t].social]
<1>1. /\ pc[t] = "liq_finish" /\ t = Client /\ UNCHANGED <<positions, markets, bus>>
      /\ stats'.open_positions = stats.open_positions
      /\ Reply(t, Append(req[t].evs, e)) \/ Reply(t, req[t].evs)
  BY SoloLocals DEF Ready, TypeOK, StateOK, LiqFinish
<1>2. e.type = "AutoDeleveraged"
  OBVIOUS
<1> HIDE DEF e
<1>3. /\ pc'[t] \in {"idle", "publish"}
      /\ req'[t].evs = Append(req[t].evs, e) \/ req'[t].evs = req[t].evs
  BY <1>1, RepliedWith
<1>4. CASE req'[t].evs = req[t].evs
  BY <1>1, <1>3, <1>4, SameLog, LogParts, QuietReplay DEF Ready
<1>5. CASE req'[t].evs = Append(req[t].evs, e)
  <2>1. /\ e \in Event /\ Log' = Append(Log, e) /\ Told' = ReplayEvent(Told, e)
        /\ Log \in Seq(Event) /\ stats.open_positions \in Nat
    BY <1>1, <1>5, MoreLog, LogParts DEF Ready
  <2>2. Told' = Told
    BY <1>2, <2>1 DEF ReplayEvent
  <2>3. PictureInv'
    BY <1>1, <1>3, <2>2 DEF Ready, ReplayInv, PictureInv, BookTold, Agrees, OpeningUnpaid, TakenOut
  <2>4. CountCovers'
    <3>1. OpenKeys' = OpenKeys /\ IsFiniteSet(OpenKeys) /\ Cardinality(OpenKeys) \in Nat
      BY <1>1, FS_CardinalityType DEF OpenKeys, Ready, ReplayInv, CountCovers
    <3>2. TakenNow(pc[Client]) - OpeningNow(pc[Client]) = 0
          /\ TakenNow(pc'[Client]) - OpeningNow(pc'[Client]) = 0
      BY <1>1, <1>3 DEF TakenNow, OpeningNow
    <3> QED
      BY <1>1, <2>1, <3>1, <3>2, CoversStep DEF Ready, ReplayInv
  <2>5. OpenTallies'
    <3>1. OpenBalance(Log') = OpenBalance(Log)
      BY <1>2, <2>1, OpenBalanceAppend
    <3>2. stats.open_positions = OpenBalance(Log) + 0
      BY <1>1 DEF Ready, ReplayInv, OpenTallies, ToldEarly
    <3>3. stats'.open_positions = OpenBalance(Log') + 0
      BY <1>1, <3>1, <3>2
    <3> QED
      BY <1>1, <1>3, <3>3 DEF OpenTallies, OpenBalance, ToldEarly
  <2> QED
    BY <2>3, <2>4, <2>5 DEF ReplayInv
<1> QED
  BY <1>3, <1>4, <1>5

LEMMA ReplayInit ==
  ASSUME OneAtATime
  PROVE  Init => ReplayInv
<1> SUFFICES ASSUME Init PROVE ReplayInv
  OBVIOUS
<1>1. bus = <<>> /\ req[Client].evs = <<>> /\ pc[Client] = "idle"
      /\ positions = [k \in Keys |-> None] /\ markets = [s \in Symbols |-> None]
      /\ stats.open_positions = 0
  BY OnlyClient DEF Init, Idle, NoStats
<1>2. Log = <<>>
  <2>1. <<>> \o <<>> = <<>>
    OBVIOUS
  <2> QED
    BY <1>1, <2>1 DEF Log
<1>3. Told = Nothing
  BY <1>2, RebuiltFromNothing DEF Told
<1>4. PictureInv
  <2>1. Nothing \in Pictures /\ Nothing.markets = markets
    BY <1>1 DEF Nothing, Pictures
  <2> QED
    BY <1>1, <1>3, <2>1 DEF PictureInv, BookTold, Agrees, OpeningUnpaid, TakenOut
<1>5. CountCovers
  <2>1. OpenKeys = {}
    BY <1>1 DEF OpenKeys
  <2>2. IsFiniteSet(OpenKeys) /\ Cardinality(OpenKeys) = 0
    BY <2>1, FS_EmptySet
  <2> QED
    BY <1>1, <2>2 DEF CountCovers, TakenNow, OpeningNow
<1>6. OpenTallies
  <2>1. OpenBalance(<<>>) = 0
    BY TotalEmpty DEF OpenBalance
  <2> QED
    BY <1>1, <1>2, <2>1 DEF OpenTallies, ToldEarly
<1> QED
  BY <1>4, <1>5, <1>6 DEF ReplayInv

LEMMA ReplayStep ==
  ASSUME ~StoreMayFail, ~SinkMayFail, Ready, TypeOK', [AnyNext]_vars
  PROVE  ReplayInv'
<1>1. ASSUME NEW t \in Tasks, AnyStart(t) PROVE ReplayInv'
  BY <1>1, OpenGetReplay, CloseRemoveReplay, UpdateMarketReplay, ReadMarketReplay DEF AnyStart
<1>2. ASSUME NEW t \in Tasks, Continue(t) PROVE ReplayInv'
  BY <1>2, OpenUpsertReplay, OpenCountReplay, CloseMarkReplay, GoneCountReplay, ScanReplay,
     FundUpsertReplay, FundCountReplay, LiqRemoveReplay, LiqSettleReplay, LiqFinishReplay,
     PublishReplay DEF Continue
<1>3. ASSUME NEW t \in Tasks, StoreFails(t) \/ SinkFails(t) PROVE FALSE
  BY <1>3 DEF StoreFails, SinkFails
<1>4. CASE UNCHANGED vars
  <2>1. UNCHANGED <<positions, markets, stats, pc, req, bus>>
    BY <1>4 DEF vars
  <2>2. Log' = Log /\ Told' = Told
    BY <2>1, SameLog
  <2>3. PictureInv'
    BY <2>1, <2>2 DEF Ready, ReplayInv, PictureInv, BookTold, Agrees, OpeningUnpaid, TakenOut
  <2>4. CountCovers'
    BY <2>1 DEF Ready, ReplayInv, CountCovers, OpenKeys, TakenNow, OpeningNow
  <2>5. OpenTallies'
    BY <2>1, <2>2 DEF Ready, ReplayInv, OpenTallies, OpenBalance, ToldEarly
  <2> QED
    BY <2>3, <2>4, <2>5 DEF ReplayInv
<1> QED
  BY <1>1, <1>2, <1>3, <1>4 DEF AnyNext, Done

LEMMA StreamRebuildsEngineAny ==
  ASSUME OneAtATime, ~StoreMayFail, ~SinkMayFail
  PROVE  AnySpec => []ReplayRebuildsEngine
<1>1. TypeOK /\ TypeOK' /\ SoloInv /\ StreamBehind /\ ReplayInv /\ [AnyNext]_vars => ReplayInv'
  BY ReplayStep DEF Ready, StreamBehind
<1>2. Init => ReplayInv
  BY ReplayInit
<1>3. TypeOK /\ StreamBehind /\ ReplayInv => ReplayRebuildsEngine
  <2> SUFFICES ASSUME TypeOK, StreamBehind, ReplayInv, Quiescent
               PROVE  LET r == Replay IN
                        /\ \A k \in Keys : positions[k] # None =>
                             /\ r.book[k] # None
                             /\ r.book[k].side = positions[k].side
                             /\ r.book[k].funding = positions[k].funding_paid
                        /\ r.markets = markets
                        /\ stats.open_positions = Total(bus, "PositionOpened")
                             - Total(bus, "PositionClosed") - Total(bus, "Liquidated")
    BY DEF ReplayRebuildsEngine
  <2>1. pc[Client] = "idle"
    BY OnlyClient DEF Quiescent
  <2>2. req[Client].evs = <<>>
    BY <2>1, NothingHeld DEF StreamBehind, HoldsNoEvents
  <2>3. Log = bus
    <3>1. bus \in Seq(Event)
      BY LogParts
    <3>2. bus \o <<>> = bus
      BY <3>1
    <3> QED
      BY <2>2, <3>2 DEF Log
  <2>4. Told = Replay
    BY <2>3 DEF Told, Rebuilt, Replay
  <2>5. \A k \in Keys : Agrees(k)
    BY <2>1 DEF ReplayInv, PictureInv, BookTold
  <2>6. stats.open_positions = OpenBalance(bus)
    <3>1. OpenBalance(bus) \in Int
      BY LogParts, OpenBalanceType
    <3> QED
      BY <2>1, <2>3, <3>1 DEF ReplayInv, OpenTallies, ToldEarly
  <2> HIDE DEF Replay
  <2> QED
    BY <2>4, <2>5, <2>6 DEF Agrees, OpenBalance, ReplayInv, PictureInv
<1> QED
  BY <1>1, <1>2, <1>3, TypeCorrectAny, SoloInvariant, StreamNeverAhead, PTL DEF AnySpec

(* A client whose commands do not overlap, and whose ports do not fail,    *)
(* can rebuild from its events, between commands, every stored position    *)
(* with its side and the funding it has paid, the markets, and the number  *)
(* of open positions.                                                      *)
THEOREM StreamRebuildsEngine ==
  ASSUME OneAtATime, ~StoreMayFail, ~SinkMayFail
  PROVE  Spec => []ReplayRebuildsEngine
BY StreamRebuildsEngineAny, SpecIsAny

----------------------------------------------------------------------------
(* Funding over a matched book.                                            *)

(* The store holds finitely many positions.                                *)
BookFinite == IsFiniteSet(OpenKeys)

(* A step writes at most one key of the store.                             *)
LEMMA WritesOneKey ==
  ASSUME TypeOK, NEW t \in Tasks,
         AnyStart(t) \/ Continue(t) \/ StoreFails(t) \/ SinkFails(t)
  PROVE  \/ positions' = positions
         \/ \E k \in Keys : \A j \in Keys \ {k} : positions'[j] = positions[j]
<1>0. positions \in [Keys -> Position \cup {None}]
  BY DEF TypeOK, StateOK
<1>1. CASE AnyStart(t)
  <2>1. ASSUME NEW k \in Keys, CloseRemove(t, k)
        PROVE  \A j \in Keys \ {k} : positions'[j] = positions[j]
    BY <1>0, <2>1 DEF CloseRemove
  <2> QED
    BY <1>1, <2>1 DEF AnyStart, OpenGet, UpdateMarket, FundMarket, LiqMarket
<1>2. CASE OpenUpsert(t)
  <2>1. req[t].cur.key \in Keys
    BY <1>2, Held DEF OpenUpsert, HoldsPosition, Snapshot
  <2> QED
    BY <1>0, <1>2, <2>1 DEF OpenUpsert
<1>3. CASE FundUpsert(t)
  <2>1. \A e \in req[t].todo : e.key \in Keys
    BY Held DEF Snapshot
  <2> QED
    BY <1>0, <1>3, <2>1 DEF FundUpsert
<1>4. CASE LiqRemove(t)
  <2>1. \A e \in req[t].todo : e.key \in Keys
    BY Held DEF Snapshot
  <2> QED
    BY <1>0, <1>4, <2>1 DEF LiqRemove
<1>5. CASE LiqSettle(t)
  BY <1>5 DEF LiqSettle
<1> QED
  BY <1>1, <1>2, <1>3, <1>4, <1>5 DEF Continue, OpenCount, CloseMark, CloseCount, FundScan,
     FundCount, LiqScan, LiqCount, LiqFinish, Publish, StoreFails, SinkFails

LEMMA BookStaysFinite == AnySpec => []BookFinite
<1>1. Init => BookFinite
  <2>1. Init => OpenKeys = {}
    BY DEF Init, OpenKeys
  <2> QED
    BY <2>1, FS_EmptySet DEF BookFinite
<1>2. TypeOK /\ BookFinite /\ [AnyNext]_vars => BookFinite'
  <2> SUFFICES ASSUME TypeOK, BookFinite, [AnyNext]_vars PROVE BookFinite'
    OBVIOUS
  <2>1. CASE positions' = positions
    BY <2>1 DEF BookFinite, OpenKeys
  <2>2. ASSUME NEW k \in Keys, \A j \in Keys \ {k} : positions'[j] = positions[j]
        PROVE  BookFinite'
    <3>1. OpenKeys' \subseteq OpenKeys \cup {k}
      BY <2>2 DEF OpenKeys
    <3>2. IsFiniteSet(OpenKeys \cup {k})
      BY FS_AddElement DEF BookFinite
    <3>3. IsFiniteSet(OpenKeys')
      BY <3>1, <3>2, FS_Subset
    <3> QED
      BY <3>3 DEF BookFinite
  <2> QED
    BY <2>1, <2>2, WritesOneKey DEF AnyNext, Done, vars
<1> QED
  BY <1>1, <1>2, TypeCorrectAny, PTL DEF AnySpec

(* What a tick over market snapshot v settles on each key: whatever it has *)
(* paid before, a position pays by its side and size.                      *)
Pays(v) == [k \in Keys |-> IF positions[k] = None THEN 0
                           ELSE FundingPayment(positions[k], v.mark_price, v.funding_rate_bps)]

MarketKeys(v) == {k \in OpenKeys : k[2] = v.symbol}
TodoKeys == {k \in Keys : \E e \in req[Client].todo : e.key = k}

(* What the tick has settled and has still to settle is what the positions *)
(* of its market pay.                                                      *)
TickAccounted ==
  pc[Client] \in {"fund_upsert", "fund_count"} =>
    LET v == req[Client].view
    IN  /\ TodoKeys \subseteq MarketKeys(v)
        /\ Total(req[Client].evs, "settled") + SumFunctionOnSet(Pays(v), TodoKeys)
             = SumFunctionOnSet(Pays(v), MarketKeys(v))

LEMMA PaysType ==
  ASSUME TypeOK, BookFinite, NEW v \in View
  PROVE  /\ \A k \in Keys : Pays(v)[k] \in Int
         /\ IsFiniteSet(MarketKeys(v)) /\ MarketKeys(v) \subseteq Keys
<1>1. v.mark_price \in Price /\ v.funding_rate_bps \in Int
  BY DEF View
<1>2. \A p \in Position : FundingPayment(p, v.mark_price, v.funding_rate_bps) \in Int
  BY <1>1, FundingType, MathAssumption DEF Usd, UsdMin
<1>3. positions \in [Keys -> Position \cup {None}]
  BY DEF TypeOK, StateOK
<1>4. MarketKeys(v) \subseteq OpenKeys /\ MarketKeys(v) \subseteq Keys
  BY DEF MarketKeys, OpenKeys
<1>5. IsFiniteSet(MarketKeys(v))
  BY <1>4, FS_Subset DEF BookFinite
<1> QED
  BY <1>2, <1>3, <1>4, <1>5 DEF Pays

LEMMA FundScanTick ==
  ASSUME OneAtATime, TypeOK, SoloInv, TasksInOrder, BookFinite, NEW t \in Tasks, FundScan(t)
  PROVE  TickAccounted'
<1> DEFINE v == req[t].view
<1>1. /\ pc[t] = "fund_scan" /\ t = Client /\ positions' = positions /\ v \in View
  BY SoloLocals, Held DEF FundScan, HoldsView
<1>2. CASE Reply(t, <<>>)
  <2>1. pc'[t] = "idle"
    BY <1>2, SoloLocals DEF Reply, Goto
  <2> QED
    BY <1>1, <2>1 DEF TickAccounted
<1>3. CASE ~Reply(t, <<>>)
  <2>1. /\ req'[t].todo = ByMarket(v.symbol) /\ req'[t].view = v
        /\ req'[t].evs = req[t].evs
    BY <1>1, <1>3, SoloLocals DEF FundScan, Request
  <2>2. TodoKeys' = MarketKeys(v)
    <3>1. ASSUME NEW k \in Keys
          PROVE  (\E e \in ByMarket(v.symbol) : e.key = k)
                   <=> k[2] = v.symbol /\ positions[k] # None
      <4>1. ASSUME k[2] = v.symbol, positions[k] # None
            PROVE  \E e \in ByMarket(v.symbol) : e.key = k
        <5> DEFINE e == [key |-> k, pos |-> positions[k]]
        <5>1. e \in ByMarket(v.symbol) /\ e.key = k
          BY <4>1, ByMarketStored
        <5> QED
          BY <5>1
      <4> QED
        BY <4>1, ByMarketStored
    <3> QED
      BY <1>1, <2>1, <3>1 DEF TodoKeys, MarketKeys, OpenKeys
  <2>3. MarketKeys(v)' = MarketKeys(v) /\ Pays(v)' = Pays(v)
    BY <1>1, <2>1 DEF MarketKeys, OpenKeys, Pays
  <2>4. req[t].evs = <<>>
    BY <1>1, NothingHeld DEF HoldsNoEvents
  <2>5. Total(req'[t].evs, "settled") = 0
    BY <2>1, <2>4, TotalEmpty
  <2>6. SumFunctionOnSet(Pays(v), MarketKeys(v)) \in Int
    BY <1>1, PaysType, SumInt
  <2> QED
    BY <1>1, <2>1, <2>2, <2>3, <2>5, <2>6 DEF TickAccounted
<1> QED
  BY <1>2, <1>3

LEMMA FundUpsertTick ==
  ASSUME OneAtATime, TypeOK, TypeOK', SoloInv, BookFinite, TickAccounted,
         NEW t \in Tasks, FundUpsert(t)
  PROVE  TickAccounted'
<1> DEFINE v == req[t].view
<1>1. /\ pc[t] = "fund_upsert" /\ t = Client /\ v \in View
      /\ positions \in [Keys -> Position \cup {None}] /\ req[t].evs \in Seq(Event)
  BY SoloLocals, Held DEF FundUpsert, HoldsView
<1>2. PICK e \in req[t].todo :
        LET payment == FundingPayment(e.pos, v.mark_price, v.funding_rate_bps)
        IN  /\ positions' = [positions EXCEPT ![e.key] = Settled(e.pos, payment)]
            /\ req'[t].todo = req[t].todo \ {e} /\ req'[t].view = v
            /\ req'[t].evs = Append(req[t].evs,
                 [type |-> "FundingSettled", key |-> e.key, amount |-> payment])
  <2>1. PICK e \in req[t].todo :
          LET payment == FundingPayment(e.pos, v.mark_price, v.funding_rate_bps)
          IN  /\ positions' = [positions EXCEPT ![e.key] = Settled(e.pos, payment)]
              /\ req' = [req EXCEPT ![t].todo = req[t].todo \ {e},
                   ![t].evs = Append(@, [type |-> "FundingSettled", key |-> e.key,
                                         amount |-> payment])]
    BY DEF FundUpsert
  <2>2. req'[t].todo = req[t].todo \ {e} /\ req'[t].view = v
    BY <2>1, SoloLocals DEF Request
  <2>3. req'[t].evs = Append(req[t].evs,
          [type |-> "FundingSettled", key |-> e.key,
           amount |-> FundingPayment(e.pos, v.mark_price, v.funding_rate_bps)])
    BY <2>1, SoloLocals DEF Request
  <2> QED
    BY <2>1, <2>2, <2>3
<1> DEFINE payment == FundingPayment(e.pos, v.mark_price, v.funding_rate_bps)
           ev == [type |-> "FundingSettled", key |-> e.key, amount |-> payment]
           new == Settled(e.pos, payment)
<1>3. e \in Snapshot /\ e.key \in Keys /\ e.pos \in Position
      /\ positions[e.key] = e.pos /\ e.pos # None /\ e \in req[Client].todo
  <2>1. e \in Snapshot /\ e \in req[Client].todo
    BY <1>1, <1>2, SoloLocals
  <2> QED
    BY <2>1 DEF SoloInv, TodoStored, Snapshot
<1>4. payment \in Usd /\ payment \in Int /\ new \in Position /\ new # None
      /\ new.side = e.pos.side /\ new.size = e.pos.size
  <2>1. payment \in Usd
    BY <1>1, <1>3, FundingType DEF View
  <2>2. new \in Position /\ new # None
    BY <1>3, <2>1, SettledType, NoneIsNone
  <2>3. new.side = e.pos.side /\ new.size = e.pos.size
    BY <1>3 DEF Settled, Position
  <2> QED
    BY <2>1, <2>2, <2>3, MathAssumption DEF Usd, UsdMin
<1>5. Total(req'[t].evs, "settled") = Total(req[t].evs, "settled") + payment
      /\ Total(req[t].evs, "settled") \in Int
  <2>1. ev.type = "FundingSettled" /\ ev.amount = payment
    OBVIOUS
  <2>2. ev \in Event
    BY <1>3, <1>4 DEF Event
  <2>3. req'[t].evs = Append(req[t].evs, ev)
    BY <1>2
  <2>4. Amount("settled", ev) = payment
    BY <2>1 DEF Amount
  <2> HIDE DEF ev
  <2> QED
    BY <1>1, <2>2, <2>3, <2>4, TotalAppend, TotalType
<1>6. Pays(v)' = Pays(v)
  <2>1. FundingPayment(new, v.mark_price, v.funding_rate_bps) = payment
    BY <1>4 DEF FundingPayment, Notional
  <2>2. positions'[e.key] = new /\ \A k \in Keys \ {e.key} : positions'[k] = positions[k]
    BY <1>1, <1>2, <1>3
  <2> HIDE DEF new, payment
  <2>3. ASSUME NEW k \in Keys
        PROVE  (IF positions'[k] = None THEN 0
                ELSE FundingPayment(positions'[k], v.mark_price, v.funding_rate_bps))
               = (IF positions[k] = None THEN 0
                  ELSE FundingPayment(positions[k], v.mark_price, v.funding_rate_bps))
    <3>1. CASE k = e.key
      BY <1>3, <1>4, <2>1, <2>2, <3>1 DEF payment
    <3>2. CASE k # e.key
      BY <2>2, <3>2
    <3> QED
      BY <3>1, <3>2
  <2>4. v' = v
    BY <1>2
  <2> QED
    BY <2>3, <2>4 DEF Pays
<1>7. MarketKeys(v)' = MarketKeys(v)
  <2>1. v' = v
    BY <1>2
  <2> HIDE DEF v, new
  <2> QED
    BY <1>1, <1>2, <1>3, <1>4, <2>1 DEF MarketKeys, OpenKeys, new
<1>8. TodoKeys' = TodoKeys \ {e.key} /\ e.key \in TodoKeys
  <2>1. \A d \in req[t].todo : d # e => d.key # e.key
    BY <1>1, <1>2, TodoDistinct
  <2> QED
    BY <1>1, <1>2, <1>3, <2>1 DEF TodoKeys
<1>9. /\ TodoKeys \subseteq MarketKeys(v)
      /\ Total(req[t].evs, "settled") + SumFunctionOnSet(Pays(v), TodoKeys)
           = SumFunctionOnSet(Pays(v), MarketKeys(v))
  BY <1>1 DEF TickAccounted
<1>10. /\ SumFunctionOnSet(Pays(v), TodoKeys)
            = payment + SumFunctionOnSet(Pays(v), TodoKeys \ {e.key})
       /\ SumFunctionOnSet(Pays(v), TodoKeys \ {e.key}) \in Int
  <2>1. IsFiniteSet(TodoKeys) /\ IsFiniteSet(TodoKeys \ {e.key})
    BY <1>1, <1>9, PaysType, FS_Subset, FS_RemoveElement
  <2>2. \A k \in TodoKeys : Pays(v)[k] \in Int
    BY <1>1, PaysType DEF TodoKeys
  <2>3. Pays(v)[e.key] = payment
    BY <1>3 DEF Pays
  <2> HIDE DEF payment, v
  <2> QED
    BY <1>8, <2>1, <2>2, <2>3, SumTakeOut, SumInt
<1> HIDE DEF payment
<1>11. Total(req'[t].evs, "settled") + SumFunctionOnSet(Pays(v), TodoKeys')
         = SumFunctionOnSet(Pays(v), MarketKeys(v))
  BY <1>4, <1>5, <1>8, <1>9, <1>10
<1> QED
  BY <1>1, <1>2, <1>6, <1>7, <1>8, <1>9, <1>11 DEF TickAccounted

LEMMA TickStep ==
  ASSUME OneAtATime
  PROVE  TypeOK /\ TypeOK' /\ SoloInv /\ TasksInOrder /\ BookFinite /\ TickAccounted
           /\ [AnyNext]_vars => TickAccounted'
<1> SUFFICES ASSUME TypeOK, TypeOK', SoloInv, TasksInOrder, BookFinite, TickAccounted,
                    [AnyNext]_vars
             PROVE  TickAccounted'
  OBVIOUS
<1>1. ASSUME NEW t \in Tasks, AnyStart(t) \/ Continue(t) \/ StoreFails(t) \/ SinkFails(t),
             pc'[Client] \in {"fund_upsert", "fund_count"}
      PROVE  FundScan(t) \/ FundUpsert(t)
  <2>1. t = Client /\ pc \in [Tasks -> Labels]
    BY SoloLocals
  <2>2. ASSUME NEW events, Reply(t, events) PROVE FALSE
    BY <1>1, <2>1, <2>2 DEF Reply, Goto
  <2>3. ASSUME Abandon(t) PROVE FALSE
    BY <1>1, <2>1, <2>3 DEF Abandon, Goto
  <2>4. ASSUME AnyStart(t) PROVE FALSE
    BY <1>1, <2>1, <2>2, <2>4 DEF AnyStart, OpenGet, CloseRemove, UpdateMarket, FundMarket,
       LiqMarket, Goto
  <2>5. ASSUME StoreFails(t) \/ SinkFails(t) PROVE FALSE
    BY <2>3, <2>5 DEF StoreFails, SinkFails
  <2>6. ASSUME OpenUpsert(t) \/ OpenCount(t) \/ CloseMark(t) \/ CloseCount(t) \/ FundCount(t)
        PROVE  FALSE
    BY <1>1, <2>1, <2>2, <2>3, <2>6 DEF OpenUpsert, OpenCount, CloseMark, CloseCount,
       FundCount, Goto
  <2>7. ASSUME LiqScan(t) \/ LiqRemove(t) \/ LiqSettle(t) \/ LiqCount(t) \/ LiqFinish(t)
        PROVE  FALSE
    BY <1>1, <2>1, <2>2, <2>7 DEF LiqScan, LiqRemove, LiqSettle, LiqCount, LiqFinish, Goto
  <2>8. ASSUME Publish(t) PROVE FALSE
    BY <1>1, <2>1, <2>3, <2>8 DEF Publish
  <2> QED
    BY <1>1, <2>4, <2>5, <2>6, <2>7, <2>8 DEF Continue
<1>2. CASE UNCHANGED vars
  BY <1>2 DEF vars, TickAccounted, TodoKeys, MarketKeys, OpenKeys, Pays
<1>3. CASE pc'[Client] \notin {"fund_upsert", "fund_count"}
  BY <1>3 DEF TickAccounted
<1> QED
  BY <1>1, <1>2, <1>3, FundScanTick, FundUpsertTick DEF AnyNext, Done

LEMMA TicksAccounted ==
  ASSUME OneAtATime
  PROVE  AnySpec => []TickAccounted
<1>1. Init => TickAccounted
  BY OnlyClient DEF Init, TickAccounted
<1>2. TypeOK /\ TypeOK' /\ SoloInv /\ StreamBehind /\ BookFinite /\ TickAccounted
        /\ [AnyNext]_vars => TickAccounted'
  BY TickStep DEF StreamBehind
<1> QED
  BY <1>1, <1>2, TypeCorrectAny, SoloInvariant, StreamNeverAhead, BookStaysFinite, PTL DEF AnySpec

(* A matched book, seen as a paired set.                                   *)
LEMMA MatchedIsPaired ==
  ASSUME TypeOK, BookFinite, NEW v \in View, Matched(v.symbol)
  PROVE  LET z == [k \in Keys |-> SizeOf(k)]
         IN  /\ \A k \in MarketKeys(v) : z[k] \in Int /\ z[k] # 0
             /\ Paired(MarketKeys(v), z)
<1> DEFINE z == [k \in Keys |-> SizeOf(k)]
           M == MarketKeys(v)
<1>1. positions \in [Keys -> Position \cup {None}]
  BY DEF TypeOK, StateOK
<1>2. ASSUME NEW k \in M
      PROVE  /\ k \in Keys /\ k \in KeysOf(v.symbol) /\ positions[k] # None
             /\ positions[k].size \in Nat \ {0}
             /\ z[k] = IF positions[k].side = "long" THEN positions[k].size
                       ELSE -positions[k].size
             /\ z[k] \in Int /\ z[k] # 0
  <2>1. k \in Keys /\ k[2] = v.symbol /\ positions[k] # None
    BY DEF MarketKeys, OpenKeys
  <2>2. positions[k].size \in Nat \ {0}
    BY <1>1, <2>1, PositionFields
  <2> QED
    BY <2>1, <2>2 DEF SizeOf, KeysOf
<1>3. ASSUME NEW n \in Int, n # 0
      PROVE  Weighing(M, z, n) = {k \in KeysOf(v.symbol) : SizeOf(k) = n}
  <2>1. ASSUME NEW k \in KeysOf(v.symbol), SizeOf(k) = n
        PROVE  k \in M /\ z[k] = n
    BY <1>3, <2>1 DEF SizeOf, KeysOf, MarketKeys, OpenKeys
  <2>2. ASSUME NEW k \in M, z[k] = n
        PROVE  k \in KeysOf(v.symbol) /\ SizeOf(k) = n
    BY <1>2, <2>2
  <2> HIDE DEF M, z
  <2> QED
    BY <2>1, <2>2 DEF Weighing
<1> DEFINE Sizes == {positions[k].size : k \in {j \in KeysOf(v.symbol) : positions[j] # None}}
<1>4. \A n \in Sizes : Cardinality({k \in KeysOf(v.symbol) : SizeOf(k) = n})
                         = Cardinality({k \in KeysOf(v.symbol) : SizeOf(k) = -n})
  BY DEF Matched
<1>5. \A k \in M : positions[k].size \in Sizes /\ positions[k].size \in Nat \ {0}
  BY <1>2
<1> HIDE DEF Sizes, M, z
<1>6. ASSUME NEW n \in Sizes, n \in Nat \ {0}
      PROVE  Cardinality(Weighing(M, z, n)) = Cardinality(Weighing(M, z, -n))
  <2>1. n \in Int /\ -n \in Int /\ n # 0 /\ -n # 0
    BY <1>6
  <2> QED
    BY <1>3, <1>4, <2>1
<1>7. ASSUME NEW n \in Int
      PROVE  Cardinality(Weighing(M, z, n)) = Cardinality(Weighing(M, z, -n))
  <2>1. CASE \E k \in M : z[k] = n \/ z[k] = -n
    <3>1. PICK k \in M : z[k] = n \/ z[k] = -n
      BY <2>1
    <3> DEFINE s == positions[k].size
    <3>2. s \in Sizes /\ s \in Nat \ {0} /\ (z[k] = s \/ z[k] = -s)
      BY <1>2, <1>5
    <3>3. n = s \/ n = -s
      BY <3>1, <3>2
    <3>4. Cardinality(Weighing(M, z, s)) = Cardinality(Weighing(M, z, -s))
      BY <1>6, <3>2
    <3> HIDE DEF s
    <3>5. -(-s) = s
      BY <3>2
    <3> QED
      BY <3>3, <3>4, <3>5
  <2>2. CASE ~\E k \in M : z[k] = n \/ z[k] = -n
    <3>1. Weighing(M, z, n) = {} /\ Weighing(M, z, -n) = {}
      BY <2>2 DEF Weighing
    <3> QED
      BY <3>1
  <2> QED
    BY <2>1, <2>2
<1> QED
  BY <1>2, <1>7 DEF Paired, M, z

(* What the positions of a matched book pay nets to zero.                  *)
LEMMA MatchedPaysNothing ==
  ASSUME TypeOK, BookFinite, NEW v \in View, Matched(v.symbol)
  PROVE  SumFunctionOnSet(Pays(v), MarketKeys(v)) = 0
<1> DEFINE z == [k \in Keys |-> SizeOf(k)]
           M == MarketKeys(v)
<1>1. (\A k \in M : z[k] \in Int /\ z[k] # 0) /\ Paired(M, z)
  BY MatchedIsPaired
<1>2. IsFiniteSet(M) /\ M \subseteq Keys /\ \A k \in M : Pays(v)[k] \in Int
  BY PaysType
<1>3. positions \in [Keys -> Position \cup {None}] /\ v.mark_price \in Price
      /\ v.funding_rate_bps \in Int
  BY DEF TypeOK, StateOK, View
<1>4. ASSUME NEW j \in M, NEW k \in M, z[k] = -z[j]
      PROVE  Pays(v)[j] + Pays(v)[k] = 0
  <2> DEFINE p == positions[j]
             q == positions[k]
  <2>1. /\ j \in Keys /\ k \in Keys /\ p # None /\ q # None
        /\ p \in Position /\ q \in Position
    BY <1>2, <1>3 DEF MarketKeys, OpenKeys
  <2>2. /\ p.size \in Nat \ {0} /\ q.size \in Nat \ {0} /\ p.side \in Side /\ q.side \in Side
        /\ z[j] = (IF p.side = "long" THEN p.size ELSE -p.size)
        /\ z[k] = (IF q.side = "long" THEN q.size ELSE -q.size)
    BY <2>1, PositionFields DEF SizeOf
  <2>3. Pays(v)[j] = FundingPayment(p, v.mark_price, v.funding_rate_bps)
        /\ Pays(v)[k] = FundingPayment(q, v.mark_price, v.funding_rate_bps)
    BY <2>1 DEF Pays
  <2>4. Pays(v)[j] \in Int /\ Pays(v)[k] \in Int
    BY <1>2
  <2> HIDE DEF p, q, z
  <2>5. p.size = q.size /\ p.side # q.side
    BY <1>4, <2>2 DEF Side
  <2>6. CASE p.side = "long"
    <3>1. q.side = "short"
      BY <2>2, <2>5, <2>6 DEF Side
    <3> QED
      BY <1>3, <2>1, <2>3, <2>5, <2>6, <3>1, FundingBalances
  <2>7. CASE q.side = "long"
    <3>1. p.side = "short"
      BY <2>2, <2>5, <2>7 DEF Side
    <3>2. FundingPayment(q, v.mark_price, v.funding_rate_bps)
            + FundingPayment(p, v.mark_price, v.funding_rate_bps) = 0
      BY <1>3, <2>1, <2>5, <2>7, <3>1, FundingBalances
    <3> QED
      BY <2>3, <2>4, <3>2
  <2> QED
    BY <2>2, <2>5, <2>6, <2>7 DEF Side
<1> HIDE DEF z, M
<1>5. SumFunctionOnSet(Pays(v), M) = 0
  BY <1>1, <1>2, <1>4, PairsCancel
<1> QED
  BY <1>5 DEF M

LEMMA FundingNetsToZeroAny ==
  ASSUME OneAtATime
  PROVE  AnySpec => FundingZeroSum
<1>1. ASSUME TypeOK, SoloInv, BookFinite, TickAccounted, NEW t \in Tasks,
             pc[t] = "fund_count", Matched(req[t].view.symbol)
      PROVE  FundingTick(t) = 0
  <2> DEFINE v == req[t].view
  <2>1. t = Client /\ v \in View /\ req[t].evs \in Seq(Event)
    BY <1>1, SoloLocals, Held DEF HoldsView
  <2>2. TodoKeys = {}
    <3>1. req[Client].todo = {}
      BY <1>1, <2>1 DEF SoloInv, TodoEmpty
    <3> QED
      BY <3>1 DEF TodoKeys
  <2>3. Total(req[t].evs, "settled") + SumFunctionOnSet(Pays(v), TodoKeys)
          = SumFunctionOnSet(Pays(v), MarketKeys(v))
    BY <1>1, <2>1 DEF TickAccounted
  <2>4. SumFunctionOnSet(Pays(v), TodoKeys) = 0
    BY <2>2, SumEmpty
  <2>5. SumFunctionOnSet(Pays(v), MarketKeys(v)) = 0
    BY <1>1, <2>1, MatchedPaysNothing
  <2>6. Total(req[t].evs, "settled") \in Int
    BY <2>1, TotalType
  <2> QED
    BY <2>3, <2>4, <2>5, <2>6 DEF FundingTick
<1>2. TypeOK /\ SoloInv /\ BookFinite /\ TickAccounted =>
        (\A t \in Tasks :
           (pc[t] = "fund_count" /\ pc'[t] = "publish" /\ Matched(req[t].view.symbol))
             => FundingTick(t) = 0)
  BY <1>1
<1> QED
  BY <1>2, TypeCorrectAny, SoloInvariant, BookStaysFinite, TicksAccounted, PTL
     DEF FundingZeroSum

(* When commands do not overlap, and whatever port fails, a funding tick   *)
(* over a matched book nets to zero: not a micro-dollar is created or lost,*)
(* at any rate, also one at which amounts saturate.                        *)
THEOREM FundingNetsToZero ==
  ASSUME OneAtATime
  PROVE  Spec => FundingZeroSum
BY FundingNetsToZeroAny, SpecIsAny

----------------------------------------------------------------------------
(* The liquidation price: margins that leave room for every profit.        *)

(* A position on which no amount of the sweep's test saturates.            *)
Spacious(pos) == pos.posted_margin >= 0 /\ RoomToSpare(pos, Params)

(* Every position in the store, about to enter it or waiting in a tick's   *)
(* snapshot to be written back is such a position: a tick changes what has *)
(* been paid, never the margin or the size.                                *)
RoomInv ==
  /\ \A k \in Keys : positions[k] # None => Spacious(positions[k])
  /\ \A t \in Tasks : pc[t] = "open_upsert" => Spacious(req[t].cur.pos)
  /\ \A t \in Tasks : \A e \in req[t].todo : Spacious(e.pos)

(* The steps of an engine whose clients offer no more than that.           *)
OpenWithRoom(t) ==
  \E c \in OpenCommand : RoomToSpare(c, Params) /\ OpenGet(t, c)

OtherStart(t) ==
  \/ \E k \in Keys : CloseRemove(t, k)
  \/ \E u \in View : UpdateMarket(t, u)
  \/ \E s \in Symbols : FundMarket(t, s) \/ LiqMarket(t, s)

RoomyNext ==
  \E t \in Tasks : OpenWithRoom(t) \/ OtherStart(t) \/ Continue(t)
                     \/ StoreFails(t) \/ SinkFails(t)

LEMMA RoomMoves ==
  ASSUME TypeOK, RoomInv, NEW t \in Tasks,
         \A k \in Keys : positions'[k] \in {None, positions[k]} \/ Spacious(positions'[k]),
         \A u \in Tasks \ {t} : pc'[u] = pc[u] /\ req'[u] = req[u],
         pc'[t] = "open_upsert" => Spacious(req'[t].cur.pos),
         \A e \in req'[t].todo : Spacious(e.pos)
  PROVE  RoomInv'
<1>1. \A k \in Keys : positions'[k] # None => Spacious(positions'[k])
  BY DEF RoomInv
<1>2. ASSUME NEW u \in Tasks, pc'[u] = "open_upsert" PROVE Spacious(req'[u].cur.pos)
  BY <1>2 DEF RoomInv
<1>3. ASSUME NEW u \in Tasks, NEW e \in req'[u].todo PROVE Spacious(e.pos)
  BY <1>3 DEF RoomInv
<1> QED BY <1>1, <1>2, <1>3 DEF RoomInv, Spacious

LEMMA SettledKeepsRoom ==
  ASSUME NEW pos \in Position, Spacious(pos), NEW x
  PROVE  Spacious(Settled(pos, x))
BY DEF Spacious, RoomToSpare, Settled, Position

LEMMA OpenGetRoom ==
  ASSUME TypeOK, RoomInv, NEW t \in Tasks, NEW c \in OpenCommand, RoomToSpare(c, Params),
         OpenGet(t, c)
  PROVE  RoomInv'
<1>1. PositionOf(c) \in Position /\ c.entry_price \in Price /\ c.posted_margin \in Int
  BY MathAssumption DEF OpenCommand, PositionOf, Position, Usd, UsdMin
<1>2. InitialMargin(PositionOf(c), c.entry_price, Params) >= 0
      /\ InitialMargin(PositionOf(c), c.entry_price, Params) \in Int
  <2>1. Notional(PositionOf(c), c.entry_price) \in Usd
        /\ Notional(PositionOf(c), c.entry_price) >= 0
    BY <1>1, NotionalType
  <2>2. Params.initial_margin_bps \in Nat BY EngineAssumption DEF RiskParams
  <2>3. InitialMargin(PositionOf(c), c.entry_price, Params) \in Usd
        /\ InitialMargin(PositionOf(c), c.entry_price, Params) >= 0
    BY <2>1, <2>2, MulBpsType DEF InitialMargin
  <2> QED BY <2>3, MathAssumption DEF Usd, UsdMin
<1>3. Spacious(PositionOf(c))
  BY <1>1, <1>2 DEF OpenGet, Spacious, RoomToSpare, PositionOf
<1>4. req' = [req EXCEPT ![t].cur = [key |-> c.key, pos |-> PositionOf(c)]]
      /\ pc' = [pc EXCEPT ![t] = "open_upsert"] /\ positions' = positions
  BY DEF OpenGet, Goto
<1>5. req \in [Tasks -> Request] /\ pc \in [Tasks -> Labels] /\ req[t] \in Request
  BY DEF TypeOK, LocalsOK
<1>6. req'[t].cur.pos = PositionOf(c) /\ req'[t].todo = req[t].todo
  BY <1>4, <1>5 DEF Request
<1>7. \A u \in Tasks \ {t} : pc'[u] = pc[u] /\ req'[u] = req[u]
  BY <1>4, <1>5
<1>8. \A e \in req'[t].todo : Spacious(e.pos) BY <1>6 DEF RoomInv
<1> QED BY <1>3, <1>4, <1>6, <1>7, <1>8, RoomMoves

(* What the other steps write to the store and keep to write later.        *)
LEMMA StepKeepsRoom ==
  ASSUME TypeOK, RoomInv, NEW t \in Tasks,
         OtherStart(t) \/ Continue(t) \/ StoreFails(t) \/ SinkFails(t)
  PROVE  RoomInv'
<1>1. /\ req \in [Tasks -> Request] /\ pc \in [Tasks -> Labels] /\ req[t] \in Request
      /\ positions \in [Keys -> Position \cup {None}]
      /\ req[t].todo \in SUBSET Snapshot
  BY Held DEF TypeOK, LocalsOK, StateOK
<1>2. \A e \in req[t].todo : Spacious(e.pos) BY DEF RoomInv
<1>3. Idle.todo = {} BY DEF Idle
<1>4. ASSUME NEW events, Reply(t, events)
      PROVE  /\ \A u \in Tasks \ {t} : pc'[u] = pc[u] /\ req'[u] = req[u]
             /\ pc'[t] # "open_upsert" /\ req'[t].todo = {}
  BY <1>1, <1>4 DEF Reply, Goto, Idle
<1>5. ASSUME Abandon(t)
      PROVE  /\ \A u \in Tasks \ {t} : pc'[u] = pc[u] /\ req'[u] = req[u]
             /\ pc'[t] # "open_upsert" /\ req'[t].todo = {}
  BY <1>1, <1>3, <1>5 DEF Abandon, Goto
<1>6. ASSUME NEW l, Goto(t, l), l # "open_upsert"
      PROVE  pc'[t] # "open_upsert" /\ \A u \in Tasks \ {t} : pc'[u] = pc[u]
  BY <1>1, <1>6 DEF Goto
<1>7. ASSUME NEW events, Reply(t, events), positions' = positions PROVE RoomInv'
  BY <1>4, <1>7, RoomMoves
<1>8. ASSUME Abandon(t), positions' = positions PROVE RoomInv'
  BY <1>5, <1>8, RoomMoves
<1>9. ASSUME NEW l, Goto(t, l), l # "open_upsert", positions' = positions,
             \A u \in Tasks \ {t} : req'[u] = req[u], req'[t].todo \subseteq req[t].todo
      PROVE  RoomInv'
  BY <1>2, <1>6, <1>9, RoomMoves
<1>10. CASE OtherStart(t)
  <2>1. ASSUME NEW k \in Keys, CloseRemove(t, k) PROVE RoomInv'
    <3>1. \A j \in Keys : positions'[j] \in {None, positions[j]}
      BY <1>1, <2>1 DEF CloseRemove
    <3>2. req'[t].todo = req[t].todo /\ \A u \in Tasks \ {t} : req'[u] = req[u]
      BY <1>1, <2>1 DEF CloseRemove, Request
    <3> QED BY <1>2, <1>6, <2>1, <3>1, <3>2, RoomMoves DEF CloseRemove
  <2>2. ASSUME NEW u \in View, UpdateMarket(t, u) PROVE RoomInv'
    BY <1>7, <2>2 DEF UpdateMarket
  <2>3. ASSUME NEW s \in Symbols, FundMarket(t, s) \/ LiqMarket(t, s) PROVE RoomInv'
    <3>1. req'[t].todo = req[t].todo /\ \A u \in Tasks \ {t} : req'[u] = req[u]
      BY <1>1, <2>3 DEF FundMarket, LiqMarket, Request
    <3> QED BY <1>9, <2>3, <3>1 DEF FundMarket, LiqMarket
  <2> QED BY <1>10, <2>1, <2>2, <2>3 DEF OtherStart
<1>11. CASE OpenUpsert(t)
  <2>1. req[t].cur.key \in Keys /\ req' = req
        /\ positions' = [positions EXCEPT ![req[t].cur.key] = req[t].cur.pos]
    BY <1>11, Held DEF OpenUpsert, HoldsPosition, Snapshot
  <2>2. Spacious(req[t].cur.pos) BY <1>11 DEF OpenUpsert, RoomInv
  <2>3. \A j \in Keys : positions'[j] \in {None, positions[j]} \/ Spacious(positions'[j])
    BY <1>1, <2>1, <2>2
  <2> QED BY <1>2, <1>6, <1>11, <2>1, <2>3, RoomMoves DEF OpenUpsert
<1>12. CASE OpenCount(t) \/ CloseCount(t) \/ FundCount(t) \/ LiqFinish(t)
  BY <1>7, <1>12 DEF OpenCount, CloseCount, FundCount, LiqFinish
<1>13. CASE CloseMark(t)
  <2>1. CASE Abandon(t) BY <1>8, <1>13, <2>1 DEF CloseMark
  <2>2. CASE ~Abandon(t)
    <3>1. req'[t].todo = req[t].todo /\ \A u \in Tasks \ {t} : req'[u] = req[u]
      BY <1>1, <1>13, <2>2 DEF CloseMark, Request
    <3> QED BY <1>9, <1>13, <2>2, <3>1 DEF CloseMark
  <2> QED BY <2>1, <2>2
<1>14. CASE FundScan(t) \/ LiqScan(t)
  <2>1. CASE Reply(t, <<>>) BY <1>7, <1>14, <2>1 DEF FundScan, LiqScan
  <2>2. CASE ~Reply(t, <<>>)
    <3>1. PICK s : /\ s \subseteq ByMarket(req[t].view.symbol)
                   /\ req' = [req EXCEPT ![t].todo = s]
                   /\ Goto(t, "fund_upsert") \/ Goto(t, "liq_remove")
                   /\ positions' = positions
      BY <1>14, <2>2 DEF FundScan, LiqScan, Underwater
    <3>2. \A e \in ByMarket(req[t].view.symbol) : Spacious(e.pos)
      BY DEF ByMarket, RoomInv
    <3>3. req'[t].todo = s /\ \A u \in Tasks \ {t} : req'[u] = req[u]
      BY <1>1, <3>1 DEF Request
    <3> QED BY <1>6, <3>1, <3>2, <3>3, RoomMoves
  <2> QED BY <2>1, <2>2
<1>15. CASE FundUpsert(t)
  <2> DEFINE pay(e) == FundingPayment(e.pos, req[t].view.mark_price,
                                      req[t].view.funding_rate_bps)
  <2>1. PICK e \in req[t].todo :
          /\ positions' = [positions EXCEPT ![e.key] = Settled(e.pos, pay(e))]
          /\ req' = [req EXCEPT ![t].todo = req[t].todo \ {e},
               ![t].evs = Append(@, [type |-> "FundingSettled", key |-> e.key,
                                     amount |-> pay(e)])]
          /\ Goto(t, IF req[t].todo \ {e} = {} THEN "fund_count" ELSE "fund_upsert")
    BY <1>15 DEF FundUpsert
  <2>2. e.pos \in Position /\ Spacious(e.pos) BY <1>1, <1>2 DEF Snapshot
  <2>3. Spacious(Settled(e.pos, pay(e))) BY <2>2, SettledKeepsRoom
  <2>4. \A j \in Keys : positions'[j] \in {None, positions[j]} \/ Spacious(positions'[j])
    <3> HIDE DEF pay
    <3> QED BY <1>1, <2>1, <2>3
  <2>5. req'[t].todo = req[t].todo \ {e} /\ \A u \in Tasks \ {t} : req'[u] = req[u]
    BY <1>1, <2>1 DEF Request
  <2> QED BY <1>2, <1>6, <2>1, <2>4, <2>5, RoomMoves
<1>16. CASE LiqRemove(t)
  <2>1. PICK e \in req[t].todo :
          /\ positions' = [positions EXCEPT ![e.key] = None]
          /\ req' = [req EXCEPT ![t].todo = req[t].todo \ {e}, ![t].cur = e]
          /\ Goto(t, "liq_settle")
    BY <1>16 DEF LiqRemove
  <2>2. \A j \in Keys : positions'[j] \in {None, positions[j]} BY <1>1, <2>1
  <2>3. req'[t].todo = req[t].todo \ {e} /\ \A u \in Tasks \ {t} : req'[u] = req[u]
    BY <1>1, <2>1 DEF Request
  <2> QED BY <1>2, <1>6, <2>1, <2>2, <2>3, RoomMoves
<1>17. CASE LiqSettle(t)
  <2>1. req'[t].todo = req[t].todo /\ \A u \in Tasks \ {t} : req'[u] = req[u]
    BY <1>1, <1>17 DEF LiqSettle, SettleBankrupt, SettleSolvent, Request
  <2> QED BY <1>9, <1>17, <2>1 DEF LiqSettle
<1>18. CASE LiqCount(t)
  <2>1. \/ Goto(t, "liq_finish")
        \/ Goto(t, "liq_remove")
    BY <1>18 DEF LiqCount
  <2> QED BY <1>9, <1>18, <2>1 DEF LiqCount
<1>19. CASE Publish(t)
  <2>1. CASE Abandon(t) BY <1>8, <1>19, <2>1 DEF Publish
  <2>2. CASE ~Abandon(t)
    <3>1. req' = [req EXCEPT ![t].evs = Tail(@)] /\ pc' = pc /\ positions' = positions
      BY <1>19, <2>2 DEF Publish
    <3>2. req'[t].todo = req[t].todo /\ \A u \in Tasks \ {t} : req'[u] = req[u]
      BY <1>1, <3>1 DEF Request
    <3> QED BY <1>2, <1>19, <3>1, <3>2, RoomMoves DEF Publish
  <2> QED BY <2>1, <2>2
<1>20. CASE StoreFails(t) \/ SinkFails(t)
  BY <1>8, <1>20 DEF StoreFails, SinkFails
<1> QED
  BY <1>10, <1>11, <1>12, <1>13, <1>14, <1>15, <1>16, <1>17, <1>18, <1>19, <1>20 DEF Continue

LEMMA RoomStep == TypeOK /\ RoomInv /\ [RoomyNext]_vars => RoomInv'
<1>1. TypeOK /\ RoomInv /\ RoomyNext => RoomInv'
  BY OpenGetRoom, StepKeepsRoom DEF RoomyNext, OpenWithRoom
<1>2. RoomInv /\ UNCHANGED vars => RoomInv'
  BY DEF RoomInv, vars, Spacious
<1> QED BY <1>1, <1>2

LEMMA RoomStarts == Init => RoomInv
BY DEF Init, RoomInv, Idle

(* While there is room, the liquidation price is the edge of the sweep's   *)
(* test.                                                                   *)
LEMMA RoomGivesEdge ==
  ASSUME Params.maintenance_margin_bps <= 5000, TypeOK, RoomInv
  PROVE  LiquidationPriceIsEdge
<1> SUFFICES ASSUME NEW k \in Keys, positions[k] # None,
                    LiquidationPrice(positions[k], Params) # NoPrice,
                    positions[k].posted_margin - positions[k].funding_paid \in Usd
             PROVE  LET pos == positions[k]
                        edge == LiquidationPrice(pos, Params)
                        safe == IF pos.side = "long" THEN edge + 1 ELSE edge
                        past == IF pos.side = "long" THEN edge - EdgeSlack(pos)
                                                     ELSE edge + 1 + EdgeSlack(pos)
                    IN  /\ safe \in Price => ~IsLiquidatable(pos, safe, Params)
                        /\ past \in Price => IsLiquidatable(pos, past, Params)
  BY DEF LiquidationPriceIsEdge
<1> DEFINE pos == positions[k]
           edge == LiquidationPrice(pos, Params)
           c == Reach(pos.size)
<1>1. pos \in Position /\ Spacious(pos) /\ Params \in RiskParams
  BY EngineAssumption DEF TypeOK, StateOK, RoomInv
<1>2. EdgeSlack(pos) = c BY DEF EdgeSlack, Reach
<1>3. ASSUME NEW p \in Price
      PROVE  /\ pos.side = "long" /\ p = edge + 1 => ~IsLiquidatable(pos, p, Params)
             /\ pos.side = "long" /\ p = edge - c => IsLiquidatable(pos, p, Params)
             /\ pos.side = "short" /\ p = edge => ~IsLiquidatable(pos, p, Params)
             /\ pos.side = "short" /\ p = edge + 1 + c => IsLiquidatable(pos, p, Params)
  BY <1>1, LiquidationPriceBounds DEF Spacious
<1>4. pos.side \in {"long", "short"} BY <1>1 DEF Position, Side
<1> HIDE DEF pos, edge, c
<1>5. CASE pos.side = "long" BY <1>2, <1>3, <1>5 DEF pos, edge
<1>6. CASE pos.side = "short" BY <1>2, <1>3, <1>6 DEF pos, edge
<1> QED BY <1>4, <1>5, <1>6

(* Whatever commands interleave, whatever port fails and whatever funding  *)
(* a position has paid or received: the liquidation price the API reports  *)
(* for it is the edge of the test the sweep makes, where maintenance rates *)
(* are at most one half and no offer is so large that its test saturates.  *)
THEOREM LiquidationPriceBoundsSweeps ==
  ASSUME Params.maintenance_margin_bps <= 5000,
         \A c \in OpenCommands : RoomToSpare(c, Params)
  PROVE  Spec => []LiquidationPriceIsEdge
<1>1. [Next]_vars => [RoomyNext]_vars
  <2>1. ASSUME NEW t \in Tasks, Start(t) PROVE OpenWithRoom(t) \/ OtherStart(t)
    BY <2>1, EngineAssumption DEF Start, OpenWithRoom, OtherStart
  <2> QED BY <2>1 DEF Next, RoomyNext, Done
<1>2. TypeOK /\ RoomInv => LiquidationPriceIsEdge BY RoomGivesEdge
<1> QED BY <1>1, <1>2, RoomStep, RoomStarts, TypeCorrect, PTL DEF Spec

----------------------------------------------------------------------------
(* Commands that overlap: the positions that no two of them have held at   *)
(* the same time.                                                          *)

Faultless == ~StoreMayFail /\ ~SinkMayFail

(* Where the events s tell of the position of k.                           *)
Tells(s, k) == {i \in DOMAIN s : NamesKey(s[i]) /\ s[i].key = k}

(* A stored position p is told as b, unless a port has failed.             *)
ToldAs(p, b) ==
  Faultless /\ p # None => b # None /\ b.side = p.side /\ b.funding = p.funding_paid

(* The event e turns what is told as b into what is stored as p.           *)
Bridges(p, b, e) ==
  Faultless /\ p # None =>
    /\ e.type \notin {"PositionClosed", "Liquidated"}
    /\ e.type = "PositionOpened" => p.side = e.side /\ p.funding_paid = 0
    /\ e.type = "FundingSettled" =>
         b # None /\ b.side = p.side /\ p.funding_paid = SatAdd(b.funding, e.amount)

(* What a task at label l with locals r holds of the position of k, when   *)
(* no other task holds it: copies are still right, what was taken out is   *)
(* gone, and the event still to be sent is all that a reader lacks.        *)
HandOK(l, r, k, p, b) ==
  /\ \A e \in r.todo : e.key = k => p = e.pos /\ ToldAs(p, b)
  /\ r.cur # None /\ r.cur.key = k =>
       /\ l = "open_upsert" => r.cur.pos.funding_paid = 0
       /\ l = "open_count" => p = r.cur.pos /\ p.funding_paid = 0
       /\ l \notin {"open_upsert", "open_count"} => p = None
  /\ \A i \in Tells(r.evs, k) : Bridges(p, b, r.evs[i])

(* The locals of a task name a position in one place at a time.            *)
Shapely(l, r) ==
  /\ l \in {"idle", "fund_scan", "liq_scan"} => r.cur = None
  /\ l \in {"idle", "fund_scan", "liq_scan", "open_upsert", "open_count", "close_mark",
            "close_count", "fund_count", "liq_finish", "publish"} => r.todo = {}
  /\ l \in {"idle", "fund_scan", "liq_scan", "open_upsert", "open_count", "close_mark"} =>
       r.evs = <<>>
  /\ l \in {"fund_upsert", "fund_count", "publish"} => r.cur = None
  /\ l = "liq_settle" => Tells(r.evs, r.cur.key) = {}
  /\ \A d, e \in r.todo : d.key = e.key => d = e
  /\ \A e \in r.todo : Tells(r.evs, e.key) = {} /\ (r.cur # None => r.cur.key # e.key)
  /\ \A k \in Keys : \A i, j \in Tells(r.evs, k) : i = j
  /\ l \in HoldsLoss => \A e \in r.todo : Sinks(e.pos, r.view)

Shown(k) == Rebuilt(bus).book[k]

ContentionInv ==
  /\ contested \subseteq Keys
  /\ \A t \in Tasks : Shapely(pc[t], req[t])
  /\ Clashing \subseteq contested
  /\ \A k \in Keys \ contested :
       /\ (\A t \in Tasks : k \notin Holding(req[t])) => ToldAs(positions[k], Shown(k))
       /\ \A t \in Tasks : HandOK(pc[t], req[t], k, positions[k], Shown(k))

LEMMA HoldingMeans ==
  ASSUME NEW r \in Request, NEW k
  PROVE  k \in Holding(r) <=> \/ \E e \in r.todo : e.key = k
                              \/ r.cur # None /\ r.cur.key = k
                              \/ Tells(r.evs, k) # {}
BY DEF Holding, Tells, ToSet

LEMMA TellsAppend ==
  ASSUME NEW s \in Seq(Event), NEW e \in Event, NEW k
  PROVE  /\ Append(s, e) \in Seq(Event)
         /\ \A i \in Tells(Append(s, e), k) :
              (i \in Tells(s, k) /\ Append(s, e)[i] = s[i])
                \/ (i = Len(s) + 1 /\ Append(s, e)[i] = e /\ NamesKey(e) /\ e.key = k)
         /\ Tells(s, k) \subseteq Tells(Append(s, e), k)
         /\ NamesKey(e) /\ e.key = k => Len(s) + 1 \in Tells(Append(s, e), k)
         /\ Len(s) + 1 \notin Tells(s, k)
<1> DEFINE m == Append(s, e)
<1>1. /\ m \in Seq(Event) /\ DOMAIN m = 1 .. Len(s) + 1 /\ DOMAIN s = 1 .. Len(s)
      /\ Len(s) \in Nat /\ m[Len(s) + 1] = e /\ \A i \in 1 .. Len(s) : m[i] = s[i]
  OBVIOUS
<1> HIDE DEF m
<1>2. \A i \in DOMAIN m : i \in DOMAIN s \/ i = Len(s) + 1
  BY <1>1
<1>3. Len(s) + 1 \in DOMAIN m /\ Len(s) + 1 \notin DOMAIN s /\ DOMAIN s \subseteq DOMAIN m
  BY <1>1
<1>4. \A i \in DOMAIN s : m[i] = s[i]
  BY <1>1
<1>5. /\ \A i \in Tells(m, k) :
           (i \in Tells(s, k) /\ m[i] = s[i])
             \/ (i = Len(s) + 1 /\ m[i] = e /\ NamesKey(e) /\ e.key = k)
      /\ Tells(s, k) \subseteq Tells(m, k)
      /\ NamesKey(e) /\ e.key = k => Len(s) + 1 \in Tells(m, k)
      /\ Len(s) + 1 \notin Tells(s, k)
  BY <1>1, <1>2, <1>3, <1>4 DEF Tells
<1> QED
  BY <1>1, <1>5 DEF m

LEMMA TellsTail ==
  ASSUME NEW s \in Seq(Event), s # <<>>, NEW k
  PROVE  /\ Tail(s) \in Seq(Event) /\ Head(s) \in Event /\ Head(s) = s[1]
         /\ \A i \in Tells(Tail(s), k) :
              i + 1 \in Tells(s, k) /\ Tail(s)[i] = s[i + 1] /\ i \in Nat /\ i > 0
         /\ \A i \in Tells(s, k) : i # 1 => i - 1 \in Tells(Tail(s), k)
         /\ 1 \in Tells(s, k) <=> NamesKey(Head(s)) /\ Head(s).key = k
<1> DEFINE m == Tail(s)
<1>1. /\ m \in Seq(Event) /\ DOMAIN m = 1 .. Len(s) - 1 /\ DOMAIN s = 1 .. Len(s)
      /\ Len(s) \in Nat /\ Len(s) > 0 /\ \A i \in 1 .. Len(s) - 1 : m[i] = s[i + 1]
      /\ Head(s) = s[1] /\ Head(s) \in Event
  OBVIOUS
<1> HIDE DEF m
<1>2. \A i \in DOMAIN m : i + 1 \in DOMAIN s /\ m[i] = s[i + 1] /\ i \in Nat /\ i > 0
  BY <1>1
<1>3. \A i \in DOMAIN s : i # 1 => i - 1 \in DOMAIN m /\ m[i - 1] = s[i]
  BY <1>1
<1>4. 1 \in DOMAIN s
  BY <1>1
<1>5. /\ \A i \in Tells(m, k) : i + 1 \in Tells(s, k) /\ m[i] = s[i + 1] /\ i \in Nat /\ i > 0
      /\ \A i \in Tells(s, k) : i # 1 => i - 1 \in Tells(m, k)
      /\ 1 \in Tells(s, k) <=> NamesKey(Head(s)) /\ Head(s).key = k
  BY <1>1, <1>2, <1>3, <1>4 DEF Tells
<1> QED
  BY <1>1, <1>5 DEF m

LEMMA TellsEmpty ==
  /\ \A k : Tells(<<>>, k) = {}
  /\ \A e \in Event : \A k : \A i \in Tells(<<e>>, k) : i = 1 /\ NamesKey(e) /\ e.key = k
BY DEF Tells

LEMMA IdleTellsNothing ==
  /\ Shapely("idle", Idle)
  /\ \A k, l, p, b : HandOK(l, Idle, k, p, b)
  /\ \A k : k \notin Holding(Idle)
<1>1. Idle \in Request /\ Idle.todo = {} /\ Idle.cur = None /\ Idle.evs = <<>>
  BY IdleType DEF Idle
<1>2. \A k : Tells(Idle.evs, k) = {}
  BY <1>1, TellsEmpty
<1> QED
  BY <1>1, <1>2, HoldingMeans DEF Shapely, HandOK, HoldsLoss

(* A task that does not hold a position has nothing to say of it.          *)
LEMMA NotInHand ==
  ASSUME NEW r \in Request, NEW k, k \notin Holding(r), NEW l, NEW p, NEW b
  PROVE  HandOK(l, r, k, p, b)
BY HoldingMeans DEF HandOK

(* A step of task t keeps its own part of the invariant, and what it       *)
(* changes it holds before or after.                                       *)
Kept(t) ==
  /\ Shapely(pc'[t], req'[t])
  /\ \A k \in Keys : k \notin Holding(req[t]) /\ k \notin Holding(req'[t]) =>
       positions'[k] = positions[k] /\ Shown(k)' = Shown(k)
  /\ \A k \in Keys \ contested :
       /\ k \in Holding(req[t]) \/ k \in Holding(req'[t])
       /\ HandOK(pc[t], req[t], k, positions[k], Shown(k))
       /\ k \notin Holding(req[t]) => ToldAs(positions[k], Shown(k))
       => /\ HandOK(pc'[t], req'[t], k, positions'[k], Shown(k)')
          /\ k \notin Holding(req'[t]) => ToldAs(positions'[k], Shown(k)')

(* So the rest of the invariant is kept as well.                           *)
LEMMA ContentionFrame ==
  ASSUME TypeOK, TypeOK', ContentionInv, NEW t \in Tasks,
         contested' = contested \cup Clashing',
         \A u \in Tasks \ {t} : pc'[u] = pc[u] /\ req'[u] = req[u],
         Kept(t)
  PROVE  ContentionInv'
<1>1. /\ \A u \in Tasks : req[u] \in Request /\ req'[u] \in Request
      /\ contested \subseteq contested' /\ Clashing' \subseteq contested'
      /\ contested' \subseteq Keys
  BY DEF TypeOK, LocalsOK, ContentionInv, Clashing
<1>2. \A u \in Tasks : Shapely(pc'[u], req'[u])
  BY DEF ContentionInv, Kept
<1>3. ASSUME NEW k \in Keys, k \notin contested'
      PROVE  /\ (\A u \in Tasks : k \notin Holding(req'[u])) => ToldAs(positions'[k], Shown(k)')
             /\ \A u \in Tasks : HandOK(pc'[u], req'[u], k, positions'[k], Shown(k)')
  <2>1. /\ k \notin contested
        /\ (\A u \in Tasks : k \notin Holding(req[u])) => ToldAs(positions[k], Shown(k))
        /\ \A u \in Tasks : HandOK(pc[u], req[u], k, positions[k], Shown(k))
    BY <1>1, <1>3 DEF ContentionInv
  <2>2. CASE k \notin Holding(req[t]) /\ k \notin Holding(req'[t])
    <3>1. positions'[k] = positions[k] /\ Shown(k)' = Shown(k)
      BY <2>2 DEF Kept
    <3>2. HandOK(pc'[t], req'[t], k, positions'[k], Shown(k)')
      BY <1>1, <2>2, NotInHand
    <3>3. \A u \in Tasks \ {t} : HandOK(pc'[u], req'[u], k, positions'[k], Shown(k)')
      BY <2>1, <3>1
    <3>4. (\A u \in Tasks : k \notin Holding(req'[u])) => ToldAs(positions'[k], Shown(k)')
      BY <2>1, <2>2, <3>1
    <3> QED
      BY <3>2, <3>3, <3>4
  <2>3. CASE k \in Holding(req[t]) \/ k \in Holding(req'[t])
    <3>1. \A u \in Tasks \ {t} : k \notin Holding(req[u]) /\ k \notin Holding(req'[u])
      <4>1. k \notin Clashing /\ k \notin Clashing'
        BY <1>1, <1>3, <2>1 DEF ContentionInv
      <4> QED
        BY <2>3, <4>1 DEF Clashing
    <3>2. k \notin Holding(req[t]) => ToldAs(positions[k], Shown(k))
      BY <2>1, <3>1
    <3>3. /\ HandOK(pc'[t], req'[t], k, positions'[k], Shown(k)')
          /\ k \notin Holding(req'[t]) => ToldAs(positions'[k], Shown(k)')
      BY <2>1, <2>3, <3>2 DEF Kept
    <3>4. \A u \in Tasks \ {t} : HandOK(pc'[u], req'[u], k, positions'[k], Shown(k)')
      BY <1>1, <3>1, NotInHand
    <3> QED
      BY <3>3, <3>4
  <2> QED
    BY <2>2, <2>3
<1> QED
  BY <1>1, <1>2, <1>3 DEF ContentionInv

LEMMA ShapeHeld ==
  ASSUME TypeOK, ContentionInv, NEW t \in Tasks
  PROVE  /\ req[t] \in Request /\ pc[t] \in Labels /\ Shapely(pc[t], req[t])
         /\ pc \in [Tasks -> Labels] /\ req \in [Tasks -> Request]
         /\ req[t].todo \subseteq Snapshot /\ req[t].evs \in Seq(Event)
         /\ req[t].cur \in Snapshot \cup {None}
         /\ positions \in [Keys -> Position \cup {None}]
BY DEF TypeOK, LocalsOK, StateOK, ContentionInv, Request

LEMMA SameBus == ASSUME bus' = bus PROVE \A k : Shown(k)' = Shown(k)
BY DEF Shown

(* The command returns: what it tells makes up for what it lets go.        *)
LEMMA ReplyKept ==
  ASSUME TypeOK, TypeOK', ContentionInv, NEW t \in Tasks,
         NEW events \in Seq(Event), Reply(t, events), UNCHANGED <<positions, bus>>,
         \A k \in Keys : \A i, j \in Tells(events, k) : i = j,
         \A k \in Keys \ contested :
           /\ k \in Holding(req[t]) \/ Tells(events, k) # {}
           /\ HandOK(pc[t], req[t], k, positions[k], Shown(k))
           => /\ \A i \in Tells(events, k) : Bridges(positions[k], Shown(k), events[i])
              /\ Tells(events, k) = {} => ToldAs(positions[k], Shown(k))
  PROVE  Kept(t)
<1> DEFINE n == req'[t]
           l == pc'[t]
<1>1. /\ n \in Request /\ n.todo = {} /\ n.cur = None /\ n.evs = events
      /\ l = IF events = <<>> THEN "idle" ELSE "publish"
  BY ShapeHeld, IdleType DEF Reply, Goto, Idle, TypeOK, LocalsOK
<1>2. \A k : Shown(k)' = Shown(k)
  BY SameBus
<1> HIDE DEF n, l
<1>3. \A k : k \in Holding(n) <=> Tells(events, k) # {}
  BY <1>1, HoldingMeans
<1>4. Shapely(l, n)
  BY <1>1 DEF Shapely, HoldsLoss
<1>5. ASSUME NEW k \in Keys, k \notin contested,
             k \in Holding(req[t]) \/ k \in Holding(n),
             HandOK(pc[t], req[t], k, positions[k], Shown(k))
      PROVE  /\ HandOK(l, n, k, positions[k], Shown(k))
             /\ k \notin Holding(n) => ToldAs(positions[k], Shown(k))
  BY <1>1, <1>3, <1>5 DEF HandOK
<1> QED
  BY <1>2, <1>4, <1>5 DEF Kept, n, l

LEMMA FailureKept ==
  ASSUME TypeOK, TypeOK', ContentionInv, NEW t \in Tasks, StoreFails(t) \/ SinkFails(t)
  PROVE  Kept(t)
<1>1. req'[t] = Idle /\ pc'[t] = "idle" /\ ~Faultless /\ UNCHANGED <<positions, bus>>
  BY ShapeHeld DEF StoreFails, SinkFails, Abandon, Goto, Faultless
<1> QED
  BY <1>1, SameBus, IdleTellsNothing DEF Kept, ToldAs

LEMMA OpenGetKept ==
  ASSUME TypeOK, TypeOK', ContentionInv, NEW t \in Tasks, NEW c \in OpenCommand, OpenGet(t, c)
  PROVE  Kept(t)
<1> DEFINE n == req'[t]
<1>1. /\ pc[t] = "idle" /\ pc'[t] = "open_upsert" /\ UNCHANGED <<positions, bus>>
      /\ n.todo = req[t].todo /\ n.evs = req[t].evs /\ n \in Request
      /\ n.cur = [key |-> c.key, pos |-> PositionOf(c)]
  BY ShapeHeld DEF OpenGet, Begin, Goto, TypeOK, LocalsOK, Request
<1> HIDE DEF n
<1>2. n.todo = {} /\ n.evs = <<>> /\ n.cur.pos.funding_paid = 0 /\ req[t].todo = {}
      /\ req[t].cur = None /\ req[t].evs = <<>>
  BY <1>1, ShapeHeld DEF Shapely, PositionOf
<1>3. \A k : Tells(n.evs, k) = {}
  BY <1>2, TellsEmpty
<1>4. Shapely("open_upsert", n)
  BY <1>2, <1>3 DEF Shapely, HoldsLoss
<1>5. \A k, p, b : HandOK("open_upsert", n, k, p, b)
  BY <1>2, <1>3 DEF HandOK
<1>6. \A k : k \notin Holding(req[t])
  BY <1>2, TellsEmpty, ShapeHeld, HoldingMeans
<1> QED
  BY <1>1, <1>4, <1>5, <1>6, SameBus DEF Kept, n

LEMMA OpenUpsertKept ==
  ASSUME TypeOK, TypeOK', ContentionInv, NEW t \in Tasks, OpenUpsert(t)
  PROVE  Kept(t)
<1> DEFINE r == req[t]
<1>1. /\ pc[t] = "open_upsert" /\ pc'[t] = "open_count" /\ bus' = bus /\ req'[t] = r
      /\ r \in Request /\ r.cur \in Snapshot /\ r.cur.key \in Keys /\ r.cur # None
      /\ positions' = [positions EXCEPT ![r.cur.key] = r.cur.pos]
  BY ShapeHeld, Held, NoneIsNone DEF OpenUpsert, Goto, HoldsPosition, Snapshot
<1>2. /\ r.todo = {} /\ r.evs = <<>> /\ Shapely("open_count", r)
  BY <1>1, ShapeHeld DEF Shapely, HoldsLoss
<1>3. \A k : Tells(r.evs, k) = {}
  BY <1>2, TellsEmpty
<1>4. \A k : k \in Holding(r) <=> k = r.cur.key
  BY <1>1, <1>2, <1>3, HoldingMeans
<1>5. ASSUME NEW k \in Keys, k = r.cur.key, NEW p, NEW b, NEW c, HandOK("open_upsert", r, k, p, b)
      PROVE  HandOK("open_count", r, k, r.cur.pos, c)
  BY <1>1, <1>2, <1>3, <1>5 DEF HandOK
<1>6. /\ \A k \in Keys \ {r.cur.key} : positions'[k] = positions[k]
      /\ positions'[r.cur.key] = r.cur.pos
  BY <1>1, ShapeHeld
<1> HIDE DEF r
<1>7. \A k : Shown(k)' = Shown(k)
  BY <1>1, SameBus
<1>8. req'[t] = req[t] /\ r = req[t]
  BY <1>1 DEF r
<1> QED
  BY <1>1, <1>2, <1>4, <1>5, <1>6, <1>7, <1>8 DEF Kept

LEMMA OpenCountKept ==
  ASSUME TypeOK, TypeOK', ContentionInv, NEW t \in Tasks, OpenCount(t)
  PROVE  Kept(t)
<1> DEFINE r == req[t]
           e == [type |-> "PositionOpened", key |-> r.cur.key, side |-> r.cur.pos.side]
<1>1. /\ pc[t] = "open_count" /\ Reply(t, <<e>>) /\ UNCHANGED <<positions, bus>>
      /\ r \in Request /\ r.cur \in Snapshot /\ r.cur # None
  BY ShapeHeld, Held, NoneIsNone DEF OpenCount, HoldsPosition
<1>2. r.cur.key \in Keys /\ r.cur.pos \in Position
  BY <1>1 DEF Snapshot
<1>3. e \in Event /\ <<e>> \in Seq(Event)
  BY <1>2, EventTypes, PositionFields
<1>4. /\ r.todo = {} /\ r.evs = <<>> /\ \A k : Tells(r.evs, k) = {}
  BY <1>1, ShapeHeld, TellsEmpty DEF Shapely
<1>5. \A k : k \in Holding(r) <=> k = r.cur.key
  BY <1>1, <1>4, HoldingMeans
<1>6. 1 \in Tells(<<e>>, r.cur.key) /\ \A k : \A i \in Tells(<<e>>, k) : i = 1 /\ k = r.cur.key
  BY <1>3, TellsEmpty DEF Tells, NamesKey
<1>7. ASSUME NEW k \in Keys, k = r.cur.key, NEW p, NEW b, HandOK("open_count", r, k, p, b)
      PROVE  Bridges(p, b, e)
  BY <1>1, <1>7 DEF HandOK, Bridges
<1>8. <<e>>[1] = e
  OBVIOUS
<1> DEFINE q == <<e>>
<1>9. q \in Seq(Event) /\ q[1] = e /\ Reply(t, q)
  BY <1>1, <1>3, <1>8
<1>10. 1 \in Tells(q, r.cur.key) /\ \A k : \A i \in Tells(q, k) : i = 1 /\ k = r.cur.key
  BY <1>6
<1> HIDE DEF e, q
<1>11. \A k \in Keys : \A i, j \in Tells(q, k) : i = j
  BY <1>10
<1>12. ASSUME NEW k \in Keys \ contested,
              k \in Holding(r) \/ Tells(q, k) # {},
              HandOK("open_count", r, k, positions[k], Shown(k))
       PROVE  /\ \A i \in Tells(q, k) : Bridges(positions[k], Shown(k), q[i])
              /\ Tells(q, k) = {} => ToldAs(positions[k], Shown(k))
  <2>1. k = r.cur.key
    BY <1>5, <1>10, <1>12
  <2> QED
    BY <1>7, <1>9, <1>10, <1>12, <2>1
<1> QED
  BY <1>1, <1>9, <1>11, <1>12, ReplyKept

LEMMA CloseRemoveKept ==
  ASSUME TypeOK, TypeOK', ContentionInv, NEW t \in Tasks, NEW j \in Keys, CloseRemove(t, j)
  PROVE  Kept(t)
<1> DEFINE n == req'[t]
<1>1. /\ pc[t] = "idle" /\ pc'[t] = "close_mark" /\ bus' = bus
      /\ n.todo = req[t].todo /\ n.evs = req[t].evs /\ n \in Request
      /\ n.cur = [key |-> j, pos |-> positions[j]]
      /\ positions' = [positions EXCEPT ![j] = None] /\ positions[j] # None
  BY ShapeHeld DEF CloseRemove, Begin, Goto, TypeOK, LocalsOK, Request
<1> HIDE DEF n
<1>2. n.todo = {} /\ n.evs = <<>> /\ n.cur # None /\ n.cur.key = j
      /\ req[t].todo = {} /\ req[t].cur = None /\ req[t].evs = <<>>
  <2>1. n.cur \in Snapshot
    BY <1>1, ShapeHeld DEF Snapshot
  <2> QED
    BY <1>1, <2>1, ShapeHeld, NoneIsNone DEF Shapely
<1>3. \A k : Tells(n.evs, k) = {}
  BY <1>2, TellsEmpty
<1>4. Shapely("close_mark", n)
  BY <1>2, <1>3 DEF Shapely, HoldsLoss
<1>5. \A k : k \in Holding(n) <=> k = j
  BY <1>1, <1>2, <1>3, HoldingMeans
<1>6. \A k, b : k = j => HandOK("close_mark", n, k, None, b)
  BY <1>2, <1>3 DEF HandOK
<1>7. \A k : k \notin Holding(req[t])
  BY <1>2, TellsEmpty, ShapeHeld, HoldingMeans
<1>8. positions'[j] = None /\ \A k \in Keys \ {j} : positions'[k] = positions[k]
  BY <1>1, ShapeHeld
<1>9. \A k : Shown(k)' = Shown(k)
  BY <1>1, SameBus
<1> QED
  BY <1>1, <1>4, <1>5, <1>6, <1>7, <1>8, <1>9 DEF Kept, n

(* The task keeps its copies and tells, at most, of what it has in hand,   *)
(* which is no longer stored.                                              *)
LEMMA CloseMarkKept ==
  ASSUME TypeOK, TypeOK', ContentionInv, NEW t \in Tasks, CloseMark(t)
  PROVE  Kept(t)
<1> DEFINE r == req[t]
           n == req'[t]
<1>1. /\ pc[t] = "close_mark" /\ UNCHANGED <<positions, bus>>
      /\ r \in Request /\ n \in Request /\ r.cur # None /\ r.todo = {} /\ r.evs = <<>>
  BY ShapeHeld, Held, NoneIsNone DEF CloseMark, HoldsPosition, Shapely, TypeOK, LocalsOK
<1>2. \A k : Tells(r.evs, k) = {}
  BY <1>1, TellsEmpty
<1>3. \A k : k \in Holding(r) <=> k = r.cur.key
  BY <1>1, <1>2, HoldingMeans
<1>4. \A k, p, b : k = r.cur.key /\ HandOK("close_mark", r, k, p, b) => p = None
  BY <1>1 DEF HandOK
<1>5. \A k : Shown(k)' = Shown(k)
  BY <1>1, SameBus
<1>6. CASE Abandon(t)
  <2>1. n = Idle /\ pc'[t] = "idle"
    BY <1>6, ShapeHeld DEF Abandon, Goto
  <2> HIDE DEF r, n
  <2>2. r = req[t] /\ n = req'[t]
    BY DEF r, n
  <2>3. \A b : ToldAs(None, b)
    BY DEF ToldAs
  <2> QED
    BY <1>1, <1>3, <1>4, <1>5, <2>1, <2>2, <2>3, IdleTellsNothing DEF Kept
<1>7. CASE ~Abandon(t)
  <2>1. PICK e : /\ e.type = "PositionClosed" /\ e.key = r.cur.key
                 /\ n = [r EXCEPT !.evs = <<e>>] /\ pc'[t] = "close_count"
    <3> DEFINE w == [type |-> "PositionClosed", key |-> r.cur.key,
                     realized_pnl |-> RealizedPnl(r.cur.pos, markets[r.cur.key[2]].mark_price)]
    <3>1. w.type = "PositionClosed" /\ w.key = r.cur.key
      OBVIOUS
    <3>2. req' = [req EXCEPT ![t].evs = <<w>>] /\ pc' = [pc EXCEPT ![t] = "close_count"]
      BY <1>7 DEF CloseMark, Goto
    <3> HIDE DEF w
    <3>3. n = [r EXCEPT !.evs = <<w>>] /\ pc'[t] = "close_count"
      BY <3>2, ShapeHeld
    <3> QED
      BY <3>1, <3>3
  <2>2. n.todo = {} /\ n.cur = r.cur /\ n.evs = <<e>>
    BY <1>1, <2>1 DEF Request
  <2> HIDE DEF r, n
  <2>3. \A k : \A i \in Tells(n.evs, k) : i = 1 /\ n.evs[i] = e /\ k = e.key
    BY <2>2 DEF Tells
  <2>4. Shapely("close_count", n)
    BY <2>2, <2>3 DEF Shapely, HoldsLoss
  <2>5. \A k : k \in Holding(n) => k = r.cur.key
    BY <1>1, <2>1, <2>2, <2>3, HoldingMeans
  <2>6. \A k, b : k = r.cur.key => HandOK("close_count", n, k, None, b)
    BY <2>2 DEF HandOK, Bridges
  <2>7. r = req[t] /\ n = req'[t]
    BY DEF r, n
  <2>8. \A b : ToldAs(None, b)
    BY DEF ToldAs
  <2> QED
    BY <1>1, <1>3, <1>4, <1>5, <2>1, <2>4, <2>5, <2>6, <2>7, <2>8 DEF Kept
<1> QED
  BY <1>6, <1>7

(* A command that ends with what it had in hand taken out of the store and *)
(* with the events s, which say so.                                        *)
LEMMA ReturnKept ==
  ASSUME TypeOK, TypeOK', ContentionInv, NEW t \in Tasks, NEW s \in Seq(Event), Reply(t, s),
         UNCHANGED <<positions, bus>>,
         pc[t] \in {"idle", "fund_scan", "liq_scan", "close_count", "fund_count", "liq_finish"},
         \A k : /\ Tells(s, k) = Tells(req[t].evs, k)
                /\ \A i \in Tells(s, k) : s[i] = req[t].evs[i]
  PROVE  Kept(t)
<1> DEFINE r == req[t]
<1>1. r \in Request /\ Shapely(pc[t], r) /\ r.todo = {}
  BY ShapeHeld DEF Shapely
<1> HIDE DEF r
<1>2. \A k \in Keys : \A i, j \in Tells(s, k) : i = j
  BY <1>1 DEF Shapely, r
<1>3. ASSUME NEW k \in Keys \ contested,
             k \in Holding(r) \/ Tells(s, k) # {},
             HandOK(pc[t], r, k, positions[k], Shown(k))
      PROVE  /\ \A i \in Tells(s, k) : Bridges(positions[k], Shown(k), s[i])
             /\ Tells(s, k) = {} => ToldAs(positions[k], Shown(k))
  <2>1. \A i \in Tells(s, k) : Bridges(positions[k], Shown(k), s[i])
    BY <1>3 DEF HandOK, r
  <2>2. ASSUME Tells(s, k) = {}
        PROVE  ToldAs(positions[k], Shown(k))
    <3>1. r.cur # None /\ r.cur.key = k
      BY <1>1, <1>3, <2>2, HoldingMeans DEF r
    <3>2. positions[k] = None
      BY <1>3, <3>1 DEF HandOK
    <3> QED
      BY <3>2 DEF ToldAs
  <2> QED
    BY <2>1, <2>2
<1> QED
  BY <1>2, <1>3, ReplyKept DEF r

LEMMA CountKept ==
  ASSUME TypeOK, TypeOK', ContentionInv, NEW t \in Tasks, CloseCount(t) \/ FundCount(t)
  PROVE  Kept(t)
<1>1. /\ Reply(t, req[t].evs) /\ UNCHANGED <<positions, bus>>
      /\ pc[t] \in {"close_count", "fund_count"} /\ req[t].evs \in Seq(Event)
  BY ShapeHeld DEF CloseCount, FundCount
<1> QED
  BY <1>1, ReturnKept

LEMMA UpdateMarketKept ==
  ASSUME TypeOK, TypeOK', ContentionInv, NEW t \in Tasks, NEW u \in View, UpdateMarket(t, u)
  PROVE  Kept(t)
<1> DEFINE e == [type |-> "MarketUpdated", symbol |-> u.symbol, mark_price |-> u.mark_price,
                 funding_rate_bps |-> u.funding_rate_bps]
           q == <<e>>
<1>1. e \in Event
  BY EventTypes DEF View
<1>2. Reply(t, q) /\ UNCHANGED <<positions, bus>> /\ pc[t] = "idle"
  BY DEF UpdateMarket, Begin
<1>3. \A k : Tells(q, k) = {}
  <2>1. ~NamesKey(e)
    BY DEF NamesKey
  <2> HIDE DEF e
  <2> QED
    BY <1>1, <2>1, TellsEmpty
<1>4. q \in Seq(Event) /\ \A k : Tells(req[t].evs, k) = {}
  BY <1>1, <1>2, ShapeHeld, TellsEmpty DEF Shapely
<1> HIDE DEF q
<1> QED
  BY <1>2, <1>3, <1>4, ReturnKept

LEMMA ReadMarketKept ==
  ASSUME TypeOK, TypeOK', ContentionInv, NEW t \in Tasks, NEW s \in Symbols,
         FundMarket(t, s) \/ LiqMarket(t, s)
  PROVE  Kept(t)
<1> DEFINE n == req'[t]
<1>1. /\ pc[t] = "idle" /\ pc'[t] \in {"fund_scan", "liq_scan"} /\ UNCHANGED <<positions, bus>>
      /\ n.todo = req[t].todo /\ n.evs = req[t].evs /\ n.cur = req[t].cur /\ n \in Request
  BY ShapeHeld DEF FundMarket, LiqMarket, Begin, Goto, TypeOK, LocalsOK, Request
<1> HIDE DEF n
<1>2. /\ n.todo = {} /\ n.evs = <<>> /\ n.cur = None
      /\ req[t].todo = {} /\ req[t].evs = <<>> /\ req[t].cur = None
  BY <1>1, ShapeHeld DEF Shapely
<1>3. \A k : Tells(<<>>, k) = {}
  BY TellsEmpty
<1>4. Shapely(pc'[t], n)
  BY <1>1, <1>2, <1>3 DEF Shapely, HoldsLoss
<1>5. \A k : k \notin Holding(n) /\ k \notin Holding(req[t])
  BY <1>1, <1>2, <1>3, ShapeHeld, HoldingMeans
<1> QED
  BY <1>1, <1>4, <1>5, SameBus DEF Kept, n

LEMMA ScanKept ==
  ASSUME TypeOK, TypeOK', ContentionInv, NEW t \in Tasks, FundScan(t) \/ LiqScan(t)
  PROVE  Kept(t)
<1> DEFINE n == req'[t]
           found == n.todo
<1>1. /\ pc[t] \in {"fund_scan", "liq_scan"} /\ UNCHANGED <<positions, bus>>
      /\ req[t].todo = {} /\ req[t].evs = <<>> /\ req[t].cur = None /\ n \in Request
  BY ShapeHeld DEF FundScan, LiqScan, Shapely, TypeOK, LocalsOK
<1>2. CASE Reply(t, <<>>)
  <2>1. <<>> \in Seq(Event)
    OBVIOUS
  <2> QED
    BY <1>1, <1>2, <2>1, ReturnKept
<1>3. CASE ~Reply(t, <<>>)
  <2>1. /\ found \subseteq ByMarket(req[t].view.symbol) /\ n.view = req[t].view
        /\ pc'[t] \in {"fund_upsert", "liq_remove"}
        /\ pc'[t] = "liq_remove" => \A e \in found : Sinks(e.pos, n.view)
        /\ n.cur = None /\ n.evs = <<>>
    <3>1. CASE FundScan(t)
      BY <1>1, <1>3, <3>1, ShapeHeld DEF FundScan, Goto, Request
    <3>2. CASE LiqScan(t)
      BY <1>1, <1>3, <3>2, ShapeHeld DEF LiqScan, Goto, Request, Underwater, Sinks
    <3> QED
      BY <3>1, <3>2
  <2>2. \A e \in found : e.key \in Keys /\ e.pos = positions[e.key]
                         /\ e = [key |-> e.key, pos |-> e.pos]
    BY <2>1 DEF ByMarket
  <2> HIDE DEF n
  <2>3. \A k : Tells(n.evs, k) = {} /\ Tells(req[t].evs, k) = {}
    BY <1>1, <2>1, TellsEmpty
  <2>4. \A d, e \in found : d.key = e.key => d = e
    BY <2>2
  <2>5. Shapely(pc'[t], n)
    BY <1>1, <2>1, <2>3, <2>4 DEF Shapely, HoldsLoss
  <2>6. \A k : k \notin Holding(req[t])
    BY <1>1, <2>3, ShapeHeld, HoldingMeans
  <2>7. ASSUME NEW k \in Keys, k \in Holding(n), ToldAs(positions[k], Shown(k))
        PROVE  HandOK(pc'[t], n, k, positions[k], Shown(k))
    BY <2>1, <2>2, <2>3, <2>7 DEF HandOK
  <2> QED
    BY <1>1, <2>5, <2>6, <2>7, SameBus DEF Kept, n
<1> QED
  BY <1>2, <1>3

(* m tells what s does and, at one more place, the event e.                *)
TellsAlso(s, m, e) ==
  /\ \E n : Tells(m, e.key) = {n} /\ m[n] = e
  /\ \A k : k # e.key => /\ Tells(m, k) = Tells(s, k)
                         /\ \A i \in Tells(m, k) : m[i] = s[i]

(* An event about a position that the task has told nothing of.            *)
LEMMA TellMore ==
  ASSUME NEW s \in Seq(Event), NEW m, NEW e \in Event,
         m = Append(s, e), NamesKey(e), Tells(s, e.key) = {}
  PROVE  TellsAlso(s, m, e)
<1> DEFINE n == Len(s) + 1
<1>1. m[n] = e
  OBVIOUS
<1>2. ASSUME NEW k
      PROVE  /\ \A i \in Tells(m, k) : \/ i \in Tells(s, k) /\ m[i] = s[i]
                                       \/ i = n /\ e.key = k
             /\ Tells(s, k) \subseteq Tells(m, k)
             /\ e.key = k => n \in Tells(m, k)
  BY TellsAppend
<1> HIDE DEF n
<1>3. Tells(m, e.key) = {n}
  <2>1. \A i \in Tells(m, e.key) : i = n
    BY <1>2
  <2>2. n \in Tells(m, e.key)
    BY <1>2
  <2> QED
    BY <2>1, <2>2
<1>4. ASSUME NEW k, k # e.key
      PROVE  Tells(m, k) = Tells(s, k) /\ \A i \in Tells(m, k) : m[i] = s[i]
  <2>1. \A i \in Tells(m, k) : i \in Tells(s, k) /\ m[i] = s[i]
    BY <1>2, <1>4
  <2>2. Tells(s, k) \subseteq Tells(m, k)
    BY <1>2
  <2> QED
    BY <2>1, <2>2
<1> QED
  BY <1>1, <1>3, <1>4 DEF TellsAlso

LEMMA EventAppended ==
  ASSUME NEW r \in Request, NEW n \in Request, NEW e, n.evs = Append(r.evs, e)
  PROVE  e \in Event
<1>1. r.evs \in Seq(Event) /\ n.evs \in Seq(Event)
  BY DEF Request
<1>2. Len(r.evs) + 1 \in 1 .. Len(n.evs) /\ n.evs[Len(r.evs) + 1] = e
  BY <1>1
<1> QED
  BY <1>1, <1>2

LEMMA FundUpsertKept ==
  ASSUME TypeOK, TypeOK', ContentionInv, NEW t \in Tasks, FundUpsert(t)
  PROVE  Kept(t)
<1> DEFINE r == req[t]
           n == req'[t]
<1>1. /\ pc[t] = "fund_upsert" /\ bus' = bus /\ r \in Request /\ n \in Request
      /\ r.todo \subseteq Snapshot /\ r.cur = None /\ Shapely("fund_upsert", r)
  BY ShapeHeld DEF FundUpsert, Shapely, TypeOK, LocalsOK
<1>2. PICK e, a :
        /\ e \in r.todo
        /\ positions' = [positions EXCEPT ![e.key] = Settled(e.pos, a)]
        /\ req' = [req EXCEPT ![t].todo = @ \ {e},
             ![t].evs = Append(@, [type |-> "FundingSettled", key |-> e.key, amount |-> a])]
        /\ pc'[t] = IF r.todo \ {e} = {} THEN "fund_count" ELSE "fund_upsert"
  BY ShapeHeld DEF FundUpsert, Goto
<1> DEFINE ev == [type |-> "FundingSettled", key |-> e.key, amount |-> a]
<1>3. /\ ev.type = "FundingSettled" /\ ev.key = e.key /\ ev.amount = a
      /\ n = [[r EXCEPT !.todo = @ \ {e}] EXCEPT !.evs = Append(@, ev)]
  BY <1>2, ShapeHeld
<1> HIDE DEF ev, n
<1>a. e \in r.todo
  BY <1>2
<1>4. /\ n.todo = r.todo \ {e} /\ n.evs = Append(r.evs, ev) /\ n.cur = None
  BY <1>1, <1>3 DEF Request
<1>5. e \in Snapshot /\ e.key \in Keys /\ e.pos \in Position /\ NamesKey(ev)
  BY <1>1, <1>3, <1>a DEF Snapshot, NamesKey
<1> HIDE DEF r
<1>6. ev \in Event /\ Tells(r.evs, ev.key) = {}
  BY <1>1, <1>3, <1>4, <1>a, EventAppended DEF Shapely
<1>b. r.evs \in Seq(Event)
  BY <1>1 DEF Request
<1>7. /\ \E j : Tells(n.evs, e.key) = {j} /\ n.evs[j] = ev
      /\ \A k : k # e.key => /\ Tells(n.evs, k) = Tells(r.evs, k)
                             /\ \A i \in Tells(n.evs, k) : n.evs[i] = r.evs[i]
  <2> DEFINE m == n.evs
             q == r.evs
  <2>1. q \in Seq(Event) /\ m = Append(q, ev) /\ Tells(q, ev.key) = {}
    BY <1>4, <1>6, <1>b
  <2> HIDE DEF m, q
  <2>2. TellsAlso(q, m, ev)
    BY <1>3, <1>5, <1>6, <2>1, TellMore
  <2> QED
    BY <1>3, <2>2 DEF m, q, TellsAlso
<1>8. Shapely(pc'[t], n)
  <2>1. \A d \in n.todo : d \in r.todo /\ d.key # e.key
    BY <1>1, <1>4, <1>a DEF Shapely
  <2>2. \A k \in Keys : \A i, j \in Tells(n.evs, k) : i = j
    BY <1>1, <1>7 DEF Shapely
  <2>3. \A d \in n.todo : Tells(n.evs, d.key) = {}
    BY <1>1, <1>7, <2>1 DEF Shapely
  <2>4. pc'[t] \in {"fund_upsert", "fund_count"} /\ (pc'[t] = "fund_count" => n.todo = {})
    BY <1>2, <1>4 DEF r
  <2>5. \A d, f \in n.todo : d.key = f.key => d = f
    BY <1>1, <2>1 DEF Shapely
  <2> QED
    BY <1>4, <2>2, <2>3, <2>4, <2>5 DEF Shapely, HoldsLoss
<1>9. \A k : k \in Holding(n) <=> k \in Holding(r)
  <2>1. ASSUME NEW k, k # e.key
        PROVE  k \in Holding(n) <=> k \in Holding(r)
    BY <1>1, <1>4, <1>7, <2>1, HoldingMeans
  <2>2. e.key \in Holding(r)
    BY <1>1, <1>a, HoldingMeans
  <2>3. e.key \in Holding(n)
    BY <1>1, <1>7, HoldingMeans
  <2> QED
    BY <2>1, <2>2, <2>3
<1>10. /\ positions'[e.key] = Settled(e.pos, a)
       /\ \A k \in Keys \ {e.key} : positions'[k] = positions[k]
  BY <1>2, <1>5, ShapeHeld
<1>11. ASSUME NEW k \in Keys, k = e.key, NEW p, NEW b, HandOK("fund_upsert", r, k, p, b)
       PROVE  HandOK(pc'[t], n, k, Settled(e.pos, a), b)
  <2>1. p = e.pos /\ ToldAs(e.pos, b) /\ e.pos # None
    BY <1>5, <1>11, <1>a, NoneIsNone DEF HandOK, r
  <2>2. /\ Settled(e.pos, a).side = e.pos.side
        /\ Settled(e.pos, a).funding_paid = SatAdd(e.pos.funding_paid, a)
    BY <1>5 DEF Settled, Position
  <2>3. Bridges(Settled(e.pos, a), b, ev)
    BY <1>3, <2>1, <2>2 DEF Bridges, ToldAs
  <2>4. \A d \in n.todo : d.key # e.key
    BY <1>1, <1>4, <1>a DEF Shapely
  <2> QED
    BY <1>4, <1>7, <1>11, <2>3, <2>4 DEF HandOK
<1>12. ASSUME NEW k \in Keys, k # e.key, NEW p, NEW b, HandOK("fund_upsert", r, k, p, b)
       PROVE  HandOK(pc'[t], n, k, p, b)
  BY <1>4, <1>7, <1>12 DEF HandOK
<1>13. \A k : Shown(k)' = Shown(k)
  BY <1>1, SameBus
<1>14. r = req[t] /\ n = req'[t] /\ e.key \in Holding(r)
  BY <1>1, <1>a, HoldingMeans DEF r, n
<1> QED
  BY <1>1, <1>8, <1>9, <1>10, <1>11, <1>12, <1>13, <1>14 DEF Kept

LEMMA LiqRemoveKept ==
  ASSUME TypeOK, TypeOK', ContentionInv, NEW t \in Tasks, LiqRemove(t)
  PROVE  Kept(t)
<1> DEFINE r == req[t]
           n == req'[t]
<1>1. /\ pc[t] = "liq_remove" /\ pc'[t] = "liq_settle" /\ bus' = bus
      /\ r \in Request /\ n \in Request /\ r.todo \subseteq Snapshot
      /\ Shapely("liq_remove", r)
  BY ShapeHeld DEF LiqRemove, Goto, TypeOK, LocalsOK
<1>2. PICK e \in r.todo :
        /\ positions' = [positions EXCEPT ![e.key] = None]
        /\ req' = [req EXCEPT ![t].todo = @ \ {e}, ![t].cur = e]
  BY DEF LiqRemove
<1>3. n.todo = r.todo \ {e} /\ n.evs = r.evs /\ n.cur = e /\ n.view = r.view
  BY <1>1, <1>2, ShapeHeld DEF Request
<1>4. e \in Snapshot /\ e.key \in Keys /\ e # None
  BY <1>1, NoneIsNone DEF Snapshot
<1> HIDE DEF r, n
<1>5. \A d \in n.todo : d \in r.todo /\ d.key # e.key
  BY <1>1, <1>3 DEF Shapely
<1>6. Tells(r.evs, e.key) = {}
  BY <1>1 DEF Shapely
<1>7. Shapely("liq_settle", n)
  BY <1>1, <1>3, <1>5, <1>6 DEF Shapely, HoldsLoss
<1>8. ASSUME NEW k, k # e.key, k \in Holding(n)
      PROVE  k \in Holding(r)
  BY <1>1, <1>3, <1>8, HoldingMeans
<1>9. e.key \in Holding(r)
  BY <1>1, HoldingMeans
<1>10. positions'[e.key] = None /\ \A k \in Keys \ {e.key} : positions'[k] = positions[k]
  BY <1>2, <1>4, ShapeHeld
<1>11. \A b : HandOK("liq_settle", n, e.key, None, b) /\ ToldAs(None, b)
  BY <1>3, <1>5, <1>6 DEF HandOK, ToldAs
<1>12. ASSUME NEW k \in Keys, k # e.key, NEW p, NEW b, HandOK("liq_remove", r, k, p, b)
       PROVE  /\ HandOK("liq_settle", n, k, p, b)
              /\ k \in Holding(r) /\ k \notin Holding(n) => ToldAs(p, b)
  <2>1. HandOK("liq_settle", n, k, p, b)
    BY <1>3, <1>12 DEF HandOK
  <2>2. ASSUME k \in Holding(r), k \notin Holding(n)
        PROVE  p = None
    BY <1>1, <1>3, <1>12, <2>2, HoldingMeans DEF HandOK
  <2> QED
    BY <2>1, <2>2 DEF ToldAs
<1>13. \A k : Shown(k)' = Shown(k)
  BY <1>1, SameBus
<1>14. r = req[t] /\ n = req'[t]
  BY DEF r, n
<1> QED
  BY <1>1, <1>7, <1>8, <1>9, <1>10, <1>11, <1>12, <1>13, <1>14 DEF Kept

LEMMA LiqSettleKept ==
  ASSUME TypeOK, TypeOK', ContentionInv, NEW t \in Tasks, LiqSettle(t)
  PROVE  Kept(t)
<1> DEFINE r == req[t]
           n == req'[t]
<1>1. /\ pc[t] = "liq_settle" /\ pc'[t] = "liq_count" /\ UNCHANGED <<positions, bus>>
      /\ r \in Request /\ n \in Request /\ Shapely("liq_settle", r) /\ r.cur # None
  BY ShapeHeld, Held, NoneIsNone DEF LiqSettle, Goto, TypeOK, LocalsOK, HoldsPosition
<1>2. PICK e : /\ n.evs = Append(r.evs, e) /\ n.todo = r.todo /\ n.cur = r.cur
               /\ n.view = r.view /\ e.type = "Liquidated" /\ e.key = r.cur.key
  <2> DEFINE Settles(m, e) ==
        m.evs = Append(r.evs, e) /\ m.todo = r.todo /\ m.cur = r.cur /\ m.view = r.view
  <2>1. PICK w, d, s : Settles(n, Liquidated(r.cur.key, w, d, s))
    <3>1. CASE \E q : SettleBankrupt(t, q)
      <4>1. PICK q : SettleBankrupt(t, q)
        BY <3>1
      <4> DEFINE c == Cover(insurance, SatNeg(q))
                 e == Liquidated(req[t].cur.key, "Bankruptcy", c.drawn, c.socialized)
                 z == SatAdd(req[t].social, c.socialized)
      <4>2. req' = [req EXCEPT ![t].social = z, ![t].evs = Append(@, e)]
        BY <4>1, ShapeHeld DEF SettleBankrupt, Request
      <4> HIDE DEF e, z
      <4>3. Settles(n, e)
        BY <1>1, <4>2, ShapeHeld DEF Request
      <4> QED
        BY <4>3 DEF e
    <3>2. CASE \E q : SettleSolvent(t, q)
      <4> DEFINE e == Liquidated(req[t].cur.key, "MaintenanceBreach", 0, 0)
      <4>1. req' = [req EXCEPT ![t].evs = Append(@, e)]
        BY <3>2 DEF SettleSolvent
      <4> HIDE DEF e
      <4>2. Settles(n, e)
        BY <1>1, <4>1, ShapeHeld DEF Request
      <4> QED
        BY <4>2 DEF e
    <3> QED
      BY <3>1, <3>2 DEF LiqSettle
  <2> QED
    BY <2>1 DEF Liquidated
<1> HIDE DEF r, n
<1>3. e \in Event /\ NamesKey(e) /\ Tells(r.evs, e.key) = {}
  BY <1>1, <1>2, EventAppended DEF NamesKey, Shapely
<1>a. r.evs \in Seq(Event)
  BY <1>1 DEF Request
<1>4. /\ \E j : Tells(n.evs, e.key) = {j} /\ n.evs[j] = e
      /\ \A k : k # e.key => /\ Tells(n.evs, k) = Tells(r.evs, k)
                             /\ \A i \in Tells(n.evs, k) : n.evs[i] = r.evs[i]
  <2> DEFINE m == n.evs
             q == r.evs
  <2>1. q \in Seq(Event) /\ m = Append(q, e) /\ Tells(q, e.key) = {}
    BY <1>2, <1>3, <1>a
  <2> HIDE DEF m, q
  <2>2. TellsAlso(q, m, e)
    BY <1>3, <2>1, TellMore
  <2> QED
    BY <2>2 DEF m, q, TellsAlso
<1>5. \A d \in r.todo : d.key # e.key
  BY <1>1, <1>2 DEF Shapely
<1>6. Shapely("liq_count", n)
  <2>1. \A d \in n.todo : Tells(n.evs, d.key) = {}
    BY <1>1, <1>2, <1>4, <1>5 DEF Shapely
  <2>2. \A k \in Keys : \A i, j \in Tells(n.evs, k) : i = j
    BY <1>1, <1>4 DEF Shapely
  <2> QED
    BY <1>1, <1>2, <2>1, <2>2 DEF Shapely, HoldsLoss
<1>7. \A k : k \in Holding(n) => k \in Holding(r)
  BY <1>1, <1>2, <1>4, HoldingMeans
<1>8. \A k : k \in Holding(r) => k \in Holding(n)
  <2>1. e.key \in Holding(n)
    BY <1>1, <1>4, HoldingMeans
  <2> QED
    BY <1>1, <1>2, <1>4, <2>1, HoldingMeans
<1>9. ASSUME NEW k \in Keys, NEW p, NEW b, HandOK("liq_settle", r, k, p, b)
      PROVE  HandOK("liq_count", n, k, p, b)
  <2>1. CASE k = e.key
    <3>1. p = None
      BY <1>1, <1>2, <1>9, <2>1 DEF HandOK
    <3>2. \A i \in Tells(n.evs, k) : Bridges(p, b, n.evs[i])
      BY <3>1 DEF Bridges
    <3> QED
      BY <1>2, <1>5, <2>1, <3>1, <3>2 DEF HandOK
  <2>2. CASE k # e.key
    BY <1>2, <1>4, <1>9, <2>2 DEF HandOK
  <2> QED
    BY <2>1, <2>2
<1>10. r = req[t] /\ n = req'[t]
  BY DEF r, n
<1> QED
  BY <1>1, <1>6, <1>7, <1>8, <1>9, <1>10, SameBus DEF Kept

LEMMA LiqCountKept ==
  ASSUME TypeOK, TypeOK', ContentionInv, NEW t \in Tasks, LiqCount(t)
  PROVE  Kept(t)
<1> DEFINE r == req[t]
           l == pc'[t]
<1>1. /\ pc[t] = "liq_count" /\ UNCHANGED <<positions, bus>> /\ req'[t] = r
      /\ l \in {"liq_finish", "liq_remove"} /\ (l = "liq_finish" => r.todo = {})
      /\ Shapely("liq_count", r)
  BY ShapeHeld DEF LiqCount, Goto
<1> HIDE DEF r, l
<1>2. Shapely(l, r)
  BY <1>1 DEF Shapely, HoldsLoss
<1>3. \A k, p, b : HandOK("liq_count", r, k, p, b) => HandOK(l, r, k, p, b)
  BY <1>1 DEF HandOK
<1>4. r = req[t] /\ l = pc'[t]
  BY DEF r, l
<1> QED
  BY <1>1, <1>2, <1>3, <1>4, SameBus DEF Kept

LEMMA LiqFinishKept ==
  ASSUME TypeOK, TypeOK', ContentionInv, NEW t \in Tasks, LiqFinish(t)
  PROVE  Kept(t)
<1> DEFINE r == req[t]
           a == [type |-> "AutoDeleveraged", symbol |-> r.view.symbol, socialized_loss |-> r.social]
           s == Append(r.evs, a)
<1>1. /\ pc[t] = "liq_finish" /\ UNCHANGED <<positions, bus>> /\ r.evs \in Seq(Event)
      /\ Reply(t, r.evs) \/ Reply(t, s)
  BY ShapeHeld DEF LiqFinish
<1>2. CASE Reply(t, r.evs)
  BY <1>1, <1>2, ReturnKept
<1>3. CASE Reply(t, s)
  <2>1. r.view.symbol \in Symbols /\ r.social \in Due
    BY <1>1, ShapeHeld, Held DEF HoldsView, View, Request
  <2>2. a \in Event /\ ~NamesKey(a)
    BY <2>1, EventTypes DEF NamesKey
  <2> HIDE DEF a
  <2>3. /\ s \in Seq(Event)
        /\ \A k : /\ \A i \in Tells(s, k) : i \in Tells(r.evs, k) /\ s[i] = r.evs[i]
                  /\ Tells(r.evs, k) \subseteq Tells(s, k)
    BY <1>1, <2>2, TellsAppend
  <2> HIDE DEF s
  <2>4. ASSUME NEW k
        PROVE  Tells(s, k) = Tells(r.evs, k) /\ \A i \in Tells(s, k) : s[i] = r.evs[i]
    <3> HIDE DEF r
    <3>1. \A i \in Tells(s, k) : i \in Tells(r.evs, k) /\ s[i] = r.evs[i]
      BY <2>3
    <3>2. Tells(r.evs, k) \subseteq Tells(s, k)
      BY <2>3
    <3> QED
      BY <3>1, <3>2
  <2> QED
    BY <1>1, <1>3, <2>3, <2>4, ReturnKept
<1> QED
  BY <1>1, <1>2, <1>3

(* What a reader is shown of k after one more event.                       *)
LEMMA ShownAfter ==
  ASSUME Rebuilt(bus) \in Pictures, bus \in Seq(Event), NEW e \in Event,
         bus' = Append(bus, e), NEW k \in Keys
  PROVE  /\ ~(NamesKey(e) /\ e.key = k) => Shown(k)' = Shown(k)
         /\ NamesKey(e) /\ e.key = k =>
              \A p : Bridges(p, Shown(k), e) => ToldAs(p, Shown(k)')
<1> DEFINE r == Rebuilt(bus)
           b == ReplayEvent(r, e).book
<1>1. r \in Pictures /\ r.book \in [Keys -> Standing \cup {None}]
  BY DEF Pictures
<1>2. Rebuilt(bus') = ReplayEvent(r, e)
  BY RebuiltAppend
<1>3. Shown(k)' = b[k] /\ Shown(k) = r.book[k]
  BY <1>2 DEF Shown, Rebuilt
<1>4. /\ e.type \in {"MarketUpdated", "AutoDeleveraged"} => b = r.book
      /\ e.type = "PositionOpened" =>
           b = [r.book EXCEPT ![e.key] = [side |-> e.side, funding |-> 0]]
      /\ e.type \in {"PositionClosed", "Liquidated"} => b = [r.book EXCEPT ![e.key] = None]
      /\ e.type = "FundingSettled" =>
           /\ \A j \in Keys \ {e.key} : b[j] = r.book[j]
           /\ r.book[e.key] # None =>
                b[e.key] = [side |-> r.book[e.key].side,
                            funding |-> SatAdd(r.book[e.key].funding, e.amount)]
  BY <1>1, PictureStep
<1>5. e.type \in {"PositionOpened", "PositionClosed", "Liquidated", "MarketUpdated",
                  "AutoDeleveraged", "FundingSettled"}
  BY DEF Event
<1> HIDE DEF r, b
<1>6. ASSUME ~(NamesKey(e) /\ e.key = k)
      PROVE  b[k] = r.book[k]
  <2>1. CASE e.type \in {"MarketUpdated", "AutoDeleveraged"}
    BY <1>4, <2>1
  <2>2. CASE e.type \notin {"MarketUpdated", "AutoDeleveraged"}
    <3>1. e.key # k
      BY <1>6, <2>2 DEF NamesKey
    <3> QED
      BY <1>1, <1>4, <1>5, <2>2, <3>1
  <2> QED
    BY <2>1, <2>2
<1>7. ASSUME NamesKey(e), e.key = k, NEW p, Bridges(p, r.book[k], e), Faultless, p # None
      PROVE  b[k] # None /\ b[k].side = p.side /\ b[k].funding = p.funding_paid
  <2>1. \A v, f : [side |-> v, funding |-> f].side = v /\ [side |-> v, funding |-> f].funding = f
    OBVIOUS
  <2>2. b[k] # None
    <3>1. b[k] \in Standing
      <4>1. CASE e.type = "PositionOpened"
        <5>1. e.side \in Side /\ 0 \in Usd
          BY <4>1, MathAssumption DEF Event, Usd, UsdMin
        <5> QED
          BY <1>1, <1>4, <1>7, <4>1, <5>1 DEF Standing
      <4>2. CASE e.type = "FundingSettled"
        <5>1. e.amount \in Usd /\ r.book[k] \in Standing
          BY <1>1, <1>7, <4>2 DEF Bridges, Event
        <5>2. r.book[k].side \in Side /\ SatAdd(r.book[k].funding, e.amount) \in Usd
          BY <5>1, SaturateType DEF SatAdd, Usd, UsdMin, Standing
        <5> QED
          BY <1>4, <1>7, <4>2, <5>2 DEF Standing, Bridges
      <4> QED
        BY <1>5, <1>7, <4>1, <4>2 DEF Bridges, NamesKey
    <3> QED
      BY <3>1, ReplayAssumption
  <2>3. CASE e.type = "PositionOpened"
    <3>1. b[k] = [side |-> e.side, funding |-> 0]
      BY <1>1, <1>4, <1>7, <2>3
    <3> QED
      BY <1>7, <2>1, <2>2, <2>3, <3>1 DEF Bridges
  <2>4. CASE e.type = "FundingSettled"
    <3>1. b[k] = [side |-> r.book[k].side, funding |-> SatAdd(r.book[k].funding, e.amount)]
      BY <1>4, <1>7, <2>4 DEF Bridges
    <3> QED
      BY <1>7, <2>1, <2>2, <2>4, <3>1 DEF Bridges
  <2> QED
    BY <1>5, <1>7, <2>3, <2>4 DEF Bridges, NamesKey
<1> QED
  BY <1>3, <1>6, <1>7 DEF ToldAs

LEMMA PublishKept ==
  ASSUME TypeOK, TypeOK', ContentionInv, Rebuilt(bus) \in Pictures,
         NEW t \in Tasks, Publish(t)
  PROVE  Kept(t)
<1> DEFINE r == req[t]
           n == req'[t]
           s == r.evs
           h == Head(s)
           q == Tail(s)
<1>1. /\ pc[t] = "publish" /\ positions' = positions /\ bus' = Append(bus, h)
      /\ r \in Request /\ n \in Request /\ Shapely("publish", r) /\ s # <<>>
      /\ s \in Seq(Event) /\ bus \in Seq(Event)
  BY ShapeHeld, Held DEF Publish, TypeOK, LocalsOK, StateOK
<1>2. /\ q \in Seq(Event) /\ h \in Event /\ h = s[1]
      /\ \A k : /\ \A i \in Tells(q, k) : /\ i + 1 \in Tells(s, k) /\ q[i] = s[i + 1]
                                          /\ i \in Nat /\ i > 0
                /\ \A i \in Tells(s, k) : i # 1 => i - 1 \in Tells(q, k)
                /\ 1 \in Tells(s, k) <=> NamesKey(h) /\ h.key = k
  <2> HIDE DEF s
  <2>1. q \in Seq(Event) /\ h \in Event /\ h = s[1]
    BY <1>1, TellsTail
  <2>2. ASSUME NEW k
        PROVE  /\ \A i \in Tells(q, k) : /\ i + 1 \in Tells(s, k) /\ q[i] = s[i + 1]
                                          /\ i \in Nat /\ i > 0
               /\ \A i \in Tells(s, k) : i # 1 => i - 1 \in Tells(q, k)
               /\ 1 \in Tells(s, k) <=> NamesKey(h) /\ h.key = k
    BY <1>1, TellsTail
  <2> QED
    BY <2>1, <2>2
<1>3. /\ n.todo = {} /\ n.cur = None /\ n.evs = q /\ pc'[t] \in {"publish", "idle"}
      /\ pc'[t] = "idle" => n = Idle
  <2>1. CASE Len(s) = 1
    <3>1. n = Idle /\ pc'[t] = "idle"
      BY <2>1, ShapeHeld DEF Publish, Abandon, Goto
    <3>2. q = <<>>
      <4>1. q \in Seq(Event) /\ Len(q) = 0
        BY <1>1, <2>1
      <4>2. \A w \in Seq(Event) : Len(w) = 0 => w = <<>>
        OBVIOUS
      <4> QED
        BY <4>1, <4>2
    <3> QED
      BY <3>1, <3>2 DEF Idle
  <2>2. CASE Len(s) # 1
    <3>1. n = [r EXCEPT !.evs = q] /\ pc' = pc
      BY <2>2, ShapeHeld DEF Publish
    <3> QED
      BY <1>1, <3>1 DEF Request, Shapely
  <2> QED
    BY <2>1, <2>2
<1>4. \A k \in Keys : /\ ~(NamesKey(h) /\ h.key = k) => Shown(k)' = Shown(k)
                      /\ NamesKey(h) /\ h.key = k =>
                           \A p : Bridges(p, Shown(k), h) => ToldAs(p, Shown(k)')
  BY <1>1, <1>2, ShownAfter
<1> HIDE DEF n, h, q
<1>5. r.todo = {} /\ r.cur = None /\ \A k \in Keys : \A i, j \in Tells(s, k) : i = j
  BY <1>1 DEF Shapely
<1>6. ASSUME NEW k \in Keys PROVE \A i, j \in Tells(q, k) : i = j
  <2> TAKE i, j \in Tells(q, k)
  <2>1. i + 1 = j + 1 /\ i \in Nat /\ j \in Nat
    BY <1>2, <1>5
  <2> QED
    BY <2>1
<1>7. Shapely(pc'[t], n)
  <2>1. CASE pc'[t] = "idle"
    BY <1>3, <2>1, IdleTellsNothing
  <2>2. CASE pc'[t] = "publish"
    BY <1>3, <1>6, <2>2 DEF Shapely, HoldsLoss
  <2> QED
    BY <1>3, <2>1, <2>2
<1>8. \A k : /\ k \in Holding(n) <=> Tells(q, k) # {}
             /\ k \in Holding(r) <=> Tells(s, k) # {}
  BY <1>1, <1>3, <1>5, HoldingMeans
<1>9. ASSUME NEW k, k \in Holding(n) PROVE k \in Holding(r)
  BY <1>2, <1>8, <1>9
<1>10. ASSUME NEW k \in Keys, k \notin Holding(r) PROVE Shown(k)' = Shown(k)
  BY <1>2, <1>4, <1>8, <1>10
<1>11. ASSUME NEW k \in Keys, k \in Holding(r),
              HandOK("publish", r, k, positions[k], Shown(k))
       PROVE  /\ HandOK(pc'[t], n, k, positions[k], Shown(k)')
              /\ k \notin Holding(n) => ToldAs(positions[k], Shown(k)')
  <2>1. \A i \in Tells(s, k) : Bridges(positions[k], Shown(k), s[i])
    BY <1>11 DEF HandOK
  <2>2. CASE NamesKey(h) /\ h.key = k
    <3>1. 1 \in Tells(s, k)
      BY <1>2, <2>2
    <3>2. Tells(q, k) = {}
      <4> SUFFICES ASSUME NEW i \in Tells(q, k) PROVE FALSE
        OBVIOUS
      <4>1. i + 1 = 1 /\ i \in Nat /\ i > 0
        BY <1>2, <1>5, <3>1
      <4> QED
        BY <4>1
    <3>3. ToldAs(positions[k], Shown(k)')
      BY <1>2, <1>4, <2>1, <2>2, <3>1
    <3>4. HandOK(pc'[t], n, k, positions[k], Shown(k)')
      BY <1>3, <3>2 DEF HandOK
    <3> QED
      BY <3>3, <3>4
  <2>3. CASE ~(NamesKey(h) /\ h.key = k)
    <3>1. Shown(k)' = Shown(k) /\ 1 \notin Tells(s, k)
      BY <1>2, <1>4, <2>3
    <3>2. \A i \in Tells(q, k) : Bridges(positions[k], Shown(k), q[i])
      BY <1>2, <2>1
    <3>3. HandOK(pc'[t], n, k, positions[k], Shown(k))
      BY <1>3, <3>2 DEF HandOK
    <3>4. k \in Holding(n)
      <4>1. PICK i \in Tells(s, k) : i # 1
        BY <1>8, <1>11, <3>1
      <4> QED
        BY <1>2, <1>8, <4>1
    <3> QED
      BY <3>1, <3>3, <3>4
  <2> QED
    BY <2>2, <2>3
<1>12. r = req[t] /\ n = req'[t]
  BY DEF n
<1> HIDE DEF r
<1> QED
  BY <1>1, <1>7, <1>9, <1>10, <1>11, <1>12 DEF Kept

(* What a reader rebuilds is a picture of the engine, right or not.        *)
LEMMA BusPicture == AnySpec => [](Rebuilt(bus) \in Pictures)
<1>1. Init => Rebuilt(bus) \in Pictures
  <2>1. Nothing \in Pictures
    BY DEF Nothing, Pictures
  <2> QED
    BY <2>1, RebuiltFromNothing DEF Init
<1>2. TypeOK /\ Rebuilt(bus) \in Pictures /\ [AnyNext]_vars => (Rebuilt(bus) \in Pictures)'
  <2> SUFFICES ASSUME TypeOK, Rebuilt(bus) \in Pictures, [AnyNext]_vars
               PROVE  Rebuilt(bus') \in Pictures
    BY DEF Rebuilt
  <2>1. bus' = bus \/ \E t \in Tasks : Publish(t)
    BY DEF AnyNext, AnyStart, Continue, OpenGet, CloseRemove, UpdateMarket, FundMarket,
       LiqMarket, OpenUpsert, OpenCount, CloseMark, CloseCount, FundScan, FundUpsert,
       FundCount, LiqScan, LiqRemove, LiqSettle, LiqCount, LiqFinish, StoreFails, SinkFails,
       Done, vars
  <2>2. ASSUME NEW t \in Tasks, Publish(t) PROVE Rebuilt(bus') \in Pictures
    <3> DEFINE h == Head(req[t].evs)
    <3>1. bus \in Seq(Event) /\ h \in Event /\ bus' = Append(bus, h)
      BY <2>2, Held, TellsTail DEF Publish, TypeOK, StateOK
    <3> HIDE DEF h
    <3> QED
      BY <3>1, RebuiltAppend, PictureStep
  <2> QED
    BY <2>1, <2>2
<1> QED
  BY <1>1, <1>2, TypeCorrectAny, PTL DEF AnySpec

LEMMA ContentionStarts == ContentionInit => ContentionInv
<1> SUFFICES ASSUME ContentionInit PROVE ContentionInv
  OBVIOUS
<1>1. \A t \in Tasks : pc[t] = "idle" /\ req[t] = Idle
  BY DEF ContentionInit, Init
<1>2. Clashing = {} /\ contested = {}
  BY <1>1, IdleTellsNothing DEF ContentionInit, Clashing
<1>3. \A k \in Keys : \A b : ToldAs(positions[k], b)
  BY DEF ContentionInit, Init, ToldAs
<1> QED
  BY <1>1, <1>2, <1>3, IdleTellsNothing DEF ContentionInv

LEMMA TaskKept ==
  ASSUME TypeOK, TypeOK', ContentionInv, Rebuilt(bus) \in Pictures, NEW t \in Tasks,
         AnyStart(t) \/ Continue(t) \/ StoreFails(t) \/ SinkFails(t)
  PROVE  Kept(t)
<1>1. CASE AnyStart(t)
  BY <1>1, OpenGetKept, CloseRemoveKept, UpdateMarketKept, ReadMarketKept DEF AnyStart
<1>2. CASE Continue(t)
  BY <1>2, OpenUpsertKept, OpenCountKept, CloseMarkKept, CountKept, ScanKept, FundUpsertKept,
     LiqRemoveKept, LiqSettleKept, LiqCountKept, LiqFinishKept, PublishKept DEF Continue
<1> QED
  BY <1>1, <1>2, FailureKept

LEMMA ContentionStep ==
  TypeOK /\ TypeOK' /\ Rebuilt(bus) \in Pictures /\ ContentionInv /\ [ContentionNext]_cvars
    => ContentionInv'
<1> SUFFICES ASSUME TypeOK, TypeOK', Rebuilt(bus) \in Pictures, ContentionInv,
                    [ContentionNext]_cvars
             PROVE  ContentionInv'
  OBVIOUS
<1>1. CASE UNCHANGED <<positions, pc, req, bus>> /\ contested' = contested
  <2>1. Clashing' = Clashing /\ \A k : Shown(k)' = Shown(k)
    BY <1>1, SameBus DEF Clashing
  <2> QED
    BY <1>1, <2>1 DEF ContentionInv
<1>2. CASE Done /\ contested' = contested \cup Clashing'
  <2>1. contested' = contested
    BY <1>2 DEF Done, vars, ContentionInv, Clashing
  <2> QED
    BY <1>1, <1>2, <2>1 DEF Done, vars
<1>3. ASSUME NEW t \in Tasks, Start(t) \/ Continue(t) \/ StoreFails(t) \/ SinkFails(t),
             contested' = contested \cup Clashing'
      PROVE  ContentionInv'
  BY <1>3, StartIsAny, TaskKept, OthersStay, ContentionFrame
<1> QED
  BY <1>1, <1>2, <1>3 DEF ContentionNext, Next, cvars

LEMMA ContentionIsAny == ContentionSpec => AnySpec
<1>1. [ContentionNext]_cvars => [AnyNext]_vars
  BY NextIsAny DEF ContentionNext, cvars, vars
<1> QED
  BY <1>1, PTL DEF ContentionSpec, ContentionInit, AnySpec

LEMMA ContentionInvariant == ContentionSpec => []ContentionInv
<1>1. ContentionInit => ContentionInv
  BY ContentionStarts
<1> QED
  BY <1>1, ContentionStep, ContentionIsAny, TypeCorrectAny, BusPicture, PTL DEF ContentionSpec

(* While no port fails, the stream shows every position that is stored,    *)
(* that no command holds and that no two commands have held at the same    *)
(* time as the store has it, however the commands interleave.              *)
THEOREM UncontestedPositionsTold ==
  ASSUME ~StoreMayFail, ~SinkMayFail
  PROVE  ContentionSpec => []UncontestedReplay
<1>1. ContentionInv => UncontestedReplay
  BY DEF ContentionInv, ToldAs, Faultless, UncontestedReplay, Replay, Rebuilt, Shown
<1> QED
  BY <1>1, ContentionInvariant, PTL

(* However commands interleave and ports fail, what a sweep takes out of   *)
(* the store is underwater at the mark that it read, unless two commands   *)
(* have held the position at the same time.                                *)
THEOREM SweepsSpareUncontested == ContentionSpec => SweepSparesUncontested
<1> DEFINE Spares ==
      \A t \in Tasks, k \in Keys \ contested :
        (/\ pc[t] = "liq_remove" /\ pc'[t] # "liq_remove"
         /\ positions[k] # None /\ positions'[k] = None)
          => IsLiquidatable(positions[k], req[t].view.mark_price, Params)
<1>1. TypeOK /\ TypeOK' /\ ContentionInv /\ [ContentionNext]_cvars => [Spares]_cvars
  <2> SUFFICES ASSUME TypeOK, ContentionInv, [ContentionNext]_cvars,
                      NEW t \in Tasks, NEW k \in Keys, k \notin contested,
                      pc[t] = "liq_remove", pc'[t] # "liq_remove",
                      positions[k] # None, positions'[k] = None
               PROVE  IsLiquidatable(positions[k], req[t].view.mark_price, Params)
    OBVIOUS
  <2>1. PICK u \in Tasks : Start(u) \/ Continue(u) \/ StoreFails(u) \/ SinkFails(u)
    BY DEF ContentionNext, Next, Done, vars, cvars
  <2>2. u = t
    BY <2>1, StartIsAny, OthersStay
  <2>3. LiqRemove(t)
    BY <2>1, <2>2 DEF Start, Continue, OpenGet, CloseRemove, UpdateMarket, FundMarket,
       LiqMarket, Begin, OpenUpsert, OpenCount, CloseMark, CloseCount, FundScan, FundUpsert,
       FundCount, LiqScan, LiqSettle, LiqCount, LiqFinish, Publish, StoreFails, SinkFails
  <2>4. PICK e \in req[t].todo : positions' = [positions EXCEPT ![e.key] = None]
    BY <2>3 DEF LiqRemove
  <2>5. e.key = k
    BY <2>4, ShapeHeld
  <2>6. HandOK(pc[t], req[t], k, positions[k], Shown(k)) /\ Shapely(pc[t], req[t])
    BY DEF ContentionInv
  <2>7. positions[k] = e.pos /\ Sinks(e.pos, req[t].view)
    BY <2>4, <2>5, <2>6 DEF HandOK, Shapely, HoldsLoss
  <2> QED
    BY <2>7 DEF Sinks
<1> QED
  BY <1>1, ContentionInvariant, ContentionIsAny, TypeCorrectAny, PTL
     DEF ContentionSpec, SweepSparesUncontested

----------------------------------------------------------------------------
(* Market updates that overlap: how far the announced mark may lag.        *)

NoMarks(s) == \A i \in DOMAIN s : s[i].type # "MarketUpdated"

(* Only the announcement of an update speaks of a mark, and it is alone.   *)
MarksAlone ==
  \A t \in Tasks : NoMarks(req[t].evs) \/ (pc[t] = "publish" /\ Len(req[t].evs) = 1)

(* The updates of s that have still to be announced.                       *)
Awaited(s) == {t \in Tasks : Announcing(t, s)}

Overtaken(s) ==
  \E i \in DOMAIN bus :
    /\ Announces(bus[i], s) /\ InForce(bus[i], s)
    /\ Cardinality(AnnouncedAfter(i, s)) + Cardinality(Awaited(s)) < Cardinality(Tasks)

MarkPending(s) == \E t \in Tasks : Announcing(t, s) /\ InForce(Head(req[t].evs), s)

MarksInv ==
  /\ MarksAlone
  /\ \A s \in Symbols : markets[s] # None => MarkPending(s) \/ Overtaken(s)

(* The events of a task that neither updates a market nor publishes.       *)
Unmarked(t) ==
  \/ req'[t].evs = req[t].evs
  \/ req'[t].evs = <<>>
  \/ \E e : e.type # "MarketUpdated"
            /\ (req'[t].evs = <<e>> \/ req'[t].evs = Append(req[t].evs, e))

LEMMA ReplyUnmarked ==
  ASSUME TypeOK, NEW t \in Tasks, NEW s, Reply(t, s)
  PROVE  req'[t].evs = s
BY DEF Reply, Idle, TypeOK, LocalsOK

LEMMA StepUnmarked ==
  ASSUME TypeOK, NEW t \in Tasks, AnyStart(t) \/ Continue(t) \/ StoreFails(t),
         ~Publish(t), \A u \in View : ~UpdateMarket(t, u)
  PROVE  Unmarked(t) /\ UNCHANGED <<bus, markets>> /\ pc[t] # "publish"
<1>1. req \in [Tasks -> Request] /\ req[t] \in Request
  BY DEF TypeOK, LocalsOK
<1>2. UNCHANGED <<bus, markets>> /\ pc[t] # "publish"
  BY DEF AnyStart, Continue, OpenGet, CloseRemove, FundMarket, LiqMarket, Begin, OpenUpsert,
     OpenCount, CloseMark, CloseCount, FundScan, FundUpsert, FundCount, LiqScan, LiqRemove,
     LiqSettle, LiqCount, LiqFinish, StoreFails, AtStoreCall
<1> SUFFICES Unmarked(t)
  BY <1>2
<1>3. CASE Abandon(t) \/ Reply(t, <<>>) \/ Reply(t, req[t].evs)
  BY <1>1, <1>3, ReplyUnmarked DEF Abandon, Idle, Unmarked
<1>4. CASE AnyStart(t)
  BY <1>1, <1>4 DEF AnyStart, OpenGet, CloseRemove, FundMarket, LiqMarket, Unmarked, Request
<1>5. CASE OpenUpsert(t) \/ FundScan(t) \/ LiqScan(t) \/ LiqRemove(t) \/ LiqCount(t)
  BY <1>1, <1>3, <1>5 DEF OpenUpsert, FundScan, LiqScan, LiqRemove, LiqCount, Unmarked, Request
<1>6. CASE CloseCount(t) \/ FundCount(t) \/ StoreFails(t)
  BY <1>3, <1>6 DEF CloseCount, FundCount, StoreFails
<1>7. CASE OpenCount(t)
  <2> DEFINE e == [type |-> "PositionOpened", key |-> req[t].cur.key,
                   side |-> req[t].cur.pos.side]
  <2>1. Reply(t, <<e>>) /\ e.type # "MarketUpdated"
    BY <1>7 DEF OpenCount
  <2> HIDE DEF e
  <2> QED
    BY <2>1, ReplyUnmarked DEF Unmarked
<1>8. CASE CloseMark(t) /\ ~Abandon(t)
  <2> DEFINE e == [type |-> "PositionClosed", key |-> req[t].cur.key,
                   realized_pnl |-> RealizedPnl(req[t].cur.pos,
                                                markets[req[t].cur.key[2]].mark_price)]
  <2>1. req' = [req EXCEPT ![t].evs = <<e>>] /\ e.type # "MarketUpdated"
    BY <1>8 DEF CloseMark
  <2> HIDE DEF e
  <2> QED
    BY <1>1, <2>1 DEF Unmarked, Request
<1>9. CASE FundUpsert(t)
  <2>1. PICK d, a :
          req' = [req EXCEPT ![t].todo = @ \ {d},
            ![t].evs = Append(@, [type |-> "FundingSettled", key |-> d.key, amount |-> a])]
    BY <1>9 DEF FundUpsert
  <2> DEFINE e == [type |-> "FundingSettled", key |-> d.key, amount |-> a]
             r == [req[t] EXCEPT !.todo = @ \ {d}]
  <2>2. e.type # "MarketUpdated" /\ req'[t] = [r EXCEPT !.evs = Append(@, e)]
        /\ r \in [view : View \cup {None}, todo : SUBSET Snapshot,
                  cur : Snapshot \cup {None}, evs : Seq(Event), social : Due]
        /\ r.evs = req[t].evs
    BY <1>1, <2>1 DEF Request
  <2> HIDE DEF e, r
  <2> QED
    BY <2>2 DEF Unmarked
<1>10. CASE LiqSettle(t)
  <2>1. PICK k, w, d, c, z :
          req' = [req EXCEPT ![t].social = z, ![t].evs = Append(@, Liquidated(k, w, d, c))]
             \/ req' = [req EXCEPT ![t].evs = Append(@, Liquidated(k, w, d, c))]
    <3>1. CASE \E q : SettleBankrupt(t, q)
      <4>1. PICK q : SettleBankrupt(t, q)
        BY <3>1
      <4> DEFINE c == Cover(insurance, SatNeg(q))
                 e == Liquidated(req[t].cur.key, "Bankruptcy", c.drawn, c.socialized)
                 z == SatAdd(req[t].social, c.socialized)
      <4>2. req' = [req EXCEPT ![t].social = z, ![t].evs = Append(@, e)]
        BY <1>1, <4>1 DEF SettleBankrupt, Request
      <4> HIDE DEF z
      <4> QED
        BY <4>2
    <3>2. CASE \E q : SettleSolvent(t, q)
      <4> DEFINE e == Liquidated(req[t].cur.key, "MaintenanceBreach", 0, 0)
      <4>1. req' = [req EXCEPT ![t].evs = Append(@, e)]
        BY <3>2 DEF SettleSolvent
      <4> QED
        BY <4>1
    <3> QED
      BY <1>10, <3>1, <3>2 DEF LiqSettle
  <2> DEFINE e == Liquidated(k, w, d, c)
  <2>2. e.type # "MarketUpdated"
    BY DEF Liquidated
  <2> HIDE DEF e
  <2>3. req'[t].evs = Append(req[t].evs, e)
    BY <1>1, <2>1 DEF Request, e
  <2> QED
    BY <2>2, <2>3 DEF Unmarked
<1>11. CASE LiqFinish(t)
  <2> DEFINE e == [type |-> "AutoDeleveraged", symbol |-> req[t].view.symbol,
                   socialized_loss |-> req[t].social]
  <2>1. e.type # "MarketUpdated" /\ (Reply(t, Append(req[t].evs, e)) \/ Reply(t, req[t].evs))
    BY <1>11 DEF LiqFinish
  <2> HIDE DEF e
  <2> QED
    BY <2>1, ReplyUnmarked DEF Unmarked
<1> QED
  BY <1>3, <1>4, <1>5, <1>6, <1>7, <1>8, <1>9, <1>10, <1>11 DEF Continue

LEMMA NoMarksAnnounced ==
  ASSUME NEW t \in Tasks, NEW s, req[t].evs \in Seq(Event), NoMarks(req[t].evs)
  PROVE  ~Announcing(t, s)
<1> DEFINE q == req[t].evs
<1>1. q # <<>> => 1 \in DOMAIN q /\ Head(q) = q[1]
  OBVIOUS
<1> QED
  BY <1>1 DEF NoMarks, Announcing, Announces

(* A step that leaves the announcements of s as they are.                  *)
LEMMA MarksFrame ==
  ASSUME NEW t \in Tasks, NEW s, bus' = bus, markets'[s] = markets[s],
         \A u \in Tasks \ {t} : req'[u] = req[u],
         ~Announcing(t, s), ~Announcing(t, s)'
  PROVE  /\ MarkPending(s) => MarkPending(s)'
         /\ Overtaken(s) => Overtaken(s)'
<1>1. \A u \in Tasks \ {t} : Announcing(u, s)' <=> Announcing(u, s)
  BY DEF Announcing
<1>2. \A e : InForce(e, s)' <=> InForce(e, s)
  BY DEF InForce
<1>3. Awaited(s)' = Awaited(s)
  BY <1>1 DEF Awaited
<1>4. \A i : AnnouncedAfter(i, s)' = AnnouncedAfter(i, s)
  BY DEF AnnouncedAfter
<1>5. ASSUME MarkPending(s) PROVE MarkPending(s)'
  BY <1>1, <1>2, <1>5 DEF MarkPending
<1>6. ASSUME Overtaken(s) PROVE Overtaken(s)'
  BY <1>2, <1>3, <1>4, <1>6 DEF Overtaken
<1> QED
  BY <1>5, <1>6

LEMMA UnmarkedMarks ==
  ASSUME TypeOK, TypeOK', MarksInv, NEW t \in Tasks, Unmarked(t), UNCHANGED <<bus, markets>>,
         pc[t] # "publish", \A u \in Tasks \ {t} : pc'[u] = pc[u] /\ req'[u] = req[u]
  PROVE  MarksInv'
<1> DEFINE q == req[t].evs
           m == req'[t].evs
<1>1. q \in Seq(Event) /\ m \in Seq(Event) /\ NoMarks(q)
  BY DEF TypeOK, LocalsOK, Request, MarksInv, MarksAlone
<1>2. NoMarks(m)
  <2>1. CASE m = q \/ m = <<>>
    BY <1>1, <2>1 DEF NoMarks
  <2>2. ASSUME NEW e, e.type # "MarketUpdated", m = <<e>> \/ m = Append(q, e)
        PROVE  NoMarks(m)
    <3> HIDE DEF q, m
    <3>1. CASE m = <<e>>
      BY <2>2, <3>1 DEF NoMarks
    <3>2. CASE m = Append(q, e)
      <4>1. \A i \in DOMAIN m : (i \in DOMAIN q /\ m[i] = q[i]) \/ m[i] = e
        BY <1>1, <3>2
      <4> QED
        BY <1>1, <2>2, <4>1 DEF NoMarks
    <3> QED
      BY <2>2, <3>1, <3>2
  <2> QED
    BY <2>1, <2>2 DEF Unmarked
<1>3. \A s : ~Announcing(t, s)
  BY <1>1, NoMarksAnnounced
<1>4. \A s : ~Announcing(t, s)'
  BY <1>1, <1>2 DEF NoMarks, Announcing, Announces
<1>5. MarksAlone'
  BY <1>2 DEF MarksInv, MarksAlone
<1>6. \A s \in Symbols : (markets[s] # None => MarkPending(s) \/ Overtaken(s))
                           => (markets'[s] # None => MarkPending(s)' \/ Overtaken(s)')
  BY <1>3, <1>4, MarksFrame
<1> QED
  BY <1>5, <1>6 DEF MarksInv

LEMMA UpdateMarks ==
  ASSUME TypeOK, TypeOK', MarksInv, NEW t \in Tasks, NEW v \in View, UpdateMarket(t, v),
         \A u \in Tasks \ {t} : pc'[u] = pc[u] /\ req'[u] = req[u]
  PROVE  MarksInv'
<1> DEFINE e == [type |-> "MarketUpdated", symbol |-> v.symbol, mark_price |-> v.mark_price,
                 funding_rate_bps |-> v.funding_rate_bps]
<1>1. /\ Reply(t, <<e>>) /\ bus' = bus /\ pc[t] = "idle" /\ v.symbol \in Symbols
      /\ markets' = [markets EXCEPT ![v.symbol] =
           [mark_price |-> v.mark_price, funding_rate_bps |-> v.funding_rate_bps]]
      /\ markets \in [Symbols -> MarketState \cup {None}]
  BY DEF UpdateMarket, Begin, View, TypeOK, StateOK
<1>2. /\ e.type = "MarketUpdated" /\ e.symbol = v.symbol /\ e.mark_price = v.mark_price
      /\ e.funding_rate_bps = v.funding_rate_bps
  OBVIOUS
<1> HIDE DEF e
<1>3. req'[t].evs = <<e>> /\ pc'[t] = "publish"
  <2>1. <<e>> # <<>>
    OBVIOUS
  <2> QED
    BY <1>1, <2>1, ReplyUnmarked DEF Reply, Goto, TypeOK, LocalsOK
<1>4. MarksAlone'
  BY <1>3 DEF MarksInv, MarksAlone
<1>5. req[t].evs \in Seq(Event) /\ NoMarks(req[t].evs)
  BY <1>1 DEF TypeOK, LocalsOK, Request, MarksInv, MarksAlone
<1>6. \A s : ~Announcing(t, s)
  BY <1>5, NoMarksAnnounced
<1>7. ASSUME NEW s \in Symbols, s # v.symbol, markets'[s] # None
      PROVE  MarkPending(s)' \/ Overtaken(s)'
  <2>1. markets'[s] = markets[s]
    BY <1>1, <1>7
  <2>2. ~Announcing(t, s)'
    BY <1>2, <1>3, <1>7 DEF Announcing, Announces
  <2> QED
    BY <1>1, <1>6, <1>7, <2>1, <2>2, MarksFrame DEF MarksInv
<1>8. MarkPending(v.symbol)'
  <2>1. markets'[v.symbol] = [mark_price |-> v.mark_price,
                              funding_rate_bps |-> v.funding_rate_bps]
    BY <1>1
  <2>2. Head(req'[t].evs) = e /\ req'[t].evs # <<>>
    BY <1>3
  <2> QED
    BY <1>2, <2>1, <2>2 DEF MarkPending, Announcing, Announces, InForce
<1> QED
  BY <1>4, <1>7, <1>8 DEF MarksInv

LEMMA AfterAppend ==
  ASSUME bus \in Seq(Event), NEW e \in Event, bus' = Append(bus, e), NEW s,
         NEW n, n = Len(bus) + 1
  PROVE  /\ n \in DOMAIN bus' /\ bus'[n] = e /\ AnnouncedAfter(n, s)' = {}
         /\ \A i \in DOMAIN bus :
              /\ i \in DOMAIN bus' /\ bus'[i] = bus[i]
              /\ IsFiniteSet(AnnouncedAfter(i, s)) /\ n \notin AnnouncedAfter(i, s)
              /\ Announces(e, s) => AnnouncedAfter(i, s)' = AnnouncedAfter(i, s) \cup {n}
              /\ ~Announces(e, s) => AnnouncedAfter(i, s)' = AnnouncedAfter(i, s)
<1>1. /\ DOMAIN bus = 1 .. Len(bus) /\ Len(bus) \in Nat /\ DOMAIN bus' = 1 .. n
      /\ n \in DOMAIN bus' /\ bus'[n] = e /\ \A i \in DOMAIN bus : bus'[i] = bus[i]
      /\ DOMAIN bus' = DOMAIN bus \cup {n} /\ n \notin DOMAIN bus
      /\ \A i \in DOMAIN bus : n > i /\ ~(i > n)
      /\ ~(n > n)
  OBVIOUS
<1>2. IsFiniteSet(DOMAIN bus)
  BY <1>1, FS_Interval
<1>3. AnnouncedAfter(n, s)' = {}
  BY <1>1 DEF AnnouncedAfter
<1>4. ASSUME NEW i \in DOMAIN bus
      PROVE  /\ i \in DOMAIN bus'
             /\ IsFiniteSet(AnnouncedAfter(i, s)) /\ n \notin AnnouncedAfter(i, s)
             /\ Announces(e, s) => AnnouncedAfter(i, s)' = AnnouncedAfter(i, s) \cup {n}
             /\ ~Announces(e, s) => AnnouncedAfter(i, s)' = AnnouncedAfter(i, s)
  <2>1. AnnouncedAfter(i, s) \subseteq DOMAIN bus
    BY DEF AnnouncedAfter
  <2>2. IsFiniteSet(AnnouncedAfter(i, s))
    BY <1>2, <2>1, FS_Subset
  <2>3. \A j \in DOMAIN bus : j \in AnnouncedAfter(i, s)' <=> j \in AnnouncedAfter(i, s)
    BY <1>1 DEF AnnouncedAfter
  <2>4. n \in AnnouncedAfter(i, s)' <=> Announces(e, s)
    BY <1>1 DEF AnnouncedAfter
  <2>5. AnnouncedAfter(i, s)' \subseteq DOMAIN bus \cup {n}
    BY <1>1 DEF AnnouncedAfter
  <2> QED
    BY <1>1, <2>1, <2>2, <2>3, <2>4, <2>5
<1> QED
  BY <1>1, <1>3, <1>4

LEMMA PublishMarks ==
  ASSUME TypeOK, TypeOK', MarksInv, NEW t \in Tasks, Publish(t),
         \A u \in Tasks \ {t} : pc'[u] = pc[u] /\ req'[u] = req[u]
  PROVE  MarksInv'
<1> DEFINE q == req[t].evs
           h == Head(q)
           m == req'[t].evs
<1>1. /\ bus' = Append(bus, h) /\ markets' = markets /\ q \in Seq(Event) /\ q # <<>>
      /\ m \in Seq(Event) /\ bus \in Seq(Event) /\ h \in Event
      /\ NoMarks(q) \/ Len(q) = 1
  <2>1. /\ bus' = Append(bus, h) /\ markets' = markets /\ q \in Seq(Event) /\ q # <<>>
        /\ m \in Seq(Event) /\ bus \in Seq(Event) /\ (NoMarks(q) \/ Len(q) = 1)
    BY Held DEF Publish, TypeOK, LocalsOK, StateOK, Request, MarksInv, MarksAlone
  <2>2. \A w \in Seq(Event) : w # <<>> => Head(w) \in Event
    OBVIOUS
  <2> QED
    BY <2>1, <2>2
<1>2. NoMarks(m) /\ (Len(q) = 1 => m = <<>>)
  <2>1. CASE Len(q) = 1
    <3>1. m = <<>>
      BY <2>1 DEF Publish, Abandon, Idle, TypeOK, LocalsOK
    <3> QED
      BY <3>1 DEF NoMarks
  <2>2. CASE Len(q) # 1
    <3>1. m = Tail(q)
      BY <2>2 DEF Publish, TypeOK, LocalsOK, Request
    <3>2. \A i \in DOMAIN m : i + 1 \in DOMAIN q /\ m[i] = q[i + 1]
      <4> HIDE DEF q, m
      <4> QED
        BY <1>1, <3>1
    <3> QED
      BY <1>1, <2>2, <3>2 DEF NoMarks
  <2> QED
    BY <2>1, <2>2
<1>3. \A s : ~Announcing(t, s)'
  BY <1>1, <1>2 DEF NoMarks, Announcing, Announces
<1>4. MarksAlone'
  BY <1>2 DEF MarksInv, MarksAlone
<1>5. PICK n : n = Len(bus) + 1
  OBVIOUS
<1>6. \A e, s : InForce(e, s)' <=> InForce(e, s)
  BY <1>1 DEF InForce
<1>7. \A s : Announcing(t, s) <=> Announces(h, s)
  BY <1>1 DEF Announcing
<1> HIDE DEF q, h, m
<1>8. \A s : \A u \in Tasks \ {t} : /\ Announcing(u, s)' <=> Announcing(u, s)
                                    /\ Head(req'[u].evs) = Head(req[u].evs)
  BY DEF Announcing
<1>9. \A s : /\ IsFiniteSet(Awaited(s)) /\ IsFiniteSet(Awaited(s)')
             /\ Awaited(s)' = Awaited(s) \ {t}
  <2>1. \A s : Awaited(s) \subseteq Tasks /\ Awaited(s)' = Awaited(s) \ {t}
    BY <1>3, <1>8 DEF Awaited
  <2>2. IsFiniteSet(Tasks)
    BY EngineAssumption
  <2> QED
    BY <2>1, <2>2, FS_Subset
<1>10. ASSUME NEW s, MarkPending(s), ~MarkPending(s)'
       PROVE  Overtaken(s)'
  <2>1. Announcing(t, s) /\ InForce(h, s)
    BY <1>6, <1>8, <1>10 DEF MarkPending, h, q
  <2>2. Announces(h, s)
    BY <1>7, <2>1
  <2>3. n \in DOMAIN bus' /\ bus'[n] = h /\ AnnouncedAfter(n, s)' = {}
    BY <1>1, <1>5, AfterAppend
  <2>4. markets'[s] = [mark_price |-> bus'[n].mark_price,
                       funding_rate_bps |-> bus'[n].funding_rate_bps]
    BY <1>1, <2>1, <2>3 DEF InForce
  <2>5. Cardinality(Awaited(s)') < Cardinality(Tasks) /\ Cardinality(Awaited(s)') \in Nat
    <3>1. Awaited(s)' \subseteq Tasks \ {t}
      BY <1>9 DEF Awaited
    <3>2. IsFiniteSet(Tasks \ {t}) /\ Cardinality(Tasks \ {t}) = Cardinality(Tasks) - 1
          /\ Cardinality(Tasks) \in Nat
      BY EngineAssumption, FS_RemoveElement, FS_CardinalityType
    <3>3. Cardinality(Awaited(s)') <= Cardinality(Tasks \ {t})
          /\ Cardinality(Awaited(s)') \in Nat
      BY <3>1, <3>2, FS_Subset, FS_CardinalityType
    <3> QED
      BY <3>2, <3>3
  <2>6. Cardinality(AnnouncedAfter(n, s)') + Cardinality(Awaited(s)') < Cardinality(Tasks)
    BY <2>3, <2>5, FS_EmptySet
  <2> QED
    BY <2>2, <2>3, <2>4, <2>6 DEF Overtaken, InForce
<1>11. ASSUME NEW s, Overtaken(s)
       PROVE  Overtaken(s)'
  <2>1. PICK i \in DOMAIN bus :
          /\ Announces(bus[i], s) /\ InForce(bus[i], s)
          /\ Cardinality(AnnouncedAfter(i, s)) + Cardinality(Awaited(s)) < Cardinality(Tasks)
    BY <1>11 DEF Overtaken
  <2>2. /\ i \in DOMAIN bus' /\ bus'[i] = bus[i]
        /\ IsFiniteSet(AnnouncedAfter(i, s)) /\ n \notin AnnouncedAfter(i, s)
        /\ Announces(h, s) => AnnouncedAfter(i, s)' = AnnouncedAfter(i, s) \cup {n}
        /\ ~Announces(h, s) => AnnouncedAfter(i, s)' = AnnouncedAfter(i, s)
    BY <1>1, <1>5, AfterAppend
  <2>3. /\ Cardinality(AnnouncedAfter(i, s)) \in Nat /\ Cardinality(Awaited(s)) \in Nat
        /\ Cardinality(Tasks) \in Nat
    BY <1>9, <2>2, EngineAssumption, FS_CardinalityType
  <2>4. t \in Awaited(s) <=> Announces(h, s)
    BY <1>7 DEF Awaited
  <2>5. CASE Announces(h, s)
    <3>1. Cardinality(AnnouncedAfter(i, s)') = Cardinality(AnnouncedAfter(i, s)) + 1
      BY <2>2, <2>5, FS_AddElement
    <3>2. Cardinality(Awaited(s)') = Cardinality(Awaited(s)) - 1
      BY <1>9, <2>4, <2>5, FS_RemoveElement
    <3>3. Cardinality(AnnouncedAfter(i, s)') + Cardinality(Awaited(s)') < Cardinality(Tasks)
      BY <2>1, <2>3, <3>1, <3>2
    <3> QED
      BY <1>6, <2>1, <2>2, <3>3 DEF Overtaken, InForce
  <2>6. CASE ~Announces(h, s)
    <3>1. AnnouncedAfter(i, s)' = AnnouncedAfter(i, s) /\ Awaited(s)' = Awaited(s)
      BY <1>9, <2>2, <2>4, <2>6
    <3>2. Cardinality(AnnouncedAfter(i, s)') + Cardinality(Awaited(s)') < Cardinality(Tasks)
      BY <2>1, <3>1
    <3> QED
      BY <1>6, <2>1, <2>2, <3>2 DEF Overtaken, InForce
  <2> QED
    BY <2>5, <2>6
<1> QED
  BY <1>1, <1>4, <1>10, <1>11 DEF MarksInv

LEMMA MarksStep ==
  ASSUME ~SinkMayFail
  PROVE  TypeOK /\ TypeOK' /\ MarksInv /\ [AnyNext]_vars => MarksInv'
<1> SUFFICES ASSUME TypeOK, TypeOK', MarksInv, [AnyNext]_vars PROVE MarksInv'
  OBVIOUS
<1>1. ASSUME UNCHANGED vars PROVE MarksInv'
  <2>1. /\ \A s : Awaited(s)' = Awaited(s) /\ (MarkPending(s) => MarkPending(s)')
        /\ \A i, s : AnnouncedAfter(i, s)' = AnnouncedAfter(i, s)
    BY <1>1 DEF vars, Awaited, Announcing, MarkPending, InForce, AnnouncedAfter
  <2>2. \A s : Overtaken(s) => Overtaken(s)'
    BY <1>1, <2>1 DEF vars, Overtaken, InForce
  <2> QED
    BY <1>1, <2>1, <2>2 DEF vars, MarksInv, MarksAlone
<1>2. ASSUME NEW t \in Tasks, AnyStart(t) \/ Continue(t) \/ StoreFails(t) PROVE MarksInv'
  <2>1. \A u \in Tasks \ {t} : pc'[u] = pc[u] /\ req'[u] = req[u]
    BY <1>2, OthersStay
  <2>2. CASE Publish(t)
    BY <2>1, <2>2, PublishMarks
  <2>3. CASE \E v \in View : UpdateMarket(t, v)
    BY <2>1, <2>3, UpdateMarks
  <2>4. CASE ~Publish(t) /\ \A v \in View : ~UpdateMarket(t, v)
    BY <1>2, <2>1, <2>4, StepUnmarked, UnmarkedMarks
  <2> QED
    BY <2>2, <2>3, <2>4
<1> QED
  BY <1>1, <1>2 DEF AnyNext, Done, SinkFails

LEMMA MarksAnnouncedAny ==
  ASSUME ~SinkMayFail
  PROVE  AnySpec => []MarkInForceAnnounced
<1>1. Init => MarksInv
  BY DEF Init, MarksInv, MarksAlone, NoMarks, Idle
<1>2. TypeOK /\ TypeOK' /\ MarksInv /\ [AnyNext]_vars => MarksInv'
  BY MarksStep
<1>3. TypeOK /\ MarksInv => MarkInForceAnnounced
  <2> SUFFICES ASSUME TypeOK, MarksInv, NEW s \in Symbols, markets[s] # None, ~MarkPending(s)
               PROVE  \E i \in DOMAIN bus :
                        /\ Announces(bus[i], s) /\ InForce(bus[i], s)
                        /\ Cardinality(AnnouncedAfter(i, s)) < Cardinality(Tasks)
    BY DEF MarkInForceAnnounced, MarkPending
  <2>1. PICK i \in DOMAIN bus :
          /\ Announces(bus[i], s) /\ InForce(bus[i], s)
          /\ Cardinality(AnnouncedAfter(i, s)) + Cardinality(Awaited(s)) < Cardinality(Tasks)
    BY DEF MarksInv, Overtaken
  <2>2. DOMAIN bus = 1 .. Len(bus) /\ Len(bus) \in Nat
    BY DEF TypeOK, StateOK
  <2>3. IsFiniteSet(AnnouncedAfter(i, s)) /\ IsFiniteSet(Awaited(s)) /\ IsFiniteSet(Tasks)
    <3>1. AnnouncedAfter(i, s) \subseteq DOMAIN bus /\ Awaited(s) \subseteq Tasks
      BY DEF AnnouncedAfter, Awaited
    <3>2. IsFiniteSet(DOMAIN bus) /\ IsFiniteSet(Tasks)
      BY <2>2, FS_Interval, EngineAssumption
    <3> QED
      BY <3>1, <3>2, FS_Subset
  <2>4. /\ Cardinality(AnnouncedAfter(i, s)) \in Nat /\ Cardinality(Awaited(s)) \in Nat
        /\ Cardinality(Tasks) \in Nat
    BY <2>3, FS_CardinalityType
  <2> QED
    BY <2>1, <2>4
<1> QED
  BY <1>1, <1>2, <1>3, TypeCorrectAny, PTL DEF AnySpec

(* While the sink does not fail, the mark in force of every market has     *)
(* still to be announced, or is among its last announcements, as many as   *)
(* requests are served at the same time.                                   *)
THEOREM MarksAnnounced ==
  ASSUME ~SinkMayFail
  PROVE  Spec => []MarkInForceAnnounced
BY MarksAnnouncedAny, SpecIsAny
=============================================================================
