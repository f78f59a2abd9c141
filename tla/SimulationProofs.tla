--------------------------- MODULE SimulationProofs ---------------------------
(***************************************************************************)
(* Theorems about the node as it runs its engine: for a client that waits  *)
(* for each answer, and for every scenario of the simulator.               *)
(***************************************************************************)
EXTENDS Simulation, RiskEngineProofs

runVars == <<vars, simulator, committed>>

LEMMA ScenarioFields ==
  ASSUME NEW a \in Scenarios
  PROVE  /\ a.accounts \in Nat /\ a.steps \in Nat /\ a.funding_interval \in Nat
         /\ a.start_price \in Int /\ a.drift_bps \in Int /\ a.vol_bps \in Int
         /\ a.funding_bps \in Int /\ a.accounts <= Len(AccountName) /\ a # None
BY SimulationAssumption DEF SimulateArgs

Labelled == {"serving", "start", "walk", "fund", "sweep", "reported", "failed"}
Walking == {"walk", "fund", "sweep", "reported"}

StartMark == args.start_price * SCALE

(* Where the simulator is tells how far it has come.                       *)
RunInv ==
  /\ at \in Labelled
  /\ args \in Scenarios \cup {None}
  /\ at = "serving" <=> args = None
  /\ opened \in Nat /\ step \in Nat
  /\ at \in {"serving", "start"} => opened = 0 /\ step = 0
  /\ at # "serving" => opened <= args.accounts /\ step <= args.steps
  /\ at \in {"fund", "sweep"} => step < args.steps
  /\ at \in {"fund", "sweep", "reported"} \/ step > 0 => opened = args.accounts
  /\ at \in Walking => StartMark \in Price /\ price \in Price
  /\ at = "walk" /\ step = 0 => price = StartMark

LEMMA RunStarts == RunInit => RunInv
BY ScenarioFields DEF RunInit, RunInv, Labelled, Walking

(* One of the scenario's offers is a command of the API.                   *)
LEMMA MarginWholeBounds ==
  ASSUME NEW p \in Nat
  PROVE  MarginWhole(p) \in Nat /\ 100 * MarginWhole(p) <= 60 * p
                                /\ 60 * p <= 100 * MarginWhole(p) + 99
BY DEF MarginWhole, SIZE_WHOLE

LEMMA StartPositive ==
  ASSUME NEW p \in Int, p * SCALE \in Price
  PROVE  p \in Nat \ {0}
<1>1. SCALE \in Nat \ {0} BY MathAssumption
<1>2. p * SCALE >= 1 BY <1>1, MathAssumption DEF Price
<1>3. CASE p <= 0
  <2>1. p * SCALE <= 0 BY <1>1, <1>3
  <2> QED BY <1>1, <1>2, <2>1
<1> QED BY <1>3

LEMMA PriceIsUsd == Price \subseteq Usd
<1>1. MAX_PRICE <= MAX_PRICE * MAX_SIZE BY MathAssumption
<1> QED BY <1>1, MathAssumption DEF Price, Usd, UsdMin

LEMMA OfferMargin ==
  ASSUME NEW p \in Int, p * SCALE \in Price
  PROVE  MarginWhole(p) * SCALE \in Usd
<1> DEFINE m == MarginWhole(p)
<1>1. p \in Nat \ {0} BY StartPositive
<1>2. m \in Nat /\ m <= p
  <2>1. m \in Nat /\ 100 * m <= 60 * p BY <1>1, MarginWholeBounds
  <2> HIDE DEF m
  <2> QED BY <1>1, <2>1
<1> HIDE DEF m
<1>3. SCALE \in Nat \ {0} /\ MAX_PRICE \in Nat BY MathAssumption
<1>4. m * SCALE <= p * SCALE /\ 0 <= m * SCALE /\ m * SCALE \in Int BY <1>1, <1>2, <1>3
<1>5. p * SCALE <= UsdMax /\ p * SCALE \in Int /\ UsdMax \in Int
  BY <1>1, <1>3, PriceIsUsd, MathAssumption DEF Usd, UsdMin
<1>6. m * SCALE \in Usd BY <1>4, <1>5, MathAssumption DEF Usd, UsdMin
<1> QED BY <1>6 DEF m

LEMMA OfferKey ==
  ASSUME NEW i \in Nat, i < Len(AccountName)
  PROVE  /\ i + 1 \in DOMAIN AccountName
         /\ AccountName[i + 1] \in Accounts /\ <<AccountName[i + 1], SimSymbol>> \in Keys
BY SimulationAssumption DEF Keys

LEMMA OfferIsCommand ==
  ASSUME NEW i \in Nat, i < Len(AccountName), StartMark \in Price, args \in Scenarios
  PROVE  SimOffer(i) \in OpenCommand
<1>1. args.start_price \in Int BY ScenarioFields
<1>2. MarginWhole(args.start_price) * SCALE \in Usd BY <1>1, OfferMargin DEF StartMark
<1> QED
  BY <1>2, OfferKey, SimulationAssumption DEF SimOffer, OpenCommand, Side, StartMark

(* The oracle's price is a positive number of micro-dollars.               *)
LEMMA NextPricePositive ==
  ASSUME NEW noise \in Int, args \in Scenarios, price \in Int
  PROVE  NextPrice(noise) \in Nat \ {0}
<1> DEFINE d == price * (args.drift_bps + noise)
<1>1. args.drift_bps + noise \in Int BY ScenarioFields
<1>2. d \in Int BY <1>1
<1> HIDE DEF d
<1>3. TruncDiv(d, 10000) \in Int BY <1>2, TruncDivSign
<1> QED BY <1>3 DEF NextPrice, LargerOf, d

(* A step of a run is a step of the engine on a command of its API.        *)
LEMMA SetMarketIsAny ==
  ASSUME NEW t \in Tasks, NEW mark \in Price, args \in Scenarios, SetMarket(t, mark)
  PROVE  AnyStart(t)
<1>1. [symbol |-> SimSymbol, mark_price |-> mark, funding_rate_bps |-> args.funding_bps] \in View
  BY ScenarioFields, SimulationAssumption DEF View
<1> QED BY <1>1 DEF SetMarket, AnyStart

(* The engine takes up a command or goes on with one.                      *)
Works == \E t \in Tasks : AnyStart(t) \/ Continue(t)

LEMMA RunStepWorks ==
  ASSUME RunInv, [RunNext]_runVars
  PROVE  [Works]_vars
<1>1. ASSUME NEW t \in Tasks, Serve(t) PROVE Works
  BY <1>1, StartIsAny DEF Serve, Works
<1>2. ASSUME NEW t \in Tasks, Serviced(t) PROVE Works
  BY <1>2 DEF Serviced, Works
<1>3. ASSUME NEW t \in Tasks, SimStart(t) PROVE [Works]_vars
  <2>1. args \in Scenarios BY <1>3 DEF SimStart, Turn, RunInv
  <2>2. CASE SimFail BY <2>2 DEF SimFail
  <2>3. CASE ~SimFail
    <3>1. StartMark \in Price /\ SetMarket(t, StartMark) BY <1>3, <2>3 DEF SimStart, StartMark
    <3> QED BY <2>1, <3>1, SetMarketIsAny DEF Works
  <2> QED BY <2>2, <2>3
<1>4. ASSUME NEW t \in Tasks, SimOpen(t) PROVE [Works]_vars
  <2>1. args \in Scenarios /\ StartMark \in Price /\ opened \in Nat
        /\ opened < args.accounts
    BY <1>4 DEF SimOpen, Turn, RunInv, Walking
  <2>2. opened < Len(AccountName)
    BY <2>1, ScenarioFields, SimulationAssumption
  <2>3. SimOffer(opened) \in OpenCommand BY <2>1, <2>2, OfferIsCommand
  <2>4. CASE SimFail BY <2>4 DEF SimFail
  <2>5. CASE OpenGet(t, SimOffer(opened)) BY <2>3, <2>5 DEF Works, AnyStart
  <2> QED BY <1>4, <2>4, <2>5 DEF SimOpen
<1>5. ASSUME NEW t \in Tasks, SimStep(t) PROVE [Works]_vars
  <2>1. args \in Scenarios /\ price \in Int
    BY <1>5, MathAssumption DEF SimStep, Booked, Turn, RunInv, Walking, Price
  <2>2. CASE SimFail BY <2>2 DEF SimFail
  <2>3. CASE ~SimFail
    <3>1. PICK noise \in Int : NextPrice(noise) \in Price /\ SetMarket(t, NextPrice(noise))
      BY <1>5, <2>1, <2>3, ScenarioFields DEF SimStep, LargerOf
    <3> QED BY <2>1, <3>1, SetMarketIsAny DEF Works
  <2> QED BY <2>2, <2>3
<1>6. ASSUME NEW t \in Tasks, SimFund(t) \/ SimSweep(t) PROVE Works
  BY <1>6, SimulationAssumption DEF SimFund, SimSweep, Works, AnyStart
<1>7. CASE SimReport \/ SimThrottled \/ RunOver
  BY <1>7 DEF SimReport, SimThrottled, RunOver, SimFail
<1>8. CASE UNCHANGED runVars
  BY <1>8 DEF runVars
<1> QED
  BY <1>1, <1>2, <1>3, <1>4, <1>5, <1>6, <1>7, <1>8 DEF RunNext, Simulate

LEMMA RunStepIsAny ==
  ASSUME RunInv, [RunNext]_runVars
  PROVE  [AnyNext]_vars
BY RunStepWorks DEF Works, AnyNext

LEMMA RunInvStep ==
  ASSUME RunInv, [RunNext]_runVars
  PROVE  RunInv'
<1>1. ASSUME NEW t \in Tasks, Serve(t) \/ Serviced(t) PROVE RunInv'
  BY <1>1 DEF Serve, Serviced, simulator, RunInv, StartMark
<1>2. CASE at # "serving" /\ SimFail
  BY <1>2 DEF SimFail, RunInv, Labelled, Walking, StartMark
<1>3. ASSUME NEW t \in Tasks, SimStart(t), ~SimFail PROVE RunInv'
  BY <1>3 DEF SimStart, Turn, RunInv, Labelled, Walking, StartMark
<1>4. ASSUME NEW t \in Tasks, SimOpen(t), ~SimFail PROVE RunInv'
  <2>1. /\ at = "walk" /\ opened < args.accounts /\ opened' = opened + 1
        /\ UNCHANGED <<args, at, step, price>>
    BY <1>4 DEF SimOpen, Turn
  <2>2. args \in Scenarios BY <2>1 DEF RunInv
  <2>3. args.accounts \in Nat /\ opened \in Nat BY <2>2, ScenarioFields DEF RunInv
  <2> QED BY <2>1, <2>3 DEF RunInv, Labelled, Walking, StartMark
<1>5. ASSUME NEW t \in Tasks, SimStep(t), ~SimFail PROVE RunInv'
  <2>1. /\ at = "walk" /\ opened = args.accounts /\ step < args.steps
        /\ at' \in {"fund", "sweep"} /\ price' \in Price
        /\ UNCHANGED <<args, opened, step>>
    BY <1>5 DEF SimStep, Booked, Turn
  <2> QED BY <2>1 DEF RunInv, Labelled, Walking, StartMark
<1>6. ASSUME NEW t \in Tasks, SimFund(t) PROVE RunInv'
  BY <1>6 DEF SimFund, Turn, RunInv, Labelled, Walking, StartMark
<1>7. ASSUME NEW t \in Tasks, SimSweep(t) PROVE RunInv'
  <2>1. /\ at = "sweep" /\ at' = "walk" /\ step' = step + 1
        /\ UNCHANGED <<args, opened, price>>
    BY <1>7 DEF SimSweep, Turn
  <2>2. args \in Scenarios /\ step < args.steps /\ opened = args.accounts /\ step \in Nat
    BY <2>1 DEF RunInv
  <2>3. args.steps \in Nat BY <2>2, ScenarioFields
  <2> QED BY <2>1, <2>2, <2>3 DEF RunInv, Labelled, Walking, StartMark
<1>8. CASE SimReport
  BY <1>8 DEF SimReport, Booked, Turn, RunInv, Labelled, Walking, StartMark
<1>9. CASE RunOver \/ UNCHANGED runVars
  BY <1>9 DEF RunOver, simulator, runVars, RunInv, StartMark
<1> QED
  BY <1>1, <1>2, <1>3, <1>4, <1>5, <1>6, <1>7, <1>8, <1>9
     DEF RunNext, Simulate, SimThrottled, SimStart, SimOpen, SimStep, Booked, Turn

LEMMA RunInvariant == RunSpec => []RunInv
BY RunStarts, RunInvStep, PTL DEF RunSpec, runVars

(* What the node does to its engine, while it serves one request at a time *)
(* or walks a scenario, the engine does by itself on the commands of its   *)
(* API: every theorem of RiskEngineProofs carries over.                    *)
THEOREM RunsEngine == RunSpec => AnySpec
<1>1. RunInit => Init
  BY DEF RunInit
<1> QED
  BY <1>1, RunInvariant, RunStepIsAny, PTL DEF RunSpec, runVars, AnySpec

----------------------------------------------------------------------------
(* Why a scenario ends before its report.                                  *)

(* The simulator's six per cent cover the default initial margin of five,  *)
(* but for the start prices of one and three dollars, whatever saturates.  *)
LEMMA MarginCovers ==
  ASSUME NEW p \in Nat \ {0, 1, 3}
  PROVE  p <= 2 * MarginWhole(p)
<1> DEFINE m == MarginWhole(p)
<1>1. m \in Nat /\ 60 * p <= 100 * m + 99 BY MarginWholeBounds
<1>2. CASE p >= 10
  <2> HIDE DEF m
  <2>1. p <= 2 * m BY <1>1, <1>2
  <2> QED BY <2>1 DEF m
<1>3. CASE p < 10
  <2>1. p \in {2, 4, 5, 6, 7, 8, 9} BY <1>3
  <2> QED BY <2>1 DEF MarginWhole, SIZE_WHOLE
<1> QED BY <1>2, <1>3

LEMMA OfferMeetsMargin ==
  ASSUME Params.initial_margin_bps <= 500,
         NEW i \in Nat, args \in Scenarios, StartMark \in Price,
         args.start_price \notin {1, 3}
  PROVE  MeetsInitialMargin(SimOffer(i))
<1> DEFINE p == args.start_price
           bps == Params.initial_margin_bps
           x == p * SCALE
           n == ScaledMul(x, SIZE_WHOLE * SCALE)
           m == MarginWhole(p)
<1>1. p \in Nat \ {0, 1, 3} /\ SCALE \in Nat \ {0}
  BY ScenarioFields, StartPositive, MathAssumption DEF StartMark
<1>2. bps \in Nat /\ bps <= 500
  BY EngineAssumption DEF RiskParams
<1>3. x \in Nat BY <1>1
<1>4. p <= 2 * m /\ m \in Nat BY <1>1, MarginCovers, MarginWholeBounds
<1>5. n \in Nat /\ n <= 10 * x
  <2> DEFINE z == Saturate(x * (10 * SCALE))
  <2>1. x * (10 * SCALE) \in Nat BY <1>1, <1>3
  <2>2. z \in Usd /\ z >= 0 /\ z <= x * (10 * SCALE) BY <2>1, SaturateOrder, SaturateType
  <2>3. z \in Nat BY <2>2, MathAssumption DEF Usd, UsdMin
  <2> HIDE DEF z
  <2>4. n = z \div SCALE BY <2>3 DEF ScaledMul, SatMul, TruncDiv, SIZE_WHOLE, z
  <2>5. z \div SCALE \in Nat /\ (z \div SCALE) * SCALE <= z
    BY <1>1, <2>3, QuotientBounds
  <2> DEFINE q == z \div SCALE
             y == 10 * x
  <2>6. x * (10 * SCALE) = y * SCALE BY <1>1, <1>3
  <2> HIDE DEF q
  <2>7. q \in Int /\ y \in Int /\ q * SCALE < y * SCALE + SCALE
    <3>1. y \in Int /\ q \in Int /\ q * SCALE \in Int /\ y * SCALE \in Int
      BY <1>1, <1>3, <2>5 DEF q
    <3> HIDE DEF y
    <3> QED BY <1>1, <2>2, <2>3, <2>5, <2>6, <3>1 DEF q
  <2> HIDE DEF y
  <2>8. q <= y BY <1>1, <2>7, QuotientOrder
  <2> QED BY <2>4, <2>5, <2>8 DEF q, y
<1> HIDE DEF n, m, x
<1>6. MulBps(n, bps) <= MulBps(10 * x, 500)
  BY <1>2, <1>3, <1>5, MulBpsOrder
<1>7. MulBps(10 * x, 500) <= m * SCALE
  <2> DEFINE w == Saturate(10 * x * 500)
  <2>1. 10 * x * 500 \in Nat BY <1>3
  <2>2. w \in Usd /\ w >= 0 /\ w <= 10 * x * 500 BY <2>1, SaturateOrder, SaturateType
  <2>3. w \in Nat BY <2>2, MathAssumption DEF Usd, UsdMin
  <2> HIDE DEF w
  <2>4. MulBps(10 * x, 500) = w \div 10000 BY <2>3 DEF MulBps, SatMul, TruncDiv, w
  <2>5. 2 * (w \div 10000) <= x BY <1>3, <2>2, <2>3
  <2>6. x <= 2 * (m * SCALE)
    <3>1. p * SCALE <= (2 * m) * SCALE BY <1>1, <1>4
    <3>2. (2 * m) * SCALE = 2 * (m * SCALE) BY <1>1, <1>4
    <3> QED BY <3>1, <3>2 DEF x
  <2>7. w \div 10000 \in Nat /\ m * SCALE \in Nat BY <1>1, <1>4, <2>3
  <2> QED BY <1>3, <2>4, <2>5, <2>6, <2>7
<1>8. MulBps(n, bps) \in Int /\ MulBps(10 * x, 500) \in Int /\ m * SCALE \in Int
  <2>1. n \in Usd
    <3>1. x \in Int /\ SIZE_WHOLE * SCALE \in Int BY <1>1, <1>3 DEF SIZE_WHOLE
    <3> QED BY <3>1, ScaledMulType DEF n
  <2>2. MulBps(n, bps) \in Int
    <3>1. bps \in Int BY <1>2
    <3>2. MulBps(n, bps) \in Usd BY <2>1, <3>1, MulBpsType
    <3> QED BY <3>2, MathAssumption DEF Usd, UsdMin
  <2>3. Saturate(10 * x * 500) \in Int
    <3>1. 10 * x * 500 \in Int BY <1>3
    <3> QED BY <3>1, SaturateType, MathAssumption DEF Usd, UsdMin
  <2>4. MulBps(10 * x, 500) \in Int
    BY <2>3, TruncDivSign DEF MulBps, SatMul
  <2> QED BY <1>1, <1>4, <2>2, <2>4
<1>9. MulBps(n, bps) <= m * SCALE BY <1>6, <1>7, <1>8
<1> QED
  BY <1>9 DEF MeetsInitialMargin, SimOffer, InitialMargin, Notional, PositionOf, n, m, x

(* Where the market can only fall the oracle's price never rises, and so   *)
(* stays in range.                                                         *)
LEMMA FallingPrice ==
  ASSUME args \in Scenarios, price \in Price,
         args.drift_bps + LargerOf(args.vol_bps, 0) <= 0,
         NEW noise \in -LargerOf(args.vol_bps, 0) .. LargerOf(args.vol_bps, 0)
  PROVE  NextPrice(noise) \in Price /\ NextPrice(noise) <= price
<1> DEFINE g == args.drift_bps + noise
           d == price * g
<1>1. price \in Nat \ {0} /\ price <= MAX_PRICE /\ MAX_PRICE \in Nat
  BY MathAssumption DEF Price
<1>2. noise \in Int /\ g \in Int /\ g <= 0
  BY ScenarioFields DEF LargerOf
<1> HIDE DEF g
<1>3. d \in Int /\ d <= 0 BY <1>1, <1>2
<1> HIDE DEF d
<1>4. TruncDiv(d, 10000) \in Int /\ TruncDiv(d, 10000) <= 0 BY <1>3, TruncDivSign
<1>5. NextPrice(noise) = LargerOf(price + TruncDiv(d, 10000), 1) BY DEF NextPrice, d, g
<1> QED BY <1>1, <1>4, <1>5 DEF LargerOf, Price

LEMMA FailureStep ==
  ASSUME Params.initial_margin_bps <= 500, RunInv, FailureExplained, [RunNext]_runVars
  PROVE  FailureExplained'
<1>1. ASSUME at = "failed", UNCHANGED <<args, at, step>>, submitted' = submitted
      PROVE  FailureExplained'
  BY <1>1 DEF FailureExplained
<1>2. ASSUME NEW t \in Tasks, Serviced(t) PROVE FailureExplained'
  <2>1. submitted' = submitted /\ UNCHANGED simulator
    BY <1>2 DEF Serviced, Continue, OpenUpsert, OpenCount, CloseMark, CloseCount, FundScan,
       FundUpsert, FundCount, LiqScan, LiqRemove, LiqSettle, LiqCount, LiqFinish, Publish
  <2> QED BY <2>1 DEF FailureExplained, simulator
<1>3. CASE UNCHANGED runVars \/ RunOver
  BY <1>3 DEF FailureExplained, runVars, vars, simulator, RunOver
<1>4. ASSUME NEW t \in Tasks, SimStart(t) PROVE FailureExplained'
  BY <1>4 DEF SimStart, SimFail, FailureExplained
<1>5. ASSUME NEW t \in Tasks, SimOpen(t) PROVE FailureExplained'
  <2>1. at = "walk" /\ opened < args.accounts BY <1>5 DEF SimOpen, Turn
  <2>2. args \in Scenarios /\ StartMark \in Price /\ opened \in Nat
    BY <2>1 DEF RunInv, Walking
  <2>3. args.accounts > 0 BY <2>1, <2>2, ScenarioFields
  <2>4. CASE args.start_price \in {1, 3}
    BY <1>5, <2>3, <2>4 DEF SimOpen, SimFail, FailureExplained
  <2>5. CASE args.start_price \notin {1, 3}
    <3>1. MeetsInitialMargin(SimOffer(opened)) BY <2>2, <2>5, OfferMeetsMargin
    <3> QED BY <1>5, <2>1, <3>1 DEF SimOpen, FailureExplained
  <2> QED BY <2>4, <2>5
<1>6. ASSUME NEW t \in Tasks, SimStep(t) PROVE FailureExplained'
  <2>1. at = "walk" /\ step < args.steps BY <1>6 DEF SimStep, Booked, Turn
  <2>2. args \in Scenarios /\ price \in Price BY <2>1 DEF RunInv, Walking
  <2>3. CASE args.drift_bps + LargerOf(args.vol_bps, 0) > 0
    BY <1>6, <2>1, <2>3 DEF SimStep, SimFail, FailureExplained
  <2>4. CASE ~(args.drift_bps + LargerOf(args.vol_bps, 0) > 0)
    <3>1. args.drift_bps + LargerOf(args.vol_bps, 0) <= 0
      BY <2>2, <2>4, ScenarioFields DEF LargerOf
    <3>2. at' \in {"fund", "sweep"}
      BY <1>6, <2>2, <3>1, FallingPrice DEF SimStep
    <3> QED BY <3>2 DEF FailureExplained
  <2> QED BY <2>3, <2>4
<1>7. ASSUME NEW t \in Tasks, SimFund(t) \/ SimSweep(t) \/ Serve(t) PROVE FailureExplained'
  BY <1>7 DEF SimFund, SimSweep, Serve, Turn, simulator, FailureExplained
<1>8. CASE SimReport
  BY <1>8 DEF SimReport, FailureExplained
<1>9. CASE SimThrottled
  BY <1>9 DEF SimThrottled, SimFail, FailureExplained, vars
<1> QED
  BY <1>2, <1>3, <1>4, <1>5, <1>6, <1>7, <1>8, <1>9 DEF RunNext, Simulate

(* With the default initial margin of five per cent, or a lower one, no    *)
(* scenario fails but for the reasons FailureExplained lists, whatever its *)
(* length, its noise and the number of its accounts.                       *)
THEOREM FailuresHaveReasons ==
  ASSUME Params.initial_margin_bps <= 500
  PROVE  RunSpec => []FailureExplained
<1>1. RunInit => FailureExplained
  BY DEF RunInit, FailureExplained
<1> QED
  BY <1>1, FailureStep, RunInvariant, PTL DEF RunSpec, runVars
----------------------------------------------------------------------------
(* The simulator and the commands it has in progress.                      *)

Funds == {"fund_scan", "fund_upsert", "fund_count"}
Sweeps == {"liq_scan", "liq_remove", "liq_settle", "liq_count", "liq_finish"}

OfferedKey(i) == <<AccountName[i + 1], SimSymbol>>
Offered(i) == [key |-> OfferedKey(i), pos |-> PositionOf(SimOffer(i))]

(* At an end the simulator waits for nothing; its market is at the         *)
(* oracle's price; and its command in progress is the one it sent last.    *)
Resting == at \in {"start", "reported", "failed"} => pc[Client] = "idle"

MarketSet ==
  at \in Walking => markets[SimSymbol] = [mark_price |-> price,
                                          funding_rate_bps |-> args.funding_bps]

Sent ==
  LET l == pc[Client]
      r == req[Client]
  IN  /\ l \notin {"close_mark", "close_count"}
      /\ l \in HoldsView => r.view.symbol = SimSymbol
      /\ l \in Funds => at = "sweep"
      /\ l \in Sweeps => at = "walk" /\ step > 0
      /\ l \in {"open_upsert", "open_count"} => at = "walk" /\ step = 0 /\ opened > 0
      /\ l = "open_upsert" => r.cur = Offered(opened - 1)
                              /\ MeetsInitialMargin(SimOffer(opened - 1))

SimInv == at # "serving" => Resting /\ MarketSet /\ Sent

LEMMA ContinueEffect ==
  ASSUME OneAtATime, TypeOK, NEW t \in Tasks, Continue(t)
  PROVE  /\ t = Client /\ markets' = markets /\ pc[t] # "idle"
         /\ pc'[t] \in HoldsView => pc[t] \in HoldsView /\ req'[t].view = req[t].view
         /\ pc'[t] # "open_upsert"
         /\ pc'[t] \in {"close_mark", "close_count"} => pc[t] = "close_mark"
         /\ pc'[t] = "open_count" => pc[t] = "open_upsert"
         /\ pc'[t] \in Funds => pc[t] \in Funds
         /\ pc'[t] \in Sweeps => pc[t] \in Sweeps
<1>1. /\ t = Client /\ pc \in [Tasks -> Labels] /\ req \in [Tasks -> Request]
      /\ req[t] \in Request
  BY SoloLocals
<1>2. ASSUME NEW events, Reply(t, events) PROVE pc'[t] \in {"idle", "publish"}
  BY <1>1, <1>2 DEF Reply, Goto
<1>3. ASSUME Abandon(t) PROVE pc'[t] = "idle"
  BY <1>1, <1>3 DEF Abandon, Goto
<1>4. CASE OpenUpsert(t) \/ OpenCount(t) \/ CloseMark(t) \/ CloseCount(t)
  BY <1>1, <1>2, <1>3, <1>4 DEF OpenUpsert, OpenCount, CloseMark, CloseCount, Goto, HoldsView,
     Funds, Sweeps
<1>5. CASE FundScan(t) \/ FundCount(t) \/ LiqScan(t)
  <2>1. /\ markets' = markets
        /\ \/ pc[t] = "fund_scan" /\ Goto(t, "fund_upsert")
           \/ pc[t] = "liq_scan" /\ Goto(t, "liq_remove")
           \/ pc[t] # "idle" /\ \E events : Reply(t, events)
        /\ \E events : Reply(t, events) \/ \E s : req' = [req EXCEPT ![t].todo = s]
    BY <1>5 DEF FundScan, FundCount, LiqScan
  <2>2. CASE \E events : Reply(t, events)
    BY <1>1, <1>2, <1>5, <2>1, <2>2 DEF HoldsView, Funds, Sweeps, FundScan, FundCount, LiqScan
  <2>3. CASE ~\E events : Reply(t, events)
    <3>1. req'[t].view = req[t].view BY <1>1, <2>1, <2>3 DEF Request
    <3> QED BY <1>1, <2>1, <2>3, <3>1 DEF Goto, HoldsView, Funds, Sweeps
  <2> QED BY <2>2, <2>3
<1>6. CASE FundUpsert(t)
  <2>1. PICK e \in req[t].todo :
          /\ req' = [req EXCEPT ![t].todo = req[t].todo \ {e},
               ![t].evs = Append(@, [type |-> "FundingSettled", key |-> e.key,
                          amount |-> FundingPayment(e.pos, req[t].view.mark_price,
                                                    req[t].view.funding_rate_bps)])]
          /\ Goto(t, IF req[t].todo \ {e} = {} THEN "fund_count" ELSE "fund_upsert")
    BY <1>6 DEF FundUpsert
  <2>2. req'[t].view = req[t].view BY <1>1, <2>1 DEF Request
  <2> QED
    BY <1>1, <1>6, <2>1, <2>2 DEF FundUpsert, Goto, HoldsView, Funds, Sweeps
<1>7. CASE LiqRemove(t)
  BY <1>1, <1>7 DEF LiqRemove, Goto, HoldsView, Funds, Sweeps, Request
<1>8. CASE LiqSettle(t)
  <2>1. req'[t].view = req[t].view
    BY <1>1, <1>8 DEF LiqSettle, SettleBankrupt, SettleSolvent, Request
  <2> QED BY <1>1, <1>8, <2>1 DEF LiqSettle, Goto, HoldsView, Funds, Sweeps
<1>9. CASE LiqCount(t)
  BY <1>1, <1>9 DEF LiqCount, Goto, HoldsView, Funds, Sweeps
<1>10. CASE LiqFinish(t)
  BY <1>1, <1>2, <1>10 DEF LiqFinish, HoldsView, Funds, Sweeps
<1>11. CASE Publish(t)
  BY <1>1, <1>3, <1>11 DEF Publish, HoldsView, Funds, Sweeps
<1> QED
  BY <1>4, <1>5, <1>6, <1>7, <1>8, <1>9, <1>10, <1>11 DEF Continue

LEMMA NoClient ==
  ASSUME OneAtATime
  PROVE  Quiescent <=> pc[Client] = "idle"
BY OnlyClient DEF Quiescent

LEMMA SimStarts == ASSUME OneAtATime PROVE RunInit => SimInv
BY OnlyClient DEF RunInit, Init, SimInv, Resting, MarketSet, Sent, Walking, HoldsView, Funds, Sweeps

(* A step at which the simulator sends an update of the market.            *)
LEMMA SetMarketEffect ==
  ASSUME OneAtATime, TypeOK, NEW t \in Tasks, NEW mark \in Price, SetMarket(t, mark)
  PROVE  /\ pc'[Client] = "publish"
         /\ markets'[SimSymbol] = [mark_price |-> mark, funding_rate_bps |-> args.funding_bps]
         /\ positions' = positions /\ stats' = stats /\ insurance' = insurance
BY SoloLocals, SimulationAssumption DEF SetMarket, UpdateMarket, Reply, Goto

LEMMA SimInvStep ==
  ASSUME OneAtATime, TypeOK, RunInv, SimInv, [RunNext]_runVars
  PROVE  SimInv'
<1>0. /\ pc \in [Tasks -> Labels] /\ req \in [Tasks -> Request]
      /\ Client \in Tasks /\ Tasks = {Client} /\ req[Client] \in Request
  BY SoloLocals, OnlyClient
<1>1. ASSUME NEW t \in Tasks, Serviced(t) PROVE SimInv'
  <2>1. Continue(t) /\ UNCHANGED simulator BY <1>1 DEF Serviced
  <2> QED
    BY <2>1, ContinueEffect DEF simulator, SimInv, Resting, MarketSet, Sent, SimOffer, Offered,
       OfferedKey, PositionOf, MeetsInitialMargin
<1>2. ASSUME NEW t \in Tasks, Serve(t) PROVE SimInv'
  BY <1>2 DEF Serve, Turn, simulator, SimInv
<1>3. CASE at # "serving" /\ SimFail /\ Quiescent
  BY <1>3, NoClient DEF SimFail, vars, SimInv, Resting, MarketSet, Sent, Walking, HoldsView,
     Funds, Sweeps
<1>4. ASSUME NEW t \in Tasks, SimStart(t), ~SimFail PROVE SimInv'
  <2>1. /\ StartMark \in Price /\ SetMarket(t, StartMark)
        /\ price' = StartMark /\ at' = "walk" /\ args' = args
    BY <1>4 DEF SimStart, StartMark
  <2> QED
    BY <2>1, SetMarketEffect DEF SimInv, Resting, MarketSet, Sent, HoldsView, Funds, Sweeps
<1>5. ASSUME NEW t \in Tasks, SimOpen(t), ~SimFail PROVE SimInv'
  <2>1. /\ OpenGet(t, SimOffer(opened)) /\ MeetsInitialMargin(SimOffer(opened))
        /\ opened' = opened + 1 /\ opened \in Nat /\ opened < args.accounts
        /\ UNCHANGED <<args, at, step, price>> /\ at = "walk" /\ opened' - 1 = opened
        /\ SimInv
    BY <1>5 DEF SimOpen, Turn, RunInv
  <2>2. step = 0
    <3>1. args \in Scenarios BY <2>1 DEF RunInv
    <3>2. opened # args.accounts BY <2>1, <3>1, ScenarioFields
    <3> QED BY <3>2 DEF RunInv
  <2>3. /\ pc'[Client] = "open_upsert" /\ markets' = markets /\ t = Client
        /\ req'[Client].cur = Offered(opened)
    BY <1>0, <2>1 DEF OpenGet, Goto, Request, Offered, OfferedKey, SimOffer
  <2>4. opened' > 0 BY <2>1
  <2>5. /\ (MeetsInitialMargin(SimOffer(opened)))'
        <=> MeetsInitialMargin(SimOffer(opened'))
    BY <2>1 DEF MeetsInitialMargin, SimOffer
  <2>6. Sent'
    <3>1. (Offered(opened - 1))' = Offered(opened)
          /\ ((MeetsInitialMargin(SimOffer(opened - 1)))' <=> MeetsInitialMargin(SimOffer(opened)))
      BY <2>1 DEF Offered, OfferedKey, SimOffer, MeetsInitialMargin, PositionOf
    <3> QED
      BY <2>1, <2>2, <2>3, <2>4, <3>1 DEF Sent, HoldsView, Funds, Sweeps
  <2> QED
    BY <2>1, <2>3, <2>6 DEF SimInv, Resting, MarketSet
<1>6. ASSUME NEW t \in Tasks, SimStep(t), ~SimFail PROVE SimInv'
  <2>1. \E noise : /\ NextPrice(noise) \in Price /\ SetMarket(t, NextPrice(noise))
                   /\ price' = NextPrice(noise)
    BY <1>6 DEF SimStep
  <2>2. /\ price' \in Price /\ SetMarket(t, price') /\ at' \in {"fund", "sweep"}
        /\ UNCHANGED <<args, opened, step>>
    BY <1>6, <2>1 DEF SimStep
  <2> QED
    BY <2>2, SetMarketEffect DEF SimInv, Resting, MarketSet, Sent, HoldsView, Funds, Sweeps
<1>7. ASSUME NEW t \in Tasks, SimFund(t) PROVE SimInv'
  <2>1. /\ pc'[Client] = "fund_scan" /\ markets' = markets
        /\ req'[Client].view = ViewOf(SimSymbol)
    BY <1>0, <1>7 DEF SimFund, FundMarket, Goto, Request
  <2>2. at = "fund" /\ at' = "sweep" /\ UNCHANGED <<args, opened, step, price>>
    BY <1>7 DEF SimFund, Turn
  <2> QED
    BY <2>1, <2>2 DEF SimInv, Resting, MarketSet, Sent, Walking, HoldsView, Funds, Sweeps, ViewOf
<1>8. ASSUME NEW t \in Tasks, SimSweep(t) PROVE SimInv'
  <2>1. /\ pc'[Client] = "liq_scan" /\ markets' = markets
        /\ req'[Client].view = ViewOf(SimSymbol)
    BY <1>0, <1>8 DEF SimSweep, LiqMarket, Goto, Request
  <2>2. /\ at = "sweep" /\ at' = "walk" /\ step' = step + 1 /\ step \in Nat
        /\ UNCHANGED <<args, opened, price>>
    BY <1>8 DEF SimSweep, Turn, RunInv
  <2> QED
    BY <2>1, <2>2 DEF SimInv, Resting, MarketSet, Sent, Walking, HoldsView, Funds, Sweeps, ViewOf
<1>9. CASE SimReport
  BY <1>9, NoClient DEF SimReport, Booked, Turn, vars, SimInv, Resting, MarketSet, Sent, Walking,
     HoldsView, Funds, Sweeps
<1>10. CASE RunOver \/ UNCHANGED runVars
  BY <1>10 DEF RunOver, runVars, simulator, vars, SimInv, Resting, MarketSet, Sent, SimOffer,
     Offered, OfferedKey, PositionOf, MeetsInitialMargin
<1> QED
  BY <1>1, <1>2, <1>3, <1>4, <1>5, <1>6, <1>7, <1>8, <1>9, <1>10
     DEF RunNext, Simulate, SimThrottled, SimStart, SimOpen, SimStep, Booked, Turn

LEMMA SimInvariant ==
  ASSUME OneAtATime
  PROVE  RunSpec => []SimInv
<1>1. TypeOK /\ RunInv /\ SimInv /\ [RunNext]_runVars => SimInv'
  BY SimInvStep
<1> QED
  BY <1>1, SimStarts, RunInvariant, RunsEngine, TypeCorrectAny, PTL DEF RunSpec, runVars

----------------------------------------------------------------------------
(* The shorts of a falling market.                                         *)

(* A position that met its initial margin, and has neither lost on its     *)
(* price nor paid funding, meets its maintenance margin.                   *)
LEMMA GainsMeetMargin ==
  ASSUME Params.maintenance_margin_bps <= Params.initial_margin_bps,
         NEW pos \in Position, NEW mark \in Price, mark <= pos.entry_price,
         pos.side = "short" \/ mark = pos.entry_price,
         pos.posted_margin >= InitialMargin(pos, pos.entry_price, Params),
         pos.funding_paid <= 0
  PROVE  ~IsLiquidatable(pos, mark, Params)
<1> DEFINE e == pos.entry_price
           m == pos.posted_margin
           f == pos.funding_paid
           pnl == UnrealizedPnl(pos, mark)
           low == Params.maintenance_margin_bps
           high == Params.initial_margin_bps
           n == Notional(pos, mark)
           o == Notional(pos, e)
<1>1. low \in Nat /\ high \in Nat
  BY EngineAssumption DEF RiskParams
<1>2. /\ mark \in Nat /\ e \in Nat /\ pos.size \in Nat /\ e \in Price
      /\ m \in Usd /\ f \in Usd
  BY MathAssumption DEF Price, Position, Size
<1>3. m \in Int /\ f \in Int /\ \A x \in Usd : x \in Int
  BY <1>2, MathAssumption DEF Usd, UsdMin
<1>4. pnl \in Usd /\ pnl >= 0
  <2>1. /\ pos.side = "long" => mark - e = 0
        /\ pos.side # "long" => e - mark >= 0
    BY <1>2 DEF Position, Side
  <2> QED
    BY <1>2, <2>1, ScaledMulType DEF UnrealizedPnl
<1> HIDE DEF pnl
<1>5. SatAdd(m, pnl) \in Usd /\ SatAdd(m, pnl) >= m
  <2>1. pnl \in Int /\ m <= m + pnl /\ m + pnl \in Int BY <1>3, <1>4
  <2>2. Saturate(m) <= Saturate(m + pnl) BY <1>3, <2>1, SaturateOrder
  <2> QED BY <1>2, <1>3, <1>4, <2>2, SaturateType, SatType DEF SatAdd
<1> DEFINE a == SatAdd(m, pnl)
<1> HIDE DEF a
<1>6. SatSub(a, f) \in Usd /\ SatSub(a, f) >= a
  <2>1. a \in Usd /\ a \in Int /\ a <= a - f /\ a - f \in Int BY <1>3, <1>5 DEF a
  <2>2. Saturate(a) <= Saturate(a - f) BY <2>1, SaturateOrder
  <2> QED BY <1>2, <1>3, <2>1, <2>2, SaturateType, SatType DEF SatSub
<1>7. /\ n \in Usd /\ n >= 0 /\ o \in Usd /\ o >= 0
  BY <1>2, NotionalType
<1>8. n \in Nat /\ o \in Nat BY <1>3, <1>7
<1>9. n <= o BY <1>2, ScaledMulOrder DEF Notional
<1> HIDE DEF n, o
<1>10. MulBps(n, low) <= MulBps(o, high) BY <1>1, <1>8, <1>9, MulBpsOrder
<1>11. MulBps(n, low) \in Int /\ MulBps(o, high) \in Int
  <2>1. low \in Int /\ high \in Int BY <1>1
  <2>2. MulBps(n, low) \in Usd /\ MulBps(o, high) \in Usd BY <1>7, <2>1, MulBpsType
  <2> QED BY <1>3, <2>2
<1>12. MulBps(o, high) <= m BY DEF InitialMargin, o
<1> DEFINE q == SatSub(a, f)
           x == MulBps(n, low)
           y == MulBps(o, high)
<1>13. q \in Int /\ a \in Int /\ a >= m /\ q >= a BY <1>3, <1>5, <1>6 DEF a
<1>14. x \in Int /\ y \in Int /\ x <= y /\ y <= m BY <1>10, <1>11, <1>12
<1> HIDE DEF q, x, y
<1>15. ~(q < x) BY <1>3, <1>13, <1>14
<1>16. PositionEquity(pos, mark) = q BY DEF PositionEquity, q, a, pnl
<1>17. MaintenanceMargin(pos, mark, Params) = x BY DEF MaintenanceMargin, x, n
<1> QED BY <1>15, <1>16, <1>17 DEF IsLiquidatable

(* To a short, a settlement at a rate that is not negative is income.      *)
LEMMA ShortReceives ==
  ASSUME NEW pos \in Position, pos.side = "short", pos.funding_paid <= 0,
         NEW mark \in Price, NEW rate \in Int, rate >= 0
  PROVE  LET settled == Settled(pos, FundingPayment(pos, mark, rate))
         IN  /\ settled \in Position /\ settled.funding_paid <= 0
             /\ settled = [pos EXCEPT !.funding_paid = settled.funding_paid]
<1> DEFINE x == MulBps(Notional(pos, mark), rate)
           p == SatNeg(x)
           f == pos.funding_paid
<1>1. x \in Usd /\ x >= 0 BY NotionalType, MulBpsType
<1>2. \A y \in Usd : y \in Int BY MathAssumption DEF Usd, UsdMin
<1>3. f \in Usd BY DEF Position
<1> HIDE DEF x
<1>4. p \in Usd /\ p <= 0
  <2>1. x \in Int /\ -x \in Int /\ -x <= 0 BY <1>1, <1>2
  <2> QED BY <2>1, SaturateType DEF SatNeg
<1> HIDE DEF p
<1>5. SatAdd(f, p) \in Usd /\ SatAdd(f, p) <= 0
  <2>1. f + p \in Int /\ f + p <= 0 BY <1>2, <1>3, <1>4
  <2> QED BY <2>1, SaturateType DEF SatAdd
<1>6. FundingPayment(pos, mark, rate) = p BY DEF FundingPayment, p, x
<1> QED BY <1>5, <1>6 DEF Settled, Position

Gains(p) ==
  /\ p \in Position
  /\ p.side = "short"
  /\ p.entry_price = StartMark
  /\ p.posted_margin >= InitialMargin(p, p.entry_price, Params)
  /\ p.funding_paid <= 0

OnlyFalls == args.drift_bps + LargerOf(args.vol_bps, 0) <= 0 /\ args.funding_bps >= 0

Shorts == {i \in 0 .. opened - 1 : i % 2 = 1}
BeingOpened(i) == pc[Client] = "open_upsert" /\ i = opened - 1

FallInv ==
  at # "serving" /\ OnlyFalls =>
    /\ at \in Walking => price <= StartMark
    /\ \A i \in Shorts : BeingOpened(i) \/ Gains(positions[OfferedKey(i)])

LEMMA OfferedKeys ==
  ASSUME NEW i \in Nat, NEW j \in Nat, i < Len(AccountName), j < Len(AccountName),
         OfferedKey(i) = OfferedKey(j)
  PROVE  i = j
<1>1. AccountName[i + 1] = AccountName[j + 1] BY DEF OfferedKey
<1>2. i + 1 \in DOMAIN AccountName /\ j + 1 \in DOMAIN AccountName BY OfferKey
<1>3. i + 1 = j + 1 BY <1>1, <1>2, SimulationAssumption DEF IsInjective
<1> QED BY <1>3

LEMMA OfferOfShortGains ==
  ASSUME NEW i \in Nat, i % 2 = 1, i < Len(AccountName), StartMark \in Price,
         args \in Scenarios, MeetsInitialMargin(SimOffer(i))
  PROVE  Gains(PositionOf(SimOffer(i)))
<1>1. SimOffer(i) \in OpenCommand BY OfferIsCommand
<1>2. PositionOf(SimOffer(i)) \in Position
  BY <1>1, MathAssumption DEF OpenCommand, PositionOf, Position, Usd, UsdMin
<1> QED
  BY <1>2 DEF Gains, PositionOf, SimOffer, StartMark, MeetsInitialMargin

LEMMA SettledGains ==
  ASSUME NEW p, Gains(p), NEW mark \in Price, NEW rate \in Int, rate >= 0
  PROVE  Gains(Settled(p, FundingPayment(p, mark, rate)))
<1> DEFINE s == Settled(p, FundingPayment(p, mark, rate))
<1>1. /\ s \in Position /\ s.funding_paid <= 0
      /\ s = [p EXCEPT !.funding_paid = s.funding_paid]
  BY ShortReceives DEF Gains
<1> HIDE DEF s
<1>2. /\ s.side = p.side /\ s.size = p.size /\ s.entry_price = p.entry_price
      /\ s.posted_margin = p.posted_margin
  BY <1>1 DEF Gains, Position
<1>3. Gains(s)
  BY <1>1, <1>2 DEF Gains, InitialMargin, Notional
<1> QED BY <1>3 DEF s

(* What the steps of a command in progress do to the stored positions.     *)
LEMMA ContinueWrites ==
  ASSUME OneAtATime, TypeOK, SoloInv, NEW t \in Tasks, Continue(t)
  PROVE  LET r == req[Client]
             v == r.view
         IN \/ positions' = positions /\ pc[Client] # "open_upsert"
            \/ /\ pc[Client] = "open_upsert" /\ pc'[Client] = "open_count"
               /\ positions' = [positions EXCEPT ![r.cur.key] = r.cur.pos]
            \/ /\ pc[Client] = "fund_upsert"
               /\ \E e \in r.todo :
                    /\ e.key \in Keys /\ positions[e.key] = e.pos /\ e.pos \in Position
                    /\ positions' = [positions EXCEPT ![e.key] =
                         Settled(e.pos, FundingPayment(e.pos, v.mark_price, v.funding_rate_bps))]
            \/ /\ pc[Client] = "liq_remove" /\ pc'[Client] = "liq_settle"
               /\ \E e \in r.todo :
                    /\ e.key \in Keys /\ positions[e.key] = e.pos
                    /\ IsLiquidatable(e.pos, v.mark_price, Params)
                    /\ positions' = [positions EXCEPT ![e.key] = None]
<1>1. /\ t = Client /\ pc \in [Tasks -> Labels] /\ req[t].todo \subseteq Snapshot
  BY SoloLocals
<1>2. CASE OpenUpsert(t)
  BY <1>1, <1>2 DEF OpenUpsert, Goto
<1>3. CASE FundUpsert(t)
  <2>1. PICK e \in req[t].todo : positions' = [positions EXCEPT ![e.key] =
           Settled(e.pos, FundingPayment(e.pos, req[t].view.mark_price,
                                         req[t].view.funding_rate_bps))]
    BY <1>3 DEF FundUpsert
  <2>2. e.key \in Keys /\ e.pos \in Position /\ positions[e.key] = e.pos
    BY <1>1 DEF Snapshot, SoloInv, TodoStored
  <2> QED BY <1>1, <1>3, <2>1, <2>2 DEF FundUpsert
<1>4. CASE LiqRemove(t)
  <2>1. /\ pc[t] = "liq_remove" /\ pc'[t] = "liq_settle"
        /\ \E e \in req[t].todo : positions' = [positions EXCEPT ![e.key] = None]
    BY <1>1, <1>4 DEF LiqRemove, Goto
  <2>2. \A e \in req[t].todo : /\ e.key \in Keys /\ positions[e.key] = e.pos
                               /\ IsLiquidatable(e.pos, req[t].view.mark_price, Params)
    BY <1>1, <2>1 DEF Snapshot, SoloInv, TodoStored, SweepExact, SweepsUnderwater, HoldsLoss, Sinks
  <2> QED BY <1>1, <2>1, <2>2
<1>5. CASE \/ OpenCount(t) \/ CloseMark(t) \/ CloseCount(t) \/ FundScan(t) \/ FundCount(t)
            \/ LiqScan(t) \/ LiqSettle(t) \/ LiqCount(t) \/ LiqFinish(t) \/ Publish(t)
  <2>1. positions' = positions /\ pc[t] # "open_upsert"
    BY <1>5 DEF OpenCount, CloseMark, CloseCount, FundScan, FundCount, LiqScan, LiqSettle,
       LiqCount, LiqFinish, Publish
  <2> QED BY <1>1, <2>1
<1> QED BY <1>2, <1>3, <1>4, <1>5 DEF Continue

LEMMA FallContinues ==
  ASSUME Params.maintenance_margin_bps <= Params.initial_margin_bps, OneAtATime, TypeOK,
         RunInv, SimInv, SoloInv, FallInv, NEW t \in Tasks, Serviced(t)
  PROVE  FallInv'
<1> SUFFICES ASSUME at # "serving", OnlyFalls PROVE FallInv'
  BY DEF Serviced, simulator, FallInv, OnlyFalls
<1> DEFINE r == req[Client]
           v == r.view
<1>1. Continue(t) /\ UNCHANGED <<args, at, opened, step, price>>
  BY DEF Serviced, simulator
<1>2. at \in Walking => price' <= StartMark'
  BY <1>1 DEF FallInv, StartMark
<1>3. args \in Scenarios BY DEF RunInv
<1>4. pc[Client] # "idle" BY <1>1, ContinueEffect
<1>5. at \in Walking BY <1>4 DEF SimInv, Resting, RunInv, Labelled, Walking
<1>6. StartMark \in Price /\ price \in Price /\ price <= StartMark BY <1>5 DEF RunInv, FallInv
<1>7. ASSUME NEW i \in Shorts PROVE BeingOpened(i)' \/ Gains(positions'[OfferedKey(i)])
  <2> DEFINE k == OfferedKey(i)
  <2>1. i \in Nat /\ i % 2 = 1 /\ i < Len(AccountName) /\ i <= opened - 1 /\ opened \in Nat
    BY <1>3, ScenarioFields, SimulationAssumption DEF Shorts, RunInv
  <2>2. k \in Keys BY <2>1, OfferKey DEF OfferedKey
  <2>3. BeingOpened(i) \/ Gains(positions[k]) BY DEF FallInv
  <2>4. positions \in [Keys -> Position \cup {None}] BY DEF TypeOK, StateOK
  <2> HIDE DEF k
  <2>5. CASE positions' = positions /\ pc[Client] # "open_upsert"
    BY <2>3, <2>5 DEF BeingOpened, k
  <2>6. CASE /\ pc[Client] = "open_upsert" /\ pc'[Client] = "open_count"
             /\ positions' = [positions EXCEPT ![r.cur.key] = r.cur.pos]
    <3>1. r.cur = Offered(opened - 1) /\ MeetsInitialMargin(SimOffer(opened - 1))
          /\ opened > 0
      BY <2>6 DEF SimInv, Sent
    <3> DEFINE j == opened - 1
    <3>2. j \in Nat /\ j < Len(AccountName)
      <4>1. opened <= Len(AccountName)
        BY <1>3, ScenarioFields, SimulationAssumption DEF RunInv
      <4> QED BY <2>1, <3>1, <4>1, SimulationAssumption
    <3>3. r.cur.key = OfferedKey(j) /\ r.cur.pos = PositionOf(SimOffer(j))
      BY <3>1 DEF Offered
    <3>4. OfferedKey(j) \in Keys BY <3>2, OfferKey DEF OfferedKey
    <3>5. CASE i = j
      <4>1. positions'[k] = PositionOf(SimOffer(j)) BY <2>4, <2>6, <3>3, <3>4, <3>5 DEF k
      <4>2. Gains(PositionOf(SimOffer(j))) BY <1>3, <1>6, <2>1, <3>1, <3>2, <3>5, OfferOfShortGains
      <4> QED BY <4>1, <4>2 DEF k
    <3>6. CASE i # j
      <4>1. OfferedKey(i) # OfferedKey(j) BY <2>1, <3>2, <3>6, OfferedKeys
      <4>2. positions'[k] = positions[k] BY <2>2, <2>4, <2>6, <3>3, <4>1 DEF k
      <4> QED BY <2>3, <3>6, <4>2 DEF BeingOpened, k
    <3> QED BY <3>5, <3>6
  <2>7. CASE /\ pc[Client] = "fund_upsert"
             /\ \E e \in r.todo :
                  /\ e.key \in Keys /\ positions[e.key] = e.pos /\ e.pos \in Position
                  /\ positions' = [positions EXCEPT ![e.key] =
                       Settled(e.pos, FundingPayment(e.pos, v.mark_price, v.funding_rate_bps))]
    <3>1. v.mark_price = price /\ v.funding_rate_bps = args.funding_bps
      BY <1>5, <2>7 DEF SimInv, Sent, MarketSet, SoloInv, ViewCurrent, ViewOf, HoldsView
    <3>2. PICK e \in r.todo :
                  /\ e.key \in Keys /\ positions[e.key] = e.pos /\ e.pos \in Position
                  /\ positions' = [positions EXCEPT ![e.key] =
                       Settled(e.pos, FundingPayment(e.pos, v.mark_price, v.funding_rate_bps))]
      BY <2>7
    <3>3. Gains(positions[k]) BY <2>3, <2>7 DEF BeingOpened
    <3>4. CASE e.key = k
      <4>1. positions'[k] = Settled(e.pos, FundingPayment(e.pos, price, args.funding_bps))
        BY <2>4, <3>1, <3>2, <3>4
      <4>2. args.funding_bps \in Int /\ args.funding_bps >= 0 BY <1>3, ScenarioFields DEF OnlyFalls
      <4>3. Gains(positions'[k])
        BY <1>6, <3>2, <3>3, <3>4, <4>1, <4>2, SettledGains
      <4> QED BY <4>3 DEF k
    <3>5. CASE e.key # k
      BY <2>2, <2>4, <3>2, <3>3, <3>5 DEF k
    <3> QED BY <3>4, <3>5
  <2>8. CASE /\ pc[Client] = "liq_remove" /\ pc'[Client] = "liq_settle"
             /\ \E e \in r.todo :
                  /\ e.key \in Keys /\ positions[e.key] = e.pos
                  /\ IsLiquidatable(e.pos, v.mark_price, Params)
                  /\ positions' = [positions EXCEPT ![e.key] = None]
    <3>1. v.mark_price = price
      BY <1>5, <2>8 DEF SimInv, Sent, MarketSet, SoloInv, ViewCurrent, ViewOf, HoldsView
    <3>2. PICK e \in r.todo :
                  /\ e.key \in Keys /\ positions[e.key] = e.pos
                  /\ IsLiquidatable(e.pos, v.mark_price, Params)
                  /\ positions' = [positions EXCEPT ![e.key] = None]
      BY <2>8
    <3>3. Gains(positions[k]) BY <2>3, <2>8 DEF BeingOpened
    <3>4. ~IsLiquidatable(positions[k], price, Params)
      BY <1>6, <3>3, GainsMeetMargin DEF Gains
    <3>5. e.key # k BY <3>1, <3>2, <3>4
    <3> QED BY <2>2, <2>4, <3>2, <3>3, <3>5 DEF k
  <2> QED BY <1>1, <2>5, <2>6, <2>7, <2>8, ContinueWrites
<1>8. /\ Shorts' = Shorts /\ \A i : OfferedKey(i)' = OfferedKey(i)
      /\ \A p : Gains(p)' <=> Gains(p)
  BY <1>1 DEF Shorts, OfferedKey, Gains, StartMark, InitialMargin, Notional
<1>9. \A i \in Shorts' : BeingOpened(i)' \/ Gains(positions[OfferedKey(i)])'
  BY <1>7, <1>8 DEF Gains, OfferedKey, StartMark
<1> QED BY <1>1, <1>2, <1>9 DEF FallInv

LEMMA FallStep ==
  ASSUME Params.maintenance_margin_bps <= Params.initial_margin_bps, OneAtATime, TypeOK,
         RunInv, SimInv, SoloInv, FallInv, [RunNext]_runVars
  PROVE  FallInv'
<1>0. /\ pc \in [Tasks -> Labels] /\ Client \in Tasks /\ Tasks = {Client}
  BY SoloLocals, OnlyClient
<1>1. ASSUME NEW t \in Tasks, Serviced(t) PROVE FallInv'
  BY <1>1, FallContinues
<1>2. ASSUME NEW t \in Tasks, Serve(t) PROVE FallInv'
  BY <1>2 DEF Serve, Turn, simulator, FallInv
<1>3. ASSUME UNCHANGED <<positions, args, opened>>, at # "serving", pc[Client] = "idle",
             at' \in Walking => price' <= StartMark'
      PROVE  FallInv'
  <2>1. /\ Shorts' = Shorts /\ \A i : ~BeingOpened(i)
        /\ \A i : Gains(positions[OfferedKey(i)])' <=> Gains(positions[OfferedKey(i)])
    BY <1>3 DEF Shorts, BeingOpened, Gains, OfferedKey, StartMark, InitialMargin, Notional
  <2>2. OnlyFalls' <=> OnlyFalls BY <1>3 DEF OnlyFalls
  <2> QED BY <1>3, <2>1, <2>2 DEF FallInv
<1>4. CASE at # "serving" /\ SimFail /\ Quiescent
  BY <1>3, <1>4, NoClient DEF SimFail, vars, Walking
<1>5. ASSUME NEW t \in Tasks, SimStart(t), ~SimFail PROVE FallInv'
  <2>1. /\ StartMark \in Price /\ SetMarket(t, StartMark) /\ at = "start" /\ Quiescent
        /\ price' = StartMark /\ UNCHANGED <<args, opened>>
    BY <1>5 DEF SimStart, StartMark, Turn
  <2>2. positions' = positions BY <2>1, SetMarketEffect
  <2>3. price' <= StartMark' BY <2>1, MathAssumption DEF StartMark, Price
  <2> QED BY <1>3, <2>1, <2>2, <2>3, NoClient
<1>6. ASSUME NEW t \in Tasks, SimOpen(t), ~SimFail PROVE FallInv'
  <2>1. /\ OpenGet(t, SimOffer(opened)) /\ opened' = opened + 1 /\ opened \in Nat
        /\ UNCHANGED <<args, at, step, price>> /\ at = "walk" /\ Quiescent
    BY <1>6 DEF SimOpen, Turn, RunInv
  <2>2. positions' = positions /\ pc'[Client] = "open_upsert"
    BY <1>0, <2>1 DEF OpenGet, Goto
  <2>3. /\ \A i : ~BeingOpened(i)
        /\ \A i : Gains(positions[OfferedKey(i)])' <=> Gains(positions[OfferedKey(i)])
        /\ OnlyFalls' <=> OnlyFalls
    BY <2>1, <2>2, NoClient
       DEF BeingOpened, Gains, OfferedKey, StartMark, InitialMargin, Notional, OnlyFalls
  <2>4. ASSUME NEW i \in Shorts' PROVE i \in Shorts \/ BeingOpened(i)'
    BY <2>1, <2>2 DEF Shorts, BeingOpened
  <2>5. at' \in Walking => (price <= StartMark <=> (price <= StartMark)')
    BY <2>1 DEF StartMark
  <2>6. Walking' = Walking BY DEF Walking
  <2> QED BY <2>1, <2>3, <2>4, <2>5, <2>6 DEF FallInv
<1>7. ASSUME NEW t \in Tasks, SimStep(t), ~SimFail PROVE FallInv'
  <2> SUFFICES ASSUME OnlyFalls' PROVE FallInv'
    BY DEF FallInv
  <2>1. \E noise \in -LargerOf(args.vol_bps, 0) .. LargerOf(args.vol_bps, 0) :
           /\ NextPrice(noise) \in Price /\ SetMarket(t, NextPrice(noise))
           /\ price' = NextPrice(noise)
    BY <1>7 DEF SimStep
  <2>2. /\ at = "walk" /\ Quiescent /\ UNCHANGED <<args, opened>> /\ args \in Scenarios
        /\ StartMark \in Price /\ price \in Price
    BY <1>7 DEF SimStep, Booked, Turn, RunInv, Walking
  <2>3. /\ OnlyFalls /\ price <= StartMark
    BY <2>2 DEF OnlyFalls, FallInv, Walking
  <2>4. price' \in Price /\ price' <= price
    BY <2>1, <2>2, <2>3, FallingPrice DEF OnlyFalls
  <2>5. price' <= StartMark' /\ positions' = positions
    <3>1. positions' = positions BY <2>1, <2>2, SetMarketEffect
    <3>2. StartMark' = StartMark BY <2>2 DEF StartMark
    <3>3. price' <= StartMark BY <2>2, <2>3, <2>4, MathAssumption DEF Price
    <3> QED BY <3>1, <3>2, <3>3
  <2> QED BY <1>3, <2>2, <2>5, NoClient
<1>8. ASSUME NEW t \in Tasks, SimFund(t) \/ SimSweep(t) PROVE FallInv'
  <2>1. /\ UNCHANGED <<positions, args, opened, price>> /\ at \in {"fund", "sweep"} /\ Quiescent
    BY <1>8 DEF SimFund, SimSweep, Turn, FundMarket, LiqMarket
  <2>2. OnlyFalls => price' <= StartMark'
    BY <2>1 DEF FallInv, Walking, StartMark
  <2>3. CASE OnlyFalls BY <1>3, <2>1, <2>2, <2>3, NoClient
  <2>4. CASE ~OnlyFalls BY <2>1, <2>4 DEF FallInv, OnlyFalls
  <2> QED BY <2>3, <2>4
<1>9. CASE SimReport
  <2>1. /\ UNCHANGED <<positions, args, opened, price>> /\ at = "walk" /\ Quiescent
    BY <1>9 DEF SimReport, Booked, Turn, vars
  <2>2. OnlyFalls => price' <= StartMark'
    BY <2>1 DEF FallInv, Walking, StartMark
  <2>3. CASE OnlyFalls BY <1>3, <2>1, <2>2, <2>3, NoClient
  <2>4. CASE ~OnlyFalls BY <2>1, <2>4 DEF FallInv, OnlyFalls
  <2> QED BY <2>3, <2>4
<1>10. CASE RunOver \/ UNCHANGED runVars
  <2>1. UNCHANGED <<vars, simulator>> BY <1>10 DEF RunOver, runVars
  <2> QED
    BY <2>1 DEF simulator, vars, FallInv, OnlyFalls, Shorts, BeingOpened, Gains, OfferedKey,
       StartMark, InitialMargin, Notional
<1> QED
  BY <1>1, <1>2, <1>4, <1>5, <1>6, <1>7, <1>8, <1>9, <1>10
     DEF RunNext, Simulate, SimThrottled, SimStart, SimOpen, SimStep, Booked, Turn

(* README.md:296-297, for every scenario: as long as the maintenance rate  *)
(* is not above the initial rate, no short is liquidated in a market that  *)
(* only falls while longs pay funding.                                     *)
THEOREM ShortsSurvive ==
  ASSUME OneAtATime, Params.maintenance_margin_bps <= Params.initial_margin_bps
  PROVE  RunSpec => []ShortsSurviveFall
<1>1. RunInit => FallInv
  BY DEF RunInit, Init, FallInv, Walking, Shorts
<1>2. TypeOK /\ RunInv /\ SimInv /\ SoloInv /\ FallInv /\ [RunNext]_runVars => FallInv'
  BY FallStep
<1>3. FallInv /\ RunInv => ShortsSurviveFall
  <2> SUFFICES ASSUME FallInv, at # "serving", Quiescent, OnlyFalls,
                      NEW i \in 0 .. opened - 1, i % 2 = 1
               PROVE  positions[OfferedKey(i)] # None
    BY DEF ShortsSurviveFall, OnlyFalls, OfferedKey
  <2>1. Gains(positions[OfferedKey(i)])
    BY NoClient DEF FallInv, BeingOpened, Shorts
  <2> QED BY <2>1, NoneIsNone DEF Gains
<1> QED
  BY <1>1, <1>2, <1>3, SimInvariant, RunInvariant, RunsEngine, TypeCorrectAny, SoloInvariant,
     PTL DEF RunSpec, runVars

----------------------------------------------------------------------------
(* The report of a scenario.                                               *)

(* The funding ticks that come due in the first n steps.                   *)
TicksBy(n) == IF args.funding_interval = 0 THEN 0
              ELSE (n + args.funding_interval - 1) \div args.funding_interval

LEMMA QuotientIs ==
  ASSUME NEW x \in Nat, NEW d \in Nat \ {0}, NEW q \in Nat, q * d <= x, x < q * d + d
  PROVE  x \div d = q
<1> DEFINE p == x \div d
<1>1. p \in Nat /\ p * d <= x /\ x < p * d + d BY QuotientBounds
<1> HIDE DEF p
<1>2. p * d \in Int /\ q * d \in Int BY <1>1
<1>3. p * d < q * d + d /\ q * d < p * d + d BY <1>1, <1>2
<1>4. p <= q /\ q <= p BY <1>1, <1>3, QuotientOrder
<1>5. p = q BY <1>1, <1>4
<1> QED BY <1>5 DEF p

(* One more tick is due at each multiple of the interval.                  *)
LEMMA TicksCount ==
  ASSUME args \in Scenarios, NEW n \in Nat
  PROVE  /\ TicksBy(n) \in Nat /\ TicksBy(0) = 0
         /\ n > 0 /\ args.funding_interval > 0 => TicksBy(n) > 0
         /\ TicksBy(n + 1) = IF args.funding_interval > 0 /\ n % args.funding_interval = 0
                             THEN TicksBy(n) + 1 ELSE TicksBy(n)
<1> DEFINE d == args.funding_interval
<1>1. d \in Nat BY ScenarioFields
<1>2. CASE d = 0
  BY <1>1, <1>2 DEF TicksBy
<1>3. CASE d # 0
  <2>1. \A m \in Nat : TicksBy(m) = (m + d - 1) \div d BY <1>3 DEF TicksBy
  <2> DEFINE q == n \div d
             r == n % d
  <2> HIDE DEF d
  <2>2. q \in Nat /\ r \in 0 .. d - 1 /\ q * d \in Nat /\ n = q * d + r
    <3>1. q \in Nat /\ r \in 0 .. d - 1 /\ n = d * q + r BY <1>1, <1>3
    <3>2. d * q = q * d /\ q * d \in Nat BY <1>1, <3>1
    <3> QED BY <3>1, <3>2
  <2> HIDE DEF q, r
  <2>3. (n + 1 + d - 1) \div d = q + 1
    <3>1. (q + 1) * d = q * d + d /\ q + 1 \in Nat /\ n + 1 + d - 1 \in Nat BY <1>1, <2>2
    <3> QED BY <1>1, <1>3, <2>2, <3>1, QuotientIs
  <2>4. (n + d - 1) \div d = IF r = 0 THEN q ELSE q + 1
    <3>1. n + d - 1 \in Nat BY <1>1, <1>3
    <3>2. CASE r = 0 BY <1>1, <1>3, <2>2, <3>1, <3>2, QuotientIs
    <3>3. CASE r # 0
      <4>1. (q + 1) * d = q * d + d /\ q + 1 \in Nat BY <1>1, <2>2
      <4> QED BY <1>1, <1>3, <2>2, <3>1, <3>3, <4>1, QuotientIs
    <3> QED BY <3>2, <3>3
  <2>5. (0 + d - 1) \div d = 0
    <3>1. 0 + d - 1 \in Nat /\ 0 * d = 0 BY <1>1, <1>3
    <3> QED BY <1>1, <1>3, <3>1, QuotientIs
  <2>6. n > 0 => q > 0 \/ r # 0
    <3>1. q = 0 => q * d = 0 BY <1>1
    <3> QED BY <2>2, <3>1
  <2>7. /\ TicksBy(n + 1) = q + 1 /\ TicksBy(0) = 0
        /\ TicksBy(n) = IF r = 0 THEN q ELSE q + 1
    BY <2>1, <2>3, <2>4, <2>5
  <2>8. d = args.funding_interval /\ r = n % args.funding_interval BY DEF d, r
  <2>9. d > 0 BY <1>1, <1>3
  <2>10. TicksBy(n) \in Nat /\ (n > 0 => TicksBy(n) > 0) BY <2>2, <2>6, <2>7
  <2>11. TicksBy(n + 1) = IF r = 0 THEN TicksBy(n) + 1 ELSE TicksBy(n) BY <2>2, <2>7
  <2> QED BY <2>7, <2>8, <2>9, <2>10, <2>11
<1> QED BY <1>2, <1>3

MissingNow(l) == IF l \in {"open_upsert", "liq_settle", "liq_count"} THEN 1 ELSE 0

(* Every account opened is in the book or was liquidated, but for the one  *)
(* that a command is bringing in or has just taken out.                    *)
Headcount == Cardinality(OpenKeys) + stats.liquidations + MissingNow(pc[Client]) = opened

CountedOpen == stats.open_positions + OpeningNow(pc[Client])
                 = Cardinality(OpenKeys) + TakenNow(pc[Client])

BookPlace ==
  /\ \A k \in OpenKeys : k[2] = SimSymbol
  /\ pc[Client] = "open_upsert" => positions[req[Client].cur.key] = None
  /\ at = "start" => OpenKeys = {}

LossHasVictim ==
  /\ step = 0 => stats.liquidations = 0
  /\ stats.adl_events > 0 \/ pc[Client] = "liq_finish" => stats.liquidations > 0

(* The ticks whose settlements are counted.                                *)
TicksPaid == TicksBy(IF at = "sweep" /\ pc[Client] \notin Funds THEN step + 1 ELSE step)

Funded(settlements, n, ticks) ==
  /\ settlements \in n * ticks .. args.accounts * ticks
  /\ ticks > 0 => settlements >= args.accounts

AllFunded ==
  /\ Funded(stats.funding_settlements, Cardinality(OpenKeys), TicksPaid)
  /\ at = "fund" \/ pc[Client] \in Funds => FundingDue

TickCounted ==
  pc[Client] \in {"fund_upsert", "fund_count"} =>
    /\ TodoKeys \subseteq OpenKeys
    /\ Len(req[Client].evs) + Cardinality(TodoKeys) = Cardinality(OpenKeys)

Clear == at \in {"walk", "reported"} /\ pc[Client] \notin Sweeps =>
           \A k \in Keys : ~UnderwaterNow(k)

ReportTrue ==
  at = "reported" =>
    /\ step = args.steps
    /\ report = [survivors |-> Cardinality(OpenKeys),
                 liquidations |-> stats.liquidations,
                 adl_events |-> stats.adl_events,
                 funding_settlements |-> stats.funding_settlements,
                 insurance_end |-> insurance, final_price |-> price]

CountInv ==
  at \notin {"serving", "failed"} =>
    /\ Headcount /\ CountedOpen /\ BookPlace /\ LossHasVictim
    /\ AllFunded /\ TickCounted /\ Clear /\ ReportTrue

CountReady == /\ OneAtATime /\ TypeOK /\ RunInv /\ SimInv /\ SoloInv /\ TasksInOrder
              /\ BookFinite /\ CountInv /\ at \notin {"serving", "failed"}

LEMMA CountFacts ==
  ASSUME CountReady
  PROVE  /\ Cardinality(OpenKeys) \in Nat /\ opened \in Nat /\ step \in Nat /\ args \in Scenarios
         /\ stats \in [open_positions : Nat, liquidations : Nat,
                       funding_settlements : Nat, adl_events : Nat]
         /\ opened <= args.accounts /\ args.accounts \in Nat
         /\ TicksPaid \in Nat
         /\ Headcount /\ CountedOpen /\ BookPlace /\ LossHasVictim
         /\ AllFunded /\ TickCounted /\ Clear /\ ReportTrue
<1>1. args \in Scenarios BY DEF CountReady, RunInv
<1>2. step \in Nat BY DEF CountReady, RunInv
<1>3. TicksPaid \in Nat BY <1>1, <1>2, TicksCount DEF TicksPaid
<1>4. Cardinality(OpenKeys) \in Nat BY FS_CardinalityType DEF CountReady, BookFinite
<1> QED
  BY <1>1, <1>2, <1>3, <1>4, ScenarioFields DEF CountReady, RunInv, TypeOK, StateOK, CountInv

(* A step that leaves the book, the counters and the walk alone.           *)
LEMMA QuietCount ==
  ASSUME CountReady, UNCHANGED <<positions, stats, args, opened, step, at>>,
         MissingNow(pc'[Client]) = MissingNow(pc[Client]),
         OpeningNow(pc'[Client]) = OpeningNow(pc[Client]),
         TakenNow(pc'[Client]) = TakenNow(pc[Client]),
         pc'[Client] \notin {"open_upsert", "liq_finish"},
         pc'[Client] \in Funds <=> pc[Client] \in Funds,
         TickCounted', Clear', ReportTrue'
  PROVE  CountInv'
<1>1. /\ OpenKeys' = OpenKeys /\ TicksPaid' = TicksPaid /\ (FundingDue' <=> FundingDue)
      /\ \A m, n, k : Funded(m, n, k)' <=> Funded(m, n, k)
  BY DEF OpenKeys, TicksPaid, TicksBy, FundingDue, Funded
<1>2. Headcount' /\ CountedOpen'
  BY <1>1, CountFacts DEF Headcount, CountedOpen
<1>3. BookPlace' /\ LossHasVictim'
  BY <1>1, CountFacts DEF BookPlace, LossHasVictim
<1>4. AllFunded'
  BY <1>1, CountFacts DEF AllFunded, Funded
<1> QED BY <1>2, <1>3, <1>4 DEF CountInv

(* One more tick, paid by every position that is open.                     *)
LEMMA FundedTick ==
  ASSUME NEW f \in Nat, NEW n \in Nat, NEW k \in Nat, args.accounts \in Nat,
         n <= args.accounts, Funded(f, n, k), k = 0 => n = args.accounts
  PROVE  Funded(f + n, n, k + 1)
<1> DEFINE x == n * k
           y == args.accounts * k
<1>1. x \in Nat /\ y \in Nat BY ProductOrder
<1>2. n * (k + 1) = x + n /\ args.accounts * (k + 1) = y + args.accounts OBVIOUS
<1>3. f \in x .. y BY DEF Funded
<1>4. k > 0 => f >= args.accounts BY DEF Funded
<1> HIDE DEF x, y
<1>5. f + n \in (x + n) .. (y + args.accounts) BY <1>1, <1>3
<1>6. f + n >= args.accounts BY <1>4
<1> QED BY <1>2, <1>5, <1>6 DEF Funded

LEMMA FundedFewer ==
  ASSUME NEW f \in Nat, NEW n \in Nat, NEW m \in Nat, NEW k \in Nat, args.accounts \in Nat,
         m <= n, Funded(f, n, k)
  PROVE  Funded(f, m, k)
<1> DEFINE x == n * k
           y == m * k
           z == args.accounts * k
<1>1. x \in Nat /\ y \in Nat /\ z \in Nat /\ y <= x BY ProductOrder
<1>2. f \in x .. z BY DEF Funded
<1> HIDE DEF x, y, z
<1>3. f \in y .. z BY <1>1, <1>2
<1> QED BY <1>3 DEF Funded, y, z

(* The tick of a scenario's step comes to be counted.                      *)
LEMMA TickEnds ==
  ASSUME CountReady, UNCHANGED <<positions, args, opened, step, at>>,
         pc[Client] \in {"fund_scan", "fund_count"}, pc'[Client] \in {"idle", "publish"},
         stats' = [stats EXCEPT !.funding_settlements = @ + Cardinality(OpenKeys)]
  PROVE  CountInv'
<1> DEFINE n == Cardinality(OpenKeys)
           k == TicksPaid
<1>1. /\ OpenKeys' = OpenKeys /\ pc[Client] \in Funds /\ pc'[Client] \notin Funds
      /\ at = "sweep" /\ step < args.steps
  BY DEF OpenKeys, Funds, CountReady, SimInv, Sent, RunInv
<1>2. k = TicksBy(step) BY <1>1 DEF TicksPaid
<1>3. TicksPaid' = TicksBy(step + 1) BY <1>1 DEF TicksPaid, TicksBy
<1>4. FundingDue BY <1>1, CountFacts DEF AllFunded
<1>5. TicksPaid' = k + 1 BY <1>2, <1>3, <1>4, CountFacts, TicksCount DEF FundingDue
<1>6. n <= args.accounts
  BY CountFacts DEF Headcount, MissingNow
<1>7. k = 0 => n = args.accounts
  <2>1. k = 0 => step = 0
    <3>1. step > 0 /\ args.funding_interval > 0 => TicksBy(step) > 0
      BY CountFacts, TicksCount
    <3>2. args.funding_interval > 0 /\ step \in Nat BY <1>4, CountFacts DEF FundingDue
    <3> HIDE DEF k
    <3>3. step > 0 => k > 0 BY <1>2, <3>1, <3>2
    <3> QED BY <3>2, <3>3
  <2>2. step = 0 => stats.liquidations = 0 BY CountFacts DEF LossHasVictim
  <2>3. opened = args.accounts BY <1>1 DEF CountReady, RunInv
  <2>4. MissingNow(pc[Client]) = 0 BY DEF MissingNow
  <2> QED BY <2>1, <2>2, <2>3, <2>4, CountFacts DEF Headcount
<1>8. Funded(stats.funding_settlements + n, n, k + 1)
  BY <1>6, <1>7, CountFacts, FundedTick DEF AllFunded
<1>9. /\ stats'.funding_settlements = stats.funding_settlements + n
      /\ stats'.open_positions = stats.open_positions
      /\ stats'.liquidations = stats.liquidations
      /\ stats'.adl_events = stats.adl_events
  BY CountFacts
<1>10. AllFunded'
  <2>1. at' # "fund" BY <1>1
  <2> QED BY <1>1, <1>5, <1>8, <1>9, <2>1 DEF AllFunded, Funded
<1>11. Headcount' /\ CountedOpen'
  BY <1>1, <1>9, CountFacts DEF Headcount, CountedOpen, MissingNow, OpeningNow, TakenNow
<1>12. BookPlace' /\ LossHasVictim'
  BY <1>1, <1>9, CountFacts DEF BookPlace, LossHasVictim
<1>13. TickCounted' /\ Clear' /\ ReportTrue'
  BY <1>1 DEF TickCounted, Clear, ReportTrue
<1> QED BY <1>10, <1>11, <1>12, <1>13 DEF CountInv

LEMMA OpenUpsertCount ==
  ASSUME CountReady, Params.maintenance_margin_bps <= Params.initial_margin_bps,
         NEW t \in Tasks, OpenUpsert(t), UNCHANGED <<args, at, opened, step, price, report>>
  PROVE  CountInv'
<1> DEFINE j == opened - 1
           x == OfferedKey(j)
           p == PositionOf(SimOffer(j))
           n == Cardinality(OpenKeys)
<1>1. /\ t = Client /\ pc \in [Tasks -> Labels]
      /\ positions \in [Keys -> Position \cup {None}]
  BY SoloLocals DEF CountReady
<1>2. /\ pc[Client] = "open_upsert" /\ pc'[Client] = "open_count"
      /\ positions' = [positions EXCEPT ![req[Client].cur.key] = req[Client].cur.pos]
      /\ UNCHANGED <<markets, stats>>
  BY <1>1 DEF OpenUpsert, Goto
<1>3. /\ req[Client].cur = Offered(j) /\ MeetsInitialMargin(SimOffer(j))
      /\ at = "walk" /\ step = 0 /\ opened > 0
  BY <1>2 DEF CountReady, SimInv, Sent
<1>4. req[Client].cur.key = x /\ req[Client].cur.pos = p BY <1>3 DEF Offered
<1>5. j \in Nat /\ j < Len(AccountName) /\ StartMark \in Price /\ price = StartMark
      /\ args \in Scenarios
  BY <1>3, ScenarioFields, SimulationAssumption DEF CountReady, RunInv, Walking
<1>6. x \in Keys /\ x[2] = SimSymbol BY <1>5, OfferKey DEF OfferedKey
<1>7. /\ p \in Position /\ p # None /\ p.entry_price = StartMark /\ p.funding_paid = 0
      /\ p.posted_margin >= InitialMargin(p, p.entry_price, Params)
  <2>1. SimOffer(j) \in OpenCommand BY <1>5, OfferIsCommand
  <2>2. p \in Position
    BY <2>1, MathAssumption DEF OpenCommand, PositionOf, Position, Usd, UsdMin
  <2> QED
    BY <1>3, <2>2, NoneIsNone DEF PositionOf, SimOffer, StartMark, MeetsInitialMargin
<1> HIDE DEF x, p
<1>8. positions[x] = None BY <1>2, <1>4, CountFacts DEF BookPlace
<1>9. positions'[x] = p /\ \A k \in Keys \ {x} : positions'[k] = positions[k]
  BY <1>1, <1>2, <1>4, <1>6
<1>10. OpenKeys' = OpenKeys \cup {x} /\ x \notin OpenKeys
  BY <1>6, <1>7, <1>8, <1>9 DEF OpenKeys
<1>11. Cardinality(OpenKeys') = n + 1
  <2> HIDE DEF OpenKeys
  <2> QED BY <1>10, FS_AddElement DEF CountReady, BookFinite
<1>12. Headcount' /\ CountedOpen'
  BY <1>2, <1>11, CountFacts DEF Headcount, CountedOpen, MissingNow, OpeningNow, TakenNow
<1>13. BookPlace' /\ LossHasVictim'
  BY <1>2, <1>3, <1>6, <1>10, CountFacts DEF BookPlace, LossHasVictim
<1>14. AllFunded'
  <2>1. TicksPaid = 0 /\ TicksPaid' = 0
    BY <1>2, <1>3, <1>5, TicksCount DEF TicksPaid, TicksBy
  <2>2. \A m \in Nat : m * 0 = 0 OBVIOUS
  <2>3. stats.funding_settlements = 0
    BY <2>1, <2>2, CountFacts DEF AllFunded, Funded
  <2>5. pc'[Client] \notin Funds /\ at' # "fund" BY <1>2, <1>3 DEF Funds
  <2> QED BY <1>2, <1>11, <2>1, <2>2, <2>3, <2>5, CountFacts DEF AllFunded, Funded
<1>15. Clear'
  <2>1. markets[SimSymbol].mark_price = StartMark
    BY <1>3, <1>5 DEF CountReady, SimInv, MarketSet, Walking
  <2>2. ASSUME NEW k \in Keys, k = x PROVE ~UnderwaterNow(k)'
    <3>1. ~IsLiquidatable(p, StartMark, Params)
      <4>1. StartMark <= p.entry_price BY <1>5, <1>7, MathAssumption DEF Price
      <4>2. p.funding_paid <= 0 BY <1>7
      <4> QED BY <1>5, <1>7, <4>1, <4>2, GainsMeetMargin
    <3>2. positions'[k] = p /\ markets'[k[2]].mark_price = StartMark
      BY <1>2, <1>6, <1>9, <2>1, <2>2
    <3> QED BY <3>1, <3>2 DEF UnderwaterNow
  <2>3. ASSUME NEW k \in Keys \ {x} PROVE ~UnderwaterNow(k)'
    <3>1. ~UnderwaterNow(k)
      BY <1>2, <1>3, CountFacts DEF Clear, Sweeps
    <3> QED BY <1>2, <1>9, <3>1 DEF UnderwaterNow
  <2> QED BY <2>2, <2>3 DEF Clear
<1>16. TickCounted' /\ ReportTrue' BY <1>2, <1>3 DEF TickCounted, ReportTrue
<1> QED BY <1>12, <1>13, <1>14, <1>15, <1>16 DEF CountInv

LEMMA OpenCountCount ==
  ASSUME CountReady, NEW t \in Tasks, OpenCount(t),
         UNCHANGED <<args, at, opened, step, price, report>>
  PROVE  CountInv'
<1>1. t = Client /\ pc \in [Tasks -> Labels] BY SoloLocals DEF CountReady
<1>2. /\ pc[Client] = "open_count" /\ pc'[Client] \in {"idle", "publish"}
      /\ stats' = [stats EXCEPT !.open_positions = @ + 1]
      /\ UNCHANGED <<positions, markets>>
  BY <1>1 DEF OpenCount, CountOpened, Reply, Goto
<1>3. /\ stats'.open_positions = stats.open_positions + 1
      /\ stats'.liquidations = stats.liquidations
      /\ stats'.adl_events = stats.adl_events
      /\ stats'.funding_settlements = stats.funding_settlements
  BY <1>2, CountFacts
<1>4. OpenKeys' = OpenKeys /\ at = "walk" BY <1>2 DEF OpenKeys, CountReady, SimInv, Sent
<1>5. Headcount' /\ CountedOpen'
  BY <1>2, <1>3, <1>4, CountFacts DEF Headcount, CountedOpen, MissingNow, OpeningNow, TakenNow
<1>6. BookPlace' /\ LossHasVictim'
  BY <1>2, <1>3, <1>4, CountFacts DEF BookPlace, LossHasVictim
<1>7. AllFunded'
  BY <1>2, <1>3, <1>4, CountFacts DEF AllFunded, Funded, TicksPaid, TicksBy, Funds
<1>8. TickCounted' /\ ReportTrue' BY <1>2, <1>4 DEF TickCounted, ReportTrue
<1>9. Clear'
  BY <1>2, <1>4, CountFacts DEF Clear, UnderwaterNow, Sweeps
<1> QED BY <1>5, <1>6, <1>7, <1>8, <1>9 DEF CountInv

LEMMA FundScanCount ==
  ASSUME CountReady, NEW t \in Tasks, FundScan(t),
         UNCHANGED <<args, at, opened, step, price, report>>
  PROVE  CountInv'
<1> DEFINE v == req[Client].view
<1>1. /\ t = Client /\ pc \in [Tasks -> Labels] /\ req \in [Tasks -> Request]
      /\ req[t] \in Request
  BY SoloLocals DEF CountReady
<1>2. /\ pc[Client] = "fund_scan" /\ UNCHANGED <<positions, markets, stats>>
      /\ v.symbol = SimSymbol /\ at = "sweep"
  BY <1>1 DEF FundScan, CountReady, SimInv, Sent, HoldsView, Funds
<1>3. \A k \in OpenKeys : [key |-> k, pos |-> positions[k]] \in ByMarket(SimSymbol)
  BY CountFacts, ByMarketStored DEF BookPlace, OpenKeys
<1>4. CASE ByMarket(SimSymbol) = {}
  <2>1. pc'[Client] = "idle" BY <1>1, <1>2, <1>4 DEF FundScan, Reply, Goto
  <2>2. OpenKeys = {} BY <1>3, <1>4
  <2>3. Cardinality(OpenKeys) = 0 BY <2>2, FS_EmptySet
  <2>4. stats' = [stats EXCEPT !.funding_settlements = @ + Cardinality(OpenKeys)]
    BY <1>2, <2>3, CountFacts
  <2> QED BY <1>2, <2>1, <2>4, TickEnds
<1>5. CASE ByMarket(SimSymbol) # {}
  <2>1. /\ pc'[Client] = "fund_upsert" /\ req'[Client].todo = ByMarket(SimSymbol)
        /\ req'[Client].evs = req[Client].evs
    BY <1>1, <1>2, <1>5 DEF FundScan, Goto, Request
  <2>2. req[Client].evs = <<>>
    BY <1>1, <1>2, NothingHeld DEF HoldsNoEvents, CountReady
  <2>3. TodoKeys' = OpenKeys /\ OpenKeys' = OpenKeys
    <3>1. \A k \in OpenKeys : \E e \in ByMarket(SimSymbol) : e.key = k
      <4> TAKE k \in OpenKeys
      <4> DEFINE e == [key |-> k, pos |-> positions[k]]
      <4>1. e \in ByMarket(SimSymbol) /\ e.key = k BY <1>3
      <4> QED BY <4>1
    <3>2. \A e \in ByMarket(SimSymbol) : e.key \in OpenKeys
      BY ByMarketStored DEF OpenKeys
    <3> QED BY <1>2, <2>1, <3>1, <3>2 DEF TodoKeys, OpenKeys
  <2>4. TickCounted'
    <3>1. Len(req'[Client].evs) = 0 BY <2>1, <2>2
    <3> HIDE DEF OpenKeys, TodoKeys
    <3> QED BY <2>3, <3>1, CountFacts DEF TickCounted
  <2>5. Clear' /\ ReportTrue' BY <1>2 DEF Clear, ReportTrue
  <2> QED
    BY <1>2, <2>1, <2>4, <2>5, QuietCount DEF MissingNow, OpeningNow, TakenNow, Funds
<1> QED BY <1>4, <1>5

LEMMA FundUpsertCount ==
  ASSUME CountReady, NEW t \in Tasks, FundUpsert(t),
         UNCHANGED <<args, at, opened, step, price, report>>
  PROVE  CountInv'
<1>1. /\ t = Client /\ pc \in [Tasks -> Labels] /\ req \in [Tasks -> Request]
      /\ req[t] \in Request /\ req[t].evs \in Seq(Event)
      /\ positions \in [Keys -> Position \cup {None}] /\ TypeOK
  BY SoloLocals, Held DEF CountReady
<1>2. PICK e \in req[t].todo :
        LET payment == FundingPayment(e.pos, req[t].view.mark_price,
                                      req[t].view.funding_rate_bps)
        IN  /\ positions' = [positions EXCEPT ![e.key] = Settled(e.pos, payment)]
            /\ req' = [req EXCEPT ![t].todo = req[t].todo \ {e},
                 ![t].evs = Append(@, [type |-> "FundingSettled", key |-> e.key,
                                       amount |-> payment])]
            /\ Goto(t, IF req[t].todo \ {e} = {} THEN "fund_count" ELSE "fund_upsert")
  BY DEF FundUpsert
<1> DEFINE payment == FundingPayment(e.pos, req[t].view.mark_price,
                                     req[t].view.funding_rate_bps)
           ev == [type |-> "FundingSettled", key |-> e.key, amount |-> payment]
           new == Settled(e.pos, payment)
<1>3. /\ req'[t].todo = req[t].todo \ {e} /\ req'[t].evs = Append(req[t].evs, ev)
      /\ pc[Client] = "fund_upsert" /\ pc'[Client] \in {"fund_upsert", "fund_count"}
      /\ stats' = stats
  <2>1. pc[Client] = "fund_upsert" /\ stats' = stats BY <1>1 DEF FundUpsert
  <2>2. pc'[Client] \in {"fund_upsert", "fund_count"} BY <1>1, <1>2 DEF Goto
  <2>3. req'[t].todo = req[t].todo \ {e} BY <1>1, <1>2 DEF Request
  <2>4. req'[t].evs = Append(req[t].evs, ev) BY <1>1, <1>2 DEF Request
  <2> QED BY <2>1, <2>2, <2>3, <2>4
<1>4. /\ e \in Snapshot /\ e.key \in Keys /\ e.pos \in Position
      /\ positions[e.key] = e.pos /\ e.pos # None
  <2>1. e \in Snapshot BY <1>1, <1>2, SoloLocals DEF CountReady
  <2> QED BY <1>1, <1>2, <2>1 DEF CountReady, SoloInv, TodoStored, Snapshot
<1>5. new # None
  <2>1. req[t].view \in View BY <1>1, <1>3, Held DEF HoldsView, CountReady
  <2>2. payment \in Usd BY <1>4, <2>1, FundingType DEF View
  <2>3. new \in Position BY <1>4, <2>2, SettledType
  <2> QED BY <2>3, NoneIsNone
<1> HIDE DEF payment, new
<1>6. positions' = [positions EXCEPT ![e.key] = new] BY <1>2 DEF new, payment
<1>7. OpenKeys' = OpenKeys
  BY <1>1, <1>4, <1>5, <1>6 DEF OpenKeys
<1>8. TodoKeys' = TodoKeys \ {e.key} /\ e.key \in TodoKeys
  <2>1. \A d \in req[t].todo : d # e => d.key # e.key
    BY <1>1, <1>2, TodoDistinct DEF CountReady
  <2> QED BY <1>1, <1>2, <1>3, <1>4, <2>1 DEF TodoKeys
<1>9. Len(req'[t].evs) = Len(req[t].evs) + 1 /\ Len(req[t].evs) \in Nat
  <2> HIDE DEF ev
  <2> QED BY <1>1, <1>3
<1>10. /\ TodoKeys \subseteq OpenKeys
       /\ Len(req[t].evs) + Cardinality(TodoKeys) = Cardinality(OpenKeys)
  BY <1>1, <1>3, CountFacts DEF TickCounted
<1>11. TickCounted'
  <2> HIDE DEF OpenKeys, TodoKeys
  <2>1. IsFiniteSet(TodoKeys)
    BY <1>10, FS_Subset DEF CountReady, BookFinite
  <2>2. Cardinality(TodoKeys') = Cardinality(TodoKeys) - 1 /\ Cardinality(TodoKeys) \in Nat
    BY <1>8, <2>1, FS_RemoveElement, FS_CardinalityType
  <2>3. Len(req'[t].evs) + Cardinality(TodoKeys') = Cardinality(OpenKeys')
    BY <1>7, <1>9, <1>10, <2>2
  <2> QED BY <1>1, <1>7, <1>8, <1>10, <2>3 DEF TickCounted
<1>12. Clear' /\ ReportTrue'
  BY <1>3 DEF Clear, ReportTrue, CountReady, SimInv, Sent, Funds
<1> HIDE DEF ev
<1>13. OpenKeys' = OpenKeys /\ TicksPaid' = TicksPaid /\ (FundingDue' <=> FundingDue)
  BY <1>3, <1>7 DEF TicksPaid, TicksBy, FundingDue, Funds
<1>14. Headcount' /\ CountedOpen'
  BY <1>3, <1>13, CountFacts DEF Headcount, CountedOpen, MissingNow, OpeningNow, TakenNow
<1>15. BookPlace' /\ LossHasVictim'
  BY <1>3, <1>13, CountFacts DEF BookPlace, LossHasVictim
<1>16. AllFunded'
  BY <1>3, <1>13, CountFacts DEF AllFunded, Funded, Funds
<1> QED BY <1>11, <1>12, <1>14, <1>15, <1>16 DEF CountInv

LEMMA FundCountCount ==
  ASSUME CountReady, NEW t \in Tasks, FundCount(t),
         UNCHANGED <<args, at, opened, step, price, report>>
  PROVE  CountInv'
<1>1. t = Client /\ pc \in [Tasks -> Labels] BY SoloLocals DEF CountReady
<1>2. /\ pc[Client] = "fund_count" /\ pc'[Client] \in {"idle", "publish"}
      /\ stats' = [stats EXCEPT !.funding_settlements = @ + Len(req[Client].evs)]
      /\ positions' = positions
  BY <1>1 DEF FundCount, Reply, Goto
<1>3. TodoKeys = {}
  BY <1>2 DEF CountReady, SoloInv, TodoEmpty, TodoKeys
<1>4. Len(req[Client].evs) = Cardinality(OpenKeys)
  <2>1. Cardinality(TodoKeys) = 0 BY <1>3, FS_EmptySet
  <2>2. Len(req[Client].evs) + Cardinality(TodoKeys) = Cardinality(OpenKeys)
    BY <1>2, CountFacts DEF TickCounted
  <2>3. Len(req[Client].evs) \in Nat
    <3>1. req[Client].evs \in Seq(Event) BY <1>1, Held DEF CountReady
    <3> QED BY <3>1
  <2> HIDE DEF OpenKeys, TodoKeys
  <2> QED BY <2>1, <2>2, <2>3, CountFacts
<1> QED BY <1>2, <1>4, TickEnds

(* A sweep that ends has cleared the market.                               *)
LEMMA SweepEndsClear ==
  ASSUME CountReady, NEW t \in Tasks, Continue(t), pc[t] \in {"liq_scan", "liq_finish"},
         pc'[t] \in {"idle", "publish"}, UNCHANGED <<positions, markets>>
  PROVE  Clear'
<1>1. t = Client /\ req[t].view.symbol = SimSymbol
  BY SoloLocals DEF CountReady, SimInv, Sent, HoldsView
<1>2. ASSUME NEW k \in Keys PROVE ~UnderwaterNow(k)
  <2>1. CASE k[2] = SimSymbol
    BY <1>1, <2>1, SweepLeavesClear DEF SweepEnds, CountReady
  <2>2. CASE k[2] # SimSymbol
    BY <2>2, CountFacts DEF BookPlace, OpenKeys, UnderwaterNow
  <2> QED BY <2>1, <2>2
<1> QED BY <1>2 DEF Clear, UnderwaterNow

LEMMA LiqScanCount ==
  ASSUME CountReady, NEW t \in Tasks, LiqScan(t),
         UNCHANGED <<args, at, opened, step, price, report>>
  PROVE  CountInv'
<1>1. t = Client /\ pc \in [Tasks -> Labels] BY SoloLocals DEF CountReady
<1>2. /\ pc[Client] = "liq_scan" /\ pc'[Client] \in {"idle", "liq_remove"}
      /\ UNCHANGED <<positions, markets, stats>>
  BY <1>1 DEF LiqScan, Reply, Goto
<1>3. at = "walk" BY <1>2 DEF CountReady, SimInv, Sent, Sweeps
<1>4. Clear'
  <2>1. CASE pc'[Client] = "idle"
    BY <1>1, <1>2, <2>1, SweepEndsClear DEF Continue
  <2>2. CASE pc'[Client] = "liq_remove"
    BY <2>2 DEF Clear, Sweeps
  <2> QED BY <1>2, <2>1, <2>2
<1>5. TickCounted' /\ ReportTrue' BY <1>2, <1>3 DEF TickCounted, ReportTrue
<1> QED
  BY <1>2, <1>4, <1>5, QuietCount DEF MissingNow, OpeningNow, TakenNow, Funds

LEMMA LiqRemoveCount ==
  ASSUME CountReady, NEW t \in Tasks, LiqRemove(t),
         UNCHANGED <<args, at, opened, step, price, report>>
  PROVE  CountInv'
<1> DEFINE n == Cardinality(OpenKeys)
<1>1. t = Client /\ pc \in [Tasks -> Labels] BY SoloLocals DEF CountReady
<1>2. /\ pc[Client] = "liq_remove" /\ pc'[Client] = "liq_settle" /\ stats' = stats
  BY <1>1 DEF LiqRemove, Goto
<1>3. PICK e \in req[t].todo :
         /\ e.key \in Keys /\ positions'[e.key] = None
         /\ \A k \in Keys \ {e.key} : positions'[k] = positions[k]
  BY LiqRemoveStep DEF CountReady
<1>4. positions[e.key] # None BY <1>1, <1>3 DEF CountReady, SoloInv, TodoStored
<1>5. OpenKeys' = OpenKeys \ {e.key} /\ Cardinality(OpenKeys') + 1 = n
      /\ Cardinality(OpenKeys') \in Nat
  BY <1>3, <1>4, OpenKeysStep DEF CountReady, BookFinite
<1>6. at = "walk" BY <1>2 DEF CountReady, SimInv, Sent, Sweeps
<1>7. Headcount' /\ CountedOpen'
  BY <1>2, <1>5, CountFacts DEF Headcount, CountedOpen, MissingNow, OpeningNow, TakenNow
<1>8. BookPlace' /\ LossHasVictim'
  BY <1>2, <1>5, <1>6, CountFacts DEF BookPlace, LossHasVictim
<1>9. AllFunded'
  <2>1. TicksPaid' = TicksPaid BY <1>2, <1>6 DEF TicksPaid, TicksBy
  <2>2. Cardinality(OpenKeys') <= n BY <1>5, CountFacts
  <2>3. Funded(stats.funding_settlements, Cardinality(OpenKeys'), TicksPaid)
    BY <1>5, <2>2, CountFacts, FundedFewer DEF AllFunded
  <2> QED BY <1>2, <1>6, <2>1, <2>3 DEF AllFunded, Funded, Funds
<1>10. TickCounted' /\ ReportTrue' /\ Clear'
  BY <1>2, <1>6 DEF TickCounted, ReportTrue, Clear, Sweeps
<1> QED BY <1>7, <1>8, <1>9, <1>10 DEF CountInv

LEMMA LiqSettleCount ==
  ASSUME CountReady, NEW t \in Tasks, LiqSettle(t),
         UNCHANGED <<args, at, opened, step, price, report>>
  PROVE  CountInv'
<1>1. t = Client /\ pc \in [Tasks -> Labels] BY SoloLocals DEF CountReady
<1>2. /\ pc[Client] = "liq_settle" /\ pc'[Client] = "liq_count"
      /\ UNCHANGED <<positions, stats>>
  BY <1>1 DEF LiqSettle, Goto
<1>3. at = "walk" BY <1>2 DEF CountReady, SimInv, Sent, Sweeps
<1>4. TickCounted' /\ ReportTrue' /\ Clear'
  BY <1>2, <1>3 DEF TickCounted, ReportTrue, Clear, Sweeps
<1> QED
  BY <1>2, <1>4, QuietCount DEF MissingNow, OpeningNow, TakenNow, Funds

LEMMA LiqCountCount ==
  ASSUME CountReady, NEW t \in Tasks, LiqCount(t),
         UNCHANGED <<args, at, opened, step, price, report>>
  PROVE  CountInv'
<1>1. t = Client /\ pc \in [Tasks -> Labels] BY SoloLocals DEF CountReady
<1>2. /\ pc[Client] = "liq_count" /\ pc'[Client] \in {"liq_remove", "liq_finish"}
      /\ stats' = [stats EXCEPT !.open_positions = CountRemoved, !.liquidations = @ + 1]
      /\ positions' = positions
  BY <1>1 DEF LiqCount, Goto
<1>3. /\ stats'.liquidations = stats.liquidations + 1
      /\ stats'.open_positions = CountRemoved
      /\ stats'.adl_events = stats.adl_events
      /\ stats'.funding_settlements = stats.funding_settlements
  BY <1>2, CountFacts
<1>4. OpenKeys' = OpenKeys /\ at = "walk" /\ step > 0
  BY <1>2 DEF OpenKeys, CountReady, SimInv, Sent, Sweeps
<1>5. stats.open_positions = Cardinality(OpenKeys) + 1
  BY <1>2, CountFacts DEF CountedOpen, OpeningNow, TakenNow
<1>6. stats'.open_positions = Cardinality(OpenKeys)
  BY <1>3, <1>5, CountFacts DEF CountRemoved
<1>7. Headcount' /\ CountedOpen'
  BY <1>2, <1>3, <1>4, <1>6, CountFacts
     DEF Headcount, CountedOpen, MissingNow, OpeningNow, TakenNow
<1>8. BookPlace' /\ LossHasVictim'
  BY <1>2, <1>3, <1>4, CountFacts DEF BookPlace, LossHasVictim
<1>9. AllFunded'
  BY <1>2, <1>3, <1>4, CountFacts DEF AllFunded, Funded, TicksPaid, TicksBy, Funds
<1>10. TickCounted' /\ ReportTrue' /\ Clear'
  BY <1>2, <1>4 DEF TickCounted, ReportTrue, Clear, Sweeps
<1> QED BY <1>7, <1>8, <1>9, <1>10 DEF CountInv

LEMMA LiqFinishCount ==
  ASSUME CountReady, NEW t \in Tasks, LiqFinish(t),
         UNCHANGED <<args, at, opened, step, price, report>>
  PROVE  CountInv'
<1>1. t = Client /\ pc \in [Tasks -> Labels] BY SoloLocals DEF CountReady
<1>2. /\ pc[Client] = "liq_finish" /\ pc'[Client] \in {"idle", "publish"}
      /\ stats' = stats \/ stats' = [stats EXCEPT !.adl_events = @ + 1]
      /\ UNCHANGED <<positions, markets>>
  BY <1>1 DEF LiqFinish, Reply, Goto
<1>3. /\ stats'.liquidations = stats.liquidations
      /\ stats'.open_positions = stats.open_positions
      /\ stats'.funding_settlements = stats.funding_settlements
  BY <1>2, CountFacts
<1>4. OpenKeys' = OpenKeys /\ at = "walk" /\ stats.liquidations > 0
  BY <1>2, CountFacts DEF OpenKeys, CountReady, SimInv, Sent, Sweeps, LossHasVictim
<1>5. Headcount' /\ CountedOpen'
  BY <1>2, <1>3, <1>4, CountFacts
     DEF Headcount, CountedOpen, MissingNow, OpeningNow, TakenNow
<1>6. BookPlace' /\ LossHasVictim'
  BY <1>2, <1>3, <1>4, CountFacts DEF BookPlace, LossHasVictim
<1>7. AllFunded'
  BY <1>2, <1>3, <1>4, CountFacts DEF AllFunded, Funded, TicksPaid, TicksBy, Funds
<1>8. TickCounted' /\ ReportTrue' BY <1>2, <1>4 DEF TickCounted, ReportTrue
<1>9. Clear' BY <1>1, <1>2, SweepEndsClear DEF Continue
<1> QED BY <1>5, <1>6, <1>7, <1>8, <1>9 DEF CountInv

LEMMA PublishCount ==
  ASSUME CountReady, NEW t \in Tasks, Publish(t),
         UNCHANGED <<args, at, opened, step, price, report>>
  PROVE  CountInv'
<1>1. t = Client /\ pc \in [Tasks -> Labels] BY SoloLocals DEF CountReady
<1>2. /\ pc[Client] = "publish" /\ pc'[Client] \in {"idle", "publish"}
      /\ UNCHANGED <<positions, markets, stats, insurance>>
  BY <1>1 DEF Publish, Abandon, Goto
<1>3. at # "reported" BY <1>2 DEF CountReady, SimInv, Resting
<1>4. TickCounted' /\ ReportTrue' BY <1>2, <1>3 DEF TickCounted, ReportTrue
<1>5. Clear' BY <1>2, CountFacts DEF Clear, UnderwaterNow, Sweeps
<1> QED
  BY <1>2, <1>4, <1>5, QuietCount DEF MissingNow, OpeningNow, TakenNow, Funds

(* A step of the simulator that sends or ends nothing that counts.         *)
LEMMA WalkCount ==
  ASSUME CountReady, UNCHANGED <<positions, stats, args, opened>>, pc[Client] = "idle",
         MissingNow(pc'[Client]) = 0, OpeningNow(pc'[Client]) = 0, TakenNow(pc'[Client]) = 0,
         pc'[Client] \notin {"open_upsert", "liq_finish", "fund_upsert", "fund_count"},
         at' # "start", step' \in Nat, step' = 0 => step = 0,
         TicksPaid' = TicksPaid,
         at' = "fund" \/ pc'[Client] \in Funds => FundingDue',
         Clear', ReportTrue'
  PROVE  CountInv'
<1>1. OpenKeys' = OpenKeys /\ \A m, n, k : Funded(m, n, k)' <=> Funded(m, n, k)
  BY DEF OpenKeys, Funded
<1>2. Headcount' /\ CountedOpen'
  BY <1>1, CountFacts DEF Headcount, CountedOpen, MissingNow, OpeningNow, TakenNow
<1>3. BookPlace' /\ LossHasVictim'
  BY <1>1, CountFacts DEF BookPlace, LossHasVictim
<1>4. AllFunded' /\ TickCounted'
  BY <1>1, CountFacts DEF AllFunded, TickCounted, Funded
<1> QED BY <1>2, <1>3, <1>4 DEF CountInv

LEMMA ContinueCounts ==
  ASSUME CountReady, Params.maintenance_margin_bps <= Params.initial_margin_bps,
         NEW t \in Tasks, Serviced(t)
  PROVE  CountInv'
<1>1. /\ Continue(t) /\ UNCHANGED <<args, at, opened, step, price, report>> /\ t = Client
  BY OnlyClient DEF Serviced, simulator, CountReady
<1>2. ~CloseMark(t) /\ ~CloseCount(t)
  BY <1>1 DEF CloseMark, CloseCount, CountReady, SimInv, Sent
<1> QED
  BY <1>1, <1>2, OpenUpsertCount, OpenCountCount, FundScanCount, FundUpsertCount, FundCountCount,
     LiqScanCount, LiqRemoveCount, LiqSettleCount, LiqCountCount, LiqFinishCount, PublishCount
     DEF Continue

LEMMA SimStartCount ==
  ASSUME CountReady, NEW t \in Tasks, SimStart(t), ~SimFail
  PROVE  CountInv'
<1>1. /\ StartMark \in Price /\ SetMarket(t, StartMark) /\ at = "start" /\ Quiescent
      /\ at' = "walk" /\ UNCHANGED <<args, opened, step, report>>
  BY DEF SimStart, StartMark, Turn
<1>2. pc[Client] = "idle" /\ pc'[Client] = "publish" /\ UNCHANGED <<positions, stats>>
  BY <1>1, NoClient, SetMarketEffect DEF CountReady
<1>3. OpenKeys = {} BY <1>1, CountFacts DEF BookPlace
<1>4. Clear' BY <1>2, <1>3 DEF Clear, OpenKeys, UnderwaterNow
<1>5. TicksPaid' = TicksPaid /\ ReportTrue' BY <1>1 DEF TicksPaid, TicksBy, ReportTrue
<1> QED
  BY <1>1, <1>2, <1>4, <1>5, CountFacts, WalkCount
     DEF MissingNow, OpeningNow, TakenNow, Funds

LEMMA SimOpenCount ==
  ASSUME CountReady, NEW t \in Tasks, SimOpen(t), ~SimFail
  PROVE  CountInv'
<1>1. /\ OpenGet(t, SimOffer(opened)) /\ opened' = opened + 1 /\ at = "walk" /\ Quiescent
      /\ UNCHANGED <<args, at, step, price, report>> /\ opened < args.accounts
  BY DEF SimOpen, Turn
<1>2. /\ t = Client /\ pc \in [Tasks -> Labels] /\ req \in [Tasks -> Request]
      /\ req[t] \in Request /\ pc[Client] = "idle"
  BY <1>1, NoClient, SoloLocals DEF CountReady
<1>3. /\ pc'[Client] = "open_upsert" /\ UNCHANGED <<positions, markets, stats>>
      /\ req'[Client].cur.key = SimOffer(opened).key /\ positions[SimOffer(opened).key] = None
  BY <1>1, <1>2 DEF OpenGet, Goto, Request
<1>4. OpenKeys' = OpenKeys BY <1>3 DEF OpenKeys
<1>5. Headcount' /\ CountedOpen'
  BY <1>1, <1>2, <1>3, <1>4, CountFacts DEF Headcount, CountedOpen, MissingNow, OpeningNow, TakenNow
<1>6. BookPlace' /\ LossHasVictim'
  BY <1>1, <1>3, <1>4, CountFacts DEF BookPlace, LossHasVictim
<1>7. AllFunded' /\ TickCounted'
  <2>1. TicksPaid' = TicksPaid BY <1>1 DEF TicksPaid, TicksBy
  <2> QED BY <1>1, <1>2, <1>3, <1>4, <2>1, CountFacts DEF AllFunded, Funded, TickCounted, Funds
<1>8. Clear' /\ ReportTrue'
  BY <1>1, <1>2, <1>3, CountFacts DEF Clear, ReportTrue, UnderwaterNow, Sweeps
<1> QED BY <1>5, <1>6, <1>7, <1>8 DEF CountInv

LEMMA SimStepCount ==
  ASSUME CountReady, NEW t \in Tasks, SimStep(t), ~SimFail
  PROVE  CountInv'
<1>1. /\ at = "walk" /\ Quiescent /\ UNCHANGED <<args, opened, step, report>>
      /\ at' = IF FundingDue THEN "fund" ELSE "sweep"
      /\ \E noise : NextPrice(noise) \in Price /\ SetMarket(t, NextPrice(noise))
  BY DEF SimStep, Booked, Turn
<1>2. pc[Client] = "idle" /\ pc'[Client] = "publish" /\ UNCHANGED <<positions, stats>>
  BY <1>1, NoClient, SetMarketEffect DEF CountReady
<1>3. Clear' /\ ReportTrue' BY <1>1 DEF Clear, ReportTrue
<1>4. TicksPaid' = TicksPaid
  <2>1. TicksPaid = TicksBy(step) BY <1>1 DEF TicksPaid
  <2>2. CASE FundingDue BY <1>1, <2>1, <2>2 DEF TicksPaid, TicksBy
  <2>3. CASE ~FundingDue
    <3>1. TicksBy(step + 1) = TicksBy(step)
      BY <2>3, CountFacts, TicksCount DEF FundingDue
    <3>2. TicksPaid' = TicksBy(step + 1) BY <1>1, <1>2, <2>3 DEF TicksPaid, TicksBy, Funds
    <3> QED BY <2>1, <3>1, <3>2
  <2> QED BY <2>2, <2>3
<1>5. at' = "fund" => FundingDue' BY <1>1 DEF FundingDue
<1> QED
  BY <1>1, <1>2, <1>3, <1>4, <1>5, CountFacts, WalkCount
     DEF MissingNow, OpeningNow, TakenNow, Funds

LEMMA SimFundCount ==
  ASSUME CountReady, NEW t \in Tasks, SimFund(t)
  PROVE  CountInv'
<1>1. /\ at = "fund" /\ Quiescent /\ at' = "sweep" /\ FundMarket(t, SimSymbol)
      /\ UNCHANGED <<args, opened, step, report>>
  BY DEF SimFund, Turn
<1>2. /\ pc[Client] = "idle" /\ pc'[Client] = "fund_scan" /\ UNCHANGED <<positions, stats>>
  BY <1>1, NoClient, SoloLocals DEF CountReady, FundMarket, Goto
<1>3. Clear' /\ ReportTrue' BY <1>1 DEF Clear, ReportTrue
<1>4. TicksPaid' = TicksPaid BY <1>1, <1>2 DEF TicksPaid, TicksBy, Funds
<1>5. FundingDue' BY <1>1, CountFacts DEF AllFunded, FundingDue
<1> QED
  BY <1>1, <1>2, <1>3, <1>4, <1>5, CountFacts, WalkCount DEF MissingNow, OpeningNow, TakenNow

LEMMA SimSweepCount ==
  ASSUME CountReady, NEW t \in Tasks, SimSweep(t)
  PROVE  CountInv'
<1>1. /\ at = "sweep" /\ Quiescent /\ at' = "walk" /\ LiqMarket(t, SimSymbol)
      /\ step' = step + 1 /\ UNCHANGED <<args, opened, report>>
  BY DEF SimSweep, Turn
<1>2. /\ pc[Client] = "idle" /\ pc'[Client] = "liq_scan" /\ UNCHANGED <<positions, stats>>
  BY <1>1, NoClient, SoloLocals DEF CountReady, LiqMarket, Goto
<1>3. Clear' /\ ReportTrue' BY <1>1, <1>2 DEF Clear, ReportTrue, Sweeps
<1>4. TicksPaid' = TicksPaid BY <1>1, <1>2 DEF TicksPaid, TicksBy, Funds
<1>5. step' \in Nat /\ step' # 0 BY <1>1, CountFacts
<1> QED
  BY <1>1, <1>2, <1>3, <1>4, <1>5, WalkCount DEF MissingNow, OpeningNow, TakenNow, Funds

(* by_market finds every position that is open.                            *)
LEMMA BookOfMarket ==
  ASSUME CountReady
  PROVE  Cardinality(ByMarket(SimSymbol)) = Cardinality(OpenKeys)
<1> DEFINE f == [k \in OpenKeys |-> [key |-> k, pos |-> positions[k]]]
<1>1. \A k \in OpenKeys : f[k] \in ByMarket(SimSymbol)
  BY CountFacts, ByMarketStored DEF BookPlace, OpenKeys
<1>2. \A e \in ByMarket(SimSymbol) : e.key \in OpenKeys /\ f[e.key] = e
  BY DEF ByMarket, OpenKeys
<1>3. \A j, k \in OpenKeys : f[j] = f[k] => j = k
  <2>1. \A k \in OpenKeys : f[k].key = k OBVIOUS
  <2> QED BY <2>1
<1>4. f \in Bijection(OpenKeys, ByMarket(SimSymbol))
  <2>1. f \in [OpenKeys -> ByMarket(SimSymbol)] BY <1>1
  <2> HIDE DEF f
  <2> QED BY <1>2, <1>3, <2>1 DEF Bijection, Injection, Surjection, IsInjective
<1>5. ExistsBijection(OpenKeys, ByMarket(SimSymbol)) BY <1>4 DEF ExistsBijection
<1> QED BY <1>5, FS_Bijection DEF CountReady, BookFinite

LEMMA SimReportCount ==
  ASSUME CountReady, SimReport
  PROVE  CountInv'
<1>1. /\ at = "walk" /\ Quiescent /\ at' = "reported" /\ step = args.steps
      /\ UNCHANGED <<vars, args, opened, step, price>>
      /\ report' = [survivors |-> Cardinality(ByMarket(SimSymbol)),
                    liquidations |-> stats.liquidations,
                    adl_events |-> stats.adl_events,
                    funding_settlements |-> stats.funding_settlements,
                    insurance_end |-> insurance, final_price |-> price]
  BY DEF SimReport, Booked, Turn
<1>2. pc[Client] = "idle" /\ pc'[Client] = "idle" /\ UNCHANGED <<positions, markets, stats, insurance>>
  BY <1>1, NoClient DEF CountReady, vars
<1>3. Clear' BY <1>1, <1>2, CountFacts DEF Clear, UnderwaterNow, Sweeps
<1>4. ReportTrue'
  <2>1. OpenKeys' = OpenKeys BY <1>2 DEF OpenKeys
  <2> QED BY <1>1, <1>2, <2>1, BookOfMarket DEF ReportTrue
<1>5. TicksPaid' = TicksPaid BY <1>1, <1>2 DEF TicksPaid, TicksBy
<1> QED
  BY <1>1, <1>2, <1>3, <1>4, <1>5, CountFacts, WalkCount
     DEF MissingNow, OpeningNow, TakenNow, Funds

LEMMA CountStays ==
  ASSUME CountInv, UNCHANGED <<vars, simulator>>
  PROVE  CountInv'
<1>1. /\ OpenKeys' = OpenKeys /\ TodoKeys' = TodoKeys /\ TicksPaid' = TicksPaid
      /\ (FundingDue' <=> FundingDue)
  BY DEF OpenKeys, TodoKeys, TicksPaid, TicksBy, FundingDue, vars, simulator
<1>2. UNCHANGED <<positions, markets, insurance, stats, pc, req, args, at, opened, step, price, report>>
  BY DEF vars, simulator
<1> QED
  BY <1>1, <1>2 DEF CountInv, Headcount, CountedOpen, BookPlace, LossHasVictim, AllFunded, Funded,
     TickCounted, Clear, UnderwaterNow, ReportTrue

LEMMA CountStep ==
  ASSUME OneAtATime, Params.maintenance_margin_bps <= Params.initial_margin_bps, TypeOK,
         RunInv, SimInv, SoloInv, TasksInOrder, BookFinite, CountInv, [RunNext]_runVars
  PROVE  CountInv'
<1>1. CASE at \in {"serving", "failed"}
  <2>1. at' = at \/ at' = "failed"
    BY <1>1 DEF RunNext, runVars, simulator, Simulate, Serve, Serviced, SimStart, SimOpen, SimStep,
       SimFund, SimSweep, SimReport, SimThrottled, SimFail, RunOver, Booked, Turn
  <2> QED BY <1>1, <2>1 DEF CountInv
<1>2. CASE at \notin {"serving", "failed"}
  <2>1. CountReady BY <1>2 DEF CountReady
  <2>2. CASE SimFail BY <2>2 DEF SimFail, CountInv
  <2>3. CASE RunOver \/ UNCHANGED runVars
    BY <2>3, CountStays DEF RunOver, runVars
  <2>4. ASSUME NEW t \in Tasks, Serve(t) PROVE FALSE BY <1>2, <2>4 DEF Serve, Turn
  <2> QED
    BY <2>1, <2>2, <2>3, <2>4, ContinueCounts, SimStartCount, SimOpenCount, SimStepCount,
       SimFundCount, SimSweepCount, SimReportCount DEF RunNext, Simulate, SimThrottled
<1> QED BY <1>1, <1>2

LEMMA CountStarts == ASSUME OneAtATime PROVE RunInit => CountInv
<1> SUFFICES ASSUME RunInit, at # "serving" PROVE CountInv
  BY DEF CountInv
<1>1. /\ args \in Scenarios /\ at = "start" /\ opened = 0 /\ step = 0 /\ Init
      /\ pc[Client] = "idle" /\ stats = NoStats
  BY OnlyClient DEF RunInit, Init
<1>2. OpenKeys = {} BY <1>1 DEF OpenKeys, Init
<1>3. Cardinality(OpenKeys) = 0 BY <1>2, FS_EmptySet
<1>4. TicksPaid = 0 BY <1>1, TicksCount DEF TicksPaid
<1>5. args.accounts * 0 = 0 BY <1>1, ScenarioFields
<1> QED
  BY <1>1, <1>2, <1>3, <1>4, <1>5 DEF CountInv, Headcount, CountedOpen, BookPlace, LossHasVictim,
     AllFunded, Funded, TickCounted, Clear, ReportTrue, NoStats, MissingNow, OpeningNow, TakenNow,
     Funds

(* The simulator's report adds up in every run of it, whatever its length, *)
(* noise and number of accounts, as long as the maintenance rate is not    *)
(* above the initial rate.                                                 *)
THEOREM ReportsAddUp ==
  ASSUME OneAtATime, Params.maintenance_margin_bps <= Params.initial_margin_bps
  PROVE  RunSpec => []ReportAddsUp
<1>1. /\ TypeOK /\ RunInv /\ SimInv /\ SoloInv /\ TasksInOrder /\ BookFinite /\ CountInv
         /\ [RunNext]_runVars => CountInv'
  BY CountStep
<1>2. ASSUME TypeOK, RunInv, SimInv, SoloInv, TasksInOrder, BookFinite, CountInv
      PROVE  ReportAddsUp
  <2> SUFFICES ASSUME at = "reported" PROVE ReportAddsUp
    BY DEF ReportAddsUp
  <2>1. CountReady BY <1>2 DEF CountReady
  <2>2. pc[Client] = "idle" /\ opened = args.accounts /\ price = markets[SimSymbol].mark_price
    BY <1>2 DEF SimInv, Resting, RunInv, MarketSet, Walking
  <2>3. TicksPaid = Ticks
    BY <2>1, CountFacts DEF TicksPaid, TicksBy, Ticks, ReportTrue
  <2>4. /\ Cardinality(OpenKeys) + stats.liquidations = args.accounts
        /\ stats.open_positions = Cardinality(OpenKeys)
    BY <2>1, <2>2, CountFacts DEF Headcount, CountedOpen, MissingNow, OpeningNow, TakenNow
  <2>5. \A k \in Keys : ~UnderwaterNow(k)
    BY <2>1, <2>2, CountFacts DEF Clear, Sweeps
  <2>6. Funded(stats.funding_settlements, Cardinality(OpenKeys), Ticks)
    BY <2>1, <2>3, CountFacts DEF AllFunded
  <2>7. stats.adl_events > 0 => stats.liquidations > 0
    BY <2>1, CountFacts DEF LossHasVictim
  <2>8. /\ report.survivors = Cardinality(OpenKeys) /\ report.liquidations = stats.liquidations
        /\ report.adl_events = stats.adl_events
        /\ report.funding_settlements = stats.funding_settlements
        /\ report.final_price = price
    BY <2>1, CountFacts DEF ReportTrue
  <2> HIDE DEF OpenKeys, Ticks
  <2> QED
    BY <2>2, <2>4, <2>5, <2>6, <2>7, <2>8 DEF ReportAddsUp, Funded
<1> QED
  BY <1>1, <1>2, CountStarts, SimInvariant, RunInvariant, RunsEngine, TypeCorrectAny,
     SoloInvariant, StreamNeverAhead, BookStaysFinite, PTL DEF RunSpec, runVars, StreamBehind

----------------------------------------------------------------------------
(* What holds of the engine holds of it as the node runs it: every run     *)
(* refines AnySpec.                                                        *)

(* However a scenario ends, its fund holds the seed, the fees and nothing  *)
(* else.                                                                   *)
THEOREM RunsConserveFund == RunSpec => []WaterfallConserves
BY RunsEngine, FundConservedAny

(* Every sweep of a scenario clears its market.                            *)
THEOREM RunSweepsClear ==
  ASSUME OneAtATime, ~StoreMayFail
  PROVE  RunSpec => SweepClearsMarket
BY RunsEngine, SweepsClearMarketAny

(* A sweep of a scenario takes out only what is underwater.                *)
THEOREM RunSweepsSpare ==
  ASSUME OneAtATime
  PROVE  RunSpec => SweepSparesHealthy
BY RunsEngine, SweepsSpareHealthyAny

(* A funding tick of a scenario over a matched book nets to zero.          *)
THEOREM RunFundingNets ==
  ASSUME OneAtATime
  PROVE  RunSpec => FundingZeroSum
BY RunsEngine, FundingNetsToZeroAny

(* The events of a scenario rebuild its book.                              *)
THEOREM RunStreamRebuilds ==
  ASSUME OneAtATime, ~StoreMayFail, ~SinkMayFail
  PROVE  RunSpec => []ReplayRebuildsEngine
BY RunsEngine, StreamRebuildsEngineAny

(* The largest offer a scenario can make.                                  *)
LargestOffer == [posted_margin |-> MAX_PRICE, size |-> SIZE_WHOLE * SCALE]

LEMMA OfferLeavesRoom ==
  ASSUME RoomToSpare(LargestOffer, Params), NEW i \in Nat,
         StartMark \in Price, args \in Scenarios
  PROVE  RoomToSpare(SimOffer(i), Params)
<1> DEFINE p == args.start_price
           m == MarginWhole(p)
<1>1. p \in Nat \ {0} /\ SCALE \in Nat \ {0} /\ p * SCALE <= MAX_PRICE /\ MAX_PRICE \in Nat
  BY ScenarioFields, StartPositive, MathAssumption DEF StartMark, Price
<1>2. m \in Nat /\ m <= p
  <2>1. m \in Nat /\ 100 * m <= 60 * p BY <1>1, MarginWholeBounds
  <2> HIDE DEF m, p
  <2> QED BY <1>1, <2>1
<1> HIDE DEF m, p
<1>3. m * SCALE <= p * SCALE /\ m * SCALE \in Nat /\ p * SCALE \in Nat
  BY <1>1, <1>2, ProductOrder
<1>4. m * SCALE <= MAX_PRICE BY <1>1, <1>3
<1>5. SimOffer(i).posted_margin = m * SCALE /\ SimOffer(i).size = SIZE_WHOLE * SCALE
  BY DEF SimOffer, m, p
<1> DEFINE x == MAX_PRICE * (SIZE_WHOLE * SCALE)
           y == m * SCALE
<1>6. x \in Int /\ y \in Int /\ UsdMax \in Int /\ MAX_PRICE \in Int
  BY <1>1, <1>3, MathAssumption DEF SIZE_WHOLE
<1>7. MAX_PRICE + x <= UsdMax
      /\ x * Params.maintenance_margin_bps <= UsdMax * SCALE
  BY DEF RoomToSpare, LargestOffer
<1>8. y <= MAX_PRICE BY <1>4
<1>9. y + x <= UsdMax
  <2> HIDE DEF x, y
  <2> QED BY <1>6, <1>7, <1>8
<1> QED BY <1>5, <1>7, <1>9 DEF RoomToSpare

LEMMA SetMarketStarts ==
  ASSUME NEW t \in Tasks, NEW mark \in Price, args \in Scenarios, SetMarket(t, mark)
  PROVE  OtherStart(t)
<1>1. [symbol |-> SimSymbol, mark_price |-> mark, funding_rate_bps |-> args.funding_bps] \in View
  BY ScenarioFields, SimulationAssumption DEF View
<1> QED BY <1>1 DEF SetMarket, OtherStart

LEMMA RunStepLeavesRoom ==
  ASSUME \A c \in OpenCommands : RoomToSpare(c, Params), RoomToSpare(LargestOffer, Params),
         RunInv, [RunNext]_runVars
  PROVE  [RoomyNext]_vars
<1>1. ASSUME NEW t \in Tasks, Serve(t) \/ Serviced(t) PROVE RoomyNext
  BY <1>1, EngineAssumption DEF Serve, Serviced, Start, RoomyNext, OpenWithRoom, OtherStart
<1>2. ASSUME NEW t \in Tasks, SimStart(t), ~SimFail PROVE RoomyNext
  <2>1. args \in Scenarios BY <1>2 DEF SimStart, Turn, RunInv
  <2>2. StartMark \in Price /\ SetMarket(t, StartMark) BY <1>2 DEF SimStart, StartMark
  <2> QED BY <2>1, <2>2, SetMarketStarts DEF RoomyNext
<1>3. ASSUME NEW t \in Tasks, SimOpen(t), ~SimFail PROVE RoomyNext
  <2>1. /\ args \in Scenarios /\ StartMark \in Price /\ opened \in Nat
        /\ opened < args.accounts /\ OpenGet(t, SimOffer(opened))
    BY <1>3 DEF SimOpen, Turn, RunInv, Walking
  <2>2. opened < Len(AccountName) BY <2>1, ScenarioFields, SimulationAssumption
  <2>3. SimOffer(opened) \in OpenCommand BY <2>1, <2>2, OfferIsCommand
  <2>4. RoomToSpare(SimOffer(opened), Params) BY <2>1, OfferLeavesRoom
  <2> QED BY <2>1, <2>3, <2>4 DEF RoomyNext, OpenWithRoom
<1>4. ASSUME NEW t \in Tasks, SimStep(t), ~SimFail PROVE RoomyNext
  <2>1. args \in Scenarios /\ price \in Int
    BY <1>4, MathAssumption DEF SimStep, Booked, Turn, RunInv, Walking, Price
  <2>2. PICK noise \in Int : NextPrice(noise) \in Price /\ SetMarket(t, NextPrice(noise))
    BY <1>4, <2>1, ScenarioFields DEF SimStep, LargerOf
  <2> QED BY <2>1, <2>2, SetMarketStarts DEF RoomyNext
<1>5. ASSUME NEW t \in Tasks, SimFund(t) \/ SimSweep(t) PROVE RoomyNext
  BY <1>5, SimulationAssumption DEF SimFund, SimSweep, RoomyNext, OtherStart
<1>6. CASE SimFail \/ SimReport \/ SimThrottled \/ RunOver
  BY <1>6 DEF SimReport, SimThrottled, RunOver, SimFail
<1>7. CASE UNCHANGED runVars
  BY <1>7 DEF runVars
<1> QED
  BY <1>1, <1>2, <1>3, <1>4, <1>5, <1>6, <1>7 DEF RunNext, Simulate

(* Also while the node walks a scenario: the liquidation price of every    *)
(* position is the edge of the test its next sweep makes.                  *)
THEOREM RunPricesBoundSweeps ==
  ASSUME Params.maintenance_margin_bps <= 5000,
         \A c \in OpenCommands : RoomToSpare(c, Params), RoomToSpare(LargestOffer, Params)
  PROVE  RunSpec => []LiquidationPriceIsEdge
<1>1. RunInit => RoomInv BY RoomStarts DEF RunInit
<1>2. RunInv /\ [RunNext]_runVars => [RoomyNext]_vars BY RunStepLeavesRoom
<1>3. TypeOK /\ RoomInv => LiquidationPriceIsEdge BY RoomGivesEdge
<1> QED
  BY <1>1, <1>2, <1>3, RoomStep, RunInvariant, RunsEngine, TypeCorrectAny, PTL
     DEF RunSpec, runVars

----------------------------------------------------------------------------
(* Between commands the engine takes the steps of AtomicEngine.            *)

(* The operators of AtomicEngine are those of the engine.                  *)
LEMMA SameSum == \A f : Atomic!SumFunction(f) = SumFunction(f)
BY DEF Atomic!SumFunction, SumFunction, Atomic!SumFunctionOnSet, SumFunctionOnSet,
   Atomic!FoldFunctionOnSet, FoldFunctionOnSet, Atomic!MapThenFoldSet, MapThenFoldSet

LEMMA SameCardinality == \A S : Atomic!Cardinality(S) = Cardinality(S)
BY DEF Atomic!Cardinality, Cardinality

LEMMA SameMath ==
  /\ Atomic!Position = Position /\ Atomic!Price = Price /\ Atomic!Keys = Keys
  /\ \A a, b : Atomic!SatAdd(a, b) = SatAdd(a, b)
  /\ \A a : Atomic!SatNeg(a) = SatNeg(a)
  /\ \A p, m : Atomic!PositionEquity(p, m) = PositionEquity(p, m)
  /\ \A p, m : Atomic!InitialMargin(p, m, Params) = InitialMargin(p, m, Params)
  /\ \A p, m : Atomic!IsLiquidatable(p, m, Params) <=> IsLiquidatable(p, m, Params)
  /\ \A p, m : Atomic!LiquidationFee(p, m, Params) = LiquidationFee(p, m, Params)
  /\ \A p, m, r : Atomic!FundingPayment(p, m, r) = FundingPayment(p, m, r)
<1>1. \A x : Atomic!Saturate(x) = Saturate(x)
  BY DEF Atomic!Saturate, Saturate, Atomic!UsdMin, UsdMin
<1>2. \A a, d : Atomic!TruncDiv(a, d) = TruncDiv(a, d)
  BY DEF Atomic!TruncDiv, TruncDiv
<1>3. /\ \A a, b : Atomic!SatAdd(a, b) = SatAdd(a, b) /\ Atomic!SatSub(a, b) = SatSub(a, b)
                   /\ Atomic!SatMul(a, b) = SatMul(a, b)
      /\ \A a : Atomic!SatNeg(a) = SatNeg(a)
  BY <1>1 DEF Atomic!SatAdd, SatAdd, Atomic!SatSub, SatSub, Atomic!SatMul, SatMul, Atomic!SatNeg,
     SatNeg
<1>4. \A a, b : Atomic!MulBps(a, b) = MulBps(a, b) /\ Atomic!ScaledMul(a, b) = ScaledMul(a, b)
  BY <1>2, <1>3 DEF Atomic!MulBps, MulBps, Atomic!ScaledMul, ScaledMul
<1>5. \A p, m : /\ Atomic!Notional(p, m) = Notional(p, m)
                /\ Atomic!UnrealizedPnl(p, m) = UnrealizedPnl(p, m)
  BY <1>4 DEF Atomic!Notional, Notional, Atomic!UnrealizedPnl, UnrealizedPnl
<1>6. \A p, m : Atomic!PositionEquity(p, m) = PositionEquity(p, m)
  BY <1>3, <1>5 DEF Atomic!PositionEquity, PositionEquity
<1>7. \A p, m : /\ Atomic!InitialMargin(p, m, Params) = InitialMargin(p, m, Params)
                /\ Atomic!MaintenanceMargin(p, m, Params) = MaintenanceMargin(p, m, Params)
                /\ Atomic!LiquidationFee(p, m, Params) = LiquidationFee(p, m, Params)
  BY <1>4, <1>5 DEF Atomic!InitialMargin, InitialMargin, Atomic!MaintenanceMargin,
     MaintenanceMargin, Atomic!LiquidationFee, LiquidationFee
<1>8. \A p, m : Atomic!IsLiquidatable(p, m, Params) <=> IsLiquidatable(p, m, Params)
  BY <1>6, <1>7 DEF Atomic!IsLiquidatable, IsLiquidatable
<1>9. \A p, m, r : Atomic!FundingPayment(p, m, r) = FundingPayment(p, m, r)
  BY <1>3, <1>4, <1>5 DEF Atomic!FundingPayment, FundingPayment
<1>10. Atomic!Position = Position /\ Atomic!Price = Price /\ Atomic!Keys = Keys
  BY DEF Atomic!Position, Position, Atomic!Price, Price, Atomic!Keys, Keys, Atomic!Side, Side,
     Atomic!Size, Size, Atomic!Usd, Usd, Atomic!UsdMin, UsdMin
<1> QED BY <1>3, <1>6, <1>7, <1>8, <1>9, <1>10

(* What a command may do to the engine as a whole, from state c to state d:*)
(* the five commands of AtomicEngine over records of its variables.        *)
EngineStates ==
  [positions : [Keys -> Position \cup {None}], markets : [Symbols -> MarketState \cup {None}],
   insurance : 0 .. UsdMax,
   stats : [open_positions : Nat, liquidations : Nat,
            funding_settlements : Nat, adl_events : Nat]]

KeysAt(c, s) == {k \in Keys : k[2] = s /\ c.positions[k] # None}
MarkAt(c, s) == c.markets[s].mark_price
EquityAt(c, s, k) == PositionEquity(c.positions[k], MarkAt(c, s))
SunkAt(c, s) == {k \in KeysAt(c, s) : IsLiquidatable(c.positions[k], MarkAt(c, s), Params)}
SolventOf(c, s, K) == {k \in K : EquityAt(c, s, k) >= 0}

FeeAt(c, s) ==
  [k \in Keys |-> LET fee == LiquidationFee(c.positions[k], MarkAt(c, s), Params)
                  IN  IF fee < EquityAt(c, s, k) THEN fee ELSE EquityAt(c, s, k)]
LossAt(c, s) == [k \in Keys |-> SatNeg(EquityAt(c, s, k))]
FeesOf(c, s, K) == SumFunctionOnSet(FeeAt(c, s), SolventOf(c, s, K))
LossesOf(c, s, K) == SumFunctionOnSet(LossAt(c, s), K \ SolventOf(c, s, K))

AtMost(n) == IF n < UsdMax THEN n ELSE UsdMax

(* The fund once the positions of K are settled with it, and the loss that *)
(* was socialised.                                                         *)
Paid(c, s, K, social, balance) ==
  /\ social \in 0 .. LossesOf(c, s, K)
  /\ balance \in AtMost(c.insurance + FeesOf(c, s, K)) - (LossesOf(c, s, K) - social)
                   .. c.insurance + FeesOf(c, s, K) - (LossesOf(c, s, K) - social)
  /\ balance \in 0 .. UsdMax
  /\ social > 0 => balance <= FeesOf(c, s, K)

FewerOpen(c, n) == IF c.stats.open_positions > n THEN c.stats.open_positions - n ELSE 0
Counted(c, n) == [c.stats EXCEPT !.open_positions = FewerOpen(c, n), !.liquidations = @ + n]

Cleared(c, K) == [k \in Keys |-> IF k \in K THEN None ELSE c.positions[k]]

DueAt(c, s, k) == FundingPayment(c.positions[k], MarkAt(c, s), c.markets[s].funding_rate_bps)
Charged(c, s, K) ==
  [k \in Keys |-> IF k \in K THEN Settled(c.positions[k], DueAt(c, s, k)) ELSE c.positions[k]]

Opens(c, k, pos) ==
  /\ c.positions[k] = None /\ pos.funding_paid = 0
  /\ pos.posted_margin >= InitialMargin(pos, pos.entry_price, Params)

WholeOpen(c, d) ==
  \E k \in Keys, pos \in Position :
    /\ Opens(c, k, pos)
    /\ d.positions = [c.positions EXCEPT ![k] = pos]
    /\ d.stats = [c.stats EXCEPT !.open_positions = @ + 1]
    /\ d.markets = c.markets /\ d.insurance = c.insurance

WholeClose(c, d) ==
  \E k \in Keys :
    /\ c.positions[k] # None
    /\ d.positions = [c.positions EXCEPT ![k] = None]
    /\ d.stats = IF c.markets[k[2]] = None THEN c.stats
                 ELSE [c.stats EXCEPT !.open_positions = FewerOpen(c, 1)]
    /\ d.markets = c.markets /\ d.insurance = c.insurance

WholeUpdate(c, d) ==
  \E s \in Symbols, m \in MarketState :
    /\ d.markets = [c.markets EXCEPT ![s] = m]
    /\ d.positions = c.positions /\ d.insurance = c.insurance /\ d.stats = c.stats

WholeAccrue(c, d) ==
  \E s \in Symbols :
    /\ c.markets[s] # None
    /\ d.positions = Charged(c, s, KeysAt(c, s))
    /\ d.stats = [c.stats EXCEPT !.funding_settlements = @ + Cardinality(KeysAt(c, s))]
    /\ d.markets = c.markets /\ d.insurance = c.insurance

WholeSweep(c, d) ==
  \E s \in Symbols :
    LET swept == SunkAt(c, s)
    IN  /\ c.markets[s] # None
        /\ d.positions = Cleared(c, swept) /\ d.markets = c.markets
        /\ \E social : /\ Paid(c, s, swept, social, d.insurance)
                       /\ d.stats = [Counted(c, Cardinality(swept)) EXCEPT
                                       !.adl_events = IF social > 0 THEN @ + 1 ELSE @]

Whole(c, d) ==
  WholeOpen(c, d) \/ WholeClose(c, d) \/ WholeUpdate(c, d) \/ WholeAccrue(c, d) \/ WholeSweep(c, d)

LEMMA SunkFinite ==
  ASSUME NEW c \in EngineStates, NEW s \in Symbols, IsFiniteSet(KeysAt(c, s)),
         c.markets[s] # None
  PROVE  /\ IsFiniteSet(SunkAt(c, s)) /\ SunkAt(c, s) \subseteq KeysAt(c, s)
         /\ KeysAt(c, s) \subseteq Keys
         /\ MarkAt(c, s) \in Price /\ c.markets[s].funding_rate_bps \in Int
         /\ \A k \in KeysAt(c, s) :
              /\ c.positions[k] \in Position /\ EquityAt(c, s, k) \in Usd
              /\ EquityAt(c, s, k) >= 0 => FeeAt(c, s)[k] \in Nat
              /\ EquityAt(c, s, k) < 0 => LossAt(c, s)[k] \in Nat /\ LossAt(c, s)[k] \in Usd
<1>1. SunkAt(c, s) \subseteq KeysAt(c, s) /\ KeysAt(c, s) \subseteq Keys
  BY DEF SunkAt, KeysAt
<1>2. IsFiniteSet(SunkAt(c, s)) BY <1>1, FS_Subset
<1>3. c.markets[s] \in MarketState BY DEF EngineStates
<1>4. MarkAt(c, s) \in Price /\ c.markets[s].funding_rate_bps \in Int
  BY <1>3 DEF MarkAt, MarketState
<1>5. ASSUME NEW k \in KeysAt(c, s)
      PROVE  /\ c.positions[k] \in Position /\ EquityAt(c, s, k) \in Usd
             /\ EquityAt(c, s, k) >= 0 => FeeAt(c, s)[k] \in Nat
             /\ EquityAt(c, s, k) < 0 => LossAt(c, s)[k] \in Nat /\ LossAt(c, s)[k] \in Usd
  <2> DEFINE q == EquityAt(c, s, k)
             fee == LiquidationFee(c.positions[k], MarkAt(c, s), Params)
  <2>1. k \in Keys /\ c.positions[k] \in Position BY <1>5 DEF KeysAt, EngineStates
  <2>2. q \in Usd BY <1>4, <2>1, EquityType DEF EquityAt
  <2>3. fee \in Usd /\ fee >= 0 BY <1>4, <2>1, FeeType, EngineAssumption
  <2>4. /\ FeeAt(c, s)[k] = IF fee < q THEN fee ELSE q
        /\ LossAt(c, s)[k] = SatNeg(q)
    BY <2>1 DEF FeeAt, LossAt
  <2> HIDE DEF q, fee
  <2>5. q \in Int /\ fee \in Int BY <2>2, <2>3, MathAssumption DEF Usd, UsdMin
  <2>6. q >= 0 => FeeAt(c, s)[k] \in Nat BY <2>3, <2>4, <2>5
  <2>7. SatNeg(q) \in Usd /\ (q < 0 => SatNeg(q) >= 0)
    BY <2>5, SaturateType DEF SatNeg
  <2>8. SatNeg(q) \in Int BY <2>7, MathAssumption DEF Usd, UsdMin
  <2> QED BY <2>1, <2>2, <2>4, <2>6, <2>7, <2>8 DEF q
<1> QED BY <1>1, <1>2, <1>4, <1>5

(* Settling one more position of a sweep with the fund.                    *)
LEMMA SumsOfSettled ==
  ASSUME NEW c \in EngineStates, NEW s \in Symbols, IsFiniteSet(KeysAt(c, s)),
         c.markets[s] # None, NEW K \in SUBSET SunkAt(c, s)
  PROVE  FeesOf(c, s, K) \in Nat /\ LossesOf(c, s, K) \in Nat
<1> DEFINE A == SolventOf(c, s, K)
           B == K \ SolventOf(c, s, K)
           f == FeeAt(c, s)
           g == LossAt(c, s)
<1>1. /\ K \subseteq SunkAt(c, s) /\ IsFiniteSet(SunkAt(c, s)) /\ A \subseteq K /\ B \subseteq K
  BY SunkFinite DEF SolventOf
<1>2. IsFiniteSet(A) /\ IsFiniteSet(B) BY <1>1, FS_Subset
<1>3. \A k \in K : EquityAt(c, s, k) \in Int
  BY <1>1, SunkFinite, MathAssumption DEF Usd, UsdMin
<1>4. (\A k \in A : f[k] \in Nat) /\ \A k \in B : g[k] \in Nat
  BY <1>1, <1>3, SunkFinite DEF SolventOf
<1> HIDE DEF A, B, f, g
<1>5. SumFunctionOnSet(f, A) \in Nat /\ SumFunctionOnSet(g, B) \in Nat
  BY <1>2, <1>4, SumNat
<1> QED BY <1>5 DEF A, B, f, g, FeesOf, LossesOf

LEMMA OneMoreSettled ==
  ASSUME NEW c \in EngineStates, NEW s \in Symbols, IsFiniteSet(KeysAt(c, s)),
         c.markets[s] # None, NEW K \in SUBSET SunkAt(c, s), NEW k \in SunkAt(c, s), k \notin K
  PROVE  /\ EquityAt(c, s, k) >= 0 =>
              /\ FeesOf(c, s, K \cup {k}) = FeesOf(c, s, K) + FeeAt(c, s)[k]
              /\ LossesOf(c, s, K \cup {k}) = LossesOf(c, s, K)
         /\ EquityAt(c, s, k) < 0 =>
              /\ FeesOf(c, s, K \cup {k}) = FeesOf(c, s, K)
              /\ LossesOf(c, s, K \cup {k}) = LossesOf(c, s, K) + LossAt(c, s)[k]
<1> DEFINE A == SolventOf(c, s, K)
           B == K \ SolventOf(c, s, K)
           f == FeeAt(c, s)
           g == LossAt(c, s)
<1>1. /\ K \subseteq SunkAt(c, s) /\ IsFiniteSet(SunkAt(c, s)) /\ A \subseteq K /\ B \subseteq K
  BY SunkFinite DEF SolventOf
<1>2. IsFiniteSet(A) /\ IsFiniteSet(B) BY <1>1, FS_Subset
<1>3. \A j \in K \cup {k} : EquityAt(c, s, j) \in Int
  BY <1>1, SunkFinite, MathAssumption DEF Usd, UsdMin
<1>4. (\A j \in A : f[j] \in Int) /\ \A j \in B : g[j] \in Int
  BY <1>1, <1>3, SunkFinite DEF SolventOf
<1>5. k \notin A /\ k \notin B BY <1>1
<1>6. ASSUME EquityAt(c, s, k) >= 0
      PROVE  /\ FeesOf(c, s, K \cup {k}) = FeesOf(c, s, K) + FeeAt(c, s)[k]
             /\ LossesOf(c, s, K \cup {k}) = LossesOf(c, s, K)
  <2>1. SolventOf(c, s, K \cup {k}) = A \cup {k} BY <1>6 DEF SolventOf
  <2>2. (K \cup {k}) \ (A \cup {k}) = B BY <1>5
  <2>3. f[k] \in Int BY <1>1, <1>6, SunkFinite
  <2> HIDE DEF A, B, f, g
  <2>4. SumFunctionOnSet(f, A \cup {k}) = SumFunctionOnSet(f, A) + f[k]
    BY <1>2, <1>4, <1>5, <2>3, SumAddElement
  <2> QED BY <2>1, <2>2, <2>4 DEF FeesOf, LossesOf, A, B, f, g
<1>7. ASSUME EquityAt(c, s, k) < 0
      PROVE  /\ FeesOf(c, s, K \cup {k}) = FeesOf(c, s, K)
             /\ LossesOf(c, s, K \cup {k}) = LossesOf(c, s, K) + LossAt(c, s)[k]
  <2>1. SolventOf(c, s, K \cup {k}) = A BY <1>3, <1>7 DEF SolventOf
  <2>2. (K \cup {k}) \ A = B \cup {k} BY <1>5
  <2>3. g[k] \in Int BY <1>1, <1>7, SunkFinite
  <2> HIDE DEF A, B, f, g
  <2>4. SumFunctionOnSet(g, B \cup {k}) = SumFunctionOnSet(g, B) + g[k]
    BY <1>2, <1>4, <1>5, <2>3, SumAddElement
  <2> QED BY <2>1, <2>2, <2>4 DEF FeesOf, LossesOf, A, B, f, g
<1> QED BY <1>6, <1>7

LEMMA PaidNothing ==
  ASSUME NEW c \in EngineStates, NEW s \in Symbols
  PROVE  Paid(c, s, {}, 0, c.insurance)
<1>1. SolventOf(c, s, {}) = {} /\ {} \ {} = {} BY DEF SolventOf
<1>2. FeesOf(c, s, {}) = 0 /\ LossesOf(c, s, {}) = 0 BY <1>1, SumEmpty DEF FeesOf, LossesOf
<1>3. c.insurance \in 0 .. UsdMax /\ UsdMax \in Nat BY MathAssumption DEF EngineStates
<1> QED BY <1>2, <1>3 DEF Paid, AtMost

LEMMA PaidFee ==
  ASSUME NEW c \in EngineStates, NEW s \in Symbols, IsFiniteSet(KeysAt(c, s)),
         c.markets[s] # None, NEW K \in SUBSET SunkAt(c, s), NEW k \in SunkAt(c, s), k \notin K,
         EquityAt(c, s, k) >= 0, NEW social, NEW balance, Paid(c, s, K, social, balance)
  PROVE  Paid(c, s, K \cup {k}, social, AtMost(balance + FeeAt(c, s)[k]))
<1> DEFINE i == c.insurance
           f == FeesOf(c, s, K)
           l == LossesOf(c, s, K)
           x == FeeAt(c, s)[k]
<1>1. /\ FeesOf(c, s, K \cup {k}) = f + x /\ LossesOf(c, s, K \cup {k}) = l
      /\ f \in Nat /\ l \in Nat /\ x \in Nat
  BY SunkFinite, OneMoreSettled, SumsOfSettled
<1>2. i \in 0 .. UsdMax /\ UsdMax \in Nat BY MathAssumption DEF EngineStates
<1>3. /\ social \in 0 .. l /\ balance \in 0 .. UsdMax
      /\ balance \in AtMost(i + f) - (l - social) .. i + f - (l - social)
      /\ social > 0 => balance <= f
  BY DEF Paid
<1> HIDE DEF i, f, l, x
<1>4. AtMost(balance + x) \in 0 .. UsdMax /\ (social > 0 => AtMost(balance + x) <= f + x)
  BY <1>1, <1>2, <1>3 DEF AtMost
<1>5. AtMost(balance + x) \in AtMost(i + (f + x)) - (l - social) .. i + (f + x) - (l - social)
  BY <1>1, <1>2, <1>3 DEF AtMost
<1> DEFINE b == AtMost(balance + x)
<1>6. AtMost(i + (f + x)) = AtMost(i + FeesOf(c, s, K \cup {k}))
      /\ i + (f + x) = i + FeesOf(c, s, K \cup {k})
  BY <1>1
<1>7. b \in AtMost(i + FeesOf(c, s, K \cup {k})) - (LossesOf(c, s, K \cup {k}) - social)
             .. i + FeesOf(c, s, K \cup {k}) - (LossesOf(c, s, K \cup {k}) - social)
  BY <1>1, <1>5, <1>6
<1> HIDE DEF b
<1>8. Paid(c, s, K \cup {k}, social, b)
  BY <1>1, <1>3, <1>4, <1>7 DEF Paid, i, b
<1> QED BY <1>8 DEF b, x

LEMMA PaidLoss ==
  ASSUME NEW c \in EngineStates, NEW s \in Symbols, IsFiniteSet(KeysAt(c, s)),
         c.markets[s] # None, NEW K \in SUBSET SunkAt(c, s), NEW k \in SunkAt(c, s), k \notin K,
         EquityAt(c, s, k) < 0, NEW social, NEW balance, Paid(c, s, K, social, balance),
         NEW drawn \in Nat, NEW x \in Nat, drawn + x = LossAt(c, s)[k],
         balance - drawn >= 0, x > 0 => balance - drawn = 0
  PROVE  Paid(c, s, K \cup {k}, social + x, balance - drawn)
<1> DEFINE i == c.insurance
           f == FeesOf(c, s, K)
           l == LossesOf(c, s, K)
           y == LossAt(c, s)[k]
<1>1. /\ FeesOf(c, s, K \cup {k}) = f /\ LossesOf(c, s, K \cup {k}) = l + y
      /\ f \in Nat /\ l \in Nat /\ y = drawn + x
  BY SunkFinite, OneMoreSettled, SumsOfSettled
<1>2. i \in 0 .. UsdMax /\ UsdMax \in Nat BY MathAssumption DEF EngineStates
<1>3. /\ social \in 0 .. l /\ balance \in 0 .. UsdMax
      /\ balance \in AtMost(i + f) - (l - social) .. i + f - (l - social)
      /\ social > 0 => balance <= f
  BY DEF Paid
<1> HIDE DEF i, f, l, y
<1>4. balance - drawn \in 0 .. UsdMax /\ (social + x > 0 => balance - drawn <= f)
      /\ social + x \in 0 .. l + y
  BY <1>1, <1>2, <1>3
<1>5. AtMost(i + f) \in Int BY <1>1, <1>2 DEF AtMost
<1>6. balance - drawn \in AtMost(i + f) - (l + y - (social + x)) .. i + f - (l + y - (social + x))
  BY <1>1, <1>2, <1>3, <1>5
<1> QED BY <1>1, <1>4, <1>6 DEF Paid, i

(* A whole command is a step of AtomicEngine.                              *)
CommittedOK == committed \in EngineStates /\ \A s \in Symbols : IsFiniteSet(KeysAt(committed, s))

LEMMA OpenIsAtomic ==
  ASSUME CommittedOK, CommittedOK', WholeOpen(committed, committed')
  PROVE  \E k \in Keys : Atomic!Open(k)
<1>1. PICK k \in Keys, pos \in Position :
        /\ Opens(committed, k, pos)
        /\ committed'.positions = [committed.positions EXCEPT ![k] = pos]
        /\ committed'.stats = [committed.stats EXCEPT !.open_positions = @ + 1]
        /\ committed'.markets = committed.markets /\ committed'.insurance = committed.insurance
  BY DEF WholeOpen
<1>2. committed'.positions[k] = pos BY <1>1 DEF CommittedOK, EngineStates
<1>3. Atomic!Open(k) BY <1>1, <1>2, SameMath DEF Atomic!Open, Opens
<1> QED BY <1>3

LEMMA CloseIsAtomic ==
  ASSUME WholeClose(committed, committed')
  PROVE  \E k \in Keys : Atomic!Close(k)
BY DEF WholeClose, FewerOpen, Atomic!Close, Atomic!Fewer

LEMMA UpdateIsAtomic ==
  ASSUME CommittedOK, WholeUpdate(committed, committed')
  PROVE  \E s \in Symbols : Atomic!Update(s)
<1>1. PICK s \in Symbols, m \in MarketState :
        /\ committed'.markets = [committed.markets EXCEPT ![s] = m]
        /\ committed'.positions = committed.positions
        /\ committed'.insurance = committed.insurance /\ committed'.stats = committed.stats
  BY DEF WholeUpdate
<1>2. committed'.markets[s] = m BY <1>1 DEF CommittedOK, EngineStates
<1>3. Atomic!Update(s) BY <1>1, <1>2, SameMath DEF Atomic!Update, MarketState
<1> QED BY <1>3

LEMMA AccrueIsAtomic ==
  ASSUME CommittedOK, WholeAccrue(committed, committed')
  PROVE  \E s \in Symbols : Atomic!Accrue(s)
<1> DEFINE c == committed
<1>1. PICK s \in Symbols :
        /\ c.markets[s] # None
        /\ c'.positions = Charged(c, s, KeysAt(c, s))
        /\ c'.stats = [c.stats EXCEPT !.funding_settlements = @ + Cardinality(KeysAt(c, s))]
        /\ c'.markets = c.markets /\ c'.insurance = c.insurance
  BY DEF WholeAccrue
<1> DEFINE K == KeysAt(c, s)
           due(k) == FundingPayment(c.positions[k], c.markets[s].mark_price,
                                    c.markets[s].funding_rate_bps)
<1>2. Atomic!KeysIn(s) = K BY SameMath DEF Atomic!KeysIn, KeysAt
<1>3. c'.positions = [k \in Keys |-> IF k \in K
                       THEN [c.positions[k] EXCEPT !.funding_paid = SatAdd(@, due(k))]
                       ELSE c.positions[k]]
  BY <1>1 DEF Charged, Settled, DueAt, MarkAt
<1> HIDE DEF K
<1>4. \A p, m, r : Atomic!FundingPayment(p, m, r) = FundingPayment(p, m, r) BY SameMath
<1>5. \A a, b : Atomic!SatAdd(a, b) = SatAdd(a, b) BY SameMath
<1>6. Atomic!Keys = Keys BY SameMath
<1> DEFINE apos(k) == [c.positions[k] EXCEPT !.funding_paid =
                        Atomic!SatAdd(@, Atomic!FundingPayment(c.positions[k], c.markets[s].mark_price,
                                                               c.markets[s].funding_rate_bps))]
           cpos(k) == [c.positions[k] EXCEPT !.funding_paid = SatAdd(@, due(k))]
<1>7. \A k \in Keys : apos(k) = cpos(k) BY <1>4, <1>5
<1> HIDE DEF cpos, apos
<1>8. [k \in Keys |-> IF k \in K THEN cpos(k) ELSE c.positions[k]] =
        [k \in Keys |-> IF k \in K THEN apos(k) ELSE c.positions[k]]
  BY <1>7
<1>9. c'.positions = [k \in Atomic!Keys |-> IF k \in Atomic!KeysIn(s) THEN apos(k)
                                                               ELSE c.positions[k]]
  BY <1>2, <1>3, <1>6, <1>8 DEF cpos
<1>10. c'.stats = [c.stats EXCEPT
         !.funding_settlements = @ + Atomic!Cardinality(Atomic!KeysIn(s))]
  BY <1>1, <1>2, SameCardinality DEF K
<1> DEFINE charged == [k \in Atomic!Keys |-> IF k \in Atomic!KeysIn(s) THEN apos(k)
                                                                   ELSE c.positions[k]]
<1>11. /\ c.markets[s] # None /\ c'.positions = charged
       /\ c'.markets = c.markets /\ c'.insurance = c.insurance
  BY <1>1, <1>9
<1>12. Atomic!Accrue(s) <=>
         /\ c.markets[s] # None /\ c'.positions = charged
         /\ c'.stats = [c.stats EXCEPT
              !.funding_settlements = @ + Atomic!Cardinality(Atomic!KeysIn(s))]
         /\ c'.markets = c.markets /\ c'.insurance = c.insurance
  BY DEF Atomic!Accrue, apos
<1> HIDE DEF charged
<1>13. Atomic!Accrue(s) BY <1>10, <1>11, <1>12
<1> QED BY <1>13

LEMMA SweepIsAtomic ==
  ASSUME CommittedOK, CommittedOK', WholeSweep(committed, committed')
  PROVE  \E s \in Symbols : Atomic!Sweep(s)
<1>1. PICK s \in Symbols :
        /\ committed.markets[s] # None
        /\ committed'.positions = Cleared(committed, SunkAt(committed, s))
        /\ committed'.markets = committed.markets
        /\ \E social : /\ Paid(committed, s, SunkAt(committed, s), social, committed'.insurance)
                       /\ committed'.stats =
                            [Counted(committed, Cardinality(SunkAt(committed, s))) EXCEPT
                               !.adl_events = IF social > 0 THEN @ + 1 ELSE @]
  BY DEF WholeSweep
<1> DEFINE c == committed
           K == SunkAt(c, s)
           mark == c.markets[s].mark_price
           equity(k) == PositionEquity(c.positions[k], mark)
           solvent == {k \in K : equity(k) >= 0}
           fee(k) == Atomic!SmallerOf(LiquidationFee(c.positions[k], mark, Params), equity(k))
           fees == SumFunction([k \in solvent |-> fee(k)])
           losses == SumFunction([k \in K \ solvent |-> SatNeg(equity(k))])
<1>2. /\ IsFiniteSet(K) /\ K \subseteq Keys /\ c \in EngineStates
  BY <1>1, SunkFinite DEF CommittedOK
<1>3. {k \in Atomic!KeysIn(s) : Atomic!IsLiquidatable(c.positions[k], mark, Params)} = K
  BY SameMath DEF Atomic!KeysIn, SunkAt, KeysAt, MarkAt
<1>4. /\ \A k \in Keys : equity(k) = EquityAt(c, s, k)
      /\ solvent = SolventOf(c, s, K) /\ solvent \subseteq K
  BY DEF EquityAt, MarkAt, SolventOf
<1>5. IsFiniteSet(solvent) /\ IsFiniteSet(K \ solvent) /\ solvent \subseteq Keys
  BY <1>2, <1>4, FS_Subset
<1>6. fees = FeesOf(c, s, K)
  <2> DEFINE g == [k \in solvent |-> fee(k)]
  <2>1. \A k \in solvent : g[k] = FeeAt(c, s)[k]
    BY <1>5 DEF FeeAt, EquityAt, MarkAt, Atomic!SmallerOf
  <2>2. fees = SumFunctionOnSet(g, solvent) BY DEF SumFunction
  <2> HIDE DEF g, fees, solvent
  <2>3. SumFunctionOnSet(g, solvent) = SumFunctionOnSet(FeeAt(c, s), solvent)
    BY <1>5, <2>1, SumSame
  <2> QED BY <1>4, <2>2, <2>3 DEF FeesOf
<1>7. losses = LossesOf(c, s, K)
  <2> DEFINE B == K \ solvent
             g == [k \in B |-> SatNeg(equity(k))]
  <2>1. \A k \in B : g[k] = LossAt(c, s)[k]
    BY <1>2 DEF LossAt, EquityAt, MarkAt
  <2>2. losses = SumFunctionOnSet(g, B) BY DEF SumFunction
  <2>3. IsFiniteSet(B) BY <1>5
  <2> HIDE DEF g, losses
  <2>4. B = K \ SolventOf(c, s, K) BY <1>4
  <2> HIDE DEF B
  <2>5. SumFunctionOnSet(g, B) = SumFunctionOnSet(LossAt(c, s), B)
    BY <2>1, <2>3, SumSame
  <2> QED BY <2>2, <2>4, <2>5 DEF LossesOf
<1>8. PICK social :
        /\ Paid(c, s, K, social, c'.insurance)
        /\ c'.stats = [Counted(c, Cardinality(K)) EXCEPT
                         !.adl_events = IF social > 0 THEN @ + 1 ELSE @]
  BY <1>1
<1>9. c'.stats = [c.stats EXCEPT
        !.open_positions = Atomic!Fewer(Cardinality(K)),
        !.liquidations = @ + Cardinality(K),
        !.adl_events = IF social > 0 THEN @ + 1 ELSE @]
  BY <1>2, <1>8 DEF Counted, FewerOpen, Atomic!Fewer, EngineStates
<1>10. c'.positions = [k \in Keys |-> IF k \in K THEN None ELSE c.positions[k]]
  BY <1>1 DEF Cleared
<1>11. /\ social \in 0 .. losses
       /\ c'.insurance \in Atomic!SmallerOf(c.insurance + fees, UsdMax) - (losses - social)
                             .. c.insurance + fees - (losses - social)
       /\ c'.insurance >= 0 /\ (social > 0 => c'.insurance <= fees)
  <2> HIDE DEF fees, losses
  <2> QED BY <1>6, <1>7, <1>8 DEF Paid, AtMost, Atomic!SmallerOf
<1> DEFINE aswept == {k \in Atomic!KeysIn(s) : Atomic!IsLiquidatable(c.positions[k], mark, Params)}
           aequity(k) == Atomic!PositionEquity(c.positions[k], mark)
           asolvent == {k \in aswept : aequity(k) >= 0}
           afee(k) == Atomic!SmallerOf(Atomic!LiquidationFee(c.positions[k], mark, Params),
                                       aequity(k))
           afees == Atomic!SumFunction([k \in asolvent |-> afee(k)])
           alosses == Atomic!SumFunction([k \in aswept \ asolvent |-> Atomic!SatNeg(aequity(k))])
<1>12. Atomic!Keys = Keys BY SameMath
<1>13. Atomic!Sweep(s) <=>
         /\ c.markets[s] # None
         /\ c'.positions = [k \in Keys |-> IF k \in aswept THEN None ELSE c.positions[k]]
         /\ \E x \in 0 .. alosses :
              /\ c'.insurance \in Atomic!SmallerOf(c.insurance + afees, UsdMax) - (alosses - x)
                                    .. c.insurance + afees - (alosses - x)
              /\ c'.insurance >= 0
              /\ x > 0 => c'.insurance <= afees
              /\ c'.stats = [c.stats EXCEPT
                              !.open_positions = Atomic!Fewer(Cardinality(aswept)),
                              !.liquidations = @ + Cardinality(aswept),
                              !.adl_events = IF x > 0 THEN @ + 1 ELSE @]
         /\ c'.markets = c.markets
  BY <1>12, SameCardinality DEF Atomic!Sweep
<1>14. \A k \in Keys : aequity(k) = equity(k) /\ afee(k) = fee(k)
                      /\ Atomic!SatNeg(aequity(k)) = SatNeg(equity(k))
  BY SameMath
<1>15. asolvent = solvent
  <2> HIDE DEF equity, aequity
  <2>1. {k \in K : aequity(k) >= 0} = solvent BY <1>2, <1>14
  <2> QED BY <1>3, <2>1
<1>16. [k \in asolvent |-> afee(k)] = [k \in solvent |-> fee(k)]
  <2> HIDE DEF equity, aequity, fee, afee, solvent, asolvent
  <2> QED BY <1>5, <1>14, <1>15
<1>17. [k \in aswept \ asolvent |-> Atomic!SatNeg(aequity(k))] =
         [k \in K \ solvent |-> SatNeg(equity(k))]
  <2> HIDE DEF equity, aequity, fee, afee, solvent, asolvent
  <2>1. aswept \ asolvent = K \ solvent /\ K \ solvent \subseteq Keys BY <1>2, <1>3, <1>15
  <2> HIDE DEF aswept, K
  <2> QED BY <1>14, <2>1
<1>18. afees = fees /\ alosses = losses
  <2> HIDE DEF equity, aequity, fee, afee, solvent, asolvent, aswept, K
  <2> QED BY <1>16, <1>17, SameSum
<1> HIDE DEF aswept, afees, alosses, fees, losses, K
<1>19. aswept = K BY <1>3 DEF aswept
<1>20. Atomic!Sweep(s)
  BY <1>1, <1>9, <1>10, <1>11, <1>13, <1>18, <1>19
<1> QED BY <1>20

LEMMA WholeIsAtomic ==
  ASSUME CommittedOK, CommittedOK', Whole(committed, committed')
  PROVE  Atomic!AtomicNext
BY SameMath, OpenIsAtomic, CloseIsAtomic, UpdateIsAtomic, AccrueIsAtomic, SweepIsAtomic
   DEF Whole, Atomic!AtomicNext

(* The engine in the middle of a command, told from its state when the     *)
(* command began.                                                          *)
Cur == req[Client].cur
Market == req[Client].view.symbol

AtRest == pc[Client] \in {"idle", "fund_scan", "liq_scan"} => EngineState = committed

AtOpening ==
  pc[Client] \in {"open_upsert", "open_count"} =>
    /\ Cur.key \in Keys /\ Cur.pos \in Position /\ Opens(committed, Cur.key, Cur.pos)
    /\ positions = IF pc[Client] = "open_count"
                   THEN [committed.positions EXCEPT ![Cur.key] = Cur.pos]
                   ELSE committed.positions
    /\ markets = committed.markets /\ insurance = committed.insurance
    /\ stats = committed.stats

AtClosing ==
  pc[Client] \in {"close_mark", "close_count"} =>
    /\ Cur.key \in Keys /\ committed.positions[Cur.key] # None
    /\ positions = [committed.positions EXCEPT ![Cur.key] = None]
    /\ pc[Client] = "close_count" => committed.markets[Cur.key[2]] # None
    /\ markets = committed.markets /\ insurance = committed.insurance
    /\ stats = committed.stats

(* The positions of its market that a tick has charged.                    *)
Ticked == KeysAt(committed, Market) \ TodoKeys

AtTick ==
  pc[Client] \in {"fund_upsert", "fund_count"} =>
    /\ TodoKeys \subseteq KeysAt(committed, Market)
    /\ positions = Charged(committed, Market, Ticked)
    /\ Len(req[Client].evs) = Cardinality(Ticked)
    /\ markets = committed.markets /\ insurance = committed.insurance
    /\ stats = committed.stats

(* The positions that a sweep has removed, settled with the fund and       *)
(* counted.                                                                *)
Gone == SunkAt(committed, Market) \ TodoKeys
SettledKeys == IF pc[Client] = "liq_settle" THEN Gone \ {Cur.key} ELSE Gone
CountedKeys == IF pc[Client] \in {"liq_settle", "liq_count"} THEN Gone \ {Cur.key} ELSE Gone

SweptFund ==
  \E social \in Nat : /\ Paid(committed, Market, SettledKeys, social, insurance)
                      /\ social = 0 <=> req[Client].social = 0

AtSweep ==
  pc[Client] \in HoldsLoss =>
    /\ TodoKeys \subseteq SunkAt(committed, Market)
    /\ positions = Cleared(committed, Gone) /\ markets = committed.markets
    /\ stats = Counted(committed, Cardinality(CountedKeys))
    /\ SweptFund
    /\ pc[Client] \in {"liq_settle", "liq_count"} =>
         Cur.key \in Gone /\ Cur.pos = committed.positions[Cur.key]

AtPublish ==
  pc[Client] = "publish" => EngineState = committed \/ Whole(committed, EngineState)

Midway == AtRest /\ AtOpening /\ AtClosing /\ AtTick /\ AtSweep /\ AtPublish

Committing == committed' = IF pc'[Client] = "idle" THEN EngineState' ELSE committed
Commits == committed' = committed \/ Whole(committed, committed')

MidReady == /\ OneAtATime /\ TypeOK /\ SoloInv /\ TasksInOrder /\ CommittedOK /\ Midway

LEMMA MidFacts ==
  ASSUME MidReady, NEW t \in Tasks
  PROVE  /\ t = Client /\ pc \in [Tasks -> Labels] /\ req \in [Tasks -> Request]
         /\ req[t] \in Request /\ req[t].todo \subseteq Snapshot
         /\ positions \in [Keys -> Position \cup {None}]
         /\ markets \in [Symbols -> MarketState \cup {None}]
         /\ committed \in EngineStates
         /\ \A s \in Symbols : IsFiniteSet(KeysAt(committed, s))
         /\ AtRest /\ AtOpening /\ AtClosing /\ AtTick /\ AtSweep /\ AtPublish
BY SoloLocals DEF MidReady, CommittedOK, Midway

(* A command that returns has done nothing or all it does.                 *)
LEMMA ReturnsWhole ==
  ASSUME Committing, pc'[Client] \in {"idle", "publish"},
         EngineState' = committed \/ Whole(committed, EngineState')
  PROVE  Midway' /\ Commits
<1>1. AtRest' BY DEF AtRest, Committing
<1>2. AtOpening' /\ AtClosing' /\ AtTick' /\ AtSweep'
  BY DEF AtOpening, AtClosing, AtTick, AtSweep, HoldsLoss
<1>3. AtPublish' BY DEF AtPublish, Committing
<1> QED BY <1>1, <1>2, <1>3 DEF Midway, Commits, Committing

LEMMA RestsMid ==
  ASSUME MidReady, Committing, pc[Client] \in {"idle", "fund_scan", "liq_scan"},
         UNCHANGED <<positions, markets, insurance, stats>>,
         pc'[Client] \in {"fund_scan", "liq_scan"}
  PROVE  Midway' /\ Commits
<1>1. EngineState' = committed /\ committed' = committed
  BY DEF MidReady, Midway, AtRest, EngineState, Committing
<1> QED
  BY <1>1 DEF Midway, AtRest, AtOpening, AtClosing, AtTick, AtSweep, AtPublish, HoldsLoss, Commits

LEMMA OpenGetMid ==
  ASSUME MidReady, Committing, NEW t \in Tasks, NEW c \in OpenCommand, OpenGet(t, c)
  PROVE  Midway' /\ Commits
<1>1. /\ t = Client /\ req \in [Tasks -> Request] /\ pc \in [Tasks -> Labels] BY MidFacts
<1>2. /\ pc[Client] = "idle" /\ pc'[Client] = "open_upsert"
      /\ Cur' = [key |-> c.key, pos |-> PositionOf(c)]
      /\ UNCHANGED <<positions, markets, insurance, stats>>
      /\ positions[c.key] = None
      /\ c.posted_margin >= InitialMargin(PositionOf(c), c.entry_price, Params)
  BY <1>1 DEF OpenGet, Begin, Goto, Cur, Request
<1>3. EngineState = committed /\ committed' = committed
  BY <1>2, MidFacts DEF AtRest, Committing
<1>4. c.key \in Keys /\ PositionOf(c) \in Position
  BY MathAssumption DEF OpenCommand, PositionOf, Position, Usd, UsdMin
<1>5. Opens(committed, c.key, PositionOf(c))
  BY <1>2, <1>3 DEF Opens, PositionOf, EngineState
<1>6. AtOpening' BY <1>2, <1>3, <1>4, <1>5 DEF AtOpening, EngineState
<1> QED
  BY <1>2, <1>3, <1>6 DEF Midway, AtRest, AtClosing, AtTick, AtSweep, AtPublish, HoldsLoss, Commits

LEMMA OpenUpsertMid ==
  ASSUME MidReady, Committing, NEW t \in Tasks, OpenUpsert(t)
  PROVE  Midway' /\ Commits
<1>1. /\ t = Client /\ req \in [Tasks -> Request] /\ pc \in [Tasks -> Labels] BY MidFacts
<1>2. /\ pc[Client] = "open_upsert" /\ pc'[Client] = "open_count" /\ Cur' = Cur
      /\ positions' = [positions EXCEPT ![Cur.key] = Cur.pos]
      /\ UNCHANGED <<markets, insurance, stats>>
  BY <1>1 DEF OpenUpsert, Goto, Cur
<1>3. committed' = committed BY <1>2 DEF Committing
<1>4. AtOpening' BY <1>2, <1>3, MidFacts DEF AtOpening
<1> QED
  BY <1>2, <1>3, <1>4 DEF Midway, AtRest, AtClosing, AtTick, AtSweep, AtPublish, HoldsLoss, Commits

LEMMA OpenCountMid ==
  ASSUME MidReady, Committing, NEW t \in Tasks, OpenCount(t)
  PROVE  Midway' /\ Commits
<1>1. /\ t = Client /\ pc \in [Tasks -> Labels] BY MidFacts
<1>2. /\ pc[Client] = "open_count" /\ pc'[Client] \in {"idle", "publish"}
      /\ stats' = [stats EXCEPT !.open_positions = @ + 1]
      /\ UNCHANGED <<positions, markets, insurance>>
  BY <1>1 DEF OpenCount, CountOpened, Reply, Goto
<1>3. /\ Cur.key \in Keys /\ Cur.pos \in Position /\ Opens(committed, Cur.key, Cur.pos)
      /\ positions = [committed.positions EXCEPT ![Cur.key] = Cur.pos]
      /\ markets = committed.markets /\ insurance = committed.insurance
      /\ stats = committed.stats
  BY <1>2, MidFacts DEF AtOpening
<1> DEFINE d == EngineState'
<1>4. /\ d.positions = [committed.positions EXCEPT ![Cur.key] = Cur.pos]
      /\ d.stats = [committed.stats EXCEPT !.open_positions = @ + 1]
      /\ d.markets = committed.markets /\ d.insurance = committed.insurance
  BY <1>2, <1>3 DEF EngineState
<1> HIDE DEF d
<1>5. WholeOpen(committed, d) BY <1>3, <1>4 DEF WholeOpen
<1> QED BY <1>2, <1>5, ReturnsWhole DEF Whole, d

LEMMA CloseRemoveMid ==
  ASSUME MidReady, Committing, NEW t \in Tasks, NEW k \in Keys, CloseRemove(t, k)
  PROVE  Midway' /\ Commits
<1>1. /\ t = Client /\ req \in [Tasks -> Request] /\ pc \in [Tasks -> Labels] BY MidFacts
<1>2. /\ pc[Client] = "idle" /\ pc'[Client] = "close_mark" /\ Cur'.key = k
      /\ positions[k] # None /\ positions' = [positions EXCEPT ![k] = None]
      /\ UNCHANGED <<markets, insurance, stats>>
  BY <1>1 DEF CloseRemove, Begin, Goto, Cur, Request
<1>3. EngineState = committed /\ committed' = committed
  BY <1>2, MidFacts DEF AtRest, Committing
<1>4. AtClosing' BY <1>2, <1>3 DEF AtClosing, EngineState
<1> QED
  BY <1>2, <1>3, <1>4 DEF Midway, AtRest, AtOpening, AtTick, AtSweep, AtPublish, HoldsLoss, Commits

LEMMA CloseMarkMid ==
  ASSUME MidReady, Committing, NEW t \in Tasks, CloseMark(t)
  PROVE  Midway' /\ Commits
<1>1. /\ t = Client /\ req \in [Tasks -> Request] /\ pc \in [Tasks -> Labels]
      /\ req[t] \in Request
  BY MidFacts
<1>2. pc[Client] = "close_mark" /\ UNCHANGED <<positions, markets, insurance, stats>>
  BY <1>1 DEF CloseMark
<1>3. /\ Cur.key \in Keys /\ committed.positions[Cur.key] # None
      /\ positions = [committed.positions EXCEPT ![Cur.key] = None]
      /\ markets = committed.markets /\ insurance = committed.insurance
      /\ stats = committed.stats
  BY <1>2, MidFacts DEF AtClosing
<1>4. CASE markets[Cur.key[2]] = None
  <2>1. pc'[Client] = "idle" BY <1>1, <1>4 DEF CloseMark, Abandon, Goto, Cur
  <2> DEFINE d == EngineState'
  <2>2. /\ d.positions = [committed.positions EXCEPT ![Cur.key] = None]
        /\ d.stats = committed.stats /\ d.markets = committed.markets
        /\ d.insurance = committed.insurance
    BY <1>2, <1>3 DEF EngineState
  <2> HIDE DEF d
  <2>3. WholeClose(committed, d) BY <1>3, <1>4, <2>2 DEF WholeClose
  <2> QED BY <2>1, <2>3, ReturnsWhole DEF Whole, d
<1>5. CASE markets[Cur.key[2]] # None
  <2>1. pc'[Client] = "close_count" /\ Cur' = Cur
    BY <1>1, <1>5 DEF CloseMark, Goto, Cur, Request
  <2>2. committed' = committed BY <2>1 DEF Committing
  <2>3. AtClosing' BY <1>2, <1>3, <1>5, <2>1, <2>2 DEF AtClosing
  <2> QED
    BY <2>1, <2>2, <2>3 DEF Midway, AtRest, AtOpening, AtTick, AtSweep, AtPublish, HoldsLoss, Commits
<1> QED BY <1>4, <1>5

LEMMA CloseCountMid ==
  ASSUME MidReady, Committing, NEW t \in Tasks, CloseCount(t)
  PROVE  Midway' /\ Commits
<1>1. /\ t = Client /\ pc \in [Tasks -> Labels] BY MidFacts
<1>2. /\ pc[Client] = "close_count" /\ pc'[Client] \in {"idle", "publish"}
      /\ stats' = [stats EXCEPT !.open_positions = CountRemoved]
      /\ UNCHANGED <<positions, markets, insurance>>
  BY <1>1 DEF CloseCount, Reply, Goto
<1>3. /\ Cur.key \in Keys /\ committed.positions[Cur.key] # None
      /\ positions = [committed.positions EXCEPT ![Cur.key] = None]
      /\ committed.markets[Cur.key[2]] # None
      /\ markets = committed.markets /\ insurance = committed.insurance
      /\ stats = committed.stats
  BY <1>2, MidFacts DEF AtClosing
<1>4. CountRemoved = FewerOpen(committed, 1)
  <2>1. stats.open_positions \in Nat BY <1>3, MidFacts DEF EngineStates
  <2> QED BY <1>3, <2>1 DEF CountRemoved, FewerOpen
<1> DEFINE d == EngineState'
<1>5. /\ d.positions = [committed.positions EXCEPT ![Cur.key] = None]
      /\ d.stats = [committed.stats EXCEPT !.open_positions = FewerOpen(committed, 1)]
      /\ d.markets = committed.markets /\ d.insurance = committed.insurance
  BY <1>2, <1>3, <1>4 DEF EngineState
<1> HIDE DEF d
<1>6. WholeClose(committed, d) BY <1>3, <1>5 DEF WholeClose
<1> QED BY <1>2, <1>6, ReturnsWhole DEF Whole, d

LEMMA UpdateMarketMid ==
  ASSUME MidReady, Committing, NEW t \in Tasks, NEW u \in View, UpdateMarket(t, u)
  PROVE  Midway' /\ Commits
<1> DEFINE m == [mark_price |-> u.mark_price, funding_rate_bps |-> u.funding_rate_bps]
           d == EngineState'
<1>1. /\ t = Client /\ pc \in [Tasks -> Labels] BY MidFacts
<1>2. /\ pc[Client] = "idle" /\ pc'[Client] \in {"idle", "publish"}
      /\ markets' = [markets EXCEPT ![u.symbol] = m]
      /\ UNCHANGED <<positions, insurance, stats>>
  BY <1>1 DEF UpdateMarket, Begin, Reply, Goto
<1>3. EngineState = committed BY <1>2, MidFacts DEF AtRest
<1>4. u.symbol \in Symbols /\ m \in MarketState BY DEF View, MarketState
<1>5. /\ d.markets = [committed.markets EXCEPT ![u.symbol] = m]
      /\ d.positions = committed.positions /\ d.insurance = committed.insurance
      /\ d.stats = committed.stats
  BY <1>2, <1>3 DEF EngineState
<1> HIDE DEF d, m
<1>6. WholeUpdate(committed, d) BY <1>4, <1>5 DEF WholeUpdate
<1> QED BY <1>2, <1>6, ReturnsWhole DEF Whole, d

LEMMA FundMarketMid ==
  ASSUME MidReady, Committing, NEW t \in Tasks, NEW s \in Symbols, FundMarket(t, s)
  PROVE  Midway' /\ Commits
<1>1. t = Client /\ pc \in [Tasks -> Labels] BY MidFacts
<1> QED BY <1>1, RestsMid DEF FundMarket, Begin, Goto

LEMMA LiqMarketMid ==
  ASSUME MidReady, Committing, NEW t \in Tasks, NEW s \in Symbols, LiqMarket(t, s)
  PROVE  Midway' /\ Commits
<1>1. t = Client /\ pc \in [Tasks -> Labels] BY MidFacts
<1> QED BY <1>1, RestsMid DEF LiqMarket, Begin, Goto

LEMMA PublishMid ==
  ASSUME MidReady, Committing, NEW t \in Tasks, Publish(t)
  PROVE  Midway' /\ Commits
<1>1. t = Client /\ pc \in [Tasks -> Labels] BY MidFacts
<1>2. /\ pc[Client] = "publish" /\ pc'[Client] \in {"idle", "publish"}
      /\ UNCHANGED <<positions, markets, insurance, stats>>
  BY <1>1 DEF Publish, Abandon, Goto
<1>3. EngineState' = EngineState BY <1>2 DEF EngineState
<1>4. EngineState' = committed \/ Whole(committed, EngineState')
  BY <1>2, <1>3, MidFacts DEF AtPublish
<1> QED BY <1>2, <1>4, ReturnsWhole

(* Funding.                                                                *)
LEMMA FundScanMid ==
  ASSUME MidReady, Committing, NEW t \in Tasks, FundScan(t)
  PROVE  Midway' /\ Commits
<1> DEFINE s == Market
<1>1. /\ t = Client /\ req \in [Tasks -> Request] /\ pc \in [Tasks -> Labels]
      /\ req[t] \in Request /\ committed \in EngineStates
  BY MidFacts
<1>2. pc[Client] = "fund_scan" /\ UNCHANGED <<positions, markets, insurance, stats>>
  BY <1>1 DEF FundScan
<1>3. EngineState = committed BY <1>2, MidFacts DEF AtRest
<1>4. CASE ByMarket(s) = {}
  <2>1. pc'[Client] = "idle" BY <1>1, <1>4 DEF FundScan, Reply, Goto, Market
  <2>2. EngineState' = committed BY <1>2, <1>3 DEF EngineState
  <2> QED BY <2>1, <2>2, ReturnsWhole
<1>5. CASE ByMarket(s) # {}
  <2>1. /\ pc'[Client] = "fund_upsert" /\ req'[Client].todo = ByMarket(s)
        /\ req'[Client].evs = req[Client].evs /\ Market' = s
    BY <1>1, <1>5 DEF FundScan, Goto, Request, Market
  <2>2. committed' = committed BY <2>1 DEF Committing
  <2>3. req[Client].evs = <<>>
    BY <1>2, NothingHeld DEF HoldsNoEvents, MidReady
  <2>4. TodoKeys' = KeysAt(committed, s)
    <3>1. \A k \in KeysAt(committed, s) : \E e \in ByMarket(s) : e.key = k
      <4> TAKE k \in KeysAt(committed, s)
      <4> DEFINE e == [key |-> k, pos |-> positions[k]]
      <4>1. e \in ByMarket(s) /\ e.key = k
        BY <1>3, ByMarketStored DEF KeysAt, EngineState
      <4> QED BY <4>1
    <3>2. \A e \in ByMarket(s) : e.key \in KeysAt(committed, s)
      BY <1>3, ByMarketStored DEF KeysAt, EngineState
    <3>3. KeysAt(committed, s) \subseteq Keys BY DEF KeysAt
    <3> QED BY <2>1, <3>1, <3>2, <3>3 DEF TodoKeys
  <2>5. Ticked' = {} BY <2>1, <2>2, <2>4 DEF Ticked
  <2>6. Cardinality(Ticked') = 0 BY <2>5, FS_EmptySet
  <2>7. positions' = Charged(committed, s, {})
    BY <1>1, <1>2, <1>3 DEF Charged, EngineState, EngineStates
  <2>8. Len(req'[Client].evs) = 0 BY <2>1, <2>3
  <2>9. /\ markets' = committed.markets /\ insurance' = committed.insurance
        /\ stats' = committed.stats
    BY <1>2, <1>3 DEF EngineState
  <2>10. AtTick'
    BY <2>1, <2>2, <2>4, <2>5, <2>6, <2>7, <2>8, <2>9 DEF AtTick
  <2> QED
    BY <2>1, <2>2, <2>10
       DEF Midway, AtRest, AtOpening, AtClosing, AtSweep, AtPublish, HoldsLoss, Commits
<1> QED BY <1>4, <1>5

LEMMA ViewNow ==
  ASSUME MidReady, pc[Client] \in HoldsView, markets = committed.markets
  PROVE  /\ Market \in Symbols /\ committed.markets[Market] # None
         /\ req[Client].view.mark_price = MarkAt(committed, Market)
         /\ req[Client].view.funding_rate_bps = committed.markets[Market].funding_rate_bps
         /\ req[Client].view \in View
         /\ IsFiniteSet(KeysAt(committed, Market))
<1>1. Client \in Tasks BY OnlyClient DEF MidReady
<1>2. req[Client].view \in View BY <1>1, Held DEF MidReady
<1>3. markets[Market] # None /\ req[Client].view = ViewOf(Market)
  BY DEF MidReady, SoloInv, ViewCurrent, Market
<1>4. /\ req[Client].view.mark_price = MarkAt(committed, Market)
      /\ req[Client].view.funding_rate_bps = committed.markets[Market].funding_rate_bps
  BY <1>3 DEF ViewOf, MarkAt
<1>5. Market \in Symbols BY <1>2 DEF View, Market
<1> QED BY <1>1, <1>2, <1>3, <1>4, <1>5, MidFacts

(* A snapshot still to visit is a position that the command found.         *)
LEMMA TodoSound ==
  ASSUME MidReady, NEW e \in req[Client].todo
  PROVE  /\ e.key \in TodoKeys /\ e.key \in Keys /\ e.pos \in Position /\ e.pos # None
         /\ positions[e.key] = e.pos
         /\ \A d \in req[Client].todo : d # e => d.key # e.key
<1>1. Client \in Tasks BY OnlyClient DEF MidReady
<1>2. e \in Snapshot BY <1>1, Held DEF MidReady
<1>3. positions[e.key] = e.pos /\ e.pos # None BY DEF MidReady, SoloInv, TodoStored
<1>4. \A d \in req[Client].todo : d # e => d.key # e.key
  BY <1>1, TodoDistinct DEF MidReady
<1> QED BY <1>2, <1>3, <1>4 DEF Snapshot, TodoKeys

LEMMA TodoLess ==
  ASSUME MidReady, NEW e \in req[Client].todo, req'[Client].todo = req[Client].todo \ {e}
  PROVE  TodoKeys' = TodoKeys \ {e.key}
<1>1. \A d \in req[Client].todo : d # e => d.key # e.key BY TodoSound
<1> QED BY <1>1 DEF TodoKeys

LEMMA FundUpsertMid ==
  ASSUME MidReady, Committing, NEW t \in Tasks, FundUpsert(t)
  PROVE  Midway' /\ Commits
<1> DEFINE s == Market
           v == req[Client].view
<1>1. /\ t = Client /\ req \in [Tasks -> Request] /\ pc \in [Tasks -> Labels]
      /\ req[t] \in Request /\ committed \in EngineStates
  BY MidFacts
<1>2. pc[Client] = "fund_upsert" /\ UNCHANGED <<markets, insurance, stats>>
  BY <1>1 DEF FundUpsert
<1>3. PICK e \in req[Client].todo :
        LET payment == FundingPayment(e.pos, v.mark_price, v.funding_rate_bps)
        IN  /\ positions' = [positions EXCEPT ![e.key] = Settled(e.pos, payment)]
            /\ req' = [req EXCEPT ![Client].todo = req[Client].todo \ {e},
                 ![Client].evs = Append(@, [type |-> "FundingSettled", key |-> e.key,
                                            amount |-> payment])]
            /\ Goto(Client, IF req[Client].todo \ {e} = {} THEN "fund_count" ELSE "fund_upsert")
  BY <1>1 DEF FundUpsert
<1> DEFINE payment == FundingPayment(e.pos, v.mark_price, v.funding_rate_bps)
           ev == [type |-> "FundingSettled", key |-> e.key, amount |-> payment]
           k == e.key
<1>4. pc'[Client] \in {"fund_upsert", "fund_count"} BY <1>1, <1>3 DEF Goto
<1>5. req'[Client].todo = req[Client].todo \ {e} /\ Market' = s
  BY <1>1, <1>3 DEF Request, Market
<1>6. req'[Client].evs = Append(req[Client].evs, ev) BY <1>1, <1>3 DEF Request
<1>7. req[Client].evs \in Seq(Event) BY <1>1, Held DEF MidReady
<1>8. Len(req'[Client].evs) = Len(req[Client].evs) + 1
  <2> HIDE DEF ev
  <2> QED BY <1>6, <1>7
<1>9. /\ TodoKeys \subseteq KeysAt(committed, s)
      /\ positions = Charged(committed, s, Ticked)
      /\ Len(req[Client].evs) = Cardinality(Ticked)
      /\ markets = committed.markets /\ insurance = committed.insurance
      /\ stats = committed.stats
  BY <1>2, MidFacts DEF AtTick
<1>10. k \in TodoKeys /\ k \in Keys /\ positions[k] = e.pos BY TodoSound
<1>11. TodoKeys' = TodoKeys \ {k} BY <1>5, TodoLess
<1>12. committed' = committed BY <1>4 DEF Committing
<1>13. Ticked' = Ticked \cup {k} /\ k \notin Ticked
  BY <1>5, <1>9, <1>10, <1>11, <1>12 DEF Ticked
<1>14. payment = DueAt(committed, s, k) /\ positions[k] = committed.positions[k]
  <2>1. positions[k] = committed.positions[k] BY <1>9, <1>10, <1>13 DEF Charged
  <2>2. /\ v.mark_price = MarkAt(committed, s)
        /\ v.funding_rate_bps = committed.markets[s].funding_rate_bps
    BY <1>2, <1>9, ViewNow DEF HoldsView
  <2> QED BY <1>10, <2>1, <2>2 DEF DueAt
<1>15. positions' = Charged(committed, s, Ticked \cup {k})
  <2>1. positions' = [positions EXCEPT ![k] = Settled(committed.positions[k], DueAt(committed, s, k))]
    BY <1>3, <1>10, <1>14
  <2> HIDE DEF s, k
  <2> QED BY <1>9, <1>13, <2>1 DEF Charged
<1>16. Cardinality(Ticked') = Cardinality(Ticked) + 1
  <2>1. Ticked \subseteq KeysAt(committed, s) BY DEF Ticked
  <2>2. IsFiniteSet(KeysAt(committed, s)) BY <1>2, <1>9, ViewNow DEF HoldsView
  <2>3. IsFiniteSet(Ticked) BY <2>1, <2>2, FS_Subset
  <2> HIDE DEF k
  <2> QED BY <1>13, <2>3, FS_AddElement
<1>17. AtTick'
  BY <1>2, <1>5, <1>8, <1>9, <1>11, <1>12, <1>13, <1>15, <1>16 DEF AtTick
<1> QED
  BY <1>4, <1>12, <1>17
     DEF Midway, AtRest, AtOpening, AtClosing, AtSweep, AtPublish, HoldsLoss, Commits

LEMMA FundCountMid ==
  ASSUME MidReady, Committing, NEW t \in Tasks, FundCount(t)
  PROVE  Midway' /\ Commits
<1> DEFINE s == Market
           d == EngineState'
<1>1. /\ t = Client /\ pc \in [Tasks -> Labels] BY MidFacts
<1>2. /\ pc[Client] = "fund_count" /\ pc'[Client] \in {"idle", "publish"}
      /\ stats' = [stats EXCEPT !.funding_settlements = @ + Len(req[Client].evs)]
      /\ UNCHANGED <<positions, markets, insurance>>
  BY <1>1 DEF FundCount, Reply, Goto
<1>3. /\ positions = Charged(committed, s, Ticked)
      /\ Len(req[Client].evs) = Cardinality(Ticked)
      /\ markets = committed.markets /\ insurance = committed.insurance
      /\ stats = committed.stats
  BY <1>2, MidFacts DEF AtTick
<1>4. TodoKeys = {} BY <1>2 DEF MidReady, SoloInv, TodoEmpty, TodoKeys
<1>5. Ticked = KeysAt(committed, s) BY <1>4 DEF Ticked
<1>6. s \in Symbols /\ committed.markets[s] # None BY <1>2, <1>3, ViewNow DEF HoldsView
<1>7. /\ d.positions = Charged(committed, s, KeysAt(committed, s))
      /\ d.stats = [committed.stats EXCEPT
                      !.funding_settlements = @ + Cardinality(KeysAt(committed, s))]
      /\ d.markets = committed.markets /\ d.insurance = committed.insurance
  BY <1>2, <1>3, <1>5 DEF EngineState
<1> HIDE DEF d, s
<1>8. WholeAccrue(committed, d) BY <1>6, <1>7 DEF WholeAccrue
<1> QED BY <1>2, <1>8, ReturnsWhole DEF Whole, d

(* Sweeps.                                                                 *)
LEMMA LiqScanMid ==
  ASSUME MidReady, Committing, NEW t \in Tasks, LiqScan(t)
  PROVE  Midway' /\ Commits
<1> DEFINE s == Market
           found == Underwater(ByMarket(s), req[Client].view.mark_price)
<1>1. /\ t = Client /\ req \in [Tasks -> Request] /\ pc \in [Tasks -> Labels]
      /\ req[t] \in Request /\ committed \in EngineStates
  BY MidFacts
<1>2. pc[Client] = "liq_scan" /\ UNCHANGED <<positions, markets, insurance, stats>>
  BY <1>1 DEF LiqScan
<1>3. EngineState = committed BY <1>2, MidFacts DEF AtRest
<1>4. CASE found = {}
  <2>1. pc'[Client] = "idle" BY <1>1, <1>4 DEF LiqScan, Reply, Goto, Market
  <2>2. EngineState' = committed BY <1>2, <1>3 DEF EngineState
  <2> QED BY <2>1, <2>2, ReturnsWhole
<1>5. CASE found # {}
  <2>1. /\ pc'[Client] = "liq_remove" /\ req'[Client].todo = found
        /\ req'[Client].social = req[Client].social /\ Market' = s
    <3>1. req' = [req EXCEPT ![Client].todo = found] /\ Goto(Client, "liq_remove")
      BY <1>1, <1>5 DEF LiqScan, Market
    <3> HIDE DEF found
    <3> QED BY <1>1, <3>1 DEF Goto, Request, Market
  <2>2. committed' = committed BY <2>1 DEF Committing
  <2>3. req[Client].social = 0
    BY <1>1, <1>2 DEF MidReady, TasksInOrder, InOrder, HoldsLoss
  <2>4. s \in Symbols /\ req[Client].view.mark_price = MarkAt(committed, s)
    BY <1>2, <1>3, ViewNow DEF HoldsView, EngineState
  <2>5. TodoKeys' = SunkAt(committed, s)
    <3>1. \A k \in SunkAt(committed, s) : \E e \in found : e.key = k
      <4> TAKE k \in SunkAt(committed, s)
      <4> DEFINE e == [key |-> k, pos |-> positions[k]]
      <4>1. e \in ByMarket(s) /\ e.key = k /\ e.pos = committed.positions[k]
        BY <1>3, ByMarketStored DEF SunkAt, KeysAt, EngineState
      <4>2. IsLiquidatable(e.pos, req[Client].view.mark_price, Params)
        BY <2>4, <4>1 DEF SunkAt
      <4>3. e \in found BY <4>1, <4>2 DEF Underwater
      <4> QED BY <4>1, <4>3
    <3>2. ASSUME NEW e \in found PROVE e.key \in SunkAt(committed, s)
      <4>1. e \in ByMarket(s) /\ IsLiquidatable(e.pos, req[Client].view.mark_price, Params)
        BY <3>2 DEF Underwater
      <4>2. e.key \in KeysAt(committed, s) /\ e.pos = committed.positions[e.key]
        BY <1>3, <4>1, ByMarketStored DEF KeysAt, EngineState
      <4> QED BY <2>4, <4>1, <4>2 DEF SunkAt
    <3>3. SunkAt(committed, s) \subseteq Keys BY DEF SunkAt, KeysAt
    <3> HIDE DEF found
    <3> QED BY <2>1, <3>1, <3>2, <3>3 DEF TodoKeys
  <2>6. Gone' = {} /\ SettledKeys' = {} /\ CountedKeys' = {}
    BY <2>1, <2>2, <2>5 DEF Gone, SettledKeys, CountedKeys
  <2>7. positions' = Cleared(committed, {})
    BY <1>1, <1>2, <1>3 DEF Cleared, EngineState, EngineStates
  <2>8. stats' = Counted(committed, 0)
    <3>1. committed.stats \in [open_positions : Nat, liquidations : Nat,
                               funding_settlements : Nat, adl_events : Nat]
      BY <1>1 DEF EngineStates
    <3>2. FewerOpen(committed, 0) = committed.stats.open_positions
      BY <3>1 DEF FewerOpen
    <3>3. committed.stats.liquidations + 0 = committed.stats.liquidations BY <3>1
    <3>4. Counted(committed, 0) = committed.stats
      <4> DEFINE n == committed.stats
      <4>1. Counted(committed, 0) = [n EXCEPT !.open_positions = n.open_positions,
                                              !.liquidations = n.liquidations]
        BY <3>2, <3>3 DEF Counted
      <4> HIDE DEF n
      <4> QED BY <3>1, <4>1 DEF n
    <3> QED BY <1>2, <1>3, <3>4 DEF EngineState
  <2>9. Cardinality(CountedKeys') = 0 BY <2>6, FS_EmptySet
  <2>10. SweptFund'
    <3>1. Paid(committed, s, {}, 0, committed.insurance) BY <1>1, <2>4, PaidNothing
    <3>2. insurance' = committed.insurance BY <1>2, <1>3 DEF EngineState
    <3> QED BY <2>1, <2>2, <2>3, <2>6, <3>1, <3>2 DEF SweptFund
  <2>11. AtSweep'
    BY <1>2, <1>3, <2>1, <2>2, <2>5, <2>6, <2>7, <2>8, <2>9, <2>10 DEF AtSweep, EngineState
  <2> QED
    BY <2>1, <2>2, <2>11
       DEF Midway, AtRest, AtOpening, AtClosing, AtTick, AtPublish, HoldsLoss, Commits
<1> QED BY <1>4, <1>5

LEMMA LiqRemoveMid ==
  ASSUME MidReady, Committing, NEW t \in Tasks, LiqRemove(t)
  PROVE  Midway' /\ Commits
<1> DEFINE s == Market
<1>1. /\ t = Client /\ req \in [Tasks -> Request] /\ pc \in [Tasks -> Labels]
      /\ req[t] \in Request /\ committed \in EngineStates
  BY MidFacts
<1>2. /\ pc[Client] = "liq_remove" /\ pc'[Client] = "liq_settle"
      /\ UNCHANGED <<markets, insurance, stats>>
  BY <1>1 DEF LiqRemove, Goto
<1>3. PICK e \in req[Client].todo :
        /\ positions' = [positions EXCEPT ![e.key] = None]
        /\ req' = [req EXCEPT ![Client].todo = @ \ {e}, ![Client].cur = e]
  BY <1>1 DEF LiqRemove
<1> DEFINE k == e.key
<1>4. /\ req'[Client].todo = req[Client].todo \ {e} /\ Cur' = e /\ Market' = s
      /\ req'[Client].social = req[Client].social
  BY <1>1, <1>3 DEF Request, Cur, Market
<1>5. /\ TodoKeys \subseteq SunkAt(committed, s)
      /\ positions = Cleared(committed, Gone) /\ markets = committed.markets
      /\ stats = Counted(committed, Cardinality(CountedKeys))
      /\ SweptFund
  BY <1>2, MidFacts DEF AtSweep, HoldsLoss
<1>6. k \in TodoKeys /\ k \in Keys /\ positions[k] = e.pos BY TodoSound
<1>7. TodoKeys' = TodoKeys \ {k} BY <1>4, TodoLess
<1>8. committed' = committed BY <1>2 DEF Committing
<1>9. Gone' = Gone \cup {k} /\ k \notin Gone
  BY <1>4, <1>5, <1>6, <1>7, <1>8 DEF Gone
<1>10. /\ SettledKeys' = SettledKeys /\ CountedKeys' = CountedKeys
  BY <1>2, <1>4, <1>9 DEF SettledKeys, CountedKeys
<1>11. Cur'.pos = committed.positions[k] /\ Cur'.key \in Gone'
  BY <1>4, <1>5, <1>6, <1>9 DEF Cleared
<1>12. positions' = Cleared(committed, Gone')
  <2>1. positions' = [positions EXCEPT ![k] = None] BY <1>3
  <2> HIDE DEF k
  <2> QED BY <1>5, <1>6, <1>9, <2>1 DEF Cleared
<1>13. SweptFund' BY <1>2, <1>4, <1>5, <1>8, <1>10 DEF SweptFund
<1>14. AtSweep'
  BY <1>2, <1>4, <1>5, <1>7, <1>8, <1>10, <1>11, <1>12, <1>13 DEF AtSweep
<1> QED
  BY <1>2, <1>8, <1>14
     DEF Midway, AtRest, AtOpening, AtClosing, AtTick, AtPublish, HoldsLoss, Commits

(* What LiqSettle does to the fund and to the sweep's total.               *)
LEMMA LiqSettleFund ==
  ASSUME TypeOK, insurance >= 0, NEW t \in Tasks, LiqSettle(t)
  PROVE  LET q == PositionEquity(req[t].cur.pos, req[t].view.mark_price)
             fee == LiquidationFee(req[t].cur.pos, req[t].view.mark_price, Params)
         IN  /\ req'[t].view = req[t].view /\ req'[t].cur = req[t].cur
             /\ req'[t].todo = req[t].todo
             /\ ~(q < 0) => /\ insurance' = SatAdd(insurance, IF fee < q THEN fee ELSE q)
                            /\ req'[t].social = req[t].social
             /\ q < 0 => \E drawn, x \in Due :
                  /\ drawn + x = SatNeg(q) /\ insurance' = insurance - drawn
                  /\ insurance' >= 0 /\ (x > 0 => insurance' = 0)
                  /\ req'[t].social = SatAdd(req[t].social, x)
<1> DEFINE q == PositionEquity(req[t].cur.pos, req[t].view.mark_price)
           fee == LiquidationFee(req[t].cur.pos, req[t].view.mark_price, Params)
<1>1. /\ req[t] \in Request /\ req[t].cur \in Snapshot /\ req[t].view \in View
      /\ req \in [Tasks -> Request]
  BY Held DEF LiqSettle, HoldsView, HoldsPosition, TypeOK, LocalsOK
<1>2. q \in Usd /\ q \in Int
  BY <1>1, EquityType, MathAssumption DEF Usd, UsdMin, Snapshot, View
<1>3. CASE q < 0
  <2> DEFINE c == Cover(insurance, SatNeg(q))
             e == Liquidated(req[t].cur.key, "Bankruptcy", c.drawn, c.socialized)
  <2>1. SatNeg(q) \in Usd /\ SatNeg(q) >= 0 /\ insurance \in Usd
    BY <1>2, <1>3, SaturateType DEF SatNeg, TypeOK, StateOK
  <2>2. SettleBankrupt(t, q) BY <1>3 DEF LiqSettle
  <2>3. /\ insurance' = c.balance
        /\ req' = [req EXCEPT ![t].social = SatAdd(@, c.socialized), ![t].evs = Append(@, e)]
    BY <2>2 DEF SettleBankrupt
  <2> HIDE DEF q
  <2>4. /\ c.drawn \in Due /\ c.socialized \in Due /\ c.drawn + c.socialized = SatNeg(q)
        /\ c.balance >= 0 /\ c.balance = insurance - c.drawn
        /\ c.socialized > 0 => c.balance = 0
    BY <2>1, CoverSplits, DueIsUsd
  <2> HIDE DEF c, e
  <2>5. /\ req'[t].view = req[t].view /\ req'[t].cur = req[t].cur
        /\ req'[t].todo = req[t].todo
        /\ req'[t].social = SatAdd(req[t].social, c.socialized)
    BY <1>1, <2>3 DEF Request
  <2> QED BY <1>3, <2>3, <2>4, <2>5 DEF q
<1>4. CASE ~(q < 0)
  <2> DEFINE e == Liquidated(req[t].cur.key, "MaintenanceBreach", 0, 0)
  <2>1. SettleSolvent(t, q) BY <1>4 DEF LiqSettle
  <2>2. /\ insurance' = SatAdd(insurance, IF fee < q THEN fee ELSE q)
        /\ req' = [req EXCEPT ![t].evs = Append(@, e)]
    BY <2>1 DEF SettleSolvent, Credit
  <2> HIDE DEF q, fee, e
  <2>3. /\ req'[t].view = req[t].view /\ req'[t].cur = req[t].cur
        /\ req'[t].todo = req[t].todo /\ req'[t].social = req[t].social
    BY <1>1, <2>2 DEF Request
  <2> QED BY <1>4, <2>2, <2>3 DEF q, fee
<1> QED BY <1>3, <1>4

LEMMA LiqSettleMid ==
  ASSUME MidReady, insurance >= 0, Committing, NEW t \in Tasks, LiqSettle(t)
  PROVE  Midway' /\ Commits
<1> DEFINE s == Market
           k == Cur.key
           q == EquityAt(committed, s, k)
           K == Gone \ {k}
<1>1. /\ t = Client /\ req \in [Tasks -> Request] /\ pc \in [Tasks -> Labels]
      /\ req[t] \in Request /\ committed \in EngineStates
  BY MidFacts
<1>2. /\ pc[Client] = "liq_settle" /\ pc'[Client] = "liq_count"
      /\ UNCHANGED <<positions, markets, stats>>
  BY <1>1 DEF LiqSettle, Goto
<1>3. /\ TodoKeys \subseteq SunkAt(committed, s)
      /\ positions = Cleared(committed, Gone) /\ markets = committed.markets
      /\ stats = Counted(committed, Cardinality(CountedKeys))
      /\ SweptFund
      /\ k \in Gone /\ Cur.pos = committed.positions[k]
  BY <1>2, MidFacts DEF AtSweep, HoldsLoss
<1>4. /\ s \in Symbols /\ committed.markets[s] # None
      /\ req[Client].view.mark_price = MarkAt(committed, s)
      /\ IsFiniteSet(KeysAt(committed, s))
  BY <1>2, <1>3, ViewNow DEF HoldsView
<1>5. /\ PositionEquity(req[t].cur.pos, req[t].view.mark_price) = q
      /\ LiquidationFee(req[t].cur.pos, req[t].view.mark_price, Params)
           = LiquidationFee(committed.positions[k], MarkAt(committed, s), Params)
  BY <1>1, <1>3, <1>4 DEF EquityAt, Cur
<1>6. committed' = committed BY <1>2 DEF Committing
<1>7. req'[t].view = req[t].view /\ req'[t].cur = req[t].cur /\ req'[t].todo = req[t].todo
  BY LiqSettleFund DEF MidReady
<1>8. Market' = s /\ Cur' = Cur /\ TodoKeys' = TodoKeys
  BY <1>1, <1>7 DEF Market, Cur, TodoKeys
<1>9. Gone' = Gone BY <1>6, <1>8 DEF Gone
<1>10. /\ SettledKeys = K /\ SettledKeys' = K \cup {k} /\ CountedKeys' = CountedKeys
       /\ k \notin K
  BY <1>2, <1>3, <1>8, <1>9 DEF SettledKeys, CountedKeys
<1>11. K \in SUBSET SunkAt(committed, s) /\ k \in SunkAt(committed, s) /\ k \in Keys
  BY <1>3 DEF Gone, SunkAt, KeysAt
<1>12. PICK social \in Nat : /\ Paid(committed, s, K, social, insurance)
                             /\ social = 0 <=> req[Client].social = 0
  BY <1>3, <1>10 DEF SweptFund
<1>13. q \in Usd /\ q \in Int
  <2>1. q \in Usd BY <1>1, <1>4, <1>11, SunkFinite
  <2> QED BY <2>1, MathAssumption DEF Usd, UsdMin
<1>14. req[t].social \in Due /\ UsdMax \in Nat /\ insurance \in Nat
  <2>1. req[t].social \in Due BY Held DEF MidReady
  <2>2. insurance \in Usd BY DEF MidReady, TypeOK, StateOK
  <2> QED BY <2>1, <2>2, MathAssumption DEF Usd, UsdMin
<1>15. SweptFund'
  <2>1. CASE ~(q < 0)
    <3> DEFINE x == FeeAt(committed, s)[k]
    <3>1. insurance' = SatAdd(insurance, x) /\ req'[t].social = req[t].social
      BY <1>5, <1>11, <2>1, LiqSettleFund DEF FeeAt, MidReady
    <3>2. q >= 0 BY <1>13, <2>1
    <3>3. x \in Nat BY <1>1, <1>4, <1>11, <3>2, SunkFinite
    <3>4. Paid(committed, s, K \cup {k}, social, AtMost(insurance + x))
      BY <1>1, <1>4, <1>10, <1>11, <1>12, <3>2, PaidFee
    <3> HIDE DEF x
    <3>5. insurance' = AtMost(insurance + x)
      BY <1>14, <3>1, <3>3, MathAssumption DEF SatAdd, Saturate, UsdMin, AtMost
    <3> HIDE DEF K, k, s
    <3> QED BY <1>1, <1>6, <1>8, <1>10, <1>12, <3>1, <3>4, <3>5 DEF SweptFund, s
  <2>2. CASE q < 0
    <3>1. PICK drawn \in Due, x \in Due :
            /\ drawn + x = SatNeg(q) /\ insurance' = insurance - drawn
            /\ insurance' >= 0 /\ (x > 0 => insurance' = 0)
            /\ req'[t].social = SatAdd(req[t].social, x)
      BY <1>5, <2>2, LiqSettleFund DEF MidReady
    <3>2. drawn \in Nat /\ x \in Nat BY <3>1, DueIsUsd
    <3>3. LossAt(committed, s)[k] = SatNeg(q) BY <1>11 DEF LossAt
    <3>4. Paid(committed, s, K \cup {k}, social + x, insurance - drawn)
      BY <1>1, <1>4, <1>10, <1>11, <1>12, <2>2, <3>1, <3>2, <3>3, PaidLoss
    <3>5. social + x = 0 <=> req'[t].social = 0
      <4>1. social + x = 0 <=> req[t].social + x = 0
        BY <1>1, <1>12, <1>14, <3>2 DEF Due
      <4>2. SatAdd(req[t].social, x) = 0 <=> req[t].social + x = 0
        BY <1>14, <3>1, <3>2, MathAssumption DEF SatAdd, Saturate, UsdMin, Due
      <4> QED BY <3>1, <4>1, <4>2
    <3>6. social + x \in Nat BY <3>2
    <3> HIDE DEF K, k, s, q
    <3> QED BY <1>1, <1>6, <1>8, <1>10, <3>1, <3>4, <3>5, <3>6 DEF SweptFund, s
  <2> QED BY <2>1, <2>2
<1>16. AtSweep'
  BY <1>2, <1>3, <1>6, <1>8, <1>9, <1>10, <1>15 DEF AtSweep
<1> QED
  BY <1>2, <1>6, <1>16
     DEF Midway, AtRest, AtOpening, AtClosing, AtTick, AtPublish, HoldsLoss, Commits

LEMMA CountedOneMore ==
  ASSUME NEW c \in EngineStates, NEW n \in Nat, stats = Counted(c, n)
  PROVE  [stats EXCEPT !.open_positions = CountRemoved, !.liquidations = @ + 1]
           = Counted(c, n + 1)
<1>1. c.stats \in [open_positions : Nat, liquidations : Nat,
                   funding_settlements : Nat, adl_events : Nat]
  BY DEF EngineStates
<1>2. /\ stats.open_positions = FewerOpen(c, n)
      /\ stats.liquidations = c.stats.liquidations + n
  BY <1>1 DEF Counted
<1>3. CountRemoved = FewerOpen(c, n + 1) BY <1>1, <1>2 DEF CountRemoved, FewerOpen
<1>4. (c.stats.liquidations + n) + 1 = c.stats.liquidations + (n + 1) BY <1>1
<1> QED BY <1>1, <1>2, <1>3, <1>4 DEF Counted

LEMMA LiqCountMid ==
  ASSUME MidReady, Committing, NEW t \in Tasks, LiqCount(t)
  PROVE  Midway' /\ Commits
<1> DEFINE s == Market
           k == Cur.key
           n == Cardinality(CountedKeys)
<1>1. /\ t = Client /\ pc \in [Tasks -> Labels] /\ committed \in EngineStates
  BY MidFacts
<1>2. /\ pc[Client] = "liq_count" /\ pc'[Client] \in {"liq_remove", "liq_finish"}
      /\ stats' = [stats EXCEPT !.open_positions = CountRemoved, !.liquidations = @ + 1]
      /\ UNCHANGED <<positions, markets, insurance, req>>
  BY <1>1 DEF LiqCount, Goto
<1>3. /\ TodoKeys \subseteq SunkAt(committed, s)
      /\ positions = Cleared(committed, Gone) /\ markets = committed.markets
      /\ stats = Counted(committed, n)
      /\ SweptFund /\ k \in Gone
  BY <1>2, MidFacts DEF AtSweep, HoldsLoss
<1>4. committed' = committed BY <1>2 DEF Committing
<1>5. Market' = s /\ Cur' = Cur /\ TodoKeys' = TodoKeys /\ req' = req
  BY <1>2 DEF Market, Cur, TodoKeys
<1>6. Gone' = Gone BY <1>4, <1>5 DEF Gone
<1>7. /\ SettledKeys' = SettledKeys /\ CountedKeys' = CountedKeys \cup {k} /\ k \notin CountedKeys
  BY <1>2, <1>3, <1>5, <1>6 DEF SettledKeys, CountedKeys
<1>8. Cardinality(CountedKeys') = n + 1 /\ n \in Nat
  <2>1. s \in Symbols /\ IsFiniteSet(KeysAt(committed, s))
    BY <1>2, <1>3, ViewNow DEF HoldsView
  <2>2. CountedKeys \subseteq KeysAt(committed, s)
    BY DEF CountedKeys, Gone, SunkAt
  <2>3. IsFiniteSet(CountedKeys) BY <2>1, <2>2, FS_Subset
  <2> HIDE DEF k
  <2> QED BY <1>7, <2>3, FS_AddElement, FS_CardinalityType
<1>9. stats' = Counted(committed, Cardinality(CountedKeys'))
  BY <1>1, <1>2, <1>3, <1>8, CountedOneMore
<1>10. SweptFund' BY <1>2, <1>3, <1>4, <1>5, <1>7 DEF SweptFund
<1>11. AtSweep'
  BY <1>2, <1>3, <1>4, <1>5, <1>6, <1>9, <1>10 DEF AtSweep
<1> QED
  BY <1>2, <1>4, <1>11
     DEF Midway, AtRest, AtOpening, AtClosing, AtTick, AtPublish, HoldsLoss, Commits

LEMMA LiqFinishMid ==
  ASSUME MidReady, Committing, NEW t \in Tasks, LiqFinish(t)
  PROVE  Midway' /\ Commits
<1> DEFINE s == Market
           d == EngineState'
           K == SunkAt(committed, s)
<1>1. /\ t = Client /\ pc \in [Tasks -> Labels] /\ committed \in EngineStates
  BY MidFacts
<1>2. /\ pc[Client] = "liq_finish" /\ pc'[Client] \in {"idle", "publish"}
      /\ stats' = IF req[Client].social # 0
                  THEN [stats EXCEPT !.adl_events = @ + 1] ELSE stats
      /\ UNCHANGED <<positions, markets, insurance>>
  BY <1>1 DEF LiqFinish, Reply, Goto
<1>3. /\ positions = Cleared(committed, Gone) /\ markets = committed.markets
      /\ stats = Counted(committed, Cardinality(CountedKeys))
      /\ SweptFund
  BY <1>2, MidFacts DEF AtSweep, HoldsLoss
<1>4. TodoKeys = {} BY <1>2 DEF MidReady, SoloInv, TodoEmpty, TodoKeys
<1>5. Gone = K /\ SettledKeys = K /\ CountedKeys = K
  BY <1>2, <1>4 DEF Gone, SettledKeys, CountedKeys
<1>6. s \in Symbols /\ committed.markets[s] # None BY <1>2, <1>3, ViewNow DEF HoldsView
<1>7. PICK social \in Nat : /\ Paid(committed, s, K, social, insurance)
                            /\ social = 0 <=> req[Client].social = 0
  BY <1>3, <1>5 DEF SweptFund
<1>8. stats' = [stats EXCEPT !.adl_events = IF social > 0 THEN @ + 1 ELSE @]
  <2>1. stats \in [open_positions : Nat, liquidations : Nat,
                   funding_settlements : Nat, adl_events : Nat]
    BY DEF MidReady, TypeOK, StateOK
  <2> QED BY <1>2, <1>7, <2>1
<1>9. /\ d.positions = Cleared(committed, K) /\ d.markets = committed.markets
      /\ Paid(committed, s, K, social, d.insurance)
      /\ d.stats = [Counted(committed, Cardinality(K)) EXCEPT
                      !.adl_events = IF social > 0 THEN @ + 1 ELSE @]
  BY <1>2, <1>3, <1>5, <1>7, <1>8 DEF EngineState
<1> HIDE DEF d, s
<1>10. WholeSweep(committed, d) BY <1>6, <1>9 DEF WholeSweep
<1> QED BY <1>2, <1>10, ReturnsWhole DEF Whole, d

LEMMA StartMid ==
  ASSUME MidReady, insurance >= 0, Committing, NEW t \in Tasks, AnyStart(t) \/ Continue(t)
  PROVE  Midway' /\ Commits
<1>1. CASE AnyStart(t)
  BY <1>1, OpenGetMid, CloseRemoveMid, UpdateMarketMid, FundMarketMid, LiqMarketMid DEF AnyStart
<1>2. CASE Continue(t)
  BY <1>2, OpenUpsertMid, OpenCountMid, CloseMarkMid, CloseCountMid, FundScanMid, FundUpsertMid,
     FundCountMid, LiqScanMid, LiqRemoveMid, LiqSettleMid, LiqCountMid, LiqFinishMid, PublishMid
     DEF Continue
<1> QED BY <1>1, <1>2

LEMMA StaysMid ==
  ASSUME MidReady, Committing \/ committed' = committed, UNCHANGED vars
  PROVE  Midway' /\ Commits
<1>1. EngineState' = EngineState /\ pc'[Client] = pc[Client] /\ UNCHANGED vars
  BY DEF EngineState, vars
<1>2. committed' = committed
  BY <1>1, MidFacts, OnlyClient DEF Committing, AtRest, MidReady
<1>3. /\ Cur' = Cur /\ Market' = Market /\ TodoKeys' = TodoKeys /\ req' = req
      /\ UNCHANGED <<positions, markets, insurance, stats>>
  BY <1>1 DEF Cur, Market, TodoKeys, vars
<1>4. Gone' = Gone /\ SettledKeys' = SettledKeys /\ CountedKeys' = CountedKeys /\ Ticked' = Ticked
  BY <1>1, <1>2, <1>3 DEF Gone, SettledKeys, CountedKeys, Ticked
<1>5. AtRest' /\ AtOpening' /\ AtClosing' /\ AtPublish'
  BY <1>1, <1>2, <1>3 DEF MidReady, Midway, AtRest, AtOpening, AtClosing, AtPublish
<1>6. AtTick' BY <1>1, <1>2, <1>3, <1>4 DEF MidReady, Midway, AtTick
<1>7. AtSweep' BY <1>1, <1>2, <1>3, <1>4 DEF MidReady, Midway, AtSweep, SweptFund
<1> QED BY <1>2, <1>5, <1>6, <1>7 DEF Midway, Commits

LEMMA MidStep ==
  ASSUME MidReady, insurance >= 0, RunInv, [RunNext]_runVars
  PROVE  Midway' /\ Commits
<1>1. CASE UNCHANGED runVars BY <1>1, StaysMid DEF runVars
<1>2. CASE RunNext
  <2>1. Quiescent' <=> pc'[Client] = "idle" BY OnlyClient DEF MidReady, Quiescent
  <2>2. Committing BY <1>2, <2>1 DEF RunNext, Committing
  <2>3. CASE UNCHANGED vars BY <2>2, <2>3, StaysMid
  <2>4. CASE Works BY <2>2, <2>4, StartMid DEF Works
  <2> QED BY <1>2, <2>3, <2>4, RunStepWorks
<1> QED BY <1>1, <1>2

(* What a command leaves is a state of the engine.                         *)
LEMMA CommittedStep ==
  ASSUME CommittedOK, TypeOK', (insurance >= 0)', BookFinite', [RunNext]_runVars
  PROVE  CommittedOK'
<1>1. CASE committed' = committed BY <1>1 DEF CommittedOK
<1>2. CASE committed' = EngineState'
  <2>1. EngineState' \in EngineStates
    <3>1. insurance' \in 0 .. UsdMax BY MathAssumption DEF TypeOK, StateOK, Usd, UsdMin
    <3> QED BY <3>1 DEF TypeOK, StateOK, EngineState, EngineStates
  <2>2. ASSUME NEW s \in Symbols PROVE IsFiniteSet(KeysAt(EngineState', s))
    <3>1. KeysAt(EngineState', s) \subseteq OpenKeys' BY DEF KeysAt, EngineState, OpenKeys
    <3> QED BY <3>1, FS_Subset DEF BookFinite
  <2> QED BY <1>2, <2>1, <2>2 DEF CommittedOK
<1> QED BY <1>1, <1>2 DEF RunNext, runVars

LEMMA MidStarts == ASSUME OneAtATime PROVE RunInit => CommittedOK /\ Midway
<1> SUFFICES ASSUME RunInit PROVE CommittedOK /\ Midway
  OBVIOUS
<1>1. Init /\ committed = EngineState BY DEF RunInit
<1>2. pc[Client] = "idle" BY <1>1, OnlyClient DEF Init
<1>3. Midway
  BY <1>1, <1>2 DEF Midway, AtRest, AtOpening, AtClosing, AtTick, AtSweep, AtPublish, HoldsLoss
<1>4. EngineState \in EngineStates
  BY <1>1, EngineAssumption DEF Init, EngineState, EngineStates, NoStats
<1>5. ASSUME NEW s \in Symbols PROVE IsFiniteSet(KeysAt(committed, s))
  <2>1. KeysAt(committed, s) = {} BY <1>1 DEF Init, EngineState, KeysAt
  <2> QED BY <2>1, FS_EmptySet
<1> QED BY <1>1, <1>3, <1>4, <1>5 DEF CommittedOK

(* To a client that waits for each answer, and to the simulator, every     *)
(* command is one step of AtomicEngine: in whatever order it visits the    *)
(* positions, no dollar appears or is lost but the fees above the ceiling  *)
(* of an amount, and no position is charged, counted or taken out but as   *)
(* the command promises.                                                   *)
THEOREM CommandsAreAtomic ==
  ASSUME OneAtATime
  PROVE  RunSpec => ImplementsAtomic
<1>1. RunInit => Atomic!AtomicInit
  BY SameMath DEF RunInit, Init, EngineState, NoStats, Atomic!AtomicInit
<1>2. /\ TypeOK /\ SoloInv /\ TasksInOrder /\ WaterfallConserves /\ RunInv
      /\ CommittedOK /\ Midway /\ [RunNext]_runVars
      /\ TypeOK' /\ WaterfallConserves' /\ BookFinite'
      => CommittedOK' /\ Midway' /\ [Atomic!AtomicNext]_(Atomic!engine)
  <2> SUFFICES ASSUME TypeOK, SoloInv, TasksInOrder, WaterfallConserves, RunInv,
                      CommittedOK, Midway, [RunNext]_runVars,
                      TypeOK', WaterfallConserves', BookFinite'
               PROVE  CommittedOK' /\ Midway' /\ [Atomic!AtomicNext]_(Atomic!engine)
    OBVIOUS
  <2>1. MidReady BY DEF MidReady
  <2>2. insurance >= 0 /\ insurance' >= 0 BY DEF WaterfallConserves
  <2>3. Midway' /\ Commits BY <2>1, <2>2, MidStep
  <2>4. CommittedOK' BY <2>2, CommittedStep
  <2>5. CASE committed' = committed BY <2>3, <2>4, <2>5 DEF Atomic!engine
  <2>6. CASE Whole(committed, committed') BY <2>3, <2>4, <2>6, WholeIsAtomic
  <2> QED BY <2>3, <2>5, <2>6 DEF Commits
<1> QED
  BY <1>1, <1>2, MidStarts, RunInvariant, RunsEngine, TypeCorrectAny, SoloInvariant,
     StreamNeverAhead, BookStaysFinite, FundConservedAny, PTL
     DEF RunSpec, runVars, StreamBehind, ImplementsAtomic, Atomic!AtomicSpec
=============================================================================
