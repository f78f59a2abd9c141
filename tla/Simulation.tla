------------------------------ MODULE Simulation ------------------------------
(***************************************************************************)
(* The two ways the node runs its engine, marginguard-node/src/lib.rs:     *)
(* it serves clients, here one that has one request at a time in flight,   *)
(* or it walks the scenario of simulate.rs, whose marks come from the      *)
(* oracle of marginguard-infra/src/oracle.rs.                              *)
(*                                                                         *)
(* The oracle's noise is any value of its range: its hash function is left *)
(* out, and so is the sample of advice the simulator prints.  Arguments    *)
(* near the limits of i64, for which the oracle's sums would wrap around,  *)
(* are left out too.                                                       *)
(***************************************************************************)
EXTENDS RiskEngineProps

CONSTANTS
  AccountName,     \* the name of the i-th account of a scenario
  SimSymbol,       \* "SOL-PERP"
  Scenarios,       \* the arguments of simulate
  Burst,           \* EngineConfig.ingest_capacity
  ServeCommands    \* bound: commands the serving node takes

SimulateArgs == [accounts : Nat, steps : Nat, start_price : Int, drift_bps : Int,
                 vol_bps : Int, funding_bps : Int, funding_interval : Nat]

SIZE_WHOLE == 10

ASSUME SimulationAssumption ==
  /\ AccountName \in Seq(Accounts) /\ IsInjective(AccountName)
  /\ SimSymbol \in Symbols
  /\ SIZE_WHOLE * SCALE \in Size
  /\ Scenarios \subseteq SimulateArgs /\ None \notin SimulateArgs
  /\ \A a \in Scenarios : a.accounts <= Len(AccountName)
  /\ Burst \in Nat \ {0}
  /\ ServeCommands \in 0 .. MaxCommands

VARIABLES
  args,       \* the scenario being walked; None while serving
  at,         \* where the simulator is
  opened,     \* the accounts it has opened
  step,       \* the steps it has walked
  price,      \* SimMarketOracle.price_micros
  report,     \* the SimReport it has returned
  committed   \* history: the engine's state when no command is in progress

simulator == <<args, at, opened, step, price, report>>

EngineState == [positions |-> positions, markets |-> markets,
                insurance |-> insurance, stats |-> stats]

RunInit ==
  /\ Init
  /\ args \in Scenarios \cup {None}
  /\ at = IF args = None THEN "serving" ELSE "start"
  /\ opened = 0 /\ step = 0 /\ price = 0
  /\ report = None
  /\ committed = EngineState

(* The simulator goes on when its last command has returned.               *)
Turn(label) == at = label /\ Quiescent

(* An error of the engine or of a value's constructor ends the run.        *)
SimFail ==
  /\ at' = "failed"
  /\ UNCHANGED <<vars, args, opened, step, price, report>>

SetMarket(t, mark) ==
  UpdateMarket(t, [symbol |-> SimSymbol, mark_price |-> mark,
                   funding_rate_bps |-> args.funding_bps])

SimStart(t) ==
  /\ Turn("start")
  /\ LET mark == args.start_price * SCALE
     IN  IF mark \notin Price THEN SimFail
         ELSE /\ SetMarket(t, mark)
              /\ price' = mark
              /\ at' = "walk"
              /\ UNCHANGED <<args, opened, step, report>>

(* Six per cent of the notional value, cut to whole dollars.               *)
MarginWhole(start_price) == (start_price * SIZE_WHOLE * 6) \div 100

(* The i-th account goes long or short in turn at the start price.         *)
SimOffer(i) ==
  [key |-> <<AccountName[i + 1], SimSymbol>>,
   side |-> IF i % 2 = 0 THEN "long" ELSE "short",
   size |-> SIZE_WHOLE * SCALE,
   entry_price |-> args.start_price * SCALE,
   posted_margin |-> MarginWhole(args.start_price) * SCALE]

MeetsInitialMargin(c) ==
  c.posted_margin >= InitialMargin(PositionOf(c), c.entry_price, Params)

SimOpen(t) ==
  /\ Turn("walk")
  /\ opened < args.accounts
  /\ IF MeetsInitialMargin(SimOffer(opened))
     THEN /\ OpenGet(t, SimOffer(opened))
          /\ opened' = opened + 1
          /\ UNCHANGED <<args, at, step, price, report>>
     ELSE SimFail

LargerOf(a, b) == IF a > b THEN a ELSE b

(* Mutant of NextPrice: the price may reach zero.                          *)
NextPriceNoFloor(noise) == price + TruncDiv(price * (args.drift_bps + noise), 10000)

(* SimMarketOracle::next_price, which never goes below one micro-dollar.   *)
NextPrice(noise) ==
  LargerOf(price + TruncDiv(price * (args.drift_bps + noise), 10000), 1)

(* Mutant of FundingDue: the first tick comes after the first interval.    *)
FundingDueLate == args.funding_interval > 0 /\ (step + 1) % args.funding_interval = 0

FundingDue == args.funding_interval > 0 /\ step % args.funding_interval = 0

Booked == Turn("walk") /\ opened = args.accounts

SimStep(t) ==
  /\ Booked
  /\ step < args.steps
  /\ LET vol == LargerOf(args.vol_bps, 0)
     IN  \E noise \in -vol .. vol :
           IF NextPrice(noise) \notin Price THEN SimFail
           ELSE /\ SetMarket(t, NextPrice(noise))
                /\ price' = NextPrice(noise)
                /\ at' = IF FundingDue THEN "fund" ELSE "sweep"
                /\ UNCHANGED <<args, opened, step, report>>

SimFund(t) ==
  /\ Turn("fund")
  /\ FundMarket(t, SimSymbol)
  /\ at' = "sweep"
  /\ UNCHANGED <<args, opened, step, price, report>>

SimSweep(t) ==
  /\ Turn("sweep")
  /\ LiqMarket(t, SimSymbol)
  /\ step' = step + 1
  /\ at' = "walk"
  /\ UNCHANGED <<args, opened, price, report>>

SimReport ==
  /\ Booked
  /\ step = args.steps
  /\ report' = [survivors |-> Cardinality(ByMarket(SimSymbol)),
                liquidations |-> stats.liquidations,
                adl_events |-> stats.adl_events,
                funding_settlements |-> stats.funding_settlements,
                insurance_end |-> insurance, final_price |-> price]
  /\ at' = "reported"
  /\ UNCHANGED <<vars, args, opened, step, price>>

(* The simulator does not wait between commands: one that comes after the  *)
(* limiter's burst may be refused, which ends the run.                     *)
SimThrottled ==
  /\ Quiescent
  /\ at \in {"walk", "fund", "sweep"}
  /\ opened < args.accounts \/ step < args.steps
  /\ submitted >= Burst
  /\ SimFail

Simulate(t) ==
  SimStart(t) \/ SimOpen(t) \/ SimStep(t) \/ SimFund(t) \/ SimSweep(t)

(* A client's request, while no other is in flight.                        *)
Serve(t) ==
  /\ Turn("serving")
  /\ submitted < ServeCommands
  /\ Start(t)
  /\ UNCHANGED simulator

Serviced(t) == Continue(t) /\ UNCHANGED simulator

RunOver ==
  /\ Quiescent
  /\ \/ at \in {"reported", "failed"}
     \/ at = "serving" /\ submitted = ServeCommands
  /\ UNCHANGED <<vars, simulator>>

RunNext ==
  /\ \/ \E t \in Tasks : Serve(t) \/ Simulate(t) \/ Serviced(t)
     \/ SimReport
     \/ SimThrottled
     \/ RunOver
  /\ committed' = IF Quiescent' THEN EngineState' ELSE committed

RunSpec == RunInit /\ [][RunNext]_<<vars, simulator, committed>>

----------------------------------------------------------------------------
(* Properties.                                                             *)

(* To a client that waits for each answer, and to the simulator, a command *)
(* of many lock sections and store calls is one step: between commands the *)
(* engine is in a state that whole commands lead to, and a sweep has       *)
(* neither created nor lost a dollar, whatever order it visited the        *)
(* positions in.                                                           *)
Atomic == INSTANCE AtomicEngine WITH
            positions <- committed.positions, markets <- committed.markets,
            insurance <- committed.insurance, stats <- committed.stats
ImplementsAtomic == Atomic!AtomicSpec

(* How often funding comes due in a scenario.                              *)
Ticks == IF args.funding_interval = 0 THEN 0
         ELSE (args.steps + args.funding_interval - 1) \div args.funding_interval

(* The report of a scenario adds up, whatever the walk: every account has  *)
(* survived or was liquidated, every survivor meets its maintenance margin *)
(* at the final price and has had every settlement, and a loss was         *)
(* socialised only if somebody was liquidated.                             *)
ReportAddsUp ==
  at = "reported" =>
    /\ report.survivors + report.liquidations = args.accounts
    /\ report.survivors = stats.open_positions
    /\ \A k \in Keys : ~UnderwaterNow(k)
    /\ report.funding_settlements \in report.survivors * Ticks .. args.accounts * Ticks
    /\ args.steps > 0 /\ Ticks > 0 => report.funding_settlements >= args.accounts
    /\ report.adl_events > 0 => report.liquidations > 0
    /\ report.final_price = markets[SimSymbol].mark_price

(* In a market that only falls, while longs pay funding to shorts, the     *)
(* shorts survive (README.md:296-297, "the 12 shorts survived"): rounding, *)
(* funding and sweeps never take out a position that only gains.           *)
ShortsSurviveFall ==
  (at # "serving" /\ Quiescent /\ args.drift_bps + LargerOf(args.vol_bps, 0) <= 0
     /\ args.funding_bps >= 0) =>
    \A i \in 0 .. opened - 1 : i % 2 = 1 => positions[<<AccountName[i + 1], SimSymbol>>] # None

(* A scenario comes to its report unless its start price is no price, is   *)
(* one or three dollars (six per cent, cut to whole dollars, is then less  *)
(* than the initial margin), its market may rise out of the range of       *)
(* prices, or it sends more commands than the limiter's burst.  A falling  *)
(* market never ends a run (oracle.rs:44, "new mark price (>= 1)").        *)
FailureExplained ==
  at = "failed" =>
    \/ args.start_price * SCALE \notin Price
    \/ args.start_price \in {1, 3} /\ args.accounts > 0
    \/ args.drift_bps + LargerOf(args.vol_bps, 0) > 0 /\ step < args.steps
    \/ submitted >= Burst
=============================================================================
