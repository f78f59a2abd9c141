------------------------------- MODULE Advice -------------------------------
(***************************************************************************)
(* The health view of marginguard-core/src/margin.rs and the deterministic *)
(* verdict that marginguard-ai derives from it.                            *)
(*                                                                         *)
(* Ratios are an i64 of basis points whose width is the constant I64Max.   *)
(* A confidence is a percentage.  The advised action and the wording of    *)
(* the summary are left out: both are functions of what is here.           *)
(***************************************************************************)
EXTENDS MarginMath

CONSTANTS
  I64Max,
  Flat      \* the ratio of a position without notional value

ASSUME RatioAssumption == I64Max \in Nat \ {0} /\ Flat \notin Int

RiskLevel == {"Safe", "Caution", "Warning", "Critical"}
AdviceSource == {"Heuristic", "Llm"}
RiskAdvice == [risk_level : RiskLevel, source : AdviceSource,
               summary : AdviceSource, confidence : 0 .. 100]

(* i64::try_from(x).unwrap_or(i64::MAX), also for an x far below zero.     *)
ToI64(x) == IF -I64Max - 1 <= x /\ x <= I64Max THEN x ELSE I64Max

MarginRatioBps(equity, notional) ==
  IF notional = 0 THEN Flat ELSE ToI64(TruncDiv(SatMul(equity, 10000), notional))

(* Mutant of AccountHealth: the flag is tested against the initial margin. *)
AccountHealthInitial(pos, mark, params) ==
  [equity |-> PositionEquity(pos, mark),
   notional |-> Notional(pos, mark),
   maintenance_margin |-> MaintenanceMargin(pos, mark, params),
   margin_ratio_bps |-> MarginRatioBps(PositionEquity(pos, mark), Notional(pos, mark)),
   liquidatable |-> PositionEquity(pos, mark) < InitialMargin(pos, mark, params)]

AccountHealth(pos, mark, params) ==
  [equity |-> PositionEquity(pos, mark),
   notional |-> Notional(pos, mark),
   maintenance_margin |-> MaintenanceMargin(pos, mark, params),
   margin_ratio_bps |-> MarginRatioBps(PositionEquity(pos, mark), Notional(pos, mark)),
   liquidatable |-> IsLiquidatable(pos, mark, params)]

MaintenanceRatioBps(health) ==
  IF health.notional <= 0 THEN 0
  ELSE ToI64(TruncDiv(health.maintenance_margin * 10000, health.notional))

(* How far the margin ratio is above the maintenance ratio.                *)
LiquidationDistanceBps(health) ==
  IF health.margin_ratio_bps = Flat THEN Flat
  ELSE health.margin_ratio_bps - MaintenanceRatioBps(health)

CRITICAL_BPS == 0
WARNING_BPS == 200
CAUTION_BPS == 500

Classify(liquidatable, distance) ==
  CASE liquidatable -> "Critical"
    [] ~liquidatable /\ distance = Flat -> "Safe"
    [] ~liquidatable /\ distance # Flat ->
         IF distance <= CRITICAL_BPS THEN "Critical"
         ELSE IF distance <= WARNING_BPS THEN "Warning"
         ELSE IF distance <= CAUTION_BPS THEN "Caution" ELSE "Safe"

Confidence(level) ==
  CASE level = "Critical" -> 90
    [] level = "Warning" -> 75
    [] level = "Caution" -> 60
    [] level = "Safe" -> 55

Verdict(level) ==
  [risk_level |-> level, source |-> "Heuristic", summary |-> "Heuristic",
   confidence |-> Confidence(level)]

Score(health) == Verdict(Classify(health.liquidatable, LiquidationDistanceBps(health)))
=============================================================================
