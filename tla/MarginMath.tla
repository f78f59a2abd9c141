---------------------------- MODULE MarginMath ----------------------------
(***************************************************************************)
(* The fixed-point money type of marginguard-types and the pure margin     *)
(* functions of marginguard-core/src/margin.rs.                            *)
(*                                                                         *)
(* An amount is an i128 of micro-units.  Its width is the constant UsdMax  *)
(* (i128::MAX), so that every saturating operation of the code saturates   *)
(* here; SCALE, MAX_PRICE and MAX_SIZE are the constants of money.rs.      *)
(***************************************************************************)
EXTENDS Integers

CONSTANTS SCALE, UsdMax, MAX_PRICE, MAX_SIZE

(* Prices and sizes are bounded so that price * size cannot overflow,      *)
(* money.rs:8-9.                                                           *)
ASSUME MathAssumption ==
  /\ SCALE \in Nat \ {0}
  /\ UsdMax \in Nat \ {0}
  /\ MAX_PRICE \in Nat \ {0}
  /\ MAX_SIZE \in Nat \ {0}
  /\ MAX_PRICE * MAX_SIZE <= UsdMax

UsdMin == -UsdMax - 1
Usd == UsdMin .. UsdMax
Price == 1 .. MAX_PRICE
Size == 1 .. MAX_SIZE

Side == {"long", "short"}

Position == [side : Side, size : Size, entry_price : Price,
             posted_margin : Usd, funding_paid : Usd]

RiskParams == [initial_margin_bps : Nat, maintenance_margin_bps : Nat,
               liquidation_fee_bps : Nat]

----------------------------------------------------------------------------
(* Usd arithmetic.                                                         *)

Saturate(x) == IF x > UsdMax THEN UsdMax ELSE IF x < UsdMin THEN UsdMin ELSE x

SatAdd(a, b) == Saturate(a + b)
SatSub(a, b) == Saturate(a - b)
SatMul(a, b) == Saturate(a * b)
SatNeg(a) == Saturate(-a)

(* Rust integer division truncates toward zero.                            *)
TruncDiv(a, d) == IF a >= 0 THEN a \div d ELSE -((-a) \div d)

MulBps(a, bps) == TruncDiv(SatMul(a, bps), 10000)
ScaledMul(value, size) == TruncDiv(SatMul(value, size), SCALE)

----------------------------------------------------------------------------
(* Position value and margin requirements.                                 *)

Notional(pos, mark) == ScaledMul(mark, pos.size)

(* Mutant of UnrealizedPnl: a short gains when the mark rises.             *)
UnrealizedPnlUnsigned(pos, mark) == ScaledMul(mark - pos.entry_price, pos.size)

UnrealizedPnl(pos, mark) ==
  LET diff == IF pos.side = "long" THEN mark - pos.entry_price
                                   ELSE pos.entry_price - mark
  IN  ScaledMul(diff, pos.size)

PositionEquity(pos, mark) ==
  SatSub(SatAdd(pos.posted_margin, UnrealizedPnl(pos, mark)), pos.funding_paid)

MaintenanceMargin(pos, mark, params) ==
  MulBps(Notional(pos, mark), params.maintenance_margin_bps)

InitialMargin(pos, mark, params) ==
  MulBps(Notional(pos, mark), params.initial_margin_bps)

IsLiquidatable(pos, mark, params) ==
  PositionEquity(pos, mark) < MaintenanceMargin(pos, mark, params)

LiquidationFee(pos, mark, params) ==
  MulBps(Notional(pos, mark), params.liquidation_fee_bps)

(* Mutant of FundingPayment: the sign of a short is forgotten.             *)
FundingPaymentUnsigned(pos, mark, rate_bps) == MulBps(Notional(pos, mark), rate_bps)

(* What one accrual adds to funding_paid: at a positive rate longs pay.    *)
FundingPayment(pos, mark, rate_bps) ==
  LET magnitude == MulBps(Notional(pos, mark), rate_bps)
  IN  IF pos.side = "long" THEN magnitude ELSE SatNeg(magnitude)

----------------------------------------------------------------------------
(* The price at which a position reaches its maintenance margin.           *)

(* i128 subtraction without saturation: a release build wraps it around.   *)
Wrap(x) == UsdMin + ((x - UsdMin) % (2 * UsdMax + 2))

PlusOrMinus(side) == IF side = "long" THEN 1 ELSE -1

(* numer and denom of margin.rs, scaled to whole numbers.                  *)
EdgeNumer(pos) ==
  (Wrap(pos.posted_margin - pos.funding_paid) * SCALE
     - PlusOrMinus(pos.side) * pos.entry_price * pos.size) * 10000

(* Mutant of EdgeDenom: the maintenance rate is forgotten, which gives the *)
(* price at which equity is zero.                                          *)
EdgeDenomBankruptcy(pos, params) == pos.size * (-PlusOrMinus(pos.side) * 10000)

EdgeDenom(pos, params) ==
  pos.size * (params.maintenance_margin_bps - PlusOrMinus(pos.side) * 10000)

NoPrice == 0

(* The quotient, cut to a whole price; NoPrice where there is none.  The   *)
(* code divides in f64; its rounding is left out.                          *)
LiquidationPrice(pos, params) ==
  LET numer == EdgeNumer(pos)
      denom == EdgeDenom(pos, params)
      price == IF denom > 0 /\ numer > 0 THEN numer \div denom
               ELSE IF denom < 0 /\ numer < 0 THEN (-numer) \div (-denom)
               ELSE NoPrice
  IN  IF price \in Price THEN price ELSE NoPrice
============================================================================
