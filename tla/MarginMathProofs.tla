-------------------------- MODULE MarginMathProofs --------------------------
(***************************************************************************)
(* Facts about the money arithmetic, the margin functions and the          *)
(* insurance fund, for every scale and width that MathAssumption allows,   *)
(* and about sums over finite sets, by induction on their size.            *)
(***************************************************************************)
EXTENDS InsuranceFund, Functions, FiniteSetTheorems, TLAPS

(* Division rounds toward zero: it keeps the sign and never grows.         *)
LEMMA TruncDivSign ==
  ASSUME NEW a \in Int, NEW d \in Nat \ {0}
  PROVE  /\ TruncDiv(a, d) \in Int
         /\ a >= 0 => TruncDiv(a, d) >= 0 /\ TruncDiv(a, d) <= a
         /\ a <= 0 => TruncDiv(a, d) <= 0 /\ TruncDiv(a, d) >= a
BY DEF TruncDiv

(* Saturation yields an amount, keeps the sign, and is the identity on     *)
(* amounts.                                                                *)
LEMMA SaturateType ==
  ASSUME NEW x \in Int
  PROVE  /\ Saturate(x) \in Usd
         /\ x >= 0 => Saturate(x) >= 0
         /\ x <= 0 => Saturate(x) <= 0
         /\ x \in Usd => Saturate(x) = x
BY MathAssumption DEF Saturate, Usd, UsdMin

(* A rounded quotient of an amount is an amount.                           *)
LEMMA TruncDivUsd ==
  ASSUME NEW a \in Usd, NEW d \in Nat \ {0}
  PROVE  TruncDiv(a, d) \in Usd
<1>1. a \in Int /\ UsdMin \in Int /\ UsdMax \in Int
  BY MathAssumption DEF Usd, UsdMin
<1>2. UsdMin <= a /\ a <= UsdMax /\ UsdMin <= 0 /\ 0 <= UsdMax
  BY MathAssumption DEF Usd, UsdMin
<1>3. /\ TruncDiv(a, d) \in Int
      /\ a >= 0 => TruncDiv(a, d) >= 0 /\ TruncDiv(a, d) <= a
      /\ a <= 0 => TruncDiv(a, d) <= 0 /\ TruncDiv(a, d) >= a
  BY <1>1, TruncDivSign
<1> QED
  BY <1>1, <1>2, <1>3 DEF Usd

(* Sums, differences and negations of amounts are amounts.                 *)
LEMMA SatType ==
  ASSUME NEW a \in Usd, NEW b \in Usd
  PROVE  SatAdd(a, b) \in Usd /\ SatSub(a, b) \in Usd /\ SatNeg(a) \in Usd
<1>1. a \in Int /\ b \in Int
  BY MathAssumption DEF Usd, UsdMin
<1> QED
  BY <1>1, SaturateType DEF SatAdd, SatSub, SatNeg

(* A share of an amount is an amount, and a non-negative share of a        *)
(* non-negative amount is non-negative.                                    *)
LEMMA MulBpsType ==
  ASSUME NEW a \in Usd, NEW bps \in Int
  PROVE  /\ MulBps(a, bps) \in Usd
         /\ a >= 0 /\ bps >= 0 => MulBps(a, bps) >= 0
<1>1. a \in Int
  BY MathAssumption DEF Usd, UsdMin
<1>2. a * bps \in Int /\ (a >= 0 /\ bps >= 0 => a * bps >= 0)
  BY <1>1
<1> DEFINE m == SatMul(a, bps)
<1>3. m \in Usd /\ (a >= 0 /\ bps >= 0 => m >= 0)
  BY <1>2, SaturateType DEF SatMul
<1>4. m \in Int
  BY <1>3, MathAssumption DEF Usd, UsdMin
<1>5. TruncDiv(m, 10000) \in Usd
  BY <1>3, TruncDivUsd
<1>6. m >= 0 => TruncDiv(m, 10000) >= 0
  BY <1>4, TruncDivSign
<1> QED
  BY <1>3, <1>5, <1>6 DEF MulBps

(* The same of a price times a size, at the scale of the fixed point.      *)
LEMMA ScaledMulType ==
  ASSUME NEW v \in Int, NEW n \in Int
  PROVE  /\ ScaledMul(v, n) \in Usd
         /\ v >= 0 /\ n >= 0 => ScaledMul(v, n) >= 0
<1>1. v * n \in Int /\ (v >= 0 /\ n >= 0 => v * n >= 0)
  OBVIOUS
<1> DEFINE m == SatMul(v, n)
<1>2. m \in Usd /\ (v >= 0 /\ n >= 0 => m >= 0)
  BY <1>1, SaturateType DEF SatMul
<1>3. m \in Int
  BY <1>2, MathAssumption DEF Usd, UsdMin
<1>4. SCALE \in Nat \ {0}
  BY MathAssumption
<1>5. TruncDiv(m, SCALE) \in Usd
  BY <1>2, <1>4, TruncDivUsd
<1>6. m >= 0 => TruncDiv(m, SCALE) >= 0
  BY <1>3, <1>4, TruncDivSign
<1> QED
  BY <1>2, <1>5, <1>6 DEF ScaledMul

(* Quotients, saturated amounts and shares of them keep their order.       *)
LEMMA QuotientBounds ==
  ASSUME NEW a \in Nat, NEW d \in Nat \ {0}
  PROVE  a \div d \in Nat /\ (a \div d) * d <= a /\ a < (a \div d) * d + d
OBVIOUS

LEMMA QuotientOrder ==
  ASSUME NEW q \in Int, NEW r \in Int, NEW d \in Nat \ {0}, q * d < r * d + d
  PROVE  q <= r
<1> SUFFICES ASSUME q >= r + 1 PROVE FALSE
  OBVIOUS
<1>1. (q - (r + 1)) * d >= 0
  <2> DEFINE x == q - (r + 1)
  <2>1. x \in Nat OBVIOUS
  <2> HIDE DEF x
  <2>2. x * d >= 0 BY <2>1
  <2> QED BY <2>2 DEF x
<1>2. (q - (r + 1)) * d = q * d - (r * d + d)
  OBVIOUS
<1> DEFINE u == q * d  v == r * d
<1>3. u \in Int /\ v \in Int OBVIOUS
<1> QED BY <1>1, <1>2, <1>3

LEMMA TruncDivOrder ==
  ASSUME NEW a \in Int, NEW b \in Int, NEW d \in Nat \ {0}, a <= b
  PROVE  TruncDiv(a, d) <= TruncDiv(b, d)
<1>1. ASSUME NEW x \in Nat, NEW y \in Nat, x <= y PROVE x \div d <= y \div d
  <2> DEFINE q == x \div d
             r == y \div d
  <2>1. q \in Nat /\ r \in Nat /\ q * d <= x /\ y < r * d + d
    BY QuotientBounds
  <2> HIDE DEF q, r
  <2>2. q * d \in Int /\ r * d \in Int BY <2>1
  <2>3. q * d < r * d + d BY <1>1, <2>1, <2>2
  <2>4. q <= r BY <2>1, <2>3, QuotientOrder
  <2> QED BY <2>4 DEF q, r
<1>2. CASE a >= 0
  BY <1>1, <1>2 DEF TruncDiv
<1>3. CASE a < 0 /\ b >= 0
  <2>1. TruncDiv(a, d) <= 0 /\ 0 <= TruncDiv(b, d) /\ TruncDiv(a, d) \in Int
        /\ TruncDiv(b, d) \in Int
    BY <1>3, TruncDivSign
  <2> QED BY <2>1
<1>4. CASE a < 0 /\ b < 0
  <2>1. -a \in Nat /\ -b \in Nat /\ -b <= -a BY <1>4
  <2>2. (-b) \div d <= (-a) \div d BY <1>1, <2>1
  <2>3. (-b) \div d \in Nat /\ (-a) \div d \in Nat BY <2>1, QuotientBounds
  <2> QED BY <1>4, <2>2, <2>3 DEF TruncDiv
<1> QED BY <1>2, <1>3, <1>4

LEMMA SaturateOrder ==
  ASSUME NEW x \in Int, NEW y \in Int, x <= y
  PROVE  Saturate(x) <= Saturate(y) /\ (x >= 0 => Saturate(x) <= x)
BY MathAssumption DEF Saturate, UsdMin

LEMMA ProductOrder ==
  ASSUME NEW a \in Nat, NEW b \in Nat, NEW x \in Nat, NEW y \in Nat, a <= b, x <= y
  PROVE  a * x \in Nat /\ b * y \in Nat /\ a * x <= b * y
<1>1. a * x \in Nat /\ b * y \in Nat /\ b * x \in Nat OBVIOUS
<1>2. a * x <= b * x OBVIOUS
<1>3. b * x <= b * y OBVIOUS
<1> DEFINE u == a * x  v == b * x  w == b * y
<1> HIDE DEF u, v, w
<1>4. u \in Nat /\ v \in Nat /\ w \in Nat /\ u <= v /\ v <= w BY <1>1, <1>2, <1>3 DEF u, v, w
<1>5. u <= w BY <1>4
<1> QED BY <1>1, <1>5 DEF u, w

LEMMA MulBpsOrder ==
  ASSUME NEW a \in Nat, NEW b \in Nat, NEW r \in Nat, NEW s \in Nat, a <= b, r <= s
  PROVE  MulBps(a, r) <= MulBps(b, s)
<1>1. a * r \in Nat /\ b * s \in Nat /\ a * r <= b * s BY ProductOrder
<1> DEFINE u == Saturate(a * r)
           v == Saturate(b * s)
<1>2. u <= v /\ u \in Usd /\ v \in Usd BY <1>1, SaturateOrder, SaturateType
<1>3. u \in Int /\ v \in Int BY <1>2, MathAssumption DEF Usd, UsdMin
<1> HIDE DEF u, v
<1>4. TruncDiv(u, 10000) <= TruncDiv(v, 10000) BY <1>2, <1>3, TruncDivOrder
<1> QED BY <1>4 DEF MulBps, SatMul, u, v

LEMMA ScaledMulOrder ==
  ASSUME NEW v \in Nat, NEW w \in Nat, NEW n \in Nat, v <= w
  PROVE  ScaledMul(v, n) <= ScaledMul(w, n)
<1>1. v * n \in Nat /\ w * n \in Nat /\ v * n <= w * n BY ProductOrder
<1> DEFINE x == Saturate(v * n)
           y == Saturate(w * n)
<1>2. x <= y /\ x \in Usd /\ y \in Usd BY <1>1, SaturateOrder, SaturateType
<1>3. x \in Int /\ y \in Int BY <1>2, MathAssumption DEF Usd, UsdMin
<1> HIDE DEF x, y
<1>4. TruncDiv(x, SCALE) <= TruncDiv(y, SCALE) BY <1>2, <1>3, TruncDivOrder, MathAssumption
<1> QED BY <1>4 DEF ScaledMul, SatMul, x, y

----------------------------------------------------------------------------
(* Margin functions.                                                       *)

LEMMA PositionFields ==
  ASSUME NEW pos \in Position
  PROVE  /\ pos.side \in Side /\ pos.size \in Nat \ {0} /\ pos.entry_price \in Nat \ {0}
         /\ pos.posted_margin \in Usd /\ pos.funding_paid \in Usd
BY MathAssumption DEF Position, Size, Price

(* The notional is a non-negative amount ("always >= 0", position.rs:90).  *)
LEMMA NotionalType ==
  ASSUME NEW pos \in Position, NEW mark \in Price
  PROVE  Notional(pos, mark) \in Usd /\ Notional(pos, mark) >= 0
<1>1. mark \in Nat
  BY MathAssumption DEF Price
<1> QED
  BY <1>1, PositionFields, ScaledMulType DEF Notional

(* Equity is an amount.                                                    *)
LEMMA EquityType ==
  ASSUME NEW pos \in Position, NEW mark \in Price
  PROVE  PositionEquity(pos, mark) \in Usd
<1>1. mark \in Int
  BY MathAssumption DEF Price
<1>2. UnrealizedPnl(pos, mark) \in Usd
  BY <1>1, PositionFields, ScaledMulType DEF UnrealizedPnl
<1> QED
  BY <1>2, PositionFields, SatType DEF PositionEquity

(* A funding payment is an amount, whatever the rate.                      *)
LEMMA FundingType ==
  ASSUME NEW pos \in Position, NEW mark \in Price, NEW rate \in Int
  PROVE  FundingPayment(pos, mark, rate) \in Usd
<1>1. MulBps(Notional(pos, mark), rate) \in Usd
  BY NotionalType, MulBpsType
<1> QED
  BY <1>1, SatType DEF FundingPayment

(* Truncation is symmetric, and a basis-point share is never the least     *)
(* amount, the only one without a negation.                                *)
LEMMA ShareNegates ==
  ASSUME NEW a \in Usd, NEW bps \in Int
  PROVE  SatNeg(MulBps(a, bps)) = -MulBps(a, bps)
<1> DEFINE m == SatMul(a, bps)
           q == TruncDiv(m, 10000)
<1>1. a \in Int BY MathAssumption DEF Usd, UsdMin
<1>2. a * bps \in Int BY <1>1
<1>3. m \in Usd BY <1>2, SaturateType DEF SatMul
<1> HIDE DEF m
<1>4. m \in Int /\ -UsdMax - 1 <= m /\ m <= UsdMax /\ UsdMax \in Nat \ {0}
  BY <1>3, MathAssumption DEF Usd, UsdMin
<1>5. q \in Int /\ -UsdMax <= q /\ q <= UsdMax
  <2>1. CASE m >= 0
    <3>1. m \div 10000 \in Nat /\ m \div 10000 <= m BY <1>4, <2>1
    <3> QED BY <1>4, <2>1, <3>1 DEF TruncDiv
  <2>2. CASE m < 0
    <3>1. -m \in Nat /\ -m <= UsdMax + 1 BY <1>4, <2>2
    <3>2. (-m) \div 10000 \in Nat /\ (-m) \div 10000 <= UsdMax BY <1>4, <3>1
    <3> QED BY <1>4, <2>2, <3>2 DEF TruncDiv
  <2> QED BY <1>4, <2>1, <2>2
<1> HIDE DEF q
<1>6. -q \in Usd BY <1>4, <1>5 DEF Usd, UsdMin
<1>7. SatNeg(q) = -q BY <1>5, <1>6, SaturateType DEF SatNeg
<1> QED BY <1>7 DEF MulBps, m, q

(* What a long pays a short of the same size receives, to the micro-dollar *)
(* and at any rate, also one for which the product saturates: funding over *)
(* a matched book nets to zero pair by pair (margin.rs:102-106).           *)
THEOREM FundingBalances ==
  ASSUME NEW long \in Position, NEW short \in Position,
         long.side = "long", short.side = "short", long.size = short.size,
         NEW mark \in Price, NEW rate \in Int
  PROVE  FundingPayment(long, mark, rate) + FundingPayment(short, mark, rate) = 0
<1>1. Notional(short, mark) = Notional(long, mark) BY DEF Notional
<1> DEFINE n == Notional(long, mark)
           q == MulBps(n, rate)
<1>2. n \in Usd BY NotionalType
<1> HIDE DEF n
<1>3. q \in Int BY <1>2, MulBpsType, MathAssumption DEF Usd, UsdMin
<1>4. SatNeg(q) = -q BY <1>2, ShareNegates
<1> HIDE DEF q
<1>5. FundingPayment(long, mark, rate) = q BY DEF FundingPayment, q, n
<1>6. FundingPayment(short, mark, rate) = SatNeg(q)
  BY <1>1 DEF FundingPayment, q, n
<1> QED BY <1>3, <1>4, <1>5, <1>6

(* The liquidation fee is a non-negative amount.                           *)
LEMMA FeeType ==
  ASSUME NEW pos \in Position, NEW mark \in Price, NEW params \in RiskParams
  PROVE  LiquidationFee(pos, mark, params) \in Usd /\ LiquidationFee(pos, mark, params) >= 0
<1>1. params.liquidation_fee_bps \in Nat
  BY DEF RiskParams
<1> QED
  BY <1>1, NotionalType, MulBpsType DEF LiquidationFee

----------------------------------------------------------------------------
(* The computed liquidation price.                                         *)

(* A truncated quotient is within one of the fraction.                     *)
LEMMA TruncDivBounds ==
  ASSUME NEW a \in Int, NEW d \in Nat \ {0}
  PROVE  /\ TruncDiv(a, d) \in Int
         /\ a < TruncDiv(a, d) * d + d
         /\ TruncDiv(a, d) * d < a + d
<1>1. CASE a >= 0
  <2>1. a \in Nat BY <1>1
  <2>2. a \div d \in Nat /\ (a \div d) * d <= a /\ a < (a \div d) * d + d
    BY <2>1, QuotientBounds
  <2> DEFINE q == a \div d
             x == q * d
  <2>3. q \in Int /\ x \in Int BY <2>2
  <2> HIDE DEF q
  <2>4. TruncDiv(a, d) = q BY <1>1 DEF TruncDiv, q
  <2>5. x <= a /\ a < x + d BY <2>2 DEF q
  <2> HIDE DEF x
  <2>6. x < a + d BY <2>3, <2>5
  <2> QED BY <2>3, <2>4, <2>5, <2>6 DEF x
<1>2. CASE a < 0
  <2>1. -a \in Nat BY <1>2
  <2> DEFINE q == (-a) \div d
             x == q * d
  <2>2. q \in Nat /\ x <= -a /\ -a < x + d
    BY <2>1, QuotientBounds
  <2> HIDE DEF q
  <2>3. TruncDiv(a, d) = -q BY <1>2 DEF TruncDiv, q
  <2>4. (-q) * d = -x /\ x \in Int /\ -q \in Int BY <2>2
  <2> HIDE DEF x
  <2>5. a < -x + d /\ -x < a + d BY <2>1, <2>2, <2>4
  <2> QED BY <2>3, <2>4, <2>5
<1> QED BY <1>1, <1>2

(* Multiplying by a natural number keeps the order of integers.            *)
LEMMA ScaledOrder ==
  ASSUME NEW x \in Int, NEW y \in Int, NEW d \in Nat, x <= y
  PROVE  x * d \in Int /\ y * d \in Int /\ x * d <= y * d
<1> DEFINE z == y - x
<1>1. z \in Nat OBVIOUS
<1>2. (y - x) * d = y * d - x * d /\ x * d \in Int /\ y * d \in Int OBVIOUS
<1> HIDE DEF z
<1>3. z * d >= 0 BY <1>1
<1>4. y * d - x * d >= 0 BY <1>2, <1>3 DEF z
<1> DEFINE u == x * d
           v == y * d
<1>5. u \in Int /\ v \in Int /\ v - u >= 0 BY <1>2, <1>4
<1> HIDE DEF u, v
<1>6. u <= v BY <1>5
<1> QED BY <1>2, <1>6 DEF u, v

(* The comparison the sweep makes, in truncated amounts, against the same  *)
(* comparison in fractions: what meets its margin in fractions is spared.  *)
SparedAt(D, S, M, d, Y, mm) ==
  (M * S + d) * D >= Y * mm => M + TruncDiv(d, S) >= ((Y \div S) * mm) \div D

LEMMA SparedInFractions ==
  ASSUME NEW D \in Nat \ {0}, NEW S \in Nat \ {0}, NEW M \in Int, NEW d \in Int,
         NEW Y \in Nat, NEW mm \in Nat
  PROVE  SparedAt(D, S, M, d, Y, mm)
<1> SUFFICES ASSUME (M * S + d) * D >= Y * mm
             PROVE  M + TruncDiv(d, S) >= ((Y \div S) * mm) \div D
  BY DEF SparedAt
<1> DEFINE q == TruncDiv(d, S)
           N == Y \div S
           a == N * mm
           r == a \div D
<1>1. q \in Int /\ d < q * S + S BY TruncDivBounds
<1>2. N \in Nat /\ N * S <= Y BY QuotientBounds
<1> HIDE DEF q, N
<1>3. a \in Nat BY <1>2
<1> HIDE DEF a
<1>4. r \in Nat /\ r * D <= a BY <1>3, QuotientBounds
<1> HIDE DEF r
<1>5. (N * S) * mm <= Y * mm /\ (N * S) * mm \in Int /\ Y * mm \in Int
  <2>1. N * S \in Nat BY <1>2
  <2> QED BY <1>2, <2>1, ProductOrder
<1>6. (N * S) * mm = a * S BY <1>2, <1>3 DEF a
<1>7. (r * S) * D <= a * S /\ r * S \in Int /\ a * S \in Int
  <2>1. r * D \in Nat BY <1>4
  <2>2. (r * D) * S <= a * S BY <1>3, <1>4, <2>1, ProductOrder
  <2>3. (r * D) * S = (r * S) * D BY <1>4
  <2> QED BY <1>3, <1>4, <2>2, <2>3
<1> SUFFICES ASSUME M + q + 1 <= r PROVE FALSE
  BY <1>1, <1>4 DEF r, a, N, q
<1> DEFINE ms == M * S
           qs == q * S
           rs == r * S
           am == a * S
           ym == Y * mm
<1>8. (M + q + 1) * S <= rs /\ M + q + 1 \in Int BY <1>1, <1>4, ScaledOrder
<1>9. (M + q + 1) * S = ms + qs + S BY <1>1
<1>10. ms \in Int /\ qs \in Int /\ rs \in Int /\ am \in Int /\ ym \in Int /\ ms + d \in Int
  BY <1>1, <1>5, <1>7
<1>11. d < qs + S /\ ms + qs + S <= rs /\ rs * D <= am /\ am <= ym /\ (ms + d) * D >= ym
  BY <1>1, <1>5, <1>6, <1>7, <1>8, <1>9
<1> HIDE DEF ms, qs, rs, am, ym
<1>12. ms + d + 1 <= rs BY <1>10, <1>11
<1>13. (ms + d + 1) * D <= rs * D BY <1>10, <1>12, ScaledOrder
<1>14. (ms + d + 1) * D = (ms + d) * D + D BY <1>10
<1> DEFINE u == (ms + d) * D
           v == rs * D
<1>15. u \in Int /\ v \in Int /\ u + D <= v /\ v <= am /\ u >= ym /\ am <= ym
  BY <1>10, <1>11, <1>13, <1>14
<1> HIDE DEF u, v
<1> QED BY <1>10, <1>15

(* What falls short of it in fractions by more than the rounding is taken  *)
(* out, for maintenance rates up to one half.                              *)
TakenAt(D, S, M, d, Y, mm) ==
  (M * S + d) * D + 3 * (D * S) < Y * mm => M + TruncDiv(d, S) < ((Y \div S) * mm) \div D

LEMMA TakenInFractions ==
  ASSUME NEW D \in Nat \ {0}, NEW S \in Nat \ {0}, NEW M \in Int, NEW d \in Int,
         NEW Y \in Nat, NEW mm \in Nat, 2 * mm <= D
  PROVE  TakenAt(D, S, M, d, Y, mm)
<1> SUFFICES ASSUME (M * S + d) * D + 3 * (D * S) < Y * mm
             PROVE  M + TruncDiv(d, S) < ((Y \div S) * mm) \div D
  BY DEF TakenAt
<1> DEFINE q == TruncDiv(d, S)
           N == Y \div S
           a == N * mm
           r == a \div D
           ds == D * S
           hs == mm * S
<1>1. q \in Int /\ q * S < d + S BY TruncDivBounds
<1>2. N \in Nat /\ Y < N * S + S BY QuotientBounds
<1> HIDE DEF q, N
<1>3. a \in Nat BY <1>2
<1> HIDE DEF a
<1>4. r \in Nat /\ a < r * D + D BY <1>3, QuotientBounds
<1> HIDE DEF r
<1>5. ds \in Nat /\ hs \in Nat /\ 2 * hs <= ds
  <2>1. (2 * mm) * S <= D * S BY ProductOrder
  <2>2. (2 * mm) * S = 2 * hs OBVIOUS
  <2> QED BY <2>1, <2>2
<1>6. Y * mm <= a * S + hs /\ Y * mm \in Int /\ a * S \in Int
  <2>1. N * S + S \in Nat BY <1>2
  <2>2. Y * mm <= (N * S + S) * mm BY <1>2, <2>1, ProductOrder
  <2>3. (N * S + S) * mm = a * S + hs BY <1>2, <1>3 DEF a
  <2>4. a * S \in Int /\ Y * mm \in Int BY <1>3
  <2> QED BY <2>2, <2>3, <2>4
<1>7. a * S <= (r * S) * D + ds /\ r * S \in Int
  <2>1. r * D + D \in Nat BY <1>4
  <2>2. a * S <= (r * D + D) * S BY <1>3, <1>4, <2>1, ProductOrder
  <2>3. (r * D + D) * S = (r * S) * D + ds BY <1>4
  <2> QED BY <1>4, <2>2, <2>3
<1> SUFFICES ASSUME r <= M + q PROVE FALSE
  BY <1>1, <1>4 DEF r, a, N, q
<1> DEFINE ms == M * S
           qs == q * S
           rs == r * S
           am == a * S
           ym == Y * mm
<1>8. rs <= (M + q) * S BY <1>1, <1>4, ScaledOrder
<1>9. (M + q) * S = ms + qs BY <1>1
<1>10. ms \in Int /\ qs \in Int /\ rs \in Int /\ am \in Int /\ ym \in Int /\ ms + d + S \in Int
  BY <1>1, <1>6, <1>7
<1>11. /\ qs < d + S /\ rs <= ms + qs /\ am <= rs * D + ds
       /\ ym <= am + hs /\ (ms + d) * D + 3 * ds < ym
  BY <1>1, <1>6, <1>7, <1>8, <1>9
<1> HIDE DEF ms, qs, rs, am, ym
<1>12. rs <= ms + d + S BY <1>10, <1>11
<1>13. rs * D <= (ms + d + S) * D BY <1>10, <1>12, ScaledOrder
<1>14. (ms + d + S) * D = (ms + d) * D + ds BY <1>10
<1> DEFINE u == (ms + d) * D
           v == rs * D
<1>15. /\ u \in Int /\ v \in Int /\ v <= u + ds /\ am <= v + ds /\ ym <= am + hs
       /\ u + 3 * ds < ym
  BY <1>10, <1>11, <1>13, <1>14
<1> HIDE DEF u, v, ds, hs
<1> QED BY <1>5, <1>10, <1>15

(* A price up to the quotient, past it, and past it by the rounding.       *)
LEMMA UpToQuotient ==
  ASSUME NEW W \in Nat, NEW m \in Nat \ {0}, NEW p \in Nat, p <= W \div m
  PROVE  p * m <= W
<1> DEFINE g == W \div m
<1>1. g \in Nat /\ g * m <= W BY QuotientBounds
<1> HIDE DEF g
<1>2. p <= g BY DEF g
<1>3. p * m <= g * m /\ p * m \in Int /\ g * m \in Int BY <1>1, <1>2, ProductOrder
<1> QED BY <1>1, <1>3

LEMMA PastQuotient ==
  ASSUME NEW W \in Nat, NEW m \in Nat \ {0}, NEW p \in Nat, p > W \div m
  PROVE  p * m > W
<1> DEFINE g == W \div m
<1>1. g \in Nat /\ W < g * m + m BY QuotientBounds
<1> HIDE DEF g
<1>2. g + 1 <= p BY <1>1 DEF g
<1>3. (g + 1) * m <= p * m /\ p * m \in Int BY <1>1, <1>2, ProductOrder
<1>4. (g + 1) * m = g * m + m /\ g * m \in Int BY <1>1
<1> QED BY <1>1, <1>3, <1>4

(* How far past the computed edge the rounding of margins may reach, in    *)
(* prices, for a position of size n.                                       *)
Reach(n) == 1 + (6 * SCALE) \div n

LEMMA ReachCovers ==
  ASSUME NEW n \in Nat \ {0}, NEW r \in Nat, NEW D \in Nat \ {0}, D <= 2 * r
  PROVE  Reach(n) \in Nat \ {0} /\ Reach(n) * (n * r) > 3 * (D * SCALE)
<1> DEFINE S == SCALE
           c == Reach(n)
           x == c * n
           ds == D * S
           xr == x * r
<1>1. S \in Nat \ {0} /\ 6 * S \in Nat BY MathAssumption
<1>2. c \in Nat \ {0} /\ x > 6 * S /\ x \in Nat
  <2> DEFINE k == (6 * S) \div n
  <2>1. k \in Nat /\ 6 * S < k * n + n BY <1>1, QuotientBounds
  <2>2. c = 1 + k BY DEF Reach
  <2> HIDE DEF k, c
  <2>3. x = k * n + n /\ c \in Nat \ {0} BY <2>1, <2>2
  <2>4. x \in Nat BY <2>3
  <2> QED BY <2>1, <2>3, <2>4
<1> HIDE DEF c, S
<1>3. c * (n * r) = xr BY <1>2
<1> HIDE DEF x
<1>4. 6 * S + 1 <= x /\ 6 * S + 1 \in Nat /\ 2 * r \in Nat BY <1>1, <1>2
<1>5. (6 * S + 1) * D <= x * (2 * r) BY <1>2, <1>4, ProductOrder
<1>6. (6 * S + 1) * D = 6 * ds + D /\ x * (2 * r) = 2 * xr BY <1>1, <1>2
<1>7. xr \in Int /\ ds \in Int BY <1>1, <1>2
<1> HIDE DEF xr, ds
<1>8. xr > 3 * ds BY <1>5, <1>6, <1>7
<1> QED BY <1>2, <1>3, <1>8 DEF c, S, ds

FarBefore(W, n, r, D, p) ==
  p = W \div (n * r) - Reach(n) => p * (n * r) + 3 * (D * SCALE) < W

LEMMA FarBeforeQuotient ==
  ASSUME NEW W \in Nat, NEW n \in Nat \ {0}, NEW r \in Nat \ {0}, NEW D \in Nat \ {0},
         D <= 2 * r, NEW p \in Nat
  PROVE  FarBefore(W, n, r, D, p)
<1> SUFFICES ASSUME p = W \div (n * r) - Reach(n)
             PROVE  p * (n * r) + 3 * (D * SCALE) < W
  BY DEF FarBefore
<1> DEFINE m == n * r
           c == Reach(n)
           ds == D * SCALE
<1>1. m \in Nat \ {0} /\ ds \in Nat BY MathAssumption
<1>2. c \in Nat /\ c * m > 3 * ds BY ReachCovers
<1> HIDE DEF m, c, ds
<1>3. p + c \in Nat /\ p + c <= W \div m
  <2>1. W \div m \in Nat BY <1>1, QuotientBounds
  <2> QED BY <1>2, <2>1 DEF m, c
<1>4. (p + c) * m <= W BY <1>1, <1>3, UpToQuotient
<1>5. (p + c) * m = p * m + c * m /\ p * m \in Int /\ c * m \in Int BY <1>1, <1>2
<1>6. p * m + 3 * ds < W BY <1>1, <1>2, <1>4, <1>5
<1> QED BY <1>6 DEF m, ds

FarPast(W, n, r, D, p) ==
  p = W \div (n * r) + 1 + Reach(n) => p * (n * r) > W + 3 * (D * SCALE)

LEMMA FarPastQuotient ==
  ASSUME NEW W \in Nat, NEW n \in Nat \ {0}, NEW r \in Nat \ {0}, NEW D \in Nat \ {0},
         D <= 2 * r, NEW p \in Nat
  PROVE  FarPast(W, n, r, D, p)
<1> SUFFICES ASSUME p = W \div (n * r) + 1 + Reach(n)
             PROVE  p * (n * r) > W + 3 * (D * SCALE)
  BY DEF FarPast
<1> DEFINE m == n * r
           c == Reach(n)
           g == W \div m
           ds == D * SCALE
<1>1. m \in Nat \ {0} /\ ds \in Nat BY MathAssumption
<1>2. c \in Nat /\ c * m > 3 * ds BY ReachCovers
<1>3. p = g + 1 + c OBVIOUS
<1> HIDE DEF m, c, ds
<1>4. g \in Nat BY <1>1, QuotientBounds
<1>5. (g + 1) * m > W
  <2>1. g + 1 \in Nat /\ g + 1 > W \div m BY <1>4
  <2> HIDE DEF g
  <2> QED BY <1>1, <2>1, PastQuotient
<1> HIDE DEF g
<1>6. p * m = (g + 1) * m + c * m BY <1>1, <1>2, <1>3, <1>4
<1>7. (g + 1) * m \in Int /\ c * m \in Int BY <1>1, <1>2, <1>4
<1>8. p * m > W + 3 * ds BY <1>1, <1>2, <1>5, <1>6, <1>7
<1> QED BY <1>8 DEF m, ds

(* Nothing saturates when the sweep tests the position: its margin leaves  *)
(* room for the profit, and its notional for the maintenance share.        *)
RoomToSpare(x, params) ==
  /\ x.posted_margin + MAX_PRICE * x.size <= UsdMax
  /\ MAX_PRICE * x.size * params.maintenance_margin_bps <= UsdMax * SCALE

(* What the price difference is worth on the whole position, unscaled.     *)
Gap(pos, mark) ==
  IF pos.side = "long" THEN mark * pos.size - pos.entry_price * pos.size
                       ELSE pos.entry_price * pos.size - mark * pos.size

LEMMA BoundedValue ==
  ASSUME NEW n \in Size, NEW p \in Price
  PROVE  /\ p * n \in Nat /\ p * n <= MAX_PRICE * n
         /\ MAX_PRICE * n \in Nat /\ MAX_PRICE * n <= UsdMax
<1>1. n \in Nat /\ p \in Nat /\ n <= MAX_SIZE /\ p <= MAX_PRICE /\ MAX_PRICE \in Nat
      /\ MAX_SIZE \in Nat
  BY MathAssumption DEF Size, Price
<1>2. p * n \in Nat /\ p * n <= MAX_PRICE * n BY <1>1, ProductOrder
<1>3. MAX_PRICE * n \in Nat /\ MAX_PRICE * MAX_SIZE \in Nat /\ MAX_PRICE * n <= MAX_PRICE * MAX_SIZE
  BY <1>1, ProductOrder
<1> QED BY <1>2, <1>3, MathAssumption

LEMMA SweepTest ==
  ASSUME NEW pos \in Position, NEW params \in RiskParams, NEW p \in Price,
         RoomToSpare(pos, params), pos.posted_margin >= 0
  PROVE  LET M == pos.posted_margin - pos.funding_paid
             due == (((p * pos.size) \div SCALE) * params.maintenance_margin_bps) \div 10000
         IN  /\ Gap(pos, p) \in Int
             /\ due \in Int
             /\ IsLiquidatable(pos, p, params) <=> M + TruncDiv(Gap(pos, p), SCALE) < due
<1> DEFINE n == pos.size
           e == pos.entry_price
           a == pos.posted_margin
           f == pos.funding_paid
           mm == params.maintenance_margin_bps
           Y == p * n
           X == e * n
           T == MAX_PRICE * n
           d == Gap(pos, p)
           q == TruncDiv(d, SCALE)
           N == Y \div SCALE
           b == N * mm
           due == b \div 10000
<1>1. /\ n \in Size /\ n \in Nat \ {0} /\ e \in Price /\ e \in Nat /\ p \in Nat /\ mm \in Nat
      /\ a \in Usd /\ f \in Usd /\ a \in Int /\ f \in Int /\ a >= 0 /\ pos.side \in Side
      /\ SCALE \in Nat \ {0} /\ UsdMax \in Nat /\ UsdMin = -UsdMax - 1
  BY MathAssumption DEF Position, Size, Price, Usd, UsdMin, RiskParams
<1>2. /\ Y \in Nat /\ Y <= T /\ X \in Nat /\ X <= T /\ T \in Nat /\ T <= UsdMax
  BY <1>1, BoundedValue
<1>3. a + T <= UsdMax /\ T * mm <= UsdMax * SCALE
  BY DEF RoomToSpare
<1>4. d = (IF pos.side = "long" THEN Y - X ELSE X - Y) BY DEF Gap
<1>5. ScaledMul(IF pos.side = "long" THEN p - e ELSE e - p, n) = TruncDiv(Saturate(d), SCALE)
  <2>1. (p - e) * n = Y - X /\ (e - p) * n = X - Y BY <1>1
  <2> QED BY <1>1, <1>4, <2>1 DEF ScaledMul, SatMul, Side
<1>6. Notional(pos, p) = TruncDiv(Saturate(Y), SCALE) BY DEF Notional, ScaledMul, SatMul
<1>7. UnrealizedPnl(pos, p) = TruncDiv(Saturate(d), SCALE) BY <1>5 DEF UnrealizedPnl
<1> HIDE DEF Y, X, T, d
<1>8. d \in Int /\ -T <= d /\ d <= T BY <1>2, <1>4
<1>9. d \in Usd /\ Y \in Usd BY <1>1, <1>2, <1>8 DEF Usd
<1>10. Saturate(d) = d /\ Saturate(Y) = Y BY <1>2, <1>8, <1>9, SaturateType
<1>11. UnrealizedPnl(pos, p) = q BY <1>7, <1>10
<1>12. Notional(pos, p) = N BY <1>2, <1>6, <1>10 DEF TruncDiv
<1>13. q \in Int /\ -T <= q /\ q <= T
  <2>1. q \in Int /\ (d >= 0 => q >= 0 /\ q <= d) /\ (d <= 0 => q <= 0 /\ q >= d)
    BY <1>1, <1>8, TruncDivSign
  <2> HIDE DEF q
  <2> QED BY <1>2, <1>8, <2>1
<1>14. N \in Nat /\ N * SCALE <= Y BY <1>1, <1>2, QuotientBounds
<1> HIDE DEF q, N
<1>15. SatAdd(a, q) = a + q
  <2>1. a + q \in Usd BY <1>1, <1>2, <1>3, <1>13 DEF Usd
  <2> QED BY <1>1, <1>13, <2>1, SaturateType DEF SatAdd
<1>16. PositionEquity(pos, p) = Saturate(a - f + q)
  BY <1>1, <1>11, <1>13, <1>15 DEF PositionEquity, SatSub
<1>17. b \in Nat /\ b <= UsdMax
  <2>1. b \in Nat BY <1>1, <1>14
  <2>2. (N * SCALE) * mm <= T * mm
    <3>1. N * SCALE \in Nat /\ N * SCALE <= T BY <1>1, <1>2, <1>14
    <3> QED BY <1>1, <1>2, <3>1, ProductOrder
  <2>3. (N * SCALE) * mm = b * SCALE BY <1>1, <1>14
  <2>4. b * SCALE \in Int /\ UsdMax * SCALE \in Int /\ T * mm \in Int BY <1>1, <1>2, <2>1
  <2>5. b * SCALE < UsdMax * SCALE + SCALE BY <1>1, <1>3, <2>2, <2>3, <2>4
  <2> HIDE DEF b
  <2> QED BY <1>1, <2>1, <2>5, QuotientOrder
<1>18. MaintenanceMargin(pos, p, params) = due
  <2>1. b \in Usd BY <1>1, <1>17 DEF Usd
  <2>2. Saturate(b) = b BY <1>17, <2>1, SaturateType
  <2> QED BY <1>12, <1>17, <2>2 DEF MaintenanceMargin, MulBps, SatMul, TruncDiv
<1> HIDE DEF b
<1>19. due \in Nat /\ due <= UsdMax
  <2>1. due \in Nat /\ due * 10000 <= b BY <1>17, QuotientBounds
  <2> HIDE DEF due
  <2> QED BY <1>1, <1>17, <2>1
<1> DEFINE E == a - f + q
<1>20. E \in Int BY <1>1, <1>13
<1>21. Saturate(E) < due <=> E < due
  <2> HIDE DEF E, due
  <2> QED BY <1>1, <1>19, <1>20 DEF Saturate
<1>22. IsLiquidatable(pos, p, params) <=> E < due
  BY <1>16, <1>18, <1>21 DEF IsLiquidatable
<1> QED BY <1>8, <1>19, <1>22 DEF due, b, N, q, d, Y

(* The subtraction that wraps around leaves an amount alone.               *)
LEMMA WrapsNothing ==
  ASSUME NEW x \in Usd PROVE Wrap(x) = x
<1> DEFINE w == x - UsdMin
           c == 2 * UsdMax + 2
<1>1. w \in Nat /\ c \in Nat \ {0} /\ w < c BY MathAssumption DEF Usd, UsdMin
<1>2. x \in Int /\ UsdMin \in Int BY MathAssumption DEF Usd, UsdMin
<1> HIDE DEF c
<1>3. w % c = w
  <2> HIDE DEF w
  <2> QED BY <1>1
<1> QED BY <1>2, <1>3 DEF Wrap, c

(* The computed price is the quotient of two natural numbers.              *)
LEMMA LongEdge ==
  ASSUME NEW pos \in Position, NEW params \in RiskParams,
         params.maintenance_margin_bps <= 5000, pos.side = "long",
         pos.posted_margin - pos.funding_paid \in Usd,
         LiquidationPrice(pos, params) # NoPrice
  PROVE  LET W == (pos.entry_price * pos.size
                     - (pos.posted_margin - pos.funding_paid) * SCALE) * 10000
         IN  /\ W \in Nat
             /\ LiquidationPrice(pos, params)
                  = W \div (pos.size * (10000 - params.maintenance_margin_bps))
<1> DEFINE n == pos.size
           X == pos.entry_price * n
           Z == (pos.posted_margin - pos.funding_paid) * SCALE
           r == 10000 - params.maintenance_margin_bps
           W == (X - Z) * 10000
<1>1. n \in Nat \ {0} /\ pos.entry_price \in Nat /\ params.maintenance_margin_bps \in Nat
  BY MathAssumption DEF Position, Size, Price, RiskParams
<1>2. X \in Int /\ Z \in Int
  <2>1. pos.posted_margin - pos.funding_paid \in Int /\ SCALE \in Int
    BY MathAssumption DEF Usd, UsdMin
  <2> QED BY <1>1, <2>1
<1>3. EdgeNumer(pos) = -W
  <2>1. 1 * pos.entry_price * pos.size = X BY <1>1
  <2>2. EdgeNumer(pos) = (Z - X) * 10000
    BY <2>1, WrapsNothing DEF EdgeNumer, PlusOrMinus
  <2> HIDE DEF X, Z
  <2> QED BY <1>2, <2>2
<1>4. EdgeDenom(pos, params) = -(n * r) /\ n * r \in Nat \ {0}
  <2>1. r \in Nat \ {0} BY <1>1
  <2>2. n * r \in Nat \ {0} BY <1>1, <2>1
  <2>3. n * (params.maintenance_margin_bps - 10000) = -(n * r) BY <1>1
  <2>4. EdgeDenom(pos, params) = n * (params.maintenance_margin_bps - 10000)
    BY <1>1 DEF EdgeDenom, PlusOrMinus
  <2> QED BY <2>2, <2>3, <2>4
<1> DEFINE m == n * r
<1> HIDE DEF m, X, Z
<1>5. W \in Int BY <1>2
<1> HIDE DEF W
<1>6. EdgeNumer(pos) = -W /\ EdgeDenom(pos, params) = -m /\ m \in Nat \ {0}
  BY <1>3, <1>4 DEF m
<1>7. W > 0 /\ LiquidationPrice(pos, params) = (-(-W)) \div (-(-m))
  BY <1>5, <1>6 DEF LiquidationPrice, NoPrice
<1>8. -(-W) = W /\ -(-m) = m BY <1>5, <1>6
<1> QED BY <1>5, <1>7, <1>8 DEF W, m, X, Z

LEMMA ShortEdge ==
  ASSUME NEW pos \in Position, NEW params \in RiskParams, pos.side = "short",
         pos.posted_margin - pos.funding_paid \in Usd,
         LiquidationPrice(pos, params) # NoPrice
  PROVE  LET W == (pos.entry_price * pos.size
                     + (pos.posted_margin - pos.funding_paid) * SCALE) * 10000
         IN  /\ W \in Nat
             /\ LiquidationPrice(pos, params)
                  = W \div (pos.size * (10000 + params.maintenance_margin_bps))
<1> DEFINE n == pos.size
           X == pos.entry_price * n
           Z == (pos.posted_margin - pos.funding_paid) * SCALE
           r == 10000 + params.maintenance_margin_bps
           W == (X + Z) * 10000
<1>1. n \in Nat \ {0} /\ pos.entry_price \in Nat /\ params.maintenance_margin_bps \in Nat
  BY MathAssumption DEF Position, Size, Price, RiskParams
<1>2. X \in Int /\ Z \in Int
  <2>1. pos.posted_margin - pos.funding_paid \in Int /\ SCALE \in Int
    BY MathAssumption DEF Usd, UsdMin
  <2> QED BY <1>1, <2>1
<1>3. EdgeNumer(pos) = W
  <2>1. (-1) * pos.entry_price * pos.size = -X BY <1>1
  <2>2. EdgeNumer(pos) = (Z - (-X)) * 10000
    BY <2>1, WrapsNothing DEF EdgeNumer, PlusOrMinus
  <2> HIDE DEF X, Z
  <2> QED BY <1>2, <2>2
<1>4. EdgeDenom(pos, params) = n * r /\ n * r \in Nat \ {0}
  <2>1. r \in Nat \ {0} BY <1>1
  <2>2. n * r \in Nat \ {0} BY <1>1, <2>1
  <2>3. params.maintenance_margin_bps - (-1) * 10000 = r BY <1>1
  <2>4. EdgeDenom(pos, params) = n * r
    BY <1>1, <2>3 DEF EdgeDenom, PlusOrMinus
  <2> QED BY <2>2, <2>4
<1> DEFINE m == n * r
<1> HIDE DEF m, X, Z
<1>5. W \in Int BY <1>2
<1> HIDE DEF W
<1>6. EdgeNumer(pos) = W /\ EdgeDenom(pos, params) = m /\ m \in Nat \ {0}
  BY <1>3, <1>4 DEF m
<1>7. W > 0 /\ LiquidationPrice(pos, params) = W \div m
  BY <1>5, <1>6 DEF LiquidationPrice, NoPrice
<1> QED BY <1>5, <1>7 DEF W, m, X, Z

(* In fractions, a price on the safe side of the quotient leaves equity at *)
(* its maintenance margin, and one far past it leaves it short.            *)
LEMMA LongInFractions ==
  ASSUME NEW X \in Int, NEW Z \in Int, NEW Y \in Nat, NEW mm \in Nat, NEW D \in Nat, NEW s \in Nat
  PROVE  /\ Y * (D - mm) > (X - Z) * D => (Z + (Y - X)) * D >= Y * mm
         /\ Y * (D - mm) + s < (X - Z) * D => (Z + (Y - X)) * D + s < Y * mm
<1> DEFINE ym == Y * mm
           yd == Y * D
           xz == (X - Z) * D
<1>1. Y * (D - mm) = yd - ym /\ (Z + (Y - X)) * D = yd - xz OBVIOUS
<1>2. ym \in Int /\ yd \in Int /\ xz \in Int OBVIOUS
<1> HIDE DEF ym, yd, xz
<1>3. /\ yd - ym > xz => yd - xz >= ym
      /\ yd - ym + s < xz => yd - xz + s < ym
  BY <1>2
<1> QED BY <1>1, <1>3 DEF ym, xz

LEMMA ShortInFractions ==
  ASSUME NEW X \in Int, NEW Z \in Int, NEW Y \in Nat, NEW mm \in Nat, NEW D \in Nat, NEW s \in Nat
  PROVE  /\ Y * (D + mm) <= (X + Z) * D => (Z + (X - Y)) * D >= Y * mm
         /\ Y * (D + mm) > (X + Z) * D + s => (Z + (X - Y)) * D + s < Y * mm
<1> DEFINE ym == Y * mm
           yd == Y * D
           xz == (X + Z) * D
<1>1. Y * (D + mm) = yd + ym /\ (Z + (X - Y)) * D = xz - yd OBVIOUS
<1>2. ym \in Int /\ yd \in Int /\ xz \in Int OBVIOUS
<1> HIDE DEF ym, yd, xz
<1>3. /\ yd + ym <= xz => xz - yd >= ym
      /\ yd + ym > xz + s => xz - yd + s < ym
  BY <1>2
<1> QED BY <1>1, <1>3 DEF ym, xz

(* The liquidation price of a position is the edge of the sweep's test.    *)
LEMMA LiquidationPriceBounds ==
  ASSUME NEW pos \in Position, NEW params \in RiskParams,
         params.maintenance_margin_bps <= 5000,
         RoomToSpare(pos, params), pos.posted_margin >= 0,
         pos.posted_margin - pos.funding_paid \in Usd,
         LiquidationPrice(pos, params) # NoPrice,
         NEW p \in Price
  PROVE  LET edge == LiquidationPrice(pos, params)
             c == Reach(pos.size)
         IN  /\ pos.side = "long" /\ p = edge + 1 => ~IsLiquidatable(pos, p, params)
             /\ pos.side = "long" /\ p = edge - c => IsLiquidatable(pos, p, params)
             /\ pos.side = "short" /\ p = edge => ~IsLiquidatable(pos, p, params)
             /\ pos.side = "short" /\ p = edge + 1 + c => IsLiquidatable(pos, p, params)
<1> DEFINE D == 10000
           n == pos.size
           M == pos.posted_margin - pos.funding_paid
           mm == params.maintenance_margin_bps
           X == pos.entry_price * n
           Y == p * n
           Z == M * SCALE
           d == Gap(pos, p)
           q == TruncDiv(d, SCALE)
           due == ((Y \div SCALE) * mm) \div D
           edge == LiquidationPrice(pos, params)
           s == 3 * (D * SCALE)
           Liq == IsLiquidatable(pos, p, params)
<1>1. /\ n \in Nat \ {0} /\ p \in Nat /\ pos.entry_price \in Nat /\ SCALE \in Nat \ {0}
  BY MathAssumption DEF Position, Size, Price
<1>2. mm \in Nat /\ D \in Nat \ {0} /\ 2 * mm <= D BY DEF RiskParams
<1>3. M \in Int BY MathAssumption DEF Usd, UsdMin
<1>4. d \in Int /\ due \in Int /\ (Liq <=> M + q < due)
  BY SweepTest
<1>5. pos.side = "long" =>
        /\ (X - Z) * D \in Nat
        /\ edge = ((X - Z) * D) \div (n * (D - mm))
  BY LongEdge
<1>6. pos.side = "short" =>
        /\ (X + Z) * D \in Nat
        /\ edge = ((X + Z) * D) \div (n * (D + mm))
  BY ShortEdge
<1> HIDE DEF D, M, mm, d, edge, Liq
<1>7. X \in Nat /\ Y \in Nat /\ Z \in Int /\ s \in Nat BY <1>1, <1>2, <1>3
<1>8. q \in Int BY <1>1, <1>4, TruncDivSign
<1>9. (Z + d) * D >= Y * mm => ~Liq
  <2> SUFFICES ASSUME (M * SCALE + d) * D >= Y * mm PROVE M + q >= due
    BY <1>3, <1>4, <1>8
  <2> HIDE DEF Y
  <2>1. SparedAt(D, SCALE, M, d, Y, mm)
    <3>1. /\ D \in Nat \ {0} /\ SCALE \in Nat \ {0} /\ M \in Int /\ d \in Int /\ Y \in Nat
          /\ mm \in Nat /\ 2 * mm <= D
      BY <1>1, <1>2, <1>3, <1>4, <1>7
    <3> QED BY ONLY <3>1, SparedInFractions
  <2> QED BY <2>1 DEF SparedAt
<1>10. (Z + d) * D + s < Y * mm => Liq
  <2> SUFFICES ASSUME (M * SCALE + d) * D + 3 * (D * SCALE) < Y * mm PROVE M + q < due
    BY <1>4
  <2> HIDE DEF Y
  <2>1. TakenAt(D, SCALE, M, d, Y, mm)
    <3>1. /\ D \in Nat \ {0} /\ SCALE \in Nat \ {0} /\ M \in Int /\ d \in Int /\ Y \in Nat
          /\ mm \in Nat /\ 2 * mm <= D
      BY <1>1, <1>2, <1>3, <1>4, <1>7
    <3> QED BY ONLY <3>1, TakenInFractions
  <2> QED BY <2>1 DEF TakenAt
<1> HIDE DEF q, due
<1>11. CASE pos.side = "long"
  <2> DEFINE r == D - mm
             W == (X - Z) * D
             g == W \div (n * r)
  <2>1. W \in Nat /\ edge = g BY <1>5, <1>11
  <2>2. r \in Nat \ {0} /\ D <= 2 * r BY <1>2
  <2>3. d = Y - X BY <1>11 DEF Gap, d
  <2>4. p * (n * r) = Y * r BY <1>1, <2>2
  <2>5. n * r \in Nat \ {0} BY <1>1, <2>2
  <2>6. ASSUME p = edge + 1 PROVE ~Liq
    <3>1. p > g
      <4>1. g \in Nat BY <2>1, <2>5, QuotientBounds
      <4>2. p = g + 1 BY <2>1, <2>6
      <4> HIDE DEF g
      <4> QED BY <4>1, <4>2
    <3>2. p * (n * r) > W
      <4> HIDE DEF W, r, n
      <4> QED BY <1>1, <2>1, <2>5, <3>1, PastQuotient
    <3>3. Y * r > W BY <2>4, <3>2
    <3>4. (Z + (Y - X)) * D >= Y * mm
      <4> HIDE DEF X, Y, Z
      <4> QED BY <1>2, <1>7, <3>3, LongInFractions
    <3> QED BY <1>9, <2>3, <3>4
  <2>7. ASSUME p = edge - Reach(n) PROVE Liq
    <3>1. p * (n * r) + s < W
      <4>1. p = W \div (n * r) - Reach(n) BY <2>1, <2>7
      <4> HIDE DEF W, r, n
      <4>2. FarBefore(W, n, r, D, p) BY <1>1, <1>2, <2>1, <2>2, FarBeforeQuotient
      <4> QED BY <4>1, <4>2 DEF FarBefore
    <3>2. Y * r + s < W BY <2>4, <3>1
    <3>3. (Z + (Y - X)) * D + s < Y * mm
      <4> HIDE DEF X, Y, Z, s
      <4> QED BY <1>2, <1>7, <3>2, LongInFractions
    <3> QED BY <1>10, <2>3, <3>3
  <2> QED BY <1>11, <2>6, <2>7 DEF edge, Liq
<1>12. CASE pos.side = "short"
  <2> DEFINE r == D + mm
             W == (X + Z) * D
             g == W \div (n * r)
  <2>1. W \in Nat /\ edge = g BY <1>6, <1>12
  <2>2. r \in Nat \ {0} /\ D <= 2 * r BY <1>2
  <2>3. d = X - Y BY <1>12 DEF Gap, d
  <2>4. p * (n * r) = Y * r BY <1>1, <2>2
  <2>5. n * r \in Nat \ {0} BY <1>1, <2>2
  <2>6. ASSUME p = edge PROVE ~Liq
    <3>1. p <= W \div (n * r) BY <1>1, <2>1, <2>6
    <3>2. p * (n * r) <= W
      <4> HIDE DEF W, r, n
      <4> QED BY <1>1, <2>1, <2>5, <3>1, UpToQuotient
    <3>3. Y * r <= W BY <2>4, <3>2
    <3>4. (Z + (X - Y)) * D >= Y * mm
      <4> HIDE DEF X, Y, Z
      <4> QED BY <1>2, <1>7, <3>3, ShortInFractions
    <3> QED BY <1>9, <2>3, <3>4
  <2>7. ASSUME p = edge + 1 + Reach(n) PROVE Liq
    <3>1. p * (n * r) > W + s
      <4>1. p = W \div (n * r) + 1 + Reach(n) BY <2>1, <2>7
      <4> HIDE DEF W, r, n
      <4>2. FarPast(W, n, r, D, p) BY <1>1, <1>2, <2>1, <2>2, FarPastQuotient
      <4> QED BY <4>1, <4>2 DEF FarPast
    <3>2. Y * r > W + s BY <2>4, <3>1
    <3>3. (Z + (X - Y)) * D + s < Y * mm
      <4> HIDE DEF X, Y, Z, s
      <4> QED BY <1>2, <1>7, <3>2, ShortInFractions
    <3> QED BY <1>10, <2>3, <3>3
  <2> QED BY <1>12, <2>6, <2>7 DEF edge, Liq
<1> QED BY <1>11, <1>12

----------------------------------------------------------------------------
(* The insurance fund.                                                     *)

(* Covering a shortfall splits it into what is drawn and what is           *)
(* socialised, takes exactly what is drawn from a balance that is not      *)
(* negative, and socialises only when it leaves the fund empty.            *)
LEMMA CoverSplits ==
  ASSUME NEW balance \in Usd, NEW shortfall \in Usd, shortfall >= 0
  PROVE  LET c == Cover(balance, shortfall) IN
         /\ c.balance \in Usd /\ c.drawn \in Usd /\ c.socialized \in Usd
         /\ c.drawn >= 0 /\ c.socialized >= 0
         /\ c.drawn + c.socialized = shortfall
         /\ balance >= 0 => c.balance >= 0 /\ c.balance = balance - c.drawn
         /\ c.socialized > 0 => c.balance = 0
<1>1. balance \in Int /\ shortfall \in Int /\ 0 \in Usd
  BY MathAssumption DEF Usd, UsdMin
<1>2. CASE balance >= shortfall
  <2>1. balance - shortfall \in Usd
    BY <1>1, <1>2, MathAssumption DEF Usd, UsdMin
  <2>2. SatSub(balance, shortfall) = balance - shortfall
    BY <1>1, <2>1, SaturateType DEF SatSub
  <2> QED
    BY <1>1, <1>2, <2>1, <2>2 DEF Cover
<1>3. CASE ~(balance >= shortfall)
  <2> DEFINE drawn == IF balance > 0 THEN balance ELSE 0
  <2>1. drawn \in Usd /\ drawn \in Int /\ drawn >= 0
    BY <1>1
  <2>2. shortfall - drawn \in Usd /\ shortfall - drawn >= 0
    BY <1>1, <1>3, MathAssumption DEF Usd, UsdMin
  <2>3. SatSub(shortfall, drawn) = shortfall - drawn
    BY <1>1, <2>1, <2>2, SaturateType DEF SatSub
  <2> QED
    BY <1>1, <1>3, <2>1, <2>2, <2>3 DEF Cover
<1> QED
  BY <1>2, <1>3

----------------------------------------------------------------------------
(* Induction over the natural numbers and over finite sets, stated with a  *)
(* set in the place of a predicate, from the well-foundedness of <.        *)

LEMMA NatSetInduction ==
  ASSUME NEW S, 0 \in S, \A n \in Nat : n \in S => n + 1 \in S
  PROVE  \A n \in Nat : n \in S
<1> DEFINE T == Nat \ S
<1> SUFFICES ASSUME T # {} PROVE FALSE
  OBVIOUS
<1>1. PICK m \in T : \A y \in T : ~(<<y, m>> \in OpToRel(<, Nat))
  <2>1. T \subseteq Nat
    OBVIOUS
  <2> HIDE DEF T
  <2> QED
    BY <2>1, WFMin, NatLessThanWellFounded
<1>2. \A y \in T : ~(y < m)
  BY <1>1 DEF OpToRel
<1>3. m \in Nat /\ m # 0 /\ m - 1 \in Nat
  <2>1. m \in Nat /\ m \notin S
    BY <1>1
  <2> QED
    BY <2>1
<1>4. m - 1 \notin S
  <2> SUFFICES ASSUME m - 1 \in S PROVE FALSE
    OBVIOUS
  <2>1. (m - 1) + 1 \in S
    BY <1>3
  <2>2. (m - 1) + 1 = m
    BY <1>3
  <2> QED
    BY <2>1, <2>2, <1>1
<1> QED
  BY <1>2, <1>3, <1>4

(* The choice a sum makes of its next element.                             *)
Chosen(s) == CHOOSE x \in s : TRUE

(* g maps every subset of S to the sum of f over it.                       *)
SumsTo(f, S, g) ==
  g = [s \in SUBSET S |-> IF s = {} THEN 0 ELSE f[Chosen(s)] + g[s \ {Chosen(s)}]]

LEMMA ChosenIsElement == \A s : s # {} => Chosen(s) \in s
BY DEF Chosen

LEMMA SumFunctionExists ==
  ASSUME NEW f, NEW S, IsFiniteSet(S)
  PROVE  \E g : SumsTo(f, S, g)
<1> DEFINE Step(g) == [s \in SUBSET S |->
                       IF s = {} THEN 0 ELSE f[Chosen(s)] + g[s \ {Chosen(s)}]]
           Small(n) == {s \in SUBSET S : Cardinality(s) <= n}
           OK(g, n) == \A s \in Small(n) : g[s] = Step(g)[s]
           Ns == {n \in Nat : \E g : OK(g, n)}
<1>0. \A s \in SUBSET S : /\ IsFiniteSet(s) /\ Cardinality(s) \in Nat
                          /\ Cardinality(s) = 0 <=> s = {}
                          /\ s # {} => Cardinality(s \ {Chosen(s)}) = Cardinality(s) - 1
  BY FS_Subset, FS_CardinalityType, FS_EmptySet, FS_RemoveElement, ChosenIsElement
<1>1. 0 \in Ns
  <2> DEFINE g == [s \in SUBSET S |-> 0]
  <2>1. ASSUME NEW s \in Small(0) PROVE s = {} /\ s \in SUBSET S
    <3>1. s \in SUBSET S /\ Cardinality(s) \in Nat /\ Cardinality(s) <= 0
      BY <1>0
    <3>2. Cardinality(s) = 0
      BY <3>1
    <3> QED
      BY <1>0, <3>1, <3>2
  <2>2. OK(g, 0)
    BY <2>1
  <2> HIDE DEF OK, g
  <2> QED
    BY <2>2
<1>2. \A n \in Nat : n \in Ns => n + 1 \in Ns
  <2> SUFFICES ASSUME NEW n \in Nat, NEW g, OK(g, n) PROVE \E h : OK(h, n + 1)
    <3> HIDE DEF OK
    <3> QED
      OBVIOUS
  <2> DEFINE h == Step(g)
  <2>1. \A s \in Small(n) : h[s] = g[s]
    OBVIOUS
  <2>2. ASSUME NEW s \in Small(n + 1), s # {}
        PROVE  s \ {Chosen(s)} \in Small(n)
    BY <2>2, <1>0
  <2>3. OK(h, n + 1)
    <3> SUFFICES ASSUME NEW s \in Small(n + 1) PROVE h[s] = Step(h)[s]
      OBVIOUS
    <3>1. s # {} => h[s \ {Chosen(s)}] = g[s \ {Chosen(s)}]
      BY <2>1, <2>2
    <3> QED
      BY <3>1
  <2> QED
    BY <2>3
<1>3. Cardinality(S) \in Ns
  <2>1. Cardinality(S) \in Nat
    BY FS_CardinalityType
  <2> HIDE DEF Ns
  <2> QED
    BY <1>1, <1>2, <2>1, NatSetInduction
<1>4. PICK g : OK(g, Cardinality(S))
  BY <1>3
<1>5. \A s \in SUBSET S : s \in Small(Cardinality(S))
  BY FS_Subset
<1> DEFINE h == Step(g)
<1>6. \A s \in SUBSET S : h[s] = g[s]
  BY <1>4, <1>5
<1>7. \A s \in SUBSET S : s # {} => h[s \ {Chosen(s)}] = g[s \ {Chosen(s)}]
  BY <1>6
<1>8. SumsTo(f, S, h)
  BY <1>7 DEF SumsTo
<1> QED
  BY <1>8

LEMMA SumUnfolds ==
  ASSUME NEW f, NEW S, IsFiniteSet(S)
  PROVE  \E g : SumFunctionOnSet(f, S) = g[S] /\ SumsTo(f, S, g)
<1> DEFINE iter == CHOOSE g : g = [s \in SUBSET S |->
                     IF s = {} THEN 0 ELSE f[CHOOSE x \in s : TRUE] + g[s \ {CHOOSE x \in s : TRUE}]]
<1>1. SumFunctionOnSet(f, S) = iter[S]
  BY DEF SumFunctionOnSet, FoldFunctionOnSet, MapThenFoldSet
<1>2. iter = [s \in SUBSET S |->
          IF s = {} THEN 0 ELSE f[CHOOSE x \in s : TRUE] + iter[s \ {CHOOSE x \in s : TRUE}]]
  <2>1. \E g : g = [s \in SUBSET S |->
          IF s = {} THEN 0 ELSE f[CHOOSE x \in s : TRUE] + g[s \ {CHOOSE x \in s : TRUE}]]
    <3>1. PICK g : SumsTo(f, S, g)
      BY SumFunctionExists
    <3>2. g = [s \in SUBSET S |->
            IF s = {} THEN 0 ELSE f[CHOOSE x \in s : TRUE] + g[s \ {CHOOSE x \in s : TRUE}]]
      BY <3>1, Zenon DEF SumsTo, Chosen
    <3> QED
      BY <3>2
  <2> QED
    BY <2>1
<1> HIDE DEF iter
<1> QED
  BY <1>1, <1>2 DEF Chosen, SumsTo

(* What holds of the empty set, and of a set when it holds of the set      *)
(* without its chosen element, holds of every subset of a finite set.      *)
LEMMA ChosenInduction ==
  ASSUME NEW S, IsFiniteSet(S), NEW P, {} \in P,
         \A s \in SUBSET S : s # {} /\ s \ {Chosen(s)} \in P => s \in P
  PROVE  \A s \in SUBSET S : s \in P
<1> DEFINE Ns == {n \in Nat : \A s \in SUBSET S : Cardinality(s) = n => s \in P}
<1>1. ASSUME NEW s \in SUBSET S
      PROVE  /\ IsFiniteSet(s) /\ Cardinality(s) \in Nat
             /\ Cardinality(s) = 0 <=> s = {}
             /\ s # {} => Cardinality(s \ {Chosen(s)}) = Cardinality(s) - 1
  BY FS_Subset, FS_CardinalityType, FS_EmptySet, FS_RemoveElement, ChosenIsElement
<1>2. 0 \in Ns
  BY <1>1
<1>3. ASSUME NEW n \in Nat, n \in Ns
      PROVE  n + 1 \in Ns
  <2> SUFFICES ASSUME NEW s \in SUBSET S, Cardinality(s) = n + 1
               PROVE  s \in P
    OBVIOUS
  <2>1. s # {} /\ Cardinality(s \ {Chosen(s)}) = n
    BY <1>1
  <2>2. s \ {Chosen(s)} \in P
    BY <1>3, <2>1
  <2> QED
    BY <2>1, <2>2
<1>4. \A n \in Nat : n \in Ns
  <2> HIDE DEF Ns
  <2> QED
    BY <1>2, <1>3, NatSetInduction
<1> QED
  BY <1>1, <1>4

LEMMA FiniteSetInduction ==
  ASSUME NEW S, IsFiniteSet(S), NEW P, {} \in P,
         \A s \in SUBSET S, x \in S : s \in P /\ x \notin s => s \cup {x} \in P
  PROVE  S \in P
<1>1. ASSUME NEW s \in SUBSET S, s # {}, s \ {Chosen(s)} \in P
      PROVE  s \in P
  <2>1. Chosen(s) \in S /\ s \ {Chosen(s)} \in SUBSET S
    BY <1>1, ChosenIsElement
  <2>2. s = (s \ {Chosen(s)}) \cup {Chosen(s)}
    BY <1>1, ChosenIsElement
  <2> QED
    BY <1>1, <2>1, <2>2
<1> QED
  BY <1>1, ChosenInduction

----------------------------------------------------------------------------
(* Sums of a function over a finite set.                                   *)

(* The sum depends on the values of the function in the set alone.         *)
LEMMA SumCongruence ==
  ASSUME NEW S, IsFiniteSet(S), NEW T \in SUBSET S, NEW f, NEW h,
         \A x \in T : f[x] = h[x],
         NEW g, SumsTo(f, S, g)
  PROVE  SumFunctionOnSet(h, T) = g[T]
<1>1. IsFiniteSet(T)
  BY FS_Subset
<1>2. PICK k : SumFunctionOnSet(h, T) = k[T] /\ SumsTo(h, T, k)
  BY <1>1, SumUnfolds
<1> DEFINE P == {s \in SUBSET T : g[s] = k[s]}
<1>3. {} \in P
  BY <1>2 DEF SumsTo
<1>4. ASSUME NEW s \in SUBSET T, s # {}, s \ {Chosen(s)} \in P
      PROVE  s \in P
  <2>1. Chosen(s) \in T
    BY <1>4, ChosenIsElement
  <2>2. g[s] = f[Chosen(s)] + g[s \ {Chosen(s)}]
    BY <1>4 DEF SumsTo
  <2>3. k[s] = h[Chosen(s)] + k[s \ {Chosen(s)}]
    BY <1>2, <1>4 DEF SumsTo
  <2> QED
    BY <1>4, <2>1, <2>2, <2>3
<1>5. \A s \in SUBSET T : s \in P
  <2> HIDE DEF P
  <2> QED
    BY <1>1, <1>3, <1>4, ChosenInduction
<1> QED
  BY <1>2, <1>5

LEMMA SumSame ==
  ASSUME NEW S, IsFiniteSet(S), NEW f, NEW h, \A x \in S : f[x] = h[x]
  PROVE  SumFunctionOnSet(f, S) = SumFunctionOnSet(h, S)
<1>1. PICK g : SumFunctionOnSet(f, S) = g[S] /\ SumsTo(f, S, g)
  BY SumUnfolds
<1> QED
  BY <1>1, SumCongruence

LEMMA SumEmpty == ASSUME NEW f PROVE SumFunctionOnSet(f, {}) = 0
<1>1. PICK g : SumFunctionOnSet(f, {}) = g[{}] /\ SumsTo(f, {}, g)
  BY SumUnfolds, FS_EmptySet
<1> QED
  BY <1>1 DEF SumsTo

LEMMA SumChosen ==
  ASSUME NEW S, IsFiniteSet(S), S # {}, NEW f
  PROVE  SumFunctionOnSet(f, S) = f[Chosen(S)] + SumFunctionOnSet(f, S \ {Chosen(S)})
<1>1. PICK g : SumFunctionOnSet(f, S) = g[S] /\ SumsTo(f, S, g)
  BY SumUnfolds
<1>2. g[S] = f[Chosen(S)] + g[S \ {Chosen(S)}]
  BY <1>1 DEF SumsTo
<1>3. SumFunctionOnSet(f, S \ {Chosen(S)}) = g[S \ {Chosen(S)}]
  BY <1>1, SumCongruence
<1> QED
  BY <1>1, <1>2, <1>3

LEMMA SumInt ==
  ASSUME NEW S, IsFiniteSet(S), NEW f, \A x \in S : f[x] \in Int
  PROVE  SumFunctionOnSet(f, S) \in Int
<1> DEFINE P == {s \in SUBSET S : SumFunctionOnSet(f, s) \in Int}
<1>1. {} \in P
  BY SumEmpty
<1>2. ASSUME NEW s \in SUBSET S, s # {}, s \ {Chosen(s)} \in P
      PROVE  s \in P
  <2>1. Chosen(s) \in S /\ IsFiniteSet(s)
    BY <1>2, ChosenIsElement, FS_Subset
  <2>2. SumFunctionOnSet(f, s) = f[Chosen(s)] + SumFunctionOnSet(f, s \ {Chosen(s)})
    BY <1>2, <2>1, SumChosen
  <2> QED
    BY <1>2, <2>1, <2>2
<1>3. \A s \in SUBSET S : s \in P
  <2> HIDE DEF P
  <2> QED
    BY <1>1, <1>2, ChosenInduction
<1> QED
  BY <1>3

(* Any element may be taken out of a sum.                                  *)
LEMMA SumTakeOut ==
  ASSUME NEW S, IsFiniteSet(S), NEW f, \A x \in S : f[x] \in Int
  PROVE  \A x \in S : SumFunctionOnSet(f, S) = f[x] + SumFunctionOnSet(f, S \ {x})
<1> DEFINE Splits(s) ==
             \A x \in s : SumFunctionOnSet(f, s) = f[x] + SumFunctionOnSet(f, s \ {x})
           Ns == {n \in Nat : \A s \in SUBSET S : Cardinality(s) = n => Splits(s)}
<1>1. ASSUME NEW s \in SUBSET S
      PROVE  /\ IsFiniteSet(s) /\ Cardinality(s) \in Nat
             /\ Cardinality(s) = 0 <=> s = {}
             /\ \A x \in s : Cardinality(s \ {x}) = Cardinality(s) - 1
  BY FS_Subset, FS_CardinalityType, FS_EmptySet, FS_RemoveElement
<1>2. 0 \in Ns
  BY <1>1
<1>3. ASSUME NEW n \in Nat, n \in Ns
      PROVE  n + 1 \in Ns
  <2> SUFFICES ASSUME NEW s \in SUBSET S, Cardinality(s) = n + 1, NEW x \in s
               PROVE  SumFunctionOnSet(f, s) = f[x] + SumFunctionOnSet(f, s \ {x})
    OBVIOUS
  <2> DEFINE c == Chosen(s)
  <2>1. c \in s
    BY ChosenIsElement
  <2>2. SumFunctionOnSet(f, s) = f[c] + SumFunctionOnSet(f, s \ {c})
    BY <1>1, SumChosen
  <2>3. CASE x = c
    BY <2>2, <2>3
  <2>4. CASE x # c
    <3> HIDE DEF c
    <3>1. ASSUME NEW y \in s PROVE Splits(s \ {y})
      <4>1. Cardinality(s \ {y}) = n
        BY <1>1
      <4> QED
        BY <1>3, <4>1
    <3>2. x \in s \ {c} /\ c \in s \ {x} /\ (s \ {c}) \ {x} = (s \ {x}) \ {c}
      BY <2>1, <2>4
    <3>3. SumFunctionOnSet(f, (s \ {x}) \ {c}) \in Int
      BY <1>1, FS_Subset, SumInt
    <3>4. SumFunctionOnSet(f, s \ {c}) = f[x] + SumFunctionOnSet(f, (s \ {x}) \ {c})
      BY <3>1, <3>2
    <3>5. SumFunctionOnSet(f, s \ {x}) = f[c] + SumFunctionOnSet(f, (s \ {x}) \ {c})
      BY <3>1, <3>2
    <3>6. f[c] \in Int /\ f[x] \in Int
      BY <2>1
    <3> QED
      BY <2>2, <3>3, <3>4, <3>5, <3>6
  <2> QED
    BY <2>3, <2>4
<1>4. \A n \in Nat : n \in Ns
  <2> HIDE DEF Ns
  <2> QED
    BY <1>2, <1>3, NatSetInduction
<1> QED
  BY <1>1, <1>4

(* One more element, or one value changed, changes the sum by as much.     *)
LEMMA SumAddElement ==
  ASSUME NEW S, IsFiniteSet(S), NEW f, \A y \in S : f[y] \in Int,
         NEW x, x \notin S, f[x] \in Int
  PROVE  SumFunctionOnSet(f, S \cup {x}) = SumFunctionOnSet(f, S) + f[x]
<1>1. IsFiniteSet(S \cup {x}) /\ (S \cup {x}) \ {x} = S
  BY FS_AddElement
<1>2. SumFunctionOnSet(f, S \cup {x}) = f[x] + SumFunctionOnSet(f, (S \cup {x}) \ {x})
  BY <1>1, SumTakeOut
<1>3. SumFunctionOnSet(f, (S \cup {x}) \ {x}) = SumFunctionOnSet(f, S)
  BY <1>1
<1>4. SumFunctionOnSet(f, S) \in Int
  BY SumInt
<1> QED
  BY <1>2, <1>3, <1>4

LEMMA SumChange ==
  ASSUME NEW S, IsFiniteSet(S), NEW f, NEW h, NEW x \in S,
         \A y \in S : f[y] \in Int /\ h[y] \in Int,
         \A y \in S \ {x} : f[y] = h[y]
  PROVE  SumFunctionOnSet(h, S) = SumFunctionOnSet(f, S) - f[x] + h[x]
<1>1. IsFiniteSet(S \ {x})
  BY FS_RemoveElement
<1>2. SumFunctionOnSet(f, S) = f[x] + SumFunctionOnSet(f, S \ {x})
  BY SumTakeOut
<1>3. SumFunctionOnSet(h, S) = h[x] + SumFunctionOnSet(h, S \ {x})
  BY SumTakeOut
<1>4. SumFunctionOnSet(h, S \ {x}) = SumFunctionOnSet(f, S \ {x})
  BY <1>1, SumSame
<1>5. SumFunctionOnSet(f, S \ {x}) \in Int
  BY <1>1, SumInt
<1> QED
  BY <1>2, <1>3, <1>4, <1>5

LEMMA SumZero ==
  ASSUME NEW S, IsFiniteSet(S), NEW f, \A x \in S : f[x] = 0
  PROVE  SumFunctionOnSet(f, S) = 0
<1> DEFINE P == {s \in SUBSET S : SumFunctionOnSet(f, s) = 0}
<1>1. {} \in P
  BY SumEmpty
<1>2. ASSUME NEW s \in SUBSET S, s # {}, s \ {Chosen(s)} \in P
      PROVE  s \in P
  <2>1. Chosen(s) \in S /\ IsFiniteSet(s)
    BY <1>2, ChosenIsElement, FS_Subset
  <2> QED
    BY <1>2, <2>1, SumChosen
<1>3. \A s \in SUBSET S : s \in P
  <2> HIDE DEF P
  <2> QED
    BY <1>1, <1>2, ChosenInduction
<1> QED
  BY <1>3

LEMMA SumNat ==
  ASSUME NEW S, IsFiniteSet(S), NEW f, \A x \in S : f[x] \in Nat
  PROVE  SumFunctionOnSet(f, S) \in Nat
<1> DEFINE P == {s \in SUBSET S : SumFunctionOnSet(f, s) \in Nat}
<1>1. {} \in P
  BY SumEmpty
<1>2. ASSUME NEW s \in SUBSET S, s # {}, s \ {Chosen(s)} \in P
      PROVE  s \in P
  <2>1. Chosen(s) \in S /\ IsFiniteSet(s)
    BY <1>2, ChosenIsElement, FS_Subset
  <2>2. SumFunctionOnSet(f, s) = f[Chosen(s)] + SumFunctionOnSet(f, s \ {Chosen(s)})
    BY <1>2, <2>1, SumChosen
  <2> QED
    BY <1>2, <2>1, <2>2
<1>3. \A s \in SUBSET S : s \in P
  <2> HIDE DEF P
  <2> QED
    BY <1>1, <1>2, ChosenInduction
<1> QED
  BY <1>3

(* A term of a sum of natural numbers is no larger than the sum.           *)
LEMMA SumBoundsTerms ==
  ASSUME NEW S, IsFiniteSet(S), NEW f, \A x \in S : f[x] \in Nat
  PROVE  \A x \in S : f[x] <= SumFunctionOnSet(f, S)
<1> SUFFICES ASSUME NEW x \in S PROVE f[x] <= SumFunctionOnSet(f, S)
  OBVIOUS
<1>1. SumFunctionOnSet(f, S) = f[x] + SumFunctionOnSet(f, S \ {x})
  BY SumTakeOut
<1>2. SumFunctionOnSet(f, S \ {x}) \in Nat
  BY FS_RemoveElement, SumNat
<1> QED
  BY <1>1, <1>2

(* A sum over one more place of a sequence.                                *)
LEMMA SumOneMore ==
  ASSUME NEW n \in Nat, NEW f, NEW h, \A i \in 1 .. n : f[i] \in Int /\ h[i] = f[i],
         h[n + 1] \in Int
  PROVE  SumFunctionOnSet(h, 1 .. n + 1) = SumFunctionOnSet(f, 1 .. n) + h[n + 1]
<1> DEFINE A == 1 .. n
           x == n + 1
<1>1. 1 .. n + 1 = A \cup {x} /\ x \notin A
  OBVIOUS
<1>2. IsFiniteSet(A)
  BY FS_Interval
<1>3. (\A y \in A : h[y] \in Int /\ h[y] = f[y]) /\ h[x] \in Int
  OBVIOUS
<1> HIDE DEF A, x
<1>4. SumFunctionOnSet(h, A \cup {x}) = SumFunctionOnSet(h, A) + h[x]
  BY <1>1, <1>3, <1>2, SumAddElement
<1>5. SumFunctionOnSet(h, A) = SumFunctionOnSet(f, A)
  BY <1>3, <1>2, SumSame
<1>6. SumFunctionOnSet(h, 1 .. n + 1) = SumFunctionOnSet(h, A \cup {x})
  BY <1>1
<1> QED
  BY <1>4, <1>5, <1>6 DEF A, x

(* A sum over the places of a sequence without its first.                  *)
LEMMA SumShift ==
  ASSUME NEW n \in Nat, NEW f, NEW h, \A i \in 1 .. n + 1 : f[i] \in Int,
         \A i \in 1 .. n : h[i] = f[i + 1]
  PROVE  SumFunctionOnSet(f, 1 .. n + 1) = f[1] + SumFunctionOnSet(h, 1 .. n)
<1> DEFINE Ns == {m \in Nat : m <= n =>
                    SumFunctionOnSet(f, 1 .. m + 1) = f[1] + SumFunctionOnSet(h, 1 .. m)}
<1>0. \A m \in Nat : IsFiniteSet(1 .. m)
  BY FS_Interval
<1>1. 0 \in Ns
  <2>1. 1 .. 0 + 1 = {} \cup {1} /\ 1 .. 0 = {}
    OBVIOUS
  <2>2. SumFunctionOnSet(f, {} \cup {1}) = SumFunctionOnSet(f, {}) + f[1]
    BY FS_EmptySet, SumAddElement
  <2>3. SumFunctionOnSet(f, 1 .. 0 + 1) = SumFunctionOnSet(f, {}) + f[1]
    BY <2>1, <2>2
  <2>4. SumFunctionOnSet(h, 1 .. 0) = 0 /\ SumFunctionOnSet(f, {}) = 0 /\ f[1] \in Int
    BY <2>1, SumEmpty
  <2> QED
    BY <2>3, <2>4
<1>2. ASSUME NEW m \in Nat, m \in Ns
      PROVE  m + 1 \in Ns
  <2> SUFFICES ASSUME m + 1 <= n
               PROVE  SumFunctionOnSet(f, 1 .. (m + 1) + 1)
                        = f[1] + SumFunctionOnSet(h, 1 .. m + 1)
    OBVIOUS
  <2>1. 1 .. (m + 1) + 1 = (1 .. m + 1) \cup {m + 2} /\ 1 .. m + 1 = (1 .. m) \cup {m + 1}
    OBVIOUS
  <2>2. SumFunctionOnSet(f, (1 .. m + 1) \cup {m + 2})
          = SumFunctionOnSet(f, 1 .. m + 1) + f[m + 2]
    <3> DEFINE A == 1 .. m + 1
               x == m + 2
    <3>1. IsFiniteSet(A) /\ x \notin A /\ (\A y \in A : f[y] \in Int) /\ f[x] \in Int
      BY <1>0
    <3>2. SumFunctionOnSet(f, A \cup {x}) = SumFunctionOnSet(f, A) + f[x]
      <4> HIDE DEF A, x
      <4> QED
        BY <3>1, SumAddElement
    <3> QED
      BY <3>2
  <2>3. SumFunctionOnSet(h, (1 .. m) \cup {m + 1}) = SumFunctionOnSet(h, 1 .. m) + h[m + 1]
    <3> DEFINE A == 1 .. m
               x == m + 1
    <3>1. IsFiniteSet(A) /\ x \notin A /\ (\A y \in A : h[y] \in Int) /\ h[x] \in Int
      BY <1>0
    <3>2. SumFunctionOnSet(h, A \cup {x}) = SumFunctionOnSet(h, A) + h[x]
      <4> HIDE DEF A, x
      <4> QED
        BY <3>1, SumAddElement
    <3> QED
      BY <3>2
  <2>4. h[m + 1] = f[m + 2] /\ f[m + 2] \in Int /\ f[1] \in Int
    OBVIOUS
  <2>5. SumFunctionOnSet(h, 1 .. m) \in Int
    <3>1. IsFiniteSet(1 .. m) /\ \A y \in 1 .. m : h[y] \in Int
      BY <1>0
    <3> QED
      BY <3>1, SumInt
  <2>6. SumFunctionOnSet(f, 1 .. m + 1) = f[1] + SumFunctionOnSet(h, 1 .. m)
    BY <1>2
  <2>7. /\ SumFunctionOnSet(f, 1 .. (m + 1) + 1) = SumFunctionOnSet(f, 1 .. m + 1) + f[m + 2]
        /\ SumFunctionOnSet(h, 1 .. m + 1) = SumFunctionOnSet(h, 1 .. m) + f[m + 2]
    BY <2>1, <2>2, <2>3, <2>4
  <2> QED
    BY <2>4, <2>5, <2>6, <2>7
<1>3. \A m \in Nat : m \in Ns
  <2> HIDE DEF Ns
  <2> QED
    BY <1>1, <1>2, NatSetInduction
<1> QED
  BY <1>3

----------------------------------------------------------------------------
(* A sum whose terms cancel in pairs.                                      *)

Weighing(T, z, n) == {x \in T : z[x] = n}

(* As many elements weigh n as weigh -n, for every n.                      *)
Paired(T, z) == \A n \in Int : Cardinality(Weighing(T, z, n)) = Cardinality(Weighing(T, z, -n))

(* A paired set has, with an element, an opposite one, and stays paired    *)
(* without the two.                                                        *)
LEMMA PairOut ==
  ASSUME NEW T, IsFiniteSet(T), NEW z, \A x \in T : z[x] \in Int /\ z[x] # 0,
         Paired(T, z), NEW x \in T
  PROVE  \E y \in T \ {x} : z[y] = -z[x] /\ Paired((T \ {x}) \ {y}, z)
<1>1. ASSUME NEW n \in Int
      PROVE  IsFiniteSet(Weighing(T, z, n)) /\ Cardinality(Weighing(T, z, n)) \in Nat
  <2>1. Weighing(T, z, n) \subseteq T
    BY DEF Weighing
  <2> QED
    BY <2>1, FS_Subset, FS_CardinalityType
<1>2. z[x] \in Int /\ -z[x] \in Int /\ z[x] # -z[x] /\ z[x] # 0
  OBVIOUS
<1>3. Weighing(T, z, -z[x]) # {}
  <2>1. x \in Weighing(T, z, z[x])
    BY DEF Weighing
  <2>2. Cardinality(Weighing(T, z, z[x])) # 0
    BY <1>1, <1>2, <2>1, FS_EmptySet
  <2>3. Cardinality(Weighing(T, z, -z[x])) # 0
    BY <1>2, <2>2 DEF Paired
  <2> QED
    BY <2>3, FS_EmptySet
<1>4. PICK y \in T : z[y] = -z[x]
  BY <1>3 DEF Weighing
<1>5. y \in T \ {x}
  BY <1>2, <1>4
<1> DEFINE U == (T \ {x}) \ {y}
<1>6. ASSUME NEW n \in Int
      PROVE  Cardinality(Weighing(U, z, n)) = Cardinality(Weighing(U, z, -n))
  <2>1. -n \in Int /\ Cardinality(Weighing(T, z, n)) = Cardinality(Weighing(T, z, -n))
    BY DEF Paired
  <2>2. ASSUME NEW m \in Int
        PROVE  /\ m = z[x] => Weighing(U, z, m) = Weighing(T, z, m) \ {x} /\ x \in Weighing(T, z, m)
               /\ m = z[y] => Weighing(U, z, m) = Weighing(T, z, m) \ {y} /\ y \in Weighing(T, z, m)
               /\ m # z[x] /\ m # z[y] => Weighing(U, z, m) = Weighing(T, z, m)
    BY <1>2, <1>4, <1>5 DEF Weighing
  <2>3. ASSUME NEW m \in Int
        PROVE  Cardinality(Weighing(U, z, m)) =
                 IF m = z[x] \/ m = z[y] THEN Cardinality(Weighing(T, z, m)) - 1
                 ELSE Cardinality(Weighing(T, z, m))
    BY <1>1, <2>2, FS_RemoveElement
  <2>4. (n = z[x] \/ n = z[y]) <=> (-n = z[x] \/ -n = z[y])
    BY <1>2, <1>4
  <2> HIDE DEF U
  <2> QED
    BY <2>1, <2>3, <2>4
<1>7. Paired(U, z)
  BY <1>6 DEF Paired
<1> QED
  BY <1>4, <1>5, <1>7

(* The terms of opposite elements cancel, so those of a paired set do.     *)
LEMMA PairsCancel ==
  ASSUME NEW S, IsFiniteSet(S), NEW z, \A x \in S : z[x] \in Int /\ z[x] # 0,
         Paired(S, z), NEW f, \A x \in S : f[x] \in Int,
         \A x, y \in S : z[y] = -z[x] => f[x] + f[y] = 0
  PROVE  SumFunctionOnSet(f, S) = 0
<1> DEFINE Ns == {n \in Nat : \A T \in SUBSET S :
                    Paired(T, z) /\ Cardinality(T) <= n => SumFunctionOnSet(f, T) = 0}
<1>1. \A T \in SUBSET S : IsFiniteSet(T) /\ Cardinality(T) \in Nat
                          /\ (Cardinality(T) = 0 <=> T = {})
  BY FS_Subset, FS_CardinalityType, FS_EmptySet
<1>2. 0 \in Ns
  BY <1>1, SumEmpty
<1>3. ASSUME NEW n \in Nat, n \in Ns
      PROVE  n + 1 \in Ns
  <2> SUFFICES ASSUME NEW T \in SUBSET S, Paired(T, z), Cardinality(T) <= n + 1, T # {}
               PROVE  SumFunctionOnSet(f, T) = 0
    BY SumEmpty
  <2>1. PICK x \in T : TRUE
    OBVIOUS
  <2>2. PICK y \in T \ {x} : z[y] = -z[x] /\ Paired((T \ {x}) \ {y}, z)
    BY <1>1, <2>1, PairOut
  <2> DEFINE R == T \ {x}
             U == R \ {y}
  <2>3. /\ IsFiniteSet(R) /\ R \in SUBSET S /\ U \in SUBSET S /\ y \in R
        /\ Cardinality(R) = Cardinality(T) - 1 /\ Cardinality(U) = Cardinality(R) - 1
    BY <1>1, <2>1, <2>2, FS_RemoveElement
  <2> HIDE DEF R, U
  <2>4. SumFunctionOnSet(f, T) = f[x] + SumFunctionOnSet(f, R)
    BY <1>1, <2>1, SumTakeOut DEF R
  <2>5. SumFunctionOnSet(f, R) = f[y] + SumFunctionOnSet(f, U)
    BY <2>3, SumTakeOut DEF U
  <2>6. SumFunctionOnSet(f, U) = 0
    <3>1. Paired(U, z) /\ Cardinality(U) <= n
      BY <1>1, <2>2, <2>3 DEF R, U
    <3> QED
      BY <1>3, <2>3, <3>1
  <2>7. f[x] + f[y] = 0 /\ f[x] \in Int /\ f[y] \in Int
    BY <2>1, <2>2
  <2> QED
    BY <2>4, <2>5, <2>6, <2>7
<1>4. Cardinality(S) \in Ns
  <2> HIDE DEF Ns
  <2> QED
    BY <1>1, <1>2, <1>3, NatSetInduction
<1> QED
  BY <1>1, <1>4
=============================================================================
