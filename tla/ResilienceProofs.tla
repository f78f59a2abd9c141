--------------------------- MODULE ResilienceProofs ---------------------------
(***************************************************************************)
(* Theorems about the circuit breaker, and about the retry and the timeout *)
(* of marginguard-resilience as the networked advisor uses them.           *)
(***************************************************************************)
EXTENDS CircuitBreaker, Narrator, FiniteSetTheorems, TLAPS

(* The circuit breaker.  RejectsWhileCooling speaks of the reports so far; *)
(* the inductive invariant ties each field of Inner, the breaker's locked  *)
(* state, to them.                                                         *)

Reports == [ok : BOOLEAN, time : Nat]

InnerOK ==
  /\ now \in Nat
  /\ consecutive_failures \in Nat
  /\ opened_at \in Nat \cup {None}
  /\ half_open \in BOOLEAN
  /\ call \in [Callers -> BOOLEAN]
  /\ log \in Seq(Reports)

(* The failures counted are the reports' last streak; the breaker is open  *)
(* since the latest of them once there are enough; and it is half open     *)
(* only after its cooldown.                                                *)
InnerTracksLog ==
  /\ consecutive_failures = Streak
  /\ opened_at # None <=> Streak > 0 /\ Streak >= failure_threshold
  /\ opened_at # None => log # <<>> /\ opened_at = log[Len(log)].time
  /\ half_open => opened_at # None /\ now - opened_at >= cooldown

BreakerInv == InnerOK /\ InnerTracksLog

(* The indices that Streak counts.                                         *)
StreakOf(l) == {i \in 1 .. Len(l) : \A j \in i .. Len(l) : ~l[j].ok}

(* A streak is a finite number of reports.                                 *)
LEMMA TailFinite ==
  ASSUME NEW l \in Seq(Reports)
  PROVE  IsFiniteSet(StreakOf(l)) /\ Cardinality(StreakOf(l)) \in Nat
<1>1. IsFiniteSet(1 .. Len(l)) BY FS_Interval
<1>2. StreakOf(l) \subseteq 1 .. Len(l) BY DEF StreakOf
<1>3. IsFiniteSet(StreakOf(l)) BY <1>1, <1>2, FS_Subset
<1> QED BY <1>3, FS_CardinalityType

(* A reported failure makes the streak one longer.                         *)
LEMMA FailureExtendsStreak ==
  ASSUME NEW l \in Seq(Reports), NEW r \in Reports, ~r.ok
  PROVE  Cardinality(StreakOf(Append(l, r))) = Cardinality(StreakOf(l)) + 1
<1> DEFINE m == Append(l, r)
<1>1. /\ m \in Seq(Reports) /\ Len(m) = Len(l) + 1 /\ Len(l) \in Nat
      /\ \A i \in 1 .. Len(l) : m[i] = l[i]
      /\ m[Len(l) + 1] = r
  OBVIOUS
<1> HIDE DEF m
<1>2. ASSUME NEW i \in 1 .. Len(l)
      PROVE  i \in StreakOf(m) <=> i \in StreakOf(l)
  <2>1. ASSUME i \in StreakOf(m) PROVE i \in StreakOf(l)
    BY <1>1, <2>1 DEF StreakOf
  <2>2. ASSUME i \in StreakOf(l), NEW j \in i .. Len(m) PROVE ~m[j].ok
    <3>1. CASE j = Len(l) + 1 BY <3>1, <1>1
    <3>2. CASE j # Len(l) + 1 BY <3>2, <2>2, <1>1 DEF StreakOf
    <3> QED BY <3>1, <3>2
  <2>3. i \in 1 .. Len(m) BY <1>1
  <2> QED BY <2>1, <2>2, <2>3 DEF StreakOf
<1>3. Len(l) + 1 \in StreakOf(m)
  BY <1>1 DEF StreakOf
<1>4. StreakOf(m) = StreakOf(l) \cup {Len(l) + 1}
  <2>1. ASSUME NEW i \in StreakOf(m) PROVE i \in StreakOf(l) \cup {Len(l) + 1}
    <3>1. i \in 1 .. Len(l) \/ i = Len(l) + 1 BY <2>1, <1>1 DEF StreakOf
    <3> QED BY <3>1, <2>1, <1>2
  <2>2. ASSUME NEW i \in StreakOf(l) PROVE i \in StreakOf(m)
    <3>1. i \in 1 .. Len(l) BY <2>2 DEF StreakOf
    <3> QED BY <3>1, <2>2, <1>2
  <2> QED BY <2>1, <2>2, <1>3
<1>5. Len(l) + 1 \notin StreakOf(l)
  BY <1>1 DEF StreakOf
<1>6. IsFiniteSet(StreakOf(l)) BY TailFinite
<1> QED BY <1>4, <1>5, <1>6, FS_AddElement DEF m

(* A reported success ends the streak.                                     *)
LEMMA SuccessEndsStreak ==
  ASSUME NEW l \in Seq(Reports), NEW r \in Reports, r.ok
  PROVE  Cardinality(StreakOf(Append(l, r))) = 0
<1> DEFINE m == Append(l, r)
<1>1. /\ m \in Seq(Reports) /\ Len(m) = Len(l) + 1 /\ Len(l) \in Nat
      /\ m[Len(l) + 1] = r
  OBVIOUS
<1> HIDE DEF m
<1>2. ASSUME NEW i \in StreakOf(m) PROVE FALSE
  <2>1. i \in 1 .. Len(m) /\ \A j \in i .. Len(m) : ~m[j].ok
    BY <1>2 DEF StreakOf
  <2>2. Len(m) \in i .. Len(m) BY <1>1, <2>1
  <2> QED BY <2>1, <2>2, <1>1
<1>3. StreakOf(m) = {} BY <1>2
<1> QED BY <1>3, FS_EmptySet DEF m

(* The breaker starts closed, with nothing reported.                       *)
LEMMA BreakerInit == Init => BreakerInv
<1> SUFFICES ASSUME Init PROVE BreakerInv OBVIOUS
<1>1. InnerOK
  <2>1. call \in [Callers -> BOOLEAN] BY DEF Init
  <2>2. half_open \in BOOLEAN BY DEF Init
  <2>3. log \in Seq(Reports) BY DEF Init
  <2>4. now \in Nat /\ consecutive_failures \in Nat /\ opened_at \in Nat \cup {None}
    BY DEF Init
  <2> QED BY <2>1, <2>2, <2>3, <2>4 DEF InnerOK
<1>2. log = <<>> /\ Len(log) = 0 BY DEF Init
<1>3. StreakOf(log) = {} BY <1>2 DEF StreakOf
<1>4. Streak = 0 BY <1>3, FS_EmptySet DEF Streak, StreakOf
<1>5. InnerTracksLog BY <1>4 DEF InnerTracksLog, Init
<1> QED BY <1>1, <1>5 DEF BreakerInv

(* Steps that report nothing leave the streak alone.                       *)
LEMMA Unreported ==
  ASSUME UNCHANGED log PROVE Streak' = Streak
BY DEF Streak

(* Each operation of the breaker, and the clock, keeps the invariant.      *)
LEMMA BreakerNext ==
  ASSUME BreakerInv, [Next]_vars
  PROVE  BreakerInv'
<1> USE BreakerAssumption
<1>1. /\ InnerOK /\ InnerTracksLog BY DEF BreakerInv
<1>2. Streak \in Nat BY <1>1, TailFinite DEF InnerOK, Streak, StreakOf
<1>3. CASE Tick
  <2>1. InnerOK' BY <1>1, <1>3 DEF Tick, InnerOK, inner
  <2>2. Streak' = Streak BY <1>3, Unreported DEF Tick
  <2>3. InnerTracksLog'
    BY <1>1, <1>3, <2>2 DEF Tick, InnerTracksLog, InnerOK, inner
  <2> QED BY <2>1, <2>3 DEF BreakerInv
<1>4. ASSUME UNCHANGED <<now, consecutive_failures, opened_at, log>>,
             half_open' = Refreshed, call' \in [Callers -> BOOLEAN]
      PROVE  BreakerInv'
  <2>1. Refreshed \in BOOLEAN BY <1>1 DEF Refreshed, InnerOK
  <2>2. InnerOK' BY <1>1, <1>4, <2>1 DEF InnerOK
  <2>3. Streak' = Streak BY <1>4, Unreported
  <2>4. Refreshed => opened_at # None /\ now - opened_at >= cooldown
    BY <1>1 DEF Refreshed, InnerTracksLog, InnerOK
  <2>5. InnerTracksLog' BY <1>1, <1>4, <2>3, <2>4 DEF InnerTracksLog
  <2> QED BY <2>2, <2>5 DEF BreakerInv
<1>5. CASE ReadState
  BY <1>1, <1>4, <1>5 DEF ReadState, InnerOK
<1>6. ASSUME NEW c \in Callers, Enter(c) PROVE BreakerInv'
  BY <1>1, <1>4, <1>6 DEF Enter, InnerOK
<1>7. ASSUME NEW c \in Callers, NEW ok \in BOOLEAN, Report(c, ok)
      PROVE  /\ call' \in [Callers -> BOOLEAN]
             /\ log' \in Seq(Reports) /\ log' # <<>>
             /\ log' = Append(log, [ok |-> ok, time |-> now])
             /\ log'[Len(log')].time = now
             /\ [ok |-> ok, time |-> now] \in Reports
  <2>1. [ok |-> ok, time |-> now] \in Reports BY <1>1 DEF InnerOK, Reports
  <2> DEFINE r == [ok |-> ok, time |-> now]
  <2>2. r.time = now OBVIOUS
  <2>3. r \in Reports BY <2>1
  <2>4. log' = Append(log, r) BY <1>7 DEF Report
  <2>5. log \in Seq(Reports) BY <1>1 DEF InnerOK
  <2>6. call' \in [Callers -> BOOLEAN] BY <1>1, <1>7 DEF Report, InnerOK
  <2> HIDE DEF r
  <2>7. /\ log' \in Seq(Reports) /\ log' # <<>> /\ log'[Len(log')] = r
    BY <2>3, <2>4, <2>5
  <2> QED BY <2>2, <2>3, <2>4, <2>6, <2>7 DEF r
<1>8. ASSUME NEW c \in Callers, OnSuccess(c) PROVE BreakerInv'
  <2>1. Report(c, TRUE) BY <1>8 DEF OnSuccess
  <2> DEFINE r == [ok |-> TRUE, time |-> now]
  <2>2. /\ log' = Append(log, r) /\ r \in Reports /\ log \in Seq(Reports)
    BY <2>1, <1>1, <1>7 DEF InnerOK
  <2>3. r.ok OBVIOUS
  <2> HIDE DEF r
  <2>4. Streak' = 0
    BY <2>2, <2>3, SuccessEndsStreak DEF Streak, StreakOf
  <2>5. InnerOK'
    <3>1. /\ consecutive_failures' = 0 /\ opened_at' = None
          /\ half_open' = FALSE /\ now' = now
      BY <1>8 DEF OnSuccess
    <3>2. call' \in [Callers -> BOOLEAN] /\ log' \in Seq(Reports) BY <1>7, <2>1
    <3> QED BY <1>1, <3>1, <3>2 DEF InnerOK
  <2>6. InnerTracksLog' BY <1>8, <2>4 DEF OnSuccess, InnerTracksLog
  <2> QED BY <2>5, <2>6 DEF BreakerInv
<1>9. ASSUME NEW c \in Callers, OnFailure(c) PROVE BreakerInv'
  <2>1. Report(c, FALSE) BY <1>9 DEF OnFailure
  <2> DEFINE r == [ok |-> FALSE, time |-> now]
  <2>2. /\ log' = Append(log, r) /\ r \in Reports /\ log \in Seq(Reports)
    BY <2>1, <1>1, <1>7 DEF InnerOK
  <2>3. ~r.ok OBVIOUS
  <2> HIDE DEF r
  <2>4. Streak' = Streak + 1
    BY <2>2, <2>3, FailureExtendsStreak DEF Streak, StreakOf
  <2>5. /\ consecutive_failures' = consecutive_failures + 1
        /\ half_open' = FALSE /\ now' = now
        /\ opened_at' = IF consecutive_failures' >= failure_threshold
                        THEN now ELSE opened_at
    BY <1>9 DEF OnFailure
  <2>6. InnerOK'
    <3>1. call' \in [Callers -> BOOLEAN] /\ log' \in Seq(Reports) BY <1>7, <2>1
    <3>2. now' \in Nat /\ consecutive_failures' \in Nat BY <1>1, <2>5 DEF InnerOK
    <3>3. opened_at' \in Nat \cup {None}
      <4>1. opened_at' \in {now, opened_at} BY <2>5
      <4> QED BY <4>1, <1>1 DEF InnerOK
    <3>4. half_open' \in BOOLEAN BY <2>5
    <3> QED BY <3>1, <3>2, <3>3, <3>4 DEF InnerOK
  <2>7. consecutive_failures' = Streak' BY <1>1, <2>4, <2>5 DEF InnerTracksLog
  <2>8. CASE Streak' >= failure_threshold
    <3>1. opened_at' = now /\ now # None BY <2>5, <2>7, <2>8, <1>1 DEF InnerOK
    <3>2. log' # <<>> /\ opened_at' = log'[Len(log')].time BY <3>1, <2>1, <1>7
    <3>3. InnerTracksLog'
      BY <2>4, <2>5, <2>7, <2>8, <3>1, <3>2, <1>2 DEF InnerTracksLog
    <3> QED BY <2>6, <3>3 DEF BreakerInv
  <2>9. CASE ~(Streak' >= failure_threshold)
    <3>1. opened_at' = opened_at BY <2>5, <2>7, <2>9
    <3>2. opened_at = None BY <1>1, <1>2, <2>4, <2>9 DEF InnerTracksLog
    <3>3. InnerTracksLog' BY <2>5, <2>7, <2>9, <3>1, <3>2 DEF InnerTracksLog
    <3> QED BY <2>6, <3>3 DEF BreakerInv
  <2> QED BY <2>8, <2>9
<1>10. CASE UNCHANGED vars
  <2>1. InnerOK' BY <1>1, <1>10 DEF vars, inner, InnerOK
  <2>2. Streak' = Streak BY <1>10, Unreported DEF vars
  <2>3. InnerTracksLog' BY <1>1, <1>10, <2>2 DEF vars, inner, InnerTracksLog
  <2> QED BY <2>1, <2>3 DEF BreakerInv
<1>11. CASE Done BY <1>10, <1>11 DEF Done
<1> QED BY <1>3, <1>5, <1>6, <1>8, <1>9, <1>10, <1>11 DEF Next

(* What the breaker shows follows from the fields' meaning.                *)
LEMMA BreakerImplied == BreakerInv => RejectsWhileCooling
<1> SUFFICES ASSUME BreakerInv PROVE RejectsWhileCooling OBVIOUS
<1> USE BreakerAssumption
<1>1. InnerOK /\ InnerTracksLog BY DEF BreakerInv
<1>2. State = "open" <=> opened_at # None /\ ~Refreshed
  BY DEF State
<1>3. CASE opened_at = None
  BY <1>1, <1>2, <1>3 DEF RejectsWhileCooling, InnerTracksLog
<1>4. CASE opened_at # None
  <2>1. opened_at \in Nat /\ opened_at = log[Len(log)].time /\ now \in Nat
    BY <1>1, <1>4 DEF InnerOK, InnerTracksLog
  <2>2. Refreshed <=> now - opened_at >= cooldown
    BY <1>1, <1>4 DEF Refreshed, InnerTracksLog, InnerOK
  <2>3. ~Refreshed <=> now - log[Len(log)].time < cooldown
    BY <2>1, <2>2
  <2> QED BY <1>1, <1>2, <1>4, <2>3 DEF RejectsWhileCooling, InnerTracksLog
<1> QED BY <1>3, <1>4

(* For any number of callers, any threshold and any cooldown, a caller is  *)
(* turned away by the breaker exactly while a cooldown since the latest of *)
(* enough failures in a row has not elapsed, however the calls overlap.    *)
THEOREM BreakerRejects == Spec => []RejectsWhileCooling
<1>1. BreakerInv /\ [Next]_vars => BreakerInv' BY BreakerNext
<1> QED BY <1>1, BreakerInit, BreakerImplied, PTL DEF Spec

----------------------------------------------------------------------------
(* What the networked advisor guarantees, for every configuration,         *)
(* deadline, delay and endpoint that NarratorAssumption allows.            *)

(* The shifts of the first seventeen backoffs.                             *)
LEMMA ShiftedType == \A n \in 0 .. ShiftCap : Shifted[1 + n] \in Nat
BY DEF ShiftCap, Shifted

(* A delay is never negative and never above the maximal one.              *)
LEMMA BackoffBounded ==
  ASSUME NEW attempt \in Nat
  PROVE  Backoff(attempt) \in Nat /\ Backoff(attempt) <= MaxDelay
<1> DEFINE n == IF attempt < ShiftCap THEN attempt ELSE ShiftCap
           exp == BaseDelay * Shifted[1 + n]
           capped == IF exp < MaxDelay THEN exp ELSE MaxDelay
           half == capped \div 2
           steps == (attempt * 761) % 1000
<1>1. n \in 0 .. ShiftCap
  BY DEF ShiftCap
<1>2. Shifted[1 + n] \in Nat
  BY <1>1, ShiftedType
<1>3. exp \in Nat
  <2> DEFINE power == Shifted[1 + n]
  <2>1. power \in Nat BY <1>2
  <2> HIDE DEF power
  <2>2. BaseDelay * power \in Nat BY <2>1, NarratorAssumption
  <2> QED BY <2>2 DEF power
<1> HIDE DEF exp
<1>4. capped \in Nat /\ capped <= MaxDelay
  BY <1>3, NarratorAssumption
<1> HIDE DEF capped
<1>5. half \in Nat /\ half + half <= MaxDelay
  BY <1>4, NarratorAssumption
<1>6. steps \in 0 .. 999
  OBVIOUS
<1> HIDE DEF half, steps
<1>7. (half * steps) \div 1000 \in Nat /\ (half * steps) \div 1000 <= half
  <2> DEFINE product == half * steps
  <2>1. product \in Nat BY <1>5, <1>6
  <2>2. product <= half * 1000 BY <1>5, <1>6
  <2> HIDE DEF product
  <2>3. product \div 1000 \in Nat /\ product \div 1000 <= half
    BY <1>5, <2>1, <2>2
  <2> QED BY <2>3 DEF product
<1>8. Backoff(attempt) = half + (half * steps) \div 1000
  BY DEF Backoff, half, steps, capped, exp
<1> QED
  <2> DEFINE jitter == (half * steps) \div 1000
  <2>1. jitter \in Nat /\ jitter <= half BY <1>7
  <2> HIDE DEF jitter
  <2>2. half + jitter \in Nat /\ half + jitter <= MaxDelay
    BY <1>5, <2>1, NarratorAssumption
  <2> QED BY <1>8, <2>2 DEF jitter

----------------------------------------------------------------------------
(* The inductive invariant.                                                *)

NarratorType ==
  /\ config \in LlmConfig
  /\ pc \in {"score", "call", "backoff", "done"}
  /\ advice \in [risk_level : RiskLevel, source : AdviceSource,
                 summary : AdviceSource, confidence : Nat]
  /\ outcomes \in Seq(Outcome)
  /\ sleeps \in Nat /\ elapsed \in Nat

AllRetryable(n) == \A i \in 1 .. n : outcomes[i] \in Retryable

(* As long as assess has not returned, every attempt has ended in an error *)
(* that may pass, the advice is the heuristic's, and it has slept once     *)
(* between any two attempts.                                               *)
Trying ==
  /\ advice = Verdict(advice.risk_level)
  /\ AllRetryable(Attempts)
  /\ pc = "score" => outcomes = <<>> /\ sleeps = 0
  /\ pc \in {"call", "backoff"} => config.enabled /\ Attempts < MaxAttempts
  /\ pc = "call" => sleeps = Attempts
  /\ pc = "backoff" => Attempts > 0 /\ sleeps = Attempts - 1

Returned ==
  /\ SourceTruthful /\ AttemptsJustified
  /\ sleeps <= Attempts /\ sleeps <= MaxAttempts - 1

NarratorInv ==
  /\ NarratorType
  /\ IF pc = "done" THEN Returned ELSE Trying
  /\ elapsed <= Attempts * Timeout + sleeps * MaxDelay

(* The heuristic's advice has its type, names its tier and leaves room for *)
(* the confidence the model adds.                                          *)
LEMMA VerdictType ==
  ASSUME NEW level \in RiskLevel
  PROVE  /\ Verdict(level) \in [risk_level : RiskLevel, source : AdviceSource,
                                summary : AdviceSource, confidence : Nat]
         /\ Verdict(level).risk_level = level
         /\ Verdict(level).confidence \in 55 .. 90
<1>1. Confidence(level) \in 55 .. 90
  BY DEF RiskLevel, Confidence
<1> QED BY <1>1 DEF Verdict, AdviceSource

LEMMA NarratedType ==
  ASSUME NEW level \in RiskLevel
  PROVE  /\ Narrated(Verdict(level)) \in
              [risk_level : RiskLevel, source : AdviceSource,
               summary : AdviceSource, confidence : Nat]
         /\ Narrated(Verdict(level)).risk_level = level
         /\ Narrated(Verdict(level)).source = "Llm"
         /\ Narrated(Verdict(level)).summary = "Llm"
         /\ Narrated(Verdict(level)).confidence > Verdict(level).confidence
<1>1. Confidence(level) \in 55 .. 90
  BY DEF RiskLevel, Confidence
<1> DEFINE c == Confidence(level)
<1>2. c \in 55 .. 90 BY <1>1
<1> HIDE DEF c
<1>3. Verdict(level) = [risk_level |-> level, source |-> "Heuristic",
                        summary |-> "Heuristic", confidence |-> c]
  BY DEF Verdict, c
<1>4. Narrated(Verdict(level)) =
        [risk_level |-> level, source |-> "Llm", summary |-> "Llm",
         confidence |-> IF c + 5 < 99 THEN c + 5 ELSE 99]
  BY <1>3 DEF Narrated
<1> QED BY <1>2, <1>3, <1>4 DEF AdviceSource

LEMMA NarratorStarts == NarratorInit => NarratorInv
<1> SUFFICES ASSUME NarratorInit PROVE NarratorInv
  OBVIOUS
<1>1. config \in LlmConfig
  BY NarratorAssumption DEF NarratorInit
<1>2. PICK level \in RiskLevel : advice = Verdict(level)
  BY DEF NarratorInit
<1>3. NarratorType
  BY <1>1, <1>2, VerdictType DEF NarratorInit, NarratorType
<1>4. Trying
  BY <1>2, VerdictType DEF NarratorInit, Trying, AllRetryable, Attempts
<1>5. elapsed <= Attempts * Timeout + sleeps * MaxDelay
  BY NarratorAssumption DEF NarratorInit, Attempts
<1> QED BY <1>3, <1>4, <1>5 DEF NarratorInv, NarratorInit

(* One attempt that ends with an outcome after at most the deadline keeps  *)
(* the invariant.                                                          *)
LEMMA ReturnKeepsInv ==
  ASSUME NarratorInv, pc = "call", NEW outcome \in Outcome,
         NEW time \in Nat, time <= Timeout, Return(outcome, time)
  PROVE  NarratorInv'
<1>1. /\ NarratorType /\ Trying
      /\ elapsed <= Attempts * Timeout + sleeps * MaxDelay
  BY DEF NarratorInv
<1>2. /\ outcomes' = Append(outcomes, outcome)
      /\ elapsed' = elapsed + time
      /\ config' = config /\ sleeps' = sleeps
      /\ Settle(outcome)
  BY DEF Return
<1>3. /\ Attempts \in Nat /\ Attempts' = Attempts + 1
      /\ outcomes' \in Seq(Outcome)
      /\ outcomes'[Attempts + 1] = outcome
      /\ \A i \in 1 .. Attempts : outcomes'[i] = outcomes[i]
  BY <1>1, <1>2 DEF NarratorType, Attempts
<1>4. MaxAttempts \in Nat /\ MaxAttempts >= 1 /\ MaxAttempts' = MaxAttempts
  BY <1>1, <1>2 DEF NarratorType, LlmConfig, MaxAttempts
<1>5. /\ config.enabled /\ sleeps = Attempts /\ Attempts < MaxAttempts
      /\ AllRetryable(Attempts)
  BY <1>1 DEF Trying
<1>6. \A i \in 1 .. Attempts : outcomes'[i] \in Retryable
  BY <1>3, <1>5 DEF AllRetryable
<1>7. PICK level \in RiskLevel : advice = Verdict(level)
  BY <1>1 DEF Trying, NarratorType
<1>8. elapsed' <= Attempts' * Timeout + sleeps' * MaxDelay
  <2>1. (Attempts + 1) * Timeout = Attempts * Timeout + Timeout
    BY <1>3, NarratorAssumption
  <2>2. Attempts * Timeout \in Nat /\ sleeps * MaxDelay \in Nat
    BY <1>1, <1>3, NarratorAssumption DEF NarratorType
  <2> DEFINE a == Attempts * Timeout
             b == sleeps * MaxDelay
  <2>3. a \in Nat /\ b \in Nat /\ elapsed <= a + b
    BY <1>1, <2>2
  <2>4. elapsed \in Nat /\ Timeout \in Nat
    BY <1>1, NarratorAssumption DEF NarratorType
  <2> HIDE DEF a, b
  <2>5. elapsed + time <= a + Timeout + b
    BY <2>3, <2>4
  <2>6. Attempts' * Timeout = a + Timeout /\ sleeps' * MaxDelay = b
    BY <1>2, <1>3, <2>1 DEF a, b
  <2> QED BY <1>2, <2>5, <2>6
<1>9. elapsed' \in Nat
  BY <1>1, <1>2 DEF NarratorType
<1>10. CASE outcome \in Retryable /\ Attempts + 1 < MaxAttempts
  <2>1. pc' = "backoff" /\ advice' = advice
    BY <1>2, <1>10 DEF Settle
  <2>2. NarratorType'
    BY <1>1, <1>2, <1>3, <1>9, <2>1 DEF NarratorType
  <2>3. AllRetryable(Attempts)'
    BY <1>3, <1>6, <1>10 DEF AllRetryable
  <2>4. Trying'
    BY <1>1, <1>2, <1>3, <1>4, <1>5, <1>10, <2>1, <2>3 DEF Trying
  <2> QED BY <1>8, <2>1, <2>2, <2>4 DEF NarratorInv
<1>11. CASE ~(outcome \in Retryable /\ Attempts + 1 < MaxAttempts)
  <2>1. pc' = "done"
        /\ advice' = IF outcome = "narrative" THEN Narrated(advice) ELSE advice
    BY <1>2, <1>11 DEF Settle
  <2>2. advice'.risk_level = level
        /\ advice' \in [risk_level : RiskLevel, source : AdviceSource,
                        summary : AdviceSource, confidence : Nat]
    BY <1>7, <2>1, VerdictType, NarratedType
  <2>3. NarratorType'
    BY <1>1, <1>2, <1>3, <1>9, <2>1, <2>2 DEF NarratorType
  <2>4. LastOutcome' = outcome
    BY <1>3 DEF LastOutcome, Attempts
  <2>5. SourceTruthful'
    BY <1>7, <2>1, <2>2, <2>4, NarratedType DEF SourceTruthful
  <2>6. AttemptsJustified'
    <3>1. Attempts' <= MaxAttempts'
      BY <1>3, <1>4, <1>5
    <3>2. \A i \in 1 .. Attempts' - 1 : outcomes'[i] \in Retryable
      BY <1>3, <1>6
    <3>3. outcomes' # <<>> /\ (LastOutcome' \in Retryable => Attempts' = MaxAttempts')
      BY <1>3, <1>4, <1>5, <1>11, <2>4 DEF Attempts
    <3> QED BY <1>2, <1>5, <3>1, <3>2, <3>3 DEF AttemptsJustified
  <2>7. sleeps' <= Attempts' /\ sleeps' <= MaxAttempts' - 1
    BY <1>1, <1>2, <1>3, <1>4, <1>5 DEF NarratorType
  <2> QED BY <1>8, <2>1, <2>3, <2>5, <2>6, <2>7 DEF NarratorInv, Returned
<1> QED BY <1>10, <1>11

LEMMA NarratorStep == NarratorInv /\ [NarratorNext]_narratorVars => NarratorInv'
<1> SUFFICES ASSUME NarratorInv, [NarratorNext]_narratorVars PROVE NarratorInv'
  OBVIOUS
<1>1. CASE Narrate
  <2>1. NarratorType /\ Trying /\ outcomes = <<>> /\ sleeps = 0
    BY <1>1 DEF NarratorInv, Narrate, Trying
  <2>2. /\ Attempts = 0 /\ MaxAttempts \in Nat /\ MaxAttempts >= 1
        /\ Attempts' = Attempts /\ MaxAttempts' = MaxAttempts
    BY <1>1, <2>1 DEF Narrate, NarratorType, LlmConfig, MaxAttempts, Attempts
  <2>3. NarratorType'
    BY <1>1, <2>1 DEF Narrate, NarratorType
  <2>4. elapsed' <= Attempts' * Timeout + sleeps' * MaxDelay
    BY <1>1 DEF Narrate, NarratorInv, Attempts
  <2>5. CASE config.enabled
    <3>1. pc' = "call" BY <1>1, <2>5 DEF Narrate
    <3>2. Trying'
      BY <1>1, <2>1, <2>2, <2>5, <3>1 DEF Narrate, Trying, AllRetryable
    <3> QED BY <2>3, <2>4, <3>1, <3>2 DEF NarratorInv
  <2>6. CASE ~config.enabled
    <3>1. pc' = "done" BY <1>1, <2>6 DEF Narrate
    <3>2. SourceTruthful'
      BY <1>1, <2>1 DEF Narrate, Trying, SourceTruthful, LastOutcome
    <3>3. AttemptsJustified'
      BY <1>1, <2>1, <2>2, <2>6 DEF Narrate, AttemptsJustified
    <3> QED BY <1>1, <2>1, <2>2, <2>3, <2>4, <3>1, <3>2, <3>3
          DEF Narrate, NarratorInv, Returned
  <2> QED BY <2>5, <2>6
<1>2. CASE Answered
  <2>1. PICK time \in ResponseTimes, outcome \in Outcome \ {"Timeout"} :
          time <= Timeout /\ Return(outcome, time)
    BY <1>2 DEF Answered
  <2> QED BY <1>2, <2>1, NarratorAssumption, ReturnKeepsInv DEF Answered
<1>3. CASE TimedOut
  <2>1. PICK outcome \in {"Timeout", "Transport", "Malformed"} : Return(outcome, Timeout)
    BY <1>3 DEF TimedOut
  <2>2. outcome \in Outcome
    BY DEF Outcome, Retryable
  <2> QED BY <1>3, <2>1, <2>2, NarratorAssumption, ReturnKeepsInv DEF TimedOut
<1>4. CASE Sleep
  <2>1. /\ NarratorType /\ Trying /\ Attempts \in Nat /\ Attempts > 0
        /\ sleeps = Attempts - 1
        /\ elapsed <= Attempts * Timeout + sleeps * MaxDelay
    BY <1>4 DEF NarratorInv, Sleep, Trying, NarratorType, Attempts
  <2>2. Backoff(Attempts - 1) \in Nat /\ Backoff(Attempts - 1) <= MaxDelay
    BY <2>1, BackoffBounded
  <2>3. Attempts' = Attempts /\ MaxAttempts' = MaxAttempts
    BY <1>4 DEF Sleep, Attempts, MaxAttempts
  <2>4. NarratorType'
    BY <1>4, <2>1, <2>2 DEF Sleep, NarratorType
  <2>5. Trying'
    BY <1>4, <2>1, <2>3 DEF Sleep, Trying, AllRetryable
  <2>6. elapsed' <= Attempts' * Timeout + sleeps' * MaxDelay
    <3> DEFINE a == Attempts * Timeout
               b == sleeps * MaxDelay
               d == Backoff(Attempts - 1)
    <3>1. a \in Nat /\ b \in Nat /\ d \in Nat /\ d <= MaxDelay
      BY <2>1, <2>2, NarratorAssumption DEF NarratorType
    <3>2. (sleeps + 1) * MaxDelay = b + MaxDelay
      BY <2>1, NarratorAssumption DEF NarratorType
    <3>3. elapsed' = elapsed + d /\ sleeps' = sleeps + 1
      BY <1>4 DEF Sleep
    <3>4. elapsed \in Nat /\ MaxDelay \in Nat /\ elapsed <= a + b
      BY <2>1, NarratorAssumption DEF NarratorType
    <3>5. Attempts' * Timeout = a /\ sleeps' * MaxDelay = b + MaxDelay
      BY <2>3, <3>2, <3>3
    <3> HIDE DEF a, b, d
    <3>6. elapsed + d <= a + (b + MaxDelay)
      BY <3>1, <3>4
    <3> QED BY <3>3, <3>5, <3>6
  <2> QED BY <1>4, <2>4, <2>5, <2>6 DEF Sleep, NarratorInv
<1>5. CASE Finished \/ UNCHANGED narratorVars
  BY <1>5 DEF Finished, narratorVars, NarratorInv, NarratorType, Trying, Returned,
     AllRetryable, SourceTruthful, AttemptsJustified, LastOutcome, Attempts, MaxAttempts
<1> QED BY <1>1, <1>2, <1>3, <1>4, <1>5 DEF NarratorNext

LEMMA NarratorInvariant == NarratorSpec => []NarratorInv
BY NarratorStarts, NarratorStep, PTL DEF NarratorSpec

(* For any endpoint and any configuration the advice says it is the        *)
(* model's exactly when the model has written it.                          *)
THEOREM NarrationHonest == NarratorSpec => []SourceTruthful
<1>1. NarratorInv => SourceTruthful
  <2>1. ASSUME NarratorInv, pc # "done" PROVE SourceTruthful
    BY <2>1 DEF NarratorInv, Trying, SourceTruthful
  <2> QED BY <2>1 DEF NarratorInv, Returned
<1> QED BY <1>1, NarratorInvariant, PTL

(* For any configuration assess makes no attempt it should not make, and   *)
(* gives up on none it should make.                                        *)
THEOREM AttemptsBounded == NarratorSpec => []AttemptsJustified
<1>1. NarratorInv => AttemptsJustified
  <2>1. ASSUME NarratorInv, pc # "done" PROVE AttemptsJustified
    <3>1. NarratorType /\ Trying /\ MaxAttempts \in Nat /\ MaxAttempts >= 1
          /\ Attempts \in Nat
      BY <2>1 DEF NarratorInv, NarratorType, LlmConfig, MaxAttempts, Attempts
    <3>2. outcomes = <<>> \/ (config.enabled /\ Attempts < MaxAttempts)
      BY <2>1, <3>1 DEF NarratorType, Trying
    <3>3. outcomes = <<>> => Attempts = 0
      BY DEF Attempts
    <3> QED BY <2>1, <3>1, <3>2, <3>3 DEF AttemptsJustified, Trying, AllRetryable
  <2> QED BY <2>1 DEF NarratorInv, Returned
<1> QED BY <1>1, NarratorInvariant, PTL

(* For any endpoint, deadline and delays assess has spent at most a        *)
(* deadline for each attempt and a maximal delay between two.              *)
THEOREM AdviceInTime == NarratorSpec => []AnswersInTime
<1>1. NarratorInv => AnswersInTime
  <2>1. ASSUME NarratorInv PROVE sleeps <= Attempts
    <3>1. NarratorType /\ Attempts \in Nat
      BY <2>1 DEF NarratorInv, NarratorType, Attempts
    <3>2. CASE pc = "done" BY <2>1, <3>2 DEF NarratorInv, Returned
    <3>3. CASE pc # "done"
      BY <2>1, <3>1, <3>3 DEF NarratorInv, Trying, NarratorType
    <3> QED BY <3>2, <3>3
  <2> QED BY <2>1 DEF NarratorInv, Returned, AnswersInTime
<1> QED BY <1>1, NarratorInvariant, PTL
=============================================================================
