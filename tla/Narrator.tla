------------------------------ MODULE Narrator ------------------------------
(***************************************************************************)
(* The networked advisor of marginguard-ai/src/llm.rs: one assess() call,  *)
(* with the retry and the timeout of marginguard-resilience it is built    *)
(* on.  Requests share nothing (assess takes &self and the advisor has no  *)
(* mutable state), so one stands for all.                                  *)
(*                                                                         *)
(* Time is what the request spends waiting for the endpoint and sleeping   *)
(* between attempts, in microseconds; the runtime's own delays are left    *)
(* out.  The endpoint is external: it may answer after any of the times in *)
(* ResponseTimes, with anything, also after the deadline.                  *)
(***************************************************************************)
EXTENDS Advice, Sequences

CONSTANTS
  Configs,              \* the configurations the advisor may be built with
  Timeout,              \* LlmConfig.timeout, of every attempt
  BaseDelay, MaxDelay,  \* of the RetryPolicy
  ResponseTimes         \* how long the endpoint may take

LlmConfig == [enabled : BOOLEAN, max_retries : Nat]

ASSUME NarratorAssumption ==
  /\ Configs \subseteq LlmConfig
  /\ Timeout \in Nat /\ BaseDelay \in Nat /\ MaxDelay \in Nat
  /\ ResponseTimes \subseteq Nat

VARIABLES
  config,     \* LlmConfig
  pc,         \* where assess is
  advice,     \* the advice it will return: at first the heuristic's
  outcomes,   \* what each attempt so far has returned
  sleeps,     \* history: how often it has slept
  elapsed     \* time since assess began

narratorVars == <<config, pc, advice, outcomes, sleeps, elapsed>>

(* What an attempt returns: a text of the model, which may be blank, or    *)
(* one of the errors of AiError.                                           *)
Texts == {"narrative", "blank"}
Retryable == {"Transport", "Timeout"}
Outcome == Texts \cup Retryable \cup {"Malformed"}

Attempts == Len(outcomes)

(* max_retries is the number of attempts, at least one.                    *)
MaxAttempts == IF config.max_retries > 1 THEN config.max_retries ELSE 1

(* RetryPolicy::backoff.  The code multiplies the attempt by 2654435761,   *)
(* which is 761 modulo 1000.                                               *)
ShiftCap == 16
Shifted == <<1, 2, 4, 8, 16, 32, 64, 128, 256, 512, 1024, 2048, 4096, 8192,
             16384, 32768, 65536>>   \* 1u32 << n for n from 0 to ShiftCap
Backoff(attempt) ==
  LET exp == BaseDelay * Shifted[1 + (IF attempt < ShiftCap THEN attempt ELSE ShiftCap)]
      capped == IF exp < MaxDelay THEN exp ELSE MaxDelay
      half == capped \div 2
  IN  half + (half * ((attempt * 761) % 1000)) \div 1000

NarratorInit ==
  /\ config \in Configs
  /\ pc = "score"
  /\ advice \in {Verdict(level) : level \in RiskLevel}
  /\ outcomes = <<>>
  /\ sleeps = 0
  /\ elapsed = 0

(* The heuristic's verdict stands if the backend is disabled.              *)
Narrate ==
  /\ pc = "score"
  /\ pc' = IF config.enabled THEN "call" ELSE "done"
  /\ UNCHANGED <<config, advice, outcomes, sleeps, elapsed>>

(* The advice once the model has spoken.                                   *)
Narrated(base) ==
  [risk_level |-> base.risk_level, source |-> "Llm", summary |-> "Llm",
   confidence |-> IF base.confidence + 5 < 99 THEN base.confidence + 5 ELSE 99]

(* Mutants of Settle: one attempt too many; blanks pass for a narrative.   *)
SettleOneMore(outcome) ==
  IF outcome \in Retryable /\ Attempts < MaxAttempts
  THEN pc' = "backoff" /\ UNCHANGED advice
  ELSE /\ pc' = "done"
       /\ advice' = IF outcome = "narrative" THEN Narrated(advice) ELSE advice

SettleBlankIsLlm(outcome) ==
  IF outcome \in Retryable /\ Attempts + 1 < MaxAttempts
  THEN pc' = "backoff" /\ UNCHANGED advice
  ELSE /\ pc' = "done"
       /\ advice' = IF outcome \in Texts THEN Narrated(advice) ELSE advice

(* What follows an attempt: another one after a retryable error, as long   *)
(* as there are attempts left; otherwise assess returns.                   *)
Settle(outcome) ==
  IF outcome \in Retryable /\ Attempts + 1 < MaxAttempts
  THEN pc' = "backoff" /\ UNCHANGED advice
  ELSE /\ pc' = "done"
       /\ advice' = IF outcome = "narrative" THEN Narrated(advice) ELSE advice

Return(outcome, time) ==
  /\ outcomes' = Append(outcomes, outcome)
  /\ elapsed' = elapsed + time
  /\ Settle(outcome)
  /\ UNCHANGED <<config, sleeps>>

(* Mutant of Answered: no deadline on an attempt.                          *)
AnsweredWhenever ==
  /\ pc = "call"
  /\ \E time \in ResponseTimes, outcome \in Outcome \ {"Timeout"} : Return(outcome, time)

(* The endpoint's answer, or the connection's failure, comes in time: a    *)
(* text, a status or a connection error, or a body that is not an answer.  *)
Answered ==
  /\ pc = "call"
  /\ \E time \in ResponseTimes, outcome \in Outcome \ {"Timeout"} :
       time <= Timeout /\ Return(outcome, time)

(* The deadline passes.  The HTTP client has a timer of the same length:   *)
(* when its timer is seen first the error is the client's, Transport while *)
(* it waits for the response and Malformed while it reads the body.        *)
TimedOut ==
  /\ pc = "call"
  /\ \E time \in ResponseTimes : time >= Timeout
  /\ \E outcome \in {"Timeout", "Transport", "Malformed"} : Return(outcome, Timeout)

Sleep ==
  /\ pc = "backoff"
  /\ pc' = "call"
  /\ sleeps' = sleeps + 1
  /\ elapsed' = elapsed + Backoff(Attempts - 1)
  /\ UNCHANGED <<config, advice, outcomes>>

Finished == pc = "done" /\ UNCHANGED narratorVars

NarratorNext == Narrate \/ Answered \/ TimedOut \/ Sleep \/ Finished

NarratorSpec == NarratorInit /\ [][NarratorNext]_narratorVars

----------------------------------------------------------------------------

LastOutcome == IF outcomes = <<>> THEN "none" ELSE outcomes[Attempts]

(* The advice says it is the model's exactly when the last attempt brought *)
(* a text that is not blank; in every other case it is the heuristic's     *)
(* verdict, unaltered, and in no case does the model change the tier       *)
(* (README.md:62-65, "only narrates that verdict and falls back to the     *)
(* heuristic on any error, timeout, or missing key").                      *)
SourceTruthful ==
  LET base == Verdict(advice.risk_level)
  IN  IF pc = "done" /\ LastOutcome = "narrative"
      THEN advice.source = "Llm" /\ advice.summary = "Llm"
             /\ advice.confidence > base.confidence
      ELSE advice = base

(* An attempt is followed by another only if its error may pass and        *)
(* attempts are left, and assess gives up only when neither holds          *)
(* (retry.rs:49-50).  A disabled backend is never called.                  *)
AttemptsJustified ==
  /\ Attempts <= MaxAttempts
  /\ \A i \in 1 .. Attempts - 1 : outcomes[i] \in Retryable
  /\ ~config.enabled => outcomes = <<>>
  /\ pc = "done" /\ config.enabled =>
       outcomes # <<>> /\ (LastOutcome \in Retryable => Attempts = MaxAttempts)

(* Whatever the endpoint does, or fails to do, the time assess has spent   *)
(* is at most one timeout for each attempt and one maximal delay between   *)
(* two attempts.                                                           *)
AnswersInTime ==
  /\ sleeps <= Attempts /\ (pc = "done" => sleeps <= MaxAttempts - 1)
  /\ elapsed <= Attempts * Timeout + sleeps * MaxDelay
=============================================================================
