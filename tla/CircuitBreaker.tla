--------------------------- MODULE CircuitBreaker ---------------------------
(***************************************************************************)
(* The breaker of marginguard-resilience/src/breaker.rs around a call that *)
(* several callers make.  A caller asks allow(), makes its call, and later *)
(* reports what became of it; other callers, and the clock, move between.  *)
(* allow(), on_success() and on_failure() each hold the lock throughout.   *)
(***************************************************************************)
EXTENDS Integers, Sequences, FiniteSets

CONSTANTS
  Callers,
  failure_threshold,
  cooldown,            \* in ticks of the clock
  MaxTime,             \* bound: the last tick
  MaxCalls,            \* bound: calls reported in one behaviour
  None

ASSUME BreakerAssumption ==
  /\ failure_threshold \in Nat /\ cooldown \in Nat
  /\ MaxTime \in Nat /\ MaxCalls \in Nat
  /\ None \notin Int

VARIABLES
  now,                    \* the clock
  consecutive_failures,
  opened_at,              \* opened_at_nanos, or None
  half_open,
  call,                   \* whether each caller has a call in flight
  log                     \* history: the reported outcomes and their times

inner == <<consecutive_failures, opened_at, half_open>>
vars == <<now, consecutive_failures, opened_at, half_open, call, log>>

Init ==
  /\ now = 0
  /\ consecutive_failures = 0 /\ opened_at = None /\ half_open = FALSE
  /\ call = [c \in Callers |-> FALSE]
  /\ log = <<>>

Tick == now < MaxTime /\ now' = now + 1 /\ UNCHANGED <<inner, call, log>>

(* refresh(): the half_open flag after looking at the clock.               *)
Refreshed == half_open \/ (opened_at # None /\ now - opened_at >= cooldown)

(* state(): what the breaker shows after a refresh.                        *)
State == IF opened_at = None THEN "closed" ELSE IF Refreshed THEN "half_open" ELSE "open"

(* Someone asks for the state, or allow() turns a caller away.             *)
ReadState ==
  /\ half_open' = Refreshed
  /\ UNCHANGED <<now, consecutive_failures, opened_at, call, log>>

(* allow() answers true and the caller makes its call.  While the breaker  *)
(* is half open it answers true to every caller: no trial is singled out.  *)
Enter(c) ==
  /\ ~call[c]
  /\ State # "open"
  /\ half_open' = Refreshed
  /\ call' = [call EXCEPT ![c] = TRUE]
  /\ UNCHANGED <<now, consecutive_failures, opened_at, log>>

Report(c, ok) ==
  /\ call[c]
  /\ Len(log) < MaxCalls
  /\ call' = [call EXCEPT ![c] = FALSE]
  /\ log' = Append(log, [ok |-> ok, time |-> now])

OnSuccess(c) ==
  /\ Report(c, TRUE)
  /\ consecutive_failures' = 0 /\ opened_at' = None /\ half_open' = FALSE
  /\ UNCHANGED now

(* Mutant of OnFailure: a failed trial leaves the breaker half open.       *)
OnFailureStaysHalfOpen(c) ==
  /\ Report(c, FALSE)
  /\ consecutive_failures' = consecutive_failures + 1
  /\ opened_at' = IF consecutive_failures' >= failure_threshold THEN now ELSE opened_at
  /\ UNCHANGED <<now, half_open>>

OnFailure(c) ==
  /\ Report(c, FALSE)
  /\ consecutive_failures' = consecutive_failures + 1
  /\ half_open' = FALSE
  /\ opened_at' = IF consecutive_failures' >= failure_threshold THEN now ELSE opened_at
  /\ UNCHANGED now

(* The clock has reached its bound.                                        *)
Done == now = MaxTime /\ UNCHANGED vars

Next ==
  \/ Tick \/ ReadState
  \/ \E c \in Callers : Enter(c) \/ OnSuccess(c) \/ OnFailure(c)
  \/ Done

Spec == Init /\ [][Next]_vars

----------------------------------------------------------------------------

(* How many of the last reports were failures, without a success between.  *)
Streak == Cardinality({i \in 1 .. Len(log) : \A j \in i .. Len(log) : ~log[j].ok})

(* A caller is turned away exactly while the last failure_threshold or     *)
(* more outcomes, of whichever callers and however late they came in, were *)
(* failures and the cooldown since the very last of them has not elapsed:  *)
(* a failed trial costs a full cooldown again, a late failure prolongs it, *)
(* and a success ends it.                                                  *)
RejectsWhileCooling ==
  State = "open" <=>
    /\ Streak > 0 /\ Streak >= failure_threshold
    /\ now - log[Len(log)].time < cooldown
=============================================================================
