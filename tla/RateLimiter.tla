----------------------------- MODULE RateLimiter -----------------------------
(***************************************************************************)
(* The token bucket of marginguard-resilience/src/limiter.rs, which the    *)
(* engine asks before every command.  A caller reads the clock before it   *)
(* has the lock of the bucket, so these are two steps, and callers may get *)
(* the lock in another order than they read the clock.                     *)
(*                                                                         *)
(* Time is counted in ticks.  Tokens are counted in the unit that makes    *)
(* Rate and every amount whole; the rounding of the code's floating-point  *)
(* numbers is left out.                                                    *)
(***************************************************************************)
EXTENDS Integers

CONSTANTS
  Callers,     \* threads that ask for tokens
  Capacity,    \* size of the bucket
  Rate,        \* tokens refilled per tick
  Amounts,     \* how many tokens a caller may ask for
  MaxTime      \* bound: the last tick

ASSUME LimiterAssumption ==
  /\ Capacity \in Nat /\ Rate \in Nat /\ MaxTime \in Nat
  /\ Amounts \subseteq Nat \ {0}

VARIABLES
  now,           \* the clock
  tokens,        \* Bucket.tokens
  last_refill,   \* Bucket.last_refill_nanos
  call,          \* what each caller is doing
  granted,       \* history: tokens granted to reads of the clock since each time
  waited         \* history: how long callers have waited for the lock, in all

vars == <<now, tokens, last_refill, call, granted, waited>>

Times == 0 .. MaxTime

(* A caller between calls, or one that has read the clock and is about to  *)
(* lock the bucket for n tokens.                                           *)
NoCall == [waits |-> FALSE, time |-> 0, n |-> 0]
Waiting == [waits : {TRUE}, time : Times, n : Amounts]

Init ==
  /\ now = 0
  /\ tokens = Capacity /\ last_refill = 0
  /\ call = [c \in Callers |-> NoCall]
  /\ granted = [start \in Times |-> 0] /\ waited = 0

Tick ==
  /\ now < MaxTime
  /\ now' = now + 1
  /\ UNCHANGED <<tokens, last_refill, call, granted, waited>>

ReadClock(c, n) ==
  /\ ~call[c].waits
  /\ call' = [call EXCEPT ![c] = [waits |-> TRUE, time |-> now, n |-> n]]
  /\ UNCHANGED <<now, tokens, last_refill, granted, waited>>

(* Mutant of Refilled: the bucket overflows its capacity.                  *)
RefilledUncapped(time) ==
  tokens + (IF time > last_refill THEN time - last_refill ELSE 0) * Rate

(* The bucket at a time: with what has been refilled since the mark, none  *)
(* when the mark is past that time, up to the capacity.                    *)
Refilled(time) ==
  LET elapsed == IF time > last_refill THEN time - last_refill ELSE 0
      sum == tokens + elapsed * Rate
  IN  IF sum < Capacity THEN sum ELSE Capacity

(* The answer to caller c, and what it adds to the history.                *)
Answer(c, taken) ==
  /\ call' = [call EXCEPT ![c] = NoCall]
  /\ granted' = [start \in Times |->
       IF start <= call[c].time THEN granted[start] + taken ELSE granted[start]]
  /\ waited' = waited + (now - call[c].time)

(* Mutant of Refuse: the mark moves and the refill is forgotten.           *)
RefuseForfeits(c) ==
  /\ call[c].waits
  /\ Refilled(call[c].time) < call[c].n
  /\ last_refill' = call[c].time
  /\ Answer(c, 0)
  /\ UNCHANGED <<now, tokens>>

Admit(c) ==
  /\ call[c].waits
  /\ Refilled(call[c].time) >= call[c].n
  /\ tokens' = Refilled(call[c].time) - call[c].n
  /\ last_refill' = call[c].time
  /\ Answer(c, call[c].n)
  /\ UNCHANGED now

Refuse(c) ==
  /\ call[c].waits
  /\ Refilled(call[c].time) < call[c].n
  /\ tokens' = Refilled(call[c].time)
  /\ last_refill' = call[c].time
  /\ Answer(c, 0)
  /\ UNCHANGED now

Next ==
  \/ Tick
  \/ \E c \in Callers :
       Admit(c) \/ Refuse(c) \/ \E n \in Amounts : ReadClock(c, n)

Spec == Init /\ [][Next]_vars

----------------------------------------------------------------------------

(* The bucket is never overdrawn or overfull, and neither the mark nor a   *)
(* caller is ahead of the clock.                                           *)
TypeOK ==
  /\ now \in Times
  /\ tokens \in 0 .. Capacity
  /\ last_refill \in 0 .. now
  /\ call \in [Callers -> {NoCall} \cup Waiting]
  /\ \A c \in Callers : call[c].time <= now
  /\ granted \in [Times -> Nat]
  /\ waited \in Nat

(* Over any stretch of time the limiter grants at most its capacity and    *)
(* what refills during the stretch, plus what refills during the time that *)
(* callers spend between reading the clock and holding the lock: a late    *)
(* caller moves the mark back, and the next one refills that time again,   *)
(* but never more than it was late.                                        *)
GrantsWithinRate ==
  \A start \in 0 .. now :
    granted[start] <= Capacity + Rate * ((now - start) + waited)

(* A caller is refused only when it is over the rate: there is a stretch   *)
(* up to its reading of the clock in which the tokens granted, with those  *)
(* it asks for, exceed the capacity and what refills in the stretch.  No   *)
(* interleaving of callers loses a refill.                                 *)
RefusedOnlyOverRate ==
  [][\A c \in Callers :
       (call[c].waits /\ ~call'[c].waits /\ granted' = granted) =>
         \E start \in 0 .. call[c].time :
           granted[start] + call[c].n > Capacity + Rate * (call[c].time - start)]_vars
=============================================================================
