-------------------------- MODULE RateLimiterProofs --------------------------
(***************************************************************************)
(* The rate limiter for any callers, capacity, rate and amounts: what it   *)
(* grants over any stretch of time is bounded above, and no refill is lost.*)
(***************************************************************************)
EXTENDS RateLimiter, TLAPS

(* The tokens granted since an earlier time include those since a later.   *)
GrantedAntitone ==
  \A s, u \in Times : s <= u => granted[u] <= granted[s]

(* Tokens left and granted since a time are at most the capacity and what  *)
(* was refilled since.  At the mark, not at the clock: only then does each *)
(* refill add to the left side what it adds to the right.                  *)
SpentIsRefilled ==
  \A s \in Times : granted[s] > 0 =>
    tokens + granted[s] <= Capacity + Rate * ((last_refill - s) + waited)

(* The bucket was full at some time, and all that was refilled since and   *)
(* not granted is still in it.                                             *)
FullOnce(level, time) ==
  \E s \in 0 .. time : level >= Capacity + Rate * (time - s) - granted[s]

LimiterInv ==
  TypeOK /\ GrantedAntitone /\ SpentIsRefilled /\ FullOnce(tokens, last_refill)

(* Multiplication by the rate, as far as it is needed.                     *)
LEMMA RateTimes ==
  /\ \A x \in Int : Rate * x \in Int
  /\ \A x, y \in Int : Rate * (x + y) = Rate * x + Rate * y
  /\ \A x, y \in Int : x <= y => Rate * x <= Rate * y
  /\ \A x \in Int : x * Rate = Rate * x
  /\ Rate * 0 = 0
BY LimiterAssumption

(* The level after a refill, and the two ways it comes about.              *)
LEMMA RefilledLevel ==
  ASSUME TypeOK, NEW time \in Times
  PROVE  /\ Refilled(time) \in 0 .. Capacity
         /\ time <= last_refill => Refilled(time) = tokens
         /\ time > last_refill =>
              /\ Refilled(time) <= tokens + Rate * (time - last_refill)
              /\ Refilled(time) = Capacity
                   \/ Refilled(time) = tokens + Rate * (time - last_refill)
<1>1. /\ tokens \in Int /\ last_refill \in Int /\ time \in Int /\ Capacity \in Int
      /\ 0 <= tokens /\ tokens <= Capacity
  BY LimiterAssumption DEF TypeOK, Times
<1>2. CASE time <= last_refill
  <2>1. Refilled(time) = IF tokens + 0 * Rate < Capacity THEN tokens + 0 * Rate ELSE Capacity
    BY <1>1, <1>2 DEF Refilled
  <2>2. 0 * Rate = 0
    BY LimiterAssumption
  <2> QED BY <1>1, <1>2, <2>1, <2>2
<1>3. CASE time > last_refill
  <2> DEFINE more == Rate * (time - last_refill)
  <2>1. more \in Int /\ more >= 0 /\ (time - last_refill) * Rate = more
    <3>1. (time - last_refill) \in Int /\ 0 <= time - last_refill /\ 0 \in Int
      BY <1>1, <1>3
    <3>2. Rate * 0 <= Rate * (time - last_refill)
      BY <3>1, RateTimes
    <3> QED BY <3>1, <3>2, RateTimes
  <2>2. Refilled(time) = IF tokens + more < Capacity THEN tokens + more ELSE Capacity
    BY <1>1, <1>3, <2>1 DEF Refilled
  <2> HIDE DEF more
  <2>3. Refilled(time) \in 0 .. Capacity /\ Refilled(time) <= tokens + more
        /\ (Refilled(time) = Capacity \/ Refilled(time) = tokens + more)
    BY <1>1, <2>1, <2>2
  <2> QED BY <1>1, <1>3, <2>3 DEF more
<1> QED BY <1>1, <1>2, <1>3

(* After a refill too the bucket was full at some time, not after that of  *)
(* the refill, and has lost nothing since.                                 *)
LEMMA RefillLosesNothing ==
  ASSUME LimiterInv, NEW time \in Times
  PROVE  FullOnce(Refilled(time), time)
<1>1. /\ tokens \in Int /\ last_refill \in Int /\ time \in Int /\ Capacity \in Int
      /\ 0 <= time /\ 0 <= last_refill /\ last_refill \in Times
      /\ \A s \in Times : granted[s] \in Int /\ granted[s] >= 0
      /\ Refilled(time) \in Int
  BY LimiterAssumption, RefilledLevel DEF LimiterInv, TypeOK, Times
<1>2. PICK s \in 0 .. last_refill :
        tokens >= Capacity + Rate * (last_refill - s) - granted[s]
  BY DEF LimiterInv, FullOnce
<1>3. s \in Int /\ s \in Times /\ s <= last_refill /\ 0 <= s
  BY <1>1, <1>2, LimiterAssumption DEF Times
<1>4. /\ (time - s) \in Int /\ (time - last_refill) \in Int /\ (last_refill - s) \in Int
      /\ time - time = 0
  BY <1>1, <1>3
<1>5. CASE time > last_refill /\ Refilled(time) = Capacity
  <2>1. Refilled(time) >= Capacity + Rate * (time - time) - granted[time]
    <3>1. Rate * (time - time) = 0 /\ granted[time] \in Int /\ granted[time] >= 0
      BY <1>1, <1>4, RateTimes
    <3> QED BY <1>1, <1>5, <3>1
  <2> QED BY <1>1, <2>1 DEF FullOnce
<1>6. CASE time > last_refill /\ Refilled(time) = tokens + Rate * (time - last_refill)
  <2>1. Rate * (time - s) = Rate * (time - last_refill) + Rate * (last_refill - s)
    <3>1. (time - s) = (time - last_refill) + (last_refill - s)
      BY <1>1, <1>3
    <3> QED BY <1>1, <1>3, <3>1, RateTimes
  <2>2. Rate * (time - last_refill) \in Int /\ Rate * (last_refill - s) \in Int
        /\ granted[s] \in Int
    BY <1>1, <1>3, <1>4, RateTimes
  <2>3. Refilled(time) >= Capacity + Rate * (time - s) - granted[s]
    BY <1>1, <1>2, <1>6, <2>1, <2>2
  <2> QED BY <1>1, <1>3, <1>6, <2>3 DEF FullOnce
<1>7. CASE time <= last_refill /\ s <= time
  <2>1. Rate * (time - s) <= Rate * (last_refill - s)
    BY <1>1, <1>3, <1>7, RateTimes
  <2>2. Rate * (time - s) \in Int /\ Rate * (last_refill - s) \in Int /\ granted[s] \in Int
    BY <1>1, <1>3, <1>4, RateTimes
  <2>3. Refilled(time) = tokens
    BY <1>7, RefilledLevel DEF LimiterInv
  <2>4. Refilled(time) >= Capacity + Rate * (time - s) - granted[s]
    BY <1>1, <1>2, <2>1, <2>2, <2>3
  <2> QED BY <1>1, <1>3, <1>7, <2>4 DEF FullOnce
<1>8. CASE time <= last_refill /\ time < s
  <2>1. granted[s] <= granted[time]
    BY <1>1, <1>3, <1>8 DEF LimiterInv, GrantedAntitone
  <2>2. Rate * (last_refill - s) \in Int /\ Rate * (last_refill - s) >= 0
        /\ Rate * (time - time) = 0
    <3>1. Rate * 0 <= Rate * (last_refill - s)
      BY <1>1, <1>3, RateTimes
    <3> QED BY <1>1, <1>3, <3>1, RateTimes
  <2>3. Refilled(time) = tokens
    BY <1>8, RefilledLevel DEF LimiterInv
  <2>4. granted[s] \in Int /\ granted[time] \in Int
    BY <1>1, <1>3
  <2>5. Refilled(time) >= Capacity + Rate * (time - time) - granted[time]
    BY <1>1, <1>2, <2>1, <2>2, <2>3, <2>4
  <2> QED BY <1>1, <2>5 DEF FullOnce
<1> QED
  <2>1. (time > last_refill \/ time <= last_refill) /\ (s <= time \/ time < s)
    BY <1>1, <1>3
  <2>2. time > last_refill => (Refilled(time) = Capacity
                                 \/ Refilled(time) = tokens + Rate * (time - last_refill))
    BY RefilledLevel DEF LimiterInv
  <2> QED BY <1>5, <1>6, <1>7, <1>8, <2>1, <2>2

----------------------------------------------------------------------------

(* What an answer to caller c does to the history, whether it grants or    *)
(* refuses.                                                                *)
LEMMA AnswerHistory ==
  ASSUME LimiterInv, NEW c \in Callers, call[c].waits, NEW n \in Nat, Answer(c, n)
  PROVE  /\ call[c] \in Waiting
         /\ call[c].time \in Times /\ call[c].time <= now
         /\ granted' \in [Times -> Nat]
         /\ \A s \in Times :
              granted'[s] = IF s <= call[c].time THEN granted[s] + n ELSE granted[s]
         /\ waited' = waited + (now - call[c].time) /\ waited' \in Nat
         /\ call' \in [Callers -> {NoCall} \cup Waiting]
         /\ \A d \in Callers : call'[d].time <= now
<1>1. call[c] \in Waiting
  BY DEF LimiterInv, TypeOK, NoCall
<1>2. call[c].time \in Times /\ call[c].time <= now /\ now \in Int /\ waited \in Nat
  BY <1>1, LimiterAssumption DEF Waiting, LimiterInv, TypeOK, Times
<1>3. call' \in [Callers -> {NoCall} \cup Waiting]
  BY DEF Answer, LimiterInv, TypeOK
<1>4. ASSUME NEW d \in Callers PROVE call'[d].time <= now
  <2>1. CASE d = c
    <3>1. call'[d] = NoCall /\ NoCall.time = 0
      BY <2>1 DEF Answer, LimiterInv, TypeOK, NoCall
    <3> QED BY <3>1, <1>2, LimiterAssumption DEF LimiterInv, TypeOK, Times
  <2>2. CASE d # c
    BY <2>2 DEF Answer, LimiterInv, TypeOK
  <2> QED BY <2>1, <2>2
<1>5. granted' \in [Times -> Nat]
  BY DEF Answer, LimiterInv, TypeOK
<1>6. \A s \in Times :
        granted'[s] = IF s <= call[c].time THEN granted[s] + n ELSE granted[s]
  BY DEF Answer
<1>7. waited' = waited + (now - call[c].time) /\ waited' \in Nat
  <2>1. waited' = waited + (now - call[c].time)
    BY DEF Answer
  <2> QED BY <1>2, <2>1, LimiterAssumption DEF Times
<1> QED BY <1>1, <1>2, <1>3, <1>4, <1>5, <1>6, <1>7

(* An answer that grants n tokens out of the refilled bucket, n being zero *)
(* for a refusal, keeps the invariant.                                     *)
LEMMA AnswerKeepsInv ==
  ASSUME LimiterInv, NEW c \in Callers, call[c].waits, NEW n \in Nat, Answer(c, n),
         n <= Refilled(call[c].time), tokens' = Refilled(call[c].time) - n,
         last_refill' = call[c].time, UNCHANGED now
  PROVE  LimiterInv'
<1> DEFINE time == call[c].time
           full == Refilled(time)
<1>1. /\ time \in Times /\ time <= now /\ time \in Int /\ 0 <= time
      /\ waited' = waited + (now - time) /\ waited' \in Nat
      /\ granted' \in [Times -> Nat]
      /\ call' \in [Callers -> {NoCall} \cup Waiting]
      /\ \A d \in Callers : call'[d].time <= now
  BY AnswerHistory, LimiterAssumption DEF Times
<1>2. \A s \in Times : granted'[s] = IF s <= time THEN granted[s] + n ELSE granted[s]
  BY AnswerHistory
<1>3. /\ full \in Int /\ 0 <= full /\ full <= Capacity /\ n \in Int /\ 0 <= n
      /\ tokens \in Int /\ last_refill \in Int /\ last_refill <= now /\ now \in Int
      /\ waited \in Int /\ 0 <= waited /\ Capacity \in Int
      /\ \A s \in Times : granted[s] \in Int /\ granted[s] >= 0 /\ s \in Int
  <2>1. full \in 0 .. Capacity
    BY <1>1, RefilledLevel DEF LimiterInv
  <2> HIDE DEF full, time
  <2>2. \A s \in Times : granted[s] \in Int /\ granted[s] >= 0 /\ s \in Int
    BY LimiterAssumption DEF LimiterInv, TypeOK, Times
  <2>3. /\ tokens \in 0 .. Capacity /\ last_refill \in 0 .. now /\ now \in Times
        /\ waited \in Nat
    BY DEF LimiterInv, TypeOK
  <2> QED BY <2>1, <2>2, <2>3, LimiterAssumption DEF Times
<1>4. tokens' = full - n /\ last_refill' = time /\ n <= full
  OBVIOUS
<1>5. FullOnce(full, time)
  BY <1>1, RefillLosesNothing
<1>6. /\ time <= last_refill => full = tokens
      /\ time > last_refill => full <= tokens + Rate * (time - last_refill)
  BY <1>1, RefilledLevel DEF LimiterInv
<1> HIDE DEF time, full
<1>7. TypeOK'
  BY <1>1, <1>3, <1>4 DEF LimiterInv, TypeOK
<1>8. GrantedAntitone'
  BY <1>1, <1>2, <1>3 DEF LimiterInv, GrantedAntitone
<1>9. ASSUME NEW s \in Times, granted'[s] > 0
      PROVE  tokens' + granted'[s] <= Capacity + Rate * ((last_refill' - s) + waited')
  <2>1. CASE granted[s] = 0
    <3>1. s <= time /\ granted'[s] = n
      BY <1>2, <1>3, <1>9, <2>1
    <3>2. 0 <= (time - s) + waited' /\ (time - s) + waited' \in Int /\ 0 \in Int
      BY <1>1, <1>3, <3>1
    <3>3. Rate * ((time - s) + waited') \in Int /\ 0 <= Rate * ((time - s) + waited')
      <4>1. Rate * 0 <= Rate * ((time - s) + waited')
        BY <3>2, RateTimes
      <4> QED BY <3>2, <4>1, RateTimes
    <3> QED BY <1>3, <1>4, <3>1, <3>3
  <2>2. CASE granted[s] > 0
    <3> DEFINE old == (last_refill - s) + waited
               new == (time - s) + waited'
    <3>1. old \in Int /\ new \in Int
      BY <1>1, <1>3
    <3>2. tokens + granted[s] <= Capacity + Rate * old
      BY <2>2 DEF LimiterInv, SpentIsRefilled
    <3>3. tokens' + granted'[s] <= full + granted[s]
      BY <1>1, <1>2, <1>3, <1>4
    <3>4. CASE time <= last_refill
      <4>1. old <= new
        BY <1>1, <1>3
      <4>2. Rate * old <= Rate * new /\ Rate * old \in Int /\ Rate * new \in Int
        BY <3>1, <4>1, RateTimes
      <4>3. tokens' \in Int /\ granted'[s] \in Int
        BY <1>1, <1>3, <1>4
      <4> HIDE DEF old, new
      <4>4. tokens' + granted'[s] <= Capacity + Rate * new
        BY <1>3, <1>6, <3>2, <3>3, <3>4, <4>2, <4>3
      <4> QED BY <1>4, <4>4 DEF new
    <3>5. CASE time > last_refill
      <4>1. old + (time - last_refill) <= new /\ (time - last_refill) \in Int
        BY <1>1, <1>3
      <4>2. /\ Rate * (old + (time - last_refill)) <= Rate * new
            /\ Rate * (old + (time - last_refill)) = Rate * old + Rate * (time - last_refill)
            /\ Rate * old \in Int /\ Rate * new \in Int
            /\ Rate * (time - last_refill) \in Int
        <5>1. old + (time - last_refill) \in Int
          BY <3>1, <4>1
        <5> QED BY <3>1, <4>1, <5>1, RateTimes
      <4>3. tokens' \in Int /\ granted'[s] \in Int
        BY <1>1, <1>3, <1>4
      <4> HIDE DEF old, new
      <4>4. tokens' + granted'[s] <= Capacity + Rate * new
        BY <1>3, <1>6, <3>2, <3>3, <3>5, <4>2, <4>3
      <4> QED BY <1>4, <4>4 DEF new
    <3> QED BY <1>1, <1>3, <3>4, <3>5
  <2> QED BY <1>3, <2>1, <2>2
<1>10. FullOnce(tokens, last_refill)'
  <2>1. PICK s \in 0 .. time : full >= Capacity + Rate * (time - s) - granted[s]
    BY <1>5 DEF FullOnce
  <2>2. s \in Times /\ s <= time /\ (time - s) \in Int
    BY <1>1, <1>3, <2>1, LimiterAssumption DEF Times
  <2>3. Rate * (time - s) \in Int /\ granted[s] \in Int
    BY <1>3, <2>2, RateTimes
  <2>4. granted'[s] = granted[s] + n
    BY <1>2, <2>2
  <2>5. full - n >= Capacity + Rate * (time - s) - granted'[s]
    BY <1>3, <2>1, <2>3, <2>4
  <2> QED BY <1>4, <2>5 DEF FullOnce
<1>11. SpentIsRefilled'
  BY <1>9 DEF SpentIsRefilled
<1> QED BY <1>7, <1>8, <1>10, <1>11 DEF LimiterInv

LEMMA LimiterInit == Init => LimiterInv
<1> SUFFICES ASSUME Init PROVE LimiterInv
  OBVIOUS
<1>1. TypeOK
  BY LimiterAssumption DEF Init, TypeOK, Times, NoCall
<1>2. GrantedAntitone /\ SpentIsRefilled
  BY LimiterAssumption DEF Init, GrantedAntitone, SpentIsRefilled, Times
<1>3. FullOnce(tokens, last_refill)
  <2>1. tokens >= Capacity + Rate * (0 - 0) - granted[0]
    BY LimiterAssumption, RateTimes DEF Init, Times
  <2> QED BY <2>1 DEF FullOnce, Init
<1> QED BY <1>1, <1>2, <1>3 DEF LimiterInv

LEMMA LimiterStep == LimiterInv /\ [Next]_vars => LimiterInv'
<1> SUFFICES ASSUME LimiterInv, [Next]_vars PROVE LimiterInv'
  OBVIOUS
<1>1. CASE Tick
  <2>1. TypeOK'
    <3>1. TypeOK /\ now' = now + 1 /\ now < MaxTime
          /\ UNCHANGED <<tokens, last_refill, call, granted, waited>>
      BY <1>1 DEF Tick, LimiterInv
    <3>2. now' \in Times /\ last_refill \in 0 .. now' /\ now \in Int /\ now <= now'
      BY <3>1, LimiterAssumption DEF TypeOK, Times
    <3>3. ASSUME NEW c \in Callers PROVE call'[c].time <= now'
      <4>1. call[c].time \in Int /\ call[c].time <= now
        <5>1. call[c] \in {NoCall} \cup Waiting /\ call[c].time <= now
          BY <3>1 DEF TypeOK
        <5>2. CASE call[c] = NoCall
          <6>1. call[c].time = 0
            BY <5>2 DEF NoCall
          <6> QED BY <5>1, <6>1
        <5>3. CASE call[c] \in Waiting
          <6>1. call[c].time \in Times
            BY <5>3 DEF Waiting
          <6> QED BY <5>1, <6>1, LimiterAssumption DEF Times
        <5> QED BY <5>1, <5>2, <5>3
      <4> QED BY <3>1, <3>2, <4>1
    <3> QED BY <3>1, <3>2, <3>3 DEF TypeOK
  <2> QED BY <1>1, <2>1 DEF Tick, LimiterInv, GrantedAntitone, SpentIsRefilled, FullOnce
<1>2. ASSUME NEW c \in Callers, NEW n \in Amounts, ReadClock(c, n) PROVE LimiterInv'
  <2>1. TypeOK'
    <3>1. [waits |-> TRUE, time |-> now, n |-> n] \in Waiting
      BY DEF Waiting, LimiterInv, TypeOK
    <3>2. call' \in [Callers -> {NoCall} \cup Waiting]
      BY <1>2, <3>1 DEF ReadClock, LimiterInv, TypeOK
    <3>3. \A d \in Callers : call'[d].time <= now
      BY <1>2, LimiterAssumption DEF ReadClock, LimiterInv, TypeOK, Times
    <3>4. UNCHANGED <<now, tokens, last_refill, granted, waited>>
      BY <1>2 DEF ReadClock
    <3>5. TypeOK
      BY DEF LimiterInv
    <3> QED BY <3>2, <3>3, <3>4, <3>5 DEF TypeOK
  <2> QED BY <1>2, <2>1
          DEF ReadClock, LimiterInv, GrantedAntitone, SpentIsRefilled, FullOnce
<1>3. ASSUME NEW c \in Callers, Admit(c) PROVE LimiterInv'
  <2>1. call[c].n \in Nat /\ call[c].time \in Times /\ call[c].waits
    <3>1. call[c] \in Waiting
      BY <1>3 DEF Admit, LimiterInv, TypeOK, NoCall
    <3> QED BY <1>3, <3>1, LimiterAssumption DEF Admit, Waiting
  <2>2. Refilled(call[c].time) \in Int
    BY <2>1, RefilledLevel, LimiterAssumption DEF LimiterInv
  <2>3. call[c].n <= Refilled(call[c].time)
    BY <1>3, <2>1, <2>2 DEF Admit
  <2> QED BY <1>3, <2>1, <2>3, AnswerKeepsInv DEF Admit
<1>4. ASSUME NEW c \in Callers, Refuse(c) PROVE LimiterInv'
  <2>1. call[c].time \in Times /\ call[c].waits /\ 0 \in Nat
    <3>1. call[c] \in Waiting
      BY <1>4 DEF Refuse, LimiterInv, TypeOK, NoCall
    <3> QED BY <1>4, <3>1, LimiterAssumption DEF Refuse, Waiting
  <2>2. /\ 0 <= Refilled(call[c].time)
        /\ Refilled(call[c].time) = Refilled(call[c].time) - 0
    BY <2>1, RefilledLevel, LimiterAssumption DEF LimiterInv
  <2> QED BY <1>4, <2>1, <2>2, AnswerKeepsInv DEF Refuse
<1>5. CASE UNCHANGED vars
  BY <1>5 DEF vars, LimiterInv, TypeOK, GrantedAntitone, SpentIsRefilled, FullOnce
<1> QED BY <1>1, <1>2, <1>3, <1>4, <1>5 DEF Next

LEMMA LimiterInvariant == Spec => []LimiterInv
BY LimiterInit, LimiterStep, PTL DEF Spec

(* Over any stretch of time no more is granted than the capacity, what     *)
(* refills in it, and what refills while callers wait for the lock.        *)
THEOREM LimiterBounds == Spec => []GrantsWithinRate
<1>1. LimiterInv => GrantsWithinRate
  <2> SUFFICES ASSUME LimiterInv, NEW start \in 0 .. now
               PROVE  granted[start] <= Capacity + Rate * ((now - start) + waited)
    BY DEF GrantsWithinRate
  <2>1. /\ start \in Times /\ start \in Int /\ start <= now /\ now \in Int
        /\ last_refill \in Int /\ last_refill <= now /\ waited \in Int /\ 0 <= waited
        /\ granted[start] \in Int /\ granted[start] >= 0
        /\ tokens \in Int /\ 0 <= tokens /\ Capacity \in Int /\ 0 <= Capacity
    BY LimiterAssumption DEF LimiterInv, TypeOK, Times
  <2> DEFINE bound == (now - start) + waited
             spent == (last_refill - start) + waited
  <2>2. bound \in Int /\ spent \in Int /\ spent <= bound /\ 0 <= bound /\ 0 \in Int
    BY <2>1
  <2>3. granted[start] > 0 => tokens + granted[start] <= Capacity + Rate * spent
    BY <2>1 DEF LimiterInv, SpentIsRefilled
  <2> HIDE DEF bound, spent
  <2>4. /\ Rate * spent <= Rate * bound /\ Rate * spent \in Int /\ Rate * bound \in Int
        /\ 0 <= Rate * bound
    <3>1. Rate * 0 <= Rate * bound /\ Rate * 0 = 0
      BY <2>2, RateTimes
    <3> QED BY <2>2, <3>1, RateTimes
  <2>5. CASE granted[start] > 0
    <3>1. granted[start] <= Capacity + Rate * bound
      BY <2>1, <2>3, <2>4, <2>5
    <3> QED BY <3>1 DEF bound
  <2>6. CASE granted[start] = 0
    <3>1. granted[start] <= Capacity + Rate * bound
      BY <2>1, <2>4, <2>6
    <3> QED BY <3>1 DEF bound
  <2> QED BY <2>1, <2>5, <2>6
<1> QED BY <1>1, LimiterInvariant, PTL

(* A caller is refused only when, over some stretch up to its reading of   *)
(* the clock, it would exceed the capacity and what refills in it.         *)
THEOREM LimiterFair == Spec => RefusedOnlyOverRate
<1> DEFINE P(c) ==
      (call[c].waits /\ ~call'[c].waits /\ granted' = granted) =>
         \E start \in 0 .. call[c].time :
           granted[start] + call[c].n > Capacity + Rate * (call[c].time - start)
<1>1. ASSUME LimiterInv, [Next]_vars, NEW c \in Callers,
             call[c].waits, ~call'[c].waits, granted' = granted
      PROVE  \E start \in 0 .. call[c].time :
               granted[start] + call[c].n > Capacity + Rate * (call[c].time - start)
  <2>1. call[c] \in Waiting /\ call[c].time \in Times
        /\ call[c].n \in Int /\ call[c].n > 0
    <3>1. call[c] \in Waiting
      BY <1>1 DEF LimiterInv, TypeOK, NoCall
    <3>2. call[c].time \in Times /\ call[c].n \in Amounts
      BY <3>1 DEF Waiting
    <3>3. \A n \in Amounts : n \in Int /\ n > 0
      BY LimiterAssumption
    <3> QED BY <3>1, <3>2, <3>3
  <2>2. Admit(c) \/ Refuse(c)
    <3>1. call' # call
      BY <1>1
    <3>2. ASSUME NEW d \in Callers, NEW n \in Amounts, ReadClock(d, n) PROVE FALSE
      BY <1>1, <3>2 DEF ReadClock, LimiterInv, TypeOK
    <3>3. ASSUME NEW d \in Callers, d # c, Answer(d, call[d].n) \/ Answer(d, 0) PROVE FALSE
      BY <1>1, <3>3 DEF Answer, LimiterInv, TypeOK
    <3> QED BY <1>1, <3>1, <3>2, <3>3 DEF Next, Tick, Admit, Refuse, vars
  <2>3. ~Admit(c)
    <3>1. SUFFICES ASSUME Admit(c) PROVE FALSE
      OBVIOUS
    <3>2. granted'[call[c].time] = granted[call[c].time] + call[c].n
      BY <2>1, <3>1, LimiterAssumption DEF Admit, Answer, Times
    <3> QED BY <1>1, <2>1, <3>2 DEF LimiterInv, TypeOK
  <2>4. Refilled(call[c].time) < call[c].n
    BY <2>2, <2>3 DEF Refuse
  <2>5. PICK s \in 0 .. call[c].time :
          Refilled(call[c].time) >= Capacity + Rate * (call[c].time - s) - granted[s]
    BY <1>1, <2>1, RefillLosesNothing DEF FullOnce
  <2>6. /\ s \in Times /\ (call[c].time - s) \in Int
        /\ Refilled(call[c].time) \in Int /\ Capacity \in Int
    BY <1>1, <2>1, <2>5, RefilledLevel, LimiterAssumption DEF LimiterInv, Times
  <2>7. granted[s] \in Int /\ Rate * (call[c].time - s) \in Int
    <3>1. granted[s] \in Nat
      BY <1>1, <2>6 DEF LimiterInv, TypeOK
    <3> DEFINE d == call[c].time - s
    <3>2. d \in Int
      BY <2>6
    <3> HIDE DEF d
    <3>3. Rate * d \in Int
      BY <3>2, RateTimes
    <3> QED BY <3>1, <3>3 DEF d
  <2>8. granted[s] + call[c].n > Capacity + Rate * (call[c].time - s)
    BY <2>1, <2>4, <2>5, <2>6, <2>7
  <2> QED BY <2>5, <2>8
<1>2. LimiterInv /\ [Next]_vars => [\A c \in Callers : P(c)]_vars
  BY <1>1
<1> QED BY <1>2, LimiterInvariant, PTL DEF Spec, RefusedOnlyOverRate
=============================================================================
