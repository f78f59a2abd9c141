---------------------------- MODULE ServerProofs ----------------------------
(***************************************************************************)
(* What a subscription sees of the engine's events, for any number of      *)
(* subscriptions and of slots, and any clients of the engine.              *)
(***************************************************************************)
EXTENDS Server, RiskEngineProofs

(* What one subscription has shown: increasing, within what it has read.   *)
ShownInOrder(d) ==
  /\ d.since < d.next
  /\ \A i \in 1 .. Len(d.shown) - 1 : d.shown[i] < d.shown[i + 1]
  /\ \A i \in 1 .. Len(d.shown) : d.since < d.shown[i] /\ d.shown[i] < d.next

(* What one subscription has lost of the events of its feed.               *)
LostOverwritten(d) ==
  \A n \in d.since + 1 .. Len(bus) :
    Wanted(d.feed, bus[n]) =>
      (\E i \in 1 .. Len(d.shown) : d.shown[i] = n) \/ n >= d.next \/ n + Slots <= Len(bus)

ReadingOK(d) ==
  /\ d \in Reading
  /\ d.next <= Len(bus) + 1
  /\ ShownInOrder(d)
  /\ LostOverwritten(d)

BusInv ==
  /\ bus \in Seq(Event)
  /\ DOMAIN readers = Readers
  /\ readers = [r \in Readers |-> readers[r]]
  /\ \A r \in Readers : readers[r] # NoFeed => ReadingOK(readers[r])

LEMMA BusStarts == BusInit => BusInv
BY DEF BusInit, BusInv

(* One more event leaves every subscription in order.                      *)
LEMMA SendKeepsReading ==
  ASSUME BusAssumption, bus \in Seq(Event), NEW e \in Event, bus' = Append(bus, e),
         NEW d \in Reading, ReadingOK(d)
  PROVE  ReadingOK(d)'
<1>1. /\ Len(bus) \in Nat /\ Len(bus') = Len(bus) + 1
      /\ \A n \in 1 .. Len(bus) : bus'[n] = bus[n]
  OBVIOUS
<1>2. d.next <= Len(bus') + 1
  BY <1>1 DEF ReadingOK, Reading
<1>3. LostOverwritten(d)'
  <2> SUFFICES ASSUME NEW n \in d.since + 1 .. Len(bus'), Wanted(d.feed, bus'[n])
               PROVE  \/ \E i \in 1 .. Len(d.shown) : d.shown[i] = n
                      \/ n >= d.next \/ n + Slots <= Len(bus')
    BY DEF LostOverwritten, Wanted
  <2>1. d.since \in Nat /\ d.next \in Nat /\ d.next <= Len(bus) + 1
    BY DEF Reading, ReadingOK
  <2>2. CASE n <= Len(bus)
    <3>1. n \in d.since + 1 .. Len(bus) /\ bus'[n] = bus[n]
      BY <1>1, <2>1, <2>2
    <3>2. \/ \E i \in 1 .. Len(d.shown) : d.shown[i] = n
          \/ n >= d.next \/ n + Slots <= Len(bus)
      BY <3>1 DEF ReadingOK, LostOverwritten
    <3>3. n + Slots <= Len(bus) => n + Slots <= Len(bus')
      <4>1. n \in Int /\ Slots \in Nat
        BY <2>1 DEF BusAssumption
      <4> QED BY <1>1, <4>1
    <3> QED BY <3>2, <3>3
  <2>3. CASE n = Len(bus) + 1
    BY <2>1, <2>3
  <2> QED BY <1>1, <2>1, <2>2, <2>3
<1>4. ShownInOrder(d)'
  BY DEF ReadingOK, ShownInOrder
<1> QED BY <1>2, <1>3, <1>4 DEF ReadingOK

(* A subscription begins with nothing shown and nothing lost.              *)
LEMMA SubscribeReading ==
  ASSUME bus \in Seq(Event), NEW feed \in Feed
  PROVE  ReadingOK([feed |-> feed, since |-> Len(bus), next |-> Len(bus) + 1,
                    shown |-> <<>>, missed |-> {}])
<1> DEFINE d == [feed |-> feed, since |-> Len(bus), next |-> Len(bus) + 1,
                 shown |-> <<>>, missed |-> {}]
<1>1. Len(bus) \in Nat
  OBVIOUS
<1>2. d \in Reading
  BY <1>1 DEF Reading
<1>3. Len(d.shown) = 0 /\ d.since = Len(bus) /\ d.next = Len(bus) + 1
  OBVIOUS
<1> HIDE DEF d
<1>4. ShownInOrder(d)
  BY <1>1, <1>3 DEF ShownInOrder
<1>5. LostOverwritten(d)
  BY <1>1, <1>3 DEF LostOverwritten
<1>6. ReadingOK(d)
  BY <1>1, <1>2, <1>3, <1>4, <1>5 DEF ReadingOK
<1> QED BY <1>6 DEF d

(* Taking the next event shows it or drops what the feed does not want.    *)
LEMMA ReceiveReading ==
  ASSUME bus \in Seq(Event), NEW d \in Reading, ReadingOK(d), d.next <= Len(bus)
  PROVE  ReadingOK(Advanced(d))
<1> DEFINE shown == IF Wanted(d.feed, bus[d.next]) THEN Append(d.shown, d.next) ELSE d.shown
           b == Advanced(d)
<1>1. /\ d.feed \in Feed /\ d.since \in Nat /\ d.next \in Nat \ {0}
      /\ d.shown \in Seq(Nat \ {0}) /\ Len(bus) \in Nat /\ d.missed \in SUBSET Nat
  BY DEF Reading
<1>2. shown \in Seq(Nat \ {0})
  BY <1>1
<1>3. b = [feed |-> d.feed, since |-> d.since, next |-> d.next + 1,
           shown |-> shown, missed |-> d.missed]
  BY DEF Advanced
<1>4. ShownInOrder(d) /\ LostOverwritten(d)
  BY DEF ReadingOK
<1> DEFINE m == Len(d.shown)
<1>5. m \in Nat /\ \A i \in 1 .. m : d.shown[i] \in Nat
  BY <1>1
<1>6. CASE Wanted(d.feed, bus[d.next])
  <2>1. /\ Len(shown) = m + 1 /\ shown[m + 1] = d.next
        /\ \A i \in 1 .. m : shown[i] = d.shown[i]
    BY <1>1, <1>6
  <2> HIDE DEF shown, b
  <2>2. /\ b \in Reading /\ b.feed = d.feed /\ b.since = d.since
        /\ b.next = d.next + 1 /\ b.shown = shown
    BY <1>1, <1>2, <1>3 DEF Reading
  <2>3. ShownInOrder(b)
    <3>1. \A i \in 1 .. m : d.since < d.shown[i] /\ d.shown[i] < d.next
      BY <1>4 DEF ShownInOrder
    <3>2. d.since < d.next /\ \A i \in 1 .. m - 1 : d.shown[i] < d.shown[i + 1]
      BY <1>4 DEF ShownInOrder
    <3>3. \A i \in 1 .. m : shown[i] \in Nat /\ shown[i] < d.next /\ d.since < shown[i]
      BY <1>5, <2>1, <3>1
    <3> HIDE DEF m
    <3>4. Len(shown) = m + 1 /\ d.since < d.next + 1
      BY <1>1, <2>1, <3>2
    <3>5. ASSUME NEW i \in 1 .. Len(shown) - 1 PROVE shown[i] < shown[i + 1]
      <4>1. CASE i = m
        BY <1>5, <2>1, <3>3, <3>4, <4>1
      <4>2. CASE i # m
        <5>1. i \in 1 .. m - 1 /\ i \in 1 .. m /\ i + 1 \in 1 .. m
          BY <1>5, <3>4, <4>2
        <5> QED BY <2>1, <3>2, <5>1
      <4> QED BY <4>1, <4>2
    <3>6. ASSUME NEW i \in 1 .. Len(shown)
          PROVE  d.since < shown[i] /\ shown[i] < d.next + 1
      <4>1. CASE i = m + 1
        BY <1>1, <2>1, <3>2, <4>1
      <4>2. CASE i # m + 1
        <5>1. i \in 1 .. m
          BY <1>5, <3>4, <4>2
        <5>2. shown[i] \in Nat /\ shown[i] < d.next /\ d.since < shown[i]
          BY <3>3, <5>1
        <5> QED BY <1>1, <5>2
      <4> QED BY <4>1, <4>2
    <3> QED BY <2>2, <3>4, <3>5, <3>6 DEF ShownInOrder
  <2>4. LostOverwritten(b)
    <3> SUFFICES ASSUME NEW n \in d.since + 1 .. Len(bus), Wanted(d.feed, bus[n])
                 PROVE  \/ \E i \in 1 .. Len(shown) : shown[i] = n
                        \/ n >= d.next + 1 \/ n + Slots <= Len(bus)
      BY <2>2 DEF LostOverwritten
    <3>1. CASE n = d.next
      <4>1. m + 1 \in 1 .. Len(shown) /\ shown[m + 1] = n
        BY <1>5, <2>1, <3>1
      <4> QED BY <4>1
    <3>2. CASE n # d.next
      <4>1. \/ \E i \in 1 .. m : d.shown[i] = n
            \/ n >= d.next \/ n + Slots <= Len(bus)
        BY <1>4 DEF LostOverwritten
      <4>2. \A i \in 1 .. m : i \in 1 .. Len(shown) /\ shown[i] = d.shown[i]
        BY <1>5, <2>1
      <4>3. n \in Int /\ (n >= d.next => n >= d.next + 1)
        BY <1>1, <3>2
      <4> QED BY <4>1, <4>2, <4>3
    <3> QED BY <3>1, <3>2
  <2>5. b.next <= Len(bus) + 1
    BY <1>1, <2>2
  <2>6. ReadingOK(b)
    BY <2>2, <2>3, <2>4, <2>5 DEF ReadingOK
  <2> QED BY <2>6 DEF b
<1>7. CASE ~Wanted(d.feed, bus[d.next])
  <2>1. shown = d.shown
    BY <1>7
  <2> HIDE DEF shown, b
  <2>2. /\ b \in Reading /\ b.feed = d.feed /\ b.since = d.since
        /\ b.next = d.next + 1 /\ b.shown = d.shown
    BY <1>1, <1>2, <1>3, <2>1 DEF Reading
  <2>3. ShownInOrder(b)
    <3>1. /\ d.since < d.next + 1
          /\ \A i \in 1 .. m : d.since < d.shown[i] /\ d.shown[i] < d.next + 1
      BY <1>1, <1>4, <1>5 DEF ShownInOrder
    <3> QED BY <1>4, <2>2, <3>1 DEF ShownInOrder
  <2>4. LostOverwritten(b)
    <3> SUFFICES ASSUME NEW n \in d.since + 1 .. Len(bus), Wanted(d.feed, bus[n])
                 PROVE  \/ \E i \in 1 .. m : d.shown[i] = n
                        \/ n >= d.next + 1 \/ n + Slots <= Len(bus)
      BY <2>2 DEF LostOverwritten
    <3>1. n # d.next
      BY <1>7
    <3>2. \/ \E i \in 1 .. m : d.shown[i] = n
          \/ n >= d.next \/ n + Slots <= Len(bus)
      BY <1>4 DEF LostOverwritten
    <3> QED BY <1>1, <3>1, <3>2
  <2>5. b.next <= Len(bus) + 1
    BY <1>1, <2>2
  <2>6. ReadingOK(b)
    BY <2>2, <2>3, <2>4, <2>5 DEF ReadingOK
  <2> QED BY <2>6 DEF b
<1> QED BY <1>6, <1>7

(* Skipping to the oldest event loses only what has been overwritten.      *)
LEMMA SkipReading ==
  ASSUME BusAssumption, bus \in Seq(Event), NEW d \in Reading, ReadingOK(d),
         d.next < Oldest
  PROVE  ReadingOK(Skipped(d, Oldest))
<1> DEFINE b == Skipped(d, Oldest)
           n0 == Oldest
           lost == d.missed \cup (d.next .. n0 - 1)
<1>1. /\ d.feed \in Feed /\ d.since \in Nat /\ d.next \in Nat \ {0}
      /\ d.shown \in Seq(Nat \ {0}) /\ Len(bus) \in Nat /\ d.missed \in SUBSET Nat
      /\ Slots \in Nat \ {0}
  BY DEF Reading, BusAssumption
<1>2. n0 \in Nat \ {0} /\ n0 <= Len(bus) + 1 /\ d.next < n0
      /\ n0 = Len(bus) - Slots + 1
  BY <1>1 DEF Oldest
<1> HIDE DEF n0
<1>3. lost \in SUBSET Nat
  BY <1>1, <1>2
<1> HIDE DEF lost
<1>4. b = [feed |-> d.feed, since |-> d.since, next |-> n0,
           shown |-> d.shown, missed |-> lost]
  BY DEF Skipped, n0, lost
<1> HIDE DEF b
<1>5. /\ b \in Reading /\ b.feed = d.feed /\ b.since = d.since
      /\ b.next = n0 /\ b.shown = d.shown
  BY <1>1, <1>2, <1>3, <1>4 DEF Reading
<1>6. ShownInOrder(d) /\ LostOverwritten(d)
  BY DEF ReadingOK
<1>7. ShownInOrder(b)
  <2>1. Len(d.shown) \in Nat /\ \A i \in 1 .. Len(d.shown) : d.shown[i] \in Nat
    BY <1>1
  <2>2. /\ d.since < n0
        /\ \A i \in 1 .. Len(d.shown) : d.since < d.shown[i] /\ d.shown[i] < n0
    BY <1>1, <1>2, <1>6, <2>1 DEF ShownInOrder
  <2> QED BY <1>5, <1>6, <2>2 DEF ShownInOrder
<1>8. LostOverwritten(b)
  <2> SUFFICES ASSUME NEW n \in d.since + 1 .. Len(bus), Wanted(d.feed, bus[n])
               PROVE  \/ \E i \in 1 .. Len(d.shown) : d.shown[i] = n
                      \/ n >= n0 \/ n + Slots <= Len(bus)
    BY <1>5 DEF LostOverwritten
  <2> QED BY <1>1, <1>2
<1>9. ReadingOK(b)
  BY <1>2, <1>5, <1>7, <1>8 DEF ReadingOK
<1> QED BY <1>9 DEF b, n0

(* A subscription's own step leaves the others alone.                      *)
LEMMA ReaderMoves ==
  ASSUME BusInv, NEW r \in Readers, NEW d, ReadingOK(d),
         readers' = [readers EXCEPT ![r] = d], bus' = bus
  PROVE  BusInv'
<1>1. /\ DOMAIN readers' = Readers /\ readers'[r] = d
      /\ \A q \in Readers \ {r} : readers'[q] = readers[q]
      /\ readers' = [q \in Readers |-> readers'[q]]
  BY DEF BusInv
<1>2. \A q \in Readers : readers'[q] # NoFeed => ReadingOK(readers'[q])
  BY <1>1 DEF BusInv
<1>3. \A q \in Readers : ReadingOK(readers'[q]) => ReadingOK(readers[q])'
  BY DEF ReadingOK, ShownInOrder, LostOverwritten, Wanted
<1> QED BY <1>1, <1>2, <1>3 DEF BusInv

LEMMA BusStep ==
  ASSUME BusAssumption, BusInv, [BusNext]_busVars
  PROVE  BusInv'
<1>1. ASSUME NEW e \in Event, Send(e) PROVE BusInv'
  <2>1. bus \in Seq(Event) /\ bus' = Append(bus, e) /\ readers' = readers
    BY <1>1 DEF Send, BusInv
  <2>2. \A r \in Readers : readers[r] # NoFeed => ReadingOK(readers[r])'
    <3> SUFFICES ASSUME NEW r \in Readers, readers[r] # NoFeed
                 PROVE  ReadingOK(readers[r])'
      OBVIOUS
    <3>1. readers[r] \in Reading /\ ReadingOK(readers[r])
      BY DEF BusInv, ReadingOK
    <3>2. \A d \in Reading : ReadingOK(d) => ReadingOK(d)'
      BY <2>1, SendKeepsReading
    <3> QED BY <2>1, <3>1, <3>2
        DEF ReadingOK, ShownInOrder, LostOverwritten, Wanted
  <2> QED BY <2>1, <2>2 DEF BusInv
<1>2. ASSUME NEW r \in Readers, NEW feed \in Feed, Subscribe(r, feed) PROVE BusInv'
  <2>1. bus \in Seq(Event)
    BY DEF BusInv
  <2> QED BY <1>2, <2>1, SubscribeReading, ReaderMoves DEF Subscribe
<1>3. ASSUME NEW r \in Readers, Receive(r) PROVE BusInv'
  <2>1. /\ bus \in Seq(Event) /\ ReadingOK(readers[r]) /\ readers[r] \in Reading
        /\ readers[r].next <= Len(bus)
    BY <1>3 DEF BusInv, Receive, ReadingOK
  <2>2. ReadingOK(Advanced(readers[r]))
    BY <2>1, ReceiveReading
  <2> QED BY <1>3, <2>2, ReaderMoves DEF Receive
<1>4. ASSUME NEW r \in Readers, SkipLag(r) PROVE BusInv'
  <2>1. /\ bus \in Seq(Event) /\ ReadingOK(readers[r]) /\ readers[r] \in Reading
        /\ readers[r].next < Oldest
    BY <1>4 DEF BusInv, SkipLag, ReadingOK
  <2>2. ReadingOK(Skipped(readers[r], Oldest))
    BY <2>1, SkipReading
  <2> QED BY <1>4, <2>2, ReaderMoves DEF SkipLag
<1>5. CASE UNCHANGED busVars
  BY <1>5 DEF busVars, BusInv, ReadingOK, ShownInOrder, LostOverwritten
<1> QED BY <1>1, <1>2, <1>3, <1>4, <1>5 DEF BusNext, Poll

(* What the invariant says of one subscription is what the property says.  *)
LEMMA BusInvEnough == BusInv => LosesOnlyOverwritten
<1> SUFFICES ASSUME BusInv, NEW r \in Readers, readers[r] # NoFeed
             PROVE  LET d == readers[r] IN
                    /\ \A i \in 1 .. Len(d.shown) - 1 : d.shown[i] < d.shown[i + 1]
                    /\ \A n \in ShownBy(r) : d.since < n /\ n < d.next
                    /\ \A n \in d.since + 1 .. Len(bus) :
                         Wanted(d.feed, bus[n]) =>
                           n \in ShownBy(r) \/ n >= d.next \/ n + Slots <= Len(bus)
  BY DEF LosesOnlyOverwritten
<1>1. ShownInOrder(readers[r]) /\ LostOverwritten(readers[r])
  BY DEF BusInv, ReadingOK
<1> QED BY <1>1 DEF ShownInOrder, LostOverwritten, ShownBy

----------------------------------------------------------------------------
(* Server runs the bus: its engine sends, and nobody else does.            *)

(* A step of the engine appends one event to the stream, or none.          *)
LEMMA EngineSends ==
  ASSUME TypeOK, Next
  PROVE  bus' = bus \/ \E e \in Event : bus' = Append(bus, e)
<1>1. ASSUME NEW t \in Tasks, Publish(t)
      PROVE  \E e \in Event : bus' = Append(bus, e)
  <2>1. req[t].evs \in Seq(Event) /\ req[t].evs # <<>>
    BY <1>1, Held DEF Publish, TypeOK, LocalsOK, HoldsWhatItReads
  <2>2. Head(req[t].evs) \in Event
    BY <2>1
  <2> QED BY <1>1, <2>2 DEF Publish
<1>2. ASSUME NEW t \in Tasks, Start(t) PROVE bus' = bus
  BY <1>2 DEF Start, OpenGet, CloseRemove, UpdateMarket, FundMarket, LiqMarket
<1>3. ASSUME NEW t \in Tasks, Continue(t), ~Publish(t) PROVE bus' = bus
  BY <1>3 DEF Continue, OpenUpsert, OpenCount, CloseMark, CloseCount, FundScan,
     FundUpsert, FundCount, LiqScan, LiqRemove, LiqSettle, SettleBankrupt,
     SettleSolvent, LiqCount, LiqFinish
<1>4. ASSUME NEW t \in Tasks, StoreFails(t) \/ SinkFails(t) PROVE bus' = bus
  BY <1>4 DEF StoreFails, SinkFails
<1>5. CASE Done
  BY <1>5 DEF Done, vars
<1> QED BY <1>1, <1>2, <1>3, <1>4, <1>5 DEF Next

(* Every step of the server is a step of the bus, or leaves it alone.      *)
LEMMA ServerStep ==
  ASSUME TypeOK, [ServerNext]_serverVars
  PROVE  TypeOK' /\ [BusNext]_busVars
<1>1. CASE EngineStep
  <2>1. TypeOK'
    BY <1>1, StepType, NextIsAny DEF EngineStep
  <2>2. bus' = bus \/ \E e \in Event : bus' = Append(bus, e)
    BY <1>1, EngineSends DEF EngineStep
  <2>3. readers' = readers
    BY <1>1 DEF EngineStep
  <2> QED BY <2>1, <2>2, <2>3 DEF BusNext, Send, busVars
<1>2. ASSUME NEW r \in Readers, ReaderStep(r) PROVE TypeOK' /\ [BusNext]_busVars
  <2>1. UNCHANGED vars
    BY <1>2 DEF ReaderStep
  <2>2. BusNext
    BY <1>2 DEF ReaderStep, BusNext
  <2> QED BY <2>1, <2>2, StepType, NextIsAny
<1>3. ASSUME NEW q \in Queries, QueryStep(q) PROVE TypeOK' /\ [BusNext]_busVars
  <2>1. UNCHANGED vars /\ UNCHANGED readers
    BY <1>3 DEF QueryStep
  <2> QED BY <2>1, StepType, NextIsAny DEF vars, busVars
<1>4. CASE UNCHANGED serverVars
  BY <1>4, StepType, NextIsAny DEF serverVars, vars, busVars
<1> QED BY <1>1, <1>2, <1>3, <1>4 DEF ServerNext

(* The engine next to its subscribers and queries is the bus as EventBus   *)
(* specifies it: for any clients, commands and port failures the stream    *)
(* only grows, by events of their types.                                   *)
THEOREM ServerImplementsBus == ServerSpec => BusSpec
<1>1. ServerInit => TypeOK /\ BusInit
  BY InitType DEF ServerInit, BusInit, Init
<1>2. TypeOK /\ [ServerNext]_serverVars => TypeOK' /\ [BusNext]_busVars
  BY ServerStep
<1> QED BY <1>1, <1>2, PTL DEF ServerSpec, BusSpec

(* For any number of subscriptions and of slots a subscription shows the   *)
(* events of its feed once and in order, and loses only those that were    *)
(* overwritten before it read them.                                        *)
THEOREM SubscribersLoseOnlyOverwritten == ServerSpec => []LosesOnlyOverwritten
<1>1. BusInv /\ [BusNext]_busVars => BusInv'
  BY BusStep, ServerAssumption
<1>2. BusSpec => []LosesOnlyOverwritten
  BY <1>1, BusStarts, BusInvEnough, PTL DEF BusSpec
<1> QED BY <1>2, ServerImplementsBus, PTL

----------------------------------------------------------------------------
(* The verdict of the advisor on exact and on rounded amounts.             *)

(* Quotient and remainder.                                                 *)
LEMMA Quotient ==
  ASSUME NEW a \in Nat, NEW n \in Nat \ {0}
  PROVE  /\ a \div n \in Nat
         /\ n * (a \div n) <= a
         /\ a < n * (a \div n) + n
OBVIOUS

(* Two amounts with the same quotient differ by less than the divisor.     *)
LEMMA SameQuotient ==
  ASSUME NEW a \in Nat, NEW b \in Nat, NEW n \in Nat \ {0}, a \div n = b \div n
  PROVE  a - b < n
<1> DEFINE q == a \div n
<1>1. q \in Nat /\ n * q <= a /\ a < n * q + n BY Quotient
<1>2. n * q <= b BY Quotient
<1> HIDE DEF q
<1>3. n * q \in Nat BY <1>1
<1> QED BY <1>1, <1>2, <1>3

(* A larger dividend has no smaller quotient.                              *)
LEMMA QuotientMonotone ==
  ASSUME NEW a \in Nat, NEW b \in Nat, NEW n \in Nat \ {0}, b <= a
  PROVE  b \div n <= a \div n
<1> DEFINE q == a \div n
           p == b \div n
<1>1. q \in Nat /\ n * q <= a /\ a < n * q + n BY Quotient
<1>2. p \in Nat /\ n * p <= b BY Quotient
<1> HIDE DEF p, q
<1>3. n * q \in Nat /\ n * p \in Nat BY <1>1, <1>2
<1>4. n * p < n * q + n BY <1>1, <1>2, <1>3
<1>5. n * (q + 1) = n * q + n BY <1>1
<1>6. p < q + 1
  <2> SUFFICES ASSUME p >= q + 1 PROVE FALSE BY <1>1, <1>2
  <2>1. n * p >= n * (q + 1) BY <1>1, <1>2
  <2> QED BY <1>3, <1>4, <1>5, <2>1
<1> QED BY <1>1, <1>2, <1>6 DEF p, q

(* A quotient that reaches a bound.                                        *)
LEMMA QuotientReaches ==
  ASSUME NEW a \in Nat, NEW n \in Nat \ {0}, NEW c \in Nat, c * n <= a
  PROVE  c <= a \div n
<1> DEFINE q == a \div n
<1>1. q \in Nat /\ a < n * q + n BY Quotient
<1> HIDE DEF q
<1>2. n * q \in Nat /\ c * n \in Nat BY <1>1
<1>3. c * n < n * q + n BY <1>1, <1>2
<1>4. n * (q + 1) = n * q + n BY <1>1
<1>5. c < q + 1
  <2> SUFFICES ASSUME c >= q + 1 PROVE FALSE BY <1>1
  <2>1. c * n >= n * (q + 1) BY <1>1
  <2> QED BY <1>2, <1>3, <1>4, <2>1
<1> QED BY <1>1, <1>5 DEF q

(* A notional value is at most the largest price times the largest size.   *)
LEMMA NotionalBound ==
  ASSUME NEW pos \in Position, NEW mark \in Price
  PROVE  Notional(pos, mark) <= MAX_PRICE * MAX_SIZE
<1>1. mark \in Nat /\ mark <= MAX_PRICE /\ MAX_PRICE \in Nat
  BY MathAssumption DEF Price
<1>2. pos.size \in Nat /\ pos.size <= MAX_SIZE /\ MAX_SIZE \in Nat
  BY MathAssumption DEF Position, Size
<1> DEFINE size == pos.size
           product == mark * size
<1> HIDE DEF size
<1>3. size \in Nat /\ size <= MAX_SIZE BY <1>2 DEF size
<1>4. product \in Nat /\ product <= MAX_PRICE * MAX_SIZE
  <2>1. mark * size <= MAX_PRICE * size BY <1>1, <1>3
  <2>2. MAX_PRICE * size <= MAX_PRICE * MAX_SIZE BY <1>1, <1>2, <1>3
  <2>3. mark * size \in Nat /\ MAX_PRICE * size \in Nat /\ MAX_PRICE * MAX_SIZE \in Nat
    BY <1>1, <1>2, <1>3
  <2> QED BY <2>1, <2>2, <2>3
<1>5. MAX_PRICE * MAX_SIZE <= UsdMax /\ MAX_PRICE * MAX_SIZE \in Nat
  BY <1>1, <1>2, MathAssumption
<1>6. product \in Usd
  BY <1>4, <1>5, MathAssumption DEF Usd, UsdMin
<1>7. Notional(pos, mark) = TruncDiv(product, SCALE)
  BY <1>6, <1>4, SaturateType DEF Notional, ScaledMul, SatMul, size
<1> HIDE DEF product
<1>8. TruncDiv(product, SCALE) <= product
  BY <1>4, TruncDivSign, MathAssumption
<1>9. TruncDiv(product, SCALE) \in Int
  BY <1>4, TruncDivSign, MathAssumption
<1> QED BY <1>4, <1>5, <1>7, <1>8, <1>9

(* The maintenance margin of a notional n, and its rate of it, which       *)
(* rounding can only lower.                                                *)
LEMMA MaintenanceRate ==
  ASSUME NEW n \in Nat \ {0}, NEW bps \in Nat, n * bps <= UsdMax
  PROVE  /\ MulBps(n, bps) \in Nat
         /\ MulBps(n, bps) * 10000 <= n * bps
         /\ (MulBps(n, bps) * 10000) \div n \in 0 .. bps
<1> DEFINE product == n * bps
           m == product \div 10000
<1>1. product \in Nat /\ product <= UsdMax OBVIOUS
<1>2. product \in Usd BY <1>1, MathAssumption DEF Usd, UsdMin
<1>3. MulBps(n, bps) = m
  BY <1>1, <1>2, SaturateType DEF MulBps, SatMul, TruncDiv
<1> HIDE DEF product
<1>4. m \in Nat /\ m * 10000 <= product BY <1>1
<1> HIDE DEF m
<1> DEFINE q == (m * 10000) \div n
<1>5. m * 10000 \in Nat BY <1>4
<1>6. q \in Nat /\ n * q <= m * 10000 BY <1>5, Quotient
<1> HIDE DEF q
<1>7. n * q <= n * bps BY <1>4, <1>5, <1>6 DEF product
<1>8. q <= bps
  <2> SUFFICES ASSUME q >= bps + 1 PROVE FALSE BY <1>6
  <2>1. n * q >= n * (bps + 1) BY <1>6
  <2>2. n * (bps + 1) = n * bps + n BY <1>6
  <2>3. n * q \in Nat /\ n * bps \in Nat BY <1>6
  <2> QED BY <1>7, <2>1, <2>2, <2>3
<1> QED BY <1>3, <1>4, <1>6, <1>8 DEF product, q

(* Where equity e meets the maintenance margin, the distance of rounded    *)
(* and narrowed ratios is not positive only within a basis point of it.    *)
LEMMA DistanceHonest ==
  ASSUME NEW n \in Nat \ {0}, NEW bps \in Nat, NEW e \in Usd,
         bps < I64Max, (bps + 1) * n <= UsdMax,
         e >= MulBps(n, bps),
         MarginRatioBps(e, n) - ToI64(TruncDiv(MulBps(n, bps) * 10000, n)) <= 0
  PROVE  (e - MulBps(n, bps)) * 10000 < n
<1> DEFINE m == MulBps(n, bps)
           mr == (m * 10000) \div n
           s == SatMul(e, 10000)
           er == s \div n
<1>1. n * bps <= UsdMax
  <2>1. (bps + 1) * n = n * bps + n OBVIOUS
  <2>2. n * bps \in Nat OBVIOUS
  <2> QED BY <2>1, <2>2, MathAssumption
<1>2. m \in Nat /\ mr \in 0 .. bps BY <1>1, MaintenanceRate
<1>3. I64Max \in Nat BY RatioAssumption
<1>4. e \in Nat BY <1>2 DEF Usd
<1> HIDE DEF m
<1>5. m * 10000 \in Nat /\ e * 10000 \in Nat /\ m <= e BY <1>2, <1>4 DEF m
<1>6. ToI64(TruncDiv(m * 10000, n)) = mr
  BY <1>2, <1>3, <1>5 DEF ToI64, TruncDiv
<1>7. s \in Nat BY <1>4, <1>5, MathAssumption DEF SatMul, Saturate, UsdMin
<1> HIDE DEF s
<1>8. er \in Nat BY <1>7, Quotient
<1>9. MarginRatioBps(e, n) = IF er <= I64Max THEN er ELSE I64Max
  BY <1>3, <1>7, <1>8 DEF MarginRatioBps, ToI64, TruncDiv, s
<1> HIDE DEF mr, er
<1>10. er <= mr
  <2>1. MarginRatioBps(e, n) <= mr BY <1>2, <1>3, <1>6, <1>8, <1>9 DEF m
  <2> QED BY <1>2, <1>3, <1>8, <1>9, <2>1
<1>11. CASE e * 10000 <= UsdMax
  <2>1. s = e * 10000
    BY <1>5, <1>11, MathAssumption DEF s, SatMul, Saturate, UsdMin
  <2>2. mr <= er
    <3>1. m * 10000 <= e * 10000 BY <1>2, <1>4, <1>5
    <3>2. (m * 10000) \div n <= (e * 10000) \div n BY <1>5, <3>1, QuotientMonotone
    <3> QED BY <2>1, <3>2 DEF mr, er
  <2>3. er = mr BY <1>2, <1>8, <1>10, <2>2
  <2>4. (e * 10000) \div n = (m * 10000) \div n BY <2>1, <2>3 DEF er, mr
  <2>5. e * 10000 - m * 10000 < n BY <1>5, <2>4, SameQuotient
  <2> QED BY <1>2, <1>4, <2>5 DEF m
<1>12. CASE e * 10000 > UsdMax
  <2>1. s = UsdMax BY <1>12 DEF s, SatMul, Saturate
  <2>2. bps + 1 <= er BY <1>7, <2>1, QuotientReaches DEF er
  <2> QED BY <1>2, <1>8, <1>10, <2>2
<1> QED BY <1>5, <1>11, <1>12, MathAssumption

(* Both ratios fit what they are kept in.                                  *)
LEMMA RatiosInt ==
  ASSUME NEW pos \in Position, NEW mark \in Price, Notional(pos, mark) # 0
  PROVE  MarginRatioBps(PositionEquity(pos, mark), Notional(pos, mark)) # Flat
<1>1. Notional(pos, mark) \in Nat \ {0}
  BY NotionalType DEF Usd
<1>2. PositionEquity(pos, mark) \in Int
  BY EquityType, MathAssumption DEF Usd, UsdMin
<1>3. SatMul(PositionEquity(pos, mark), 10000) \in Usd
  BY <1>2, SaturateType DEF SatMul
<1>4. TruncDiv(SatMul(PositionEquity(pos, mark), 10000), Notional(pos, mark)) \in Int
  BY <1>1, <1>3, TruncDivSign, MathAssumption DEF Usd, UsdMin
<1> QED BY <1>1, <1>4, RatioAssumption DEF MarginRatioBps, ToI64

(* The verdict on a position at a mark is right for that mark.             *)
LEMMA ScoreRight ==
  ASSUME NEW pos \in Position, NEW mark \in Price
  PROVE  RightVerdict(pos, mark, Score(AccountHealth(pos, mark, Params)).risk_level)
<1> DEFINE n == Notional(pos, mark)
           e == PositionEquity(pos, mark)
           bps == Params.maintenance_margin_bps
           m == MulBps(n, bps)
           h == AccountHealth(pos, mark, Params)
           level == Classify(h.liquidatable, LiquidationDistanceBps(h))
<1>1. bps \in Nat BY EngineAssumption DEF RiskParams
<1>2. n \in Nat /\ n \in Usd /\ e \in Usd /\ e \in Int
  BY NotionalType, EquityType, MathAssumption DEF Usd, UsdMin
<1>3. m \in Usd /\ m \in Int
  <2>1. m \in Usd BY <1>1, <1>2, MulBpsType
  <2> QED BY <2>1, MathAssumption DEF Usd, UsdMin
<1>4. Score(h).risk_level = level
  BY DEF Score, Verdict
<1>5. /\ h.liquidatable = (e < m)
      /\ h.notional = n /\ h.maintenance_margin = m
      /\ h.margin_ratio_bps = MarginRatioBps(e, n)
  BY DEF AccountHealth, IsLiquidatable, MaintenanceMargin
<1>6. RightVerdict(pos, mark, level) <=>
        /\ e < m => level = "Critical"
        /\ level = "Critical" => (e - m) * 10000 < n
  BY DEF RightVerdict, IsLiquidatable, MaintenanceMargin
<1> HIDE DEF n, e, m, h, bps
<1>7. CASE e < m
  <2>1. level = "Critical" BY <1>5, <1>7 DEF Classify
  <2>2. (e - m) * 10000 < n BY <1>2, <1>3, <1>7
  <2> QED BY <1>4, <1>6, <2>1, <2>2 DEF h
<1>8. CASE ~(e < m)
  <2> SUFFICES ASSUME level = "Critical" PROVE (e - m) * 10000 < n
    BY <1>4, <1>6, <1>8 DEF h
  <2>1. /\ LiquidationDistanceBps(h) # Flat
        /\ LiquidationDistanceBps(h) <= 0
    BY <1>5, <1>8 DEF Classify, CRITICAL_BPS
  <2>2. n # 0
    BY <1>5, <2>1 DEF LiquidationDistanceBps, MarginRatioBps
  <2>3. MarginRatioBps(e, n) # Flat BY <2>2, RatiosInt DEF n, e
  <2>4. LiquidationDistanceBps(h)
          = MarginRatioBps(e, n) - ToI64(TruncDiv(m * 10000, n))
    BY <1>2, <1>5, <2>2, <2>3 DEF LiquidationDistanceBps, MaintenanceRatioBps
  <2>5. (bps + 1) * n <= UsdMax
    <3>1. n <= MAX_PRICE * MAX_SIZE BY NotionalBound DEF n
    <3> DEFINE top == MAX_PRICE * MAX_SIZE
    <3>2. top \in Nat BY MathAssumption
    <3>3. n <= top /\ (bps + 1) * top <= UsdMax BY <3>1, VerdictAssumption DEF bps
    <3> HIDE DEF top
    <3>4. (bps + 1) * n <= (bps + 1) * top BY <1>1, <1>2, <3>2, <3>3
    <3>5. (bps + 1) * n \in Nat /\ (bps + 1) * top \in Nat BY <1>1, <1>2, <3>2
    <3> QED BY <3>3, <3>4, <3>5, MathAssumption
  <2>6. bps < I64Max BY VerdictAssumption DEF bps
  <2>7. n \in Nat \ {0} /\ e >= m BY <1>2, <1>3, <1>8, <2>2
  <2>8. MarginRatioBps(e, n) - ToI64(TruncDiv(m * 10000, n)) <= 0 BY <2>1, <2>4
  <2> QED BY <1>1, <1>2, <2>5, <2>6, <2>7, <2>8, DistanceHonest DEF m
<1> QED BY <1>7, <1>8

----------------------------------------------------------------------------
(* The riskAdvice query.                                                   *)

Asking == {"health", "mark", "market"}

IsQuery(d) ==
  d = [at |-> d.at, key |-> d.key, pos |-> d.pos, again |-> d.again,
       health |-> d.health, answer |-> d.answer, marks |-> d.marks, kept |-> d.kept]

(* A query in progress has the mark of its market among its marks and,     *)
(* while its position stays, holds that position; once it has read a mark, *)
(* its health is that position's at one of its marks.                      *)
QueryOK(d) ==
  /\ IsQuery(d)
  /\ d.at \in {"idle", "answered", "failed"} \cup Asking
  /\ d.at \in Asking =>
       /\ d.key \in Keys /\ d.pos \in Position
       /\ MarkOf(d.key[2]) \in d.marks
       /\ d.kept => positions[d.key] = d.pos
  /\ d.at \in {"mark", "market"} => (d.kept => d.again = d.pos)
  /\ d.at = "market" =>
       (d.kept => \E m \in d.marks \ {None} :
                    m \in Price /\ d.health = AccountHealth(d.pos, m, Params))
  /\ d.at = "answered" =>
       (d.kept => \E m \in d.marks \ {None} :
                    RightVerdict(d.pos, m, d.answer.risk_level))

QueryInv ==
  /\ queries = [q \in Queries |-> queries[q]]
  /\ \A q \in Queries : QueryOK(queries[q])

(* A mark that is set is a price.                                          *)
LEMMA MarkIsPrice ==
  ASSUME TypeOK, NEW s \in Symbols, MarkOf(s) # None
  PROVE  MarkOf(s) \in Price
BY DEF MarkOf, TypeOK, StateOK, MarketState

(* A step of the engine, seen by a query.                                  *)
LEMMA WitnessKeepsQuery ==
  ASSUME NEW d, NEW b, QueryOK(d), b = Witnessed(d)
  PROVE  QueryOK(b)'
<1>1. CASE d.at \in {"idle", "answered", "failed"}
  <2>1. b = d /\ d.at \notin Asking /\ d.at \notin {"mark", "market"} /\ d.at # "market"
    BY <1>1 DEF Witnessed, Asking
  <2> QED BY <2>1, <1>1 DEF QueryOK, IsQuery, RightVerdict
<1>2. CASE d.at \in Asking
  <2>1. b = [d EXCEPT !.kept = @ /\ positions'[d.key] = d.pos,
                      !.marks = @ \cup {MarkOf(d.key[2])'}]
    BY <1>2 DEF Witnessed, Asking, MarkOf
  <2> DEFINE kept == d.kept /\ positions'[d.key] = d.pos
             marks == d.marks \cup {MarkOf(d.key[2])'}
  <2> HIDE DEF marks
  <2>2. IsQuery(d) BY DEF QueryOK
  <2>3. b = [at |-> d.at, key |-> d.key, pos |-> d.pos, again |-> d.again,
             health |-> d.health, answer |-> d.answer, marks |-> marks, kept |-> kept]
    BY <2>1, <2>2 DEF IsQuery, marks
  <2>4. /\ b.at = d.at /\ b.key = d.key /\ b.pos = d.pos /\ b.again = d.again
        /\ b.health = d.health /\ b.answer = d.answer /\ b.marks = marks
        /\ b.kept = kept /\ IsQuery(b)
    BY <2>3 DEF IsQuery
  <2>5. /\ d.key \in Keys /\ d.pos \in Position /\ d.at # "answered"
        /\ d.at \in {"mark", "market"} => (d.kept => d.again = d.pos)
        /\ d.at = "market" =>
             (d.kept => \E m \in d.marks \ {None} :
                          m \in Price /\ d.health = AccountHealth(d.pos, m, Params))
    BY <1>2 DEF QueryOK, Asking
  <2>6. MarkOf(d.key[2])' \in marks /\ d.marks \subseteq marks BY DEF marks
  <2>7. kept => d.kept /\ positions'[d.key] = d.pos OBVIOUS
  <2> HIDE DEF kept
  <2>8. b.at = "market" =>
          (b.kept => \E m \in b.marks \ {None} :
                       m \in Price /\ b.health = AccountHealth(b.pos, m, Params))
    BY <2>4, <2>5, <2>6, <2>7
  <2>9. /\ b.key \in Keys /\ b.pos \in Position
        /\ MarkOf(b.key[2])' \in b.marks
        /\ b.kept => positions'[b.key] = b.pos
    BY <2>4, <2>5, <2>6, <2>7
  <2>10. b.at \in {"mark", "market"} => (b.kept => b.again = b.pos)
    BY <2>4, <2>5, <2>7
  <2>11. b.at \in Asking /\ b.at # "answered" BY <1>2, <2>4, <2>5
  <2> QED BY <2>4, <2>8, <2>9, <2>10, <2>11 DEF QueryOK, IsQuery, MarkOf
<1> QED BY <1>1, <1>2 DEF QueryOK

(* One query's own step, while nothing else moves.                         *)
LEMMA QueryMoves ==
  ASSUME QueryInv, NEW q \in Queries, NEW d, QueryOK(d),
         queries' = [queries EXCEPT ![q] = d], UNCHANGED vars
  PROVE  QueryInv'
<1>1. /\ queries' = [p \in Queries |-> queries'[p]]
      /\ queries'[q] = d
      /\ \A p \in Queries \ {q} : queries'[p] = queries[p]
  BY DEF QueryInv
<1>2. \A p \in Queries : QueryOK(queries'[p])
  BY <1>1 DEF QueryInv
<1>3. positions' = positions /\ markets' = markets BY DEF vars
<1>4. ASSUME NEW p \in Queries PROVE QueryOK(queries[p])'
  BY <1>2, <1>3 DEF QueryOK, IsQuery, MarkOf, RightVerdict
<1> QED BY <1>1, <1>4 DEF QueryInv

(* What a query holds after each of its reads.                             *)
LEMMA QueryAfter ==
  ASSUME NEW d, IsQuery(d), NEW x
  PROVE  /\ [d EXCEPT !.at = "mark", !.again = x]
              = [at |-> "mark", key |-> d.key, pos |-> d.pos, again |-> x,
                 health |-> d.health, answer |-> d.answer, marks |-> d.marks,
                 kept |-> d.kept]
         /\ [d EXCEPT !.at = "market", !.health = x]
              = [at |-> "market", key |-> d.key, pos |-> d.pos, again |-> d.again,
                 health |-> x, answer |-> d.answer, marks |-> d.marks, kept |-> d.kept]
         /\ [d EXCEPT !.at = "answered", !.answer = x]
              = [at |-> "answered", key |-> d.key, pos |-> d.pos, again |-> d.again,
                 health |-> d.health, answer |-> x, marks |-> d.marks, kept |-> d.kept]
<1>1. ASSUME NEW b, b = [d EXCEPT !.at = "mark", !.again = x]
      PROVE  b = [at |-> "mark", key |-> d.key, pos |-> d.pos, again |-> x,
                  health |-> d.health, answer |-> d.answer, marks |-> d.marks,
                  kept |-> d.kept]
  BY <1>1 DEF IsQuery
<1>2. ASSUME NEW b, b = [d EXCEPT !.at = "market", !.health = x]
      PROVE  b = [at |-> "market", key |-> d.key, pos |-> d.pos, again |-> d.again,
                  health |-> x, answer |-> d.answer, marks |-> d.marks, kept |-> d.kept]
  BY <1>2 DEF IsQuery
<1>3. ASSUME NEW b, b = [d EXCEPT !.at = "answered", !.answer = x]
      PROVE  b = [at |-> "answered", key |-> d.key, pos |-> d.pos, again |-> d.again,
                  health |-> d.health, answer |-> x, marks |-> d.marks, kept |-> d.kept]
  BY <1>3 DEF IsQuery
<1> QED BY <1>1, <1>2, <1>3

(* What it holds after the first.                                          *)
LEMMA QueryBegun ==
  ASSUME NEW k, NEW pos, NEW marks, NEW b,
         b = [NoQuery EXCEPT !.at = "health", !.key = k, !.pos = pos, !.marks = marks]
  PROVE  b = [at |-> "health", key |-> k, pos |-> pos, again |-> None, health |-> None,
              answer |-> None, marks |-> marks, kept |-> TRUE]
BY DEF NoQuery

(* Each of a query's reads keeps the invariant.                            *)
LEMMA AskKeepsQueries ==
  ASSUME QueryInv, TypeOK, NEW q \in Queries, QueryStep(q)
  PROVE  QueryInv'
<1> DEFINE d == queries[q]
<1>1. UNCHANGED vars BY DEF QueryStep
<1>2. QueryOK(d) /\ IsQuery(d) BY DEF QueryInv, QueryOK
<1>3. ASSUME NEW b, queries' = [queries EXCEPT ![q] = b], QueryOK(b)
      PROVE  QueryInv'
  BY <1>1, <1>3, QueryMoves
<1>4. ASSUME NEW k \in Keys, QueryPosition(q, k) PROVE QueryInv'
  <2> DEFINE b == [at |-> "health", key |-> k, pos |-> positions[k], again |-> None,
                   health |-> None, answer |-> None, marks |-> {MarkOf(k[2])},
                   kept |-> TRUE]
  <2>1. queries' = [queries EXCEPT ![q] = b]
    <3> DEFINE c == [NoQuery EXCEPT !.at = "health", !.key = k, !.pos = positions[k],
                                    !.marks = {MarkOf(k[2])}]
    <3>1. c = b BY QueryBegun
    <3>2. queries' = [queries EXCEPT ![q] = c] BY <1>4 DEF QueryPosition
    <3> QED BY <3>1, <3>2
  <2>2. positions[k] \in Position BY <1>4 DEF QueryPosition, TypeOK, StateOK
  <2>3. QueryOK(b) BY <2>2 DEF QueryOK, IsQuery, Asking
  <2> QED BY <1>3, <2>1, <2>3
<1>5. CASE Fail(q)
  <2> DEFINE b == [d EXCEPT !.at = "failed"]
  <2>1. queries' = [queries EXCEPT ![q] = b] BY <1>5 DEF Fail
  <2>2. b.at = "failed" /\ IsQuery(b) BY <1>2 DEF IsQuery
  <2>3. QueryOK(b) BY <2>2 DEF QueryOK, Asking
  <2> QED BY <1>3, <2>1, <2>3
<1>6. CASE QueryAgain(q) /\ ~Fail(q)
  <2> DEFINE pos == positions[d.key]
             b == [at |-> "mark", key |-> d.key, pos |-> d.pos, again |-> pos,
                   health |-> d.health, answer |-> d.answer, marks |-> d.marks,
                   kept |-> d.kept]
  <2>1. d.at = "health" /\ queries' = [queries EXCEPT ![q] = [d EXCEPT !.at = "mark", !.again = pos]]
    BY <1>6 DEF QueryAgain
  <2>2. [d EXCEPT !.at = "mark", !.again = pos] = b BY <1>2, QueryAfter
  <2>3. QueryOK(b) BY <1>2, <2>1 DEF QueryOK, IsQuery, Asking
  <2> QED BY <1>3, <2>1, <2>2, <2>3
<1>7. CASE QueryMark(q) /\ ~Fail(q)
  <2> DEFINE mark == MarkOf(d.key[2])
             health == AccountHealth(d.again, mark, Params)
             b == [at |-> "market", key |-> d.key, pos |-> d.pos, again |-> d.again,
                   health |-> health, answer |-> d.answer, marks |-> d.marks,
                   kept |-> d.kept]
  <2>1. /\ d.at = "mark" /\ mark # None
        /\ queries' = [queries EXCEPT ![q] = [d EXCEPT !.at = "market", !.health = health]]
    BY <1>7 DEF QueryMark
  <2>2. [d EXCEPT !.at = "market", !.health = health] = b BY <1>2, QueryAfter
  <2>3. d.key \in Keys /\ mark \in d.marks /\ (d.kept => d.again = d.pos)
    BY <1>2, <2>1 DEF QueryOK, Asking
  <2>4. d.key[2] \in Symbols BY <2>3 DEF Keys
  <2>5. mark \in Price BY <2>1, <2>4, MarkIsPrice
  <2>6. d.kept => \E m \in d.marks \ {None} :
                    m \in Price /\ health = AccountHealth(d.pos, m, Params)
    BY <2>1, <2>3, <2>5
  <2>7. /\ d.key \in Keys /\ d.pos \in Position /\ MarkOf(d.key[2]) \in d.marks
        /\ d.kept => positions[d.key] = d.pos
    BY <1>2, <2>1 DEF QueryOK, Asking
  <2> HIDE DEF health, mark
  <2>8. QueryOK(b) BY <2>3, <2>6, <2>7 DEF QueryOK, IsQuery, Asking
  <2> QED BY <1>3, <2>1, <2>2, <2>8
<1>8. CASE QueryMarket(q)
  <2> DEFINE answer == Score(d.health)
             b == [at |-> "answered", key |-> d.key, pos |-> d.pos, again |-> d.again,
                   health |-> d.health, answer |-> answer, marks |-> d.marks,
                   kept |-> d.kept]
  <2>1. /\ d.at = "market"
        /\ queries' = [queries EXCEPT ![q] = [d EXCEPT !.at = "answered", !.answer = answer]]
    BY <1>8 DEF QueryMarket
  <2>2. [d EXCEPT !.at = "answered", !.answer = answer] = b BY <1>2, QueryAfter
  <2>3. d.kept => \E m \in d.marks \ {None} :
                    RightVerdict(d.pos, m, answer.risk_level)
    <3>1. d.pos \in Position BY <1>2, <2>1 DEF QueryOK, Asking
    <3>2. d.kept => \E m \in d.marks \ {None} :
                      m \in Price /\ d.health = AccountHealth(d.pos, m, Params)
      BY <1>2, <2>1 DEF QueryOK
    <3> QED BY <3>1, <3>2, ScoreRight
  <2> HIDE DEF answer
  <2>4. QueryOK(b) BY <2>3 DEF QueryOK, IsQuery, Asking
  <2> QED BY <1>3, <2>1, <2>2, <2>4
<1>9. QueryAgain(q) \/ QueryMark(q) \/ QueryMarket(q) \/ \E k \in Keys : QueryPosition(q, k)
  BY DEF QueryStep, Ask
<1> QED BY <1>4, <1>5, <1>6, <1>7, <1>8, <1>9

LEMMA QueriesStep ==
  ASSUME QueryInv, TypeOK, [ServerNext]_serverVars
  PROVE  QueryInv'
<1>1. CASE EngineStep
  <2>1. queries' = [q \in Queries |-> Witnessed(queries[q])] BY <1>1 DEF EngineStep
  <2>2. queries' = [q \in Queries |-> queries'[q]] BY <2>1
  <2>3. ASSUME NEW q \in Queries PROVE QueryOK(queries[q])'
    <3>1. QueryOK(queries[q]) /\ queries'[q] = Witnessed(queries[q])
      BY <2>1 DEF QueryInv
    <3>2. \A d, b : QueryOK(d) /\ b = Witnessed(d) => QueryOK(b)'
      BY WitnessKeepsQuery
    <3> QED BY <3>1, <3>2 DEF QueryOK, IsQuery
  <2> QED BY <2>2, <2>3 DEF QueryInv
<1>2. ASSUME NEW r \in Readers, ReaderStep(r) PROVE QueryInv'
  <2>1. queries' = queries /\ positions' = positions /\ markets' = markets
    BY <1>2 DEF ReaderStep, vars
  <2> QED BY <2>1 DEF QueryInv, QueryOK, IsQuery, MarkOf, RightVerdict
<1>3. ASSUME NEW q \in Queries, QueryStep(q) PROVE QueryInv'
  BY <1>3, AskKeepsQueries
<1>4. CASE UNCHANGED serverVars
  <2>1. queries' = queries /\ positions' = positions /\ markets' = markets
    BY <1>4 DEF serverVars, vars
  <2> QED BY <2>1 DEF QueryInv, QueryOK, IsQuery, MarkOf, RightVerdict
<1> QED BY <1>1, <1>2, <1>3, <1>4 DEF ServerNext

(* For any commands, marks and port failures between its reads, a          *)
(* riskAdvice query about a position that stays is answered with the right *)
(* verdict for a mark that prevailed while it ran.                         *)
THEOREM AdviceOfSomeMark == ServerSpec => []VerdictOfSomeMark
<1>1. ServerInit => TypeOK /\ QueryInv
  <2>1. ServerInit => TypeOK BY InitType DEF ServerInit
  <2>2. QueryOK(NoQuery) BY DEF QueryOK, IsQuery, NoQuery, Asking
  <2> QED BY <2>1, <2>2 DEF ServerInit, QueryInv
<1>2. TypeOK /\ QueryInv /\ [ServerNext]_serverVars => TypeOK' /\ QueryInv'
  BY ServerStep, QueriesStep
<1>3. QueryInv => VerdictOfSomeMark
  BY DEF QueryInv, QueryOK, VerdictOfSomeMark
<1> QED BY <1>1, <1>2, <1>3, PTL DEF ServerSpec
----------------------------------------------------------------------------
(* What the alert feed tells of losses.                                    *)

(* A figure over the events shown so far, and over all that have been read.*)
ShownSum(log, d, g) ==
  SumFunctionOnSet([i \in 1 .. Len(d.shown) |-> Amount(g, log[d.shown[i]])],
                   1 .. Len(d.shown))
ReadSum(log, n, g) == SumFunctionOnSet([i \in 1 .. n |-> Amount(g, log[i])], 1 .. n)

AlertFigures == {"Liquidated", "announced"}

(* A subscription to the alert feed that has followed it from the start    *)
(* without a gap.                                                          *)
FollowsAlerts(d) == d.feed = "liquidation_alerts" /\ d.since = 0 /\ d.missed = {}

(* An event that the alert feed drops adds nothing to its figures.         *)
LEMMA DroppedAddNothing ==
  ASSUME NEW e \in Event, ~Wanted("liquidation_alerts", e), NEW g \in AlertFigures
  PROVE  Amount(g, e) = 0
<1>1. e.type \in {"PositionOpened", "PositionClosed", "MarketUpdated", "FundingSettled"}
  BY DEF Wanted, Event
<1>2. g \in Figures /\ g # "FundingSettled"
  BY DEF AlertFigures, Figures
<1> QED
  BY <1>1, <1>2, AmountOf

(* What has been sent stays where it is.                                   *)
LEMMA SumsStay ==
  ASSUME NEW d, ReadingOK(d), bus' = bus \/ \E e : bus' = Append(bus, e),
         bus \in Seq(Event), NEW g
  PROVE  /\ ShownSum(bus', d, g) = ShownSum(bus, d, g)
         /\ ReadSum(bus', d.next - 1, g) = ReadSum(bus, d.next - 1, g)
<1>1. d.next \in Nat /\ d.next <= Len(bus) + 1 /\ Len(bus) \in Nat
      /\ \A i \in 1 .. Len(d.shown) : d.shown[i] \in Nat \ {0} /\ d.shown[i] < d.next
  BY DEF ReadingOK, Reading, ShownInOrder
<1>2. \A n \in 1 .. d.next - 1 : bus'[n] = bus[n]
  BY <1>1
<1>3. \A i \in 1 .. Len(d.shown) : bus'[d.shown[i]] = bus[d.shown[i]]
  BY <1>1, <1>2
<1>4. [i \in 1 .. Len(d.shown) |-> Amount(g, bus'[d.shown[i]])]
        = [i \in 1 .. Len(d.shown) |-> Amount(g, bus[d.shown[i]])]
  BY <1>3
<1>5. [i \in 1 .. d.next - 1 |-> Amount(g, bus'[i])]
        = [i \in 1 .. d.next - 1 |-> Amount(g, bus[i])]
  BY <1>2
<1> QED
  BY <1>4, <1>5 DEF ShownSum, ReadSum

(* The next event, shown or dropped, keeps the two sums equal.             *)
LEMMA ReceiveTallies ==
  ASSUME bus \in Seq(Event), NEW d, ReadingOK(d), d.next <= Len(bus),
         d.feed = "liquidation_alerts", NEW g \in AlertFigures,
         ShownSum(bus, d, g) = ReadSum(bus, d.next - 1, g)
  PROVE  ShownSum(bus, Advanced(d), g) = ReadSum(bus, Advanced(d).next - 1, g)
<1> DEFINE n == d.next - 1
           m == Len(d.shown)
           e == bus[d.next]
           b == Advanced(d)
           f == [i \in 1 .. n |-> Amount(g, bus[i])]
           h == [i \in 1 .. n + 1 |-> Amount(g, bus[i])]
           p == [i \in 1 .. m |-> Amount(g, bus[d.shown[i]])]
           q == [i \in 1 .. m + 1 |-> Amount(g, bus[Append(d.shown, d.next)[i]])]
<1>1. /\ d.next \in Nat \ {0} /\ n \in Nat /\ m \in Nat /\ n + 1 = d.next
      /\ d.shown \in Seq(Nat \ {0}) /\ Len(bus) \in Nat
      /\ \A i \in 1 .. m : d.shown[i] \in Nat \ {0} /\ d.shown[i] < d.next
  BY DEF ReadingOK, Reading, ShownInOrder
<1>2. e \in Event /\ (\A i \in 1 .. n : bus[i] \in Event)
      /\ \A i \in 1 .. m : bus[d.shown[i]] \in Event
  <2>0. \A i \in 1 .. Len(bus) : bus[i] \in Event
    OBVIOUS
  <2>1. d.next \in 1 .. Len(bus)
    BY <1>1
  <2>2. \A i \in 1 .. n : i \in 1 .. Len(bus)
    BY <1>1
  <2>3. \A i \in 1 .. m : d.shown[i] \in 1 .. Len(bus)
    BY <1>1
  <2> QED
    BY <2>0, <2>1, <2>2, <2>3
<1>3. \A i \in 1 .. n : f[i] \in Int /\ h[i] = f[i]
  <2> SUFFICES ASSUME NEW i \in 1 .. n PROVE f[i] \in Int /\ h[i] = f[i]
    OBVIOUS
  <2>1. bus[i] \in Event /\ i \in 1 .. n + 1
    BY <1>1, <1>2
  <2> QED
    BY <2>1, AmountType
<1>4. h[n + 1] = Amount(g, e) /\ Amount(g, e) \in Int
  BY <1>1, <1>2, AmountType
<1>5. b.next - 1 = n + 1
  BY <1>1 DEF Advanced
<1>6. /\ ReadSum(bus, n, g) = SumFunctionOnSet(f, 1 .. n)
      /\ ReadSum(bus, n + 1, g) = SumFunctionOnSet(h, 1 .. n + 1)
  BY DEF ReadSum
<1> HIDE DEF f, h
<1>7. SumFunctionOnSet(h, 1 .. n + 1) = SumFunctionOnSet(f, 1 .. n) + h[n + 1]
  BY <1>1, <1>3, <1>4, SumOneMore
<1>8. ReadSum(bus, b.next - 1, g) = ShownSum(bus, d, g) + Amount(g, e)
  BY <1>4, <1>5, <1>6, <1>7
<1>9. ShownSum(bus, d, g) = SumFunctionOnSet(p, 1 .. m)
  BY DEF ShownSum
<1>10. CASE Wanted(d.feed, e)
  <2>1. b.shown = Append(d.shown, d.next)
    BY <1>10 DEF Advanced
  <2>2. Len(b.shown) = m + 1 /\ b.shown[m + 1] = d.next
        /\ \A i \in 1 .. m : b.shown[i] = d.shown[i]
    BY <1>1, <2>1
  <2>3. \A i \in 1 .. m : p[i] \in Int /\ q[i] = p[i]
    BY <1>1, <1>2, AmountType
  <2>4. q[m + 1] = Amount(g, e)
    BY <1>1
  <2>5. ShownSum(bus, b, g) = SumFunctionOnSet(q, 1 .. m + 1)
    BY <2>1, <2>2 DEF ShownSum
  <2> HIDE DEF p, q, m
  <2>6. SumFunctionOnSet(q, 1 .. m + 1) = SumFunctionOnSet(p, 1 .. m) + q[m + 1]
    BY <1>1, <1>4, <2>3, <2>4, SumOneMore
  <2> QED
    BY <1>8, <1>9, <2>4, <2>5, <2>6
<1>11. CASE ~Wanted(d.feed, e)
  <2>1. b.shown = d.shown
    BY <1>11 DEF Advanced
  <2>2. ShownSum(bus, b, g) = ShownSum(bus, d, g)
    BY <2>1 DEF ShownSum
  <2>3. Amount(g, e) = 0
    BY <1>2, <1>11, DroppedAddNothing
  <2>4. ShownSum(bus, d, g) \in Int
    <3>0. m \in Nat
      BY <1>1
    <3>2. \A i \in 1 .. m : p[i] \in Int
      BY <1>1, <1>2, AmountType
    <3> HIDE DEF p, m
    <3>1. IsFiniteSet(1 .. m)
      BY <3>0, FS_Interval
    <3> QED
      BY <1>9, <3>1, <3>2, SumInt
  <2> QED
    BY <1>8, <2>2, <2>3, <2>4
<1> QED
  BY <1>10, <1>11

Tallies(log, d) ==
  FollowsAlerts(d) => \A g \in AlertFigures : ShownSum(log, d, g) = ReadSum(log, d.next - 1, g)

AlertsTally == \A r \in Readers : readers[r] # NoFeed => Tallies(bus, readers[r])

(* A subscription's own step leaves the others alone.                      *)
LEMMA ReaderTallies ==
  ASSUME BusInv, AlertsTally, NEW r \in Readers, NEW d, Tallies(bus, d),
         readers' = [readers EXCEPT ![r] = d], bus' = bus
  PROVE  AlertsTally'
<1>1. readers'[r] = d /\ \A q \in Readers \ {r} : readers'[q] = readers[q]
  BY DEF BusInv
<1>2. \A q \in Readers : readers'[q] # NoFeed => Tallies(bus', readers'[q])
  BY <1>1 DEF AlertsTally
<1> QED
  BY <1>2 DEF AlertsTally, Tallies, FollowsAlerts, ShownSum, ReadSum, Amount

LEMMA AlertsTallyStep ==
  ASSUME BusAssumption, BusInv, AlertsTally, [BusNext]_busVars
  PROVE  AlertsTally'
<1>1. bus \in Seq(Event) /\ \A r \in Readers : readers[r] # NoFeed => ReadingOK(readers[r])
  BY DEF BusInv
<1>2. CASE readers' = readers /\ (bus' = bus \/ \E e : bus' = Append(bus, e))
  <2>1. \A d : ReadingOK(d) /\ Tallies(bus, d) => Tallies(bus', d)
    BY <1>1, <1>2, SumsStay DEF Tallies
  <2>2. \A r \in Readers : readers'[r] # NoFeed => Tallies(bus', readers'[r])
    BY <1>1, <1>2, <2>1 DEF AlertsTally
  <2> QED
    BY <2>2 DEF AlertsTally, Tallies, FollowsAlerts, ShownSum, ReadSum, Amount
<1>3. ASSUME NEW r \in Readers, NEW feed \in Feed, Subscribe(r, feed) PROVE AlertsTally'
  <2> DEFINE d == [feed |-> feed, since |-> Len(bus), next |-> Len(bus) + 1,
                   shown |-> <<>>, missed |-> {}]
  <2>1. Tallies(bus, d)
    <3> SUFFICES ASSUME FollowsAlerts(d), NEW g
                 PROVE  ShownSum(bus, d, g) = ReadSum(bus, d.next - 1, g)
      BY DEF Tallies
    <3>1. Len(bus) = 0 /\ d.next - 1 = 0 /\ Len(d.shown) = 0 /\ 1 .. 0 = {}
      BY DEF FollowsAlerts
    <3> HIDE DEF d
    <3>2. ShownSum(bus, d, g) = 0 /\ ReadSum(bus, 0, g) = 0
      BY <3>1, SumEmpty DEF ShownSum, ReadSum
    <3> QED
      BY <3>1, <3>2
  <2> HIDE DEF d
  <2>2. readers' = [readers EXCEPT ![r] = d] /\ bus' = bus
    BY <1>3 DEF Subscribe, d
  <2> QED
    BY <2>1, <2>2, ReaderTallies
<1>4. ASSUME NEW r \in Readers, Receive(r) PROVE AlertsTally'
  <2> DEFINE d == readers[r]
  <2>1. ReadingOK(d) /\ d.next <= Len(bus) /\ Tallies(bus, d)
    BY <1>1, <1>4 DEF Receive, AlertsTally
  <2>2. /\ Advanced(d).feed = d.feed /\ Advanced(d).since = d.since
        /\ Advanced(d).missed = d.missed
    BY DEF Advanced
  <2>3. Tallies(bus, Advanced(d))
    <3> HIDE DEF d
    <3> SUFFICES ASSUME FollowsAlerts(Advanced(d)), NEW g \in AlertFigures
                 PROVE  ShownSum(bus, Advanced(d), g)
                          = ReadSum(bus, Advanced(d).next - 1, g)
      BY DEF Tallies
    <3>1. FollowsAlerts(d)
      BY <2>2 DEF FollowsAlerts
    <3> QED
      BY <1>1, <2>1, <3>1, ReceiveTallies DEF Tallies, FollowsAlerts
  <2>4. readers' = [readers EXCEPT ![r] = Advanced(d)] /\ bus' = bus
    BY <1>4 DEF Receive
  <2> QED
    BY <2>3, <2>4, ReaderTallies
<1>5. ASSUME NEW r \in Readers, SkipLag(r) PROVE AlertsTally'
  <2> DEFINE d == Skipped(readers[r], Oldest)
  <2>1. d.missed # {}
    <3>1. readers[r].next \in Nat /\ readers[r].next < Oldest /\ Oldest \in Int
      BY <1>1, <1>5 DEF SkipLag, ReadingOK, Reading, Oldest, BusAssumption
    <3>2. readers[r].next \in readers[r].next .. Oldest - 1
      BY <3>1
    <3> QED
      BY <3>2 DEF Skipped
  <2>2. Tallies(bus, d)
    BY <2>1 DEF Tallies, FollowsAlerts
  <2>3. readers' = [readers EXCEPT ![r] = d] /\ bus' = bus
    BY <1>5 DEF SkipLag
  <2> HIDE DEF d
  <2> QED
    BY <2>2, <2>3, ReaderTallies
<1> QED
  BY <1>2, <1>3, <1>4, <1>5 DEF BusNext, Poll, Send, busVars

(* What the server does to its engine, the engine does by itself.          *)
THEOREM ServerRunsEngine == ServerSpec => Spec
<1>1. ServerInit => Init
  BY DEF ServerInit
<1>2. [ServerNext]_serverVars => [Next]_vars
  BY DEF ServerNext, EngineStep, ReaderStep, QueryStep, serverVars
<1> QED
  BY <1>1, <1>2, PTL DEF ServerSpec, Spec

LEMMA CaughtUp ==
  ASSUME TypeOK, BusInv, AlertsTally, StreamBehind, StreamExact
  PROVE  AlertsAccountForLosses
<1> SUFFICES ASSUME NEW r \in Readers, Quiescent, readers[r] # NoFeed,
                    FollowsAlerts(readers[r]), readers[r].next > Len(bus)
             PROVE  LET shown == [i \in 1 .. Len(readers[r].shown) |->
                                    bus[readers[r].shown[i]]] IN
                    /\ Total(shown, "Liquidated") = stats.liquidations
                    /\ book.socialized <= UsdMax =>
                         Total(shown, "announced") = book.socialized
  BY DEF AlertsAccountForLosses, FollowsAlerts
<1> DEFINE d == readers[r]
           m == Len(d.shown)
           shown == [i \in 1 .. m |-> bus[d.shown[i]]]
<1>1. ReadingOK(d) /\ bus \in Seq(Event) /\ Tallies(bus, d)
  BY DEF BusInv, AlertsTally
<1>2. d.next - 1 = Len(bus)
  BY <1>1 DEF ReadingOK, Reading
<1>3. ASSUME NEW g \in AlertFigures
      PROVE  Total(shown, g) = Total(bus, g)
  <2>1. ShownSum(bus, d, g) = ReadSum(bus, Len(bus), g)
    BY <1>1, <1>2 DEF Tallies
  <2>2. ReadSum(bus, Len(bus), g) = Total(bus, g)
    BY <1>1, TotalIsSum DEF ReadSum
  <2>3. Total(shown, g) = ShownSum(bus, d, g)
    <3> DEFINE p == [i \in 1 .. m |-> Amount(g, bus[d.shown[i]])]
    <3>1. [i \in DOMAIN shown |-> Amount(g, shown[i])] = p
      OBVIOUS
    <3>2. DOMAIN p = 1 .. m
      OBVIOUS
    <3>3. Total(shown, g) = SumFunction(p)
      BY <3>1 DEF Total
    <3>4. ShownSum(bus, d, g) = SumFunctionOnSet(p, 1 .. m)
      BY DEF ShownSum
    <3> HIDE DEF p
    <3> QED
      BY <3>2, <3>3, <3>4 DEF SumFunction
  <2> QED
    BY <2>1, <2>2, <2>3
<1>4. /\ Total(bus, "Liquidated") = stats.liquidations
      /\ book.socialized <= UsdMax => Total(bus, "announced") = book.socialized
  <2>1. {"Liquidated", "announced"} \subseteq Figures
    BY DEF Figures
  <2> QED
    BY <2>1, QuiescentTotals DEF Exact, Recorded
<1>5. {"Liquidated", "announced"} \subseteq AlertFigures
  BY DEF AlertFigures
<1> QED
  BY <1>3, <1>4, <1>5

(* While no port fails, a client that has followed the alert feed from the *)
(* start without lagging and has caught up knows of every liquidation and  *)
(* of every socialised dollar, once no command is in progress.             *)
THEOREM AlertsTellAllLosses ==
  ASSUME ~StoreMayFail, ~SinkMayFail
  PROVE  ServerSpec => []AlertsAccountForLosses
<1>1. BusInit => BusInv /\ AlertsTally
  BY BusStarts DEF BusInit, AlertsTally
<1>2. BusInv /\ AlertsTally /\ [BusNext]_busVars => BusInv' /\ AlertsTally'
  BY BusStep, AlertsTallyStep, ServerAssumption
<1>3. TypeOK /\ BusInv /\ AlertsTally /\ StreamBehind /\ StreamExact
        => AlertsAccountForLosses
  BY CaughtUp
<1> QED
  BY <1>1, <1>2, <1>3, ServerImplementsBus, ServerRunsEngine, SpecIsAny, TypeCorrect,
     StreamNeverAhead, StreamIsExact, PTL DEF BusSpec
=============================================================================
