------------------------------ MODULE EventBus ------------------------------
(***************************************************************************)
(* The broadcast bus of marginguard-infra/src/bus.rs and the subscriptions *)
(* of marginguard-api/src/subscription.rs that read it.                    *)
(*                                                                         *)
(* log is everything that has been sent, in order; the channel itself      *)
(* keeps the last Slots of it.  What is sent while nobody subscribes is    *)
(* kept nowhere, and nobody can tell: a subscription starts behind it.     *)
(* since and missed are history: where a subscription began, and the       *)
(* events its receiver reported as lagged.                                 *)
(***************************************************************************)
EXTENDS Integers, Sequences

CONSTANTS
  Event,      \* what may be sent
  Readers,    \* the subscriptions
  Slots,      \* how many events the channel keeps
  NoFeed      \* a subscription that has not begun

Feed == {"risk_events", "liquidation_alerts"}
Reading == [feed : Feed, since : Nat, next : Nat \ {0}, shown : Seq(Nat \ {0}),
            missed : SUBSET Nat]

(* What an instance must give: Server assumes it of its constants.         *)
BusAssumption == Slots \in Nat \ {0} /\ NoFeed \notin Reading

VARIABLES log, readers

busVars == <<log, readers>>

BusInit == log = <<>> /\ readers = [r \in Readers |-> NoFeed]

(* One more event has been sent.                                           *)
Send(e) == log' = Append(log, e) /\ UNCHANGED readers

Subscribe(r, feed) ==
  /\ readers[r] = NoFeed
  /\ readers' = [readers EXCEPT ![r] =
       [feed |-> feed, since |-> Len(log), next |-> Len(log) + 1,
        shown |-> <<>>, missed |-> {}]]
  /\ UNCHANGED log

(* Mutant of Wanted: the alert feed forgets auto-deleveraging.             *)
WantedLiquidationsOnly(feed, e) == feed = "risk_events" \/ e.type = "Liquidated"

Wanted(feed, e) == feed = "risk_events" \/ e.type \in {"Liquidated", "AutoDeleveraged"}

(* The first event the channel still keeps.                                *)
Oldest == IF Len(log) > Slots THEN Len(log) - Slots + 1 ELSE 1

(* A subscription past its next event, which its feed forwards or drops.   *)
Advanced(d) ==
  [feed |-> d.feed, since |-> d.since, next |-> d.next + 1,
   shown |-> IF Wanted(d.feed, log[d.next]) THEN Append(d.shown, d.next) ELSE d.shown,
   missed |-> d.missed]

(* A subscription that goes on at n without what it has not read.          *)
Skipped(d, n) ==
  [feed |-> d.feed, since |-> d.since, next |-> n, shown |-> d.shown,
   missed |-> d.missed \cup (d.next .. n - 1)]

Receive(r) ==
  /\ readers[r] # NoFeed
  /\ readers[r].next \in Oldest .. Len(log)
  /\ readers' = [readers EXCEPT ![r] = Advanced(readers[r])]
  /\ UNCHANGED log

(* Mutants of SkipLag: the stream ends at the first lagged frame; the      *)
(* receiver starts afresh at the tail.                                     *)
SkipLagEnds(r) == readers[r] # NoFeed /\ readers[r].next < Oldest /\ UNCHANGED busVars

SkipLagToTail(r) ==
  /\ readers[r] # NoFeed
  /\ readers[r].next < Oldest
  /\ readers' = [readers EXCEPT ![r] = Skipped(readers[r], Len(log) + 1)]
  /\ UNCHANGED log

(* The receiver has been overtaken: it reports the gap, which the stream   *)
(* drops, and goes on with the oldest event kept.                          *)
SkipLag(r) ==
  /\ readers[r] # NoFeed
  /\ readers[r].next < Oldest
  /\ readers' = [readers EXCEPT ![r] = Skipped(readers[r], Oldest)]
  /\ UNCHANGED log

Poll(r) == Receive(r) \/ SkipLag(r)

BusNext ==
  \/ \E e \in Event : Send(e)
  \/ \E r \in Readers : Poll(r) \/ \E feed \in Feed : Subscribe(r, feed)

BusSpec == BusInit /\ [][BusNext]_busVars

----------------------------------------------------------------------------

ShownBy(r) == {readers[r].shown[i] : i \in 1 .. Len(readers[r].shown)}

(* A subscription shows each event at most once and in the order of        *)
(* sending, none from before it began, and of all events sent since then   *)
(* that belong in its feed it has lost only ones that were overwritten     *)
(* before it got to them: the rest it has shown or has yet to read.        *)
LosesOnlyOverwritten ==
  \A r \in Readers : readers[r] # NoFeed =>
    LET d == readers[r] IN
    /\ \A i \in 1 .. Len(d.shown) - 1 : d.shown[i] < d.shown[i + 1]
    /\ \A n \in ShownBy(r) : d.since < n /\ n < d.next
    /\ \A n \in d.since + 1 .. Len(log) :
         Wanted(d.feed, log[n]) => n \in ShownBy(r) \/ n >= d.next \/ n + Slots <= Len(log)
=============================================================================
