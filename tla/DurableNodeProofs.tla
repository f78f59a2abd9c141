-------------------------- MODULE DurableNodeProofs --------------------------
(***************************************************************************)
(* Theorems of the engine over a durable store, for any accounts, markets, *)
(* commands and parameters, any number of restarts and of port failures.   *)
(***************************************************************************)
EXTENDS DurableNode, RiskEngineProofs

LEMMA OneClient == OneAtATime /\ Client \in Tasks /\ Tasks = {Client}
BY SerialAssumption, OnlyClient DEF OneAtATime

SeenOK == seen \in [Keys -> [opened : Nat, closed : Nat, settled : Nat,
                             begun : Nat, charged : Nat, done : Nat]]

(* The snapshots a command still has to visit are of different positions,  *)
(* all of them stored; a command that is about to open finds its key free. *)
SnapshotsStored == \A e \in req[Client].todo : Stored(e.key)
SnapshotsDistinct == \A d, e \in req[Client].todo : d.key = e.key => d = e
IdleHoldsNothing == pc[Client] = "idle" => req[Client].todo = {}
KeyFree == pc[Client] = "open_upsert" => ~Stored(req[Client].cur.key)

Visits == SnapshotsStored /\ SnapshotsDistinct /\ IdleHoldsNothing /\ KeyFree

DurableInv == TypeOK /\ SeenOK /\ Visits /\ SettledOnce

----------------------------------------------------------------------------
(* What the history sees of a step, with one client.                       *)

LEMMA PassedByClient ==
  ASSUME NEW k, NEW from, NEW to
  PROVE  Passed(k, from, to) <=>
           (pc[Client] = from /\ pc'[Client] = to /\ req[Client].cur.key = k)
BY OneClient DEF Passed

LEMMA HeldByClient ==
  ASSUME NEW k
  PROVE  InHand(k) <=> (pc[Client] \in {"close_mark", "liq_settle"} /\ req[Client].cur.key = k)
BY OneClient DEF InHand

LEMMA HeldByClientNext ==
  ASSUME NEW k
  PROVE  InHand(k)' <=> (pc'[Client] \in {"close_mark", "liq_settle"} /\ req'[Client].cur.key = k)
BY OneClient DEF InHand

LEMMA FlagType == \A b \in BOOLEAN : Flag(b) \in {0, 1} /\ (Flag(b) = 1 <=> b)
BY DEF Flag

LEMMA SeenStep ==
  ASSUME SeenOK, Observe
  PROVE  /\ SeenOK'
         /\ \A k \in Keys : /\ seen'[k].opened = seen[k].opened + Flag(Opens(k))
                            /\ seen'[k].closed = seen[k].closed + Flag(Closes(k))
                            /\ seen'[k].settled = seen[k].settled + Flag(Settles(k))
<1>1. ASSUME NEW k \in Keys
      PROVE  Observed(k) \in [opened : Nat, closed : Nat, settled : Nat,
                              begun : Nat, charged : Nat, done : Nat]
  <2>1. seen[k] \in [opened : Nat, closed : Nat, settled : Nat,
                     begun : Nat, charged : Nat, done : Nat]
    BY DEF SeenOK
  <2>2. \A n \in Nat, b \in BOOLEAN : n + Flag(b) \in Nat
    BY DEF Flag
  <2>3. Opens(k) \in BOOLEAN /\ Closes(k) \in BOOLEAN /\ Settles(k) \in BOOLEAN
        /\ Begins(k) \in BOOLEAN /\ Charges(k) \in BOOLEAN /\ Ends(k) \in BOOLEAN
    BY DEF Opens, Closes, Settles, Passed, Begins, Charges, Ends
  <2>4. /\ seen[k].opened + Flag(Opens(k)) \in Nat
        /\ seen[k].closed + Flag(Closes(k)) \in Nat
        /\ seen[k].settled + Flag(Settles(k)) \in Nat
        /\ seen[k].begun + Flag(Begins(k)) \in Nat
        /\ seen[k].charged + Flag(Charges(k)) \in Nat
        /\ seen[k].done + Flag(Ends(k)) \in Nat
    BY <2>1, <2>2, <2>3
  <2> QED
    BY <2>4 DEF Observed
<1>2. SeenOK'
  BY <1>1 DEF SeenOK, Observe
<1> QED
  BY <1>2 DEF Observe, Observed

(* A command ends with a position in hand: the position is lost.           *)
Drops(k) == InHand(k) /\ pc'[Client] = "idle"

(* What becomes of a key in a step: what was opened, stored or in hand is  *)
(* then paid out, settled, stored, in hand or lost.                        *)
KeyBalanced(k) ==
  Flag(Closes(k)) + Flag(Settles(k)) + Flag(Stored(k)') + Flag(InHand(k)') + Flag(Drops(k))
    = Flag(Opens(k)) + Flag(Stored(k)) + Flag(InHand(k))

Balanced == \A k \in Keys : KeyBalanced(k)

(* In a balanced step a key loses what the command drops of it.            *)
LEMMA LostStep ==
  ASSUME SeenOK, Observe, Balanced
  PROVE  \A k \in Keys : Lost(k)' = Lost(k) + Flag(Drops(k)) /\ Lost(k) \in Int
<1> SUFFICES ASSUME NEW k \in Keys PROVE Lost(k)' = Lost(k) + Flag(Drops(k)) /\ Lost(k) \in Int
  OBVIOUS
<1>1. seen[k].opened \in Nat /\ seen[k].closed \in Nat /\ seen[k].settled \in Nat
  BY DEF SeenOK
<1>2. Flag(Closes(k)) \in Int /\ Flag(Settles(k)) \in Int /\ Flag(Opens(k)) \in Int
      /\ Flag(Stored(k)) \in Int /\ Flag(InHand(k)) \in Int /\ Flag(Drops(k)) \in Int
      /\ Flag(Stored(k)') \in Int /\ Flag(InHand(k)') \in Int
  BY DEF Flag
<1>3. /\ seen'[k].opened = seen[k].opened + Flag(Opens(k))
      /\ seen'[k].closed = seen[k].closed + Flag(Closes(k))
      /\ seen'[k].settled = seen[k].settled + Flag(Settles(k))
  BY SeenStep
<1>4. Flag(Closes(k)) + Flag(Settles(k)) + Flag(Stored(k)') + Flag(InHand(k)') + Flag(Drops(k))
        = Flag(Opens(k)) + Flag(Stored(k)) + Flag(InHand(k))
  BY DEF Balanced, KeyBalanced
<1>5. /\ Lost(k) = seen[k].opened - (seen[k].closed + seen[k].settled)
                     - Flag(Stored(k)) - Flag(InHand(k))
      /\ Lost(k)' = seen'[k].opened - (seen'[k].closed + seen'[k].settled)
                     - Flag(Stored(k)') - Flag(InHand(k)')
  BY DEF Lost, Removed, Flag
<1> HIDE DEF Flag
<1> QED
  BY <1>1, <1>2, <1>3, <1>4, <1>5

(* A key has been settled once as long as nothing is lost that was not     *)
(* opened.                                                                 *)
LEMMA LostIsSpare ==
  ASSUME SeenOK
  PROVE  \A k \in Keys : Removed(k) + Flag(Stored(k)) + Flag(InHand(k)) <= seen[k].opened
                           <=> Lost(k) >= 0
<1> SUFFICES ASSUME NEW k \in Keys
             PROVE  Removed(k) + Flag(Stored(k)) + Flag(InHand(k)) <= seen[k].opened
                      <=> Lost(k) >= 0
  OBVIOUS
<1>1. /\ Flag(Stored(k)) \in Int /\ Flag(InHand(k)) \in Int
      /\ Removed(k) \in Int /\ seen[k].opened \in Int
  BY DEF Flag, SeenOK, Removed
<1> QED
  BY <1>1 DEF Lost

LEMMA BalancedSettlesOnce ==
  ASSUME SeenOK, SettledOnce, Observe, Balanced
  PROVE  SettledOnce'
<1>1. ASSUME NEW k \in Keys
      PROVE  (Removed(k) + Flag(Stored(k)) + Flag(InHand(k)) <= seen[k].opened)'
  <2>1. Lost(k) >= 0
    BY LostIsSpare DEF SettledOnce
  <2>2. Lost(k)' >= 0
    BY <2>1, LostStep DEF Flag
  <2>3. SeenOK'
    BY SeenStep
  <2>4. /\ Flag(Stored(k)') \in Int /\ Flag(InHand(k)') \in Int
        /\ Removed(k)' \in Int /\ seen'[k].opened \in Int
    BY <2>3 DEF Flag, SeenOK, Removed
  <2>5. Lost(k)' = seen'[k].opened - Removed(k)' - Flag(Stored(k)') - Flag(InHand(k)')
    BY DEF Lost, Flag
  <2> HIDE DEF Flag
  <2>6. Removed(k)' + Flag(Stored(k)') + Flag(InHand(k)') <= seen'[k].opened
    BY <2>2, <2>4, <2>5
  <2> QED
    BY <2>6 DEF Flag
<1> QED
  BY <1>1 DEF SettledOnce

(* A step that stores and removes nothing and deals with nothing; what was *)
(* in hand is still in hand or is lost.                                    *)
LEMMA QuietStep ==
  ASSUME \A k \in Keys : Stored(k)' <=> Stored(k),
         <<pc[Client], pc'[Client]>> \notin
           {<<"open_upsert", "open_count">>, <<"close_mark", "close_count">>,
            <<"liq_settle", "liq_count">>},
         pc'[Client] \notin {"close_mark", "liq_settle"},
         pc[Client] \in {"close_mark", "liq_settle"} => pc'[Client] = "idle"
  PROVE  Balanced
<1>1. ASSUME NEW k \in Keys
      PROVE  KeyBalanced(k)
  <2>1. ~Closes(k) /\ ~Settles(k) /\ ~Opens(k)
    BY PassedByClient DEF Closes, Settles, Opens
  <2>2. ~InHand(k)'
    BY HeldByClientNext
  <2>3. Drops(k) <=> InHand(k)
    BY HeldByClient DEF Drops
  <2> QED
    BY <2>1, <2>2, <2>3 DEF Flag, KeyBalanced
<1> QED
  BY <1>1 DEF Balanced

(* A step after which the command has no more to visit than before.        *)
LEMMA VisitsCarry ==
  ASSUME Visits,
         req'[Client].todo \subseteq req[Client].todo,
         \A k \in Keys : Stored(k) => Stored(k)',
         req[Client].todo \subseteq Snapshot,
         pc'[Client] = "idle" => req'[Client].todo = {},
         pc'[Client] # "open_upsert"
  PROVE  Visits'
BY DEF Visits, SnapshotsStored, SnapshotsDistinct, IdleHoldsNothing, KeyFree, Snapshot, Stored

----------------------------------------------------------------------------
(* Each step keeps the invariant.                                          *)

Keeps == Visits' /\ Balanced

LEMMA Locals ==
  ASSUME TypeOK, NEW t \in Tasks
  PROVE  /\ t = Client
         /\ req \in [Tasks -> Request] /\ pc \in [Tasks -> Labels]
         /\ req[t] \in Request /\ req[t].todo \subseteq Snapshot
BY OneClient DEF TypeOK, LocalsOK, Request

LEMMA ReplyClears ==
  ASSUME TypeOK, NEW t \in Tasks, NEW events, Reply(t, events)
  PROVE  req'[t].todo = {} /\ pc'[t] \in {"idle", "publish"}
BY Locals DEF Reply, Goto, Idle

LEMMA AbandonClears ==
  ASSUME TypeOK, NEW t \in Tasks, Abandon(t)
  PROVE  req'[t].todo = {} /\ pc'[t] = "idle"
BY Locals DEF Abandon, Goto, Idle

(* A command that returns, with the positions as they were.                *)
LEMMA ReturnKeeps ==
  ASSUME DurableInv, Observe, positions' = positions,
         req'[Client].todo = {}, pc'[Client] \in {"idle", "publish"},
         pc[Client] \in {"close_mark", "liq_settle"} => pc'[Client] = "idle"
  PROVE  Keeps
<1>1. \A k \in Keys : Stored(k)' <=> Stored(k)
  BY DEF Stored
<1>2. Balanced
  BY <1>1, QuietStep DEF DurableInv
<1>3. Visits'
  BY <1>1, OneClient, Locals, VisitsCarry DEF DurableInv
<1> QED
  BY <1>2, <1>3 DEF Keeps

LEMMA ReplyKeeps ==
  ASSUME DurableInv, Observe, positions' = positions, NEW t \in Tasks,
         pc[t] \notin {"close_mark", "liq_settle"}, NEW events, Reply(t, events)
  PROVE  Keeps
BY Locals, ReplyClears, ReturnKeeps DEF DurableInv

LEMMA AbandonKeeps ==
  ASSUME DurableInv, Observe, positions' = positions, NEW t \in Tasks, Abandon(t)
  PROVE  Keeps
BY Locals, AbandonClears, ReturnKeeps DEF DurableInv

(* A command that goes on to a label at which it has nothing in hand, with *)
(* the positions and what it has to visit as they were.                    *)
LEMMA MoveKeeps ==
  ASSUME DurableInv, Observe, positions' = positions,
         req'[Client].todo = req[Client].todo,
         pc[Client] \notin {"open_upsert", "close_mark", "liq_settle"},
         pc'[Client] \notin {"idle", "open_upsert", "close_mark", "liq_settle"}
  PROVE  Keeps
<1>1. \A k \in Keys : Stored(k)' <=> Stored(k)
  BY DEF Stored
<1>2. Balanced
  BY <1>1, QuietStep DEF DurableInv
<1>3. Visits'
  BY <1>1, OneClient, Locals, VisitsCarry DEF DurableInv
<1> QED
  BY <1>2, <1>3 DEF Keeps

(* A command that has scanned a market.                                    *)
LEMMA ScanKeeps ==
  ASSUME DurableInv, Observe, positions' = positions, NEW s,
         req'[Client].todo \subseteq ByMarket(s),
         pc[Client] \notin {"open_upsert", "close_mark", "liq_settle"},
         pc'[Client] \notin {"idle", "open_upsert", "close_mark", "liq_settle"}
  PROVE  Keeps
<1>1. \A k \in Keys : Stored(k)' <=> Stored(k)
  BY DEF Stored
<1>2. Balanced
  BY <1>1, QuietStep DEF DurableInv
<1>3. \A e \in ByMarket(s) : Stored(e.key) /\ e.pos = positions[e.key]
                            /\ e = [key |-> e.key, pos |-> positions[e.key]]
  BY DEF ByMarket, Stored
<1>4. SnapshotsStored'
  BY <1>3 DEF SnapshotsStored, Stored
<1>5. SnapshotsDistinct'
  BY <1>3 DEF SnapshotsDistinct
<1> QED
  BY <1>2, <1>4, <1>5 DEF Keeps, Visits, IdleHoldsNothing, KeyFree

LEMMA OpenGetKeeps ==
  ASSUME DurableInv, Observe, NEW t \in Tasks, NEW c \in OpenCommands, OpenGet(t, c)
  PROVE  Keeps
<1>1. /\ pc[t] = "idle" /\ pc'[t] = "open_upsert" /\ positions' = positions
      /\ req'[t].todo = req[t].todo /\ req'[t].cur.key = c.key
      /\ positions[c.key] = None
  BY Locals DEF DurableInv, OpenGet, Begin, Goto, Request
<1>2. \A k \in Keys : Stored(k)' <=> Stored(k)
  BY <1>1 DEF Stored
<1>3. Balanced
  BY <1>1, <1>2, Locals, QuietStep DEF DurableInv
<1>4. Visits'
  BY <1>1, <1>2, Locals DEF DurableInv, Visits, SnapshotsStored, SnapshotsDistinct,
     IdleHoldsNothing, KeyFree, Stored
<1> QED
  BY <1>3, <1>4 DEF Keeps

LEMMA OpenUpsertKeeps ==
  ASSUME DurableInv, Observe, NEW t \in Tasks, OpenUpsert(t)
  PROVE  Keeps
<1> DEFINE x == req[t].cur
<1>1. /\ pc[t] = "open_upsert" /\ pc'[t] = "open_count" /\ req' = req
      /\ positions' = [positions EXCEPT ![x.key] = x.pos]
  BY Locals DEF DurableInv, OpenUpsert, Goto
<1>2. x \in Snapshot
  BY <1>1, Held DEF DurableInv, HoldsPosition
<1>3. t = Client /\ x.key \in Keys /\ ~Stored(x.key)
  BY <1>1, <1>2, Locals DEF DurableInv, Visits, KeyFree, Snapshot
<1>4. positions \in [Keys -> Position \cup {None}]
  BY DEF DurableInv, TypeOK, StateOK
<1>5. \A k \in Keys \ {x.key} : Stored(k)' <=> Stored(k)
  BY <1>1, <1>4 DEF Stored
<1>6. ASSUME NEW k \in Keys
      PROVE  KeyBalanced(k)
  <2>1. ~Closes(k) /\ ~Settles(k) /\ ~InHand(k)' /\ ~InHand(k)
    BY <1>1, <1>3, PassedByClient, HeldByClient, HeldByClientNext DEF Closes, Settles
  <2>2. Opens(k) <=> k = x.key
    BY <1>1, <1>3, PassedByClient DEF Opens
  <2>3. KeyBalanced(k)
    <3>1. CASE k = x.key
      <4>1. Stored(k)'
        <5>1. x.pos \in Position /\ positions'[x.key] = x.pos
          BY <1>1, <1>2, <1>3, <1>4 DEF Snapshot
        <5> QED
          BY <3>1, <5>1, NoneIsNone DEF Stored
      <4> QED
        BY <1>3, <2>1, <2>2, <3>1, <4>1 DEF Flag, KeyBalanced, Drops
    <3>2. CASE k # x.key
      BY <1>5, <2>1, <2>2, <3>2 DEF Flag, KeyBalanced, Drops
    <3> QED
      BY <3>1, <3>2
  <2> QED
    BY <2>3
<1>7. \A k \in Keys : Stored(k) => Stored(k)'
  BY <1>3, <1>5
<1>8. Visits'
  BY <1>1, <1>3, <1>7, Locals, VisitsCarry DEF DurableInv
<1> QED
  BY <1>6, <1>8 DEF Keeps, Balanced

LEMMA CloseRemoveKeeps ==
  ASSUME DurableInv, Observe, NEW t \in Tasks, NEW j \in Keys, CloseRemove(t, j)
  PROVE  Keeps
<1>1. /\ pc[t] = "idle" /\ pc'[t] = "close_mark" /\ Stored(j)
      /\ positions' = [positions EXCEPT ![j] = None]
      /\ req'[t].todo = req[t].todo /\ req'[t].cur.key = j
  BY Locals DEF DurableInv, CloseRemove, Begin, Goto, Request, Stored
<1>2. t = Client /\ req[t].todo = {}
  BY <1>1, Locals DEF DurableInv, Visits, IdleHoldsNothing
<1>3. positions \in [Keys -> Position \cup {None}]
  BY DEF DurableInv, TypeOK, StateOK
<1>4. ~Stored(j)' /\ \A k \in Keys \ {j} : Stored(k)' <=> Stored(k)
  BY <1>1, <1>3 DEF Stored
<1>5. ASSUME NEW k \in Keys
      PROVE  KeyBalanced(k)
  <2>1. ~Opens(k) /\ ~Closes(k) /\ ~Settles(k) /\ ~InHand(k)
    BY <1>1, <1>2, PassedByClient, HeldByClient DEF Opens, Closes, Settles
  <2>2. InHand(k)' <=> k = j
    BY <1>1, <1>2, HeldByClientNext
  <2>3. KeyBalanced(k)
    <3>1. CASE k = j
      BY <1>1, <1>4, <2>1, <2>2, <3>1 DEF Flag, KeyBalanced, Drops
    <3>2. CASE k # j
      BY <1>4, <2>1, <2>2, <3>2 DEF Flag, KeyBalanced, Drops
    <3> QED
      BY <3>1, <3>2
  <2> QED
    BY <2>3
<1>6. Visits'
  BY <1>1, <1>2 DEF Visits, SnapshotsStored, SnapshotsDistinct, IdleHoldsNothing, KeyFree
<1> QED
  BY <1>5, <1>6 DEF Keeps, Balanced

(* A command that gives the position it has in hand to its account or      *)
(* settles it with the fund.                                               *)
LEMMA GiveKeeps ==
  ASSUME DurableInv, Observe, positions' = positions,
         req'[Client].todo = req[Client].todo,
         <<pc[Client], pc'[Client]>> \in
           {<<"close_mark", "close_count">>, <<"liq_settle", "liq_count">>}
  PROVE  Keeps
<1> DEFINE x == req[Client].cur.key
<1>1. \A k \in Keys : Stored(k)' <=> Stored(k)
  BY DEF Stored
<1>2. ASSUME NEW k \in Keys
      PROVE  KeyBalanced(k)
  <2>1. ~Opens(k) /\ ~InHand(k)' /\ ~(Closes(k) /\ Settles(k))
    BY PassedByClient, HeldByClientNext DEF Opens, Closes, Settles
  <2>2. (Closes(k) \/ Settles(k) <=> InHand(k)) /\ ~Drops(k)
    BY PassedByClient, HeldByClient DEF Closes, Settles, Drops
  <2>3. KeyBalanced(k)
    BY <1>1, <2>1, <2>2 DEF Flag, KeyBalanced, Drops
  <2> QED
    BY <2>3
<1>3. Visits'
  BY <1>1, OneClient, Locals, VisitsCarry DEF DurableInv
<1> QED
  BY <1>2, <1>3 DEF Keeps, Balanced

LEMMA CloseMarkKeeps ==
  ASSUME DurableInv, Observe, NEW t \in Tasks, CloseMark(t)
  PROVE  Keeps
<1>1. positions' = positions /\ pc[t] = "close_mark" /\ t = Client
  BY Locals DEF DurableInv, CloseMark
<1>2. CASE Abandon(t)
  BY <1>1, <1>2, AbandonKeeps
<1>3. CASE ~Abandon(t)
  <2>1. req'[t].todo = req[t].todo /\ pc'[t] = "close_count"
    BY <1>3, Locals DEF DurableInv, CloseMark, Goto, Request
  <2> QED
    BY <1>1, <2>1, GiveKeeps
<1> QED
  BY <1>2, <1>3

LEMMA LiqSettleKeeps ==
  ASSUME DurableInv, Observe, NEW t \in Tasks, LiqSettle(t)
  PROVE  Keeps
<1>1. positions' = positions /\ pc[t] = "liq_settle" /\ pc'[t] = "liq_count" /\ t = Client
  BY Locals DEF DurableInv, LiqSettle, Goto
<1>2. req'[t].todo = req[t].todo
  <2> DEFINE equity == PositionEquity(req[t].cur.pos, req[t].view.mark_price)
  <2>1. SettleBankrupt(t, equity) \/ SettleSolvent(t, equity)
    BY DEF LiqSettle
  <2> HIDE DEF equity
  <2>2. CASE SettleBankrupt(t, equity)
    BY <2>2, Locals DEF DurableInv, SettleBankrupt, Request
  <2>3. CASE SettleSolvent(t, equity)
    BY <2>3, Locals DEF DurableInv, SettleSolvent, Request
  <2> QED
    BY <2>1, <2>2, <2>3
<1> QED
  BY <1>1, <1>2, GiveKeeps

LEMMA FundUpsertKeeps ==
  ASSUME DurableInv, Observe, NEW t \in Tasks, FundUpsert(t)
  PROVE  Keeps
<1> DEFINE payment(e) == FundingPayment(e.pos, req[t].view.mark_price,
                                        req[t].view.funding_rate_bps)
<1>1. PICK e \in req[t].todo :
        /\ positions' = [positions EXCEPT ![e.key] = Settled(e.pos, payment(e))]
        /\ req'[t].todo = req[t].todo \ {e}
        /\ pc'[t] \in {"fund_count", "fund_upsert"}
  BY Locals DEF DurableInv, FundUpsert, Goto, Request
<1>2. pc[t] = "fund_upsert" /\ t = Client /\ e \in Snapshot
  BY Locals DEF DurableInv, FundUpsert
<1>3. positions \in [Keys -> Position \cup {None}] /\ e.key \in Keys /\ Stored(e.key)
  BY <1>2 DEF DurableInv, TypeOK, StateOK, Visits, SnapshotsStored, Snapshot
<1>4. \A k \in Keys \ {e.key} : positions'[k] = positions[k]
  BY <1>1, <1>3
<1>5. positions'[e.key] # None
  <2>1. req[t].view \in View /\ e.pos \in Position
    BY <1>2, Held DEF DurableInv, HoldsView, Snapshot
  <2>2. payment(e) \in Usd
    BY <2>1, FundingType DEF View
  <2> HIDE DEF payment
  <2>3. Settled(e.pos, payment(e)) \in Position
    BY <2>1, <2>2, SettledType
  <2>4. positions'[e.key] = Settled(e.pos, payment(e))
    BY <1>1, <1>3
  <2> QED
    BY <2>3, <2>4, NoneIsNone
<1>6. \A k \in Keys : Stored(k)' <=> Stored(k)
  BY <1>3, <1>4, <1>5 DEF Stored
<1>7. Balanced
  BY <1>1, <1>2, <1>6, QuietStep DEF DurableInv
<1>8. Visits'
  BY <1>1, <1>2, <1>6, Locals, VisitsCarry DEF DurableInv
<1> QED
  BY <1>7, <1>8 DEF Keeps

LEMMA LiqRemoveKeeps ==
  ASSUME DurableInv, Observe, NEW t \in Tasks, LiqRemove(t)
  PROVE  Keeps
<1>1. PICK e \in req[t].todo :
        /\ positions' = [positions EXCEPT ![e.key] = None]
        /\ req'[t].todo = req[t].todo \ {e} /\ req'[t].cur = e
  BY Locals DEF DurableInv, LiqRemove, Request
<1>2. pc[t] = "liq_remove" /\ pc'[t] = "liq_settle" /\ t = Client /\ e \in Snapshot
  BY Locals DEF DurableInv, LiqRemove, Goto
<1>3. positions \in [Keys -> Position \cup {None}] /\ e.key \in Keys /\ Stored(e.key)
  BY <1>2 DEF DurableInv, TypeOK, StateOK, Visits, SnapshotsStored, Snapshot
<1>4. ~Stored(e.key)' /\ \A k \in Keys \ {e.key} : Stored(k)' <=> Stored(k)
  BY <1>1, <1>3 DEF Stored
<1>5. ASSUME NEW k \in Keys
      PROVE  KeyBalanced(k)
  <2>1. ~Opens(k) /\ ~Closes(k) /\ ~Settles(k) /\ ~InHand(k)
    BY <1>2, PassedByClient, HeldByClient DEF Opens, Closes, Settles
  <2>2. InHand(k)' <=> k = e.key
    BY <1>1, <1>2, HeldByClientNext
  <2>3. KeyBalanced(k)
    <3>1. CASE k = e.key
      BY <1>3, <1>4, <2>1, <2>2, <3>1 DEF Flag, KeyBalanced, Drops
    <3>2. CASE k # e.key
      BY <1>4, <2>1, <2>2, <3>2 DEF Flag, KeyBalanced, Drops
    <3> QED
      BY <3>1, <3>2
  <2> QED
    BY <2>3
<1>6. SnapshotsStored'
  <2>1. \A d \in req'[Client].todo : d \in req[Client].todo /\ d.key # e.key
    BY <1>1, <1>2 DEF DurableInv, Visits, SnapshotsDistinct
  <2>2. \A d \in req'[Client].todo : Stored(d.key) /\ d.key \in Keys
    BY <2>1, <1>2, Locals DEF DurableInv, Visits, SnapshotsStored, Snapshot
  <2> QED
    BY <1>4, <2>1, <2>2 DEF SnapshotsStored, Stored
<1>7. Visits'
  BY <1>1, <1>2, <1>6 DEF DurableInv, Visits, SnapshotsDistinct, IdleHoldsNothing, KeyFree
<1> QED
  BY <1>5, <1>7 DEF Keeps, Balanced

LEMMA StartKeeps ==
  ASSUME DurableInv, Observe, NEW t \in Tasks, Start(t)
  PROVE  Keeps
<1>1. ASSUME NEW c \in OpenCommands, OpenGet(t, c) PROVE Keeps
  BY <1>1, OpenGetKeeps
<1>2. ASSUME NEW k \in Keys, CloseRemove(t, k) PROVE Keeps
  BY <1>2, CloseRemoveKeeps
<1>3. ASSUME NEW u \in MarketUpdates, UpdateMarket(t, u) PROVE Keeps
  <2>1. positions' = positions /\ pc[t] = "idle" /\ \E events : Reply(t, events)
    BY <1>3 DEF UpdateMarket, Begin
  <2> QED
    BY <2>1, ReplyKeeps
<1>4. ASSUME NEW s \in Symbols, FundMarket(t, s) \/ LiqMarket(t, s) PROVE Keeps
  <2>1. /\ positions' = positions /\ req'[t].todo = req[t].todo /\ pc[t] = "idle"
        /\ pc'[t] \in {"fund_scan", "liq_scan"} /\ t = Client
    BY <1>4, Locals DEF DurableInv, FundMarket, LiqMarket, Begin, Goto, Request
  <2> QED
    BY <2>1, MoveKeeps
<1> QED
  BY <1>1, <1>2, <1>3, <1>4 DEF Start

(* The steps of a command in progress that have no lemma of their own.     *)
LEMMA FundScanKeeps ==
  ASSUME DurableInv, Observe, NEW t \in Tasks, FundScan(t)
  PROVE  Keeps
<1>1. positions' = positions /\ pc[t] = "fund_scan" /\ t = Client
  BY Locals DEF DurableInv, FundScan
<1>2. CASE Reply(t, <<>>)
  BY <1>1, <1>2, ReplyKeeps
<1>3. CASE ~Reply(t, <<>>)
  <2>1. req'[t].todo = ByMarket(req[t].view.symbol) /\ pc'[t] = "fund_upsert"
    BY <1>3, Locals DEF DurableInv, FundScan, Goto, Request
  <2> QED
    BY <1>1, <2>1, ScanKeeps
<1> QED
  BY <1>2, <1>3

LEMMA LiqScanKeeps ==
  ASSUME DurableInv, Observe, NEW t \in Tasks, LiqScan(t)
  PROVE  Keeps
<1>1. positions' = positions /\ pc[t] = "liq_scan" /\ t = Client
  BY Locals DEF DurableInv, LiqScan
<1>2. CASE Reply(t, <<>>)
  BY <1>1, <1>2, ReplyKeeps
<1>3. CASE ~Reply(t, <<>>)
  <2>1. /\ req'[t].todo = Underwater(ByMarket(req[t].view.symbol), req[t].view.mark_price)
        /\ pc'[t] = "liq_remove"
    BY <1>3, Locals DEF DurableInv, LiqScan, Goto, Request
  <2>2. req'[t].todo \subseteq ByMarket(req[t].view.symbol)
    BY <2>1 DEF Underwater
  <2> QED
    BY <1>1, <2>1, <2>2, ScanKeeps
<1> QED
  BY <1>2, <1>3

LEMMA LiqCountKeeps ==
  ASSUME DurableInv, Observe, NEW t \in Tasks, LiqCount(t)
  PROVE  Keeps
<1>1. /\ positions' = positions /\ pc[t] = "liq_count" /\ t = Client
      /\ pc'[t] \in {"liq_finish", "liq_remove"} /\ req' = req
  BY Locals DEF DurableInv, LiqCount, Goto
<1> QED
  BY <1>1, MoveKeeps

LEMMA PublishKeeps ==
  ASSUME DurableInv, Observe, NEW t \in Tasks, Publish(t)
  PROVE  Keeps
<1>1. positions' = positions /\ pc[t] = "publish" /\ t = Client
  BY Locals DEF DurableInv, Publish
<1>2. CASE Abandon(t)
  BY <1>1, <1>2, AbandonKeeps
<1>3. CASE ~Abandon(t)
  <2>1. req'[t].todo = req[t].todo /\ pc' = pc
    BY <1>3, Locals DEF DurableInv, Publish, Request
  <2> QED
    BY <1>1, <2>1, MoveKeeps
<1> QED
  BY <1>2, <1>3

LEMMA RepliesKeep ==
  ASSUME DurableInv, Observe, NEW t \in Tasks,
         OpenCount(t) \/ CloseCount(t) \/ FundCount(t) \/ LiqFinish(t)
  PROVE  Keeps
<1>1. /\ positions' = positions /\ \E events : Reply(t, events)
      /\ pc[t] \notin {"close_mark", "liq_settle"}
  BY DEF OpenCount, CloseCount, FundCount, LiqFinish
<1> QED
  BY <1>1, ReplyKeeps

LEMMA ContinueKeeps ==
  ASSUME DurableInv, Observe, NEW t \in Tasks, Continue(t)
  PROVE  Keeps
BY OpenUpsertKeeps, CloseMarkKeeps, FundScanKeeps, FundUpsertKeeps, LiqScanKeeps,
   LiqRemoveKeeps, LiqSettleKeeps, LiqCountKeeps, PublishKeeps, RepliesKeep DEF Continue

LEMMA PortFailsKeeps ==
  ASSUME DurableInv, PortFails
  PROVE  Keeps
<1>1. PICK t \in Tasks : Abandon(t) /\ positions' = positions
  BY DEF PortFails, StoreFails, SinkFails
<1> QED
  BY <1>1, AbandonKeeps DEF PortFails

(* A process that starts again has nothing in hand and nothing to visit.   *)
LEMMA BootKeeps ==
  ASSUME DurableInv, Boot
  PROVE  TypeOK' /\ SeenOK' /\ Visits' /\ SettledOnce'
<1>1. insurance' \in Usd /\ stats' \in [open_positions : Nat, liquidations : Nat,
                                        funding_settlements : Nat, adl_events : Nat]
  BY MathAssumption, EngineAssumption DEF Boot, Usd, UsdMin, NoStats
<1>2. StateOK'
  BY <1>1 DEF DurableInv, TypeOK, StateOK, Boot, EnsureSchema
<1>3. LocalsOK'
  BY IdleType DEF Boot, LocalsOK, HoldsWhatItReads, HoldsView, HoldsPosition, Labels
<1>4. pc'[Client] = "idle" /\ req'[Client].todo = {}
  BY OneClient DEF Boot, Idle
<1>5. \A k \in Keys : Stored(k)' <=> Stored(k)
  BY DEF Boot, EnsureSchema, Stored
<1>6. Visits'
  BY <1>4, <1>5, OneClient, Locals, VisitsCarry DEF DurableInv
<1>7. ASSUME NEW k \in Keys
      PROVE  (Removed(k) + Flag(Stored(k)) + Flag(InHand(k)) <= seen[k].opened)'
  <2>1. ~InHand(k)'
    BY <1>4, HeldByClientNext
  <2>2. Removed(k)' = Removed(k) /\ seen' = seen
    BY DEF Boot, Removed
  <2>3. Flag(Stored(k)') = Flag(Stored(k)) /\ Flag(InHand(k)') = 0
        /\ Flag(InHand(k)) \in {0, 1} /\ Flag(Stored(k)) \in {0, 1}
    BY <1>5, <2>1 DEF Flag
  <2>4. Removed(k) + Flag(Stored(k)) + Flag(InHand(k)) <= seen[k].opened
    BY DEF DurableInv, SettledOnce
  <2>5. Removed(k) \in Nat /\ seen[k].opened \in Nat
    BY DEF DurableInv, SeenOK, Removed
  <2>6. Removed(k)' + Flag(Stored(k)') + Flag(InHand(k)') <= seen'[k].opened
    BY <2>2, <2>3, <2>4, <2>5
  <2> QED
    BY <2>6 DEF Flag
<1>8. SeenOK'
  BY DEF DurableInv, SeenOK, Boot
<1> QED
  BY <1>2, <1>3, <1>6, <1>7, <1>8 DEF TypeOK, SettledOnce

LEMMA DurableStarts == DurableInit => DurableInv
<1> SUFFICES ASSUME DurableInit PROVE DurableInv
  OBVIOUS
<1>1. TypeOK
  BY InitType DEF DurableInit
<1>2. SeenOK
  BY DEF DurableInit, SeenOK, Unseen
<1>3. pc[Client] = "idle" /\ req[Client].todo = {} /\ \A k \in Keys : ~Stored(k)
  BY OneClient DEF DurableInit, Init, Idle, Stored
<1>4. Visits
  BY <1>3 DEF Visits, SnapshotsStored, SnapshotsDistinct, IdleHoldsNothing, KeyFree
<1>5. SettledOnce
  BY <1>3, HeldByClient DEF SettledOnce, Removed, Flag, DurableInit, Unseen
<1> QED
  BY <1>1, <1>2, <1>4, <1>5 DEF DurableInv

LEMMA DurableStep == DurableInv /\ [DurableNext]_durableVars => DurableInv'
<1> SUFFICES ASSUME DurableInv, [DurableNext]_durableVars PROVE DurableInv'
  OBVIOUS
<1>1. CASE Proceed
  <2>1. PICK t \in Tasks : Start(t) \/ Continue(t)
    BY <1>1 DEF Proceed
  <2>2. TypeOK'
    BY <2>1, StepType, NextIsAny DEF DurableInv, Next
  <2>3. SeenOK'
    BY <1>1, SeenStep DEF DurableInv, Proceed
  <2>4. Keeps
    BY <1>1, <2>1, StartKeeps, ContinueKeeps DEF Proceed
  <2> QED
    BY <1>1, <2>2, <2>3, <2>4, BalancedSettlesOnce DEF DurableInv, Keeps, Proceed
<1>2. CASE PortFails
  <2>1. TypeOK'
    BY <1>2, StepType, NextIsAny DEF DurableInv, Next, PortFails
  <2>2. SeenOK'
    BY <1>2, SeenStep DEF DurableInv, PortFails
  <2> QED
    BY <1>2, <2>1, <2>2, PortFailsKeeps, BalancedSettlesOnce DEF DurableInv, Keeps, PortFails
<1>3. CASE Boot
  BY <1>3, BootKeeps DEF DurableInv
<1>4. CASE UNCHANGED durableVars
  <2>1. TypeOK'
    BY <1>4, StutterType DEF DurableInv, durableVars
  <2> QED
    BY <1>4, <2>1 DEF DurableInv, durableVars, vars, SeenOK, Visits, SnapshotsStored,
       SnapshotsDistinct, IdleHoldsNothing, KeyFree, Stored, SettledOnce, Removed, Flag, InHand
<1>5. CASE Done /\ UNCHANGED <<restarts, faults, seen>>
  BY <1>4, <1>5 DEF Done, durableVars
<1> QED
  BY <1>1, <1>2, <1>3, <1>4, <1>5 DEF DurableNext, ShutDown, Crash

LEMMA DurableInvariant == DurableSpec => []DurableInv
<1> QED
  BY DurableStarts, DurableStep, PTL DEF DurableSpec

----------------------------------------------------------------------------
(* Funding ticks.                                                          *)

Began(k) == seen[k].begun
Charged(k) == seen[k].charged
Finished(k) == seen[k].done

InView(k) == k[2] = req[Client].view.symbol

(* Where a tick is, each position of its market is still to be charged by  *)
(* it or has been charged by it.                                           *)
ToCharge(k) == Charged(k) + 1 <= Began(k)
HasCharged(k) == Finished(k) + 1 <= Charged(k)

ScanToCharge ==
  pc[Client] = "fund_scan" =>
    \A k \in Keys : Stored(k) /\ InView(k) => ToCharge(k)
TodoToCharge ==
  pc[Client] = "fund_upsert" => \A e \in req[Client].todo : ToCharge(e.key)
RestHasCharged ==
  pc[Client] = "fund_upsert" =>
    \A k \in Keys : Stored(k) /\ InView(k) =>
      (\E e \in req[Client].todo : e.key = k) \/ HasCharged(k)
AllHasCharged ==
  pc[Client] = "fund_count" =>
    \A k \in Keys : Stored(k) /\ InView(k) => HasCharged(k)

TickInv ==
  ChargedOncePerAttempt /\ ScanToCharge /\ TodoToCharge /\ RestHasCharged /\ AllHasCharged

BeginsNow(k) ==
  pc[Client] = "idle" /\ pc'[Client] = "fund_scan" /\ req'[Client].view.symbol = k[2]
ChargesNow(k) ==
  /\ pc[Client] = "fund_upsert" /\ pc'[Client] \in {"fund_upsert", "fund_count"}
  /\ \E e \in req[Client].todo \ req'[Client].todo : e.key = k
EndsNow(k) == pc[Client] = "fund_count" /\ pc'[Client] = "publish" /\ InView(k)

LEMMA TicksByClient ==
  ASSUME NEW k
  PROVE  /\ Begins(k) <=> BeginsNow(k)
         /\ Charges(k) <=> ChargesNow(k)
         /\ Ends(k) <=> EndsNow(k)
BY OneClient DEF Begins, Charges, Ends, BeginsNow, ChargesNow, EndsNow, InView

LEMMA TickTypes ==
  ASSUME SeenOK, NEW k \in Keys
  PROVE  Began(k) \in Nat /\ Charged(k) \in Nat /\ Finished(k) \in Nat
BY DEF SeenOK, Began, Charged, Finished

LEMMA SeenTickStep ==
  ASSUME SeenOK, Observe, NEW k \in Keys
  PROVE  /\ Opens(k) => Began(k)' = 0 /\ Charged(k)' = 0 /\ Finished(k)' = 0
         /\ ~Opens(k) =>
              /\ Began(k)' = IF BeginsNow(k) THEN Began(k) + 1 ELSE Began(k)
              /\ Charged(k)' = IF ChargesNow(k) THEN Charged(k) + 1 ELSE Charged(k)
              /\ Finished(k)' = IF EndsNow(k) THEN Finished(k) + 1 ELSE Finished(k)
<1>1. seen'[k] = Observed(k)
  BY DEF Observe
<1>2. Began(k) \in Nat /\ Charged(k) \in Nat /\ Finished(k) \in Nat
  BY TickTypes
<1> QED
  BY <1>1, <1>2, TicksByClient DEF Observed, Flag, Began, Charged, Finished

(* A step that neither begins a tick, nor goes on with one, nor opens.     *)
LEMMA UntickedStep ==
  ASSUME SeenOK, TickInv, Observe,
         \A k \in Keys : Stored(k)' => Stored(k),
         pc[Client] # "open_upsert" \/ pc'[Client] # "open_count",
         pc'[Client] \notin {"fund_scan", "fund_upsert", "fund_count"}
  PROVE  TickInv'
<1>1. ASSUME NEW k \in Keys, Stored(k)'
      PROVE  Charged(k)' <= Began(k)' /\ Finished(k)' <= Charged(k)'
  <2>1. ~Opens(k) /\ ~BeginsNow(k) /\ ~ChargesNow(k)
    BY PassedByClient DEF Opens, BeginsNow, ChargesNow
  <2>2. Charged(k) <= Began(k) /\ Finished(k) <= Charged(k)
    BY <1>1 DEF TickInv, ChargedOncePerAttempt, Charged, Began, Finished
  <2>3. EndsNow(k) => HasCharged(k)
    BY <1>1 DEF EndsNow, TickInv, AllHasCharged
  <2>4. Charged(k)' = Charged(k) /\ Began(k)' = Began(k)
        /\ Finished(k)' = IF EndsNow(k) THEN Finished(k) + 1 ELSE Finished(k)
    BY <2>1, SeenTickStep
  <2> QED
    BY <2>2, <2>3, <2>4, TickTypes DEF HasCharged
<1>2. ChargedOncePerAttempt'
  BY <1>1 DEF ChargedOncePerAttempt, Charged, Began, Finished
<1> QED
  BY <1>2 DEF TickInv, ScanToCharge, TodoToCharge, RestHasCharged, AllHasCharged

LEMMA OpenUpsertTicks ==
  ASSUME DurableInv, TickInv, Observe, NEW t \in Tasks, OpenUpsert(t)
  PROVE  TickInv'
<1> DEFINE x == req[t].cur
<1>1. /\ pc[t] = "open_upsert" /\ pc'[t] = "open_count" /\ t = Client
      /\ positions' = [positions EXCEPT ![x.key] = x.pos]
  BY Locals DEF DurableInv, OpenUpsert, Goto
<1>2. positions \in [Keys -> Position \cup {None}]
  BY DEF DurableInv, TypeOK, StateOK
<1>3. ASSUME NEW k \in Keys, Stored(k)'
      PROVE  Charged(k)' <= Began(k)' /\ Finished(k)' <= Charged(k)'
  <2>1. CASE Opens(k)
    BY <2>1, SeenTickStep DEF DurableInv
  <2>2. CASE ~Opens(k)
    <3>1. k # x.key
      BY <1>1, <2>2, PassedByClient DEF Opens
    <3>2. Stored(k)
      BY <1>1, <1>2, <1>3, <3>1 DEF Stored
    <3>3. ~BeginsNow(k) /\ ~ChargesNow(k) /\ ~EndsNow(k)
      BY <1>1 DEF BeginsNow, ChargesNow, EndsNow
    <3>4. Charged(k) <= Began(k) /\ Finished(k) <= Charged(k)
      BY <3>2 DEF TickInv, ChargedOncePerAttempt, Charged, Began, Finished
    <3> QED
      BY <2>2, <3>3, <3>4, SeenTickStep DEF DurableInv
  <2> QED
    BY <2>1, <2>2
<1>4. ChargedOncePerAttempt'
  BY <1>3 DEF ChargedOncePerAttempt, Charged, Began, Finished
<1> QED
  BY <1>1, <1>4 DEF TickInv, ScanToCharge, TodoToCharge, RestHasCharged, AllHasCharged

LEMMA FundMarketTicks ==
  ASSUME DurableInv, TickInv, Observe, NEW t \in Tasks, NEW s \in Symbols, FundMarket(t, s)
  PROVE  TickInv'
<1>1. /\ pc[t] = "idle" /\ pc'[t] = "fund_scan" /\ t = Client
      /\ positions' = positions /\ req'[t].view.symbol = s
  BY Locals DEF DurableInv, FundMarket, Begin, Goto, Request, ViewOf
<1>2. ASSUME NEW k \in Keys, Stored(k)'
      PROVE  /\ Charged(k)' <= Began(k)' /\ Finished(k)' <= Charged(k)'
             /\ InView(k)' => ToCharge(k)'
  <2>1. Stored(k)
    BY <1>1, <1>2 DEF Stored
  <2>2. ~Opens(k) /\ ~ChargesNow(k) /\ ~EndsNow(k)
    BY <1>1, PassedByClient DEF Opens, ChargesNow, EndsNow
  <2>3. BeginsNow(k) <=> InView(k)'
    BY <1>1 DEF BeginsNow, InView
  <2>4. Charged(k) <= Began(k) /\ Finished(k) <= Charged(k)
    BY <2>1 DEF TickInv, ChargedOncePerAttempt, Charged, Began, Finished
  <2>5. Charged(k)' = Charged(k) /\ Finished(k)' = Finished(k)
        /\ Began(k)' = IF BeginsNow(k) THEN Began(k) + 1 ELSE Began(k)
    BY <2>2, SeenTickStep DEF DurableInv
  <2>6. Began(k) \in Nat /\ Charged(k) \in Nat /\ Finished(k) \in Nat
    BY TickTypes DEF DurableInv
  <2>7. Charged(k)' <= Began(k)' /\ Finished(k)' <= Charged(k)'
    BY <2>4, <2>5, <2>6
  <2>8. BeginsNow(k) => Charged(k)' + 1 <= Began(k)'
    BY <2>4, <2>5, <2>6
  <2> QED
    BY <2>3, <2>7, <2>8 DEF ToCharge
<1>3. ChargedOncePerAttempt'
  BY <1>2 DEF ChargedOncePerAttempt, Charged, Began, Finished
<1>4. ScanToCharge'
  BY <1>2 DEF ScanToCharge
<1> QED
  BY <1>1, <1>3, <1>4 DEF TickInv, TodoToCharge, RestHasCharged, AllHasCharged

LEMMA FundScanTicks ==
  ASSUME DurableInv, TickInv, Observe, NEW t \in Tasks, FundScan(t)
  PROVE  TickInv'
<1>1. positions' = positions /\ pc[t] = "fund_scan" /\ t = Client
  BY Locals DEF DurableInv, FundScan
<1>2. \A k \in Keys : Stored(k)' <=> Stored(k)
  BY <1>1 DEF Stored
<1>3. CASE Reply(t, <<>>)
  BY <1>1, <1>2, <1>3, ReplyClears, UntickedStep DEF DurableInv
<1>4. CASE ~Reply(t, <<>>)
  <2>1. /\ req'[t].todo = ByMarket(req[t].view.symbol) /\ pc'[t] = "fund_upsert"
        /\ req'[t].view = req[t].view
    BY <1>4, Locals DEF DurableInv, FundScan, Goto, Request
  <2>2. ASSUME NEW k \in Keys
        PROVE  Charged(k)' = Charged(k) /\ Began(k)' = Began(k) /\ Finished(k)' = Finished(k)
    <3>1. ~Opens(k) /\ ~BeginsNow(k) /\ ~ChargesNow(k) /\ ~EndsNow(k)
      BY <1>1, PassedByClient DEF Opens, BeginsNow, ChargesNow, EndsNow
    <3> QED
      BY <3>1, SeenTickStep DEF DurableInv
  <2>3. ChargedOncePerAttempt'
    BY <1>2, <2>2 DEF TickInv, ChargedOncePerAttempt, Charged, Began, Finished
  <2>4. \A e \in req'[Client].todo : e.key \in Keys /\ Stored(e.key) /\ InView(e.key)
    BY <1>1, <2>1 DEF ByMarket, Stored, InView
  <2>5. TodoToCharge'
    <3> SUFFICES ASSUME NEW e \in req'[Client].todo PROVE ToCharge(e.key)'
      BY DEF TodoToCharge
    <3>1. ToCharge(e.key)
      BY <1>1, <2>4 DEF TickInv, ScanToCharge
    <3> QED
      BY <2>2, <2>4, <3>1 DEF ToCharge
  <2>6. RestHasCharged'
    <3> SUFFICES ASSUME NEW k \in Keys, Stored(k)', InView(k)'
                 PROVE  \E e \in req'[Client].todo : e.key = k
      BY DEF RestHasCharged
    <3>1. Stored(k) /\ InView(k)
      BY <1>1, <1>2, <2>1 DEF InView
    <3>2. [key |-> k, pos |-> positions[k]] \in req'[Client].todo
      BY <1>1, <2>1, <3>1 DEF ByMarket, Stored, InView
    <3> QED
      BY <3>2
  <2> QED
    BY <1>1, <2>1, <2>3, <2>5, <2>6 DEF TickInv, ScanToCharge, AllHasCharged
<1> QED
  BY <1>3, <1>4

LEMMA FundUpsertTicks ==
  ASSUME DurableInv, TickInv, Observe, NEW t \in Tasks, FundUpsert(t)
  PROVE  TickInv'
<1>1. PICK e \in req[t].todo :
        /\ req'[t].todo = req[t].todo \ {e} /\ req'[t].view = req[t].view
        /\ pc'[t] = IF req[t].todo \ {e} = {} THEN "fund_count" ELSE "fund_upsert"
        /\ \A k \in Keys \ {e.key} : positions'[k] = positions[k]
  <2>1. positions \in [Keys -> Position \cup {None}]
    BY DEF DurableInv, TypeOK, StateOK
  <2> QED
    BY <2>1, Locals DEF DurableInv, FundUpsert, Goto, Request
<1>2. pc[t] = "fund_upsert" /\ t = Client /\ e \in Snapshot
  BY Locals DEF DurableInv, FundUpsert
<1>3. e.key \in Keys /\ Stored(e.key)
  BY <1>2 DEF DurableInv, Visits, SnapshotsStored, Snapshot
<1>4. \A k \in Keys : Stored(k)' => Stored(k)
  BY <1>1, <1>3 DEF Stored
<1>5. \A k \in Keys : ~Opens(k) /\ ~BeginsNow(k) /\ ~EndsNow(k)
  BY <1>2, PassedByClient DEF Opens, BeginsNow, EndsNow
<1>6. \A k : ChargesNow(k) <=> k = e.key
  BY <1>1, <1>2 DEF ChargesNow
<1>7. \A k \in Keys : /\ Began(k)' = Began(k) /\ Finished(k)' = Finished(k)
                      /\ Charged(k)' = IF k = e.key THEN Charged(k) + 1 ELSE Charged(k)
  BY <1>5, <1>6, SeenTickStep DEF DurableInv
<1>8. \A k \in Keys : Began(k) \in Nat /\ Charged(k) \in Nat /\ Finished(k) \in Nat
  BY TickTypes DEF DurableInv
<1>9. \A k \in Keys : Stored(k) => Charged(k) <= Began(k) /\ Finished(k) <= Charged(k)
  BY DEF TickInv, ChargedOncePerAttempt, Charged, Began, Finished
<1>10. \A d \in req[Client].todo : ToCharge(d.key)
  BY <1>2 DEF TickInv, TodoToCharge
<1>11. ChargedOncePerAttempt'
  <2> SUFFICES ASSUME NEW k \in Keys, Stored(k)'
               PROVE  Charged(k)' <= Began(k)' /\ Finished(k)' <= Charged(k)'
    BY DEF ChargedOncePerAttempt, Charged, Began, Finished
  <2>1. Charged(k) <= Began(k) /\ Finished(k) <= Charged(k)
    BY <1>4, <1>9
  <2>2. k = e.key => Charged(k) + 1 <= Began(k)
    BY <1>2, <1>10 DEF ToCharge
  <2> QED
    BY <1>7, <1>8, <2>1, <2>2
<1>12. HasCharged(e.key)'
  BY <1>3, <1>7, <1>8, <1>9 DEF HasCharged
<1>13. \A k \in Keys \ {e.key} : HasCharged(k) => HasCharged(k)'
  BY <1>7 DEF HasCharged
<1>14. TodoToCharge'
  <2> SUFFICES ASSUME NEW d \in req'[Client].todo PROVE ToCharge(d.key)'
    BY DEF TodoToCharge
  <2>1. d \in req[Client].todo /\ d.key # e.key /\ d.key \in Keys
    BY <1>1, <1>2, Locals DEF DurableInv, Visits, SnapshotsDistinct, Snapshot
  <2> QED
    BY <1>7, <1>10, <2>1 DEF ToCharge
<1>15. ASSUME NEW k \in Keys, Stored(k)', InView(k)'
       PROVE  (\E d \in req'[Client].todo : d.key = k) \/ HasCharged(k)'
  <2>1. Stored(k) /\ InView(k)
    BY <1>1, <1>2, <1>4, <1>15 DEF InView
  <2>2. (\E d \in req[Client].todo : d.key = k) \/ HasCharged(k)
    BY <1>2, <2>1 DEF TickInv, RestHasCharged
  <2>3. CASE k = e.key
    BY <1>12, <2>3
  <2>4. CASE k # e.key
    BY <1>1, <1>2, <1>13, <2>2, <2>4
  <2> QED
    BY <2>3, <2>4
<1>16. RestHasCharged'
  BY <1>15 DEF RestHasCharged
<1>17. AllHasCharged'
  <2> SUFFICES ASSUME pc'[Client] = "fund_count", NEW k \in Keys, Stored(k)', InView(k)'
               PROVE  HasCharged(k)'
    BY DEF AllHasCharged
  <2>1. req'[Client].todo = {}
    BY <1>1, <1>2
  <2> QED
    BY <1>15, <2>1
<1>18. pc'[Client] # "fund_scan"
  BY <1>1, <1>2
<1> QED
  BY <1>11, <1>14, <1>16, <1>17, <1>18 DEF TickInv, ScanToCharge

(* The other steps of a command.                                           *)
LEMMA OtherTicks ==
  ASSUME DurableInv, TickInv, Observe, NEW t \in Tasks,
         \/ \E c \in OpenCommands : OpenGet(t, c)
         \/ \E k \in Keys : CloseRemove(t, k)
         \/ \E u \in MarketUpdates : UpdateMarket(t, u)
         \/ \E s \in Symbols : LiqMarket(t, s)
         \/ OpenCount(t) \/ CloseMark(t) \/ CloseCount(t) \/ FundCount(t)
         \/ LiqScan(t) \/ LiqRemove(t) \/ LiqSettle(t) \/ LiqCount(t) \/ LiqFinish(t)
         \/ Publish(t) \/ StoreFails(t) \/ SinkFails(t)
  PROVE  TickInv'
<1>1. positions \in [Keys -> Position \cup {None}] /\ t = Client
  BY Locals DEF DurableInv, TypeOK, StateOK
<1>2. pc \in [Tasks -> Labels]
  BY Locals DEF DurableInv
<1>3. \A k \in Keys : Stored(k)' => Stored(k)
  <2>1. CASE positions' = positions
    BY <2>1 DEF Stored
  <2>2. CASE \E k \in Keys : CloseRemove(t, k)
    BY <1>1, <2>2 DEF CloseRemove, Stored
  <2>3. CASE LiqRemove(t)
    BY <1>1, <2>3 DEF LiqRemove, Stored
  <2> QED
    BY <2>1, <2>2, <2>3 DEF OpenGet, UpdateMarket, LiqMarket, OpenCount, CloseMark,
       CloseCount, FundCount, LiqScan, LiqSettle, LiqCount, LiqFinish, Publish,
       StoreFails, SinkFails
<1>4. CASE (\E events : Reply(t, events)) \/ Abandon(t)
  <2>1. pc'[Client] \in {"idle", "publish"}
    BY <1>1, <1>4, ReplyClears, AbandonClears DEF DurableInv
  <2> QED
    BY <1>3, <2>1, UntickedStep DEF DurableInv
<1>5. CASE ~((\E events : Reply(t, events)) \/ Abandon(t))
  <2>1. pc'[Client] \notin {"fund_scan", "fund_upsert", "fund_count", "open_count"}
    BY <1>1, <1>2, <1>5 DEF OpenGet, CloseRemove, UpdateMarket, LiqMarket, OpenCount, CloseMark,
       CloseCount, FundCount, LiqScan, LiqRemove, LiqSettle, LiqCount, LiqFinish, Publish,
       StoreFails, SinkFails, Goto
  <2> QED
    BY <1>3, <2>1, UntickedStep DEF DurableInv
<1> QED
  BY <1>4, <1>5

LEMMA BootTicks ==
  ASSUME DurableInv, TickInv, Boot
  PROVE  TickInv'
<1>1. pc'[Client] = "idle"
  BY OneClient DEF Boot
<1>2. ChargedOncePerAttempt'
  BY DEF Boot, EnsureSchema, Stored, TickInv, ChargedOncePerAttempt
<1> QED
  BY <1>1, <1>2 DEF TickInv, ScanToCharge, TodoToCharge, RestHasCharged, AllHasCharged

(* Whatever fails, crashes or is sent again, an attempt at an accrual      *)
(* charges a position at most once, and one that ends charges it.          *)
THEOREM FundingChargedOnce == DurableSpec => []ChargedOncePerAttempt
<1>1. DurableInit => TickInv
  <2> SUFFICES ASSUME DurableInit PROVE TickInv
    OBVIOUS
  <2>1. pc[Client] = "idle" /\ \A k \in Keys : ~Stored(k)
    BY OneClient DEF DurableInit, Init, Stored
  <2> QED
    BY <2>1 DEF TickInv, ChargedOncePerAttempt, ScanToCharge, TodoToCharge,
       RestHasCharged, AllHasCharged
<1>2. DurableInv /\ TickInv /\ [DurableNext]_durableVars => TickInv'
  <2> SUFFICES ASSUME DurableInv, TickInv, [DurableNext]_durableVars PROVE TickInv'
    OBVIOUS
  <2>1. CASE Proceed
    <3>1. Observe /\ \E t \in Tasks : Start(t) \/ Continue(t)
      BY <2>1 DEF Proceed
    <3>2. ASSUME NEW t \in Tasks, Start(t) PROVE TickInv'
      BY <3>1, <3>2, FundMarketTicks, OtherTicks DEF Start
    <3>3. ASSUME NEW t \in Tasks, Continue(t) PROVE TickInv'
      BY <3>1, <3>3, OpenUpsertTicks, FundScanTicks, FundUpsertTicks, OtherTicks DEF Continue
    <3> QED
      BY <3>1, <3>2, <3>3
  <2>2. CASE PortFails
    BY <2>2, OtherTicks DEF PortFails
  <2>3. CASE Boot
    BY <2>3, BootTicks
  <2>4. CASE UNCHANGED durableVars
    BY <2>4 DEF durableVars, vars, TickInv, ChargedOncePerAttempt, ScanToCharge, TodoToCharge,
       RestHasCharged, AllHasCharged, Stored, InView, ToCharge, HasCharged, Began, Charged,
       Finished
  <2>5. CASE Done /\ UNCHANGED <<restarts, faults, seen>>
    BY <2>4, <2>5 DEF Done, durableVars
  <2> QED
    BY <2>1, <2>2, <2>3, <2>4, <2>5 DEF DurableNext, ShutDown, Crash
<1>3. TickInv => ChargedOncePerAttempt
  BY DEF TickInv
<1> QED
  BY <1>1, <1>2, <1>3, DurableInvariant, PTL DEF DurableSpec

(* With one request in flight, and whatever fails, crashes or is sent      *)
(* again, no position is paid out or settled with the fund more often than *)
(* it was opened, and none that was removed comes back.                    *)
THEOREM PositionsSettledOnce == DurableSpec => []SettledOnce
<1>1. DurableInv => SettledOnce
  BY DEF DurableInv
<1> QED
  BY <1>1, DurableInvariant, PTL

(* No step of a command reads what it does not hold, also in a process     *)
(* that finds the positions of an earlier one.                             *)
THEOREM DurableTypeCorrect == DurableSpec => []TypeOK
<1>1. DurableInv => TypeOK
  BY DEF DurableInv
<1> QED
  BY <1>1, DurableInvariant, PTL

(* The fund of each process is conserved, whatever positions an earlier    *)
(* one has left it.                                                        *)
THEOREM FundConservedAfterRestart == DurableSpec => []WaterfallConserves
<1>1. DurableInit => WaterfallConserves
  BY MathAssumption, EngineAssumption DEF DurableInit, Init, WaterfallConserves
<1>2. DurableInv /\ WaterfallConserves /\ [DurableNext]_durableVars => WaterfallConserves'
  <2> SUFFICES ASSUME DurableInv, WaterfallConserves, [DurableNext]_durableVars
               PROVE  WaterfallConserves'
    OBVIOUS
  <2>1. CASE [Next]_vars
    <3>1. CASE insurance' = insurance /\ book' = book
      BY <3>1 DEF WaterfallConserves
    <3>2. ASSUME NEW a \in Usd, a >= 0, TakesFee(a) PROVE WaterfallConserves'
      BY <3>2, TakesFeeConserves DEF DurableInv
    <3>3. ASSUME NEW a \in Usd, a >= 0, CoversLoss(a) PROVE WaterfallConserves'
      BY <3>3, CoversLossConserves DEF DurableInv
    <3> QED
      BY <2>1, <3>1, <3>2, <3>3, FundStep, NextIsAny DEF DurableInv
  <2>2. CASE Boot
    BY <2>2, MathAssumption, EngineAssumption DEF Boot, WaterfallConserves
  <2> QED
    BY <2>1, <2>2 DEF DurableNext, ShutDown, Crash, Proceed, PortFails, Next, durableVars
<1> QED
  BY <1>1, <1>2, DurableInvariant, PTL DEF DurableSpec
----------------------------------------------------------------------------
(* Faults.                                                                 *)

LossInv == faults \in Nat /\ FaultLosesAtMostOne

(* What has been lost of all keys grows by one when a position is dropped. *)
LEMMA LossStep ==
  ASSUME LossInv, faults' \in Nat, faults' >= faults,
         \A k \in Keys : Lost(k)' = Lost(k) + Flag(Drops(k)) /\ Lost(k) \in Int,
         (\E k \in Keys : Drops(k)) => faults' = faults + 1
  PROVE  FaultLosesAtMostOne'
<1> DEFINE f == [k \in Keys |-> Lost(k)]
           h == [k \in Keys |-> Lost(k)']
<1>1. SumFunctionOnSet(f, Keys) <= faults
  BY DEF LossInv, FaultLosesAtMostOne, SumFunction
<1>2. \A k \in Keys : f[k] \in Int /\ h[k] \in Int /\ h[k] = f[k] + Flag(Drops(k))
  BY DEF Flag
<1>3. FaultLosesAtMostOne' <=> SumFunctionOnSet(h, Keys) <= faults'
  BY DEF FaultLosesAtMostOne, SumFunction
<1> HIDE DEF f, h
<1>4. SumFunctionOnSet(f, Keys) \in Int /\ IsFiniteSet(Keys)
  BY <1>2, SumInt, SerialAssumption
<1>5. CASE \A k \in Keys : ~Drops(k)
  <2>1. \A k \in Keys : f[k] = h[k]
    BY <1>2, <1>5 DEF Flag
  <2>2. SumFunctionOnSet(f, Keys) = SumFunctionOnSet(h, Keys)
    BY <1>4, <2>1, SumSame
  <2> QED
    BY <1>1, <1>3, <1>4, <2>2 DEF LossInv
<1>6. CASE \E k \in Keys : Drops(k)
  <2>1. PICK x \in Keys : Drops(x)
    BY <1>6
  <2>2. \A k \in Keys \ {x} : ~Drops(k)
    BY <2>1, HeldByClient DEF Drops
  <2>3. h[x] = f[x] + 1 /\ \A k \in Keys \ {x} : f[k] = h[k]
    BY <1>2, <2>1, <2>2 DEF Flag
  <2>4. SumFunctionOnSet(h, Keys) = SumFunctionOnSet(f, Keys) - f[x] + h[x]
    <3>1. \A k \in Keys : f[k] \in Int /\ h[k] \in Int
      BY <1>2
    <3>2. \A k \in Keys \ {x} : f[k] = h[k]
      BY <2>3
    <3>3. IsFiniteSet(Keys)
      BY <1>4
    <3> HIDE DEF Keys
    <3> QED
      BY <3>1, <3>2, <3>3, SumChange
  <2>5. SumFunctionOnSet(h, Keys) = SumFunctionOnSet(f, Keys) + 1
    BY <1>2, <1>4, <2>3, <2>4
  <2> QED
    BY <1>1, <1>3, <1>4, <2>1, <2>5 DEF LossInv
<1> QED
  BY <1>5, <1>6

(* A command that drops a position has met a fault.                        *)
LEMMA DropIsFault ==
  ASSUME DurableInv, faults \in Nat, Proceed \/ PortFails
  PROVE  /\ faults' \in Nat /\ faults' >= faults
         /\ (\E k \in Keys : Drops(k)) => faults' = faults + 1
<1>1. CASE PortFails
  BY <1>1 DEF PortFails
<1>2. CASE Proceed
  <2>1. PICK t \in Tasks : /\ Start(t) \/ Continue(t)
                           /\ faults' = faults + Flag(pc[t] = "close_mark" /\ pc'[t] = "idle")
    BY <1>2 DEF Proceed
  <2>2. faults' \in Nat /\ faults' >= faults
    BY <2>1 DEF Flag
  <2>3. ASSUME NEW k \in Keys, Drops(k)
        PROVE  faults' = faults + 1
    <3>1. t = Client /\ pc[t] \in {"close_mark", "liq_settle"} /\ pc'[t] = "idle"
      BY <2>3, OneClient, HeldByClient DEF Drops
    <3>2. pc[t] # "idle"
      BY <3>1
    <3>3. Continue(t)
      BY <2>1, <3>2 DEF Start, OpenGet, CloseRemove, UpdateMarket, FundMarket, LiqMarket, Begin
    <3>4. pc[t] = "liq_settle" => LiqSettle(t)
      BY <3>3 DEF Continue, OpenUpsert, OpenCount, CloseMark, CloseCount, FundScan,
         FundUpsert, FundCount, LiqScan, LiqRemove, LiqCount, LiqFinish, Publish
    <3>5. pc[t] = "liq_settle" => pc'[t] = "liq_count"
      BY <3>4, Locals DEF LiqSettle, Goto, DurableInv
    <3>6. pc[t] = "close_mark"
      BY <3>1, <3>5
    <3> QED
      BY <2>1, <3>1, <3>6 DEF Flag
  <2> QED
    BY <2>2, <2>3
<1> QED
  BY <1>1, <1>2

(* A process that dies loses what its command had in hand.                 *)
LEMMA BootLoses ==
  ASSUME DurableInv, faults \in Nat, ShutDown \/ Crash
  PROVE  /\ \A k \in Keys : Lost(k)' = Lost(k) + Flag(Drops(k)) /\ Lost(k) \in Int
         /\ faults' \in Nat /\ faults' >= faults
         /\ (\E k \in Keys : Drops(k)) => faults' = faults + 1
<1>1. Boot
  BY DEF ShutDown, Crash
<1>2. pc'[Client] = "idle" /\ seen' = seen /\ positions' = positions
  BY <1>1, OneClient DEF Boot, EnsureSchema
<1>3. ASSUME NEW k \in Keys
      PROVE  Lost(k)' = Lost(k) + Flag(Drops(k)) /\ Lost(k) \in Int
  <2>1. ~InHand(k)' /\ (Drops(k) <=> InHand(k)) /\ (Stored(k)' <=> Stored(k))
    BY <1>2, HeldByClientNext DEF Drops, Stored
  <2>2. Removed(k)' = Removed(k) /\ Removed(k) \in Nat /\ seen[k].opened \in Nat
    BY <1>2 DEF Removed, DurableInv, SeenOK
  <2>3. Lost(k) = seen[k].opened - Removed(k) - Flag(Stored(k)) - Flag(InHand(k))
    BY DEF Lost
  <2>4. Lost(k)' = seen[k].opened - Removed(k) - Flag(Stored(k))
    <3>1. Lost(k)' = seen'[k].opened - Removed(k)' - Flag(Stored(k)') - Flag(InHand(k)')
      BY DEF Lost, Flag
    <3>2. Flag(InHand(k)') = 0 /\ Flag(Stored(k)') = Flag(Stored(k)) /\ Flag(Stored(k)) \in Int
      BY <2>1 DEF Flag
    <3> QED
      BY <1>2, <2>2, <3>1, <3>2
  <2>5. Flag(Drops(k)) = Flag(InHand(k)) /\ Flag(InHand(k)) \in Int /\ Flag(Stored(k)) \in Int
    BY <2>1 DEF Flag
  <2> QED
    BY <2>2, <2>3, <2>4, <2>5
<1>4. (\E k \in Keys : Drops(k)) => ~Quiescent
  BY OneClient, HeldByClient DEF Drops, Quiescent
<1> QED
  BY <1>3, <1>4 DEF ShutDown, Crash

(* Each fault, a failing port, a close without a mark or a crash, costs at *)
(* most one position, and without a fault none is lost.                    *)
THEOREM FaultsLoseAtMostOne == DurableSpec => []FaultLosesAtMostOne
<1>1. DurableInit => LossInv
  <2> SUFFICES ASSUME DurableInit PROVE LossInv
    OBVIOUS
  <2> DEFINE f == [k \in Keys |-> Lost(k)]
  <2>1. pc[Client] = "idle" /\ \A k \in Keys : ~Stored(k)
    BY OneClient DEF DurableInit, Init, Stored
  <2>2. \A k \in Keys : f[k] = 0
    BY <2>1, HeldByClient DEF Lost, Removed, Flag, DurableInit, Unseen
  <2>3. FaultLosesAtMostOne <=> SumFunctionOnSet(f, Keys) <= faults
    BY DEF FaultLosesAtMostOne, SumFunction
  <2> HIDE DEF f
  <2>4. SumFunctionOnSet(f, Keys) = 0
    BY <2>2, SumZero, SerialAssumption
  <2> QED
    BY <2>3, <2>4 DEF LossInv, DurableInit
<1>2. DurableInv /\ LossInv /\ [DurableNext]_durableVars => LossInv'
  <2> SUFFICES ASSUME DurableInv, LossInv, [DurableNext]_durableVars PROVE LossInv'
    OBVIOUS
  <2>1. CASE Proceed \/ PortFails
    <3>1. Balanced /\ Observe
      BY <2>1, StartKeeps, ContinueKeeps, PortFailsKeeps DEF Proceed, PortFails, Keeps
    <3>2. \A k \in Keys : Lost(k)' = Lost(k) + Flag(Drops(k)) /\ Lost(k) \in Int
      BY <3>1, LostStep DEF DurableInv
    <3> QED
      BY <2>1, <3>2, DropIsFault, LossStep DEF LossInv
  <2>2. CASE ShutDown \/ Crash
    BY <2>2, BootLoses, LossStep DEF LossInv
  <2>3. CASE UNCHANGED <<positions, pc, req, seen, faults>>
    BY <2>3 DEF LossInv, FaultLosesAtMostOne, Lost, Removed, Flag, Stored, InHand
  <2> QED
    BY <2>1, <2>2, <2>3 DEF DurableNext, Done, durableVars, vars
<1>3. LossInv => FaultLosesAtMostOne
  BY DEF LossInv
<1> QED
  BY <1>1, <1>2, <1>3, DurableInvariant, PTL DEF DurableSpec
----------------------------------------------------------------------------
(* Sweeps.                                                                 *)

LEMMA EngineStep ==
  ASSUME Proceed \/ PortFails
  PROVE  [Next]_vars
BY DEF Proceed, PortFails, Next

LEMMA DurableSolo == DurableSpec => []SoloInv
<1>1. DurableInit => SoloInv
  BY OneClient, SoloStarts DEF DurableInit
<1>2. TypeOK /\ SoloInv /\ [DurableNext]_durableVars => SoloInv'
  <2> SUFFICES ASSUME TypeOK, SoloInv, [DurableNext]_durableVars PROVE SoloInv'
    OBVIOUS
  <2>1. CASE Boot
    <3>1. pc'[Client] = "idle" /\ req'[Client].todo = {}
      BY <2>1, OneClient DEF Boot, Idle
    <3> QED
      BY <3>1, EmptyHands DEF HoldsView
  <2>2. CASE [Next]_vars
    BY <2>2, OneClient, SoloStep, NextIsAny
  <2> QED
    BY <2>1, <2>2, EngineStep DEF DurableNext, ShutDown, Crash, Done, durableVars
<1> QED
  BY <1>1, <1>2, DurableTypeCorrect, PTL DEF DurableSpec

(* A sweep that neither a fault nor a restart cuts short leaves no         *)
(* position of its market underwater, whichever process has opened it.     *)
THEOREM SweepsRecover == DurableSpec => SweepRecovers
<1> DEFINE Counted == faults \in Nat /\ restarts \in Nat
<1>1. DurableInit => Counted
  BY DEF DurableInit
<1>2. Counted /\ [DurableNext]_durableVars => Counted'
  BY DEF DurableNext, Proceed, PortFails, ShutDown, Crash, Boot, durableVars, Flag
<1>3. ASSUME TypeOK, SoloInv, Counted, [DurableNext]_durableVars,
             NEW t \in Tasks, NEW k \in Keys, SweepEnds(t, k[2]), UNCHANGED <<faults, restarts>>
      PROVE  ~UnderwaterNow(k)
  <2>1. pc[t] # "idle" /\ pc'[t] # pc[t]
    BY <1>3 DEF SweepEnds
  <2>2. ~Boot /\ ~PortFails
    BY <1>3 DEF Boot, PortFails
  <2>3. Proceed
    BY <1>3, <2>1, <2>2 DEF DurableNext, ShutDown, Crash, Done, durableVars, vars
  <2>4. PICK u \in Tasks : Start(u) \/ Continue(u)
    BY <2>3 DEF Proceed
  <2>5. u = t
    BY OneClient
  <2>6. Continue(t)
    BY <2>1, <2>4, <2>5 DEF Start, OpenGet, CloseRemove, UpdateMarket, FundMarket, LiqMarket,
       Begin
  <2> QED
    BY <1>3, <2>6, OneClient, SweepLeavesClear
<1>4. TypeOK /\ SoloInv /\ Counted /\ [DurableNext]_durableVars =>
        (\A t \in Tasks, k \in Keys :
           SweepEnds(t, k[2]) /\ UNCHANGED <<faults, restarts>> => ~UnderwaterNow(k))
  BY <1>3
<1> QED
  BY <1>1, <1>2, <1>4, DurableSolo, DurableTypeCorrect, PTL DEF DurableSpec, SweepRecovers
=============================================================================
