------------------------------- MODULE Server -------------------------------
(***************************************************************************)
(* The read side of the node around its risk engine: the riskAdvice query  *)
(* of marginguard-api/src/query.rs, and subscriptions to the event stream. *)
(*                                                                         *)
(* The engine runs as in RiskEngine; its sink's log is the bus's log.  A   *)
(* query holds no lock from one await to the next, so commands take effect *)
(* between its reads.  The advisor is the deterministic one: it reads      *)
(* nothing, and its verdict is part of the query's last step.  (Narrator   *)
(* models the networked one.)  position, positions, accountHealth,         *)
(* marketState, insuranceFund and riskStats are each one of these reads    *)
(* alone.                                                                  *)
(***************************************************************************)
EXTENDS RiskEngineProps, Advice

CONSTANTS
  Readers, Slots, NoFeed,   \* the subscriptions, see EventBus
  Queries                   \* bound: one riskAdvice query is served per member

VARIABLES
  readers,
  queries   \* what each query holds; marks and kept are history

serverVars == <<vars, readers, queries>>

INSTANCE EventBus WITH log <- bus

ASSUME ServerAssumption == BusAssumption

(* The maintenance rate is far inside i64, and rates of any position's     *)
(* notional are far inside i128: with i64, i128 and the largest price and  *)
(* size of money.rs that holds for every rate below 10^12 basis points.    *)
ASSUME VerdictAssumption ==
  /\ Params.maintenance_margin_bps < I64Max
  /\ (Params.maintenance_margin_bps + 1) * (MAX_PRICE * MAX_SIZE) <= UsdMax

(* marks: the marks its market has had while the query ran (None: no mark  *)
(* yet); kept: whether the position it is about has stayed as first read.  *)
NoQuery == [at |-> "idle", key |-> None, pos |-> None, again |-> None,
            health |-> None, answer |-> None, marks |-> {}, kept |-> TRUE]

ServerInit ==
  /\ Init
  /\ readers = [r \in Readers |-> NoFeed]
  /\ queries = [q \in Queries |-> NoQuery]

----------------------------------------------------------------------------
(* The riskAdvice query.  A query about a position that is not there fails *)
(* at once and is not a step.                                              *)

MarkOf(s) == IF markets[s] = None THEN None ELSE markets[s].mark_price

QueryPosition(q, k) ==
  /\ queries[q].at = "idle"
  /\ positions[k] # None
  /\ queries' = [queries EXCEPT ![q] =
       [NoQuery EXCEPT !.at = "health", !.key = k, !.pos = positions[k],
                       !.marks = {MarkOf(k[2])}]]

Fail(q) == queries' = [queries EXCEPT ![q].at = "failed"]

(* engine.account_health reads the store a second time ...                 *)
QueryAgain(q) ==
  /\ queries[q].at = "health"
  /\ LET pos == positions[queries[q].key]
     IN  IF pos = None THEN Fail(q)
         ELSE queries' = [queries EXCEPT ![q].at = "mark", ![q].again = pos]

(* ... and then the mark and the parameters under the lock.                *)
QueryMark(q) ==
  /\ queries[q].at = "mark"
  /\ LET mark == MarkOf(queries[q].key[2])
     IN  IF mark = None THEN Fail(q)
         ELSE queries' = [queries EXCEPT ![q].at = "market",
                ![q].health = AccountHealth(queries[q].again, mark, Params)]

(* The market is read once more, and the advisor gives its verdict.        *)
QueryMarket(q) ==
  /\ queries[q].at = "market"
  /\ markets[queries[q].key[2]] # None
  /\ queries' = [queries EXCEPT ![q].at = "answered",
                                ![q].answer = Score(queries[q].health)]

Ask(q) == QueryAgain(q) \/ QueryMark(q) \/ QueryMarket(q)

----------------------------------------------------------------------------

(* What the history of a query in progress records of an engine step.      *)
Witnessed(d) ==
  IF d.at \in {"idle", "answered", "failed"} THEN d
  ELSE [d EXCEPT !.kept = @ /\ positions'[d.key] = d.pos,
                 !.marks = @ \cup {IF markets'[d.key[2]] = None THEN None
                                   ELSE markets'[d.key[2]].mark_price}]

EngineStep ==
  /\ Next
  /\ queries' = [q \in Queries |-> Witnessed(queries[q])]
  /\ UNCHANGED readers

ReaderStep(r) ==
  /\ Poll(r) \/ \E feed \in Feed : Subscribe(r, feed)
  /\ UNCHANGED <<vars, queries>>

QueryStep(q) ==
  /\ Ask(q) \/ \E k \in Keys : QueryPosition(q, k)
  /\ UNCHANGED <<vars, readers>>

ServerNext ==
  \/ EngineStep
  \/ \E r \in Readers : ReaderStep(r)
  \/ \E q \in Queries : QueryStep(q)

(* A subscriber that stays connected keeps reading.                        *)
ServerSpec ==
  /\ ServerInit /\ [][ServerNext]_serverVars
  /\ \A r \in Readers : WF_serverVars(Poll(r) /\ UNCHANGED <<vars, queries>>)

----------------------------------------------------------------------------

(* A verdict on pos at a mark is right when it is Critical for every       *)
(* position a sweep at that mark would take out, and otherwise only for    *)
(* one whose equity is less than a basis point of its notional above the   *)
(* maintenance margin.                                                     *)
RightVerdict(pos, mark, level) ==
  LET spare == PositionEquity(pos, mark) - MaintenanceMargin(pos, mark, Params)
  IN  /\ IsLiquidatable(pos, mark, Params) => level = "Critical"
      /\ level = "Critical" => spare * 10000 < Notional(pos, mark)

(* The four reads of a riskAdvice query span commands that move the mark.  *)
(* As long as the position itself is left alone, the verdict is the right  *)
(* one for a mark that prevailed while the query ran: the tiers of the     *)
(* advisor, computed from rounded ratios of limited width, never disagree  *)
(* with the test the sweep makes on exact amounts.                         *)
VerdictOfSomeMark ==
  \A q \in Queries :
    (queries[q].at = "answered" /\ queries[q].kept) =>
      \E m \in queries[q].marks \ {None} :
        RightVerdict(queries[q].pos, m, queries[q].answer.risk_level)

(* A client that has followed the alert feed from the start and has not    *)
(* lagged knows, once no command is in progress and it has caught up, of   *)
(* every liquidation and of every socialised dollar                        *)
(* (subscription.rs:25, "Only liquidation and auto-deleverage events").    *)
AlertsAccountForLosses ==
  \A r \in Readers :
    (/\ Quiescent /\ readers[r] # NoFeed
     /\ readers[r].feed = "liquidation_alerts" /\ readers[r].since = 0
     /\ readers[r].missed = {} /\ readers[r].next > Len(bus)) =>
      LET seen == [i \in 1 .. Len(readers[r].shown) |-> bus[readers[r].shown[i]]] IN
      /\ Total(seen, "Liquidated") = stats.liquidations
      /\ book.socialized <= UsdMax => Total(seen, "announced") = book.socialized

(* Once commands cease, a subscriber that keeps reading catches up with    *)
(* the stream however far it fell behind: lagged frames are dropped        *)
(* without ending its stream (bus.rs:56).                                  *)
SubscriberCatchesUp ==
  \A r \in Readers :
    readers[r] # NoFeed ~> readers[r] # NoFeed /\ readers[r].next = Len(bus) + 1
=============================================================================
