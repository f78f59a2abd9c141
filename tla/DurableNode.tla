----------------------------- MODULE DurableNode -----------------------------
(***************************************************************************)
(* The engine over the Postgres store of marginguard-infra/src/pg.rs, with *)
(* the process that holds it dying and starting again.                     *)
(*                                                                         *)
(* Each call of the store is one SQL statement, so it takes effect as a    *)
(* whole or not at all; RiskEngine's positions are the table's rows, and   *)
(* its StoreFails is the connection or the pool giving up before or after  *)
(* the statement.  Rows outlive the process.  The fund, the markets, the   *)
(* statistics and the event bus are built anew by build_engine.  The node  *)
(* of this repository wires the in-memory store; the Postgres store is     *)
(* there for a node that swaps it in.                                      *)
(*                                                                         *)
(* Clients send one request at a time and may send it again when it fails. *)
(* A statement that the server still runs after its connection has broken  *)
(* takes effect before the next request.                                   *)
(***************************************************************************)
EXTENDS RiskEngineProps

CONSTANTS MaxRestarts   \* bound: restarts in one behaviour

ASSUME SerialAssumption ==
  /\ \E t \in Tasks : Tasks = {t}
  /\ IsFiniteSet(Keys)
  /\ MaxRestarts \in Nat

VARIABLES
  restarts,
  faults,   \* history: commands that a failing port or a crash has cut short
  seen      \* history: what has happened to each key, and to its position

durableVars == <<vars, restarts, faults, seen>>

(* opened, closed and settled count over the whole run: positions stored,  *)
(* paid out to their account, and settled with the fund by a sweep.  The   *)
(* others count since the last open: accruals of the market begun, those   *)
(* that charged this position, and those that came to their end.           *)
Unseen == [opened |-> 0, closed |-> 0, settled |-> 0,
           begun |-> 0, charged |-> 0, done |-> 0]

DurableInit ==
  /\ Init
  /\ restarts = 0
  /\ faults = 0
  /\ seen = [k \in Keys |-> Unseen]

Flag(b) == IF b THEN 1 ELSE 0

(* A task that had key k in hand has gone from one label to another.       *)
Passed(k, from, to) ==
  \E t \in Tasks : pc[t] = from /\ pc'[t] = to /\ req[t].cur.key = k

Opens(k) == Passed(k, "open_upsert", "open_count")
Closes(k) == Passed(k, "close_mark", "close_count")
Settles(k) == Passed(k, "liq_settle", "liq_count")

Begins(k) ==
  \E t \in Tasks :
    pc[t] = "idle" /\ pc'[t] = "fund_scan" /\ req'[t].view.symbol = k[2]
Charges(k) ==
  \E t \in Tasks :
    /\ pc[t] = "fund_upsert" /\ pc'[t] \in {"fund_upsert", "fund_count"}
    /\ \E e \in req[t].todo \ req'[t].todo : e.key = k
Ends(k) ==
  \E t \in Tasks :
    pc[t] = "fund_count" /\ pc'[t] = "publish" /\ req[t].view.symbol = k[2]

Observed(k) ==
  LET since(n) == IF Opens(k) THEN 0 ELSE n
  IN  [opened |-> seen[k].opened + Flag(Opens(k)),
       closed |-> seen[k].closed + Flag(Closes(k)),
       settled |-> seen[k].settled + Flag(Settles(k)),
       begun |-> since(seen[k].begun + Flag(Begins(k))),
       charged |-> since(seen[k].charged + Flag(Charges(k))),
       done |-> since(seen[k].done + Flag(Ends(k)))]

Observe == seen' = [k \in Keys |-> Observed(k)]

(* A command goes on; a close without a mark fails with the position gone. *)
Proceed ==
  /\ \E t \in Tasks :
       /\ Start(t) \/ Continue(t)
       /\ faults' = faults + Flag(pc[t] = "close_mark" /\ pc'[t] = "idle")
  /\ Observe
  /\ UNCHANGED restarts

PortFails ==
  /\ \E t \in Tasks : StoreFails(t) \/ SinkFails(t)
  /\ faults' = faults + 1
  /\ Observe
  /\ UNCHANGED restarts

(* CREATE TABLE IF NOT EXISTS leaves the rows of an existing table alone.  *)
EnsureSchema == UNCHANGED positions

(* build_engine, over a table that may hold positions.                     *)
Boot ==
  /\ restarts < MaxRestarts
  /\ restarts' = restarts + 1
  /\ EnsureSchema
  /\ markets' = [s \in Symbols |-> None]
  /\ insurance' = Seed
  /\ stats' = NoStats
  /\ pc' = [t \in Tasks |-> "idle"]
  /\ req' = [t \in Tasks |-> Idle]
  /\ bus' = <<>>
  /\ book' = [fees |-> 0, shortfalls |-> 0, socialized |-> 0]
  /\ UNCHANGED <<submitted, seen>>

(* A shutdown waits for the requests being served; a crash does not.       *)
ShutDown == Quiescent /\ Boot /\ UNCHANGED faults
Crash == ~Quiescent /\ Boot /\ faults' = faults + 1

DurableNext ==
  \/ Proceed
  \/ PortFails
  \/ ShutDown
  \/ Crash
  \/ Done /\ UNCHANGED <<restarts, faults, seen>>

DurableSpec == DurableInit /\ [][DurableNext]_durableVars

----------------------------------------------------------------------------
(* Properties.                                                             *)

Stored(k) == positions[k] # None

(* A command has taken the position of k out and not yet dealt with it.    *)
InHand(k) ==
  \E t \in Tasks : pc[t] \in {"close_mark", "liq_settle"} /\ req[t].cur.key = k

Removed(k) == seen[k].closed + seen[k].settled

(* Whatever fails, crashes or is sent again, a position that was opened    *)
(* once is in one place: stored, in the hands of one command, paid out, or *)
(* settled with the fund.  No loss is drawn twice, no position is both     *)
(* closed and liquidated, and none that was removed is stored again.  (An  *)
(* uncounted one has been lost.)                                           *)
SettledOnce ==
  \A k \in Keys : Removed(k) + Flag(Stored(k)) + Flag(InHand(k)) <= seen[k].opened

Lost(k) == seen[k].opened - Removed(k) - Flag(Stored(k)) - Flag(InHand(k))

(* A fault costs at most the one position its command had in hand: a sweep *)
(* that dies among many underwater positions leaves the rest in the store  *)
(* for the next one, and without a fault nothing is lost.                  *)
FaultLosesAtMostOne == SumFunction([k \in Keys |-> Lost(k)]) <= faults

(* However often an accrual is cut short and sent again, a position is     *)
(* charged at most once by each attempt and at least once by each that     *)
(* came to its end.                                                        *)
ChargedOncePerAttempt ==
  \A k \in Keys : Stored(k) =>
    /\ seen[k].charged <= seen[k].begun
    /\ seen[k].done <= seen[k].charged

(* A sweep that no fault cuts short clears the market, also of positions   *)
(* that an earlier process opened or that an earlier sweep left behind.    *)
SweepRecovers ==
  [][\A t \in Tasks, k \in Keys :
       SweepEnds(t, k[2]) /\ UNCHANGED <<faults, restarts>> => ~UnderwaterNow(k)]_durableVars
=============================================================================
