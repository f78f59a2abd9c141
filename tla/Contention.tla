----------------------------- MODULE Contention -----------------------------
(***************************************************************************)
(* RiskEngine with a history of the positions that two commands have held  *)
(* at the same time.  No lock spans a command (engine.rs:180-203), so such *)
(* commands disturb one another: both find the key free, one writes back   *)
(* or takes out what the other has just stored, and their events may be    *)
(* published in either order.  The properties say how far the harm goes:   *)
(* to those positions and to no other.                                     *)
(***************************************************************************)
EXTENDS RiskEngineProps

VARIABLE contested   \* history: the keys that two tasks have held at a time

cvars == <<positions, markets, insurance, stats, pc, req, bus, submitted, book, contested>>

NamesKey(e) == e.type \notin {"MarketUpdated", "AutoDeleveraged"}

(* The positions that a task with locals r holds: those it has copied from *)
(* the store or is about to put there, and those it has still to tell of.  *)
Holding(r) ==
  {e.key : e \in r.todo \cup ({r.cur} \ {None})} \cup
  {e.key : e \in {x \in ToSet(r.evs) : NamesKey(x)}}

Clashing ==
  {k \in Keys : \E t, u \in Tasks :
     t # u /\ k \in Holding(req[t]) /\ k \in Holding(req[u])}

ContentionInit == Init /\ contested = {}

ContentionNext == Next /\ contested' = contested \cup Clashing'

ContentionSpec == ContentionInit /\ [][ContentionNext]_cvars

----------------------------------------------------------------------------

(* While no port fails, a reader of the stream has the true picture of     *)
(* every position that no command holds and that no two commands have ever *)
(* held at the same time, whatever is in flight elsewhere: a position that *)
(* is stored is one the stream shows open, with the same side and the      *)
(* funding the stream has settled on it (open, accrue_funding and          *)
(* liquidate_market, engine.rs:214-266, 315-342 and 348-427).              *)
UncontestedReplay ==
  LET r == Replay IN
  \A k \in Keys \ contested :
    (positions[k] # None /\ \A t \in Tasks : k \notin Holding(req[t])) =>
      /\ r.book[k] # None
      /\ r.book[k].side = positions[k].side
      /\ r.book[k].funding = positions[k].funding_paid

(* However commands interleave and the mark moves, what a sweep takes out  *)
(* of the store is underwater at the mark that the sweep read, unless two  *)
(* commands have held the position at the same time (tests/engine.rs:330,  *)
(* healthy_position_is_not_liquidated).                                    *)
SweepSparesUncontested ==
  [][\A t \in Tasks, k \in Keys \ contested :
       (/\ pc[t] = "liq_remove" /\ pc'[t] # "liq_remove"
        /\ positions[k] # None /\ positions'[k] = None)
         => IsLiquidatable(positions[k], req[t].view.mark_price, Params)]_cvars
=============================================================================
