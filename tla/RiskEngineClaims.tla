-------------------------- MODULE RiskEngineClaims --------------------------
(***************************************************************************)
(* What the documentation and the comments of the repository say of the    *)
(* engine and the engine does not do.  Each is checked in a run of its     *)
(* own, in which TLC shows the behaviour that contradicts it.              *)
(***************************************************************************)
EXTENDS RiskEngineProps

CountOf(kind, k) == Len(SelectSeq(bus, LAMBDA e : e.type = kind /\ e.key = k))

Removals(k) == CountOf("PositionClosed", k) + CountOf("Liquidated", k)

----------------------------------------------------------------------------
(* Of one client with one request at a time in flight.                     *)

(* risk.rs:65, "Number of open positions": a close in a market without a   *)
(* mark takes the position out and leaves the count.                       *)
OpenPositionsIsNumberStored ==
  Quiescent => stats.open_positions = Cardinality({k \in Keys : positions[k] # None})

----------------------------------------------------------------------------
(* Of commands in flight at the same time.                                 *)

(* engine.rs:2-3, "risk logic runs synchronously under a single lock": a   *)
(* position that was closed or liquidated stays removed.  An accrual that  *)
(* took its snapshot before writes it back after.                          *)
RemovedStaysRemoved ==
  Quiescent =>
    \A k \in Keys : positions[k] # None => CountOf("PositionOpened", k) > Removals(k)

(* engine.rs:2-3 again: a position is liquidated at most once each time it *)
(* is opened.  Two sweeps that both took their snapshot liquidate the same *)
(* position twice, and the fund pays or collects for it twice.             *)
LiquidatedOnce ==
  Quiescent =>
    \A k \in Keys : CountOf("Liquidated", k) <= CountOf("PositionOpened", k)
=============================================================================
