---------------------------- MODULE PositionStore ----------------------------
(***************************************************************************)
(* What the PositionStore port (marginguard-core/src/ports.rs) promises:   *)
(* a map from account and market to the position held there.  RiskEngine   *)
(* uses the store through exactly these operations.                        *)
(***************************************************************************)
EXTENDS FiniteSets

CONSTANTS Accounts, Symbols, Positions, None

Keys == Accounts \X Symbols

VARIABLES
  store,   \* the position of each account in each market, or None
  reply    \* what the last call returned

vars == <<store, reply>>

StoreInit == store = [k \in Keys |-> None] /\ reply = [ok |-> None]

Upsert(k, p) ==
  /\ store' = [store EXCEPT ![k] = p]
  /\ reply' = [ok |-> None]

Get(k) == reply' = [position |-> store[k]] /\ UNCHANGED store

Remove(k) ==
  /\ store' = [store EXCEPT ![k] = None]
  /\ reply' = [position |-> store[k]]

ByMarket(s) ==
  /\ reply' = [positions |-> {<<k, store[k]>> :
                                k \in {j \in Keys : j[2] = s /\ store[j] # None}}]
  /\ UNCHANGED store

Count ==
  /\ reply' = [count |-> Cardinality({k \in Keys : store[k] # None})]
  /\ UNCHANGED store

StoreNext ==
  \/ \E k \in Keys : Get(k) \/ Remove(k) \/ \E p \in Positions : Upsert(k, p)
  \/ \E s \in Symbols : ByMarket(s)
  \/ Count

StoreSpec == StoreInit /\ [][StoreNext]_vars
=============================================================================
