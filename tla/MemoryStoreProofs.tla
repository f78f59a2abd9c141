-------------------------- MODULE MemoryStoreProofs --------------------------
(***************************************************************************)
(* For any accounts, markets and positions: the index of the in-memory     *)
(* store is exact, and the store is the map that the port promises.        *)
(***************************************************************************)
EXTENDS MemoryStore, TLAPS

(* The index is exact only because a position is listed in the step that   *)
(* stores it, so exactness is inductive together with the types.           *)
StoreInv == TypeOK /\ IndexExact

(* What Unlist leaves of the index: the other markets untouched, and the   *)
(* account's market without it, gone when it was the last.                 *)
LEMMA UnlistTakesOff ==
  ASSUME TypeOK, NEW a \in Accounts, NEW s \in Symbols, s \in DOMAIN by_market,
         IndexExact
  PROVE  /\ DOMAIN Unlist(a, s) \subseteq DOMAIN by_market
         /\ \A m \in DOMAIN by_market \ {s} :
              m \in DOMAIN Unlist(a, s) /\ Unlist(a, s)[m] = by_market[m]
         /\ s \in DOMAIN Unlist(a, s) =>
              Unlist(a, s)[s] = by_market[s] \ {a} /\ Unlist(a, s)[s] # {}
         /\ s \notin DOMAIN Unlist(a, s) => by_market[s] \ {a} = {}
<1>1. CASE by_market[s] \ {a} = {}
  BY <1>1 DEF Unlist, Delete, Restrict
<1>2. CASE by_market[s] \ {a} # {}
  BY <1>2 DEF Unlist, Insert
<1> QED BY <1>1, <1>2

LEMMA StoreInvInit == Init => StoreInv
BY DEF Init, Empty, StoreInv, TypeOK, IndexExact, Listed

LEMMA UpsertKeepsInv ==
  ASSUME StoreInv, NEW a \in Accounts, NEW s \in Symbols, NEW p \in Positions,
         Upsert(a, s, p)
  PROVE  StoreInv'
<1>1. TypeOK'
  BY DEF StoreInv, TypeOK, Upsert, Insert, Listed, Keys
<1>2. ASSUME NEW m \in Symbols
      PROVE  Listed(m)' = {b \in Accounts : <<b, m>> \in (DOMAIN by_key)'}
  <2>1. CASE m = s
    BY <2>1 DEF StoreInv, IndexExact, Upsert, Insert, Listed
  <2>2. CASE m # s
    BY <2>2 DEF StoreInv, IndexExact, Upsert, Insert, Listed
  <2> QED BY <2>1, <2>2
<1>3. ASSUME NEW m \in (DOMAIN by_market)'
      PROVE  by_market'[m] # {}
  BY <1>3 DEF StoreInv, IndexExact, Upsert, Insert
<1> QED BY <1>1, <1>2, <1>3 DEF StoreInv, IndexExact

LEMMA RemoveKeepsInv ==
  ASSUME StoreInv, NEW a \in Accounts, NEW s \in Symbols, Remove(a, s)
  PROVE  StoreInv'
<1>1. CASE <<a, s>> \notin DOMAIN by_key
  BY <1>1 DEF Remove, StoreInv, TypeOK, IndexExact, Listed
<1>2. CASE <<a, s>> \in DOMAIN by_key
  <2>1. s \in DOMAIN by_market /\ a \in by_market[s]
    BY <1>2 DEF StoreInv, IndexExact, Listed
  <2>2. /\ by_market' = Unlist(a, s)
        /\ DOMAIN by_key' = DOMAIN by_key \ {<<a, s>>}
        /\ \A k \in DOMAIN by_key' : by_key'[k] = by_key[k]
    BY <1>2 DEF Remove, Delete, Restrict
  <2>3. /\ DOMAIN by_market' \subseteq DOMAIN by_market
        /\ \A m \in DOMAIN by_market \ {s} :
             m \in DOMAIN by_market' /\ by_market'[m] = by_market[m]
        /\ s \in DOMAIN by_market' =>
             by_market'[s] = by_market[s] \ {a} /\ by_market'[s] # {}
        /\ s \notin DOMAIN by_market' => by_market[s] \ {a} = {}
    BY <2>1, <2>2, UnlistTakesOff DEF StoreInv
  <2>4. TypeOK'
    BY <2>2, <2>3 DEF StoreInv, TypeOK
  <2>5. ASSUME NEW m \in Symbols
        PROVE  Listed(m)' = {b \in Accounts : <<b, m>> \in (DOMAIN by_key)'}
    <3>1. CASE m = s
      <4>1. Listed(m)' = by_market[s] \ {a}
        BY <2>3, <3>1 DEF Listed
      <4>2. by_market[s] = {b \in Accounts : <<b, s>> \in DOMAIN by_key}
        BY <2>1 DEF StoreInv, IndexExact, Listed
      <4> QED BY <2>2, <3>1, <4>1, <4>2
    <3>2. CASE m # s
      <4>1. Listed(m)' = Listed(m)
        BY <2>3, <3>2 DEF Listed
      <4> QED BY <2>2, <3>2, <4>1 DEF StoreInv, IndexExact
    <3> QED BY <3>1, <3>2
  <2>6. ASSUME NEW m \in (DOMAIN by_market)'
        PROVE  by_market'[m] # {}
    BY <2>3, <2>6 DEF StoreInv, IndexExact
  <2> QED BY <2>4, <2>5, <2>6 DEF StoreInv, IndexExact
<1> QED BY <1>1, <1>2

LEMMA NextKeepsInv == StoreInv /\ [Next]_vars => StoreInv'
<1> SUFFICES ASSUME StoreInv, [Next]_vars PROVE StoreInv'
  OBVIOUS
<1>1. CASE UNCHANGED <<by_key, by_market>>
  BY <1>1 DEF StoreInv, TypeOK, IndexExact, Listed
<1>2. ASSUME NEW a \in Accounts, NEW s \in Symbols, NEW p \in Positions, Upsert(a, s, p)
      PROVE  StoreInv'
  BY <1>2, UpsertKeepsInv
<1>3. ASSUME NEW a \in Accounts, NEW s \in Symbols, Remove(a, s)
      PROVE  StoreInv'
  BY <1>3, RemoveKeepsInv
<1> QED
  BY <1>1, <1>2, <1>3 DEF Next, Get, ByMarket, Count, vars

(* Whatever calls are made, by_market never misses a position and the      *)
(* index holds no empty entry.                                             *)
THEOREM IndexCorrect == Spec => []IndexExact
<1>1. Spec => []StoreInv
  BY StoreInvInit, NextKeepsInv, PTL DEF Spec
<1>2. StoreInv => IndexExact
  BY DEF StoreInv
<1> QED BY <1>1, <1>2, PTL

----------------------------------------------------------------------------
(* The store implements the port.                                          *)

(* A key holds something exactly when it is in the map.                    *)
LEMMA LookupFinds ==
  ASSUME TypeOK, NEW k \in Keys
  PROVE  Lookup(k) # None <=> k \in DOMAIN by_key
BY StoreAssumption DEF TypeOK, Lookup

LEMMA PortInit == Init => Port!StoreInit
BY DEF Init, Empty, Lookup, Port!StoreInit, Port!Keys, Keys

LEMMA UpsertIsPorts ==
  ASSUME TypeOK, NEW a \in Accounts, NEW s \in Symbols, NEW p \in Positions,
         Upsert(a, s, p)
  PROVE  Port!Upsert(<<a, s>>, p)
BY DEF Upsert, Insert, Lookup, Keys, Port!Upsert

LEMMA RemoveIsPorts ==
  ASSUME TypeOK, NEW a \in Accounts, NEW s \in Symbols, Remove(a, s)
  PROVE  Port!Remove(<<a, s>>)
<1>1. [k \in Keys |-> Lookup(k)]'
        = [[k \in Keys |-> Lookup(k)] EXCEPT ![<<a, s>>] = None]
  BY DEF Remove, Delete, Restrict, Lookup, Keys
<1>2. reply' = [position |-> [k \in Keys |-> Lookup(k)][<<a, s>>]]
  BY DEF Remove, Keys
<1> QED BY <1>1, <1>2 DEF Port!Remove

LEMMA ByMarketIsPorts ==
  ASSUME StoreInv, NEW s \in Symbols, ByMarket(s)
  PROVE  Port!ByMarket(s)
<1> DEFINE map == [k \in Keys |-> Lookup(k)]
<1>1. {<<<<a, s>>, by_key[<<a, s>>]>> : a \in {b \in Listed(s) : <<b, s>> \in DOMAIN by_key}}
        = {<<k, map[k]>> : k \in {j \in Keys : j[2] = s /\ map[j] # None}}
  <2>1. {b \in Listed(s) : <<b, s>> \in DOMAIN by_key}
          = {b \in Accounts : <<b, s>> \in DOMAIN by_key}
    BY DEF StoreInv, IndexExact
  <2>2. {j \in Keys : j[2] = s /\ map[j] # None}
          = {<<b, s>> : b \in {c \in Accounts : <<c, s>> \in DOMAIN by_key}}
    <3>1. \A j \in Keys : map[j] # None <=> j \in DOMAIN by_key
      BY LookupFinds DEF StoreInv
    <3>2. \A j \in Keys : j[1] \in Accounts /\ (j[2] = s => j = <<j[1], s>>)
      BY DEF Keys
    <3>3. \A b \in Accounts : <<b, s>> \in Keys /\ <<b, s>>[2] = s
      BY DEF Keys
    <3> DEFINE L == {j \in Keys : j[2] = s /\ map[j] # None}
               R == {<<b, s>> : b \in {c \in Accounts : <<c, s>> \in DOMAIN by_key}}
    <3> HIDE DEF map
    <3>4. ASSUME NEW j \in L PROVE j \in R
      <4>1. j = <<j[1], s>> /\ j[1] \in Accounts /\ <<j[1], s>> \in DOMAIN by_key
        BY <3>1, <3>2
      <4> QED BY <4>1
    <3>5. ASSUME NEW j \in R PROVE j \in L
      <4>1. PICK b \in Accounts : j = <<b, s>> /\ <<b, s>> \in DOMAIN by_key
        OBVIOUS
      <4> QED BY <3>1, <3>3, <4>1
    <3> QED BY <3>4, <3>5
  <2>3. \A b \in Accounts : <<b, s>> \in DOMAIN by_key =>
          map[<<b, s>>] = by_key[<<b, s>>]
    BY DEF Lookup, Keys
  <2> HIDE DEF map
  <2>4. \A b \in Accounts : <<b, s>> \in DOMAIN by_key =>
          <<<<b, s>>, map[<<b, s>>]>> = <<<<b, s>>, by_key[<<b, s>>]>>
    BY <2>3
  <2> DEFINE B == {b \in Accounts : <<b, s>> \in DOMAIN by_key}
  <2>5. {<<<<b, s>>, by_key[<<b, s>>]>> : b \in B} = {<<<<b, s>>, map[<<b, s>>]>> : b \in B}
    BY <2>4
  <2>6. {<<k, map[k]>> : k \in {<<b, s>> : b \in B}} = {<<<<b, s>>, map[<<b, s>>]>> : b \in B}
    OBVIOUS
  <2> QED BY <2>1, <2>2, <2>5, <2>6
<1>2. UNCHANGED map
  BY DEF ByMarket, Lookup
<1> QED BY <1>1, <1>2 DEF ByMarket, Port!ByMarket, Port!Keys, Keys

LEMMA CountIsPorts ==
  ASSUME TypeOK, Count
  PROVE  Port!Count
<1> DEFINE map == [k \in Keys |-> Lookup(k)]
<1>1. DOMAIN by_key = {k \in Keys : map[k] # None}
  BY LookupFinds DEF TypeOK
<1>2. UNCHANGED map
  BY DEF Count, Lookup
<1>3. reply' = [count |-> Cardinality({k \in Keys : map[k] # None})]
  BY <1>1 DEF Count
<1>4. Port!Keys = Keys
  BY DEF Port!Keys, Keys
<1>5. \A S : Port!Cardinality(S) = Cardinality(S)
  BY Zenon DEF Port!Cardinality, Cardinality
<1> QED BY <1>2, <1>3, <1>4, <1>5, Zenon DEF Port!Count

LEMMA GetIsPorts ==
  ASSUME NEW a \in Accounts, NEW s \in Symbols, Get(a, s)
  PROVE  Port!Get(<<a, s>>)
BY DEF Get, Lookup, Keys, Port!Get

LEMMA NextIsPorts == StoreInv /\ [Next]_vars => [Port!StoreNext]_Port!vars
<1> SUFFICES ASSUME StoreInv, [Next]_vars PROVE [Port!StoreNext]_Port!vars
  OBVIOUS
<1>1. ASSUME NEW a \in Accounts, NEW s \in Symbols,
             Get(a, s) \/ Remove(a, s) \/ \E p \in Positions : Upsert(a, s, p)
      PROVE  Port!StoreNext
  <2>1. <<a, s>> \in Port!Keys
    BY DEF Port!Keys
  <2> QED BY <1>1, <2>1, GetIsPorts, RemoveIsPorts, UpsertIsPorts
          DEF Port!StoreNext, StoreInv
<1>2. ASSUME NEW s \in Symbols, ByMarket(s)
      PROVE  Port!StoreNext
  BY <1>2, ByMarketIsPorts DEF Port!StoreNext
<1>3. CASE Count
  BY <1>3, CountIsPorts DEF Port!StoreNext, StoreInv
<1>4. CASE UNCHANGED vars
  BY <1>4 DEF vars, Lookup, Port!vars
<1> QED BY <1>1, <1>2, <1>3, <1>4 DEF Next

(* Every call of the in-memory store is a call of the port: it returns     *)
(* what the map holds and changes only the key it names.                   *)
THEOREM PortImplemented == Spec => ImplementsPort
<1>1. Spec => []StoreInv
  BY StoreInvInit, NextKeepsInv, PTL DEF Spec
<1> QED BY <1>1, PortInit, NextIsPorts, PTL DEF Spec, ImplementsPort, Port!StoreSpec
=============================================================================
