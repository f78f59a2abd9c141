----------------------------- MODULE MemoryStore -----------------------------
(***************************************************************************)
(* MemoryPositionStore of marginguard-infra/src/store.rs: positions by     *)
(* account and market, and for each market the set of accounts in it.      *)
(* Each call holds the lock from its first read to its last write, so it   *)
(* is one step whichever thread makes it.                                  *)
(***************************************************************************)
EXTENDS Functions, FiniteSets

CONSTANTS
  Accounts, Symbols,
  Positions,           \* what a position may hold besides its account and market
  None

ASSUME StoreAssumption == None \notin Positions

Keys == Accounts \X Symbols

VARIABLES
  by_key,      \* the positions, a function on the keys that hold one
  by_market,   \* the index, a function on the markets that have an entry
  reply        \* what the last call returned

vars == <<by_key, by_market, reply>>

Empty == [x \in {} |-> None]

Init == by_key = Empty /\ by_market = Empty /\ reply = [ok |-> None]

(* HashMap::insert and HashMap::remove.                                    *)
Insert(map, key, value) ==
  [x \in DOMAIN map \cup {key} |-> IF x = key THEN value ELSE map[x]]
Delete(map, key) == Restrict(map, DOMAIN map \ {key})

Lookup(k) == IF k \in DOMAIN by_key THEN by_key[k] ELSE None

(* The accounts the index lists for a market.                              *)
Listed(s) == IF s \in DOMAIN by_market THEN by_market[s] ELSE {}

(* Mutant of Upsert: the index is written only for a new market.           *)
UpsertNewMarketOnly(a, s, p) ==
  /\ by_market' = IF s \in DOMAIN by_market THEN by_market
                  ELSE Insert(by_market, s, {a})
  /\ by_key' = Insert(by_key, <<a, s>>, p)
  /\ reply' = [ok |-> None]

Upsert(a, s, p) ==
  /\ by_market' = Insert(by_market, s, Listed(s) \cup {a})
  /\ by_key' = Insert(by_key, <<a, s>>, p)
  /\ reply' = [ok |-> None]

Get(a, s) ==
  /\ reply' = [position |-> Lookup(<<a, s>>)]
  /\ UNCHANGED <<by_key, by_market>>

(* Mutant of Unlist: the entry of a market is never dropped.               *)
UnlistKeepsEntry(a, s) ==
  IF s \in DOMAIN by_market THEN Insert(by_market, s, by_market[s] \ {a})
  ELSE by_market

(* Take the account off the index, and the market with its last account.   *)
Unlist(a, s) ==
  IF s \notin DOMAIN by_market THEN by_market
  ELSE IF by_market[s] \ {a} = {} THEN Delete(by_market, s)
  ELSE Insert(by_market, s, by_market[s] \ {a})

Remove(a, s) ==
  /\ reply' = [position |-> Lookup(<<a, s>>)]
  /\ IF <<a, s>> \in DOMAIN by_key
     THEN by_key' = Delete(by_key, <<a, s>>) /\ by_market' = Unlist(a, s)
     ELSE UNCHANGED <<by_key, by_market>>

(* The accounts of the index that have a position, in the order of a hash  *)
(* set, that is in any order.                                              *)
ByMarket(s) ==
  /\ reply' = [positions |-> {<<<<a, s>>, by_key[<<a, s>>]>> :
                                a \in {b \in Listed(s) : <<b, s>> \in DOMAIN by_key}}]
  /\ UNCHANGED <<by_key, by_market>>

Count ==
  /\ reply' = [count |-> Cardinality(DOMAIN by_key)]
  /\ UNCHANGED <<by_key, by_market>>

Next ==
  \/ \E a \in Accounts, s \in Symbols :
       Get(a, s) \/ Remove(a, s) \/ \E p \in Positions : Upsert(a, s, p)
  \/ \E s \in Symbols : ByMarket(s)
  \/ Count

Spec == Init /\ [][Next]_vars

----------------------------------------------------------------------------

(* Keys and index entries are accounts and markets, values are positions.  *)
TypeOK ==
  /\ DOMAIN by_key \subseteq Keys
  /\ \A k \in DOMAIN by_key : by_key[k] \in Positions
  /\ DOMAIN by_market \subseteq Symbols
  /\ \A s \in DOMAIN by_market : by_market[s] \subseteq Accounts

(* The secondary index lists, for each market, exactly the accounts that   *)
(* hold a position in it, and has no entry for a market without any: after *)
(* any sequence of calls by_market() neither misses a position of the      *)
(* market nor does the index grow with markets that have emptied           *)
(* (store.rs:17-19, "proportional to the number of positions in that       *)
(* market").                                                               *)
IndexExact ==
  /\ \A s \in Symbols : Listed(s) = {a \in Accounts : <<a, s>> \in DOMAIN by_key}
  /\ \A s \in DOMAIN by_market : by_market[s] # {}

(* The two indexes together are one map: every call returns what the port  *)
(* promises and changes only the key it names.                             *)
Port == INSTANCE PositionStore WITH store <- [k \in Keys |-> Lookup(k)]
ImplementsPort == Port!StoreSpec
=============================================================================
