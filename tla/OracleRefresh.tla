--------------------------- MODULE OracleRefresh ---------------------------
(***************************************************************************)
(* The indexer's own oracle refresher (refreshOracles of                   *)
(* src/indexer/src/index.ts), which pushes index and mark of every listed  *)
(* market, over the cached reads it makes: the pool price (meteoraPool,    *)
(* 10 s) and SOL/USD (getSolUsd, 120 s, the old value on failure). An      *)
(* external market's price lives in its curve pool until it migrates, and  *)
(* in the DAMM v2 pool from then on. Prices count their moves.             *)
(***************************************************************************)
EXTENDS Integers, FiniteSets

CONSTANTS Markets,        \* 1..N, in the order of the listings file
          External,       \* markets with venue "meteora" and a dbcPool
          Unknown,        \* markets whose underlying is in no catalog or has no feed
          MaxMoves,       \* bound: moves of each price
          Faults          \* bound: calls that fail

VARIABLES feed,           \* moves of the underlying's price
          curve, damm,    \* moves of the two pools' prices
          migrated,
          cached,         \* dbcPoolCache: the price, -1 when absent or expired
          index, mark,    \* moves pushed last, -1 before the first push
          pc, at, val,    \* the run: step, market, value in hand
          faults

vars == <<feed, curve, damm, migrated, cached, index, mark, pc, at, val, faults>>
world == <<feed, curve, damm, migrated>>

Zero == [m \in Markets |-> 0]
None == [m \in Markets |-> -1]
Init ==
  /\ feed = Zero /\ curve = Zero /\ damm = Zero
  /\ migrated = {} /\ cached = None /\ index = None /\ mark = None
  /\ pc = "idle" /\ at = 1 /\ val = 0 /\ faults = Faults

(* The pool that trades: the curve's price freezes at migration, where the *)
(* DAMM v2 price starts.                                                   *)
Live(m) == IF m \in migrated THEN damm[m] ELSE curve[m]
Bump(f, m) == f[m] < MaxMoves /\ f' = [f EXCEPT ![m] = @ + 1]

Move == \E m \in Markets :
  /\ \/ Bump(feed, m) /\ UNCHANGED <<curve, damm, migrated>>
     \/ m \in External \ migrated /\ Bump(curve, m) /\ UNCHANGED <<feed, damm, migrated>>
     \/ m \in migrated /\ Bump(damm, m) /\ UNCHANGED <<feed, curve, migrated>>
     \/ /\ m \in External \ migrated /\ migrated' = migrated \cup {m}
        /\ damm' = [damm EXCEPT ![m] = curve[m]] /\ UNCHANGED <<feed, curve>>
  /\ UNCHANGED <<cached, index, mark, pc, at, val, faults>>

(* /markets or an earlier run reads the pool through the same cache, and   *)
(* an entry expires after its 10 s.                                        *)
ReadElsewhere == \E m \in External :
  /\ cached[m] = -1 /\ cached' = [cached EXCEPT ![m] = curve[m]]
  /\ UNCHANGED <<world, index, mark, pc, at, val, faults>>
Expire ==
  /\ cached # None /\ cached' = None
  /\ UNCHANGED <<world, index, mark, pc, at, val, faults>>

Start ==
  /\ pc = "idle" /\ pc' = "feed" /\ at' = 1
  /\ UNCHANGED <<world, cached, index, mark, val, faults>>

Leave == /\ pc' = (IF at = Cardinality(Markets) THEN "idle" ELSE "feed")
         /\ at' = (IF at = Cardinality(Markets) THEN 1 ELSE at + 1)
         /\ val' = 0

(* Without a catalog entry or a positive feed the market is skipped.       *)
NoFeed ==
  /\ pc = "feed" /\ at \in Unknown /\ Leave
  /\ UNCHANGED <<world, cached, index, mark, faults>>

ReadFeed ==
  /\ pc = "feed" /\ at \notin Unknown
  /\ val' = feed[at] /\ pc' = "push"
  /\ UNCHANGED <<world, cached, index, mark, at, faults>>

PushIndex ==
  /\ pc = "push"
  /\ index' = [index EXCEPT ![at] = val]
  /\ IF at \in External THEN pc' = "pool" /\ UNCHANGED <<at, val>> ELSE Leave
  /\ UNCHANGED <<world, cached, mark, faults>>

pool_or_stale(m) == IF mark[m] # -1 THEN mark[m] ELSE curve[m]
pool_price(m) == IF cached[m] # -1 THEN cached[m] ELSE curve[m]

(* meteoraPool(dbcPool): the cached price, or the curve pool's and cache it. *)
ReadPool ==
  /\ pc = "pool"
  /\ val' = pool_price(at) /\ pc' = "mark"
  /\ cached' = [cached EXCEPT ![at] = pool_price(at)]
  /\ UNCHANGED <<world, index, mark, at, faults>>

PushMark ==
  /\ pc = "mark"
  /\ mark' = [mark EXCEPT ![at] = val]
  /\ Leave
  /\ UNCHANGED <<world, cached, index, faults>>

next_market == Leave

(* A read or a push fails: the rest of this market is skipped, silently.   *)
CallFails ==
  /\ pc \in {"feed", "push", "pool", "mark"} /\ faults > 0 /\ faults' = faults - 1
  /\ next_market
  /\ UNCHANGED <<world, cached, index, mark>>

Step == Start \/ NoFeed \/ ReadFeed \/ PushIndex \/ ReadPool \/ PushMark
Next == Move \/ ReadElsewhere \/ Expire \/ Step \/ CallFails
Spec == Init /\ [][Next]_vars
(* The timer fires, awaits end, and cache entries expire.                  *)
FairSpec == Spec /\ WF_vars(Step) /\ WF_vars(Expire)

-----------------------------------------------------------------------------
(* Properties. *)

(* Once prices rest, each market with a feed has it pushed, and before     *)
(* migration its mark follows the pool, across failed calls, skipped       *)
(* markets and cached reads.                                               *)
FeedsFollow ==
  \A m \in Markets \ Unknown :
    <>[](/\ index[m] = feed[m]
         /\ m \in External \ migrated => mark[m] = curve[m])

(* index.ts says a migrated market "must read its mark price and liquidity *)
(* from here [the DAMM v2 pool], not from meteoraPool()": the mark pushed  *)
(* for it follows the DAMM v2 pool.                                        *)
MigratedMarkFollows ==
  \A m \in External \ Unknown : <>[](m \in migrated => mark[m] = Live(m))
=============================================================================
