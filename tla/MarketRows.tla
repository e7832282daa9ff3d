----------------------------- MODULE MarketRows -----------------------------
(***************************************************************************)
(* What /markets shows (src/indexer/src/index.ts): one row per market that *)
(* exists on chain and is in the listings, priced from the DAMM v2 pool    *)
(* once dammV2Vaults has found it (and keeps it for good), else from the   *)
(* curve pool, else from the chain, with the larger of two 24 h volumes.   *)
(* A row is built in steps, between which markets launch, migrate and      *)
(* trade; every read may fail. Each request that rebuilds is one builder.  *)
(***************************************************************************)
EXTENDS Naturals, FiniteSets

CONSTANTS Markets,       \* external markets that may launch
          MaxVolume,     \* bound: SOL traded
          Faults         \* bound: reads that fail

VARIABLES created,       \* markets on chain
          listed,        \* markets in the listings file
          migrated,      \* markets whose curve pool has migrated
          resolved,      \* dammV2Cache: markets with a resolved entry
          absent,        \* ... and with a cached absence: the code caches none
          traded, fed,   \* traded volume, and the part of it in the feed
          row,           \* row[m]: [price, volume] shown, price "none" if no row
          build,         \* the row under way: [pc, v2, volume]
          faults

vars == <<created, listed, migrated, resolved, absent, traded, fed, row, build, faults>>
env == <<created, listed, migrated, traded, fed>>

NoRow == [price |-> "none", volume |-> 0]
NoBuild == [pc |-> "idle", v2 |-> FALSE, volume |-> 0]
Zero == [m \in Markets |-> 0]

Init ==
  /\ created = {} /\ listed = {} /\ migrated = {} /\ resolved = {} /\ absent = {}
  /\ traded = Zero /\ fed = Zero
  /\ row = [m \in Markets |-> NoRow] /\ build = [m \in Markets |-> NoBuild]
  /\ faults = Faults

Fault == faults > 0 /\ faults' = faults - 1

-----------------------------------------------------------------------------
(* Launches create the market first and list it last; pools migrate; swaps *)
(* reach the feed, if at all, later.                                       *)

Create(m) == created' = created \cup {m} /\ UNCHANGED <<listed, migrated, traded, fed>>
List(m) == m \in created /\ listed' = listed \cup {m} /\ UNCHANGED <<created, migrated, traded, fed>>
Migrate(m) == m \in created /\ migrated' = migrated \cup {m} /\ UNCHANGED <<created, listed, traded, fed>>
Trade(m) == /\ m \in created /\ traded[m] < MaxVolume
            /\ traded' = [traded EXCEPT ![m] = @ + 1] /\ UNCHANGED <<created, listed, migrated, fed>>
Ingest(m) == /\ fed[m] < traded[m]
             /\ fed' = [fed EXCEPT ![m] = @ + 1] /\ UNCHANGED <<created, listed, migrated, traded>>

World == \E m \in Markets :
  /\ Create(m) \/ List(m) \/ Migrate(m) \/ Trade(m) \/ Ingest(m)
  /\ UNCHANGED <<resolved, absent, row, build, faults>>

-----------------------------------------------------------------------------
(* /markets *)

shown(m) == m \in created \cap listed

own_volume_none(m) == 0
own_volume(m) == fed[m]

(* A rebuild takes up the markets that are on chain and listed, and reads  *)
(* the volume of the feed at once, before the row's first await.           *)
Start(m) ==
  /\ build[m].pc = "idle" /\ shown(m)
  /\ build' = [build EXCEPT ![m] = [pc |-> "resolve", v2 |-> FALSE, volume |-> own_volume(m)]]
  /\ UNCHANGED <<env, resolved, absent, row, faults>>

absent_cached(m) == IF m \in migrated THEN absent ELSE absent \cup {m}
absent_after(m) == absent

(* dammV2Vaults: the resolved entry, else a look at the curve pool; only   *)
(* an entry is cached, so a market not migrated yet is looked at again.    *)
Resolve(m) ==
  /\ build[m].pc = "resolve"
  /\ resolved' = IF m \in migrated \ absent THEN resolved \cup {m} ELSE resolved
  /\ absent' = absent_after(m)
  /\ build' = [build EXCEPT ![m].pc = "price", ![m].v2 = (m \in resolved')]
  /\ UNCHANGED <<env, row, faults>>

(* The look fails: the market counts as not migrated, unless resolved.     *)
ResolveFails(m) ==
  /\ build[m].pc = "resolve" /\ m \notin resolved /\ Fault
  /\ build' = [build EXCEPT ![m].pc = "price"]
  /\ UNCHANGED <<env, resolved, absent, row>>

price_source(v2) == IF v2 THEN "damm" ELSE "curve"
volume24h_dex(own, dex) == dex
volume24h(own, dex) == IF dex > own THEN dex ELSE own

(* The pool is read and then DexScreener, and the row shown; a pool that   *)
(* cannot be read leaves the on-chain price, a DexScreener that cannot be  *)
(* read (dex = 0) the volume the row began with.                           *)
Price(m, poolRead, dex) ==
  /\ build[m].pc = "price"
  /\ row' = [row EXCEPT ![m] =
       [price |-> IF poolRead THEN price_source(build[m].v2) ELSE "chain",
        volume |-> volume24h(build[m].volume, dex)]]
  /\ build' = [build EXCEPT ![m] = NoBuild]
  /\ UNCHANGED <<env, resolved, absent>>

Show(m) == \E dex \in 0..traded[m] : Price(m, TRUE, dex) /\ UNCHANGED faults
ShowUnread(m) == \E dex \in 0..traded[m] : Price(m, FALSE, dex) /\ Fault

Step(m) == Start(m) \/ Resolve(m) \/ Show(m)
Next == World \/ \E m \in Markets : Step(m) \/ ResolveFails(m) \/ ShowUnread(m)

Spec == Init /\ [][Next]_vars
(* /markets keeps being asked for and reads end. *)
FairSpec == Spec /\ \A m \in Markets : WF_vars(Step(m))

-----------------------------------------------------------------------------
(* Properties. *)

(* Every migrated, listed market is shown at its DAMM v2 pool's price or   *)
(* the chain's for good: a market looked at before it migrated is looked   *)
(* at again.                                                               *)
MigratedShownLive ==
  \A m \in Markets : (m \in migrated \cap listed) ~> [](row[m].price \in {"damm", "chain"})

(* A trade that reached the feed counts in the volume shown, in the end    *)
(* and for good (as long as it is less than a day old): a row that began   *)
(* before it is shown without it, later rows have it, and a DexScreener    *)
(* that knows less, or nothing, takes it from none.                        *)
VolumeCatchesUp ==
  \A m \in Markets, v \in 1..MaxVolume :
    (m \in created \cap listed /\ fed[m] >= v) ~> [](row[m].volume >= v)

(* No row shows more volume than was traded. *)
VolumeWasTraded == \A m \in Markets : row[m].volume <= traded[m]
=============================================================================
