----------------------------- MODULE Ingestion -----------------------------
(***************************************************************************)
(* How the indexer ingests the Meteora swaps of one external market        *)
(* (src/indexer/src/index.ts): a timer polls the bonding-curve pool and,   *)
(* after migration, the DAMM v2 pool; Helius pushes the same signatures    *)
(* to a webhook; the feed is saved on a timer and the process may restart. *)
(* Node runs one callback at a time, so every action is the code between   *)
(* two awaits. Signatures are numbered in block order, which is the order  *)
(* of their timestamps; a transaction touches one of the two pools.        *)
(***************************************************************************)
EXTENDS Integers, Sequences, FiniteSets, SequencesExt

CONSTANTS MaxSig,          \* bound: signatures 1..MaxSig appear on chain
          Failed,        \* signatures of failed transactions (s.err)
          NotSwap,       \* signatures that parse to no swap
          Ticks,         \* timer callbacks that may overlap
          Hooks,         \* webhook requests that may overlap
          Limit,         \* signatures one poll reads (25 in the code)
          FirstLimit,    \* ... of which a pool's first poll reads more (200, 400)
          ListFaults,    \* bound: listings that fail
          FetchFaults,   \* bound: transactions the poller cannot fetch
          HookFaults,    \* bound: transactions the webhook cannot fetch
          MaxCrashes     \* bound: restarts

VARIABLES chain,         \* chain[p]: the signatures of pool p, oldest first
          migrated,      \* liquidity moved to the DAMM v2 pool
          trades,        \* the feed: sequence of [sig, phase]
          seen,          \* seenSigs
          cursor,        \* meteoraLastSig
          polling,       \* meteoraPolling
          poll,          \* poll[t]: where the callback of tick t is
          hook,          \* hook[h]: the signature request h is fetching, or 0
          disk,          \* the saved feed
          faults         \* remaining faults of each kind

vars == <<chain, migrated, trades, seen, cursor, polling, poll, hook, disk, faults>>
env == <<chain, migrated, disk>>

Sigs == 1..MaxSig
Pools == {"meteora", "meteora_amm"}      \* a pool is named by its phase
Idle == [pc |-> "idle", pool |-> "meteora", first |-> FALSE, list |-> <<>>, rest |-> <<>>]

Init ==
  /\ chain = [p \in Pools |-> <<>>]
  /\ migrated = FALSE
  /\ trades = <<>> /\ disk = <<>>
  /\ seen = {}
  /\ cursor = [p \in Pools |-> 0]
  /\ polling = FALSE
  /\ poll = [t \in Ticks |-> Idle]
  /\ hook = [h \in Hooks |-> 0]
  /\ faults = [list |-> ListFaults, fetch |-> FetchFaults, hook |-> HookFaults, crash |-> MaxCrashes]

Fault(kind) == faults[kind] > 0 /\ faults' = [faults EXCEPT ![kind] = @ - 1]

-----------------------------------------------------------------------------
(* The pools. *)

OnChain == ToSet(chain["meteora"]) \cup ToSet(chain["meteora_amm"])
Live == IF migrated THEN "meteora_amm" ELSE "meteora"

(* A transaction lands on the live pool. *)
Swap ==
  /\ Cardinality(OnChain) < MaxSig
  /\ chain' = [chain EXCEPT ![Live] = Append(@, Cardinality(OnChain) + 1)]
  /\ UNCHANGED <<migrated, trades, seen, cursor, polling, poll, hook, disk, faults>>

Migrate ==
  /\ ~migrated /\ migrated' = TRUE
  /\ UNCHANGED <<chain, trades, seen, cursor, polling, poll, hook, disk, faults>>

(* getSignaturesForAddress: the newest signatures, newest first. *)
newest_all(s, limit) == Reverse(s)
Newest(s, limit) == Reverse(SubSeq(s, IF Len(s) > limit THEN Len(s) - limit + 1 ELSE 1, Len(s)))

-----------------------------------------------------------------------------
(* The poller. *)

may_poll_always(busy) == TRUE
may_poll(busy) == ~busy                  \* the re-entrancy guard

At(pool) == [Idle EXCEPT !.pc = "listing", !.pool = pool, !.first = (cursor[pool] = 0)]

(* The timer fires: whether this is the pool's first poll is decided now. *)
Tick(t) ==
  /\ poll[t].pc = "idle" /\ may_poll(polling)
  /\ polling' = TRUE
  /\ poll' = [poll EXCEPT ![t] = At("meteora")]
  /\ UNCHANGED <<env, trades, seen, cursor, hook, faults>>

(* The RPC node answers; the callback runs later. *)
List(t) ==
  LET p == poll[t] IN
  /\ p.pc = "listing"
  /\ poll' = [poll EXCEPT ![t].pc = "listed",
                ![t].list = Newest(chain[p.pool], IF p.first THEN FirstLimit ELSE Limit)]
  /\ UNCHANGED <<env, trades, seen, cursor, polling, hook, faults>>

(* A listing or a vault lookup fails: the tick is over. *)
ListFails(t) ==
  /\ poll[t].pc = "listing" /\ Fault("list")
  /\ polling' = FALSE /\ poll' = [poll EXCEPT ![t] = Idle]
  /\ UNCHANGED <<env, trades, seen, cursor, hook>>

(* The elements of s in the order of their ranks, and those at the indexes *)
(* in kept. (SelectSeq and SortSeq in a form that can be reasoned about.)  *)
Ranked(s, rank) == [n \in 1..Cardinality(DOMAIN rank) |-> s[CHOOSE i \in DOMAIN rank : rank[i] = n]]
Kept(s, kept) == Ranked(s, [i \in kept |-> Cardinality({j \in kept : j <= i})])

WithoutPhase(ts, p) == Kept(ts, {i \in DOMAIN ts : ts[i].phase # p})

(* The signatures newer than the cursor, oldest first; a first poll takes all. *)
Fresh(list, first, last) ==
  LET newer(i) == first \/ \A j \in 1..i : list[j] # last
  IN  Reverse(Kept(list, {i \in DOMAIN list : newer(i) /\ list[i] \notin Failed}))

(* A first poll rebuilds: it drops the pool's trades before it reads them. *)
Merge(t) ==
  LET p == poll[t] IN
  /\ p.pc = "listed"
  /\ trades' = IF p.first THEN WithoutPhase(trades, p.pool) ELSE trades
  /\ poll' = [poll EXCEPT ![t].pc = "next",
                          ![t].rest = Fresh(p.list, p.first, cursor[p.pool])]
  /\ UNCHANGED <<env, seen, cursor, polling, hook, faults>>

(* A signature already seen is skipped, except by a first poll. *)
Skip(t) ==
  LET p == poll[t] IN
  /\ p.pc = "next" /\ p.rest # <<>>
  /\ ~p.first /\ Head(p.rest) \in seen
  /\ poll' = [poll EXCEPT ![t].rest = Tail(@)]
  /\ UNCHANGED <<env, trades, seen, cursor, polling, hook, faults>>

(* The signature is marked as seen before its transaction is fetched. *)
Take(t) ==
  LET p == poll[t] IN
  /\ p.pc = "next" /\ p.rest # <<>>
  /\ p.first \/ Head(p.rest) \notin seen
  /\ seen' = seen \cup {Head(p.rest)}
  /\ poll' = [poll EXCEPT ![t].pc = "fetching"]
  /\ UNCHANGED <<env, trades, cursor, polling, hook, faults>>

(* A parsed swap joins the feed; any other transaction leaves it alone. *)
Feed(s, phase) ==
  trades' = IF s \in NotSwap \cup Failed THEN trades ELSE Append(trades, [sig |-> s, phase |-> phase])

Fetched(t) == poll' = [poll EXCEPT ![t].pc = "next", ![t].rest = Tail(@)]

Record(t) ==
  /\ poll[t].pc = "fetching"
  /\ Feed(Head(poll[t].rest), poll[t].pool)
  /\ Fetched(t)
  /\ UNCHANGED <<env, seen, cursor, polling, hook, faults>>

(* The fetch throws or finds nothing: the loop goes on to the next one. *)
FetchFails(t) ==
  /\ poll[t].pc = "fetching" /\ Fault("fetch")
  /\ Fetched(t)
  /\ UNCHANGED <<env, trades, seen, cursor, polling, hook>>

NotAfter(ts, j, i) == ts[j].sig < ts[i].sig \/ (ts[j].sig = ts[i].sig /\ j <= i)
ByTime(ts) == Ranked(ts, [i \in DOMAIN ts |-> Cardinality({j \in DOMAIN ts : NotAfter(ts, j, i)})])

next_cursor_latest(list, pool, old) == IF chain[pool] # <<>> THEN Last(chain[pool]) ELSE old
next_cursor(list, pool, old) == IF list # <<>> THEN Head(list) ELSE old

(* All signatures done: the cursor moves to the newest one listed. After   *)
(* the curve pool the same tick polls the DAMM v2 pool, if there is one.   *)
Done(t) ==
  LET p == poll[t]
      more == p.pool = "meteora" /\ migrated
  IN
  /\ p.pc = "next" /\ p.rest = <<>>
  /\ trades' = IF p.first THEN ByTime(trades) ELSE trades
  /\ cursor' = [cursor EXCEPT ![p.pool] = next_cursor(p.list, p.pool, @)]
  /\ poll' = [poll EXCEPT ![t] = IF more THEN At("meteora_amm") ELSE Idle]
  /\ polling' = more
  /\ UNCHANGED <<env, seen, hook, faults>>

-----------------------------------------------------------------------------
(* The webhook: Helius watches the curve pools and may deliver again.      *)

unseen_always(s) == TRUE
unseen(s) == s \notin seen

HookDeliver(h) ==
  /\ hook[h] = 0
  /\ \E s \in ToSet(chain["meteora"]) : unseen(s) /\ hook' = [hook EXCEPT ![h] = s]
  /\ UNCHANGED <<env, trades, seen, cursor, polling, poll, faults>>

(* After the fetch the signature is added and the swap fed, unchecked. *)
HookRecord(h) ==
  /\ hook[h] # 0
  /\ Feed(hook[h], "meteora")
  /\ seen' = IF hook[h] \in NotSwap \cup Failed THEN seen ELSE seen \cup {hook[h]}
  /\ hook' = [hook EXCEPT ![h] = 0]
  /\ UNCHANGED <<env, cursor, polling, poll, faults>>

HookFails(h) ==
  /\ hook[h] # 0 /\ Fault("hook")
  /\ hook' = [hook EXCEPT ![h] = 0]
  /\ UNCHANGED <<env, trades, seen, cursor, polling, poll>>

-----------------------------------------------------------------------------
(* The process: only the market stores are on disk.                        *)

Persist ==
  /\ disk # trades /\ disk' = trades
  /\ UNCHANGED <<chain, migrated, trades, seen, cursor, polling, poll, hook, faults>>

Restart ==
  /\ Fault("crash")
  /\ trades' = disk
  /\ seen' = {} /\ cursor' = [p \in Pools |-> 0]
  /\ polling' = FALSE /\ poll' = [t \in Ticks |-> Idle]
  /\ hook' = [h \in Hooks |-> 0]
  /\ UNCHANGED env

PollStep(t) == List(t) \/ Merge(t) \/ Skip(t) \/ Take(t) \/ Record(t) \/ Done(t)

Next ==
  \/ Swap \/ Migrate
  \/ \E t \in Ticks : Tick(t) \/ PollStep(t) \/ ListFails(t) \/ FetchFails(t)
  \/ \E h \in Hooks : HookDeliver(h) \/ HookRecord(h) \/ HookFails(h)
  \/ Persist \/ Restart

Spec == Init /\ [][Next]_vars

(* The timer keeps firing, the RPC node answers and the event loop runs    *)
(* what is ready. Nothing is assumed of swaps, webhooks, saves or faults.  *)
FairSpec ==
  Spec /\ WF_vars(\E t \in Ticks : Tick(t)) /\ \A t \in Ticks : WF_vars(PollStep(t))

-----------------------------------------------------------------------------
(* Properties. *)

Swaps == Sigs \ (Failed \cup NotSwap)
Copies(s, ts) == Cardinality({i \in DOMAIN ts : ts[i].sig = s})
Recorded(s) == Copies(s, trades) > 0

(* Types, and the bound on what one poll reads. *)
TypeOK ==
  /\ chain \in [Pools -> Seq(Sigs)] /\ migrated \in BOOLEAN /\ polling \in BOOLEAN
  /\ {trades, disk} \subseteq Seq([sig : Swaps, phase : Pools])
  /\ seen \subseteq Sigs /\ cursor \in [Pools -> 0..MaxSig]
  /\ hook \in [Hooks -> 0..MaxSig]
  /\ \A t \in Ticks : Len(poll[t].list) <= IF poll[t].first THEN FirstLimit ELSE Limit

(* The pools whose rebuild is due: neither read to the end nor begun to be *)
(* read. A listing with nothing in it counts for neither.                  *)
Rereading(t) == poll[t].pc \in {"next", "fetching"} /\ poll[t].list # <<>>
DueRebuilds == {p \in Pools : cursor[p] = 0 /\ \A t \in Ticks : Rereading(t) => poll[t].pool # p}

(* The poller alone keeps the promise of TradeFeed: overlapping timers, a  *)
(* rebuild in several steps, migration and restarts never put a swap into  *)
(* the feed twice (the re-entrancy guard of pollMeteoraTrades), and no     *)
(* poll forgets one but a pool's first after a start.                      *)
Promise == INSTANCE TradeFeed
  WITH Rebuilt <- Pools,
       happened <- [p \in Pools |-> ToSet(chain[p]) \cap Swaps],
       feed <- [s \in Swaps |-> Copies(s, trades)],
       saved <- [s \in Swaps |-> Copies(s, disk)],
       due <- DueRebuilds
RefinesTradeFeed == Promise!Spec

(* Whatever bursts, failed listings, migration and restarts there are, the *)
(* newest swaps of each pool, as many as a poll lists, end up in the feed, *)
(* but for as many as fetches have failed. (Older ones are missed for good *)
(* when a burst exceeds a listing, or a rebuild does not reach them.)      *)
NewestSwaps == Swaps \cap UNION {ToSet(Newest(chain[p], Limit)) : p \in Pools}
NewestRecorded ==
  <>[](Cardinality({s \in NewestSwaps : ~Recorded(s)}) <= FetchFaults - faults.fetch)

(* Every swap ends up in the feed for good if the process does not start   *)
(* again, no fetch fails and the signatures of a pool never exceed those   *)
(* of its last poll by more than a listing holds.                          *)
Undisturbed ==
  /\ faults.crash = MaxCrashes /\ faults.fetch = FetchFaults
  /\ \A p \in Pools : Cardinality({s \in ToSet(chain[p]) : s > cursor[p]}) <= Limit
EverySwapRecorded == []Undisturbed => \A s \in Swaps : (s \in OnChain) ~> [](Recorded(s))

(* How many copies of s the feed has or is about to get: requests that are *)
(* fetching it, and a poll that fetches it or, rebuilding, will.           *)
Coming(s) ==
  Cardinality({h \in Hooks : hook[h] = s})
    + Cardinality({t \in Ticks :
        /\ poll[t].rest # <<>> /\ poll[t].pc \in {"next", "fetching"}
        /\ \/ poll[t].pc = "fetching" /\ Head(poll[t].rest) = s
           \/ poll[t].first /\ s \in ToSet(poll[t].rest)})
CopiesInSight(s) == Copies(s, trades) + Coming(s)

(* What the check of seenSigs is worth: once a signature was seen and the  *)
(* rebuild of its pool has begun, neither a repeated delivery nor a later  *)
(* poll adds a copy to those that the feed has or is about to get, until   *)
(* the next start. (Requests that checked before it was seen add theirs:   *)
(* DedupedBySignature.)                                                    *)
NoCopyOnceSeen ==
  [][\A p \in Pools \ DueRebuilds : \A s \in Swaps \cap ToSet(chain[p]) \cap seen \cap seen' :
       CopiesInSight(s)' <= CopiesInSight(s)]_vars

(* index.ts says the webhook's trades are "deduped against the poller by   *)
(* signature": no swap is in the feed twice.                               *)
DedupedBySignature == \A s \in Swaps : Copies(s, trades) <= 1
=============================================================================
