---------------------------- MODULE ProgramFeed ----------------------------
(***************************************************************************)
(* How the indexer follows the program's own markets (subscribe and        *)
(* handleEvent of src/indexer/src/index.ts): every log notification starts *)
(* a task that handles the transaction's events one after the other, and a *)
(* trade event awaits the market account to price the trade. The price of  *)
(* the market is abstracted to the number of trades so far, so that each   *)
(* spot names the trade it follows; 0 stands for the fill's own average.   *)
(* Failed transactions (logs.err) and unknown events leave no trace.       *)
(***************************************************************************)
EXTENDS Integers, Sequences, FiniteSets, SequencesExt

CONSTANTS Txs,           \* Txs[x]: the kinds of the events of transaction x
          MaxNotify,     \* bound: notifications of one signature
          FetchFaults,   \* bound: market accounts that cannot be fetched
          MaxCrashes     \* bound: restarts

VARIABLES landed,        \* transactions on chain
          notified,      \* notified[x]: notifications still to come
          seen,          \* seenSigs
          task,          \* task[x]: number of the event in hand, 0 if none
          trades, ticks, \* the market store: trades, and index or funding ticks
          disk,          \* the saved trades
          faults

vars == <<landed, notified, seen, task, trades, ticks, disk, faults>>

Ids == DOMAIN Txs
Trades == UNION {{<<x, i>> : i \in {j \in DOMAIN Txs[x] : Txs[x][j] = "trade"}} : x \in Ids}
Landed == {e \in Trades : e[1] <= landed}

(* The market's spot once trade e is in: how many trades led to it. *)
SpotAfter(e) == Cardinality({f \in Trades : f[1] < e[1] \/ (f[1] = e[1] /\ f[2] <= e[2])})

Init ==
  /\ landed = 0 /\ seen = {}
  /\ notified = [x \in Ids |-> MaxNotify]
  /\ task = [x \in Ids |-> 0]
  /\ trades = <<>> /\ ticks = <<>> /\ disk = <<>>
  /\ faults = [fetch |-> FetchFaults, crash |-> MaxCrashes]

Land ==
  /\ landed < Cardinality(Ids)
  /\ landed' = landed + 1
  /\ UNCHANGED <<notified, seen, task, trades, ticks, disk, faults>>

(* A notification of a new signature starts a task; a repeated one is dropped. *)
unseen_tasks(x) == task[x] = 0
unseen(x) == x \notin seen

Notify(x) ==
  /\ x <= landed /\ notified[x] > 0
  /\ notified' = [notified EXCEPT ![x] = @ - 1]
  /\ IF unseen(x)
     THEN seen' = seen \cup {x} /\ task' = [task EXCEPT ![x] = 1]
     ELSE UNCHANGED <<seen, task>>
  /\ UNCHANGED <<landed, trades, ticks, disk, faults>>

Working(x, kind) == task[x] > 0 /\ Txs[x][task[x]] = kind
advance_once(x) == 0
advance(x) == IF task[x] < Len(Txs[x]) THEN task[x] + 1 ELSE 0
Advance(x) == task' = [task EXCEPT ![x] = advance(x)]

price_stale(spot) == spot - 1
price_now(spot) == spot

(* The account arrives: the trade is priced at the spot of this moment.    *)
HandleTrade(x) ==
  /\ Working(x, "trade")
  /\ trades' = Append(trades, [tx |-> x, ev |-> task[x], price |-> price_now(Cardinality(Landed))])
  /\ Advance(x)
  /\ UNCHANGED <<landed, notified, seen, ticks, disk, faults>>

(* The account cannot be fetched: the trade keeps the fill's average.      *)
HandleTradeBlind(x) ==
  /\ Working(x, "trade") /\ faults.fetch > 0
  /\ faults' = [faults EXCEPT !.fetch = @ - 1]
  /\ trades' = Append(trades, [tx |-> x, ev |-> task[x], price |-> 0])
  /\ Advance(x)
  /\ UNCHANGED <<landed, notified, seen, ticks, disk>>

(* Index pushes and funding ticks are stored at once. *)
HandleTick(x) ==
  /\ Working(x, "tick")
  /\ ticks' = Append(ticks, <<x, task[x]>>)
  /\ Advance(x)
  /\ UNCHANGED <<landed, notified, seen, trades, disk, faults>>

Persist ==
  /\ disk # trades /\ disk' = trades
  /\ UNCHANGED <<landed, notified, seen, task, trades, ticks, faults>>

(* A restart subscribes anew: what was delivered before is not sent again. *)
Restart ==
  /\ faults.crash > 0 /\ faults' = [faults EXCEPT !.crash = @ - 1]
  /\ trades' = disk /\ ticks' = <<>>
  /\ seen' = {} /\ task' = [x \in Ids |-> 0]
  /\ notified' = [x \in Ids |-> IF x \in seen THEN 0 ELSE notified[x]]
  /\ UNCHANGED <<landed, disk>>

Handle(x) == HandleTrade(x) \/ HandleTick(x)
Next ==
  \/ Land \/ Persist \/ Restart
  \/ \E x \in Ids : Notify(x) \/ Handle(x) \/ HandleTradeBlind(x)

Spec == Init /\ [][Next]_vars

(* Awaits return: a task that started goes on. *)
FairSpec == Spec /\ \A x \in Ids : WF_vars(Handle(x))

-----------------------------------------------------------------------------
(* Properties. *)

Recorded(e) == \E i \in DOMAIN trades : trades[i].tx = e[1] /\ trades[i].ev = e[2]
Copies(ts) == [e \in Trades |-> Cardinality({i \in DOMAIN ts : <<ts[i].tx, ts[i].ev>> = e})]

(* Repeated notifications and restarts never record a trade twice, nothing *)
(* is recorded that did not happen, and nothing is ever rebuilt: a stored  *)
(* trade stays unless the process restarts.                                *)
Promise == INSTANCE TradeFeed
  WITH Swaps <- Trades, Pools <- {"program"}, Rebuilt <- {}, due <- {},
       happened <- [p \in {"program"} |-> Landed],
       feed <- Copies(trades), saved <- Copies(disk)
RefinesTradeFeed == Promise!Spec

(* However tasks interleave, a trade's price is its own average or a spot  *)
(* the market had at that trade or later, never one from before it.        *)
NeverPricedBefore ==
  \A i \in DOMAIN trades : LET t == trades[i] IN
    t.price # 0 => SpotAfter(<<t.tx, t.ev>>) <= t.price /\ t.price <= Cardinality(Landed)

(* A task that started ends with each of its trades stored, unless the     *)
(* process restarts.                                                       *)
TasksFinish ==
  \A e \in Trades : (e[1] \in seen) ~> (Recorded(e) \/ faults.crash < MaxCrashes)

(* handleEvent says a trade's price is "the market's SPOT after this trade". *)
PricedAfterTrade ==
  \A i \in DOMAIN trades : trades[i].price \in {0, SpotAfter(<<trades[i].tx, trades[i].ev>>)}
=============================================================================
