----------------------------- MODULE MCKeepers -----------------------------
(***************************************************************************)
(* The timers that look after the markets, side by side for TLC: sweepFees *)
(* and autoGraduate (Keepers, extended), the sync of the Helius webhook    *)
(* (WebhookSync), refreshOracles (OracleRefresh), the relayer's push       *)
(* cycles (Relayer) and the board that shows the prices pushed             *)
(* (PriceBoard). They share no state, nor do the two keepers, so one part  *)
(* moves at a time: "part" names it.                                       *)
(***************************************************************************)
EXTENDS Keepers

VARIABLES part,
          hooks, listed, id, syncPc, pools, dups, syncFaults,
          feed, curve, damm, migrated, cached, index, mark, pc, at, val, refreshFaults,
          price, pool, pushedIndex, pushedMark, cycle, relayFaults,
          floor, rate, atLaunch, twap, pushed, board, moves

syncVars == <<hooks, listed, id, syncPc, pools, dups, syncFaults>>
refreshVars == <<feed, curve, damm, migrated, cached, index, mark, pc, at, val, refreshFaults>>
relayVars == <<price, pool, pushedIndex, pushedMark, cycle, relayFaults>>
boardVars == <<floor, rate, atLaunch, twap, pushed, board, moves>>

(* Two pools and two leftover webhooks; three calls that throw, a list     *)
(* that arrives as something else, a failed deletion, two restarts.        *)
Helius == INSTANCE WebhookSync
  WITH Pools <- {"a", "b"}, MaxHooks <- 5, Inherited <- 2, CallFaults <- 3,
       Garbled <- 1, DeleteFaults <- 1, MaxRestarts <- 2, pc <- syncPc, faults <- syncFaults

(* An unknown underlying, an external market and a plain one.              *)
Refresh == INSTANCE OracleRefresh
  WITH Markets <- 1..3, External <- {2}, Unknown <- {1}, MaxMoves <- 1, Faults <- 2,
       faults <- refreshFaults

(* A card with a broken source, a gated NFT and one with a pool.           *)
Relay == INSTANCE Relayer
  WITH Markets <- 1..3, Cards <- {1}, External <- {3}, Broken <- {1}, Gated <- {2},
       Cycles <- {1, 2}, MaxTries <- 2, MaxMoves <- 1, Faults <- 1,
       index <- pushedIndex, mark <- pushedMark, faults <- relayFaults

(* Two markets on a collection, one on a card priced in dollars.           *)
Board == INSTANCE PriceBoard
  WITH Nfts <- {"a"}, Cards <- {"c"}, Market <- <<"a", "a", "c">>,
       Snapshot <- [a |-> 30, c |-> 3], Prices <- {20, 33}, Rates <- {7, 11},
       LaunchIndex <- 10, MaxMoves <- 2

GradNext ==
  \/ \E m \in Markets : Trade(m) \/ FirstPush(m) \/ SetFrozen(m)
  \/ \E r \in Grads : GradStep(r) \/ GraduateFails(r)

(* In "one_sweep" a single run sweeps, in "sweeps" runs overlap.           *)
SweepNext(runs) ==
  \/ \E m \in Markets : Earn(m)
  \/ \E r \in runs : SweepStep(r) \/ TransferFails(r)

KeepersInit ==
  /\ part \in {"graduation", "one_sweep", "sweeps", "webhook", "oracle", "relayer", "board"}
  /\ KeeperInit /\ Helius!Init /\ Refresh!Init /\ Relay!Init
  /\ Board!Init
  /\ part = "board" \/ (floor = [u \in {"a"} |-> 20] /\ rate = 7)

KeepersNext ==
  /\ UNCHANGED part
  /\ \/ /\ \/ part = "graduation" /\ GradNext
           \/ part = "one_sweep" /\ SweepNext({CHOOSE r \in Sweeps : TRUE})
           \/ part = "sweeps" /\ SweepNext(Sweeps)
        /\ UNCHANGED <<syncVars, refreshVars, relayVars, boardVars>>
     \/ part = "webhook" /\ Helius!Next /\ UNCHANGED <<keeperVars, refreshVars, relayVars, boardVars>>
     \/ part = "oracle" /\ Refresh!Next /\ UNCHANGED <<keeperVars, syncVars, relayVars, boardVars>>
     \/ part = "relayer" /\ Relay!Next /\ UNCHANGED <<keeperVars, syncVars, refreshVars, boardVars>>
     \/ part = "board" /\ Board!Next /\ UNCHANGED <<keeperVars, syncVars, refreshVars, relayVars>>

(* The fairness of each module, for the part that moves. *)
KeepersSpec ==
  /\ KeepersInit /\ [][KeepersNext]_<<part, keeperVars, syncVars, refreshVars, relayVars, boardVars>>
  /\ \A r \in Grads : WF_keeperVars(part = "graduation" /\ GradStep(r))
  /\ \A r \in Sweeps : WF_keeperVars(part = "sweeps" /\ SweepStep(r))
  /\ WF_keeperVars(part = "one_sweep" /\ SweepStep(CHOOSE r \in Sweeps : TRUE))
  /\ WF_syncVars(part = "webhook" /\ Helius!Sync)
  /\ WF_refreshVars(part = "oracle" /\ Refresh!Step)
  /\ WF_refreshVars(part = "oracle" /\ Refresh!Expire)
  /\ \A c \in {1, 2} : WF_relayVars(part = "relayer" /\ Relay!Step(c))

-----------------------------------------------------------------------------
(* The properties of the parts; each holds trivially of a part at rest. *)

(* A market that reached its target, has an index and is not frozen        *)
(* graduates, and fees worth a transfer are swept, although runs overlap   *)
(* and calls fail; one run at a time splits them evenly.                   *)
KeepersGetThere ==
  /\ TargetReachedGraduates /\ FeesGetSwept
  /\ [](part = "one_sweep" => EvenSplit)

(* All listed pools end up watched, by one webhook when syncs are orderly, *)
(* across restarts, failed calls and garbled answers.                      *)
WebhookConverges == Helius!ListedPoolsWatched /\ Helius!OneWebhook

(* Once prices rest, refreshOracles and the relayer have pushed them,      *)
(* although a source before them fails; and the price the board recovers   *)
(* from an index is the one pushed, to half a step.                        *)
PricesFollow ==
  /\ [](Board!PriceRecovered /\ Board!MarketsAgree /\ Board!SpreadIsHonest)
  /\ part = "oracle" => Refresh!FeedsFollow
  /\ part = "relayer" => Relay!FeedsFollow
=============================================================================
