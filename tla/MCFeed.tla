------------------------------- MODULE MCFeed -------------------------------
(***************************************************************************)
(* The feeds side by side for TLC: the poller of an external market's      *)
(* pools (Ingestion, extended), the log subscription of the program's own  *)
(* markets (ProgramFeed) and the rows of /markets (MarketRows). They share *)
(* no state, so a property of one holds of them together when it holds     *)
(* while only that one moves: "part" names the one that does.              *)
(***************************************************************************)
EXTENDS Ingestion

CONSTANT Txs            \* the transactions of the program's market

(* A lone trade, two trades around an index push (a bundled buy and sell), *)
(* and a trade that follows them.                                          *)
MCTxs == <<<<"trade">>, <<"trade", "tick", "trade">>, <<"trade">>>>

(* Without a Helius key there is no webhook: Helius requests break the     *)
(* promise of the feed (DedupedBySignature). A transaction has events.     *)
ASSUME FeedAssumption ==
  /\ MaxSig \in Nat /\ Limit \in Nat /\ FirstLimit \in Nat \ {0}
  /\ Hooks = {}
  /\ Txs \in Seq(Seq({"trade", "tick"}) \ {<<>>})

VARIABLES part,
          landed, notified, pSeen, task, pTrades, ticks, pDisk, pFaults,
          created, listed, curveMigrated, resolved, absent, traded, fed, row, build, rFaults

pVars == <<landed, notified, pSeen, task, pTrades, ticks, pDisk, pFaults>>
rVars == <<created, listed, curveMigrated, resolved, absent, traded, fed, row, build, rFaults>>

(* Each transaction is notified twice, with one market account that cannot *)
(* be fetched and one restart.                                             *)
Program == INSTANCE ProgramFeed
  WITH MaxNotify <- 2, FetchFaults <- 1, MaxCrashes <- 1,
       seen <- pSeen, trades <- pTrades, disk <- pDisk, faults <- pFaults

(* Two markets, one unit of volume each, one read that fails.              *)
Rows == INSTANCE MarketRows
  WITH Markets <- {"a", "b"}, MaxVolume <- 1, Faults <- 1,
       migrated <- curveMigrated, faults <- rFaults

FeedInit == part \in {"poller", "program", "rows"} /\ Init /\ Program!Init /\ Rows!Init

FeedNext ==
  \/ part = "poller" /\ Next /\ UNCHANGED <<part, pVars, rVars>>
  \/ part = "program" /\ Program!Next /\ UNCHANGED <<part, vars, rVars>>
  \/ part = "rows" /\ Rows!Next /\ UNCHANGED <<part, vars, pVars>>

(* The fairness of each module, for the part that moves. *)
FeedSpec ==
  /\ FeedInit /\ [][FeedNext]_<<part, vars, pVars, rVars>>
  /\ WF_vars(part = "poller" /\ \E t \in Ticks : Tick(t))
  /\ \A t \in Ticks : WF_vars(part = "poller" /\ PollStep(t))
  /\ \A x \in Program!Ids : WF_pVars(part = "program" /\ Program!Handle(x))
  /\ \A m \in {"a", "b"} : WF_rVars(part = "rows" /\ Rows!Step(m))

-----------------------------------------------------------------------------
(* The properties of the parts; each holds trivially of a part at rest. *)

(* Poller and log subscription both implement the abstract trade feed: no  *)
(* transaction is recorded twice, none that is no trade, and only a crash  *)
(* forgets one, or the one rebuild of a pool that follows a start;         *)
(* meanwhile the poller's state stays well-formed.                         *)
FeedsRefineTradeFeed == RefinesTradeFeed /\ Program!RefinesTradeFeed /\ []TypeOK

(* In the end the feed has the newest swaps of each pool but for those     *)
(* that could not be fetched, and all swaps if nothing disturbs the poller *)
(* and it keeps up; a task of the log subscription that started stores     *)
(* each of its trades, none of them priced from before it.                 *)
TradesGetRecorded ==
  NewestRecorded /\ EverySwapRecorded /\ Program!TasksFinish /\ []Program!NeverPricedBefore

(* A migrated, listed market ends up priced from its DAMM v2 pool, and the *)
(* 24 h volume shown comes to count every trade of the feed, and no more   *)
(* than was traded.                                                        *)
RowsCatchUp == Rows!MigratedShownLive /\ Rows!VolumeCatchesUp /\ []Rows!VolumeWasTraded
=============================================================================
