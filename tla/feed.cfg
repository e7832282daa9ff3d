CONSTANTS
  MaxSig = 4
  Failed = {2}
  NotSwap = {}
  Ticks = {1, 2}
  Hooks = {}
  Limit = 2
  FirstLimit = 3
  ListFaults = 1
  FetchFaults = 1
  HookFaults = 0
  MaxCrashes = 1
  Txs <- MCTxs
SPECIFICATION FeedSpec
PROPERTIES FeedsRefineTradeFeed TradesGetRecorded RowsCatchUp
CHECK_DEADLOCK FALSE
