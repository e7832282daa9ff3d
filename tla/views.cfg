CONSTANTS
  Readers = {1, 2}
  Kinds = {"pool", "body", "dex", "floor", "sol"}
  Ttl <- MCTtl
  MaxWait = 1
  MaxAge = 7
  MaxFees = 6
  Faults = 1
  MaxSig = 3
  Failed = {}
  NotSwap = {2}
  Ticks = {1}
  Hooks = {1, 2}
  Limit = 2
  FirstLimit = 4
  Tokens = {1}
  Sols = {1, 2}
  MaxTxs = 3
  MaxTime = 2
  Width = 2
  Shown = 1
  MaxAccount = 4
  Wallets = {"w1", "w2"}
  Vaults = {"pool"}
  MaxAmount = 2
  MaxAsset = 3
  CardKeys = {"c1", "c2"}
  Grades = {"g9", "g10"}
  NoGrade = "none"
  Collections = {"punks"}
  Catalog <- MCCatalog
  Group <- MCGroup
  Price <- MCPrice
  MinListings = 2
  MinFloorUsd = 2
  Candidates = {"a", "b", "c"}
  Volume <- MCVolume
  MinVolume = 2
  Prices = {4, 5, 20}
  MaxSales = 4
  MaxAsks = 5
  Lookback = 3
  minSales = 3
  maxDisagreementBps = 3000
  PageSize = 2
  PageCap = 3
  MaxMoves = 1
SPECIFICATION ViewsSpec
INVARIANTS TradesAreShown PagedAnswersTrue
PROPERTIES CachesAreFresh EstimateIsRobust SeenSwapsAreDeduped
CHECK_DEADLOCK FALSE
