CONSTANTS
  None = None
  Rejected = Rejected
  BPS = 1000
  BASE_UNITS_PER_NFT = 100
  FUNDING_ONE = 10
  MICRO = 10
  DAY = 10
  CREATOR_FEE_SHARE_BPS = 500
  MAX_U64 = 1000000
  FEE_BPS = 7
  KeepNum = 49
  KeepDen = 50
  DrawCr = 1550
  InitialCr = 1500
  MaintenanceCr = 1200
  TOKEN_BASE = 2
  SolIn = {20, 50}
  TokensIn = {60}
  Collaterals = {40, 97}
  Indexes = {100}
  Fundings = {10}
  VirtualSol = 100
  VirtualTokens = 400
  Target = 40
  Phase = "bootstrap"
  MaxMoves = 3
  MaxOrders = 3
SPECIFICATION ClientsSpec
INVARIANTS QuotesFill ShownLiquidationHolds StoreKeeps
PROPERTIES SelectionIsShown
CHECK_DEADLOCK FALSE
