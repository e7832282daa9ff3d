CONSTANTS
    BPS = 10
    BASE_UNITS_PER_NFT = 10
    FUNDING_ONE = 10
    MICRO = 2
    DAY = 2
    CREATOR_FEE_SHARE_BPS = 5
    MAX_U64 = 9999
    ParamSets <- ItemsParams
    Owners = {}
    ItemMints = {i1, i2}
    ItemSupply <- TwoItems
    TotalLamports = 6
    RentBuffer = 1
    ExternalSupply = 12
    Venues = {"Internal", "External"}
    SolAmounts = {5}
    TokenAmounts = {2}
    TransferAmounts = {6}
    LamportAmounts = {}
    IndexPrices = {4, 7}
    MarkPrices = {5}
    FreezeFlags = {}
    MaxNow = 3
SPECIFICATION Spec
INVARIANTS
    PoolCovers
PROPERTIES
    SupplyOnlyShrinks
    ItemSwapFair
CHECK_DEADLOCK FALSE
