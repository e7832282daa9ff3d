CONSTANTS
    BPS = 10
    BASE_UNITS_PER_NFT = 10
    FUNDING_ONE = 10
    MICRO = 1
    DAY = 2
    CREATOR_FEE_SHARE_BPS = 5
    MAX_U64 = 9999
    ParamSets <- FullClampParams
    Owners = {o1, o2}
    ItemMints = {}
    ItemSupply <- NoItems
    TotalLamports = 14
    RentBuffer = 1
    ExternalSupply = 0
    Venues = {"External"}
    SolAmounts = {}
    TokenAmounts = {2}
    TransferAmounts = {}
    LamportAmounts = {3}
    IndexPrices = {10, 15}
    MarkPrices = {5, 20}
    FreezeFlags = {}
    MaxNow = 4
SPECIFICATION Spec
INVARIANT FundingNeverBricks
CHECK_DEADLOCK FALSE
