CONSTANTS
    BPS = 10
    BASE_UNITS_PER_NFT = 20
    FUNDING_ONE = 12
    MICRO = 1
    DAY = 4
    CREATOR_FEE_SHARE_BPS = 5
    MAX_U64 = 9999
    ParamSets <- TradingParams
    Owners = {}
    ItemMints = {}
    ItemSupply <- NoItems
    TotalLamports = 10
    RentBuffer = 1
    ExternalSupply = 0
    Venues = {"Internal"}
    SolAmounts = {2, 5}
    TokenAmounts = {1, 4}
    TransferAmounts = {}
    LamportAmounts = {2}
    IndexPrices = {12}
    MarkPrices = {}
    FreezeFlags = {}
    MaxNow = 2
SPECIFICATION Spec
INVARIANTS
    VaultCovers
    ExitsCovered
PROPERTIES
    KNeverFalls
    GraduationKeepsPrice
    MarkNeverOvershoots
CHECK_DEADLOCK FALSE
