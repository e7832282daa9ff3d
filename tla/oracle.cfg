CONSTANTS
    BPS = 10
    BASE_UNITS_PER_NFT = 10
    FUNDING_ONE = 10
    MICRO = 1
    DAY = 2
    CREATOR_FEE_SHARE_BPS = 5
    MAX_U64 = 9999
    ParamSets <- OracleParams
    Owners = {o1}
    ItemMints = {}
    ItemSupply <- NoItems
    TotalLamports = 9
    RentBuffer = 1
    ExternalSupply = 0
    Venues = {"Internal", "External"}
    SolAmounts = {5}
    TokenAmounts = {2}
    TransferAmounts = {}
    LamportAmounts = {3}
    IndexPrices = {8, 11, 15}
    MarkPrices = {8, 15}
    FreezeFlags = {TRUE, FALSE}
    MaxNow = 3
SPECIFICATION Spec
PROPERTIES
    TwapWithinBreaker
    FrozenHoldsPrices
CHECK_DEADLOCK FALSE
