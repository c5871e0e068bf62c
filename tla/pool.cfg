SPECIFICATION LanesSpec
CONSTANTS
    Tokens = {"base", "quote"}
    MaxPairs = 1
    Listings <- OneListing
    Settings <- PolicySettings
    Ladders <- PolicyLadders
    Capacities <- PolicyCaps
    DecayWindows = {2}
    Deviations = {1}
    References = {3}
    Pyths = {"pyth"}
    Pauses <- BOOLEANS
    Scale = 2
    BPS = 10
    MaxPrice = 4
    MaxAmountOut = 4
    GenModulus = 8
    MaxGen = 2
    Amounts = {1, 2}
    Transfers = {3}
    Gifts = {2}
    MaxAge = 2
    MaxBalance = 3
    LadderPrices <- MCPrices
    Scales <- MCScales
    MaxCapacity = 9
    MaxTarget = 40
    Bps = 10
    Fine = 4
    PriceMax = 40
    Configured <- MCConfigured
    Bases <- MCBases
    OnChain <- MCOnChain
    Captures <- MCCaptures
    MinPrices <- MCMinPrices
    Spreads <- MCSpreads
    SpreadCap = 6
    Degraded <- MCDegraded
    RawSkews <- MCRawSkews
    SkewUp = 4
    SkewDown = 2
    Widths <- MCWidths
    Pairs = {1, 2}
    Kinds = {"updateQuote", "withdrawal"}
    Offers <- TwoPairs
    InFlightMax = 2
    InFlightTotalMax = 2
    BaseFee = 1
    WithdrawFee = 1
    BumpNum = 2
    BumpDen = 1
    EscalationMax = 1
    PendingTimeout = 1
    BackpressurePause = 1
    NoNonce = NoNonce
    MaxNonce = 2
    MaxFaults = 1
    MaxRestarts = 0
INVARIANTS
    RoundTripNeverPays
    QuotedSizeReachable
    Backed
    ReturnsExpected
    SolverTight
    CaptureAtTarget
    SkewLeavesTheFloor
    EpochIsPayable
    SignedOnce
PROPERTIES
    BudgetKept
    FloorHeld
CHECK_DEADLOCK FALSE
