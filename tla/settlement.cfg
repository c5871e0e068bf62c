SPECIFICATION AllSpec
CONSTANTS
    Tokens = {"A", "B", "C"}
    Venues <- MCVenues
    Plans <- MCPlans
    Requests <- MCRequests
    Ladder <- MCLadder
    Offers = {4, 12}
    Slippage = 1
    InitFunds <- MCFunds
    Gifts = {1}
    W = 10
    NoOrder = NoOrder
    NoCall = NoCall
    MaxGifts = 1
    MaxCalls = 2
    Orders <- TwoOrders
    Accounts = {"maker", "taker"}
    Assets = {"base", "quote", "coin", "cash"}
    Funds <- Purses
    Nonces = {{1}}
    Sizes = {1, 2, 3, 4}
    Limits = {2, 9}
    Moves = {6}
    Unit = 10
    MaxDecayCap = 5
    Bps = 10
    NoFill = NoFill
    MaxTime = 4
    Pairs = {1}
    Base <- MCBase
    Quote <- MCQuote
    Maker = "maker"
    Scale = 2
    SpreadUnit = 4
    Halves = {1}
    Fairs = {2, 4}
    NotionalMax = 4
    Ttl = 2
    MinFill = 0
    QuoteSizes = {4}
    ClockLag = 1
    NoMarket = NoMarket
    MaxSigned = 2
    MaxRestarts = 1
INVARIANTS
    LiveIsReserved
    RouterKeepsNothing
    QuoteIsPaid
    PaidAsFilled
    PriceKept
PROPERTIES
    BaseWithinView
CHECK_DEADLOCK FALSE
