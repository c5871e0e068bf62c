SPECIFICATION LiveSpec
CONSTANTS
    Pairs = {1}
    Kinds = {"updateQuote", "refreshCapacity", "withdrawal"}
    Offers <- OnePair
    InFlightMax = 2
    InFlightTotalMax = 1
    BaseFee = 1
    WithdrawFee = 1
    BumpNum = 2
    BumpDen = 1
    EscalationMax = 1
    PendingTimeout = 1
    BackpressurePause = 1
    NoNonce = NoNonce
    MaxNonce = 2
    MaxFaults = 0
    MaxRestarts = 1
 
PROPERTY EveryNonceLands
