SPECIFICATION LanesSpec
CONSTANTS
    Worlds <- MCDegraded
    Vols = {0, 5000, 200000}
    FeedDeadline = 1
    HeadDeadline = 1
    AmountMax = 2000000000
    UnitMax = 2147483647
    NaN = NaN
    Unset = Unset
    v1 = v1
    v2 = v2
    v3 = v3
    Venue = venue
    Others <- MCOthers
    Prices <- MCPrices
    Prints <- MCPrints
    MaxId = 2
    Keepalives = {0, 1}
    Hourly = 3
    ReadTimeout = 2
    StaleAfter = 2
    SampleMin = 1
    SampleMax = 2
    Parts = 20
    VenuesMin = 2
    KTenths = 20
    Floor = 1
    DispersionMax = 2
INVARIANT
    AcceptedNeverPanics
CHECK_DEADLOCK FALSE
