SPECIFICATION BreakerFairSpec
CONSTANTS
    r1 = r1
    r2 = r2
    r3 = r3
    noRequest = noRequest
    Requests <- MCPair
    FailureLimit = 2
    NoRequest <- noRequest
PROPERTY
    RouteReopens
