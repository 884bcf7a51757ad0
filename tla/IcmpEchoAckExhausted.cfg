CONSTANTS
    Pings <- MCTwoPings
    MaxAckId = 1
    Timeout = 2
    TtlIn <- MCGatewayTtl
    NoAlloc = NoAlloc
SPECIFICATION Spec
PROPERTY AllocationTerminates
