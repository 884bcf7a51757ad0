CONSTANTS
    Pings <- MCPings
    MaxAckId = 3
    Timeout = 2
    TtlIn <- MCTtlIn
    NoAlloc = NoAlloc
SPECIFICATION Spec
INVARIANT TypeOK
INVARIANT PendingEntriesEchoed
INVARIANT AtMostOneAnswerPerEcho
INVARIANT ForwardedTtlDecreases
PROPERTY EntryEventuallyReleased
PROPERTY ImplementsPendingEcho
