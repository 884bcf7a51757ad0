CONSTANTS
    W = 4
    TapIP = 6
    TapGw = 5
    TapMask = 12
    RawDests <- MCRawDests
    FrameDests <- MCFrameDests
    Ports <- MCPorts
    LocalEP <- MCLocalEP
    FibTables <- MCFibTables
    KbpsIn <- MCKbpsIn
    NoFib = NoFib
    r1 = r1
    Rules <- MCRules
    MaxTx = 2
SPECIFICATION Spec
INVARIANT TypeOK
INVARIANT DatagramRepliesReturnToSender
