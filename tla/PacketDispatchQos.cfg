CONSTANTS
    W = 4
    TapIP = 6
    TapGw = 5
    TapMask = 12
    RawDests <- MCRawDests
    FrameDests <- MCFrameDests
    Ports <- MCPorts
    LocalEP <- MCLocalEP
    FibTables <- MCFibTables
    KbpsIn <- MCKbpsIn
    NoFib = NoFib
SPECIFICATION Spec
INVARIANT QosBandwidthInBytes
