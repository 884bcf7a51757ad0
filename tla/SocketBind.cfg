CONSTANTS
    s1 = s1
    s2 = s2
    Sockets <- MCSockets
    PortsIn <- MCPortsIn
    MaxPort = 65535
    NoSocket = NoSocket

SPECIFICATION Spec
INVARIANT OpenBindsRequestedAddress
