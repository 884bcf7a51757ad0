CONSTANTS
    Files <- MCFiles
    TunDns <- MCTunDns
    InitialRoutes <- MCInitialRoutes
SPECIFICATION Spec
INVARIANT TypeOK
INVARIANT RouteInstallBalanced
INVARIANT DefaultRoutesRestored
INVARIANT NoTunnelRouteLeft
INVARIANT FibFromCurrentRib
