CONSTANTS
    Files <- MCFiles
    TunDns <- MCTunDns
    InitialRoutes <- MCInitialRoutes
SPECIFICATION Spec
INVARIANT RoutesRestored
