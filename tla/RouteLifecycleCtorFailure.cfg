CONSTANTS
    Files <- MCFiles
    TunDns <- MCTunDns
    InitialRoutes <- MCDisjointRoutes
SPECIFICATION Spec
INVARIANT FailedConstructorReleasesAll
