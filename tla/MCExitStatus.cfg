CONSTANTS
    Args <- MCArgsUsage
    Addrs <- MCAddrs
INIT FInit
NEXT FNext
INVARIANT ExitReportsFailure
