CONSTANTS
    Call = {c1, c2}
    None = None
    URI <- MCURI
    Registered <- MCRegistered
    Verdicts <- MCVerdicts
    CallsOut <- MCCallsOut
    Arrivals <- MCArrivals
    MaxDepth = 2
SPECIFICATION FairSpec
INVARIANTS MutexGuardsHooks OwnAnswer StatusSaysParsed RetryIsFutile
PROPERTIES EveryCallEnds ImplementsService
