CONSTANTS
    Call = {c1, c2}
    None = None
    URI <- MCURI
    Registered <- MCURI
    Verdicts <- MCVerdicts
    CallsOut = {"/ignore"}
    Arrivals <- MCArrivals
    MaxDepth = 1
    Policy <- MCPolicy
    Hook = {"h"}
    Path = {"/ignore"}
    Flags <- MCFlags
SPECIFICATION SysSpec
SYMMETRY CallSymmetry
INVARIANTS FailClosed OutageBlocksNothing DenialLostOnlyToTimeoutOrExit DrainCutsNoCall 
