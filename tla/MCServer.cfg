CONSTANTS
    Hook = {"namespace-validation", "pod-validation", "service-mutation"}
    Path = {"/namespace-validation", "/pod-validation", "/service-mutation"}
    Flags <- MCFlags
    Call = {c1, c2}
SPECIFICATION MainSpec
INVARIANT ServesUniqueURIs
PROPERTIES StartsUp SignalEndsProcess
CHECK_DEADLOCK FALSE
