SPECIFICATION Spec
CONSTANTS
    d1 = d1
    d2 = d2
    d3 = d3
    d4 = d4
    r1 = r1
    r2 = r2
    r3 = r3
    r4 = r4
    r5 = r5
    NoDevice = NoDevice
    Devices <- MCFourDevices
    Requests <- MCFourRequests
    Kinds = {"connect", "reset", "agentReset"}
    Limits = {1, 2}
    InitLimit = 2
    Threads = 2
    MayFail = TRUE
SYMMETRY MCSymmetry
INVARIANTS
    TypeOK
    ListWithinLimit
    OverbookedByRacersOnly
PROPERTIES
    TokenNeedsRow
