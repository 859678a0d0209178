SPECIFICATION Spec
CONSTANTS
    d1 = d1
    d2 = d2
    k1 = k1
    k2 = k2
    f1 = f1
    f2 = f2
    NoRow = NoRow
    Devices = {d1, d2}
    KeyOf <- MCKeyOf
    Flushers = {f1}
    BatchSize = 2
    Threshold = 2
    MaxRequests <- MCThreeUses
    MaxFaults = 0
    BeatRuns = TRUE
PROPERTIES
    UniqueOfTheDay
