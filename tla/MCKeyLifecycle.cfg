SPECIFICATION Spec
CONSTANTS
    k1 = k1
    k2 = k2
    u1 = u1
    u2 = u2
    r1 = r1
    r2 = r2
    r3 = r3
    Project = Project
    NoTime = NoTime
    NoRow = NoRow
    Keys = {k1, k2}
    Users = {u1, u2}
    Requests = {r1, r2, r3}
    Scenes <- MCScenes
    Threads = 2
    Duration = 2
    Hours = {1}
    Durations = {1}
    Horizon = 2
SYMMETRY MCSymmetry
INVARIANTS
    TypeOK
    CountersExact
    HoursGranted
PROPERTIES
    HoursKept
    ServedWasUsable
