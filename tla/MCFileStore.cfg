SPECIFICATION Spec
CONSTANTS
    r1 = r1
    r2 = r2
    r3 = r3
    n1 = n1
    n2 = n2
    Requests = {r1, r2, r3}
    Names = {n1, n2}
    SafeName <- MCSafeName
    NoTitle = NoTitle
    Uploads <- MCUploads
    Nobody = Nobody
    Limit = 3
    Chunks = 2
    Threads = 2
    Horizon = 1
    MaxFaults = 1
SYMMETRY MCSymmetry
CHECK_DEADLOCK FALSE
INVARIANTS
    TypeOK
    RowsKeepTheirFiles
    StorageWithinLimit
    AcknowledgedIsWhole
