SPECIFICATION Spec
CONSTANTS
    r1 = r1
    r2 = r2
    r3 = r3
    n1 = n1
    n2 = n2
    n3 = n3
    p1 = p1
    p2 = p2
    Requests = {r1, r2, r3}
    Names = {n1, n2, n3}
    Emails = {e1}
    Projects = {p1, p2}
    Codes = {c1}
    Nothing = Nothing
    MaxFaults = 1
SYMMETRY MCSymmetry
INVARIANTS
    TypeOK
    CodeAdmitsOnce
    BoundCodeIsUsed
    EmailTwiceNeedsOverlap
    RefusedLeavesNothing
