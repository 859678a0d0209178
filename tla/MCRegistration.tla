--------------------------- MODULE MCRegistration ---------------------------
(* A small instance of Registration for TLC.                               *)
EXTENDS Registration, TLC

CONSTANTS r1, r2, r3, n1, n2, n3, p1, p2

\* Requests and names are interchangeable.
MCSymmetry ==
    Permutations({r1, r2, r3}) \cup Permutations({n1, n2, n3}) \cup Permutations({p1, p2})
=============================================================================
