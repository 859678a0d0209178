--------------------------- MODULE MCKeyLifecycle ---------------------------
(* A small instance of KeyLifecycle for TLC.                               *)
EXTENDS KeyLifecycle, TLC

CONSTANTS k1, k2, u1, u2, r1, r2, r3

\* The counters depend on the status of the keys, what a client is answered on
\* the status and the hours of its key.
MCScenes ==
    {{"create", "archive", "resume", "block", "move", "delete", "agentPause", "agentResume"},
     {"pause", "resume", "delete", "reset", "extend", "update", "connect"}}

\* Requests, keys and users are interchangeable.
MCSymmetry ==
    Permutations({k1, k2}) \cup Permutations({u1, u2}) \cup Permutations({r1, r2, r3})
=============================================================================
