--------------------------- MODULE MCWriteBehind ---------------------------
(* Small instances of WriteBehind for TLC.                                 *)
EXTENDS WriteBehind

CONSTANTS d1, d2, k1, k2, f1, f2

\* Two devices of different keys, whose last_seen one flush writes in two UPDATEs.
MCKeyOf == (d1 :> k1) @@ (d2 :> k2)

\* Enough to be added, in each buffer, before, within and after a flush.
MCMaxRequests == [activities |-> 3, usage |-> 2, devices |-> 3]

\* Three connects of one day, with flushes in between.
MCThreeUses == [activities |-> 0, usage |-> 3, devices |-> 0]
=============================================================================
