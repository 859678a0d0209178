------------------------------ MODULE SeatPool ------------------------------
(***************************************************************************)
(* What the device limit of a license key promises: a device takes a seat  *)
(* only while fewer than limit are taken, and keeps it until the key is    *)
(* reset.  KeySeats implements it when requests for the key are served     *)
(* one after the other, also when handlers die half-way.                   *)
(***************************************************************************)
EXTENDS Naturals, FiniteSets

CONSTANTS Devices, Limits, InitLimit

VARIABLES seats, limit

poolVars == <<seats, limit>>

\* register_device
Take(d) ==
    /\ d \notin seats
    /\ Cardinality(seats) < limit
    /\ seats' = seats \cup {d}
    /\ UNCHANGED limit

\* reset_key
Clear == seats' = {} /\ UNCHANGED limit

\* update_key: fewer seats than are taken evict nobody
Resize(n) == limit' = n /\ UNCHANGED seats

Init == seats = {} /\ limit = InitLimit

Next == Clear \/ (\E d \in Devices : Take(d)) \/ (\E n \in Limits : Resize(n))

Spec == Init /\ [][Next]_poolVars
=============================================================================
