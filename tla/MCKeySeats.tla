----------------------------- MODULE MCKeySeats -----------------------------
(* Small instances of KeySeats for TLC.                                    *)
EXTENDS KeySeats, TLC

CONSTANTS d1, d2, d3, d4, r1, r2, r3, r4, r5

MCTwoDevices    == {d1, d2}
MCThreeDevices  == {d1, d2, d3}
MCFourDevices   == {d1, d2, d3, d4}
MCTwoRequests   == {r1, r2}
MCFourRequests  == {r1, r2, r3, r4}
MCFiveRequests  == {r1, r2, r3, r4, r5}

MCSymmetry == Permutations(Requests) \cup Permutations(Devices)
=============================================================================
