---------------------------- MODULE MCKeyBilling ----------------------------
(* Small instances of KeyBilling for TLC.                                  *)
EXTENDS KeyBilling

CONSTANTS r1, r2

MCTwoRequests == {r1, r2}

\* A balance that covers the dearest single purchase and not two of them.
MCInitBalance == [u \in Users |-> 2]
=============================================================================
