------------------------------- MODULE Totals -------------------------------
(***************************************************************************)
(* Sums of numbers, stated without recursion: a function's total is the    *)
(* number of its units, f[x] of them for each argument x.  What the        *)
(* prover needs of them is in TotalsProofs.                                *)
(***************************************************************************)
EXTENDS Naturals, FiniteSets

Units(f) == UNION {{x} \X (1 .. f[x]) : x \in DOMAIN f}

Total(f) == Cardinality(Units(f))
=============================================================================
