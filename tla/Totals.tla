------------------------------- MODULE Totals --------------------------------
(***************************************************************************)
(* The total of a function to natural numbers, as the number of its units:  *)
(* g[x] of them for each x.  Counted this way the laws of totals are laws   *)
(* of cardinalities (TotalsProofs).                                         *)
(***************************************************************************)
EXTENDS Integers, FiniteSets

UnitsOf(g) == UNION {{x} \X (1..g[x]) : x \in DOMAIN g}

Total(g) == Cardinality(UnitsOf(g))
=============================================================================
