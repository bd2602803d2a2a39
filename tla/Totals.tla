------------------------------- MODULE Totals -------------------------------
(***************************************************************************)
(* Sums of natural numbers over finite sets, as the number of units there  *)
(* are: x contributes the units <<x, 1>> to <<x, f[x]>>. Counting needs no *)
(* recursion, so that TotalsTheorems can prove how a sum changes.          *)
(***************************************************************************)
EXTENDS Integers, FiniteSets

Units(f, S) == UNION {{x} \X (1 .. f[x]) : x \in S}

Total(f, S) == Cardinality(Units(f, S))
=============================================================================
