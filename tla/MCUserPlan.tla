----------------------------- MODULE MCUserPlan -----------------------------
(* Values for model checking UserPlan. *)
EXTENDS UserPlan, TLC
CONSTANTS a1, a2, p1, p2
MCReqs == {a1, a2}
MCPlans == {p1, p2}
MCPlanRows == {[max |-> 2, ct |-> 2], [max |-> 3, ct |-> 1]}
MCAmounts == {1, 2}
Symmetry == Permutations(MCReqs) \cup Permutations(MCPlans)
=============================================================================
