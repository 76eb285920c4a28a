--------------------------- MODULE MCPlanVersions ---------------------------
(* PlanVersions on small sets of model values.                              *)
EXTENDS PlanVersions, TLC

CONSTANTS a, b, q1, q2

MCSymmetry == Permutations(Places) \cup Permutations(Requests)
=============================================================================
