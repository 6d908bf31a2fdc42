------------------------- MODULE MCFailureResponse -------------------------
(* FailureResponse for TLC: its instances, and the symmetry of the resources *)
(* and assignments for the run that checks no liveness. *)
EXTENDS FailureResponse, TLC

CONSTANTS i1, r1, r2, a1, a2, s1, w1, x1, x2

Symmetry == Permutations(Resources) \union Permutations(AssignmentIds)

=============================================================================
