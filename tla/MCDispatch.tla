----------------------------- MODULE MCDispatch -----------------------------
(* Dispatch for TLC: the symmetry of its sets of model values. *)
EXTENDS DispatchInvariant, TLC

CONSTANTS i1, i2, r1, r2, a1, a2, a3, s1, s2

Symmetry ==
    Permutations(Incidents) \union Permutations(Resources)
        \union Permutations(AssignmentIds) \union Permutations(Sessions)

=============================================================================
