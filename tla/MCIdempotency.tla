--------------------------- MODULE MCIdempotency ---------------------------
(* Idempotency for TLC: the symmetry of its model values. *)
EXTENDS Idempotency, TLC

CONSTANTS k1, p1, p2, b1, b2, s1, s2, s3

Symmetry == Permutations(Sessions) \union Permutations(Bodies)

=============================================================================
