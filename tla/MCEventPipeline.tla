-------------------------- MODULE MCEventPipeline --------------------------
(* EventPipeline for TLC: the symmetry of ticks and of workers, for the runs *)
(* that check no liveness. *)
EXTENDS EventPipeline, TLC

CONSTANTS t1, t2, w1, w2

Symmetry == Permutations(Ticks) \union Permutations(Workers)

=============================================================================
