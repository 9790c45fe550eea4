----------------------------- MODULE MCCallFlow -----------------------------
(* Small instances of CallFlow for TLC *)
EXTENDS CallFlow, TLC

Symmetry == Permutations(Calls)

=============================================================================
