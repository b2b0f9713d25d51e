--------------------------- MODULE MCMaterializer ---------------------------
(* Four keys for three rows, and a threshold low enough to compact often. *)
EXTENDS Materializer, TLC
CONSTANTS a, b, c, d, v1, v2

MCKeys == {a, b, c, d}
MCValues == {v1, v2}
Symmetry == Permutations(MCKeys) \cup Permutations(MCValues)
=============================================================================
