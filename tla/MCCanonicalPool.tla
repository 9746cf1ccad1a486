------------------------- MODULE MCCanonicalPool -------------------------
(* The main thread and a worker over the root they share. *)
EXTENDS CanonicalPool, TLC

CONSTANTS m, w, s, l, c, x1, x2, x3, x4

Symmetric == Permutations(Ids \ Large)
=============================================================================
