---------------------------- MODULE MCMatchCache ----------------------------
(* One slot or three, and four addresses: three share a bucket, two a      *)
(* memo slot, and one of those two is released and built on again.         *)
EXTENDS MatchCache, TLC

CONSTANTS k1, k2, k3, k4, p1, p2, p3, p4, p5, l1, l2

MCBucketOf == (k1 :> 0) @@ (k2 :> 0) @@ (k3 :> 0) @@ (k4 :> 1)
MCMemoOf == (k1 :> 0) @@ (k2 :> 1) @@ (k3 :> 2) @@ (k4 :> 0)
MCFirst == (k1 :> p1) @@ (k2 :> p2) @@ (k3 :> p3) @@ (k4 :> p4)

Symmetric == Permutations(Leases)
=============================================================================
