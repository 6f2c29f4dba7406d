-------------------------- MODULE MCAdaptiveCache --------------------------
(* AdaptiveCache on four keys, one of them the empty string, with room for *)
(* none, for one and for three, and three accesses to tell the keys apart.  *)
EXTENDS AdaptiveCache

CONSTANTS k1, k2, k3

MCKeys == {k1, k2, k3, Empty}

Symmetry == Permutations({k1, k2, k3})
=============================================================================
