---------------------------- MODULE MCMulticast -----------------------------
(***************************************************************************)
(* Multicast to two sessions that use three buffers again and again.     *)
(***************************************************************************)
EXTENDS Multicast, TLC

Symmetry == Permutations(Sessions) \cup Permutations(Buffers)
=============================================================================
