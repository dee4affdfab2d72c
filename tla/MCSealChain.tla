---------------------------- MODULE MCSealChain ----------------------------
(* Instances of SealChain for TLC. *)
EXTENDS SealChain, TLC

Symmetry == Permutations(Sealer) \cup Permutations(File)
=============================================================================
