----------------------------- MODULE MCLivePush -----------------------------
(* Instances of LivePush for TLC. *)
EXTENDS LivePush, TLC

Symmetry == Permutations(Hook)
=============================================================================
