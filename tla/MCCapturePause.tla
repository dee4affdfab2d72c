--------------------------- MODULE MCCapturePause ---------------------------
(* Instances of CapturePause for TLC. *)
EXTENDS CapturePause, TLC

Symmetry == Permutations(Hook) \cup Permutations(Person)
=============================================================================
