-------------------------- MODULE MCContainerSpool --------------------------
(* Instances of ContainerSpool for TLC. *)
EXTENDS ContainerSpool, TLC

(* Hooks are alike. *)
Alike == Permutations(Hook)
=============================================================================
