---------------------------- MODULE MCUsageMeter ----------------------------
(* Instances of UsageMeter for TLC. *)
EXTENDS UsageMeter
=============================================================================
