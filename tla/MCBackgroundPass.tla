-------------------------- MODULE MCBackgroundPass --------------------------
(* Instances of BackgroundPass for TLC. *)
EXTENDS BackgroundPass
=============================================================================
