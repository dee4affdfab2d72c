---------------------------- MODULE MCUpstreamPool --------------------------
(* Instances of UpstreamPool for TLC.  Over HTTP, where attempts overlap, the
   session is open and the tools stay; the code of both is the same there. *)
EXTENDS UpstreamPool

MCVersions == [stdio |-> 3, http |-> 1]

MCSessionAt == [stdio |-> "none", http |-> "open"]

=============================================================================
