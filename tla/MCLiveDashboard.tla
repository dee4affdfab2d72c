-------------------------- MODULE MCLiveDashboard --------------------------
(* Instances of LiveDashboard for TLC. *)
EXTENDS LiveDashboard

\* Both calls look alike.
OneTool == [c \in ToolCall |-> "tool"]

=============================================================================
