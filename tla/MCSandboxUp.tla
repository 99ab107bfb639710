---------------------------- MODULE MCSandboxUp ----------------------------
(* Two commits of each application for TLC.                                *)
EXTENDS SandboxUp

CONSTANTS old, new

MCCommits == {old, new}

=============================================================================
