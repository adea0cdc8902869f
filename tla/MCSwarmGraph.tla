---------------------------- MODULE MCSwarmGraph ----------------------------
(***************************************************************************)
(* Small instances of SwarmGraph for TLC: the real bound on escalations,   *)
(* as many rounds for the driver or fewer, fewer planner steps.            *)
(***************************************************************************)
EXTENDS SwarmGraph

CONSTANT fs_read

OneTool == {fs_read}
LowAndReal == {1, 2}
=============================================================================
