----------------------------- MODULE MCPaneOps -----------------------------
(* Instances of PaneOps for TLC.                                           *)
EXTENDS PaneOps

CONSTANTS a, b, c
=============================================================================
