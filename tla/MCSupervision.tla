--------------------------- MODULE MCSupervision ---------------------------
(* Instances of Supervision for TLC.                                       *)
EXTENDS Supervision

CONSTANTS mesh, host, p1, p2, p3, c1
=============================================================================
