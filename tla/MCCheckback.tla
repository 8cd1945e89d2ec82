---------------------------- MODULE MCCheckback ----------------------------
(* Instances of Checkback for TLC.                                          *)
EXTENDS Checkback

CONSTANTS c1, c2, c3, c4, c5

OwnKeys == [c \in Check |-> c]
OneKey == [c \in Check |-> c1]
NoFollow == [c \in Coord |-> c]
=============================================================================
