----------------------------- MODULE MCPeerQueue -----------------------------
(* Instances of PeerQueue for TLC.                                          *)
EXTENDS PeerQueue

CONSTANTS m1, m2, m3, s1, s2, p1, p2, p3

OneSeat == [m \in Msg |-> s1]
TwoSeats == [m \in Msg |-> IF m = m3 THEN s2 ELSE s1]
NoFooters == [m \in Msg |-> NoToken]
SharedFooter == [m \in Msg |-> IF m = m3 THEN NoToken ELSE "t"]
SameKind == [m \in Msg |-> 1]
Kinds == [m \in Msg |-> IF m = m3 THEN 0 ELSE 4]
=============================================================================
