------------------------------ MODULE RowOrder ------------------------------
(***************************************************************************)
(* Rows that stand in line, and the first few of them: how the daemon cuts *)
(* a batch out of what it has sorted.                                      *)
(***************************************************************************)
EXTENDS Naturals, FiniteSets

(* The order, a set of pairs, puts the members of S into one line.         *)
InLine(order, S) ==
    /\ \A a \in S : <<a, a>> \notin order
    /\ \A a, b, c \in S : <<a, b>> \in order /\ <<b, c>> \in order => <<a, c>> \in order
    /\ \A a, b \in S : a = b \/ <<a, b>> \in order \/ <<b, a>> \in order

Ahead(S, m, order) == {k \in S : <<k, m>> \in order}

(* The first n members of S under an order: a sort, then slice(0, n).      *)
FirstOf(S, n, order) == {m \in S : Cardinality(Ahead(S, m, order)) < n}
=============================================================================
