--------------------------- MODULE RowOrderProofs ---------------------------
(***************************************************************************)
(* What a batch cut out of a line is: theorems about RowOrder, for every   *)
(* finite set of rows.                                                     *)
(***************************************************************************)
EXTENDS RowOrder, FiniteSetTheorems, FunctionTheorems, TLAPS

(* Who stands behind another has more before him.                          *)
LEMMA AheadGrows ==
    ASSUME NEW S, IsFiniteSet(S), NEW order, InLine(order, S),
           NEW k \in S, NEW m \in S, <<k, m>> \in order
    PROVE  /\ Cardinality(Ahead(S, k, order)) \in Nat
           /\ Cardinality(Ahead(S, m, order)) \in Nat
           /\ Cardinality(Ahead(S, k, order)) < Cardinality(Ahead(S, m, order))
<1> DEFINE K == Ahead(S, k, order)
           M == Ahead(S, m, order)
<1>1. K \subseteq M /\ k \in M /\ k \notin K /\ M \subseteq S
  BY DEF Ahead, InLine
<1> HIDE DEF K, M
<1>2. IsFiniteSet(M)
  BY <1>1, FS_Subset
<1>3. IsFiniteSet(K) /\ Cardinality(K) <= Cardinality(M) /\ Cardinality(K) # Cardinality(M)
  BY <1>1, <1>2, FS_Subset
<1>4. Cardinality(K) \in Nat /\ Cardinality(M) \in Nat
  BY <1>2, <1>3, FS_CardinalityType
<1> QED BY <1>3, <1>4 DEF K, M

(* Each place of the line, counted from 0, has exactly one member.         *)
LEMMA OnePerPlace ==
    ASSUME NEW S, IsFiniteSet(S), NEW order, InLine(order, S)
    PROVE  [m \in S |-> Cardinality(Ahead(S, m, order))]
               \in Bijection(S, 0..(Cardinality(S) - 1))
<1> DEFINE place == [m \in S |-> Cardinality(Ahead(S, m, order))]
           places == 0..(Cardinality(S) - 1)
<1>1. Cardinality(S) \in Nat
  BY FS_CardinalityType
<1>2. ASSUME NEW m \in S PROVE place[m] \in places
  <2>1. Ahead(S, m, order) \in SUBSET S /\ Ahead(S, m, order) # S
    BY DEF Ahead, InLine
  <2>2. /\ Cardinality(Ahead(S, m, order)) \in Nat
        /\ Cardinality(Ahead(S, m, order)) <= Cardinality(S)
        /\ Cardinality(Ahead(S, m, order)) # Cardinality(S)
    BY <2>1, FS_Subset, FS_CardinalityType
  <2> QED BY <1>1, <2>2
<1>3. ASSUME NEW a \in S, NEW b \in S, place[a] = place[b] PROVE a = b
  <2>1. a = b \/ <<a, b>> \in order \/ <<b, a>> \in order
    BY DEF InLine
  <2>2. ~(<<a, b>> \in order) /\ ~(<<b, a>> \in order)
    <3>1. <<a, b>> \in order => place[a] < place[b] /\ place[a] \in Nat /\ place[b] \in Nat
      BY AheadGrows
    <3>2. <<b, a>> \in order => place[b] < place[a] /\ place[a] \in Nat /\ place[b] \in Nat
      BY AheadGrows
    <3> QED BY <1>3, <3>1, <3>2
  <2> QED BY <2>1, <2>2
<1>4. place \in Injection(S, places)
  BY <1>2, <1>3, Fun_IsInj
<1>5. IsFiniteSet(places) /\ Cardinality(places) = Cardinality(S)
  BY <1>1, FS_Interval
<1>6. place \in Surjection(S, places)
  BY <1>4, <1>5, FS_Injection
<1> QED BY <1>4, <1>6 DEF Bijection

(* The first n of a line are n, or all there are.                          *)
THEOREM FirstOfSize ==
    ASSUME NEW S, IsFiniteSet(S), NEW order, InLine(order, S), NEW n \in Nat
    PROVE  /\ IsFiniteSet(FirstOf(S, n, order))
           /\ Cardinality(FirstOf(S, n, order)) =
                IF Cardinality(S) < n THEN Cardinality(S) ELSE n
<1> DEFINE place == [m \in S |-> Cardinality(Ahead(S, m, order))]
           places == 0..(Cardinality(S) - 1)
           first == FirstOf(S, n, order)
           size == IF Cardinality(S) < n THEN Cardinality(S) ELSE n
           T == 0..(size - 1)
           f == [m \in first |-> place[m]]
<1>1. place \in Bijection(S, places)
  BY OnePerPlace
<1>2. Cardinality(S) \in Nat /\ size \in Nat
  BY FS_CardinalityType
<1>3. \A m \in S : place[m] \in places
  BY <1>1 DEF Bijection, Injection
<1>4. first = {m \in S : place[m] < n}
  BY DEF FirstOf
<1>5. \A a, b \in S : place[a] = place[b] => a = b
  BY <1>1, Fun_IsInj DEF Bijection, Injection, IsInjective
<1>6. \A i \in places : \E m \in S : place[m] = i
  BY <1>1 DEF Bijection, Surjection
<1> HIDE DEF place, first
<1>7. first \subseteq S /\ IsFiniteSet(first)
  BY <1>4, FS_Subset
<1>8. \A m \in first : f[m] \in T
  BY <1>2, <1>3, <1>4
<1>9. \A a, b \in first : f[a] = f[b] => a = b
  BY <1>5, <1>7
<1>10. \A i \in T : \E m \in first : f[m] = i
  <2> SUFFICES ASSUME NEW i \in T PROVE \E m \in first : f[m] = i
    OBVIOUS
  <2>1. i \in places /\ i < n
    BY <1>2
  <2>2. PICK m \in S : place[m] = i
    BY <1>6, <2>1
  <2> QED BY <1>4, <2>1, <2>2
<1>11. f \in Bijection(first, T)
  BY <1>8, <1>9, <1>10, Fun_IsBij
<1>12. Cardinality(first) = Cardinality(T)
  BY <1>7, <1>11, FS_Bijection DEF ExistsBijection
<1>13. ASSUME NEW z \in Nat PROVE Cardinality(0..(z - 1)) = z
  <2>1. Cardinality(0..(z - 1)) = IF 0 > z - 1 THEN 0 ELSE (z - 1) - 0 + 1
    BY FS_Interval
  <2> QED BY <2>1
<1>14. Cardinality(T) = size
  BY <1>2, <1>13
<1> QED BY <1>7, <1>12, <1>14 DEF first

(* Nobody of the first n stands behind one who is not among them.          *)
THEOREM FirstOfIsAhead ==
    ASSUME NEW S, IsFiniteSet(S), NEW order, InLine(order, S), NEW n \in Nat,
           NEW m \in FirstOf(S, n, order), NEW k \in S, <<k, m>> \in order
    PROVE  k \in FirstOf(S, n, order)
<1>1. m \in S
  BY DEF FirstOf
<1>2. /\ Cardinality(Ahead(S, k, order)) \in Nat /\ Cardinality(Ahead(S, m, order)) \in Nat
      /\ Cardinality(Ahead(S, k, order)) < Cardinality(Ahead(S, m, order))
  BY <1>1, AheadGrows
<1> QED BY <1>2 DEF FirstOf
=============================================================================
