--------------------------- MODULE ArrangeProofs ---------------------------
(***************************************************************************)
(* Lemmas about sets of positions, and about what Arrange returns, for     *)
(* every finite set and every strict total order.                          *)
(***************************************************************************)
EXTENDS Arrange, FiniteSetTheorems, SequenceTheorems, TLAPS

\* R orders the finite set S strictly and totally.
Orders(R, S) ==
    /\ IsFiniteSet(S)
    /\ \A x \in S : <<x, x>> \notin R
    /\ \A x, y \in S : x # y => <<x, y>> \in R \/ <<y, x>> \in R
    /\ \A x, y, z \in S : <<x, y>> \in R /\ <<y, z>> \in R => <<x, z>> \in R

-----------------------------------------------------------------------------
\* Every set of positions that is not empty has a first one.
LEMMA FirstExists ==
    ASSUME NEW S \in SUBSET Nat, S # {}
    PROVE  \E k \in S : \A j \in S : k <= j
  <1> DEFINE less == OpToRel(<, Nat)
  <1>1. IsWellFoundedOn(less, Nat)
    BY NatLessThanWellFounded
  <1>2. \A j, k \in Nat : j < k => <<j, k>> \in less
    BY DEF OpToRel
  <1> HIDE DEF less
  <1>3. PICK k \in S : \A j \in S : ~(<<j, k>> \in less)
    BY <1>1, WFMin
  <1>4. ASSUME NEW j \in S PROVE k <= j
    <2>1. j \in Nat /\ k \in Nat
      OBVIOUS
    <2>2. ~(j < k)
      BY <1>2, <1>3, <2>1
    <2> QED
      BY <2>1, <2>2
  <1> QED
    BY <1>3, <1>4

-----------------------------------------------------------------------------
(* An element's place is the number of elements before it.                 *)

Below(S, R, x) == {y \in S : <<y, x>> \in R}

LEMMA PlaceGrows ==
    ASSUME NEW S, NEW R, Orders(R, S), NEW x \in S, NEW y \in S, <<x, y>> \in R
    PROVE  /\ Cardinality(Below(S, R, x)) \in Nat
           /\ Cardinality(Below(S, R, y)) \in Nat
           /\ Cardinality(Below(S, R, x)) < Cardinality(Below(S, R, y))
  <1>1. IsFiniteSet(Below(S, R, x)) /\ IsFiniteSet(Below(S, R, y))
    BY FS_Subset DEF Orders, Below
  <1>2. /\ Below(S, R, x) \subseteq Below(S, R, y)
        /\ x \in Below(S, R, y) /\ x \notin Below(S, R, x)
    BY DEF Orders, Below
  <1>3. /\ Cardinality(Below(S, R, x)) <= Cardinality(Below(S, R, y))
        /\ Cardinality(Below(S, R, x)) # Cardinality(Below(S, R, y))
    BY <1>1, <1>2, FS_Subset
  <1> QED
    BY <1>1, <1>3, FS_CardinalityType

LEMMA PlacesAreTaken ==
    ASSUME NEW S, NEW R, Orders(R, S)
    PROVE  /\ Cardinality(S) \in Nat
           /\ \A x \in S : Cardinality(Below(S, R, x)) \in 0 .. Cardinality(S) - 1
           /\ \A x, y \in S :
                 Cardinality(Below(S, R, x)) = Cardinality(Below(S, R, y)) => x = y
           /\ \A k \in 0 .. Cardinality(S) - 1 :
                 \E x \in S : Cardinality(Below(S, R, x)) = k
  <1> DEFINE n == Cardinality(S)
             place == [x \in S |-> Cardinality(Below(S, R, x))]
  <1>1. IsFiniteSet(S) /\ n \in Nat
    BY FS_CardinalityType DEF Orders
  <1>2. ASSUME NEW x \in S PROVE Cardinality(Below(S, R, x)) \in 0 .. n - 1
    <2>1. IsFiniteSet(Below(S, R, x)) /\ Below(S, R, x) \subseteq S
          /\ Below(S, R, x) # S
      BY <1>1, FS_Subset DEF Orders, Below
    <2>2. Cardinality(Below(S, R, x)) <= n /\ Cardinality(Below(S, R, x)) # n
      BY <1>1, <2>1, FS_Subset
    <2>3. Cardinality(Below(S, R, x)) \in Nat
      BY <2>1, FS_CardinalityType
    <2> QED
      BY <1>1, <2>2, <2>3
  <1>3. ASSUME NEW x \in S, NEW y \in S,
               Cardinality(Below(S, R, x)) = Cardinality(Below(S, R, y))
        PROVE  x = y
    <2> SUFFICES ASSUME x # y PROVE FALSE
      OBVIOUS
    <2>1. <<x, y>> \in R \/ <<y, x>> \in R
      BY DEF Orders
    <2> QED
      BY <1>3, <2>1, PlaceGrows
  <1>4. place \in Injection(S, 0 .. n - 1)
    BY <1>2, <1>3 DEF Injection, IsInjective
  <1>5. IsFiniteSet(0 .. n - 1) /\ Cardinality(0 .. n - 1) = n
    BY <1>1, FS_Interval
  <1> HIDE DEF place, n
  <1>6. place \in Surjection(S, 0 .. n - 1)
    BY <1>1, <1>4, <1>5, FS_Injection DEF n
  <1> QED
    BY <1>1, <1>2, <1>3, <1>6 DEF Surjection, place, n

\* Arranged puts every element of the set into one place, in its order.
LEMMA ArrangedInOrder ==
    ASSUME NEW S, NEW R, Orders(R, S)
    PROVE  LET n == Cardinality(S)
               s == Arranged(S, R)
           IN  /\ n \in Nat
               /\ s \in [1 .. n -> S] /\ s \in Seq(S) /\ Len(s) = n
               /\ \A x \in S : \E i \in 1 .. n : s[i] = x
               /\ \A i, j \in 1 .. n : i < j <=> <<s[i], s[j]>> \in R
               /\ \A i, j \in 1 .. n : s[i] = s[j] => i = j
  <1> DEFINE n == Cardinality(S)
             s == Arranged(S, R)
  <1>1. n \in Nat
    BY PlacesAreTaken
  <1>2. ASSUME NEW k \in 1 .. n
        PROVE  s[k] \in S /\ Cardinality(Below(S, R, s[k])) = k - 1
    <2>1. k - 1 \in 0 .. n - 1
      BY <1>1
    <2>2. \E x \in S : Cardinality(Below(S, R, x)) = k - 1
      BY <2>1, PlacesAreTaken
    <2>3. s[k] = CHOOSE x \in S : Cardinality(Below(S, R, x)) = k - 1
      BY DEF Arranged, Below
    <2> QED
      BY <2>2, <2>3
  <1>3. s \in [1 .. n -> S]
    BY <1>2 DEF Arranged
  <1>4. \A x \in S : \E i \in 1 .. n : s[i] = x
    <2> SUFFICES ASSUME NEW x \in S PROVE \E i \in 1 .. n : s[i] = x
      OBVIOUS
    <2> DEFINE i == Cardinality(Below(S, R, x)) + 1
    <2>1. i \in 1 .. n /\ Cardinality(Below(S, R, x)) = i - 1
      BY <1>1, PlacesAreTaken
    <2>2. s[i] \in S /\ Cardinality(Below(S, R, s[i])) = i - 1
      BY <1>2, <2>1
    <2>3. s[i] = x
      BY <2>1, <2>2, PlacesAreTaken
    <2> QED
      BY <2>1, <2>3
  <1>5. ASSUME NEW i \in 1 .. n, NEW j \in 1 .. n, s[i] = s[j] PROVE i = j
    BY <1>1, <1>2, <1>5
  <1>6. ASSUME NEW i \in 1 .. n, NEW j \in 1 .. n, <<s[i], s[j]>> \in R PROVE i < j
    <2>1. s[i] \in S /\ s[j] \in S
      BY <1>2
    <2>2. Cardinality(Below(S, R, s[i])) < Cardinality(Below(S, R, s[j]))
      BY <1>6, <2>1, PlaceGrows
    <2> QED
      BY <1>1, <1>2, <2>2
  <1>7. ASSUME NEW i \in 1 .. n, NEW j \in 1 .. n, i < j PROVE <<s[i], s[j]>> \in R
    <2>1. s[i] \in S /\ s[j] \in S /\ s[i] # s[j]
      BY <1>1, <1>2, <1>5, <1>7
    <2>2. <<s[i], s[j]>> \in R \/ <<s[j], s[i]>> \in R
      BY <2>1 DEF Orders
    <2> QED
      BY <1>1, <1>6, <1>7, <2>2
  <1>8. s \in Seq(S) /\ Len(s) = n
    <2> HIDE DEF s, n
    <2> QED
      BY <1>1, <1>3, IsASeq, LenProperties
  <1> QED
    BY <1>1, <1>3, <1>4, <1>5, <1>6, <1>7, <1>8

\* Numbers increase.
LEMMA IncreasingOrders ==
    ASSUME NEW n \in Nat, NEW P \in SUBSET (1 .. n)
    PROVE  Orders(Increasing(P), P)
  <1>1. IsFiniteSet(1 .. n)
    BY FS_Interval
  <1>2. IsFiniteSet(P)
    BY <1>1, FS_Subset
  <1> QED
    BY <1>2 DEF Orders, Increasing

\* place tells where the elements of Selected(s, P) come from: the positions P,
\* each once and in order.
Selects(place, s, P) ==
    LET m == Cardinality(P)
    IN  /\ m \in Nat
        /\ place \in [1 .. m -> P]
        /\ Selected(s, P) = [k \in 1 .. m |-> s[place[k]]]
        /\ \A i, j \in 1 .. m : i < j <=> place[i] < place[j]
        /\ \A i, j \in 1 .. m : place[i] = place[j] => i = j
        /\ \A p \in P : \E k \in 1 .. m : place[k] = p

\* Selected keeps the elements at the positions P, each once and in order.
LEMMA SelectedInOrder ==
    ASSUME NEW n \in Nat, NEW P, P \subseteq 1 .. n, NEW s
    PROVE  \E place : Selects(place, s, P)
  <1> DEFINE place == Arranged(P, Increasing(P))
  <1>1. Orders(Increasing(P), P)
    BY IncreasingOrders
  <1>2. /\ Cardinality(P) \in Nat
        /\ place \in [1 .. Cardinality(P) -> P]
        /\ \A p \in P : \E i \in 1 .. Cardinality(P) : place[i] = p
        /\ \A i, j \in 1 .. Cardinality(P) :
              i < j <=> <<place[i], place[j]>> \in Increasing(P)
        /\ \A i, j \in 1 .. Cardinality(P) : place[i] = place[j] => i = j
    BY <1>1, ArrangedInOrder
  <1>3. Selected(s, P) = [k \in 1 .. Cardinality(P) |-> s[place[k]]]
    BY DEF Selected
  <1> HIDE DEF place
  <1>4. \A i, j \in 1 .. Cardinality(P) :
            <<place[i], place[j]>> \in Increasing(P) <=> place[i] < place[j]
    BY <1>2 DEF Increasing
  <1> QED
    BY <1>2, <1>3, <1>4 DEF Selects
=============================================================================
