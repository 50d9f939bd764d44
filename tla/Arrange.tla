------------------------------ MODULE Arrange ------------------------------
(***************************************************************************)
(* Sorting, filtering and summing, which SequencesExt, Sequences and Folds *)
(* have as SetToSortSeq, SelectSeq and FoldLeft, with definitions that can *)
(* be opened in a proof.                                                   *)
(***************************************************************************)
EXTENDS Naturals, FiniteSets

\* The elements of the set S in the order R, a set of pairs: an element comes
\* after as many others as are before it in R.
Arranged(S, R) ==
    [k \in 1 .. Cardinality(S) |->
        CHOOSE x \in S : Cardinality({y \in S : <<y, x>> \in R}) = k - 1]

\* The pairs of numbers of P in increasing order.
Increasing(P) == {p \in P \X P : p[1] < p[2]}

\* The elements of sequence s at the positions P, in the order they have in s.
Selected(s, P) ==
    LET place == Arranged(P, Increasing(P))
    IN  [k \in 1 .. Cardinality(P) |-> s[place[k]]]

\* The sum of a function's values: f[i] units are counted for each i.
Total(f) == Cardinality(UNION {{i} \X (1 .. f[i]) : i \in DOMAIN f})
=============================================================================
