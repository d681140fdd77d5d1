------------------------------- MODULE Lists --------------------------------
(* What queries make of rows: lists in an order, first pages of them, and    *)
(* totals.  SetToSortSeq and MapThenSumSet of the community modules say the  *)
(* same; they rest on SortSeq, whose definition no prover sees, and on a     *)
(* recursion over subsets, so that these are defined by counting instead.    *)
EXTENDS Integers, FiniteSets

(* `order by`: R is the set of pairs <<x, y>> such that x comes before y.    *)
AheadOf(S, R, x) == {y \in S : <<y, x>> \in R}
Listed(S, R) ==
    [i \in 1..Cardinality(S) |-> CHOOSE x \in S : Cardinality(AheadOf(S, R, x)) = i - 1]

(* `sum`: of the natural numbers of a function, as the units they count.     *)
Units(f) == UNION {{x} \X (1..f[x]) : x \in DOMAIN f}
Total(f) == Cardinality(Units(f))
=============================================================================
