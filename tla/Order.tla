-------------------------------- MODULE Order --------------------------------
(***************************************************************************)
(* Python's sorted() and list comprehensions over sequences without        *)
(* repetitions.  (SetToSortSeq, SelectSeq and the folds of the libraries   *)
(* take an operator, and facts about those are beyond the proof system; an *)
(* order is a set of pairs here.)                                          *)
(***************************************************************************)
EXTENDS Naturals, Sequences, FiniteSets

\* The elements of S in the order R: each is where as many come before it.
Ranked(S, R) ==
  [n \in 1..Cardinality(S) |->
     CHOOSE x \in S : Cardinality({y \in S : <<y, x>> \in R}) = n - 1]

\* The elements of a sequence at some of its places.
Ascending(I) == {p \in I \X I : p[1] < p[2]}
Picked(seq, I) ==
  LET at == Ranked(I, Ascending(I)) IN [n \in DOMAIN at |-> seq[at[n]]]
=============================================================================
