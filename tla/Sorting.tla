------------------------------ MODULE Sorting ------------------------------
(***************************************************************************)
(* Python's sorted(), for items that differ: as a place in the sequence    *)
(* that comes out, for each item, after all those that are before it.      *)
(***************************************************************************)
EXTENDS Integers, Sequences, FiniteSets

\* "before" is a set of pairs, a strict total order on S.
Sorted(S, before) ==
    [n \in 1..Cardinality(S) |->
        CHOOSE c \in S : Cardinality({d \in S : <<d, c>> \in before}) = n - 1]
=============================================================================
