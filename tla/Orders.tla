------------------------------- MODULE Orders -------------------------------
(***************************************************************************)
(* Lists that an ORDER BY or a filter returns, described by what they are  *)
(* and not by how they are computed, so that proofs can use them.          *)
(***************************************************************************)
EXTENDS Integers, Sequences, FiniteSets

\* The elements of S in the strict order R, a set of pairs.
Ordered(S, R) ==
    CHOOSE list \in [1 .. Cardinality(S) -> S] :
        \A i, j \in 1 .. Cardinality(S) : i < j => << list[i], list[j] >> \in R

\* A set of integers in ascending order.
Ascending(S) == Ordered(S, {p \in S \X S : p[1] < p[2]})

\* The elements of list that satisfy a condition, those in keep, in their order.
Selected(list, keep) ==
    LET kept == Ascending({i \in DOMAIN list : list[i] \in keep})
    IN  [k \in DOMAIN kept |-> list[kept[k]]]

=============================================================================
