------------------------------ MODULE Ordered ------------------------------
(***************************************************************************)
(* What sorting yields: the elements of a finite set, in the order of a    *)
(* relation that puts one of any two before the other.                     *)
(***************************************************************************)
EXTENDS Naturals, FiniteSets

IsOrdered(f, S, R) ==
    /\ f \in [1..Cardinality(S) -> S]
    /\ \A j, k \in 1..Cardinality(S) : j < k => <<f[j], f[k]>> \in R

Sorted(S, R) ==
    CHOOSE f \in [1..Cardinality(S) -> S] :
        \A j, k \in 1..Cardinality(S) : j < k => <<f[j], f[k]>> \in R

=============================================================================
