------------------------------ MODULE MCSlots ------------------------------
(***************************************************************************)
(* Instances of Slots for TLC: two points, of which one has the payload.   *)
(***************************************************************************)
EXTENDS Slots, TLC

CONSTANTS v, w

Plain  == [vec |-> v, pay |-> NoPay, sparse |-> 0]
Tagged == [vec |-> w, pay |-> [k |-> Int64(1)], sparse |-> 1]

TwoPoints == {Plain, Tagged}
OneIndex == {<<"k", "integer">>}

Symmetry == Permutations(Id)

=============================================================================
