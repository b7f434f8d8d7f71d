------------------------------ MODULE MCSearch ------------------------------
(***************************************************************************)
(* Instances of Search for TLC: three points, filters over two keys.       *)
(***************************************************************************)
EXTENDS Search

CONSTANTS i1, i2, i3

Ranks == [i \in Id |-> CHOOSE r \in 1..3 : <<i1, i2, i3>>[r] = i]

(* `n` is indexed as an integer, `tag` as a keyword.                        *)
SomePoints ==
    {[vec |-> 1, pay |-> [n |-> Int64(1)], sparse |-> 1],
     [vec |-> 3, pay |-> [n |-> Int64(2), tag |-> Str("x")], sparse |-> 2]}

(* A number the integer index does not take, and one f64 cannot tell apart  *)
(* from its neighbour.                                                      *)
MixedPoints ==
    {[vec |-> 2, pay |-> [n |-> Real64(1)], sparse |-> 1],
     [vec |-> 1, pay |-> [n |-> Int64(5)], sparse |-> 0]}

SomeIndexes == {<<"n", "integer">>, <<"tag", "keyword">>}

Eq(k, m) == [op |-> "eq", key |-> k, value |-> m]
Between(k, r) == [op |-> "range", key |-> k, range |-> r]
Exists(k) == [op |-> "exists", key |-> k]
Not(c) == [op |-> "nested", filter |-> [NoFilter EXCEPT !.must_not = {c}]]

NoTag == Not(Exists("tag"))
Untagged == [NoFilter EXCEPT !.must = {Exists("n"), NoTag}]

SomeFilters ==
    {NoFilter,
     [NoFilter EXCEPT !.must = {Eq("n", Int64(1))}],
     [NoFilter EXCEPT !.must = {Between("n", [gte |-> 2]), Eq("tag", Str("x"))}],
     [NoFilter EXCEPT !.should = {Eq("n", Int64(2)), NoTag}],
     Untagged}

AskedOnes == {Untagged}

(* A bound on the states: queries that release the lock, and what goes on   *)
(* meanwhile, are followed in collections the third id was never in; those  *)
(* under one hold of the lock are asked of every collection.                *)
AskedOfTwo == query = NoQuery \/ (query.limit = 2 /\ i3 \notin Range(data.ids))

=============================================================================
