----------------------------- MODULE MCInterop -----------------------------
(***************************************************************************)
(* Instances of Interop for TLC: a BYO and an auto-embed collection, one   *)
(* alias, and the data sets of a server.                                   *)
(***************************************************************************)
EXTENDS Interop

CONSTANTS c1, c2, c3, i1, i2

At(pay, sparse) == [pay |-> pay, sparse |-> sparse]
Doc(t) == "_text" :> t
Titled(t) == Doc(t) @@ "content" :> "mine"

Collection(provider, compression, points) ==
    [provider |-> provider, ready |-> provider # "none",
     compression |-> compression,
     config |-> IF provider = "none" THEN {<<"k", "integer">>} ELSE {},
     indexes |-> IF provider = "none" THEN {<<"k", "integer">>} ELSE {},
     vocab |-> IF provider = "none" THEN {} ELSE {"t1"}, dirty |-> FALSE,
     points |-> points, policies |-> {}]

Vectors == Collection("none", "zstd", i1 :> At("k" :> 1, 1))
Texted(provider) ==
    Collection(provider, "lz4", i1 :> At(Titled("t1"), 0))

SomeStarts ==
    {[colls |-> c1 :> Vectors @@ c2 :> Texted(p), aliases |-> c3 :> c1] : p \in {"bm25", "svd"}}

(* A server's archive, with a provider and policies of its own.             *)
FromServer(n, provider, policies) ==
    LET coll == [Collection(provider, "lz4", i1 :> At("content" :> "t1", 0)) EXCEPT
                     !.policies = policies]
    IN  [name |-> n, config |-> [provider |-> provider, compression |-> "lz4"],
         policies |-> policies,
         points |-> i1 :> ("content" :> "t1"),
         tokenizer |-> IF provider \in Tokenized THEN {{"t1"}} ELSE {},
         was |-> [coll |-> coll, aliases |-> {}, ours |-> FALSE,
                  alike |-> TRUE, met |-> FALSE]]

Nothing == [vecdb |-> {}, vecidx |-> {}, paired |-> TRUE]
Left(entries) == [vecdb |-> {[entries |-> entries, warned |-> {}]}, vecidx |-> {}, paired |-> TRUE]

SomeServers ==
    {Nothing,
     Left(<<FromServer(c1, "bm25", {"sharded"}), FromServer(c2, "candle", {})>>),
     Left(<<FromServer(c1, "bm25", {}), FromServer(c1, "bm25", {}),
            FromServer(c2, "bm25", {"encrypted"})>>)}

SomeIndexes == {<<"j", "keyword">>}

SomePoints == {<<i2, At(Doc("t2"), 0)>>}

=============================================================================
