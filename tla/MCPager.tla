------------------------------ MODULE MCPager ------------------------------
(***************************************************************************)
(* Instances of Pager for TLC.                                             *)
(***************************************************************************)
EXTENDS Pager, TLC

(* Two collections of which one changes: a checkpoint may carry either      *)
(* forward or rewrite it, and a mixture of two images is a third content.   *)
CONSTANTS c1, c2, x, y

TwoImages == {(c1 :> x) @@ (c2 :> x), (c1 :> y) @@ (c2 :> x)}

(* Collections come and go: any body for any subset of them.                *)
AnyImage == Contents

Symmetry == Permutations(Coll) \cup Permutations(Body)

=============================================================================
