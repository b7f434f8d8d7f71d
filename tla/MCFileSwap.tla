----------------------------- MODULE MCFileSwap -----------------------------
(***************************************************************************)
(* Instances of FileSwap for TLC: two writing processes and a read-only    *)
(* one on one path.                                                        *)
(***************************************************************************)
EXTENDS FileSwap

(* Where every property of the passing run has come true for good.          *)
Uncrossed == ~crossed

=============================================================================
