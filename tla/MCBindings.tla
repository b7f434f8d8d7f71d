----------------------------- MODULE MCBindings -----------------------------
(* Two threads, every binding.                                              *)
EXTENDS Bindings

CONSTANTS t1, t2
=============================================================================
