------------------------------- MODULE MCImage -------------------------------
(***************************************************************************)
(* Instances of Image for TLC: two ids, payloads of two depths.            *)
(***************************************************************************)
EXTENDS Image

CONSTANTS i1, i2, shallow, deep

SomePoints ==
    {[id |-> i1, vec |-> 1, pay |-> shallow, sparse |-> {}],
     [id |-> i1, vec |-> 2, pay |-> NoPay, sparse |-> {1}],
     [id |-> i1, vec |-> 1, pay |-> deep, sparse |-> {}],
     [id |-> i2, vec |-> 1, pay |-> shallow, sparse |-> {1, 2}]}

(* Scaled: MAX_MSGPACK_DEPTH is 16.  A deep payload fits a segment but not  *)
(* an entry of the log.                                                     *)
Depths == shallow :> 2 @@ deep :> 3
=============================================================================
