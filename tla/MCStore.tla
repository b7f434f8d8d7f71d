------------------------------ MODULE MCStore ------------------------------
(***************************************************************************)
(* Instances of Store for TLC.                                             *)
(***************************************************************************)
EXTENDS Store, TLC

(* Collections and ids are interchangeable.                                 *)
Symmetry    == Permutations(Id) \cup Permutations(Coll)
IdSymmetry  == Permutations(Id)

(* Behaviours end at the first mishap, and so do the properties that except *)
(* what follows it.                                                         *)
NoMishapYet == mishaps = {}

=============================================================================
