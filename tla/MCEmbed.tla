------------------------------ MODULE MCEmbed ------------------------------
(***************************************************************************)
(* Instances of Embed for TLC: two documents over three terms, one of      *)
(* which has no place in a vocabulary of two.                              *)
(***************************************************************************)
EXTENDS Embed, TLC

TwoTexts == {{1}, {1, 2}}
ThreeTexts == {{2}, {1, 2}, {1, 3}}

(* df * ln(n / df) for up to two documents, scaled.                        *)
Scaled(df, n) == IF df < n THEN df ELSE 0

(* Three of the properties make an exception for these mishaps, and no      *)
(* mishap is forgotten.                                                     *)
NoExceptionYet == mishaps \cap {"overlap", "reject", "logFails"} = {}

(* Bounds on the states: after such a mishap, where only LastWriteStands    *)
(* still says something, one provider is followed for two writes without a  *)
(* checkpoint; two writes also where components are not terms.              *)
Explored ==
    /\ HasTerms(provider) \/ writes <= 2
    /\ \/ NoExceptionYet
       \/ provider = "bow" /\ writes <= 2 /\ crashes = 0 /\ DOMAIN file.docs = {}

Symmetry == Permutations(Thread)

=============================================================================
