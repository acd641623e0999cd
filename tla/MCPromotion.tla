----------------------------- MODULE MCPromotion -----------------------------
(* Small instances of Promotion.                                           *)
EXTENDS Promotion, TLC

\* The endpoints configured as replicas are alike, and so are the operators.
Symmetry == Permutations(Endpoint \ {First}) \cup Permutations(Operator)
=============================================================================
