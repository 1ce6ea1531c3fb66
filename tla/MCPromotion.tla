----------------------------- MODULE MCPromotion -----------------------------
(* Three calls over three versions: a bootstrap and two replacements in a row, *)
(* two calls overlapping a third, one version tried again.  With a threshold   *)
(* of 5 percent, 94 improves on 100 and 95 just does not.                      *)
EXTENDS Promotion, TLC

Symmetry == Permutations(Promoters) \cup Permutations(Versions)
=============================================================================
