--------------------------- MODULE MCPrivacyExport ---------------------------
(* PrivacyExport on small sets of model values.                             *)
EXTENDS PrivacyExport, TLC

CONSTANTS e1, e2, w1, w2, r1, r2, m1

MCSymmetry == Permutations(Exports) \cup Permutations(Workers) \cup Permutations(Requests)
=============================================================================
