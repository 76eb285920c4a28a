-------------------------- MODULE MCExportDelivery --------------------------
(* ExportDelivery on small sets of model values.                            *)
EXTENDS ExportDelivery, TLC

CONSTANTS e1, e2, w1, r1, r2, m1, s1, s2, d1, d2

MCSymmetry == Permutations(Exports) \cup Permutations(Requests) \cup Permutations(Downloads)
                  \cup Permutations(Sessions)
=============================================================================
