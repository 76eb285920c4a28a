--------------------------- MODULE MCIdempotency ---------------------------
(* Idempotency with one key on each kind of route.                          *)
EXTENDS Idempotency, TLC

CONSTANTS plain, manual, versioned, c1, c2, c3, b1, b2

MCSymmetry == Permutations(Callers) \cup Permutations(Bodies)
=============================================================================
