--------------------------- MODULE MCRoomDecision ---------------------------
(* RoomDecision on small sets of model values.                              *)
EXTENDS RoomDecision, TLC

CONSTANTS h, m1, m2, a, b, q1, q2

MCSymmetry ==
    Permutations(Places) \cup Permutations(Requests) \cup Permutations(Members \ {Host})
=============================================================================
