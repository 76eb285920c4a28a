-------------------------- MODULE MCRoomMembership --------------------------
(* RoomMembership on small sets of model values.                            *)
EXTENDS RoomMembership, TLC

CONSTANTS h, r1, r2, u1, q1, q2, i1

MCRows == {h, r1, r2}
MCSymmetry == Permutations({r1, r2}) \cup Permutations({q1, q2})
=============================================================================
