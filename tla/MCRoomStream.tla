----------------------------- MODULE MCRoomStream -----------------------------
(* RoomStream for TLC; the bounds are given by the configurations. *)
EXTENDS RoomStream
=============================================================================
