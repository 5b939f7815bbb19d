------------------------------ MODULE MCRoomDb ------------------------------
(* Instances of RoomDb for TLC. *)
EXTENDS RoomDb, TLC

=============================================================================
