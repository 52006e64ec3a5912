-------------------------- MODULE MCRoomReplication --------------------------
(* Small instances of RoomReplication for TLC.                             *)
EXTENDS RoomReplication, TLC

Symmetry == Permutations(Token)
=============================================================================
