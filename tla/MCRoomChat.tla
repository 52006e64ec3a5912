------------------------------ MODULE MCRoomChat -------------------------------
(* Small instances of RoomChat for TLC.                                    *)
EXTENDS RoomChat

Browsers == Permutations(Browser)
=============================================================================
