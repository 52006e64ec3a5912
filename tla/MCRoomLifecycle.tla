--------------------------- MODULE MCRoomLifecycle ---------------------------
(* Small instances of RoomLifecycle for TLC.                               *)
EXTENDS RoomLifecycleRefinement, TLC

(* Sockets, rooms and tokens are interchangeable; participants are not     *)
(* (their order is the joining order).                                     *)
Symmetry == Permutations(Socket) \cup Permutations(Room) \cup Permutations(Token)
=============================================================================
