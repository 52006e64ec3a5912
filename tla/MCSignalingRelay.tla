--------------------------- MODULE MCSignalingRelay ---------------------------
(* A small instance of SignalingRelay for TLC: the receiving sockets and   *)
(* the rooms are interchangeable.                                          *)
EXTENDS SignalingRelay, TLC

Symmetry == Permutations(Socket \ Sender) \cup Permutations(Room)
=============================================================================
