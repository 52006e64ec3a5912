------------------------- MODULE MCRemoteMediaBuckets -------------------------
(* A small instance of RemoteMediaBuckets for TLC.                         *)
EXTENDS RemoteMediaBuckets, TLC

Symmetry == Permutations(Screens)
=============================================================================
