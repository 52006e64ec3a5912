--------------------------- MODULE MCPeerNegotiation ---------------------------
(* Small instances of PeerNegotiation for TLC.                             *)
EXTENDS PeerNegotiation
=============================================================================
