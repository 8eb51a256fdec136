----------------------------- MODULE MCPeerSync -----------------------------
(* Instances of PeerSync for TLC. *)
EXTENDS PeerSync
=============================================================================
