--------------------------- MODULE MCMiningServer ---------------------------
(* Instances of MiningServer for TLC. *)
EXTENDS MiningServer
=============================================================================
