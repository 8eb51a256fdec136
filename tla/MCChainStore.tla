---------------------------- MODULE MCChainStore ----------------------------
(* Instances of ChainStore for TLC. *)
EXTENDS ChainStore
=============================================================================
