------------------------------ MODULE MCLedger ------------------------------
(* Instances of Ledger for TLC. *)
EXTENDS Ledger

CONSTANTS a, b, c

(* The callers of cmd/node: wallets that pay each other, never themselves. *)
DistinctTransfers == {p \in Addr \X Addr : p[1] # p[2]}

(* Every call the interface accepts, payments to oneself included.         *)
AllTransfers == Addr \X Addr

(* One payer, who also pays himself, and who may be paid back: enough for  *)
(* shared, stale and shifted outputs, for ids that clash, and for outputs  *)
(* that change their owner under a transaction that waits.                 *)
PayAndSplit == {<<a, b>>, <<a, a>>, <<b, a>>}
=============================================================================
