-------------------------------- MODULE Texts --------------------------------
(***************************************************************************)
(* The texts in which callers name bytes, and what protoToTx and txToProto *)
(* of internal/grpc/server.go make of them.  A text is told by its form:   *)
(* the bytes its leading pairs of hexadecimal digits stand for, whether it *)
(* has upper-case digits, and what comes after the pairs.                  *)
(***************************************************************************)
EXTENDS Integers, Sequences

CONSTANTS
    Hex,      \* bytes, as the lower-case text that stands for them
    Messages  \* transactions that callers submit: the id, and the id of the
              \* transaction that the input names

Form == [bytes : Hex \cup {""}, upper : BOOLEAN, rest : {"none", "digit", "other"}]

Message == [id : Form, input : Form]

ASSUME TextsAssumption == "" \notin Hex /\ Messages \subseteq Message

(* The text of some bytes in lower case, with nothing after them.          *)
Lower(bytes) == [bytes |-> bytes, upper |-> FALSE, rest |-> "none"]

EmptyText == Lower("")

(* fmt.Sscanf(text, "%x", &bytes), whose error is not looked at: the pairs *)
(* of digits up to whatever else there is.  Nothing is assigned if there   *)
(* are none, or half a pair comes after them.                              *)
Scan(text) ==
    IF text.bytes = "" \/ text.rest = "digit" THEN <<>> ELSE <<text.bytes>>

(* fmt.Sprintf("%x", bytes): nil and empty bytes are both shown as "".     *)
Show(bytes) == IF bytes = <<>> THEN EmptyText ELSE Lower(bytes[1])

(* Not the code: the input's id is not taken over.                         *)
ProtoToTxBare(message) == [id |-> Scan(message.id), input |-> <<>>]

ProtoToTx(message) == [id |-> Scan(message.id), input |-> Scan(message.input)]

TxToProto(t) == [id |-> Show(t.id), input |-> Show(t.input)]
=============================================================================
