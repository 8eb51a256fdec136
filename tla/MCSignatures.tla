---------------------------- MODULE MCSignatures ----------------------------
(* Signatures made one after the other, for TLC.                           *)
EXTENDS Signatures

VARIABLE made \* the two numbers of the last signature, if there is one

(* Numbers of two or three bytes.                                          *)
Numbers == {n \in UNION {[1..k -> 0..(Base - 1)] : k \in 2..3} : IsNumber(n)}

Init == made = <<>>

(* ECDSA draws them anew for each signature.                               *)
NewSignature == made' \in Numbers \X Numbers

Spec == Init /\ [][NewSignature]_made

(* What TestSignAndVerify takes for granted, and the code does not do: a   *)
(* signature that was just made verifies (wallet_test.go:78).              *)
FreshSignatureVerifies == made # <<>> => Verifies(made[1], made[2])
=============================================================================
