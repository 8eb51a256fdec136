----------------------------- MODULE Signatures -----------------------------
(***************************************************************************)
(* A signature as bytes: Sign and VerifySignature of                       *)
(* internal/crypto/wallet.go.  ECDSA makes a pair of positive numbers, r   *)
(* and s; verification is taken to succeed for the pair that was made and  *)
(* for no other.  A number is the sequence of its digits in base Base.     *)
(***************************************************************************)
EXTENDS Integers, Sequences, SequencesExt

CONSTANTS
    Base,     \* 256 in the code
    MinLength \* signatures shorter than this are refused, 32 in the code

(* big.Int.Bytes: no leading zeros, so a small number has fewer bytes.     *)
IsNumber(bytes) ==
    /\ bytes # <<>> /\ bytes[1] # 0
    /\ \A i \in DOMAIN bytes : bytes[i] \in 0..(Base - 1)

(* big.Int.SetBytes: leading zeros do not matter.                          *)
SetBytes(bytes) ==
    LET zeros == {i \in 0..Len(bytes) : \A k \in 1..i : bytes[k] = 0}
        skip == CHOOSE i \in zeros : \A k \in zeros : k <= i
    IN SubSeq(bytes, skip + 1, Len(bytes))

(* Sign: r.Bytes() followed by s.Bytes().                                  *)
Sign(r, s) == r \o s

(* Not the code: a middle byte goes to r.                                  *)
SplitLate(signature) ==
    LET half == (Len(signature) + 1) \div 2 IN
    <<SetBytes(SubSeq(signature, 1, half)),
      SetBytes(SubSeq(signature, half + 1, Len(signature)))>>

(* A middle byte goes to s.                                                *)
Split(signature) ==
    LET half == Len(signature) \div 2 IN
    <<SetBytes(SubSeq(signature, 1, half)),
      SetBytes(SubSeq(signature, half + 1, Len(signature)))>>

(* VerifySignature, of the signature that Sign has made of r and s.        *)
Verifies(r, s) ==
    /\ Len(Sign(r, s)) >= MinLength
    /\ Split(Sign(r, s)) = <<r, s>>

-----------------------------------------------------------------------------
(* A new signature is divided as it was put together if and only if s has  *)
(* as many bytes as r, or one more, and the two are long enough together:  *)
(* about one signature in 256, whose s is a byte shorter, is not.          *)
VerifiesIfBalanced(r, numbers) ==
    \A s \in numbers :
        Verifies(r, s) <=>
            /\ Len(s) - Len(r) \in {0, 1}
            /\ Len(r) + Len(s) >= MinLength
=============================================================================
