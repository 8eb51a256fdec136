----------------------------- MODULE ProofOfWork -----------------------------
(***************************************************************************)
(* The search for a nonce: internal/pow/pow.go, the hash of a header it    *)
(* takes from internal/crypto/hash.go and pkg/types/types.go, and what     *)
(* AddBlock of internal/blockchain/blockchain.go does with its result.     *)
(* A block is made up to its nonce, so the hash function is a function of  *)
(* the nonce, any that gives no hash twice.                                *)
(***************************************************************************)
EXTENDS Integers

CONSTANTS
    MaxNonce, \* math.MaxUint32 in the code
    HashBits  \* 256 in the code

ASSUME ProofOfWorkAssumption == MaxNonce \in Nat \ {0} /\ HashBits \in Nat

Nonce == 0..MaxNonce

Hashes == 0..(2^HashBits - 1)

(* HashBlockHeader: all fields of the header are serialized, and of these  *)
(* only the nonce changes while a block is mined.                          *)
HashBlockHeader(hash, nonce) == hash[nonce]

(* NewProofOfWork: 1, shifted left.                                        *)
Target(bits) == 2^(HashBits - bits)

(* hashInt.Cmp(target) == -1.                                              *)
IsValidHash(h, bits) == h < Target(bits)

(* Mine: the loop ends at a nonce whose hash is low enough, or at          *)
(* MaxNonce, and then the hash is still that of the nonce before.          *)
Mine(hash, bits) ==
    LET loop[nonce \in Nonce] ==
            IF nonce = MaxNonce
            THEN [nonce |-> nonce, hash |-> HashBlockHeader(hash, nonce - 1)]
            ELSE IF IsValidHash(HashBlockHeader(hash, nonce), bits)
            THEN [nonce |-> nonce, hash |-> HashBlockHeader(hash, nonce)]
            ELSE loop[nonce + 1]
    IN loop[0]

(* Validate computes the hash of the header again.                         *)
Validate(hash, block, bits) == IsValidHash(HashBlockHeader(hash, block.nonce), bits)

(* Not the code: the stored hash is not compared with the header's.        *)
AcceptedByProof(hash, block, bits) == Validate(hash, block, bits)

(* The first two checks of ValidateBlock.                                  *)
Accepted(hash, block, bits) ==
    /\ Validate(hash, block, bits)
    /\ block.hash = HashBlockHeader(hash, block.nonce)

-----------------------------------------------------------------------------
(* AddBlock accepts what Mine returns if and only if the hash of some      *)
(* nonce below MaxNonce is low enough: when the search has run out, the    *)
(* block is refused even if the hash of MaxNonce, which its header then    *)
(* has, happens to be low.                                                 *)
AcceptedIfFound(hash, bits) ==
    Accepted(hash, Mine(hash, bits), bits)
        <=> \E nonce \in 0..(MaxNonce - 1) : IsValidHash(hash[nonce], bits)
=============================================================================
