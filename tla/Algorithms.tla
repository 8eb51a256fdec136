----------------------------- MODULE Algorithms -----------------------------
(***************************************************************************)
(* The pure algorithms over bounded inputs: an input is an initial state   *)
(* of its own, and stays.                                                  *)
(***************************************************************************)
EXTENDS Merkle, Retarget, ProofOfWork, Functions

CONSTANT
    Ids     \* lists of ids of transactions, and of ids that nobody checked

VARIABLE input

(* Paces on both sides of each limit, through four intervals.              *)
Gaps == {0, 4, 5, 6, 10, 15, 20, 21, 22, 23, 40}

Lengths == 1..41

Inputs ==
    [kind : {"ids"}, ids : Ids]
    \cup [kind : {"pace"}, gap : Gaps, first : MinBits..MaxBits]
    \cup [kind : {"nonces"}, hash : Injection(Nonce, Hashes),
          bits : 0..HashBits]
    \cup [kind : {"none"}]

InputNext == UNCHANGED input

InputSpec == input \in Inputs /\ [][InputNext]_input

(* A Merkle root tells the ids it was made from, up to repeats at the end: *)
(* no two of the lists are confused otherwise, if their ids are as long as *)
(* a hash and the lists are of one length or of ids of transactions.       *)
MerkleRootTellsIds == input.kind = "ids" => RootTellsIds(input.ids, Ids)

(* The difficulty follows the pace of the blocks, from every difficulty    *)
(* and whatever the number of blocks.                                      *)
DifficultyFollowsPace ==
    input.kind = "pace" => FollowsPace(input.gap, input.first, Lengths)

(* AddBlock accepts the block it has mined exactly if the search has found *)
(* a nonce, for every hash function there is on the nonces.                *)
MinedIsAccepted ==
    input.kind = "nonces" => AcceptedIfFound(input.hash, input.bits)
=============================================================================
