------------------------------- MODULE Merkle -------------------------------
(***************************************************************************)
(* The Merkle tree over the ids of a block: internal/merkle/merkle.go.     *)
(* Bytes are a sequence of pieces.  A hash is what was hashed, as one      *)
(* piece: two hashes are equal only if that was, and an id that nobody     *)
(* has checked may have any other length.                                  *)
(***************************************************************************)
EXTENDS Integers, Sequences, SequencesExt

CONSTANT
    Content  \* what transactions are serialized to, as sequences of pieces

(* A transaction is longer than two hashes.                                *)
ASSUME MerkleAssumption == \A content \in Content : Len(content) > 2

(* crypto.DoubleHashBytes.                                                 *)
DoubleHashBytes(bytes) == << <<bytes>> >>

(* The root of no ids at all: 32 zero bytes.                               *)
EmptyRoot == << <<>> >>

(* Two nodes are hashed one after the other, whatever their lengths.       *)
DoubleHash(left, right) == DoubleHashBytes(left \o right)

(* Not the code: an odd last node is dropped.                              *)
PadDropping(level) ==
    IF Len(level) % 2 = 0 THEN level ELSE Front(level)

(* An odd last node is doubled.                                            *)
Pad(level) ==
    IF Len(level) % 2 = 0 THEN level ELSE Append(level, Last(level))

NextLevel(level) ==
    LET p == Pad(level) IN
    [i \in 1..(Len(p) \div 2) |-> DoubleHash(p[2 * i - 1], p[2 * i])]

(* BuildMerkleTree: all levels, each as long as it is before the padding.  *)
(* The level after a single node is that node again, and is not kept.      *)
BuildMerkleTree(ids) ==
    LET level[n \in 1..(Len(ids) + 1)] ==
            IF n = 1 THEN ids
            ELSE IF Len(level[n - 1]) <= 1 THEN level[n - 1]
            ELSE NextLevel(level[n - 1])
        height == CHOOSE n \in 1..Len(ids) :
                      /\ Len(level[n]) = 1
                      /\ \A m \in 1..(n - 1) : Len(level[m]) > 1
    IN IF ids = <<>> THEN <<>> ELSE [n \in 1..height |-> level[n]]

(* BuildMerkleRoot: the same loop, without keeping the levels.             *)
BuildMerkleRoot(ids) ==
    IF ids = <<>> THEN EmptyRoot ELSE Last(BuildMerkleTree(ids))[1]

-----------------------------------------------------------------------------
(* The ids that NewTransaction makes.                                      *)
TransactionIds == {DoubleHashBytes(content) : content \in Content}

FromTransactions(ids) == \A i \in DOMAIN ids : ids[i] \in TransactionIds

(* As long as a hash each, which SubmitTransaction does not ask of an id.  *)
LongAsHash(ids) == \A i \in DOMAIN ids : Len(ids[i]) = 1

(* What a root says of the ids it was made from.  Two lists with the same  *)
(* root are the same, or the longer one is the shorter with ids repeated   *)
(* that it ends with: no id is lost, added, changed or moved.  That takes  *)
(* ids as long as a hash, or their bytes may be cut elsewhere, and for two *)
(* lists of different lengths ids of transactions, or an id may be a node. *)
SameUpToRepeats(long, short) ==
    /\ IsPrefix(short, long)
    /\ \A i \in (Len(short) + 1)..Len(long) :
           \E k \in 1..Len(short) : i - k <= Len(short) /\ long[i] = long[i - k]

Comparable(ids, other) ==
    /\ LongAsHash(ids) /\ LongAsHash(other)
    /\ Len(ids) = Len(other) \/ (FromTransactions(ids) /\ FromTransactions(other))

RootTellsIds(ids, lists) ==
    \A other \in lists :
        Comparable(ids, other) /\ BuildMerkleRoot(ids) = BuildMerkleRoot(other) =>
            SameUpToRepeats(ids, other) \/ SameUpToRepeats(other, ids)
=============================================================================
