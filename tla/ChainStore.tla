----------------------------- MODULE ChainStore -----------------------------
(***************************************************************************)
(* Persistence of the chain: NewBlockchain, loadBlockchain and             *)
(* saveBlockToDB of internal/blockchain/blockchain.go over the LevelDB     *)
(* keys of internal/storage/storage.go.                                    *)
(*                                                                         *)
(* Every Put is a step of its own and the process may die between any two  *)
(* of them; a Put that returned survives the death of the process.  A Put  *)
(* or a Get may also return an error.  Blocks are named by their hashes,   *)
(* numbered in the order they are mined, and header keeps what each hash   *)
(* is the hash of.  A key that was never written reads as Missing, and so  *)
(* does the zero hash that ends a chain.                                   *)
(***************************************************************************)
EXTENDS Integers, Sequences

CONSTANTS
    Interval,     \* DifficultyAdjustmentInterval (10 in the code)
    DefaultBits,  \* pow.DefaultTargetBits (16)
    MinBits,      \* lower limit of adjustDifficulty (8)
    MaxBits,      \* upper limit of adjustDifficulty (32)
    PutMayFail,   \* whether a Put may return an error
    GetMayFail,   \* whether a Get of a key that is there may return an error
    MaxMined      \* bound on the blocks ever mined

ASSUME ChainStoreAssumption ==
    /\ Interval \in Nat \ {0}
    /\ MinBits \in Nat \ {0} /\ DefaultBits \in Nat /\ MaxBits \in Nat
    /\ MinBits <= DefaultBits /\ DefaultBits <= MaxBits
    /\ PutMayFail \in BOOLEAN /\ GetMayFail \in BOOLEAN
    /\ MaxMined \in Nat

VARIABLES
    header,     \* of every block mined so far: [prev, bits]
    stored,     \* the blocks under a block_ key
    tip,        \* the chain_tip key
    height,     \* the chain_height key
    difficulty, \* the difficulty key
    pc,         \* what the process is doing
    chain,      \* bc.Blocks
    bits,       \* bc.DifficultyTarget
    cursor,     \* currentHash of loadBlockchain
    committed,  \* history: the chain at the last SaveChainTip
    acked,      \* history: blocks whose saving returned without an error
    faulted,    \* history: a Put has returned an error
    misread     \* history: a start has taken a stored chain for none

disk == <<stored, tip, height, difficulty>>
history == <<committed, acked, faulted, misread>>
vars == <<header, disk, pc, chain, bits, cursor, history>>

Missing == 0

Block == 1..Len(header)

Saving == {"SaveBlock", "SaveChainTip", "SaveChainHeight", "SaveDifficulty",
           "SaveUTXO"}

(* The states in which a *Blockchain exists and its chain can be seen.     *)
Serving == Saving \cup {"idle"}

(* No process, or one that gave up: on what it found, or on a read error.  *)
Stopped == {"down", "failed", "unreadable"}

Tip == chain[Len(chain)]

-----------------------------------------------------------------------------
Init ==
    /\ header = <<>>
    /\ stored = {}
    /\ tip = Missing /\ height = Missing /\ difficulty = Missing
    /\ pc = "down"
    /\ chain = <<>> /\ bits = Missing /\ cursor = Missing
    /\ committed = <<>> /\ acked = {}
    /\ faulted = FALSE /\ misread = FALSE

(* A block with this content is mined and put at the end of bc.Blocks.     *)
AppendMined(prev, target) ==
    /\ Len(header) < MaxMined
    /\ header' = Append(header, [prev |-> prev, bits |-> target])
    /\ chain' = Append(chain, Len(header) + 1)
    /\ bits' = target
    /\ pc' = "SaveBlock"
    /\ UNCHANGED <<disk, cursor, committed, acked, faulted>>

(* A key can be read when it is there; ReadFails and MisreadTip are the    *)
(* reads that return an error although it is.                              *)
GetChainTip == tip # Missing

GetChainHeight == height # Missing

GetDifficulty == difficulty # Missing

GetBlock(hash) == hash \in stored

(* NewBlockchain on a database without a tip: a fresh genesis block.       *)
CreateGenesis ==
    /\ pc \in Stopped /\ ~GetChainTip
    /\ AppendMined(Missing, DefaultBits)
    /\ UNCHANGED misread

(* NewBlockchain takes every error of GetChainTip for "no chain": a fresh  *)
(* genesis block beside the blocks that are there.                         *)
MisreadTip ==
    /\ GetMayFail
    /\ pc \in Stopped /\ GetChainTip
    /\ AppendMined(Missing, DefaultBits)
    /\ misread' = TRUE

(* loadBlockchain reads the metadata; both keys must be there.             *)
StartLoad ==
    /\ pc \in Stopped /\ GetChainTip
    /\ GetChainHeight /\ GetDifficulty
    /\ pc' = "loading"
    /\ cursor' = tip
    /\ bits' = difficulty
    /\ UNCHANGED <<header, disk, chain, history>>

(* "failed to get chain height" or "failed to get difficulty": the caller  *)
(* of NewBlockchain exits.                                                 *)
MetadataMissing ==
    /\ pc \in Stopped /\ GetChainTip
    /\ ~GetChainHeight \/ ~GetDifficulty
    /\ pc' = "failed"
    /\ UNCHANGED <<header, disk, chain, bits, cursor, history>>

(* loadBlockchain returns the error of any of its reads, of the metadata   *)
(* and the tip first, then of each block: the caller exits.                *)
ReadFails ==
    /\ GetMayFail
    /\ \/ pc \in Stopped /\ GetChainTip
       \/ pc = "loading"
    /\ pc' = "unreadable"
    /\ chain' = <<>> /\ bits' = Missing /\ cursor' = Missing
    /\ UNCHANGED <<header, disk, history>>

(* Not the code: the block is appended, not prepended.                    *)
LoadBlockAppending ==
    /\ pc = "loading" /\ GetBlock(cursor)
    /\ chain' = Append(chain, cursor)
    /\ cursor' = header[cursor].prev
    /\ pc' = IF header[cursor].prev = Missing THEN "idle" ELSE "loading"
    /\ UNCHANGED <<header, disk, bits, history>>

(* Not the code: the walk does not move back.                             *)
LoadBlockInPlace ==
    /\ pc = "loading" /\ GetBlock(cursor)
    /\ chain' = <<cursor>>
    /\ pc' = IF header[cursor].prev = Missing THEN "idle" ELSE "loading"
    /\ UNCHANGED <<header, disk, cursor, bits, history>>

(* One turn of the loop that walks back from the tip: the block is         *)
(* prepended; a zero previous hash ends the walk and the blockchain exists.*)
LoadBlock ==
    /\ pc = "loading" /\ GetBlock(cursor)
    /\ chain' = <<cursor>> \o chain
    /\ cursor' = header[cursor].prev
    /\ pc' = IF header[cursor].prev = Missing THEN "idle" ELSE "loading"
    /\ UNCHANGED <<header, disk, bits, history>>

(* "failed to load block": the caller of NewBlockchain exits.              *)
BlockMissing ==
    /\ pc = "loading" /\ ~GetBlock(cursor)
    /\ pc' = "failed"
    /\ chain' = <<>> /\ bits' = Missing /\ cursor' = Missing
    /\ UNCHANGED <<header, disk, history>>

(* Not the code: without the limits.                                      *)
RetargetsUnlimited ==
    IF Len(chain) % Interval = 0 THEN {bits - 1, bits, bits + 1} ELSE {bits}

(* What adjustDifficulty may leave, whatever time the interval took.       *)
Retargets ==
    IF Len(chain) % Interval = 0
    THEN {d \in {bits - 1, bits, bits + 1} :
            /\ d < bits => bits > MinBits
            /\ d > bits => bits < MaxBits}
    ELSE {bits}

(* AddBlock up to the append: adjust, mine on the tip, validate, append.   *)
AddBlock ==
    /\ pc = "idle"
    /\ \E d \in Retargets : AppendMined(Tip, d)
    /\ UNCHANGED misread

(* AddBlock that returns an error after adjustDifficulty and before the    *)
(* append: the difficulty stays adjusted.                                  *)
AddBlockFails ==
    /\ pc = "idle"
    /\ bits' \in Retargets
    /\ UNCHANGED <<header, disk, pc, chain, cursor, history>>

(* saveBlockToDB, one Put after the other.                                 *)
SaveBlock ==
    /\ pc = "SaveBlock"
    /\ stored' = stored \cup {Tip}
    /\ pc' = "SaveChainTip"
    /\ UNCHANGED <<header, tip, height, difficulty, chain, bits, cursor, history>>

SaveChainTip ==
    /\ pc = "SaveChainTip"
    /\ tip' = Tip
    /\ committed' = chain
    /\ pc' = "SaveChainHeight"
    /\ UNCHANGED <<header, stored, height, difficulty, chain, bits, cursor, acked,
                   faulted, misread>>

SaveChainHeight ==
    /\ pc = "SaveChainHeight"
    /\ height' = Len(chain)
    /\ pc' = "SaveDifficulty"
    /\ UNCHANGED <<header, stored, tip, difficulty, chain, bits, cursor, history>>

(* Not the code: the difficulty is not saved.                             *)
SkipDifficulty ==
    /\ pc = "SaveDifficulty"
    /\ pc' = "SaveUTXO"
    /\ UNCHANGED <<header, disk, chain, bits, cursor, history>>

SaveDifficulty ==
    /\ pc = "SaveDifficulty"
    /\ difficulty' = bits
    /\ pc' = "SaveUTXO"
    /\ UNCHANGED <<header, stored, tip, height, chain, bits, cursor, history>>

(* The outputs are written under keys that nothing reads; with the last of *)
(* them saveBlockToDB, and with it AddBlock or NewBlockchain, returns nil. *)
SaveUTXO ==
    /\ pc = "SaveUTXO"
    /\ acked' = acked \cup {Tip}
    /\ pc' = "idle"
    /\ UNCHANGED <<header, disk, chain, bits, cursor, committed, faulted, misread>>

(* Not the code: saving goes on after a failed Put.                       *)
PutErrorIgnored ==
    /\ PutMayFail
    /\ pc \in Saving
    /\ pc' = CASE pc = "SaveBlock"       -> "SaveChainTip"
               [] pc = "SaveChainTip"    -> "SaveChainHeight"
               [] pc = "SaveChainHeight" -> "SaveDifficulty"
               [] OTHER                  -> "SaveUTXO"
    /\ UNCHANGED <<header, disk, chain, bits, cursor, history>>

(* A Put returns an error and saveBlockToDB stops there.  AddBlock returns *)
(* it with the block still in memory; NewBlockchain gives up.              *)
PutFails ==
    /\ PutMayFail
    /\ pc \in Saving
    /\ IF Len(chain) = 1
       THEN pc' = "failed" /\ chain' = <<>> /\ bits' = Missing
       ELSE pc' = "idle" /\ UNCHANGED <<chain, bits>>
    /\ faulted' = TRUE
    /\ UNCHANGED <<header, disk, cursor, committed, acked, misread>>

(* The process ends, by Close and exit or by dying: memory is gone.        *)
Crash ==
    /\ pc \notin Stopped
    /\ pc' = "down"
    /\ chain' = <<>> /\ bits' = Missing /\ cursor' = Missing
    /\ UNCHANGED <<header, disk, history>>

Next ==
    \/ CreateGenesis \/ MisreadTip \/ StartLoad \/ MetadataMissing
    \/ LoadBlock \/ BlockMissing \/ ReadFails
    \/ AddBlock \/ AddBlockFails
    \/ SaveBlock \/ SaveChainTip \/ SaveChainHeight \/ SaveDifficulty \/ SaveUTXO
    \/ PutFails \/ Crash

Spec == Init /\ [][Next]_vars

(* A loading process keeps running: the loop waits for nothing.            *)
FairSpec == Spec /\ WF_vars(LoadBlock \/ BlockMissing)

-----------------------------------------------------------------------------
Bits == {Missing} \cup MinBits..MaxBits

TypeOK ==
    /\ header \in Seq([prev : Nat, bits : MinBits..MaxBits])
    /\ stored \subseteq Block
    /\ tip \in {Missing} \cup Block
    /\ height \in Nat
    /\ difficulty \in Bits
    /\ pc \in Serving \cup Stopped \cup {"loading"}
    /\ chain \in Seq(Block)
    /\ bits \in Bits
    /\ cursor \in {Missing} \cup Block
    /\ committed \in Seq(Block)
    /\ acked \subseteq Block
    /\ faulted \in BOOLEAN /\ misread \in BOOLEAN

(* A block that AddBlock (or NewBlockchain, for the genesis block) has     *)
(* reported saved is stored and belongs to the committed chain, the one    *)
(* every later load starts from; only a start that took the stored chain   *)
(* for none puts another chain in its place, and then only the blocks from *)
(* before that chain's genesis block are left out.                         *)
AckedDurable ==
    \A b \in acked :
       /\ b \in stored
       /\ committed # <<>>
       /\ \/ \E i \in 1..Len(committed) : committed[i] = b
          \/ misread /\ b < committed[1]

(* Once NewBlockchain has returned, or a later start has, no start finds a *)
(* key missing as long as every Put succeeds: the metadata is complete and *)
(* the walk from the tip meets no gap, wherever the process died before    *)
(* and whatever reads failed.                                              *)
RecoverableOnceBorn == ~faulted => (pc = "failed" => acked = {})

(* The store implements the durable log: what a load rebuilds is exactly   *)
(* the chain at the last SaveChainTip, and that chain only grows, unless a *)
(* start takes it for none.                                                *)
View == IF pc \in Serving THEN chain ELSE <<>>

Durable == INSTANCE DurableChain WITH
              Block <- 1..MaxMined, log <- committed, view <- View

RefinesDurableChain == Durable!Spec

(* The walk back from the tip ends, with a chain or with an error.         *)
LoadEnds == pc = "loading" ~> pc # "loading"

-----------------------------------------------------------------------------
(* What the documentation promises and the code does not keep. *)

(* cmd/node/main.go:144 "Run again to load blockchain from disk!": a node  *)
(* can always be run again.                                                *)
AlwaysRestarts == pc # "failed"
=============================================================================
