-------------------------- MODULE ChainStoreProofs --------------------------
(***************************************************************************)
(* Proofs about ChainStore, for every length of chain, difficulty range    *)
(* and adjustment interval, with writes that may or may not fail.          *)
(***************************************************************************)
EXTENDS ChainStore, Facts

-----------------------------------------------------------------------------
(* The inductive invariant, in named parts. *)

(* Each block of s has the one before it as its parent, down to genesis.   *)
Linked(s) ==
    \A i \in 1..Len(s) : header[s[i]].prev = IF i = 1 THEN Missing ELSE s[i - 1]

TipIsCommitted ==
    tip = IF committed = <<>> THEN Missing ELSE committed[Len(committed)]

Extends ==
    /\ Len(committed) <= Len(chain)
    /\ \A i \in 1..Len(committed) : chain[i] = committed[i]

(* The genesis block of a node that could not read the tip, not yet the    *)
(* tip itself.                                                             *)
BegunAnew == misread /\ Len(chain) = 1 /\ pc \in {"SaveBlock", "SaveChainTip"}

(* A running node shows the committed chain and what it mined after it, or *)
(* its own genesis block.                                                  *)
ServingExtends ==
    pc \in Serving =>
        /\ Len(chain) > 0
        /\ Extends \/ BegunAnew
        /\ Linked(chain)
        /\ bits \in MinBits..MaxBits

(* The block being saved is the last one mined.                            *)
TipIsNew == pc \in Saving => Tip = Len(header)

(* A loading node has walked back over the end of the committed chain.     *)
LoadingSuffix ==
    pc = "loading" =>
        /\ Len(chain) < Len(committed)
        /\ cursor = committed[Len(committed) - Len(chain)]
        /\ \A i \in 1..Len(chain) :
              chain[i] = committed[Len(committed) - Len(chain) + i]
        /\ bits \in MinBits..MaxBits

StoppedEmpty == pc \in Stopped => chain = <<>>

(* How far saveBlockToDB has come.                                         *)
SaveProgress ==
    /\ pc \in Saving \ {"SaveBlock"} => Tip \in stored
    /\ pc \in {"SaveChainHeight", "SaveDifficulty", "SaveUTXO"} => committed = chain
    /\ pc \in {"SaveDifficulty", "SaveUTXO"} => height # Missing
    /\ pc = "SaveUTXO" => difficulty # Missing

AckedHasMetadata == acked # {} => height # Missing /\ difficulty # Missing

(* As long as no write has failed the committed chain has no gap.          *)
NoGap ==
    ~faulted =>
        /\ \A i \in 1..Len(committed) : committed[i] \in stored
        /\ pc = "idle" => chain = committed
        /\ pc \in {"SaveBlock", "SaveChainTip"} => Len(chain) \in {1, Len(committed) + 1}

IInv ==
    /\ TypeOK
    /\ Linked(committed)
    /\ TipIsCommitted
    /\ ServingExtends
    /\ TipIsNew
    /\ LoadingSuffix
    /\ StoppedEmpty
    /\ SaveProgress
    /\ AckedDurable
    /\ AckedHasMetadata
    /\ NoGap
    /\ RecoverableOnceBorn

-----------------------------------------------------------------------------
(* Facts about sequences. *)

(* What prepending an element does to the places of the others.           *)
LEMMA PrependFacts ==
    ASSUME NEW S, NEW s \in Seq(S), NEW e \in S
    PROVE  /\ <<e>> \o s \in Seq(S)
           /\ Len(<<e>> \o s) = Len(s) + 1
           /\ (<<e>> \o s)[1] = e
           /\ \A i \in 1..Len(s) : (<<e>> \o s)[i + 1] = s[i]
  OBVIOUS

(* The tip of a running node is a block.                                   *)
LEMMA TipInBlock == IInv /\ pc \in Serving => Tip \in Block
  <1> SUFFICES ASSUME IInv, pc \in Serving PROVE Tip \in Block
    OBVIOUS
  <1>1. chain \in Seq(Block) /\ Len(chain) > 0
    BY DEF IInv, TypeOK, ServingExtends
  <1>2. Len(chain) \in 1..Len(chain)
    BY <1>1
  <1> QED BY <1>1, <1>2, ElementIn DEF Tip

-----------------------------------------------------------------------------
(* Each action preserves the invariant. *)

(* What adjustDifficulty leaves is within its limits.                      *)
LEMMA RetargetsInRange ==
    IInv /\ pc = "idle" => Retargets \subseteq MinBits..MaxBits
  BY ChainStoreAssumption DEF IInv, ServingExtends, Serving, Saving, Retargets

(* The stored blocks only grow.                                            *)
LEMMA SaveBlockStep == IInv /\ SaveBlock => IInv'
  <1> SUFFICES ASSUME IInv, SaveBlock PROVE IInv'
    OBVIOUS
  <1> USE DEF IInv, SaveBlock, disk, history, Missing, Saving, Serving, Stopped
  <1>1. TypeOK'
    BY TipInBlock DEF TypeOK, Block, Bits
  <1>2. Linked(committed)' /\ TipIsCommitted' /\ ServingExtends'
    BY DEF Linked, TipIsCommitted, ServingExtends, Extends, BegunAnew
  <1>3. LoadingSuffix' /\ StoppedEmpty'
    BY DEF LoadingSuffix, StoppedEmpty
  <1>4. SaveProgress' /\ AckedHasMetadata' /\ TipIsNew'
    BY DEF TipIsNew, SaveProgress, AckedHasMetadata, Tip
  <1>5. NoGap'
    BY DEF NoGap
  <1>6. AckedDurable' /\ RecoverableOnceBorn'
    BY DEF AckedDurable, RecoverableOnceBorn
  <1> QED BY <1>1, <1>2, <1>3, <1>4, <1>5, <1>6

(* The committed chain grows to the running one; nothing acked is left out.*)
LEMMA SaveChainTipStep == IInv /\ SaveChainTip => IInv'
  <1> SUFFICES ASSUME IInv, SaveChainTip PROVE IInv'
    OBVIOUS
  <1> USE DEF IInv, SaveChainTip, disk, history, Missing, Saving, Serving, Stopped
  <1>1. TypeOK'
    BY TipInBlock DEF TypeOK, Block, Bits
  <1>2. Linked(committed)' /\ TipIsCommitted' /\ ServingExtends'
    BY DEF Linked, TipIsCommitted, ServingExtends, Extends, BegunAnew, Tip
  <1>3. LoadingSuffix' /\ StoppedEmpty'
    BY DEF LoadingSuffix, StoppedEmpty
  <1>4. SaveProgress' /\ AckedHasMetadata' /\ TipIsNew'
    BY DEF TipIsNew, SaveProgress, AckedHasMetadata, Tip
  <1>5. NoGap'
    <2>1. ASSUME ~faulted, NEW i \in 1..Len(chain) PROVE chain[i] \in stored
      <3>1. CASE i = Len(chain)
        BY <3>1 DEF SaveProgress, Tip
      <3>2. CASE i # Len(chain)
        <4>1. Len(chain) \in Nat /\ Len(committed) \in Nat /\ Len(chain) # 1
          <5>1. Len(chain) \in Nat /\ Len(committed) \in Nat
            BY DEF TypeOK
          <5>2. ASSUME NEW n \in Nat, NEW k \in 1..n, k # n PROVE n # 1
            BY ONLY <5>2
          <5> QED BY ONLY <3>2, <5>1, <5>2
        <4>2. Len(chain) = Len(committed) + 1 /\ i \in 1..Len(committed)
          BY <2>1, <3>2, <4>1 DEF NoGap
        <4>3. Extends
          BY <4>1 DEF ServingExtends, BegunAnew
        <4>4. chain[i] = committed[i] /\ committed[i] \in stored
          BY <2>1, <4>2, <4>3 DEF Extends, NoGap
        <4> QED BY <4>4
      <3> QED BY <3>1, <3>2
    <2> QED BY <2>1 DEF NoGap
  <1>6. AckedDurable'
    <2> SUFFICES ASSUME NEW b \in acked
                 PROVE  \/ \E i \in 1..Len(chain) : chain[i] = b
                        \/ misread /\ b < chain[1]
      BY DEF AckedDurable, ServingExtends, TypeOK
    <2>1. Len(committed) > 0
      BY DEF AckedDurable, TypeOK
    <2>2. CASE Extends
      <3>1. committed[1] = chain[1]
        BY <2>1, <2>2 DEF Extends, TypeOK
      <3>2. CASE misread /\ b < committed[1]
        BY <3>1, <3>2
      <3>3. CASE \E i \in 1..Len(committed) : committed[i] = b
        BY <2>2, <3>3 DEF Extends, TypeOK
      <3> QED BY <3>2, <3>3 DEF AckedDurable
    <2>3. CASE BegunAnew
      <3>1. chain[1] = Len(header) /\ b \in 1..Len(header)
        BY <2>3 DEF BegunAnew, TipIsNew, Tip, TypeOK, Block
      <3> QED BY <2>3, <3>1 DEF BegunAnew, TypeOK
    <2> QED BY <2>2, <2>3 DEF ServingExtends
  <1>7. RecoverableOnceBorn'
    BY DEF RecoverableOnceBorn
  <1> QED BY <1>1, <1>2, <1>3, <1>4, <1>5, <1>6, <1>7

(* The height of a chain with a block is not Missing.                      *)
LEMMA SaveChainHeightStep == IInv /\ SaveChainHeight => IInv'
  <1> SUFFICES ASSUME IInv, SaveChainHeight PROVE IInv'
    OBVIOUS
  <1> USE DEF IInv, SaveChainHeight, disk, history, Missing, Saving, Serving, Stopped
  <1>1. TypeOK'
    BY TipInBlock DEF TypeOK, Block, Bits
  <1>2. Linked(committed)' /\ TipIsCommitted' /\ ServingExtends'
    BY DEF Linked, TipIsCommitted, ServingExtends, Extends, BegunAnew
  <1>3. LoadingSuffix' /\ StoppedEmpty'
    BY DEF LoadingSuffix, StoppedEmpty
  <1>4. SaveProgress' /\ AckedHasMetadata' /\ TipIsNew'
    BY DEF TipIsNew, SaveProgress, AckedHasMetadata, Tip, ServingExtends, TypeOK
  <1>5. NoGap'
    BY DEF NoGap
  <1>6. AckedDurable' /\ RecoverableOnceBorn'
    BY DEF AckedDurable, RecoverableOnceBorn
  <1> QED BY <1>1, <1>2, <1>3, <1>4, <1>5, <1>6

(* The difficulty of a running node is not Missing.                        *)
LEMMA SaveDifficultyStep == IInv /\ SaveDifficulty => IInv'
  <1> SUFFICES ASSUME IInv, SaveDifficulty PROVE IInv'
    OBVIOUS
  <1> USE DEF IInv, SaveDifficulty, disk, history, Missing, Saving, Serving, Stopped
  <1>1. TypeOK'
    BY TipInBlock DEF TypeOK, Block, Bits
  <1>2. Linked(committed)' /\ TipIsCommitted' /\ ServingExtends'
    BY DEF Linked, TipIsCommitted, ServingExtends, Extends, BegunAnew
  <1>3. LoadingSuffix' /\ StoppedEmpty'
    BY DEF LoadingSuffix, StoppedEmpty
  <1>4. SaveProgress' /\ AckedHasMetadata' /\ TipIsNew'
    BY ChainStoreAssumption DEF TipIsNew, SaveProgress, AckedHasMetadata, Tip, ServingExtends
  <1>5. NoGap'
    BY DEF NoGap
  <1>6. AckedDurable' /\ RecoverableOnceBorn'
    BY DEF AckedDurable, RecoverableOnceBorn
  <1> QED BY <1>1, <1>2, <1>3, <1>4, <1>5, <1>6

(* The saved block is acked: it is stored and the end of the committed chain.*)
LEMMA SaveUTXOStep == IInv /\ SaveUTXO => IInv'
  <1> SUFFICES ASSUME IInv, SaveUTXO PROVE IInv'
    OBVIOUS
  <1> USE DEF IInv, SaveUTXO, disk, history, Missing, Saving, Serving, Stopped
  <1>1. TypeOK'
    BY TipInBlock DEF TypeOK, Block, Bits
  <1>2. Linked(committed)' /\ TipIsCommitted' /\ ServingExtends'
    BY DEF Linked, TipIsCommitted, ServingExtends, Extends, BegunAnew
  <1>3. LoadingSuffix' /\ StoppedEmpty'
    BY DEF LoadingSuffix, StoppedEmpty
  <1>4. SaveProgress' /\ AckedHasMetadata' /\ TipIsNew'
    BY DEF TipIsNew, SaveProgress, AckedHasMetadata, Tip
  <1>5. NoGap'
    BY DEF NoGap, SaveProgress
  <1>6. AckedDurable' /\ RecoverableOnceBorn'
    BY DEF AckedDurable, RecoverableOnceBorn, SaveProgress, ServingExtends, TypeOK, Tip
  <1> QED BY <1>1, <1>2, <1>3, <1>4, <1>5, <1>6

(* A failed write changes no key.                                          *)
LEMMA PutFailsStep == IInv /\ PutFails => IInv'
  <1> SUFFICES ASSUME IInv, PutFails PROVE IInv'
    OBVIOUS
  <1> USE DEF IInv, PutFails, disk, history, Missing, Saving, Serving, Stopped
  <1>1. TypeOK'
    <2>1. CASE Len(chain) = 1
      BY <2>1 DEF TypeOK, Block, Bits
    <2>2. CASE Len(chain) # 1
      BY <2>2 DEF TypeOK, Block, Bits
    <2> QED BY <2>1, <2>2
  <1>2. Linked(committed)' /\ TipIsCommitted' /\ ServingExtends'
    BY DEF Linked, TipIsCommitted, ServingExtends, Extends, BegunAnew
  <1>3. LoadingSuffix' /\ StoppedEmpty'
    BY DEF LoadingSuffix, StoppedEmpty
  <1>4. SaveProgress' /\ AckedHasMetadata' /\ TipIsNew'
    BY DEF TipIsNew, SaveProgress, AckedHasMetadata, Tip
  <1>5. NoGap'
    BY DEF NoGap
  <1>6. AckedDurable' /\ RecoverableOnceBorn'
    BY DEF AckedDurable, RecoverableOnceBorn
  <1> QED BY <1>1, <1>2, <1>3, <1>4, <1>5, <1>6

(* A stop leaves the keys and an empty memory.                             *)
LEMMA CrashStep == IInv /\ Crash => IInv'
  <1> SUFFICES ASSUME IInv, Crash PROVE IInv'
    OBVIOUS
  <1> USE DEF IInv, Crash, disk, history, Missing, Saving, Serving, Stopped
  <1>1. TypeOK'
    BY DEF TypeOK, Block, Bits
  <1>2. Linked(committed)' /\ TipIsCommitted' /\ ServingExtends'
    BY DEF Linked, TipIsCommitted, ServingExtends, Extends, BegunAnew
  <1>3. LoadingSuffix' /\ StoppedEmpty'
    BY DEF LoadingSuffix, StoppedEmpty
  <1>4. SaveProgress' /\ AckedHasMetadata' /\ TipIsNew'
    BY DEF TipIsNew, SaveProgress, AckedHasMetadata, Tip
  <1>5. NoGap'
    BY DEF NoGap
  <1>6. AckedDurable' /\ RecoverableOnceBorn'
    BY DEF AckedDurable, RecoverableOnceBorn
  <1> QED BY <1>1, <1>2, <1>3, <1>4, <1>5, <1>6

(* A block that is not appended leaves an adjusted difficulty in range.    *)
LEMMA AddBlockFailsStep == IInv /\ AddBlockFails => IInv'
  <1> SUFFICES ASSUME IInv, AddBlockFails PROVE IInv'
    OBVIOUS
  <1> USE DEF IInv, AddBlockFails, disk, history, Missing, Saving, Serving, Stopped
  <1>1. TypeOK'
    BY RetargetsInRange DEF TypeOK, Block, Bits
  <1>2. Linked(committed)' /\ TipIsCommitted' /\ ServingExtends'
    BY RetargetsInRange DEF Linked, TipIsCommitted, ServingExtends, Extends, BegunAnew
  <1>3. LoadingSuffix' /\ StoppedEmpty'
    BY DEF LoadingSuffix, StoppedEmpty
  <1>4. SaveProgress' /\ AckedHasMetadata' /\ TipIsNew'
    BY DEF TipIsNew, SaveProgress, AckedHasMetadata, Tip
  <1>5. NoGap'
    BY DEF NoGap
  <1>6. AckedDurable' /\ RecoverableOnceBorn'
    BY DEF AckedDurable, RecoverableOnceBorn
  <1> QED BY <1>1, <1>2, <1>3, <1>4, <1>5, <1>6

(* A load starts at the end of the committed chain.                        *)
LEMMA StartLoadStep == IInv /\ StartLoad => IInv'
  <1> SUFFICES ASSUME IInv, StartLoad PROVE IInv'
    OBVIOUS
  <1> USE DEF IInv, StartLoad, disk, history, Missing, Saving, Serving, Stopped, GetChainTip, GetChainHeight, GetDifficulty
  <1>1. TypeOK'
    BY DEF TypeOK, Block, Bits
  <1>2. Linked(committed)' /\ TipIsCommitted' /\ ServingExtends'
    BY DEF Linked, TipIsCommitted, ServingExtends, Extends, BegunAnew
  <1>3. LoadingSuffix' /\ StoppedEmpty'
    BY DEF LoadingSuffix, StoppedEmpty, TipIsCommitted, TypeOK, Bits
  <1>4. SaveProgress' /\ AckedHasMetadata' /\ TipIsNew'
    BY DEF TipIsNew, SaveProgress, AckedHasMetadata, Tip
  <1>5. NoGap'
    BY DEF NoGap
  <1>6. AckedDurable' /\ RecoverableOnceBorn'
    BY DEF AckedDurable, RecoverableOnceBorn
  <1> QED BY <1>1, <1>2, <1>3, <1>4, <1>5, <1>6

(* Metadata is only missing while no block is acked.                       *)
LEMMA MetadataMissingStep == IInv /\ MetadataMissing => IInv'
  <1> SUFFICES ASSUME IInv, MetadataMissing PROVE IInv'
    OBVIOUS
  <1> USE DEF IInv, MetadataMissing, disk, history, Missing, Saving, Serving, Stopped, GetChainTip, GetChainHeight, GetDifficulty
  <1>1. TypeOK'
    BY DEF TypeOK, Block, Bits
  <1>2. Linked(committed)' /\ TipIsCommitted' /\ ServingExtends'
    BY DEF Linked, TipIsCommitted, ServingExtends, Extends, BegunAnew
  <1>3. LoadingSuffix' /\ StoppedEmpty'
    BY DEF LoadingSuffix, StoppedEmpty
  <1>4. SaveProgress' /\ AckedHasMetadata' /\ TipIsNew'
    BY DEF TipIsNew, SaveProgress, AckedHasMetadata, Tip
  <1>5. NoGap'
    BY DEF NoGap
  <1>6. AckedDurable' /\ RecoverableOnceBorn'
    BY DEF AckedDurable, RecoverableOnceBorn, AckedHasMetadata
  <1> QED BY <1>1, <1>2, <1>3, <1>4, <1>5, <1>6

(* A block is only missing when writes may fail.                           *)
LEMMA BlockMissingStep == IInv /\ BlockMissing => IInv'
  <1> SUFFICES ASSUME IInv, BlockMissing PROVE IInv'
    OBVIOUS
  <1> USE DEF IInv, BlockMissing, disk, history, Missing, Saving, Serving, Stopped, GetBlock
  <1>1. TypeOK'
    BY DEF TypeOK, Block, Bits
  <1>2. Linked(committed)' /\ TipIsCommitted' /\ ServingExtends'
    BY DEF Linked, TipIsCommitted, ServingExtends, Extends, BegunAnew
  <1>3. LoadingSuffix' /\ StoppedEmpty'
    BY DEF LoadingSuffix, StoppedEmpty
  <1>4. SaveProgress' /\ AckedHasMetadata' /\ TipIsNew'
    BY DEF TipIsNew, SaveProgress, AckedHasMetadata, Tip
  <1>5. NoGap'
    BY DEF NoGap
  <1>6. AckedDurable' /\ RecoverableOnceBorn'
    BY DEF AckedDurable, RecoverableOnceBorn, NoGap, LoadingSuffix, TypeOK
  <1> QED BY <1>1, <1>2, <1>3, <1>4, <1>5, <1>6

(* A read that fails leaves the keys and an empty memory.                  *)
LEMMA ReadFailsStep == IInv /\ ReadFails => IInv'
  <1> SUFFICES ASSUME IInv, ReadFails PROVE IInv'
    OBVIOUS
  <1> USE DEF IInv, ReadFails, disk, history, Missing, Saving, Serving, Stopped, GetChainTip
  <1>1. TypeOK'
    BY DEF TypeOK, Block, Bits
  <1>2. Linked(committed)' /\ TipIsCommitted' /\ ServingExtends'
    BY DEF Linked, TipIsCommitted, ServingExtends, Extends, BegunAnew
  <1>3. LoadingSuffix' /\ StoppedEmpty'
    BY DEF LoadingSuffix, StoppedEmpty
  <1>4. SaveProgress' /\ AckedHasMetadata' /\ TipIsNew'
    BY DEF TipIsNew, SaveProgress, AckedHasMetadata, Tip
  <1>5. NoGap'
    BY DEF NoGap
  <1>6. AckedDurable' /\ RecoverableOnceBorn'
    BY DEF AckedDurable, RecoverableOnceBorn, NoGap, LoadingSuffix, TypeOK
  <1> QED BY <1>1, <1>2, <1>3, <1>4, <1>5, <1>6

(* Mining adds one block to the headers and to the chain in memory, and    *)
(* leaves what was there.                                                  *)
LEMMA MinedFacts ==
    ASSUME IInv, NEW prev \in Nat, NEW target \in MinBits..MaxBits,
           AppendMined(prev, target), misread' \in BOOLEAN
    PROVE  /\ TypeOK'
           /\ Len(chain') = Len(chain) + 1
           /\ \A i \in 1..Len(chain) : chain'[i] = chain[i]
           /\ chain'[Len(chain) + 1] = Len(header')
           /\ header'[chain'[Len(chain) + 1]].prev = prev
           /\ \A b \in Block : header'[b] = header[b]
           /\ Linked(committed)'
  <1> DEFINE H == [prev : Nat, bits : MinBits..MaxBits]
             new == Len(header) + 1
  <1> USE DEF AppendMined
  <1>1. header \in Seq(H) /\ [prev |-> prev, bits |-> target] \in H
    BY DEF IInv, TypeOK
  <1>2. /\ header' \in Seq(H)
        /\ Len(header') = new
        /\ \A b \in Block : header'[b] = header[b]
        /\ header'[new] = [prev |-> prev, bits |-> target]
    BY <1>1, AppendFacts DEF Block
  <1>3. Block' = 1..new /\ Block \subseteq Block' /\ new \in Block'
    BY <1>1, <1>2 DEF Block
  <1>4. chain \in Seq(Block') /\ committed \in Seq(Block')
    BY <1>1, <1>3, SeqOfMore DEF IInv, TypeOK, Block
  <1>5. /\ chain' \in Seq(Block')
        /\ Len(chain') = Len(chain) + 1
        /\ \A i \in 1..Len(chain) : chain'[i] = chain[i]
        /\ chain'[Len(chain) + 1] = new
    BY <1>3, <1>4, AppendFacts
  <1>6. TypeOK'
    BY <1>2, <1>3, <1>4, <1>5 DEF IInv, TypeOK, disk, history, Bits, Serving, Saving
  <1>7. Linked(committed)'
    BY ZenonT(40), <1>2, ElementIn DEF IInv, TypeOK, Linked, history
  <1>8. header'[chain'[Len(chain) + 1]].prev = prev
    BY ONLY <1>2, <1>5
  <1> HIDE DEF AppendMined
  <1> QED BY <1>2, <1>5, <1>6, <1>7, <1>8

(* A genesis block is made when nothing is committed or over a stored tip. *)
LEMMA GenesisFirst ==
    ASSUME IInv, CreateGenesis PROVE committed = <<>> /\ chain = <<>>
  <1>1. chain = <<>>
    BY DEF IInv, CreateGenesis, StoppedEmpty, GetChainTip
  <1>2. SUFFICES ASSUME committed # <<>> PROVE FALSE
    BY <1>1
  <1>3. committed \in Seq(Block) /\ Len(committed) \in 1..Len(committed)
    BY <1>2 DEF IInv, TypeOK
  <1>4. tip \in Block
    BY <1>2, <1>3, ElementIn DEF IInv, TipIsCommitted
  <1> QED BY <1>4 DEF CreateGenesis, Block, Missing, GetChainTip

(* A genesis block is linked to the zero hash.  It extends a chain of which*)
(* nothing is committed, or it is the first block of a chain begun anew.   *)
LEMMA GenesisStep ==
    ASSUME IInv, pc \in Stopped, AppendMined(Missing, DefaultBits),
           \/ committed = <<>> /\ UNCHANGED misread
           \/ misread' = TRUE
    PROVE  IInv'
  <1>1. chain = <<>> /\ misread \in BOOLEAN /\ misread' \in BOOLEAN
    BY DEF IInv, TypeOK, StoppedEmpty
  <1>2. Missing \in Nat /\ DefaultBits \in MinBits..MaxBits
    BY ChainStoreAssumption DEF Missing
  <1>3. /\ TypeOK' /\ Linked(committed)'
        /\ Len(chain') = 1
        /\ chain'[1] = Len(header')
        /\ header'[chain'[1]].prev = Missing
    <2>1. /\ TypeOK' /\ Linked(committed)'
          /\ Len(chain') = Len(chain) + 1
          /\ chain'[Len(chain) + 1] = Len(header')
          /\ header'[chain'[Len(chain) + 1]].prev = Missing
      BY <1>1, <1>2, MinedFacts
    <2>2. Len(chain) = 0
      BY <1>1
    <2>3. Len(chain) + 1 = 1
      BY <2>2
    <2> QED BY <2>1, <2>3
  <1> USE DEF AppendMined, disk, Missing, Saving, Serving, Stopped
  <1>4. Extends' \/ BegunAnew'
    BY <1>3 DEF Extends, BegunAnew
  <1>5. TipIsCommitted' /\ ServingExtends' /\ LoadingSuffix' /\ StoppedEmpty'
    BY <1>2, <1>3, <1>4
    DEF IInv, TipIsCommitted, ServingExtends, LoadingSuffix, StoppedEmpty, Linked
  <1>6. SaveProgress' /\ AckedHasMetadata' /\ NoGap' /\ TipIsNew'
    BY <1>3 DEF IInv, SaveProgress, AckedHasMetadata, NoGap, TipIsNew, Tip
  <1>7. AckedDurable' /\ RecoverableOnceBorn'
    BY <1>1 DEF IInv, AckedDurable, RecoverableOnceBorn
  <1> QED BY <1>3, <1>5, <1>6, <1>7 DEF IInv

(* The first chain starts with nothing committed.                          *)
LEMMA CreateGenesisStep == IInv /\ CreateGenesis => IInv'
  BY GenesisFirst, GenesisStep DEF CreateGenesis, GetChainTip

(* A chain begun anew leaves the committed one for now.                    *)
LEMMA MisreadTipStep == IInv /\ MisreadTip => IInv'
  BY GenesisStep DEF MisreadTip, GetChainTip

(* A mined block extends the running chain by one.                         *)
LEMMA AddBlockStep == IInv /\ AddBlock => IInv'
  <1> SUFFICES ASSUME IInv, NEW d \in Retargets, pc = "idle", AppendMined(Tip, d),
                      UNCHANGED misread
               PROVE  IInv'
    BY DEF AddBlock
  <1> USE DEF Missing, Saving, Serving, Stopped
  <1>1. Tip \in Block /\ Tip \in Nat /\ d \in MinBits..MaxBits
    BY TipInBlock, RetargetsInRange DEF Block
  <1>2. /\ TypeOK' /\ Linked(committed)'
        /\ Len(chain') = Len(chain) + 1
        /\ \A i \in 1..Len(chain) : chain'[i] = chain[i]
        /\ chain'[Len(chain) + 1] = Len(header')
        /\ header'[chain'[Len(chain) + 1]].prev = Tip
        /\ \A b \in Block : header'[b] = header[b]
    <2>1. misread' \in BOOLEAN
      BY DEF IInv, TypeOK
    <2> QED BY <1>1, <2>1, MinedFacts
  <1> USE DEF AppendMined, disk, history
  <1>3. Len(chain) \in Nat /\ Len(chain) > 0 /\ Len(committed) \in Nat
    BY DEF IInv, ServingExtends, TypeOK
  <1>4. Linked(chain)'
    <2>1. ASSUME NEW i \in 1..(Len(chain) + 1)
          PROVE  header'[chain'[i]].prev = IF i = 1 THEN Missing ELSE chain'[i - 1]
      <3>1. CASE i = Len(chain) + 1
        BY <1>2, <1>3, <3>1 DEF Tip
      <3>2. CASE i \in 1..Len(chain)
        <4>1. chain[i] \in Block
          BY <3>2, ElementIn DEF IInv, TypeOK
        <4>2. header[chain[i]].prev = IF i = 1 THEN Missing ELSE chain[i - 1]
          BY <3>2 DEF IInv, ServingExtends, Linked
        <4>3. chain'[i] = chain[i] /\ header'[chain[i]] = header[chain[i]]
          BY <1>2, <3>2, <4>1
        <4>4. i # 1 => chain'[i - 1] = chain[i - 1]
          <5> SUFFICES ASSUME i # 1 PROVE chain'[i - 1] = chain[i - 1]
            OBVIOUS
          <5>1. i - 1 \in 1..Len(chain)
            BY <1>3, <3>2
          <5> QED BY <1>2, <5>1
        <4> QED BY <4>2, <4>3, <4>4
      <3>3. i = Len(chain) + 1 \/ i \in 1..Len(chain)
        BY <1>3
      <3> QED BY <3>1, <3>2, <3>3
    <2> QED BY <1>2, <2>1 DEF Linked
  <1>5. TipIsCommitted' /\ ServingExtends' /\ LoadingSuffix' /\ StoppedEmpty'
    <2>1. Extends'
      BY <1>2, <1>3 DEF IInv, ServingExtends, BegunAnew, Extends
    <2> QED BY <1>1, <1>2, <1>3, <1>4, <2>1
            DEF IInv, TipIsCommitted, ServingExtends, LoadingSuffix, StoppedEmpty
  <1>6. SaveProgress' /\ AckedHasMetadata' /\ NoGap' /\ TipIsNew'
    BY <1>2 DEF IInv, SaveProgress, AckedHasMetadata, NoGap, TipIsNew, Tip
  <1>7. AckedDurable' /\ RecoverableOnceBorn'
    BY DEF IInv, AckedDurable, RecoverableOnceBorn
  <1> QED BY <1>2, <1>5, <1>6, <1>7 DEF IInv

(* One turn of the walk: the block found is the committed one before those *)
(* found already, and the walk ends exactly at the first of them.          *)
LEMMA LoadBlockFacts ==
    ASSUME IInv, LoadBlock
    PROVE  /\ chain' \in Seq(Block)
           /\ Len(chain') = Len(chain) + 1
           /\ Len(chain') <= Len(committed)
           /\ \A i \in 1..Len(chain') :
                 chain'[i] = committed[Len(committed) - Len(chain') + i]
           /\ pc' = "idle" => Len(chain') = Len(committed)
           /\ pc' # "idle" => /\ Len(chain') < Len(committed)
                              /\ cursor' = committed[Len(committed) - Len(chain')]
           /\ cursor' \in {Missing} \cup Block
  <1> DEFINE k == Len(committed) - Len(chain)
  <1>1. /\ chain \in Seq(Block) /\ committed \in Seq(Block)
        /\ Len(chain) \in Nat /\ Len(committed) \in Nat
    BY DEF IInv, TypeOK
  <1>2. /\ k \in 1..Len(committed)
        /\ cursor = committed[k]
        /\ \A i \in 1..Len(chain) : chain[i] = committed[k + i]
    BY <1>1 DEF IInv, LoadingSuffix, LoadBlock, GetBlock
  <1>3. cursor \in Block
    BY <1>1, <1>2, ElementIn
  <1>4. /\ chain' \in Seq(Block)
        /\ Len(chain') = Len(chain) + 1
        /\ chain'[1] = cursor
        /\ \A i \in 1..Len(chain) : chain'[i + 1] = chain[i]
    BY <1>1, <1>3, PrependFacts DEF LoadBlock, GetBlock
  <1>5. header[cursor].prev = IF k = 1 THEN Missing ELSE committed[k - 1]
    BY <1>2 DEF IInv, Linked
  <1>6. k # 1 => committed[k - 1] \in Block /\ committed[k - 1] # Missing
    <2> SUFFICES ASSUME k # 1 PROVE committed[k - 1] \in Block
      BY DEF Block, Missing
    <2>1. k - 1 \in 1..Len(committed)
      BY <1>1, <1>2
    <2> QED BY <1>1, <2>1, ElementIn
  <1>7. ASSUME NEW i \in 1..Len(chain')
        PROVE  chain'[i] = committed[Len(committed) - Len(chain') + i]
    <2>1. CASE i = 1
      BY <1>1, <1>2, <1>4, <2>1
    <2>2. CASE i # 1
      <3>1. i - 1 \in 1..Len(chain)
        BY <1>1, <1>4, <2>2
      <3>2. chain'[(i - 1) + 1] = committed[k + (i - 1)]
        BY <1>2, <1>4, <3>1
      <3> QED BY <1>1, <1>4, <3>1, <3>2
    <2> QED BY <2>1, <2>2
  <1>8. k = 1 <=> pc' = "idle"
    BY <1>5, <1>6 DEF LoadBlock, GetBlock
  <1> QED BY <1>1, <1>2, <1>4, <1>5, <1>6, <1>7, <1>8 DEF LoadBlock, GetBlock

(* A finished load has rebuilt the committed chain.                        *)
LEMMA LoadedIsCommitted ==
    ASSUME IInv, LoadBlock, pc' = "idle"
    PROVE  chain' = committed
  <1>1. committed \in Seq(Block) /\ Len(committed) \in Nat
    BY DEF IInv, TypeOK
  <1>2. /\ chain' \in Seq(Block)
        /\ Len(chain') = Len(committed)
        /\ \A i \in 1..Len(chain') :
              chain'[i] = committed[Len(committed) - Len(chain') + i]
    BY LoadBlockFacts
  <1>3. \A i \in 1..Len(chain') : Len(committed) - Len(chain') + i = i
    BY <1>1, <1>2
  <1>4. \A i \in 1..Len(chain') : chain'[i] = committed[i]
    BY <1>2, <1>3
  <1> QED BY <1>1, <1>2, <1>4, SameSeq

(* A finished turn of the walk leaves the invariant in place.              *)
LEMMA LoadBlockStep == IInv /\ LoadBlock => IInv'
  <1> SUFFICES ASSUME IInv, LoadBlock PROVE IInv'
    OBVIOUS
  <1> USE DEF Missing, Saving, Serving, Stopped, disk, history
  <1>1. UNCHANGED <<header, disk, bits, history>> /\ pc = "loading"
        /\ pc' \in {"idle", "loading"}
    BY DEF LoadBlock, GetBlock
  <1>2. TypeOK'
    BY <1>1, LoadBlockFacts DEF IInv, TypeOK, Block
  <1>3. Linked(committed)' /\ TipIsCommitted'
    BY <1>1 DEF IInv, Linked, TipIsCommitted
  <1>4. ServingExtends'
    <2> SUFFICES ASSUME pc' = "idle" PROVE ServingExtends'
      BY <1>1 DEF ServingExtends
    <2>1. chain' = committed
      BY LoadedIsCommitted
    <2>2. Len(chain') > 0 /\ bits' \in MinBits..MaxBits
      BY <1>1, LoadBlockFacts DEF IInv, TypeOK, LoadingSuffix
    <2> QED BY <1>1, <1>3, <2>1, <2>2
            DEF ServingExtends, Extends, Linked, IInv, TypeOK
  <1>5. LoadingSuffix' /\ StoppedEmpty'
    BY <1>1, LoadBlockFacts DEF IInv, LoadingSuffix, StoppedEmpty
  <1>6. SaveProgress' /\ AckedHasMetadata' /\ TipIsNew'
    BY <1>1 DEF IInv, SaveProgress, AckedHasMetadata, TipIsNew
  <1>7. NoGap'
    BY <1>1, LoadedIsCommitted DEF IInv, NoGap
  <1>8. AckedDurable' /\ RecoverableOnceBorn'
    BY <1>1 DEF IInv, AckedDurable, RecoverableOnceBorn
  <1> QED BY <1>2, <1>3, <1>4, <1>5, <1>6, <1>7, <1>8 DEF IInv

(* Nothing exists: every part of the invariant holds vacuously.            *)
LEMMA InitEstablishes == Init => IInv
  <1> SUFFICES ASSUME Init PROVE IInv
    OBVIOUS
  <1> USE DEF Init, Missing, Saving, Serving, Stopped
  <1>1. TypeOK
    <2>1. header \in Seq([prev : Nat, bits : MinBits..MaxBits])
      OBVIOUS
    <2>2. chain \in Seq(Block) /\ committed \in Seq(Block)
      OBVIOUS
    <2> QED BY <2>1, <2>2 DEF TypeOK, Bits
  <1>2. /\ Linked(committed) /\ TipIsCommitted /\ ServingExtends
        /\ LoadingSuffix /\ StoppedEmpty
    BY DEF Linked, TipIsCommitted, ServingExtends, Extends, BegunAnew, LoadingSuffix, StoppedEmpty
  <1>3. SaveProgress /\ AckedHasMetadata /\ NoGap /\ TipIsNew
    BY DEF TipIsNew, SaveProgress, AckedHasMetadata, NoGap
  <1>4. AckedDurable /\ RecoverableOnceBorn
    BY DEF AckedDurable, RecoverableOnceBorn
  <1> QED BY <1>1, <1>2, <1>3, <1>4 DEF IInv

(* A stutter leaves every part of the invariant as it is.                  *)
LEMMA StutterPreserves == IInv /\ UNCHANGED vars => IInv'
  <1> SUFFICES ASSUME IInv, UNCHANGED vars PROVE IInv'
    OBVIOUS
  <1> USE DEF IInv, vars, disk, history
  <1>1. TypeOK'
    BY DEF TypeOK, Block, Bits
  <1>2. Linked(committed)' /\ TipIsCommitted' /\ ServingExtends'
    BY DEF Linked, TipIsCommitted, ServingExtends, Extends, BegunAnew
  <1>3. LoadingSuffix' /\ StoppedEmpty' /\ SaveProgress'
    BY DEF LoadingSuffix, StoppedEmpty, SaveProgress, Tip
  <1>4. AckedHasMetadata' /\ NoGap' /\ AckedDurable' /\ TipIsNew'
    BY DEF AckedHasMetadata, NoGap, AckedDurable, TipIsNew, Tip
  <1>5. RecoverableOnceBorn'
    BY DEF RecoverableOnceBorn
  <1> QED BY <1>1, <1>2, <1>3, <1>4, <1>5

(* Every step preserves the invariant.                                    *)
LEMMA StepPreserves == IInv /\ [Next]_vars => IInv'
  BY CreateGenesisStep, MisreadTipStep, ReadFailsStep, StartLoadStep, MetadataMissingStep, LoadBlockStep,
     BlockMissingStep, AddBlockStep, AddBlockFailsStep, SaveBlockStep,
     SaveChainTipStep, SaveChainHeightStep, SaveDifficultyStep, SaveUTXOStep,
     PutFailsStep, CrashStep, StutterPreserves
  DEF Next

-----------------------------------------------------------------------------
(* The theorems. *)

(* The inductive invariant holds in every reachable state.                 *)
THEOREM Inductive == Spec => []IInv
  BY InitEstablishes, StepPreserves, PTL DEF Spec

(* Every variable keeps its type; in particular the difficulty, in memory  *)
(* and on disk, never leaves the limits of adjustDifficulty, whatever time *)
(* the intervals take and however often AddBlock fails.                    *)
THEOREM TypeCorrect == Spec => []TypeOK
  <1>1. IInv => TypeOK
    BY DEF IInv
  <1> QED BY <1>1, Inductive, PTL

(* A block whose saving was reported done is stored and on the chain every *)
(* later load rebuilds, even when writes fail and the process dies between *)
(* any two of them.                                                        *)
THEOREM AckedStaysDurable == Spec => []AckedDurable
  <1>1. IInv => AckedDurable
    BY DEF IInv
  <1> QED BY <1>1, Inductive, PTL

(* As long as no write has failed, no start fails once a block has been    *)
(* acknowledged, wherever the process died before.                         *)
THEOREM Recoverable == Spec => []RecoverableOnceBorn
  <1>1. IInv => RecoverableOnceBorn
    BY DEF IInv
  <1> QED BY <1>1, Inductive, PTL

-----------------------------------------------------------------------------
(* The store implements the durable log. *)

(* A block mined by a running node, or by the first, shows at the end of   *)
(* the view and leaves the log.                                            *)
LEMMA MinedIsMine ==
    ASSUME IInv, NEW prev, NEW target, AppendMined(prev, target),
           pc \in Serving \/ (chain = <<>> /\ committed = <<>>),
           UNCHANGED misread
    PROVE  Durable!Mine
  <1>1. Len(header) + 1 \in 1..MaxMined
    BY ChainStoreAssumption DEF AppendMined, IInv, TypeOK
  <1>2. chain = <<>> => View = <<>>
    BY DEF View
  <1>3. View = chain \/ (chain = <<>> /\ committed = <<>>)
    BY DEF View
  <1>4. View' = Append(View, Len(header) + 1) /\ UNCHANGED <<committed, misread>>
    BY <1>2, <1>3 DEF AppendMined, View, Serving, Saving, Stopped, history
  <1>5. committed # <<>> => View # <<>>
    <2> SUFFICES ASSUME committed # <<>> PROVE View # <<>>
      OBVIOUS
    <2>1. pc \in Serving /\ Len(chain) > 0
      BY DEF IInv, ServingExtends
    <2>2. chain # <<>>
      BY <2>1 DEF IInv, TypeOK
    <2> QED BY <2>1, <2>2 DEF View
  <1> QED BY <1>1, <1>4, <1>5 DEF Durable!Mine

(* Every step of the store is a step of the durable log or leaves the log  *)
(* and the view as they are.                                               *)
LEMMA StepImplements ==
    IInv /\ [Next]_vars => [Durable!Next]_<<committed, View, misread>>
  <1> SUFFICES ASSUME IInv, Next, ~UNCHANGED <<committed, View, misread>>
               PROVE  Durable!Next
    BY DEF vars, history, View
  <1> USE DEF Durable!Next
  <1>1. CASE CreateGenesis
    <2>1. chain = <<>> /\ committed = <<>>
      BY <1>1, GenesisFirst
    <2> QED BY <1>1, <2>1, MinedIsMine DEF CreateGenesis, GetChainTip
  <1>2. CASE LoadBlock
    <2>1. View = <<>> /\ UNCHANGED <<committed, misread>>
      BY <1>2 DEF LoadBlock, View, history, Serving, Saving, GetBlock
    <2>2. pc' = "idle"
      BY <1>2, <2>1 DEF LoadBlock, View, Serving, Saving, Stopped, GetBlock
    <2>3. View' = committed
      BY <1>2, <2>2, LoadedIsCommitted DEF View, Serving
    <2> QED BY <2>1, <2>3 DEF Durable!Open
  <1>3. CASE AddBlock
    <2>1. PICK d \in Retargets : AppendMined(Tip, d)
      BY <1>3 DEF AddBlock
    <2>2. pc \in Serving /\ UNCHANGED misread
      BY <1>3 DEF AddBlock, Serving
    <2> QED BY <2>1, <2>2, MinedIsMine
  <1>4. CASE SaveChainTip
    <2>1. /\ View = chain /\ View' = chain /\ committed' = chain
          /\ UNCHANGED misread /\ pc \in Serving
      BY <1>4 DEF SaveChainTip, View, Serving, Saving, Stopped
    <2>2. \/ Durable!IsPrefixOf(committed, View)
          \/ misread /\ Len(View) = 1
      BY <2>1 DEF Durable!IsPrefixOf, IInv, ServingExtends, Extends, BegunAnew
    <2> QED BY <2>1, <2>2 DEF Durable!Commit
  <1>5. CASE PutFails
    <2>1. pc' = "failed" /\ UNCHANGED <<committed, misread>>
      BY <1>5 DEF PutFails, View, Serving, Saving, Stopped, history
    <2> QED BY <2>1 DEF Durable!Stop, View, Serving, Saving, Stopped
  <1>6. CASE Crash
    BY <1>6 DEF Crash, Durable!Stop, View, Serving, Saving, Stopped, history
  <1>7. CASE StartLoad \/ MetadataMissing \/ BlockMissing \/ ReadFails
    BY <1>7 DEF StartLoad, MetadataMissing, BlockMissing, ReadFails, View, Serving, Saving, Stopped, history, GetBlock, GetChainTip, GetChainHeight, GetDifficulty
  <1>8. CASE AddBlockFails \/ SaveBlock \/ SaveChainHeight \/ SaveDifficulty \/ SaveUTXO
    BY <1>8 DEF AddBlockFails, SaveBlock, SaveChainHeight, SaveDifficulty, SaveUTXO,
                View, Serving, Saving, Stopped, history
  <1>9. CASE MisreadTip
    <2>1. View = <<>> /\ committed # <<>> /\ chain = <<>>
      BY <1>9 DEF MisreadTip, GetChainTip, View, Serving, Saving, Stopped, IInv,
                  TipIsCommitted, StoppedEmpty
    <2>2. Len(header) + 1 \in 1..MaxMined
      BY <1>9, ChainStoreAssumption DEF MisreadTip, AppendMined, IInv, TypeOK
    <2>3. chain' = <<Len(header) + 1>> /\ pc' = "SaveBlock"
      BY <1>9, <2>1 DEF MisreadTip, AppendMined
    <2>4. View' = <<Len(header) + 1>> /\ misread' = TRUE /\ committed' = committed
      BY <1>9, <2>3 DEF MisreadTip, AppendMined, View, Serving, Saving
    <2> QED BY <2>1, <2>2, <2>4 DEF Durable!BeginAnew
  <1> QED BY <1>1, <1>2, <1>3, <1>4, <1>5, <1>6, <1>7, <1>8, <1>9 DEF Next

(* What a node shows after a start is exactly the chain at the last        *)
(* SaveChainTip, and that chain only ever grows: the keys of storage.go    *)
(* written one by one implement the durable log.                           *)
THEOREM Refinement == Spec => RefinesDurableChain
  <1>1. Init => Durable!Init
    BY DEF Init, Durable!Init, View, Serving, Saving, Stopped
  <1> QED BY <1>1, StepImplements, Inductive, PTL
          DEF Spec, RefinesDurableChain, Durable!Spec, Durable!vars
=============================================================================
