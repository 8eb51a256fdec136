------------------------- MODULE MiningServerProofs -------------------------
(***************************************************************************)
(* Proofs about MiningServer, for any number of starts, blocks and         *)
(* submissions: the stop channels are always sound, no submission is mined *)
(* twice, and without an overlap of two goroutines the chain and the count *)
(* of blocks are sound too.                                                *)
(***************************************************************************)
EXTENDS MiningServer, Facts

-----------------------------------------------------------------------------
(* The inductive invariant, in named parts. *)

(* A goroutine that is about to append has made its block.                 *)
HoldsBlock ==
    \A g \in Miner : pc[g] \in {"update", "append"} => newBlock[g] \in Block

(* Without an overlap there is at most one goroutine at any time.          *)
OneAlive ==
    ~overlapped => \A g, h \in Miner : Alive(g) /\ Alive(h) => g = h

(* ... and what it has read of bc.Blocks stays true while it works.        *)
ReadsHold ==
    ~overlapped =>
        \A g \in Miner :
            /\ pc[g] \in {"update", "append"} => made[newBlock[g]].prev = Tip
            /\ pc[g] = "append" => base[g] = chain
            /\ pc[g] = "save" => blocksMined + 1 < Len(chain)

IInv ==
    /\ TypeOK
    /\ OnlyCurrentOpen
    /\ HoldsBlock
    /\ OneAlive
    /\ ReadsHold
    /\ LinkedUnlessOverlapped
    /\ CountedUnlessOverlapped

-----------------------------------------------------------------------------
(* Facts about the state. *)

(* The tip is a block.                                                     *)
LEMMA TipInBlock == TypeOK => Tip \in Block
  <1> SUFFICES ASSUME TypeOK PROVE Tip \in Block
    OBVIOUS
  <1>1. chain \in Seq(Block) /\ Len(chain) \in 1..Len(chain)
    BY DEF TypeOK
  <1> QED BY <1>1, ElementIn DEF Tip

-----------------------------------------------------------------------------
(* Each action preserves the invariant. *)

(* A start opens the next channel for the one new goroutine.              *)
LEMMA StartMiningStep ==
    ASSUME IInv, StartMining PROVE IInv'
  <1> USE DEF IInv, StartMining, control, pool, ledger, locals
  <1>1. TypeOK'
    <2>1. stopMining' \in Nil..MaxStarts /\ pc' \in [Miner -> Place]
      BY MiningServerAssumption DEF TypeOK, Place, Miner, Nil
    <2>2. overlapped' \in BOOLEAN
      BY DEF TypeOK
    <2> QED BY <2>1, <2>2 DEF TypeOK, Block
  <1>2. OnlyCurrentOpen'
    BY DEF OnlyCurrentOpen, TypeOK, Nil, Miner
  <1>3. HoldsBlock'
    BY DEF HoldsBlock, TypeOK, Block
  <1>4. OneAlive'
    BY DEF OneAlive, Alive, TypeOK, Miner
  <1>5. ReadsHold'
    BY DEF ReadsHold, Tip, TypeOK
  <1>6. LinkedUnlessOverlapped'
    BY DEF LinkedUnlessOverlapped, Linked
  <1>7. CountedUnlessOverlapped'
    BY DEF CountedUnlessOverlapped, TypeOK
  <1> QED BY <1>1, <1>2, <1>3, <1>4, <1>5, <1>6, <1>7

(* A stop closes the one open channel.                                    *)
LEMMA StopMiningStep ==
    ASSUME IInv, StopMining PROVE IInv'
  <1> USE DEF IInv, StopMining, control, pool, ledger, locals
  <1>1. TypeOK'
    <2>1. stopMining \in Miner
      BY MiningServerAssumption DEF OnlyCurrentOpen, TypeOK, Miner, Nil
    <2>2. closed' \subseteq Miner
      BY <2>1 DEF TypeOK
    <2> QED BY <2>2 DEF TypeOK, Block
  <1>2. OnlyCurrentOpen'
    BY DEF OnlyCurrentOpen, TypeOK, Nil, Miner
  <1>3. HoldsBlock'
    BY DEF HoldsBlock, TypeOK, Block
  <1>4. OneAlive'
    BY DEF OneAlive, Alive, TypeOK
  <1>5. ReadsHold'
    BY DEF ReadsHold, Tip, TypeOK
  <1>6. LinkedUnlessOverlapped'
    BY DEF LinkedUnlessOverlapped, Linked
  <1>7. CountedUnlessOverlapped'
    BY DEF CountedUnlessOverlapped, TypeOK
  <1> QED BY <1>1, <1>2, <1>3, <1>4, <1>5, <1>6, <1>7

(* A submission only touches the mempool.                                 *)
LEMMA SubmitTransactionStep ==
    ASSUME IInv, NEW t \in Tx, SubmitTransaction(t) PROVE IInv'
  <1> USE DEF IInv, SubmitTransaction, control, pool, ledger, locals
  <1>1. TypeOK'
    <2>1. mempool' \in Seq(Tx) /\ unsent' \subseteq Tx
      BY AppendFacts DEF TypeOK
    <2>2. Block' = Block
      BY DEF Block
    <2> QED BY <2>1, <2>2 DEF TypeOK
  <1>2. OnlyCurrentOpen'
    BY DEF OnlyCurrentOpen, TypeOK, Nil, Miner
  <1>3. HoldsBlock'
    BY DEF HoldsBlock, TypeOK, Block
  <1>4. OneAlive'
    BY DEF OneAlive, Alive, TypeOK
  <1>5. ReadsHold'
    BY DEF ReadsHold, Tip, TypeOK
  <1>6. LinkedUnlessOverlapped'
    BY DEF LinkedUnlessOverlapped, Linked
  <1>7. CountedUnlessOverlapped'
    BY DEF CountedUnlessOverlapped, TypeOK
  <1> QED BY <1>1, <1>2, <1>3, <1>4, <1>5, <1>6, <1>7

(* A goroutine that reads the channel changes only what it has read.      *)
LEMMA EvaluateSelectStep ==
    ASSUME IInv, NEW g \in Miner, EvaluateSelect(g) PROVE IInv'
  <1> USE DEF IInv, EvaluateSelect, control, pool, ledger, locals
  <1>1. TypeOK'
    <2>1. polled' \in [Miner -> Nil..MaxStarts] /\ pc' \in [Miner -> Place]
      BY DEF TypeOK, Place
    <2>2. Block' = Block
      BY DEF Block
    <2> QED BY <2>1, <2>2 DEF TypeOK
  <1>2. OnlyCurrentOpen'
    BY DEF OnlyCurrentOpen, TypeOK, Nil, Miner
  <1>3. HoldsBlock'
    BY DEF HoldsBlock, TypeOK, Block
  <1>4. OneAlive'
    BY DEF OneAlive, Alive, TypeOK
  <1>5. ReadsHold'
    BY DEF ReadsHold, Tip, TypeOK
  <1>6. LinkedUnlessOverlapped'
    BY DEF LinkedUnlessOverlapped, Linked
  <1>7. CountedUnlessOverlapped'
    BY DEF CountedUnlessOverlapped, TypeOK
  <1> QED BY <1>1, <1>2, <1>3, <1>4, <1>5, <1>6, <1>7

(* An exit leaves one goroutine less.                                     *)
LEMMA ExitStep ==
    ASSUME IInv, NEW g \in Miner, Exit(g) PROVE IInv'
  <1> USE DEF IInv, Exit, control, pool, ledger, locals
  <1>1. TypeOK'
    <2>1. pc' \in [Miner -> Place]
      BY DEF TypeOK, Place
    <2>2. Block' = Block
      BY DEF Block
    <2> QED BY <2>1, <2>2 DEF TypeOK
  <1>2. OnlyCurrentOpen'
    BY DEF OnlyCurrentOpen, TypeOK, Nil, Miner
  <1>3. HoldsBlock'
    BY DEF HoldsBlock, TypeOK, Block
  <1>4. OneAlive'
    BY DEF OneAlive, Alive, TypeOK
  <1>5. ReadsHold'
    BY DEF ReadsHold, Tip, TypeOK
  <1>6. LinkedUnlessOverlapped'
    BY DEF LinkedUnlessOverlapped, Linked
  <1>7. CountedUnlessOverlapped'
    BY DEF CountedUnlessOverlapped, TypeOK
  <1> QED BY <1>1, <1>2, <1>3, <1>4, <1>5, <1>6, <1>7

(* The drained transactions are the mempool's.                            *)
LEMMA DrainStep ==
    ASSUME IInv, NEW g \in Miner, Drain(g) PROVE IInv'
  <1> USE DEF IInv, Drain, control, pool, ledger, locals
  <1>1. TypeOK'
    <2>1. /\ txs' \in [Miner -> Seq(Tx)] /\ mempool' \in Seq(Tx)
          /\ pc' \in [Miner -> Place]
      BY DEF TypeOK, Place
    <2>2. Block' = Block
      BY DEF Block
    <2> QED BY <2>1, <2>2 DEF TypeOK
  <1>2. OnlyCurrentOpen'
    BY DEF OnlyCurrentOpen, TypeOK, Nil, Miner
  <1>3. HoldsBlock'
    BY DEF HoldsBlock, TypeOK, Block
  <1>4. OneAlive'
    BY DEF OneAlive, Alive, TypeOK
  <1>5. ReadsHold'
    BY DEF ReadsHold, Tip, TypeOK
  <1>6. LinkedUnlessOverlapped'
    BY DEF LinkedUnlessOverlapped, Linked
  <1>7. CountedUnlessOverlapped'
    BY DEF CountedUnlessOverlapped, TypeOK
  <1> QED BY <1>1, <1>2, <1>3, <1>4, <1>5, <1>6, <1>7

(* The tip it remembers is a block.                                       *)
LEMMA BeginBlockStep ==
    ASSUME IInv, NEW g \in Miner, BeginBlock(g) PROVE IInv'
  <1> USE DEF IInv, BeginBlock, control, pool, ledger, locals
  <1>1. TypeOK'
    <2>1. /\ prevBlock' \in [Miner -> {Nil} \cup Block]
          /\ pc' \in [Miner -> Place]
      BY TipInBlock DEF TypeOK, Place
    <2>2. Block' = Block
      BY DEF Block
    <2> QED BY <2>1, <2>2 DEF TypeOK
  <1>2. OnlyCurrentOpen'
    BY DEF OnlyCurrentOpen, TypeOK, Nil, Miner
  <1>3. HoldsBlock'
    BY DEF HoldsBlock, TypeOK, Block
  <1>4. OneAlive'
    BY DEF OneAlive, Alive, TypeOK
  <1>5. ReadsHold'
    BY DEF ReadsHold, Tip, TypeOK
  <1>6. LinkedUnlessOverlapped'
    BY DEF LinkedUnlessOverlapped, Linked
  <1>7. CountedUnlessOverlapped'
    BY DEF CountedUnlessOverlapped, TypeOK
  <1> QED BY <1>1, <1>2, <1>3, <1>4, <1>5, <1>6, <1>7

(* A failed AddBlock counts nothing.                                      *)
LEMMA AddBlockFailsStep ==
    ASSUME IInv, NEW g \in Miner, AddBlockFails(g) PROVE IInv'
  <1> USE DEF IInv, AddBlockFails, control, pool, ledger, locals
  <1>1. TypeOK'
    <2>1. txs' \in [Miner -> Seq(Tx)] /\ pc' \in [Miner -> Place]
      BY DEF TypeOK, Place
    <2>2. Block' = Block
      BY DEF Block
    <2> QED BY <2>1, <2>2 DEF TypeOK
  <1>2. OnlyCurrentOpen'
    BY DEF OnlyCurrentOpen, TypeOK, Nil, Miner
  <1>3. HoldsBlock'
    BY DEF HoldsBlock, TypeOK, Block
  <1>4. OneAlive'
    BY DEF OneAlive, Alive, TypeOK
  <1>5. ReadsHold'
    BY DEF ReadsHold, Tip, TypeOK
  <1>6. LinkedUnlessOverlapped'
    BY DEF LinkedUnlessOverlapped, Linked
  <1>7. CountedUnlessOverlapped'
    BY DEF CountedUnlessOverlapped, TypeOK
  <1> QED BY <1>1, <1>2, <1>3, <1>4, <1>5, <1>6, <1>7

(* The block is new, and the blocks made before it stay as they are.       *)
LEMMA MadeFacts ==
    ASSUME TypeOK, NEW g \in Miner, MineAndValidate(g)
    PROVE  /\ made' \in Seq([prev : Nat, txs : Seq(Tx)])
           /\ Block' = 1..(Len(made) + 1)
           /\ Block \subseteq Block'
           /\ newBlock'[g] = Len(made) + 1
           /\ Len(made) + 1 \in Block'
           /\ \A b \in Block : made'[b] = made[b]
           /\ made'[Len(made) + 1].prev = Tip
           /\ chain' \in Seq(Block') /\ Len(chain') > 0
           /\ prevBlock' \in [Miner -> {Nil} \cup Block']
           /\ newBlock' \in [Miner -> {Nil} \cup Block']
           /\ base' \in [Miner -> Seq(Block')]
  <1> DEFINE new == [prev |-> prevBlock[g], txs |-> txs[g]]
             n == Len(made) + 1
  <1>1. made \in Seq([prev : Nat, txs : Seq(Tx)]) /\ Len(made) \in Nat
    BY DEF TypeOK
  <1>2. new \in [prev : Nat, txs : Seq(Tx)]
    BY SMTT(30), <1>1 DEF TypeOK, Block, Nil
  <1>3. made' = Append(made, new)
    BY DEF MineAndValidate
  <1>4. /\ made' \in Seq([prev : Nat, txs : Seq(Tx)])
        /\ Len(made') = n
        /\ \A b \in Block : made'[b] = made[b]
        /\ made'[n] = new
    BY <1>1, <1>2, <1>3, AppendFacts DEF Block
  <1>5. Block' = 1..n /\ Block \subseteq Block' /\ n \in Block'
    BY <1>1, <1>4 DEF Block
  <1>6. made'[n].prev = Tip
    BY <1>4 DEF MineAndValidate
  <1>7. \A s \in Seq(Block) : s \in Seq(Block')
    BY <1>1, <1>5, SeqOfMore DEF Block
  <1>8. chain' \in Seq(Block') /\ Len(chain') > 0
    BY <1>7 DEF TypeOK, MineAndValidate
  <1>9. /\ prevBlock' \in [Miner -> {Nil} \cup Block']
        /\ base' \in [Miner -> Seq(Block')]
    BY <1>5, <1>7 DEF TypeOK, MineAndValidate
  <1>10. newBlock'[g] = n /\ newBlock' \in [Miner -> {Nil} \cup Block']
    BY <1>5 DEF TypeOK, MineAndValidate
  <1> QED BY <1>4, <1>5, <1>6, <1>8, <1>9, <1>10

(* The block made names the tip it was validated against.                 *)
LEMMA MineAndValidateStep ==
    ASSUME IInv, NEW g \in Miner, MineAndValidate(g) PROVE IInv'
  <1> USE DEF IInv, MineAndValidate, control, pool, ledger, locals
  <1>1. TypeOK'
    BY MadeFacts DEF TypeOK, Place
  <1>2. OnlyCurrentOpen'
    BY DEF OnlyCurrentOpen, TypeOK, Nil, Miner
  <1>3. HoldsBlock'
    BY MadeFacts DEF HoldsBlock, TypeOK
  <1>4. OneAlive'
    BY DEF OneAlive, Alive, TypeOK
  <1>5. ReadsHold'
    <2> SUFFICES ASSUME ~overlapped, NEW h \in Miner
                 PROVE  /\ pc'[h] \in {"update", "append"} => made'[newBlock'[h]].prev = Tip'
                        /\ pc'[h] = "append" => base'[h] = chain'
                        /\ pc'[h] = "save" => blocksMined' + 1 < Len(chain')
      BY DEF ReadsHold
    <2>1. CASE h = g
      BY <2>1, MadeFacts DEF TypeOK, Tip
    <2>2. CASE h # g
      <3>1. pc'[h] = pc[h] /\ ~Alive(h)
        BY <2>2 DEF OneAlive, Alive, TypeOK
      <3> QED BY <3>1 DEF Alive
    <2> QED BY <2>1, <2>2
  <1>6. LinkedUnlessOverlapped'
    <2> SUFFICES ASSUME ~overlapped, NEW i \in 2..Len(chain)
                 PROVE  made'[chain[i]].prev = chain[i - 1]
      BY DEF LinkedUnlessOverlapped, Linked
    <2>1. chain[i] \in Block
      BY ElementIn DEF TypeOK
    <2> QED BY <2>1, MadeFacts DEF LinkedUnlessOverlapped, Linked
  <1>7. CountedUnlessOverlapped'
    BY DEF CountedUnlessOverlapped, TypeOK
  <1> QED BY <1>1, <1>2, <1>3, <1>4, <1>5, <1>6, <1>7

(* The slice that is read is the chain.                                   *)
LEMMA UpdateUTXOStep ==
    ASSUME IInv, NEW g \in Miner, UpdateUTXO(g) PROVE IInv'
  <1> USE DEF IInv, UpdateUTXO, control, pool, ledger, locals
  <1>1. TypeOK'
    <2>1. base' \in [Miner -> Seq(Block)] /\ pc' \in [Miner -> Place]
      BY DEF TypeOK, Place
    <2>2. Block' = Block
      BY DEF Block
    <2> QED BY <2>1, <2>2 DEF TypeOK
  <1>2. OnlyCurrentOpen'
    BY DEF OnlyCurrentOpen, TypeOK, Nil, Miner
  <1>3. HoldsBlock'
    BY DEF HoldsBlock, TypeOK, Block
  <1>4. OneAlive'
    BY DEF OneAlive, Alive, TypeOK
  <1>5. ReadsHold'
    BY DEF ReadsHold, Tip, TypeOK
  <1>6. LinkedUnlessOverlapped'
    BY DEF LinkedUnlessOverlapped, Linked
  <1>7. CountedUnlessOverlapped'
    BY DEF CountedUnlessOverlapped, TypeOK
  <1> QED BY <1>1, <1>2, <1>3, <1>4, <1>5, <1>6, <1>7

(* Nothing changes when the process ends; two goroutines that both write   *)
(* to the map have overlapped.                                             *)
LEMMA EndStep ==
    ASSUME IInv, IndexPanic \/ WriterRace \/ ReaderRace PROVE IInv'
  <1>1. /\ UNCHANGED <<control, blocksMined, pool, ledger, locals>>
        /\ ended' \in {"index", "writers", "reader"}
        /\ ~overlapped => ended' # "writers"
    <2>1. CASE IndexPanic
      BY <2>1 DEF IndexPanic
    <2>2. CASE ReaderRace
      BY <2>2 DEF ReaderRace
    <2>3. CASE WriterRace
      <3>1. PICK g, h \in Miner : g # h /\ pc[g] = "update" /\ pc[h] = "update"
        BY <2>3 DEF WriterRace
      <3>2. overlapped
        BY <3>1 DEF IInv, OneAlive, Alive, TypeOK
      <3> QED BY <2>3, <3>2 DEF WriterRace
    <2> QED BY <2>1, <2>2, <2>3
  <1> USE <1>1 DEF IInv, control, pool, ledger, locals
  <1>2. TypeOK'
    BY DEF TypeOK, Block, Place, Miner, Nil
  <1>3. OnlyCurrentOpen'
    BY DEF OnlyCurrentOpen, TypeOK, Nil, Miner
  <1>4. HoldsBlock'
    BY DEF HoldsBlock, TypeOK, Block
  <1>5. OneAlive'
    BY DEF OneAlive, Alive, TypeOK
  <1>6. ReadsHold'
    BY DEF ReadsHold, Tip, TypeOK
  <1>7. LinkedUnlessOverlapped'
    BY DEF LinkedUnlessOverlapped, Linked
  <1>8. CountedUnlessOverlapped'
    BY DEF CountedUnlessOverlapped, TypeOK
  <1> QED BY <1>2, <1>3, <1>4, <1>5, <1>6, <1>7, <1>8

(* The append extends the slice that was read by the block that was made.  *)
LEMMA AppendedFacts ==
    ASSUME TypeOK, HoldsBlock, NEW g \in Miner, AppendBlock(g)
    PROVE  /\ Block' = Block
           /\ chain' \in Seq(Block)
           /\ Len(chain') = Len(base[g]) + 1
           /\ \A i \in 1..Len(base[g]) : chain'[i] = base[g][i]
           /\ chain'[Len(base[g]) + 1] = newBlock[g]
           /\ Len(chain') > 0
  <1>1. base[g] \in Seq(Block) /\ newBlock[g] \in Block
    BY DEF TypeOK, HoldsBlock, AppendBlock
  <1>2. chain' = Append(base[g], newBlock[g]) /\ made' = made
    BY DEF AppendBlock
  <1> QED BY <1>1, <1>2, AppendFacts DEF Block

(* The appended block names the tip it is appended to.                    *)
LEMMA AppendBlockStep ==
    ASSUME IInv, NEW g \in Miner, AppendBlock(g) PROVE IInv'
  <1> USE DEF IInv, AppendBlock, control, pool, ledger, locals
  <1>1. TypeOK'
    <2>1. /\ Block' = Block /\ chain' \in Seq(Block) /\ Len(chain') > 0
      BY AppendedFacts
    <2>2. txs' \in [Miner -> Seq(Tx)] /\ pc' \in [Miner -> Place]
      BY DEF TypeOK, Place
    <2> QED BY <2>1, <2>2 DEF TypeOK
  <1>2. OnlyCurrentOpen'
    BY DEF OnlyCurrentOpen, TypeOK, Nil, Miner
  <1>3. HoldsBlock'
    BY DEF HoldsBlock, TypeOK, Block
  <1>4. OneAlive'
    BY DEF OneAlive, Alive, TypeOK
  <1>5. ReadsHold'
    <2> SUFFICES ASSUME ~overlapped, NEW h \in Miner
                 PROVE  /\ pc'[h] \in {"update", "append"} => made'[newBlock'[h]].prev = Tip'
                        /\ pc'[h] = "append" => base'[h] = chain'
                        /\ pc'[h] = "save" => blocksMined' + 1 < Len(chain')
      BY DEF ReadsHold
    <2>1. CASE h = g
      <3>1. base[g] = chain /\ blocksMined < Len(chain)
        BY DEF ReadsHold, CountedUnlessOverlapped
      <3>2. Len(chain') = Len(chain) + 1
        BY <3>1, AppendedFacts
      <3> QED BY <2>1, <3>1, <3>2 DEF TypeOK
    <2>2. CASE h # g
      <3>1. pc'[h] = pc[h] /\ ~Alive(h)
        BY <2>2 DEF OneAlive, Alive, TypeOK
      <3> QED BY <3>1 DEF Alive
    <2> QED BY <2>1, <2>2
  <1>6. LinkedUnlessOverlapped'
    <2> SUFFICES ASSUME ~overlapped, NEW i \in 2..Len(chain')
                 PROVE  made[chain'[i]].prev = chain'[i - 1]
      BY DEF LinkedUnlessOverlapped, Linked
    <2>1. base[g] = chain /\ made[newBlock[g]].prev = Tip
      BY DEF ReadsHold
    <2>2. /\ Len(chain) \in Nat /\ Len(chain') = Len(chain) + 1
          /\ \A k \in 1..Len(chain) : chain'[k] = chain[k]
          /\ chain'[Len(chain) + 1] = newBlock[g]
      BY <2>1, AppendedFacts DEF TypeOK
    <2>3. CASE i = Len(chain) + 1
      BY <2>1, <2>2, <2>3 DEF Tip
    <2>4. CASE i \in 2..Len(chain)
      <3>1. chain'[i] = chain[i] /\ chain'[i - 1] = chain[i - 1]
        BY SMTT(30), <2>2, <2>4
      <3> QED BY <2>4, <3>1 DEF LinkedUnlessOverlapped, Linked
    <2> QED BY <2>2, <2>3, <2>4
  <1>7. CountedUnlessOverlapped'
    <2> SUFFICES ASSUME ~overlapped PROVE blocksMined < Len(chain')
      BY DEF CountedUnlessOverlapped
    <2>1. base[g] = chain /\ blocksMined < Len(chain)
      BY DEF ReadsHold, CountedUnlessOverlapped
    <2>2. Len(chain') = Len(chain) + 1
      BY <2>1, AppendedFacts
    <2> QED BY <2>1, <2>2 DEF TypeOK
  <1> QED BY <1>1, <1>2, <1>3, <1>4, <1>5, <1>6, <1>7

(* The counted block is on the chain and was not counted before.          *)
LEMMA CountBlockStep ==
    ASSUME IInv, NEW g \in Miner, CountBlock(g) PROVE IInv'
  <1> USE DEF IInv, CountBlock, control, pool, ledger, locals
  <1>1. TypeOK'
    <2>1. blocksMined' \in Nat /\ pc' \in [Miner -> Place]
      BY DEF TypeOK, Place
    <2>2. Block' = Block
      BY DEF Block
    <2> QED BY <2>1, <2>2 DEF TypeOK
  <1>2. OnlyCurrentOpen'
    BY DEF OnlyCurrentOpen, TypeOK, Nil, Miner
  <1>3. HoldsBlock'
    BY DEF HoldsBlock, TypeOK, Block
  <1>4. OneAlive'
    BY DEF OneAlive, Alive, TypeOK
  <1>5. ReadsHold'
    BY DEF ReadsHold, OneAlive, Alive, Tip, TypeOK
  <1>6. LinkedUnlessOverlapped'
    BY DEF LinkedUnlessOverlapped, Linked
  <1>7. CountedUnlessOverlapped'
    BY DEF ReadsHold, CountedUnlessOverlapped, TypeOK
  <1> QED BY <1>1, <1>2, <1>3, <1>4, <1>5, <1>6, <1>7

(* One idle server with a genesis block.                                   *)
LEMMA InitEstablishes == Init => IInv
  <1> SUFFICES ASSUME Init PROVE IInv
    OBVIOUS
  <1> USE DEF Init, Nil
  <1>1. TypeOK
    <2>1. made \in Seq([prev : Nat, txs : Seq(Tx)]) /\ Block = 1..1
      BY DEF Block
    <2>2. chain \in Seq(Block) /\ Len(chain) > 0
      BY <2>1
    <2>3. Nil \in Nil..MaxStarts
      BY MiningServerAssumption
    <2>4. /\ txs \in [Miner -> Seq(Tx)] /\ base \in [Miner -> Seq(Block)]
          /\ mempool \in Seq(Tx)
      OBVIOUS
    <2>5. /\ pc \in [Miner -> Place] /\ polled \in [Miner -> Nil..MaxStarts]
          /\ prevBlock \in [Miner -> {Nil} \cup Block]
          /\ newBlock \in [Miner -> {Nil} \cup Block]
      BY <2>3 DEF Place
    <2> QED BY <2>1, <2>2, <2>3, <2>4, <2>5 DEF TypeOK
  <1>2. OnlyCurrentOpen
    BY DEF OnlyCurrentOpen
  <1>3. HoldsBlock /\ OneAlive /\ ReadsHold
    BY DEF HoldsBlock, OneAlive, ReadsHold, Alive
  <1>4. LinkedUnlessOverlapped /\ CountedUnlessOverlapped
    BY DEF LinkedUnlessOverlapped, CountedUnlessOverlapped, Linked
  <1> QED BY <1>1, <1>2, <1>3, <1>4 DEF IInv

(* A stutter leaves every part of the invariant as it is.                  *)
LEMMA StutterPreserves == IInv /\ UNCHANGED vars => IInv'
  <1> SUFFICES ASSUME IInv, UNCHANGED vars PROVE IInv'
    OBVIOUS
  <1> USE DEF IInv, vars, control, pool, ledger, locals
  <1>1. TypeOK'
    BY DEF TypeOK, Block
  <1>2. OnlyCurrentOpen' /\ HoldsBlock' /\ OneAlive' /\ ReadsHold'
    BY DEF OnlyCurrentOpen, HoldsBlock, OneAlive, ReadsHold, Alive, Block, Tip
  <1>3. LinkedUnlessOverlapped' /\ CountedUnlessOverlapped'
    BY DEF LinkedUnlessOverlapped, CountedUnlessOverlapped, Linked
  <1> QED BY <1>1, <1>2, <1>3

(* Every step preserves the invariant.                                     *)
LEMMA StepPreserves == IInv /\ [Next]_vars => IInv'
  <1> SUFFICES ASSUME IInv, Next PROVE IInv'
    BY StutterPreserves
  <1>1. CASE StartMining \/ StopMining \/ IndexPanic \/ WriterRace \/ ReaderRace
    BY <1>1, StartMiningStep, StopMiningStep, EndStep
  <1>2. CASE \E t \in Tx : SubmitTransaction(t)
    BY <1>2, SubmitTransactionStep
  <1>3. ASSUME NEW g \in Miner, MineBlocks(g) PROVE IInv'
    BY <1>3, EvaluateSelectStep, ExitStep, DrainStep, BeginBlockStep,
       AddBlockFailsStep, MineAndValidateStep, UpdateUTXOStep, AppendBlockStep,
       CountBlockStep
    DEF MineBlocks
  <1> QED BY <1>1, <1>2, <1>3 DEF Next

-----------------------------------------------------------------------------
(* The theorems. *)

(* The inductive invariant holds in every reachable state.                 *)
THEOREM Inductive == Spec => []IInv
  BY InitEstablishes, StepPreserves, PTL DEF Spec

(* Every variable keeps its type: the goroutines only ever put blocks that *)
(* were made on the chain, whatever they overwrite of one another's.       *)
THEOREM TypeCorrect == Spec => []TypeOK
  <1>1. IInv => TypeOK
    BY DEF IInv
  <1> QED BY <1>1, Inductive, PTL

(* However StartMining and StopMining alternate, no channel is closed      *)
(* twice, and the one channel left open is the current one while mining.   *)
THEOREM ChannelsSound == Spec => []OnlyCurrentOpen
  <1>1. IInv => OnlyCurrentOpen
    BY DEF IInv
  <1> QED BY <1>1, Inductive, PTL

(* Starting a goroutine only after the last one has exited is enough to    *)
(* keep the unlocked Blockchain sound: the chain stays linked, and the     *)
(* runtime sees no two writers of the UTXO set.                            *)
THEOREM SingleMinerSafe == Spec => []LinkedUnlessOverlapped
  <1>1. IInv => LinkedUnlessOverlapped
    BY DEF IInv
  <1> QED BY <1>1, Inductive, PTL

(* ... and then every block that GetMiningInfo counts is on the chain.     *)
THEOREM SingleMinerCounts == Spec => []CountedUnlessOverlapped
  <1>1. IInv => CountedUnlessOverlapped
    BY DEF IInv
  <1> QED BY <1>1, Inductive, PTL

-----------------------------------------------------------------------------
(* Where every submission is, overlaps or not: even when several goroutines*)
(* mine at once and overwrite one another's blocks, none is mined twice.   *)
(* The inductive invariant of this part, in named parts. *)

(* A goroutine that holds a block it has made and not appended yet.        *)
Sealing(g) == pc[g] \in {"update", "append"}

(* A goroutine that no StartMining has started yet is nowhere.             *)
UnstartedIsNowhere == \A g \in Miner : g > stopMining => pc[g] = "none"

(* What waits in the mempool waits there once, and has been submitted.     *)
WaitsOnce ==
    /\ \A i \in 1..Len(mempool) : mempool[i] \notin unsent
    /\ \A i, j \in 1..Len(mempool) : mempool[i] = mempool[j] => i = j

(* What a goroutine has drained is its own.                                *)
DrainedOnce ==
    \A g \in Miner : \A i \in 1..Len(txs[g]) :
        /\ txs[g][i] \notin unsent
        /\ \A k \in 1..Len(mempool) : mempool[k] # txs[g][i]
        /\ \A h \in Miner : \A j \in 1..Len(txs[h]) :
              txs[h][j] = txs[g][i] => h = g /\ j = i

(* Of all the blocks ever made, on the chain or not, one has a submission. *)
MadeOnce ==
    \A b \in Block : \A i \in 1..Len(made[b].txs) :
        /\ made[b].txs[i] \notin unsent
        /\ \A k \in 1..Len(mempool) : mempool[k] # made[b].txs[i]
        /\ \A c \in Block : \A j \in 1..Len(made[c].txs) :
              made[c].txs[j] = made[b].txs[i] => c = b /\ j = i

(* A goroutine holds what is in a block only while it holds the block.     *)
HeldIsSealed ==
    \A g \in Miner : \A i \in 1..Len(txs[g]) :
        \A b \in Block : \A j \in 1..Len(made[b].txs) :
            made[b].txs[j] = txs[g][i] => Sealing(g) /\ newBlock[g] = b

(* No block is twice on the chain, nor in what a goroutine has read of it. *)
ChainedOnce ==
    /\ \A h, k \in 1..Len(chain) : chain[h] = chain[k] => h = k
    /\ \A g \in Miner : \A h, k \in 1..Len(base[g]) : base[g][h] = base[g][k] => h = k

(* A block that is still to be appended is on neither, and one goroutine's.*)
SealedIsNew ==
    \A g \in Miner : Sealing(g) =>
        /\ \A h \in 1..Len(chain) : chain[h] # newBlock[g]
        /\ \A m \in Miner : \A h \in 1..Len(base[m]) : base[m][h] # newBlock[g]
        /\ \A m \in Miner : Sealing(m) /\ newBlock[m] = newBlock[g] => m = g

(* Where the submissions are, and where the blocks are.                    *)
SubmissionsOnce == WaitsOnce /\ DrainedOnce /\ MadeOnce /\ HeldIsSealed

BlocksOnce == ChainedOnce /\ SealedIsNew

OnceInv == UnstartedIsNowhere /\ SubmissionsOnce /\ BlocksOnce

-----------------------------------------------------------------------------
(* What steps have in common. *)

(* A step that makes and moves no submission, but may forget what some     *)
(* goroutines hold, and lets none that still hold theirs give up a block.  *)
LEMMA SubmissionsKept ==
    ASSUME SubmissionsOnce,
           unsent' = unsent, mempool' = mempool, made' = made,
           \A g \in Miner : txs'[g] = txs[g] \/ txs'[g] = <<>>,
           \A g \in Miner : Sealing(g) /\ txs'[g] # <<>> =>
               Sealing(g)' /\ newBlock'[g] = newBlock[g]
    PROVE  SubmissionsOnce'
  <1>1. Block' = Block
    BY DEF Block
  <1>2. \A g \in Miner : \A i \in 1..Len(txs'[g]) :
            txs'[g] # <<>> /\ txs'[g] = txs[g]
    OBVIOUS
  <1>3. WaitsOnce'
    BY DEF SubmissionsOnce, WaitsOnce
  <1>4. DrainedOnce'
    BY <1>2 DEF SubmissionsOnce, DrainedOnce
  <1>5. MadeOnce'
    BY <1>1 DEF SubmissionsOnce, MadeOnce
  <1>6. HeldIsSealed'
    BY <1>1, <1>2 DEF SubmissionsOnce, HeldIsSealed
  <1> QED BY <1>3, <1>4, <1>5, <1>6 DEF SubmissionsOnce

(* A step that leaves the chain as it is, after which a goroutine holds    *)
(* only a block that it held before.                                       *)
LEMMA BlocksKept ==
    ASSUME BlocksOnce, chain' = chain,
           \A g \in Miner : base'[g] = base[g] \/ base'[g] = chain,
           \A g \in Miner : Sealing(g)' => Sealing(g) /\ newBlock'[g] = newBlock[g]
    PROVE  BlocksOnce'
  <1>1. ChainedOnce'
    BY DEF BlocksOnce, ChainedOnce
  <1>2. SealedIsNew'
    <2> SUFFICES ASSUME NEW g \in Miner, Sealing(g)'
                 PROVE  /\ \A h \in 1..Len(chain) : chain[h] # newBlock[g]
                        /\ \A m \in Miner : \A h \in 1..Len(base'[m]) :
                              base'[m][h] # newBlock[g]
                        /\ \A m \in Miner :
                              Sealing(m)' /\ newBlock'[m] = newBlock'[g] => m = g
      BY DEF SealedIsNew
    <2>1. Sealing(g) /\ newBlock'[g] = newBlock[g]
      OBVIOUS
    <2> QED BY <2>1 DEF BlocksOnce, SealedIsNew
  <1> QED BY <1>1, <1>2 DEF BlocksOnce

-----------------------------------------------------------------------------
(* Each action preserves the invariant. *)

(* The goroutine that is started held nothing before.                      *)
LEMMA StartMiningOnce ==
    ASSUME IInv, OnceInv, StartMining PROVE OnceInv'
  <1> USE DEF OnceInv, StartMining, pool, ledger
  <1>1. pc \in [Miner -> Place] /\ stopMining \in Nat /\ stopMining + 1 \in Miner
    BY MiningServerAssumption DEF IInv, TypeOK, Miner, Nil
  <1>2. pc[stopMining + 1] = "none"
    BY <1>1 DEF UnstartedIsNowhere
  <1>3. \A g \in Miner : Sealing(g)' <=> Sealing(g)
    BY <1>1, <1>2 DEF Sealing
  <1>4. UnstartedIsNowhere'
    BY <1>1 DEF UnstartedIsNowhere, Miner
  <1>5. SubmissionsOnce'
    BY <1>3, SubmissionsKept
  <1>6. BlocksOnce'
    BY <1>3, BlocksKept
  <1> QED BY <1>4, <1>5, <1>6

(* Stopping touches no goroutine and no block.                             *)
LEMMA StopMiningOnce ==
    ASSUME IInv, OnceInv, StopMining PROVE OnceInv'
  <1> USE DEF OnceInv, StopMining, pool, ledger, locals
  <1>1. UnstartedIsNowhere'
    BY DEF UnstartedIsNowhere
  <1>2. SubmissionsOnce'
    BY SubmissionsKept DEF Sealing
  <1>3. BlocksOnce'
    BY BlocksKept DEF Sealing
  <1> QED BY <1>1, <1>2, <1>3

(* A submission that is made was nowhere before.                           *)
LEMMA SubmitTransactionOnce ==
    ASSUME IInv, OnceInv, NEW t \in Tx, SubmitTransaction(t) PROVE OnceInv'
  <1> USE DEF OnceInv, SubmitTransaction, control, ledger, locals
  <1>1. UnstartedIsNowhere'
    BY DEF UnstartedIsNowhere
  <1>2. /\ Len(mempool) \in Nat /\ Len(mempool') = Len(mempool) + 1
        /\ \A i \in 1..Len(mempool) : mempool'[i] = mempool[i]
        /\ mempool'[Len(mempool) + 1] = t
    <2>1. mempool \in Seq(Tx) /\ mempool' = Append(mempool, t)
      BY DEF IInv, TypeOK
    <2> QED BY ONLY <2>1, AppendFacts, t \in Tx
  <1>3. \A i \in 1..Len(mempool') : (i \in 1..Len(mempool) /\ mempool'[i] = mempool[i])
                                     \/ (i = Len(mempool) + 1 /\ mempool'[i] = t)
    BY <1>2
  <1>4. t \in unsent /\ t \notin unsent' /\ unsent' \subseteq unsent
    OBVIOUS
  <1>5. WaitsOnce'
    BY <1>2, <1>3, <1>4 DEF SubmissionsOnce, WaitsOnce
  <1>6. DrainedOnce'
    BY <1>3, <1>4 DEF SubmissionsOnce, DrainedOnce
  <1>7. MadeOnce'
    <2>1. Block' = Block
      BY DEF Block
    <2> QED BY <1>3, <1>4, <2>1 DEF SubmissionsOnce, MadeOnce
  <1>8. HeldIsSealed'
    BY DEF SubmissionsOnce, HeldIsSealed, Sealing, Block
  <1>9. BlocksOnce'
    BY BlocksKept DEF Sealing
  <1> QED BY <1>1, <1>5, <1>6, <1>7, <1>8, <1>9 DEF SubmissionsOnce

(* What changes when one goroutine goes on to another place.               *)
LEMMA OneMoves ==
    ASSUME IInv, OnceInv, NEW g \in Miner, NEW p, pc[g] # "none",
           pc' = [pc EXCEPT ![g] = p], stopMining' = stopMining
    PROVE  /\ UnstartedIsNowhere'
           /\ \A h \in Miner : pc'[h] = IF h = g THEN p ELSE pc[h]
           /\ \A h \in Miner \ {g} : Sealing(h)' <=> Sealing(h)
           /\ Sealing(g)' <=> p \in {"update", "append"}
  <1>1. \A h \in Miner : pc'[h] = IF h = g THEN p ELSE pc[h]
    BY DEF IInv, TypeOK
  <1>2. UnstartedIsNowhere'
    BY <1>1 DEF OnceInv, UnstartedIsNowhere
  <1> QED BY <1>1, <1>2 DEF Sealing

(* Reading the channel, leaving, remembering the tip, counting the block:  *)
(* none of them touches a submission or a block.                           *)
LEMMA QuietStepOnce ==
    ASSUME IInv, OnceInv, NEW g \in Miner,
           EvaluateSelect(g) \/ Exit(g) \/ BeginBlock(g) \/ CountBlock(g)
    PROVE  OnceInv'
  <1>1. /\ unsent' = unsent /\ mempool' = mempool /\ made' = made /\ chain' = chain
        /\ txs' = txs /\ base' = base /\ newBlock' = newBlock
        /\ stopMining' = stopMining
    BY DEF EvaluateSelect, Exit, BeginBlock, CountBlock, control, pool, ledger
  <1>2. PICK p \in {"poll", "done", "mine", "select"} :
            pc' = [pc EXCEPT ![g] = p]
    BY DEF EvaluateSelect, Exit, BeginBlock, CountBlock
  <1>3. pc[g] \in {"select", "poll", "begin", "save"}
    BY DEF EvaluateSelect, Exit, BeginBlock, CountBlock
  <1>4. UnstartedIsNowhere' /\ \A h \in Miner : Sealing(h)' <=> Sealing(h)
    BY <1>1, <1>2, <1>3, OneMoves DEF Sealing
  <1>5. SubmissionsOnce'
    BY <1>1, <1>4, SubmissionsKept DEF OnceInv
  <1>6. BlocksOnce'
    BY <1>1, <1>4, BlocksKept DEF OnceInv
  <1> QED BY <1>4, <1>5, <1>6 DEF OnceInv

(* What is drained leaves the mempool, and takes the place of what the     *)
(* goroutine had forgotten.                                                *)
LEMMA DrainOnce ==
    ASSUME IInv, OnceInv, NEW g \in Miner, Drain(g) PROVE OnceInv'
  <1> USE DEF OnceInv, Drain, control, ledger
  <1>1. UnstartedIsNowhere' /\ \A h \in Miner : Sealing(h)' <=> Sealing(h)
    BY ZenonT(40), OneMoves DEF Sealing
  <1>2. /\ txs'[g] = mempool
        /\ \A h \in Miner \ {g} : txs'[h] = txs[h]
        /\ Len(mempool') = 0
        /\ Block' = Block
    BY DEF IInv, TypeOK, Block
  <1>3. WaitsOnce'
    BY <1>2 DEF WaitsOnce
  <1>4. DrainedOnce'
    <2> SUFFICES ASSUME NEW h \in Miner, NEW i \in 1..Len(txs'[h])
                 PROVE  /\ txs'[h][i] \notin unsent
                        /\ \A m \in Miner : \A j \in 1..Len(txs'[m]) :
                              txs'[m][j] = txs'[h][i] => m = h /\ j = i
      BY <1>2 DEF DrainedOnce
    <2>1. CASE h = g
      BY <1>2, <2>1 DEF SubmissionsOnce, WaitsOnce, DrainedOnce
    <2>2. CASE h # g
      BY <1>2, <2>2 DEF SubmissionsOnce, DrainedOnce
    <2> QED BY <2>1, <2>2
  <1>5. MadeOnce'
    BY <1>2 DEF SubmissionsOnce, MadeOnce
  <1>6. HeldIsSealed'
    <2> SUFFICES ASSUME NEW h \in Miner, NEW i \in 1..Len(txs'[h]),
                        NEW b \in Block, NEW j \in 1..Len(made[b].txs),
                        made[b].txs[j] = txs'[h][i]
                 PROVE  Sealing(h)' /\ newBlock[h] = b
      BY <1>2 DEF HeldIsSealed
    <2>1. CASE h = g
      BY <1>2, <2>1 DEF SubmissionsOnce, MadeOnce
    <2>2. CASE h # g
      BY <1>1, <1>2, <2>2 DEF SubmissionsOnce, HeldIsSealed
    <2> QED BY <2>1, <2>2
  <1>7. BlocksOnce'
    BY <1>1, BlocksKept
  <1> QED BY <1>1, <1>3, <1>4, <1>5, <1>6, <1>7 DEF SubmissionsOnce

(* What is forgotten is not submitted again.                               *)
LEMMA AddBlockFailsOnce ==
    ASSUME IInv, OnceInv, NEW g \in Miner, AddBlockFails(g) PROVE OnceInv'
  <1> USE DEF AddBlockFails, control, pool, ledger
  <1>1. /\ UnstartedIsNowhere' /\ ~Sealing(g)'
        /\ \A h \in Miner \ {g} : Sealing(h)' <=> Sealing(h)
    <2>1. pc[g] # "none" /\ pc' = [pc EXCEPT ![g] = "select"] /\ stopMining' = stopMining
      OBVIOUS
    <2>2. "select" \notin {"update", "append"}
      OBVIOUS
    <2> QED BY <2>1, <2>2, OneMoves
  <1>2. txs'[g] = <<>> /\ \A h \in Miner \ {g} : txs'[h] = txs[h]
    BY DEF IInv, TypeOK
  <1>3. SubmissionsOnce'
    BY <1>1, <1>2, SubmissionsKept DEF OnceInv
  <1>4. BlocksOnce'
    BY <1>1, BlocksKept DEF OnceInv
  <1> QED BY <1>1, <1>3, <1>4 DEF OnceInv

(* What is in the new block is in no other, and the block is nowhere yet.  *)
LEMMA MineAndValidateOnce ==
    ASSUME IInv, OnceInv, NEW g \in Miner, MineAndValidate(g) PROVE OnceInv'
  <1> DEFINE n == Len(made) + 1
             new == [prev |-> prevBlock[g], txs |-> txs[g]]
  <1>0. /\ unsent' = unsent /\ mempool' = mempool /\ txs' = txs
        /\ chain' = chain /\ base' = base /\ stopMining' = stopMining
        /\ made' = Append(made, new) /\ newBlock' = [newBlock EXCEPT ![g] = n]
        /\ pc[g] = "mine" /\ pc' = [pc EXCEPT ![g] = "update"]
    BY DEF MineAndValidate, control, pool
  <1>1. /\ UnstartedIsNowhere' /\ Sealing(g)' /\ ~Sealing(g)
        /\ \A h \in Miner \ {g} : Sealing(h)' <=> Sealing(h)
    BY <1>0, OneMoves DEF Sealing
  <1>2. /\ newBlock'[g] = n
        /\ \A h \in Miner \ {g} : newBlock'[h] = newBlock[h]
    BY <1>0 DEF IInv, TypeOK
  <1>3. Len(made) \in Nat /\ n \notin Block /\ n # Nil
    BY SMTT(30) DEF IInv, TypeOK, Block, Nil
  <1>4. /\ \A b \in Block : made'[b] = made[b]
        /\ made'[n].txs = txs[g]
        /\ \A b \in Block' : b = n \/ b \in Block
    <2>1. /\ made \in Seq([prev : Nat, txs : Seq(Tx)])
          /\ new \in [prev : Nat, txs : Seq(Tx)]
      BY SMTT(30) DEF IInv, TypeOK, Block, Nil
    <2>2. /\ Len(made') = n
          /\ \A b \in 1..Len(made) : made'[b] = made[b]
          /\ made'[n] = new
      BY <1>0, <2>1, AppendFacts
    <2> QED BY <1>3, <2>2 DEF Block
  <1>5. \A i \in 1..Len(txs[g]) : \A b \in Block : \A j \in 1..Len(made[b].txs) :
            made[b].txs[j] # txs[g][i]
    BY <1>1 DEF OnceInv, SubmissionsOnce, HeldIsSealed
  <1>6. WaitsOnce' /\ DrainedOnce'
    BY <1>0 DEF OnceInv, SubmissionsOnce, WaitsOnce, DrainedOnce
  <1> HIDE DEF n, new
  <1>7. MadeOnce'
    <2> DEFINE in(b) == made'[b].txs
    <2>1. in(n) = txs[g] /\ \A b \in Block : in(b) = made[b].txs
      BY <1>4
    <2>2. SUFFICES ASSUME NEW b \in Block', NEW i \in 1..Len(in(b))
                   PROVE  /\ in(b)[i] \notin unsent'
                          /\ \A k \in 1..Len(mempool') : mempool'[k] # in(b)[i]
                          /\ \A c \in Block' : \A j \in 1..Len(in(c)) :
                                in(c)[j] = in(b)[i] => c = b /\ j = i
      BY DEF MadeOnce
    <2> HIDE DEF in
    <2>3. CASE b = n
      <3>1. /\ in(b)[i] \notin unsent
            /\ \A k \in 1..Len(mempool) : mempool[k] # in(b)[i]
            /\ \A j \in 1..Len(in(n)) : in(n)[j] = in(b)[i] => j = i
        BY <2>1, <2>3 DEF OnceInv, SubmissionsOnce, DrainedOnce
      <3>2. \A c \in Block : \A j \in 1..Len(in(c)) : in(c)[j] # in(b)[i]
        BY <1>5, <2>1, <2>3
      <3> QED BY <1>0, <1>4, <2>3, <3>1, <3>2
    <2>4. CASE b \in Block
      <3>1. /\ in(b)[i] \notin unsent
            /\ \A k \in 1..Len(mempool) : mempool[k] # in(b)[i]
            /\ \A c \in Block : \A j \in 1..Len(in(c)) :
                  in(c)[j] = in(b)[i] => c = b /\ j = i
        BY <2>1, <2>4 DEF OnceInv, SubmissionsOnce, MadeOnce
      <3>2. \A j \in 1..Len(in(n)) : in(n)[j] # in(b)[i]
        BY <1>5, <2>1, <2>4
      <3> QED BY <1>0, <1>4, <3>1, <3>2
    <2> QED BY <1>4, <2>3, <2>4
  <1>8. HeldIsSealed'
    <2> DEFINE in(b) == made'[b].txs
    <2>1. in(n) = txs[g] /\ \A b \in Block : in(b) = made[b].txs
      BY <1>4
    <2>2. SUFFICES ASSUME NEW h \in Miner, NEW i \in 1..Len(txs'[h]),
                          NEW b \in Block', NEW j \in 1..Len(in(b)),
                          in(b)[j] = txs'[h][i]
                   PROVE  Sealing(h)' /\ newBlock'[h] = b
      BY DEF HeldIsSealed
    <2> HIDE DEF in
    <2>3. CASE b = n
      <3>1. h = g
        BY <1>0, <2>1, <2>2, <2>3 DEF OnceInv, SubmissionsOnce, DrainedOnce
      <3> QED BY <1>1, <1>2, <2>3, <3>1
    <2>4. CASE b \in Block
      <3>1. /\ i \in 1..Len(txs[h]) /\ j \in 1..Len(made[b].txs)
            /\ made[b].txs[j] = txs[h][i]
        BY <1>0, <2>1, <2>2, <2>4
      <3>2. Sealing(h) /\ newBlock[h] = b
        BY <2>4, <3>1 DEF OnceInv, SubmissionsOnce, HeldIsSealed
      <3> QED BY <1>1, <1>2, <3>2
    <2> QED BY <1>4, <2>3, <2>4
  <1>9. BlocksOnce'
    <2>1. /\ \A h \in 1..Len(chain) : chain[h] \in Block
          /\ \A m \in Miner : \A h \in 1..Len(base[m]) : base[m][h] \in Block
          /\ \A m \in Miner : newBlock[m] \in {Nil} \cup Block
      BY ElementIn DEF IInv, TypeOK
    <2>2. ChainedOnce'
      BY <1>0 DEF OnceInv, BlocksOnce, ChainedOnce
    <2>3. SealedIsNew'
      <3> SUFFICES ASSUME NEW h \in Miner, Sealing(h)'
                   PROVE  /\ \A k \in 1..Len(chain) : chain[k] # newBlock'[h]
                          /\ \A m \in Miner : \A k \in 1..Len(base[m]) :
                                base[m][k] # newBlock'[h]
                          /\ \A m \in Miner :
                                Sealing(m)' /\ newBlock'[m] = newBlock'[h] => m = h
        BY <1>0 DEF SealedIsNew
      <3>1. CASE h = g
        BY <1>2, <1>3, <2>1, <3>1
      <3>2. CASE h # g
        BY <1>1, <1>2, <1>3, <2>1, <3>2 DEF OnceInv, BlocksOnce, SealedIsNew
      <3> QED BY <3>1, <3>2
    <2> QED BY <2>2, <2>3 DEF BlocksOnce
  <1> QED BY <1>1, <1>6, <1>7, <1>8, <1>9 DEF OnceInv, SubmissionsOnce

(* The slice that is read is the chain.                                    *)
LEMMA UpdateUTXOOnce ==
    ASSUME IInv, OnceInv, NEW g \in Miner, UpdateUTXO(g) PROVE OnceInv'
  <1> USE DEF UpdateUTXO, control, pool, ledger
  <1>1. UnstartedIsNowhere' /\ \A h \in Miner : Sealing(h)' <=> Sealing(h)
    BY OneMoves DEF Sealing
  <1>2. \A h \in Miner : base'[h] = base[h] \/ base'[h] = chain
    BY DEF IInv, TypeOK
  <1>3. SubmissionsOnce'
    BY <1>1, SubmissionsKept DEF OnceInv
  <1>4. BlocksOnce'
    BY <1>1, <1>2, BlocksKept DEF OnceInv
  <1> QED BY <1>1, <1>3, <1>4 DEF OnceInv

(* The chain may lose blocks that others appended since it was read, but   *)
(* the block that is appended was not in what was read.                    *)
LEMMA AppendBlockOnce ==
    ASSUME IInv, OnceInv, NEW g \in Miner, AppendBlock(g) PROVE OnceInv'
  <1> USE DEF AppendBlock, control, pool
  <1>1. /\ UnstartedIsNowhere' /\ ~Sealing(g)' /\ Sealing(g)
        /\ \A h \in Miner \ {g} : Sealing(h)' <=> Sealing(h)
    <2>1. pc[g] = "append" /\ pc' = [pc EXCEPT ![g] = "save"] /\ stopMining' = stopMining
      OBVIOUS
    <2>2. "save" \notin {"update", "append"}
      OBVIOUS
    <2>3. Sealing(g) /\ pc[g] # "none"
      BY <2>1 DEF Sealing
    <2> QED BY <2>1, <2>2, <2>3, OneMoves
  <1>2. txs'[g] = <<>> /\ \A h \in Miner \ {g} : txs'[h] = txs[h]
    BY DEF IInv, TypeOK
  <1>3. SubmissionsOnce'
    BY <1>1, <1>2, SubmissionsKept DEF OnceInv
  <1>4. /\ Len(chain') = Len(base[g]) + 1 /\ Len(base[g]) \in Nat
        /\ \A i \in 1..Len(base[g]) : chain'[i] = base[g][i]
        /\ chain'[Len(base[g]) + 1] = newBlock[g]
    BY AppendedFacts DEF IInv, TypeOK
  <1>5. \A i \in 1..Len(chain') :
            \/ i \in 1..Len(base[g]) /\ chain'[i] = base[g][i]
            \/ i = Len(base[g]) + 1 /\ chain'[i] = newBlock[g]
    BY <1>4
  <1>6. \A h \in 1..Len(base[g]) : base[g][h] # newBlock[g]
    BY <1>1 DEF OnceInv, BlocksOnce, SealedIsNew
  <1>7. ChainedOnce'
    BY <1>5, <1>6 DEF OnceInv, BlocksOnce, ChainedOnce
  <1>8. SealedIsNew'
    BY <1>1, <1>5 DEF OnceInv, BlocksOnce, SealedIsNew
  <1> QED BY <1>1, <1>3, <1>7, <1>8 DEF OnceInv, BlocksOnce

(* The server starts with a genesis block that holds no submission.        *)
LEMMA InitOnce == Init => OnceInv
  <1> SUFFICES ASSUME Init PROVE OnceInv
    OBVIOUS
  <1> USE DEF Init
  <1>1. Block = {1} /\ made[1].txs = <<>>
    BY DEF Block
  <1>2. UnstartedIsNowhere /\ WaitsOnce /\ DrainedOnce
    BY DEF UnstartedIsNowhere, WaitsOnce, DrainedOnce
  <1>3. MadeOnce /\ HeldIsSealed
    BY <1>1 DEF MadeOnce, HeldIsSealed
  <1>4. ChainedOnce /\ SealedIsNew
    BY DEF ChainedOnce, SealedIsNew, Sealing
  <1> QED BY <1>2, <1>3, <1>4 DEF OnceInv, SubmissionsOnce, BlocksOnce

(* The end of the process, or a stutter, leaves everything where it is.    *)
LEMMA NothingMovesOnce ==
    ASSUME OnceInv, IndexPanic \/ WriterRace \/ ReaderRace \/ UNCHANGED vars
    PROVE  OnceInv'
  <1>1. UNCHANGED <<control, pool, ledger, locals>>
    BY DEF IndexPanic, WriterRace, ReaderRace, vars
  <1> USE <1>1 DEF control, pool, ledger, locals
  <1>2. UnstartedIsNowhere'
    BY DEF OnceInv, UnstartedIsNowhere
  <1>3. SubmissionsOnce'
    BY SubmissionsKept DEF OnceInv, Sealing
  <1>4. BlocksOnce'
    BY BlocksKept DEF OnceInv, Sealing
  <1> QED BY <1>2, <1>3, <1>4 DEF OnceInv

(* Every step preserves the invariant.                                     *)
LEMMA StepOnce == IInv /\ OnceInv /\ [Next]_vars => OnceInv'
  <1> SUFFICES ASSUME IInv, OnceInv, [Next]_vars PROVE OnceInv'
    OBVIOUS
  <1>1. CASE \/ StartMining \/ StopMining
             \/ IndexPanic \/ WriterRace \/ ReaderRace \/ UNCHANGED vars
    BY <1>1, StartMiningOnce, StopMiningOnce, NothingMovesOnce
  <1>2. CASE \E t \in Tx : SubmitTransaction(t)
    BY <1>2, SubmitTransactionOnce
  <1>3. ASSUME NEW g \in Miner, MineBlocks(g) PROVE OnceInv'
    BY <1>3, QuietStepOnce, DrainOnce, AddBlockFailsOnce, MineAndValidateOnce,
       UpdateUTXOOnce, AppendBlockOnce
    DEF MineBlocks
  <1> QED BY <1>1, <1>2, <1>3 DEF Next

(* The invariant holds in every reachable state.                           *)
THEOREM InductiveOnce == Spec => []OnceInv
  BY Inductive, InitOnce, StepOnce, PTL DEF Spec

-----------------------------------------------------------------------------
(* A submission is in at most one place: waiting, drained by one goroutine *)
(* or mined in one block of the chain; so SubmitTransaction's transaction  *)
(* is mined at most once, with any number of goroutines at work.           *)
THEOREM NeverMinedTwice == Spec => []MinedOnce
  <1>1. IInv /\ OnceInv => MinedOnce
    <2> SUFFICES ASSUME IInv, OnceInv, NEW t \in Tx,
                        NEW p \in PlacesOf(t), NEW q \in PlacesOf(t)
                 PROVE  p = q
      BY DEF MinedOnce
    <2> DEFINE Waiting(x) ==
                   \E i \in 1..Len(mempool) :
                       mempool[i] = t /\ x = <<"mempool", 0, i>>
               Drained(x) ==
                   \E g \in Miner : \E i \in 1..Len(txs[g]) :
                       txs[g][i] = t /\ x = <<"drained", g, i>>
               Mined(x) ==
                   \E h \in 1..Len(chain) : \E i \in 1..Len(made[chain[h]].txs) :
                       made[chain[h]].txs[i] = t /\ x = <<"block", h, i>>
    <2>1. ASSUME NEW x \in PlacesOf(t) PROVE Waiting(x) \/ Drained(x) \/ Mined(x)
      <3> DEFINE places(name, at, seq) ==
                     {<<name, at, i>> : i \in {k \in 1..Len(seq) : seq[k] = t}}
                 A == places("mempool", 0, mempool)
                 B == UNION {places("drained", g, txs[g]) : g \in Miner}
                 C == UNION {places("block", h, made[chain[h]].txs) : h \in 1..Len(chain)}
      <3>1. x \in A => Waiting(x)
        OBVIOUS
      <3>2. x \in B => Drained(x)
        OBVIOUS
      <3>3. x \in C => Mined(x)
        OBVIOUS
      <3>4. PlacesOf(t) = A \cup B \cup C
        BY DEF PlacesOf
      <3> HIDE DEF A, B, C, Waiting, Drained, Mined
      <3> QED BY <3>1, <3>2, <3>3, <3>4
    <2>2. \A h \in 1..Len(chain) : chain[h] \in Block
      BY ElementIn DEF IInv, TypeOK
    <2>3. ASSUME Waiting(p), Waiting(q) PROVE p = q
      BY <2>3 DEF OnceInv, SubmissionsOnce, WaitsOnce
    <2>4. ASSUME Drained(p), Drained(q) PROVE p = q
      BY <2>4 DEF OnceInv, SubmissionsOnce, DrainedOnce
    <2>5. ASSUME Mined(p), Mined(q) PROVE p = q
      <3>1. PICK h \in 1..Len(chain) : \E i \in 1..Len(made[chain[h]].txs) :
                made[chain[h]].txs[i] = t /\ p = <<"block", h, i>>
        BY <2>5
      <3>2. PICK k \in 1..Len(chain) : \E j \in 1..Len(made[chain[k]].txs) :
                made[chain[k]].txs[j] = t /\ q = <<"block", k, j>>
        BY <2>5
      <3>3. PICK i \in 1..Len(made[chain[h]].txs) :
                made[chain[h]].txs[i] = t /\ p = <<"block", h, i>>
        BY <3>1
      <3>4. PICK j \in 1..Len(made[chain[k]].txs) :
                made[chain[k]].txs[j] = t /\ q = <<"block", k, j>>
        BY <3>2
      <3>5. chain[h] = chain[k] /\ i = j
        BY SMTT(30), <2>2, <3>3, <3>4 DEF OnceInv, SubmissionsOnce, MadeOnce
      <3>6. h = k
        BY <3>5 DEF OnceInv, BlocksOnce, ChainedOnce
      <3> QED BY <3>3, <3>4, <3>5, <3>6
    <2>6. ASSUME NEW x, NEW y, Waiting(x), Drained(y) PROVE FALSE
      BY <2>6 DEF OnceInv, SubmissionsOnce, DrainedOnce
    <2>7. ASSUME NEW x, NEW y, Waiting(x), Mined(y) PROVE FALSE
      BY <2>2, <2>7 DEF OnceInv, SubmissionsOnce, MadeOnce
    <2>8. ASSUME NEW x, NEW y, Drained(x), Mined(y) PROVE FALSE
      <3>1. PICK g \in Miner : \E i \in 1..Len(txs[g]) : txs[g][i] = t
        BY <2>8
      <3>2. PICK h \in 1..Len(chain) :
                \E j \in 1..Len(made[chain[h]].txs) : made[chain[h]].txs[j] = t
        BY <2>8
      <3>3. Sealing(g) /\ newBlock[g] = chain[h]
        BY <2>2, <3>1, <3>2 DEF OnceInv, SubmissionsOnce, HeldIsSealed
      <3> QED BY <3>3 DEF OnceInv, BlocksOnce, SealedIsNew
    <2> HIDE DEF Waiting, Drained, Mined
    <2> QED BY <2>1, <2>3, <2>4, <2>5, <2>6, <2>7, <2>8
  <1> QED BY <1>1, Inductive, InductiveOnce, PTL
=============================================================================
