---------------------------- MODULE MiningServer ----------------------------
(***************************************************************************)
(* Mining on request: StartMining, StopMining, SubmitTransaction and the   *)
(* mineBlocks goroutines of internal/grpc/server.go, over the Blockchain   *)
(* they share.  Blockchain has no lock: the steps of AddBlock that read or *)
(* write shared memory are steps of their own here, and the goroutines     *)
(* interleave between them.                                                *)
(*                                                                         *)
(* What AddBlock does to the UTXO set and to the difficulty is module      *)
(* Ledger's subject, and its writes to disk are ChainStore's; here they    *)
(* are steps that may fail.                                                *)
(***************************************************************************)
EXTENDS Integers, Sequences

CONSTANTS
    Tx,           \* submissions: each is one call of SubmitTransaction
    Unverifiable, \* those that VerifyTransaction does not accept
    OutOfRange,   \* those of them whose Vout is past the outputs it names
    MaxStarts,    \* bound on the successful calls of StartMining
    MaxBlocks     \* bound on the blocks ever made, genesis included

ASSUME MiningServerAssumption ==
    /\ OutOfRange \subseteq Unverifiable
    /\ Unverifiable \subseteq Tx
    /\ MaxStarts \in Nat
    /\ MaxBlocks \in Nat \ {0}

(* One goroutine for each successful StartMining, and one stop channel;    *)
(* both are numbered by that call.  0 stands for the nil channel.          *)
Miner == 1..MaxStarts

Nil == 0

VARIABLES
    ended,       \* what has ended the process, or "no": see the last actions
    isMining,    \* s.isMining
    stopMining,  \* s.stopMining
    closed,      \* the stop channels that are closed
    blocksMined, \* s.blocksMined
    mempool,     \* s.mempool
    unsent,      \* the submissions not made yet
    made,        \* of every block ever made: [prev, txs]
    chain,       \* bc.Blocks
    pc,          \* where each goroutine is
    polled,      \* the channel a goroutine's select has evaluated
    txs,         \* the transactions it drained from the mempool
    prevBlock,   \* prevBlock of its AddBlock
    newBlock,    \* newBlock of its AddBlock
    base,        \* the value of bc.Blocks its append has read
    overlapped   \* history: a goroutine was started while another lived

control == <<isMining, stopMining, closed, overlapped>>
pool == <<mempool, unsent>>
ledger == <<made, chain>>
locals == <<pc, polled, txs, prevBlock, newBlock, base>>
vars == <<ended, control, blocksMined, pool, ledger, locals>>

running == ended = "no"

Alive(g) == pc[g] \notin {"none", "done"}

Tip == chain[Len(chain)]

-----------------------------------------------------------------------------
Init ==
    /\ ended = "no"
    /\ isMining = FALSE /\ stopMining = Nil /\ closed = {}
    /\ blocksMined = 0
    /\ mempool = <<>> /\ unsent = Tx
    /\ made = <<[prev |-> Nil, txs |-> <<>>]>> /\ chain = <<1>>
    /\ pc = [g \in Miner |-> "none"]
    /\ polled = [g \in Miner |-> Nil]
    /\ txs = [g \in Miner |-> <<>>]
    /\ prevBlock = [g \in Miner |-> Nil]
    /\ newBlock = [g \in Miner |-> Nil]
    /\ base = [g \in Miner |-> <<>>]
    /\ overlapped = FALSE

-----------------------------------------------------------------------------
(* The RPC handlers. *)

(* StartMining that finds no mining in progress, with its go statement.    *)
StartMining ==
    /\ running
    /\ ~isMining
    /\ stopMining < MaxStarts
    /\ isMining' = TRUE
    /\ stopMining' = stopMining + 1
    /\ pc' = [pc EXCEPT ![stopMining + 1] = "select"]
    /\ overlapped' = (overlapped \/ \E g \in Miner : Alive(g))
    /\ UNCHANGED <<ended, closed, blocksMined, pool, ledger,
                   polled, txs, prevBlock, newBlock, base>>

(* Not the code: the stopped channel is taken out of the field.           *)
StopMiningNil ==
    /\ running
    /\ isMining
    /\ isMining' = FALSE
    /\ closed' = closed \cup {stopMining}
    /\ stopMining' = Nil
    /\ UNCHANGED <<ended, overlapped, blocksMined, pool, ledger, locals>>

(* Not the code: isMining is left set.                                    *)
StopMiningOnly ==
    /\ running
    /\ isMining
    /\ closed' = closed \cup {stopMining}
    /\ UNCHANGED <<ended, isMining, stopMining, overlapped, blocksMined, pool,
                   ledger, locals>>

(* StopMiningInternal, called by StopMining and by Stop; it does not wait  *)
(* for the goroutine.                                                      *)
StopMining ==
    /\ running
    /\ isMining
    /\ isMining' = FALSE
    /\ closed' = closed \cup {stopMining}
    /\ UNCHANGED <<ended, stopMining, overlapped, blocksMined, pool, ledger,
                   locals>>

(* SubmitTransaction: appended unseen.                                     *)
SubmitTransaction(t) ==
    /\ running
    /\ t \in unsent
    /\ mempool' = Append(mempool, t)
    /\ unsent' = unsent \ {t}
    /\ UNCHANGED <<ended, control, blocksMined, ledger, locals>>

-----------------------------------------------------------------------------
(* One goroutine, in mineBlocks and in the AddBlock it calls. *)

(* The select evaluates s.stopMining anew in every turn of the loop.       *)
EvaluateSelect(g) ==
    /\ running
    /\ pc[g] = "select"
    /\ polled' = [polled EXCEPT ![g] = stopMining]
    /\ pc' = [pc EXCEPT ![g] = "poll"]
    /\ UNCHANGED <<ended, control, blocksMined, pool, ledger,
                   txs, prevBlock, newBlock, base>>

Exit(g) ==
    /\ running
    /\ pc[g] = "poll"
    /\ polled[g] \in closed
    /\ pc' = [pc EXCEPT ![g] = "done"]
    /\ UNCHANGED <<ended, control, blocksMined, pool, ledger,
                   polled, txs, prevBlock, newBlock, base>>

(* Not the code: the mempool is copied and not cleared.                   *)
DrainKeeping(g) ==
    /\ running
    /\ pc[g] = "poll"
    /\ polled[g] \notin closed
    /\ txs' = [txs EXCEPT ![g] = mempool]
    /\ pc' = [pc EXCEPT ![g] = "begin"]
    /\ UNCHANGED <<ended, control, blocksMined, pool, ledger,
                   polled, prevBlock, newBlock, base>>

(* The mempool is copied and cleared under its lock.                       *)
Drain(g) ==
    /\ running
    /\ pc[g] = "poll"
    /\ polled[g] \notin closed
    /\ txs' = [txs EXCEPT ![g] = mempool]
    /\ mempool' = <<>>
    /\ pc' = [pc EXCEPT ![g] = "begin"]
    /\ UNCHANGED <<ended, control, blocksMined, unsent, ledger,
                   polled, prevBlock, newBlock, base>>

(* AddBlock remembers the tip, and every transaction verifies.             *)
BeginBlock(g) ==
    /\ running
    /\ pc[g] = "begin"
    /\ \A i \in 1..Len(txs[g]) : txs[g][i] \notin Unverifiable
    /\ prevBlock' = [prevBlock EXCEPT ![g] = Tip]
    /\ pc' = [pc EXCEPT ![g] = "mine"]
    /\ UNCHANGED <<ended, control, blocksMined, pool, ledger,
                   polled, txs, newBlock, base>>

(* Not the code: the failed block is counted.                             *)
AddBlockFailsCounted(g) ==
    /\ running
    /\ \/ pc[g] \in {"begin", "mine", "save"}
       \/ pc[g] = "update" /\ txs[g] # <<>>
    /\ pc' = [pc EXCEPT ![g] = "select"]
    /\ txs' = [txs EXCEPT ![g] = <<>>]
    /\ blocksMined' = blocksMined + 1
    /\ UNCHANGED <<ended, control, pool, ledger,
                   polled, prevBlock, newBlock, base>>

(* Not the code: an error ends the goroutine, and isMining stays set.      *)
AddBlockFailsExiting(g) ==
    /\ running
    /\ pc[g] = "begin"
    /\ \E i \in 1..Len(txs[g]) : txs[g][i] \in Unverifiable
    /\ pc' = [pc EXCEPT ![g] = "done"]
    /\ txs' = [txs EXCEPT ![g] = <<>>]
    /\ UNCHANGED <<ended, control, blocksMined, pool, ledger,
                   polled, prevBlock, newBlock, base>>

(* AddBlock returns an error: the miner's address cannot be decoded or a   *)
(* transaction does not verify, the block is not valid (the nonces ran     *)
(* out, or the tip is no longer prevBlock), an input is not in the UTXO    *)
(* set, or a write to disk fails.  The goroutine logs it, sleeps and       *)
(* forgets the transactions it had drained.                                *)
AddBlockFails(g) ==
    /\ running
    /\ \/ pc[g] \in {"begin", "mine", "save"}
       \/ pc[g] = "update" /\ txs[g] # <<>>
    /\ pc' = [pc EXCEPT ![g] = "select"]
    /\ txs' = [txs EXCEPT ![g] = <<>>]
    /\ UNCHANGED <<ended, control, blocksMined, pool, ledger,
                   polled, prevBlock, newBlock, base>>

(* Not the code: the sealed block's hash is never stored in newBlock.      *)
MineUnassigned(g) ==
    /\ running
    /\ pc[g] = "mine"
    /\ Tip = prevBlock[g]
    /\ Len(made) < MaxBlocks
    /\ made' = Append(made, [prev |-> prevBlock[g], txs |-> txs[g]])
    /\ pc' = [pc EXCEPT ![g] = "update"]
    /\ UNCHANGED <<ended, control, blocksMined, pool, chain,
                   polled, txs, prevBlock, newBlock, base>>

(* The proof of work is found and ValidateBlock, which looks at the tip    *)
(* again, accepts the block.                                               *)
MineAndValidate(g) ==
    /\ running
    /\ pc[g] = "mine"
    /\ Tip = prevBlock[g]
    /\ Len(made) < MaxBlocks
    /\ made' = Append(made, [prev |-> prevBlock[g], txs |-> txs[g]])
    /\ newBlock' = [newBlock EXCEPT ![g] = Len(made) + 1]
    /\ pc' = [pc EXCEPT ![g] = "update"]
    /\ UNCHANGED <<ended, control, blocksMined, pool, chain,
                   polled, txs, prevBlock, base>>

(* The UTXO set has been updated, and bc.Blocks is read for the append.    *)
UpdateUTXO(g) ==
    /\ running
    /\ pc[g] = "update"
    /\ base' = [base EXCEPT ![g] = chain]
    /\ pc' = [pc EXCEPT ![g] = "append"]
    /\ UNCHANGED <<ended, control, blocksMined, pool, ledger,
                   polled, txs, prevBlock, newBlock>>

(* Not the code: the block is appended twice.                             *)
AppendTwice(g) ==
    /\ running
    /\ pc[g] = "append"
    /\ chain' = base[g] \o <<newBlock[g], newBlock[g]>>
    /\ txs' = [txs EXCEPT ![g] = <<>>]
    /\ pc' = [pc EXCEPT ![g] = "save"]
    /\ UNCHANGED <<ended, control, blocksMined, pool, made,
                   polled, prevBlock, newBlock, base>>

(* bc.Blocks = append(bc.Blocks, newBlock), with the slice read before.    *)
AppendBlock(g) ==
    /\ running
    /\ pc[g] = "append"
    /\ chain' = Append(base[g], newBlock[g])
    /\ txs' = [txs EXCEPT ![g] = <<>>]
    /\ pc' = [pc EXCEPT ![g] = "save"]
    /\ UNCHANGED <<ended, control, blocksMined, pool, made,
                   polled, prevBlock, newBlock, base>>

(* The block is saved and counted.                                         *)
CountBlock(g) ==
    /\ running
    /\ pc[g] = "save"
    /\ blocksMined' = blocksMined + 1
    /\ pc' = [pc EXCEPT ![g] = "select"]
    /\ UNCHANGED <<ended, control, pool, ledger,
                   polled, txs, prevBlock, newBlock, base>>

(* The first transaction that does not verify has an input that names a    *)
(* confirmed transaction and an output it does not have: Verify panics,    *)
(* and nothing in the goroutine recovers.                                  *)
IndexPanic ==
    /\ running
    /\ \E g \in Miner : \E i \in 1..Len(txs[g]) :
          /\ pc[g] = "begin"
          /\ txs[g][i] \in OutOfRange
          /\ \A j \in 1..(i - 1) : txs[g][j] \notin Unverifiable
    /\ ended' = "index"
    /\ UNCHANGED <<control, blocksMined, pool, ledger, locals>>

(* Two goroutines are writing to the map of the UTXO set: the runtime may  *)
(* notice and end the process ("concurrent map writes").                   *)
WriterRace ==
    /\ running
    /\ \E g, h \in Miner : g # h /\ pc[g] = "update" /\ pc[h] = "update"
    /\ ended' = "writers"
    /\ UNCHANGED <<control, blocksMined, pool, ledger, locals>>

(* One goroutine is writing to it while a call of GetBalance or GetUTXO    *)
(* goes through it ("concurrent map iteration and map write").             *)
ReaderRace ==
    /\ running
    /\ \E g \in Miner : pc[g] = "update"
    /\ ended' = "reader"
    /\ UNCHANGED <<control, blocksMined, pool, ledger, locals>>

MineBlocks(g) ==
    \/ EvaluateSelect(g) \/ Exit(g) \/ Drain(g)
    \/ BeginBlock(g) \/ AddBlockFails(g) \/ MineAndValidate(g)
    \/ UpdateUTXO(g) \/ AppendBlock(g) \/ CountBlock(g)

Next ==
    \/ StartMining
    \/ StopMining
    \/ \E t \in Tx : SubmitTransaction(t)
    \/ \E g \in Miner : MineBlocks(g)
    \/ IndexPanic \/ WriterRace \/ ReaderRace

Spec == Init /\ [][Next]_vars

(* Goroutines are scheduled: none of their steps waits for anything but a  *)
(* lock that is soon released, a sleep, or a search that ends.             *)
FairSpec == Spec /\ \A g \in Miner : WF_vars(MineBlocks(g))

-----------------------------------------------------------------------------
Block == 1..Len(made)

Place == {"none", "select", "poll", "begin", "mine", "update", "append", "save",
          "done"}

TypeOK ==
    /\ ended \in {"no", "index", "writers", "reader"}
    /\ isMining \in BOOLEAN /\ overlapped \in BOOLEAN
    /\ stopMining \in Nil..MaxStarts
    /\ closed \subseteq Miner
    /\ blocksMined \in Nat
    /\ mempool \in Seq(Tx) /\ unsent \subseteq Tx
    /\ made \in Seq([prev : Nat, txs : Seq(Tx)])
    /\ chain \in Seq(Block) /\ Len(chain) > 0
    /\ pc \in [Miner -> Place]
    /\ polled \in [Miner -> Nil..MaxStarts]
    /\ txs \in [Miner -> Seq(Tx)]
    /\ prevBlock \in [Miner -> {Nil} \cup Block]
    /\ newBlock \in [Miner -> {Nil} \cup Block]
    /\ base \in [Miner -> Seq(Block)]

(* StopMiningInternal never closes a nil or a closed channel, which would  *)
(* panic, and no channel but the current one is left open: a goroutine     *)
(* that re-reads s.stopMining late can still be stopped.                   *)
OnlyCurrentOpen ==
    /\ isMining => stopMining # Nil
    /\ closed = (1..stopMining) \ (IF isMining THEN {stopMining} ELSE {})

(* Each block names the one before it.                                     *)
Linked ==
    \A i \in 2..Len(chain) : made[chain[i]].prev = chain[i - 1]

(* As long as no goroutine is started before the last one has exited, the  *)
(* chain is linked, whatever fails, and no two goroutines ever write to    *)
(* the map of the UTXO set at a time.                                      *)
LinkedUnlessOverlapped == ~overlapped => Linked /\ ended # "writers"

(* ... and GetMiningInfo never reports more blocks than were added.        *)
CountedUnlessOverlapped == ~overlapped => blocksMined < Len(chain)

(* Where a submission can be found.                                        *)
PlacesOf(t) ==
    LET places(name, at, seq) ==
            {<<name, at, i>> : i \in {k \in 1..Len(seq) : seq[k] = t}}
    IN places("mempool", 0, mempool)
       \cup (UNION {places("drained", g, txs[g]) : g \in Miner})
       \cup (UNION {places("block", h, made[chain[h]].txs) : h \in 1..Len(chain)})

(* However many goroutines drain the mempool and race to append, a         *)
(* submission is never mined twice, nor mined while still waiting.         *)
MinedOnce == \A t \in Tx : \A p, q \in PlacesOf(t) : p = q

(* After StopMining every goroutine exits, those too that an earlier stop  *)
(* missed because the field already held the next start's channel - unless *)
(* the process ends first.                                                 *)
StopsForGood ==
    ~isMining ~> (isMining \/ ~running \/ \A g \in Miner : ~Alive(g))

(* While mining and the process go on, what waits in the mempool is taken. *)
DrainedWhileMining ==
    \A t \in Tx :
        (isMining /\ t \notin unsent) ~>
            (~isMining \/ ~running \/ \A i \in 1..Len(mempool) : mempool[i] # t)

-----------------------------------------------------------------------------
(* What the source states and the code does not keep. *)

(* blockchain.go:329 "Verify previous block hash (if not genesis)": no     *)
(* block is added whose previous block is not the one before it.           *)
ChainLinked == Linked
=============================================================================
