------------------------------ MODULE PeerSync ------------------------------
(***************************************************************************)
(* The nodes of the network: internal/p2p/network.go over the Blockchain   *)
(* of each node, used the way cmd/node-p2p and the package's tests do: a   *)
(* node dials others, mines, and broadcasts what it makes.                 *)
(*                                                                         *)
(* Stream handlers, the sync goroutine of each dial and the node's own     *)
(* AddBlock share bc.Blocks and bc.PendingTxs without a lock.  Blocks are  *)
(* named by their hashes, numbered in the order they are mined.  A stream  *)
(* may break at any time, a broadcast may be lost or overtaken, and a node *)
(* may stop and start again; what a node has on disk is module ChainStore's*)
(* subject, and here it is the chain it had.                               *)
(***************************************************************************)
EXTENDS Integers, Sequences, FiniteSets

CONSTANTS
    NodeCount,  \* how many nodes there are
    MaxDials,   \* bound on the successful calls of ConnectToPeer
    MaxMade,    \* bound on the blocks, genesis included, and the transactions
                \* ever made
    MaxStops    \* bound on how often a node stops

ASSUME PeerSyncAssumption ==
    /\ NodeCount \in Nat \ {0}
    /\ MaxDials \in Nat /\ MaxStops \in Nat
    /\ MaxMade \in Nat /\ MaxMade >= NodeCount

Node == 1..NodeCount

Dial == 1..MaxDials

None == 0

VARIABLES
    up,       \* the nodes that run
    stops,    \* how often a node has stopped
    made,     \* of every block ever mined: the block before it
    chain,    \* bc.Blocks of each node
    peers,    \* n.peers of each node
    syncing,  \* n.syncing of each node
    sync,     \* the syncWithPeer goroutine of each dial
    work,     \* the AddBlock a node is in: [at, block], block the one it mines
    txs,      \* how many transactions have been broadcast
    wire,     \* broadcasts on their way: one sendMessage goroutine each
    pending,  \* bc.PendingTxs of each node
    intake    \* handleTxStream goroutines that have read PendingTxs

node == <<up, stops>>
syncs == <<peers, syncing, sync>>
mining == <<made, work>>
gossip == <<txs, wire, pending, intake>>
vars == <<node, chain, syncs, mining, gossip>>

Blocks(n) == {chain[n][i] : i \in DOMAIN chain[n]}

Tip(n) == chain[n][Len(chain[n])]

Height(n) == Len(chain[n])

(* A goroutine that has not been started, or that has returned.            *)
NoSync(at) ==
    [at |-> at, node |-> None, peer |-> None, heard |-> 0, start |-> 0,
     blocks |-> <<>>, next |-> 1]

(* The goroutine of dial k is at its deferred function.                    *)
Returning(k) ==
    [NoSync("return") EXCEPT !.node = sync[k].node]

NoWork == [at |-> "idle", block |-> None]

-----------------------------------------------------------------------------
(* Every node has a genesis block of its own, or all run on copies of one  *)
(* database.                                                               *)
Init ==
    /\ up = Node /\ stops = 0
    /\ \/ made = [n \in Node |-> None] /\ chain = [n \in Node |-> <<n>>]
       \/ made = <<None>> /\ chain = [n \in Node |-> <<1>>]
    /\ peers = [n \in Node |-> {}]
    /\ syncing = [n \in Node |-> FALSE]
    /\ sync = [k \in Dial |-> NoSync("unused")]
    /\ work = [n \in Node |-> NoWork]
    /\ txs = 0 /\ wire = {}
    /\ pending = [n \in Node |-> <<>>]
    /\ intake = {}

-----------------------------------------------------------------------------
(* What a node takes from others. *)

(* Not the code: the transactions come back with the type they were sent   *)
(* with.                                                                   *)
DecodeTyped(b) == [hash |-> b, typed |-> TRUE]

(* json.Unmarshal into a types.Block: Transactions is an interface{} and   *)
(* comes back as a slice of interface{}, never as []*tx.Transaction.       *)
Decode(b) == [hash |-> b, typed |-> FALSE]

(* ValidateBlock: proof of work, hash and Merkle root are those the sender *)
(* made; what can fail is the cast of the transactions and the link to the *)
(* tip.                                                                    *)
ValidateBlock(n, block) == block.typed /\ made[block.hash] = Tip(n)

(* ValidateChain, at the end of cmd/node-p2p: each block is compared with  *)
(* the one before it; proofs of work and Merkle roots are as they were     *)
(* made.                                                                   *)
ValidateChain(n) == \A i \in 2..Len(chain[n]) : made[chain[n][i]] = chain[n][i - 1]

(* processReceivedBlock: a block that is known or not valid is dropped.    *)
ProcessReceivedBlock(n, block) ==
    chain' = IF block.hash \notin Blocks(n) /\ ValidateBlock(n, block)
             THEN [chain EXCEPT ![n] = Append(@, block.hash)]
             ELSE chain

-----------------------------------------------------------------------------
(* syncWithPeer, one goroutine for each dial. *)

At(k) == sync[k].at

(* ConnectToPeer that reaches the other node, with its go statement.       *)
ConnectToPeer(n, k, p) ==
    /\ n \in up /\ p \in up \ {n}
    /\ At(k) = "unused"
    /\ \A j \in 1..(k - 1) : At(j) # "unused"
    /\ peers' = [peers EXCEPT ![n] = @ \cup {p}]
    /\ sync' = [sync EXCEPT ![k] = [@ EXCEPT !.at = "begin", !.node = n, !.peer = p]]
    /\ UNCHANGED <<node, chain, syncing, mining, gossip>>

(* Not the code: the deferred reset is set up before the check.            *)
BeginSyncDeferred(k) ==
    /\ At(k) = "begin"
    /\ syncing' = [syncing EXCEPT ![sync[k].node] = TRUE]
    /\ sync' = [sync EXCEPT ![k] =
                  IF syncing[sync[k].node] THEN Returning(k) ELSE [@ EXCEPT !.at = "height"]]
    /\ UNCHANGED <<node, chain, peers, mining, gossip>>

(* The flag is tested and set under syncMutex; a second sync gives up.     *)
BeginSync(k) ==
    /\ At(k) = "begin"
    /\ syncing' = [syncing EXCEPT ![sync[k].node] = TRUE]
    /\ sync' = [sync EXCEPT ![k] =
                  IF syncing[sync[k].node] THEN NoSync("over") ELSE [@ EXCEPT !.at = "height"]]
    /\ UNCHANGED <<node, chain, peers, mining, gossip>>

(* handleSyncStream of the peer answers get_height.                        *)
AnswerHeight(k) ==
    /\ At(k) = "height" /\ sync[k].peer \in up
    /\ sync' = [sync EXCEPT ![k] = [@ EXCEPT !.at = "compare",
                                            !.heard = Height(sync[k].peer)]]
    /\ UNCHANGED <<node, chain, peers, syncing, mining, gossip>>

(* The answer is compared with the height of this moment.                  *)
CompareHeight(k) ==
    LET own == Height(sync[k].node)
    IN  /\ At(k) = "compare"
        /\ sync' = [sync EXCEPT ![k] =
                      IF @.heard > own
                      THEN [@ EXCEPT !.at = "blocks", !.start = own, !.heard = 0]
                      ELSE Returning(k)]
        /\ UNCHANGED <<node, chain, peers, syncing, mining, gossip>>

(* handleSyncStream of the peer answers get_blocks with every block from   *)
(* the asked height on, counted from 0.                                    *)
AnswerBlocks(k) ==
    LET s == sync[k]
    IN  /\ s.at = "blocks" /\ s.peer \in up
        /\ sync' = [sync EXCEPT ![k] =
              [s EXCEPT !.at = "process", !.start = 0,
                        !.blocks = SubSeq(chain[s.peer], s.start + 1, Height(s.peer))]]
        /\ UNCHANGED <<node, chain, peers, syncing, mining, gossip>>

(* downloadBlocks takes the blocks one by one.                             *)
ProcessNext(k) ==
    LET s == sync[k]
    IN  /\ s.at = "process" /\ s.next <= Len(s.blocks)
        /\ ProcessReceivedBlock(s.node, Decode(s.blocks[s.next]))
        /\ sync' = [sync EXCEPT ![k].next = @ + 1]
        /\ UNCHANGED <<node, peers, syncing, mining, gossip>>

(* "Synced %d blocks".                                                     *)
ReportSynced(k) ==
    /\ At(k) = "process" /\ sync[k].next > Len(sync[k].blocks)
    /\ sync' = [sync EXCEPT ![k] = Returning(k)]
    /\ UNCHANGED <<node, chain, peers, syncing, mining, gossip>>

(* Not the code: an error returns before the reset is set up.              *)
StreamFailsUndeferred(k) ==
    /\ At(k) \in {"height", "blocks"}
    /\ sync' = [sync EXCEPT ![k] = NoSync("over")]
    /\ UNCHANGED <<node, chain, peers, syncing, mining, gossip>>

(* A stream cannot be opened, written to or read from.                     *)
StreamFails(k) ==
    /\ At(k) \in {"height", "blocks"}
    /\ sync' = [sync EXCEPT ![k] = Returning(k)]
    /\ UNCHANGED <<node, chain, peers, syncing, mining, gossip>>

(* The deferred function.                                                  *)
FinishSync(k) ==
    /\ At(k) = "return"
    /\ syncing' = [syncing EXCEPT ![sync[k].node] = FALSE]
    /\ sync' = [sync EXCEPT ![k] = NoSync("over")]
    /\ UNCHANGED <<node, chain, peers, mining, gossip>>

(* The steps that wait for nobody, and those that wait for the peer.       *)
SyncStep(k) ==
    \/ BeginSync(k) \/ CompareHeight(k)
    \/ ProcessNext(k) \/ ReportSynced(k) \/ FinishSync(k)

Reply(k) == AnswerHeight(k) \/ AnswerBlocks(k) \/ StreamFails(k)

-----------------------------------------------------------------------------
(* A node's own blocks and transactions. *)

(* AddBlock starts from the tip and finds a nonce.                         *)
MineBlock(n) ==
    /\ n \in up /\ work[n].at = "idle"
    /\ Len(made) + txs < MaxMade
    /\ made' = Append(made, Tip(n))
    /\ work' = [work EXCEPT ![n] = [at |-> "validate", block |-> Len(made) + 1]]
    /\ UNCHANGED <<node, chain, syncs, gossip>>

(* ValidateBlock looks at the tip again.                                   *)
ValidateMined(n) ==
    /\ work[n].at = "validate"
    /\ work' = [work EXCEPT ![n] =
                  IF ValidateBlock(n, DecodeTyped(@.block))
                  THEN [@ EXCEPT !.at = "append"] ELSE NoWork]
    /\ UNCHANGED <<node, chain, syncs, made, gossip>>

AppendMined(n) ==
    /\ work[n].at = "append"
    /\ chain' = [chain EXCEPT ![n] = Append(@, work[n].block)]
    /\ work' = [work EXCEPT ![n].at = "broadcast"]
    /\ UNCHANGED <<node, syncs, made, gossip>>

(* One sendMessage goroutine for each peer of this moment.                 *)
Broadcast(n, kind, what) ==
    wire' = wire \cup [from : {n}, to : peers[n], kind : {kind}, what : {what}]

BroadcastBlock(n) ==
    /\ work[n].at = "broadcast"
    /\ Broadcast(n, "new_block", work[n].block)
    /\ work' = [work EXCEPT ![n] = NoWork]
    /\ UNCHANGED <<node, chain, syncs, made, txs, pending, intake>>

BroadcastTransaction(n) ==
    /\ n \in up /\ Len(made) + txs < MaxMade
    /\ txs' = txs + 1
    /\ Broadcast(n, "new_tx", txs + 1)
    /\ UNCHANGED <<node, chain, syncs, mining, pending, intake>>

-----------------------------------------------------------------------------
(* Broadcasts arrive in any order, or stay on the wire for good: an error  *)
(* of sendMessage is looked at by nobody.                                  *)

(* handleBlockStream.                                                      *)
HandleBlockStream(m) ==
    /\ m.kind = "new_block" /\ m.to \in up
    /\ wire' = wire \ {m}
    /\ ProcessReceivedBlock(m.to, Decode(m.what))
    /\ UNCHANGED <<node, syncs, mining, txs, pending, intake>>

(* Not the code: a message that was received is sent again.                *)
HandleTxStreamAgain(m) ==
    /\ m.kind = "new_tx" /\ m.to \in up
    /\ intake' = intake \cup {[node |-> m.to, tx |-> m.what, read |-> pending[m.to]]}
    /\ UNCHANGED <<node, chain, syncs, mining, txs, wire, pending>>

(* handleTxStream, up to the read of PendingTxs for the append.            *)
HandleTxStream(m) ==
    /\ m.kind = "new_tx" /\ m.to \in up
    /\ wire' = wire \ {m}
    /\ intake' = intake \cup {[node |-> m.to, tx |-> m.what, read |-> pending[m.to]]}
    /\ UNCHANGED <<node, chain, syncs, mining, txs, pending>>

(* ... and the write of the longer slice.                                  *)
ProcessReceivedTransaction(h) ==
    /\ pending' = [pending EXCEPT ![h.node] = Append(h.read, h.tx)]
    /\ intake' = intake \ {h}
    /\ UNCHANGED <<node, chain, syncs, mining, txs, wire>>

-----------------------------------------------------------------------------
(* Not the code: a node that ends leaves its peers recorded.               *)
StopRemembering(n) ==
    /\ n \in up /\ stops < MaxStops
    /\ up' = up \ {n} /\ stops' = stops + 1
    /\ syncing' = [syncing EXCEPT ![n] = FALSE]
    /\ sync' = [k \in Dial |-> IF sync[k].node = n THEN NoSync("over") ELSE sync[k]]
    /\ work' = [work EXCEPT ![n] = NoWork]
    /\ wire' = {m \in wire : m.from # n}
    /\ pending' = [pending EXCEPT ![n] = <<>>]
    /\ intake' = {h \in intake : h.node # n}
    /\ UNCHANGED <<peers, chain, made, txs>>

(* A node ends: its goroutines and all but its chain are gone.             *)
Stop(n) ==
    /\ n \in up /\ stops < MaxStops
    /\ up' = up \ {n} /\ stops' = stops + 1
    /\ peers' = [peers EXCEPT ![n] = {}]
    /\ syncing' = [syncing EXCEPT ![n] = FALSE]
    /\ sync' = [k \in Dial |-> IF sync[k].node = n THEN NoSync("over") ELSE sync[k]]
    /\ work' = [work EXCEPT ![n] = NoWork]
    /\ wire' = {m \in wire : m.from # n}
    /\ pending' = [pending EXCEPT ![n] = <<>>]
    /\ intake' = {h \in intake : h.node # n}
    /\ UNCHANGED <<chain, made, txs>>

Start(n) ==
    /\ n \in Node \ up
    /\ up' = up \cup {n}
    /\ UNCHANGED <<stops, chain, syncs, mining, gossip>>

Next ==
    \/ \E n, p \in Node, k \in Dial : ConnectToPeer(n, k, p)
    \/ \E k \in Dial : SyncStep(k) \/ Reply(k)
    \/ \E n \in Node :
          \/ MineBlock(n) \/ ValidateMined(n) \/ AppendMined(n) \/ BroadcastBlock(n)
          \/ BroadcastTransaction(n) \/ Stop(n) \/ Start(n)
    \/ \E m \in wire : HandleBlockStream(m) \/ HandleTxStream(m)
    \/ \E h \in intake : ProcessReceivedTransaction(h)

Spec == Init /\ [][Next]_vars

(* A sync goroutine is scheduled, and a stream is answered or breaks.      *)
FairSpec ==
    /\ Spec
    /\ \A k \in Dial : WF_vars(SyncStep(k)) /\ WF_vars(Reply(k))

-----------------------------------------------------------------------------
Block == 1..Len(made)

Message ==
    [from : Node, to : Node, kind : {"new_block"}, what : Block]
        \cup [from : Node, to : Node, kind : {"new_tx"}, what : 1..txs]

(* Shapes and ranges; a node that is down has no goroutine and no peer.    *)
TypeOK ==
    /\ up \subseteq Node /\ stops \in 0..MaxStops
    /\ made \in Seq({None} \cup Block)
    /\ chain \in [Node -> Seq(Block)]
    /\ peers \in [Node -> SUBSET Node]
    /\ syncing \in [Node -> BOOLEAN]
    /\ sync \in [Dial ->
          [at : {"unused", "begin", "height", "compare", "blocks", "process",
                 "return", "over"},
           node : Node \cup {None}, peer : Node \cup {None},
           heard : Nat, start : Nat, blocks : Seq(Block), next : Nat]]
    /\ work \in [Node -> [at : {"idle", "validate", "append", "broadcast"},
                          block : Block \cup {None}]]
    /\ txs \in 0..MaxMade
    /\ wire \subseteq Message
    /\ pending \in [Node -> Seq(1..txs)]
    /\ intake \subseteq [node : Node, tx : 1..txs, read : Seq(1..txs)]
    /\ \A n \in Node \ up : peers[n] = {} /\ ~syncing[n] /\ work[n] = NoWork

(* Each chain is linked although handlers, the sync goroutine and the      *)
(* node's own AddBlock append to it without a lock: nothing received ever  *)
(* passes ValidateBlock (blockchain.go:314), so that a node's chain grows  *)
(* by its own blocks only.                                                 *)
ChainsLinked == \A n \in Node : ValidateChain(n)

Running(n, k) == sync[k].node = n /\ At(k) # "begin"

(* The flag tells the truth: it is set exactly while a sync runs, and then *)
(* one runs, however dials overlap, fail and are skipped.                  *)
SyncingIsTrue ==
    \A n \in Node : Cardinality({k \in Dial : Running(n, k)}) = IF syncing[n] THEN 1 ELSE 0

(* Nobody's broadcast is pending twice at a node, although dials repeat,   *)
(* handlers overwrite each other's append and both ends may dial.          *)
PendingOnce ==
    \A n \in Node : \A i, j \in DOMAIN pending[n] : pending[n][i] = pending[n][j] => i = j

(* A sync ends, whatever breaks, and the next dial can sync again.         *)
SyncEnds == \A n \in Node : syncing[n] ~> ~syncing[n]

-----------------------------------------------------------------------------
(* What the documentation promises and the code does not keep. *)

(* README.md:33 "Automatic chain sync across nodes": when a sync reports   *)
(* the blocks it downloaded as synced, the node's chain has them.          *)
SyncedIsAdded ==
    \A k \in Dial :
        LET s == sync[k]
        IN  s.at = "process" /\ s.next > Len(s.blocks) =>
                \A i \in DOMAIN s.blocks : s.blocks[i] \in Blocks(s.node)
=============================================================================
