# Integrity-Coin: a TLA+ development

TLA+ modules, TLC runs and TLAPS proofs about the Go program in `src/`: a small
proof-of-work chain with a UTXO ledger, LevelDB persistence, a gRPC server that
mines on request, and a libp2p network. Paths below are relative to `src/`;
`PROJECT.json` maps every definition to the lines it stands for.

## 1. The system

| Part | State | Operations | Correct when |
|---|---|---|---|
| Blockchain in memory, `internal/blockchain` | `Blocks`, `DifficultyTarget`, `UTXOSet`, `PendingTxs`; no lock | `NewBlockchain`, `AddBlock`, `CreateTransaction`, `ValidateBlock`, `ValidateChain`, `adjustDifficulty` | each block follows the one before it; money is neither made nor lost; difficulty moves only at an interval's end |
| UTXO set, `internal/utxo` | map from transaction id to the outputs left | `AddUTXO`, `RemoveUTXO`, `Update`, `FindSpendableOutputs`, `GetBalance` | holds exactly the unspent outputs of the chain |
| Transactions, `internal/tx` | none | `NewTransaction`, `NewCoinbaseTx`, `Sign`, `Verify` | a signature covers what is spent |
| Chain storage, `internal/storage/storage.go` | LevelDB keys `block_*`, `chain_tip`, `chain_height`, `difficulty`, `utxo_*` | one `Put` or `Get` each | a block reported saved survives any stop; a node can be started again |
| Wallet storage, `internal/storage/wallet_storage.go` | `wallet_*` and the list `addresses` | `SaveWallet`, `DeleteWallet`, `Clear` | list and wallets agree |
| gRPC server, `internal/grpc` | mining flag and channel, mempool, subscribers, wallets | mining control, mempool, subscriptions, wallet and query handlers, `mineBlocks` goroutines | one miner; a stop stops; streams get every block or are told |
| P2P, `internal/p2p` | peer set, `syncing` flag | connect, broadcast, sync, process received blocks and transactions | nodes converge on one chain |
| Proof of work, Merkle tree, keys: `internal/pow`, `internal/merkle`, `internal/crypto` | none | pure functions | encodings round-trip, roots commit to their lists |
| Programs `cmd/*`, web page `web/` | none of their own | call the packages above | |

How they interact. Everything shares one `*Blockchain` by pointer. `AddBlock`
calls the UTXO set, the Merkle tree, the miner and the storage in turn. The
gRPC server's goroutines call `AddBlock` while its handlers read the same
fields; the P2P handlers append to `Blocks` directly. The only locks are the
server's (`miningMu`, `mempoolMu`, `subsMu`) and the network's (`peerMutex`,
`syncMutex`); none of them covers the blockchain. The UTXO set and the blocks
share memory: an entry is the very slice of outputs that the confirmed
transaction holds.

What is hard: index shifts and shared arrays in the UTXO set; `AddBlock`
failing after it has changed something; a process that dies between two writes
that belong together; goroutines in an unlocked `AddBlock`; lost, late and
reordered network messages. `PROJECT.json` lists each hazard at its line.

## 2. The modules

| Module | Models | Abstract or composed with |
|---|---|---|
| `Ledger` | blockchain, UTXO set and transactions, one caller at a time | |
| `LedgerProofs` | proofs about `Ledger` | |
| `ChainStore` | storage and restart | implements `DurableChain` |
| `DurableChain` | what persistence promises | |
| `ChainStoreProofs` | proofs about `ChainStore` | |
| `MiningServer` | mining control, mempool and the goroutines inside `AddBlock` | |
| `MiningServerProofs` | proofs about `MiningServer` | |
| `PeerSync` | the nodes of the network: dials, syncs, broadcasts, own blocks, restarts | |
| `PeerSyncProofs` | proofs about `PeerSync` | |
| `Streams` | subscriptions, the goroutines that notify them, `Stop` | |
| `StreamsProofs` | proofs about `Streams` | |
| `Texts` | the texts that name bytes, and what `Sscanf` and `Sprintf` make of them | |
| `Queries` | the queries of the server and the explorer's pages, against submissions and the miner | |
| `QueriesProofs` | proofs about `Queries` | |
| `WalletStore` | the wallet database | |
| `Merkle`, `Retarget`, `ProofOfWork`, `Signatures` | pure parts, as operators | |
| `Algorithms` | inputs for the first three of them, and what they promise of each | |
| `PrimitivesProofs` | proofs about `WalletStore` and the pure modules | |
| `Facts` | what the proofs need of sequences, folds, induction, and sums term by term | |
| `MCLedger`, `MCChainStore`, `MCMiningServer`, `MCPeerSync`, `MCStreams`, `MCSignatures`, `MCParts` | instances for TLC; `MCParts` puts side by side what runs alone: the ledger of `MCLedger`, `Queries`, `WalletStore` and `Algorithms` | |

A definition whose comment begins "Not the code" is a variant with one
plausible bug. `PROJECT.json` lists under "mutants" which definition it
replaces and which property then fails: each property has one, so none holds
by the shape of the model.

### Ledger

State: `blocks` (bc.Blocks), `utxo` (UTXOSet.UTXOs), `pending` (transactions a
caller has created and not yet handed to `AddBlock`). Actions:
`CreateTransaction`; and `AddBlock` by its three outcomes, `AddBlock`
(appended), `RejectBlock` (a transaction does not verify) and `FailBlock` (an
update of the UTXO set fails halfway). A call hands over any first part of
`pending`. The difficulty does not touch the ledger and is in `Retarget`.

`RemoveUTXO` is modelled with its side effect: `append(outputs[:i],
outputs[i+1:]...)` moves the later outputs up and writes them into the array
that the confirmed transaction in the block shares (`Overwrite`); `home` says
which transaction that is. So `FindTransaction` may return outputs that differ
from those the transaction was created with, and signatures are checked against
those. Data is abstract: an id is the structure it is the hash of. A signature is
the owner it was made over, and whether `VerifySignature` will divide its bytes
where `Sign` joined them (`splits`): each payment is signed either way, so a fresh
payment may be refused, and its block with it. The order in which a Go map is
scanned is a choice. Indices count from 1.

Amounts are any integers, since `CreateTransaction` checks none. A payment of 0
or less needs no input, and made twice it has one id. Otherwise a transaction
can get the id of an earlier one only where an index may have shifted: the same
payment made twice of a transaction with two outputs, whose second copy spends
the output that moved into the place of the first. That copy's `AddUTXO` puts
all its outputs into the set anew, the spent ones too, so that what spent them
can be made again, and it stays so when its block is then dropped.
`SameIdOnlyAfterShift` says that nothing else does it: what spends something,
and only outputs with no others beside them (`StandsAlone`), and descends from
such (`Unshifted`), is confirmed once.

`Reloaded` is what `loadBlockchain` makes of the saved blocks: the UTXO updates
replayed with their errors ignored.

### ChainStore

State: the LevelDB keys (`stored`, `tip`, `height`, `difficulty`), the process
(`pc`, `chain`, `bits`, `cursor`), and four histories: `committed`, the chain at
the last `SaveChainTip`, `acked`, the blocks whose saving returned without an
error, `faulted`, whether a write has failed, and `misread`. Each `Put` of
`saveBlockToDB` is an action, each turn of the load loop is one, `Crash` ends
the process anywhere, and `PutFails` (when `PutMayFail`) makes a write return
an error: `AddBlock` then returns with the block still in memory, and
`NewBlockchain` gives up. A read of a key that is there may fail as well (when
`GetMayFail`): `loadBlockchain` returns the error (`ReadFails`), while
`NewBlockchain` takes an error of `GetChainTip` for "no chain" and makes a new
genesis block, whose saving replaces the tip (`MisreadTip`). A `Put` that returned
survives the death of the process. Loss of power, where LevelDB may drop unsynced
writes, is not modelled.

`DurableChain` is the promise: a log that only grows, and a view that is
nothing, or the log followed by blocks not in it yet; and, after a start that
could not read the log, one block that replaces it. `Durable` in `ChainStore`
maps `committed` to the log and the running chain to the view. A node that cannot
be loaded any more, after a write error, is one that never opens the log again,
which the promise allows; that it takes a write error is `RecoverableOnceBorn`.

### MiningServer

State: the server's fields (`isMining`, `stopMining`, `blocksMined`, `mempool`),
which channels are `closed`, the shared `chain`, and for each goroutine where it
is and its locals. One successful `StartMining` makes one channel and one
goroutine, so both carry the number of that call. A goroutine goes through
`EvaluateSelect` (it reads `s.stopMining` without the lock), `Exit` or `Drain`,
`BeginBlock` (the tip is remembered, transactions verify), `MineAndValidate`,
`UpdateUTXO` (ends with reading `bc.Blocks` for the append), `AppendBlock`,
`CountBlock`; or `AddBlockFails`. The process can end in three ways, which `ended`
tells apart: a submitted input names an output that its transaction does not have,
and `Verify` panics in the goroutine (`IndexPanic`, for the submissions of
`OutOfRange`); two goroutines are in the UTXO update at once, a data race on a Go
map that the runtime may notice (`WriterRace`); or a caller of `GetBalance` goes
through the map beside one of them (`ReaderRace`). The first and the last need no
second goroutine. The reply "Mining already in progress" changes nothing and is
no action. `Stop` does to this state what `StopMining` does.

### PeerSync

State, for each node: `chain`, `peers`, the `syncing` flag, `pending`
(bc.PendingTxs), the `AddBlock` it is in; for each dial, where its
`syncWithPeer` goroutine is; `made`, the previous block of every block ever
mined; and `wire`, one message for each `sendMessage` goroutine. A dial starts a
goroutine that goes through `BeginSync` (test and set under `syncMutex`),
`AnswerHeight`, `CompareHeight`, `AnswerBlocks`, `ProcessNext` for each block,
`ReportSynced` and the deferred `FinishSync`; `StreamFails` may come at each
exchange. Broadcasts are delivered in any order, or never: nobody looks at the
error of `sendMessage`. `HandleTxStream` and `ProcessReceivedTransaction` are
the read and the write of an append that has no lock. A node that stops keeps
its chain and nothing else.

`Decode` is what JSON does to a block: `Transactions` is an `interface{}`, so a
`[]*tx.Transaction` comes back as a `[]interface{}`, and `ValidateBlock` refuses
the block. Hence a node's chain grows by its own blocks only, and that is what
keeps it linked (`ChainsLinked`): with a decoder that kept the type, the sync
goroutine, the stream handlers and the node's own `AddBlock` would race, as
the mutant `DecodeTyped` shows. The nodes' genesis blocks are either their own
(as `cmd/node-p2p` makes them) or one (copies of a database).

### Streams

State: the chain and the miners that extend it, the channel and the handler of
each stream, `subs` (s.blockSubs and s.txSubs), the notify call of each notifier
with its place in the list, the clients that have left, `Stop`. As in
`MiningServer`, a start after a stop may set a second miner to work beside the
first (`overlapped`): each appends to the chain it read when its `AddBlock` began
(`base`), so one may undo the other's append, and they notify in either order.
`subsMu` is what the guards say: `RLock` when no writer holds it (writers are
single steps), `Join` and `Leave` when no notifier is in its loop. Go's RWMutex
makes a new reader wait behind a waiting writer and the model does not, which only
adds behaviours: no holder of a read lock waits for anything. `Return` is the end
of a handler's loop, where its deferred function comes to wait for the lock;
`Leave` is what that function does, the removal under the lock and then the close,
in one step, since from the removal on nobody else knows the channel. A client may
stop reading (no fairness of `Send`) or leave.

### Queries

State: the chain as the transactions of each block, the mempool, what the miner
has drained, the wallets' addresses, and the one query that is followed with
what it has read so far. `SubmitTransaction`, `Drain` and `AddMined` (the miner's `AddBlock`) go on
between its steps, also between the call of `GetTransaction` (`AskTransaction`)
and its look at the mempool (`LookUp`), for which it may wait for the lock;
`taken` records that the miner took away meanwhile what the call would have
found. A transaction is two fields, its id and the id its input names, each a
text (`Texts`): some pairs of hexadecimal digits in either case and what comes
after them. `ProtoToTx` scans as `Sscanf("%x")` does, up to the first that is
no digit and nothing at all if half a pair is left; `TxToProto` prints in lower
case. The height is the number of blocks and places count from 0, so
`GetBlock(Height())` finds a block only if one was added in between; `Scanned`,
`BlockAt` and `Lowest` keep that. A page's calls may break or come after its
ten seconds (`FetchFails`, `AskHeightFails`). Amounts may be negative, which
needs no input and passes `Sign` (`SignAll`).

### WalletStore and the pure modules

`WalletStore`: the `wallet_*` keys, the list, the call under way, and two
histories. Each write of `SaveWallet` and `Clear` is an action and `CutShort`
ends a call between them. `Merkle` hashes the concatenation of two nodes: bytes
are sequences of pieces, a hash is one piece that keeps what was hashed, and an
id, which `SubmitTransaction` does not check, is any sequence, a node of the
tree or nothing too. `Retarget` has `adjustDifficulty`, with the integer
division it does; `ProofOfWork` the loop over the nonces; `Signatures` the
joining and splitting of r and s, numbers being digits in a small base.
`Algorithms` gives the first three an input in the initial state,
`MCSignatures` makes one signature after the other.

## 3. What is checked

| Run | Question | Result |
|---|---|---|
| `parts`, the ledger | one transaction at a time, no payment to oneself: do balances, supply, restart and acceptance come out right through all index shifting? | holds |
| `parts`, queries | what can be reported missing that is known; do fields come back as submitted; do pages have gaps? | holds |
| `parts`, the rest | the wallet database under faults; Merkle roots, retargeting, nonce search over bounded inputs | holds |
| `best_hash` | is a best block's hash given? | violated |
| `signature` | does every fresh signature verify? | violated |
| `ledger_pool` | several transactions waiting, stale and conflicting ones too: no index panic in `Verify`; does `AddBlock` fail halfway only over a conflict; when does an id come back? | holds |
| `ledger_double_spend` | is an output spent once in a block? | violated |
| `chain_store` | dying anywhere, writes and reads that fail: does an acknowledged block stay; do the keys implement the log; does a node whose writes have not failed find what it needs to start again; does every load end? | holds |
| `chain_store_genesis` | can any node always be started again? | violated |
| `mining` | all interleavings of two goroutines, starts, stops and submissions, and the ways the process ends | holds |
| `mining_overlap` | is the chain linked when goroutines overlap? | violated |
| `peer_sync` | dials, syncs, broadcasts, own blocks and restarts of two nodes: are chains linked, is the flag true, is nothing pending twice, does a sync end? | holds |
| `peer_sync_report` | is what a sync reports on the chain? | violated |
| `streams` | streams that come and go beside miners, overlapping or not, and a submitter: no send on a closed channel, order, who misses what, nobody held up, does `Stop` return? | holds |

Bounds and why they are enough.

* `Parts.cfg` and `PartsBestHash.cfg`. A behaviour of `MCParts` is one of one
  part, the others stand still; the parts share no state, so nothing is lost by
  that. For the ledger: three wallets, five blocks, a reward of 2 and amounts 1
  and 3, so that a payment can need one or two outputs, leave change or not,
  and spend an entry whose indices have shifted. `MaxPending` is 1: `cmd/node`
  mines each transaction before it creates the next. Payments to oneself are
  left out on purpose; they break these properties (section 5), and so do
  payments of nothing. For the queries: two submissions of three kinds, one of
  them well formed, two mined blocks, so that one or two come between two
  reads; pages of up to three blocks. Three wallets in the database and two
  faults. Lists of up to five ids, where an odd level appears on every floor of
  the tree, ids that are nodes or of other lengths in the short ones; paces on
  both sides of each limit from every difficulty; every injective hash of four
  nonces.
* `LedgerPool.cfg`: two transactions waiting over four blocks, of an amount of
  1 or of 0; the payer also pays himself and is paid back. Three payments
  waiting or mined (`MaxPayments`) are the least that gives stale, shared and
  shifted inputs, ids that come back in the same block and in a later one,
  blocks rejected (an output that changed its owner under a waiting
  transaction) and blocks failing halfway. In the other two ledger runs that
  bound is out of reach.
* `ChainStore*.cfg`: five blocks, an interval of 2: two adjustments, gaps before,
  at and after the tip, and stops and failures at every write.
* `MiningServer.cfg`: two goroutines, two made blocks besides genesis, two
  submissions of which one does not verify, over an index that is out of range:
  enough for a lost append, a broken link, a late re-read of the channel and a
  failed batch. When the bound on blocks is reached, `AddBlock` can still fail,
  as it can in the code.

* `PeerSync.cfg`: two nodes, two dials, three blocks and transactions in all, one
  stop. Two dials are what it takes for syncs of one node to overlap or for both
  ends to dial; with the genesis blocks of their own one more block makes one
  node the longer.
* `Streams.cfg`: two streams of either kind, channels of one item, two starts
  of a miner, two mined blocks and one submission: a full channel, two
  notifiers with one list or with one each, a removal in front of a notifier.
  Three calls in all (`MaxCalls`): two miners beside one stream, or one beside
  two.
* `Signatures.cfg`: numbers of two or three digits of base 2.

`CHECK_DEADLOCK FALSE` is given because every system here may come to rest: the
bounds on blocks, and a server on which no call is made.

Fairness. `LoadEnds` assumes that a loading process keeps running; the loop
waits for nothing but the disk. `StopsForGood` and `DrainedWhileMining` assume
that each goroutine is scheduled (weak fairness of `MineBlocks(g)`): its steps
wait for nothing but a lock that is soon released, a sleep, or a nonce search
that ends after 2^32 tries. `SyncEnds` assumes that a sync goroutine is
scheduled, and that an exchange is answered or breaks: the code sets no
deadline, so this is asked of libp2p, whose connections end when a peer does
not answer. `NotifyEnds` and `StopEnds` assume that notifiers and handlers are
scheduled; a handler that sends to a client that does not read is not, until
the client leaves. No fairness is assumed of callers and clients: nobody has to
start, stop, submit, read or leave.

## 4. What is proved

For every value of the constants that the named assumptions allow.

`LedgerProofs`, from `LedgerAssumption`:

* `TypeCorrect`, `NoPanics`, `OnlyConflictsFail` and `SameIdsOnlyAfterShift`,
  for any number of waiting transactions, stale and conflicting ones too, and
  of blocks.
* An id nests the ids its inputs name, so there is no set of all ids to start
  from. The invariant `LedgerOK` says that there is a set I of ids whose inputs
  name ids of I (`IdsOver`), over which the chain, the waiting transactions and
  the UTXO set are made; a new transaction adds its id to I. It adds that an
  entry is never longer than its id has outputs (`EntriesFit`), that it is the
  front of what its home transaction shows (`Shares`), and that each waiting
  input names an output of a confirmed transaction (`Names`). The last is not
  enough for the index that `Verify` reads: a transaction shows as many outputs
  as it was created with however often its array was overwritten, which is
  `TxsOver`, and what makes `NoPanics` true.
* A call of `AddBlock` is a sequence of updates and each of these a sequence of
  removals; `WorldsOver` is what holds of the ledger between any two of them.
  `OnlyConflictsFail` shows the converse of its name: if each input has its output
  when the call starts and no two name one transaction, then each removal leaves
  the outputs of the inputs still to come (`HasLater`), and all succeed.
* `SameIdsOnlyAfterShift`, for any amounts, speaks of the whole history of an
  output. Its invariant `History` says, for every set S of ids that spend only
  ids of S, each of one output (`Alone`), that whatever spends an entry of the
  set has not been seen before (`Gone`): what an id of S spends is in the set
  no more once the id is confirmed, or has come into the set with a block that
  was then dropped. So an update for an id of S, which takes what it spends
  (`Puts`), is its first, and what it adds is nothing that a known id spends,
  for those spend confirmed ones (`Rooted`), which the new id is not
  (`PutsOnce`). `OnceAfter` is that after each update of a block, the failing
  one included. An earlier form of the property said more, that an id comes
  back only if it spends an output with others beside it. The proof did not go
  through, and a larger instance than the run's (seven blocks, five payments)
  has the counterexample: what descends from such an id comes back with it.
* `SupplyIsConserved`, `PaysExactlyAlways`, `NothingIsDropped` and
  `ReloadAlwaysAgrees`, under the hypothesis `OneAtATime`: at most one payment
  waits, of a positive amount, and nobody pays themselves. That is how
  `cmd/node` uses the blockchain, and how `Parts.cfg` runs it; without it the
  four are false (section 5: double spend, a wallet that pays itself, a block
  that fails halfway). What `NothingIsDropped` excepts is a payment with a
  signature that is divided in the wrong place. Any addresses, amounts, number
  of blocks and of inputs to a payment.
* They rest on `AlwaysSteady`. `Steady` adds to `LedgerOK` that no two
  transactions of the chain have one id and that only rewards of earlier blocks
  are numbered (so a new reward's id is new); that what an input of the chain
  has spent its key will never find there again (`StillHolds`), which is why a
  waiting payment's id is new as well; that no entry has two outputs of one
  owner (`Distinct`), without which spending one would leave the other in its
  place; and that the waiting payment still spends outputs of its signer, one
  of each entry, and pays out what they are worth (`SoundPayment`).
  `CreateTransaction` looks the owner up in the chain and the value in the set;
  `OwnerIsRecorded` shows that they are of one output.
* Under `Steady` a payment verifies, unless a signature of it is divided in the
  wrong place, and all its updates succeed (`NoneFails`), so the only steps are
  a new payment, a new block and a refused one, which changes no balance
  (`SteadySteps`). `PaymentRemovals` goes along its inputs and sums what they
  take: `Holdings` after each removal is `Holdings` before it less the value of
  the output it names. The same lemma, for all addresses, gives the supply and,
  for one, its balance.
* `ReloadAlwaysAgrees` strengthens `ReloadAgrees` to `Agrees`: the ledger that
  the replay ends with is the one the node holds, the outputs its blocks show
  included. A new block makes the stored chain longer by that block
  (`StoredMore`), while the blocks before it are written over in memory.
  `MoreReplay` shows that the replay of the longer chain is the replay of the
  shorter one, which `Agrees` says is the running ledger, and then that of the
  new block; and `ReplayIsUpdate` that the replay, which ignores errors, does
  to that block what `AddBlock` did, whose updates had none.

`ChainStoreProofs`, from `ChainStoreAssumption`:

* `TypeCorrect`, `AckedStaysDurable`, `Recoverable` (while no write has failed)
  and `Refinement` (`Spec => RefinesDurableChain`).
* The inductive invariant `IInv` adds what the properties leave open: the
  committed chain is linked by its headers down to genesis (`Linked`), the tip
  is its last block (`TipIsCommitted`), a running chain extends it or is a
  genesis block about to replace it after a misread tip (`ServingExtends`),
  which is newer than every block acknowledged so far (`TipIsNew`), a load has
  rebuilt a suffix of it and the cursor stands just before (`LoadingSuffix`),
  how far a save has come (`SaveProgress`), an acknowledged block has metadata
  (`AckedHasMetadata`), and while no write has failed every committed block is
  stored (`NoGap`). `AckedDurable` is not inductive without `ServingExtends`:
  `SaveChainTip` replaces the committed chain by the running one.
  `LoadedIsCommitted` is the heart of the refinement: the walk back from the
  tip ends exactly when the whole committed chain is rebuilt.

`MiningServerProofs`, from `MiningServerAssumption`:

* `TypeCorrect`, `ChannelsSound`, `SingleMinerSafe`, `SingleMinerCounts`.
* `IInv` adds that a goroutine about to append has made its block
  (`HoldsBlock`), that without an overlap one goroutine at most is alive
  (`OneAlive`), and that then the tip it validated against and the slice it has
  read are still current (`ReadsHold`). The last is what the missing lock would
  provide, and what an overlap breaks.
* `SingleMinerSafe` says that the chain stays linked and that two writers never
  end the process. It does not say that nothing ends it: `IndexPanic` and
  `ReaderRace` need one goroutine only.
* `NeverMinedTwice`, with overlaps too. Its invariant gives every submission one
  place: in the mempool, with one goroutine, or in one block. It is `PlacesOf`
  counted, and it needs that the slice a goroutine has read is a part of what was
  once the chain, for that is what its append brings back.

`StreamsProofs`, from `StreamsAssumption`:

* `TypeCorrect`, `ChannelsOpen`, `BlocksInOrder`, `NothingMissed`.
* A stream in the list, or in the list a notifier has before it, has its
  channel open; that a notifier holds its read lock is why the second does not
  change under it. Order needs what each notifier is about to send to lie
  beyond what it has sent, and what was missed to be counted place by place of
  the notifier's walk, not at its end. `BlocksInOrder` has two halves. With any
  number of miners a subscriber is told of a block once at most, and of none
  that was not appended and saved, since every append has a number of its own;
  that what it is told is on the chain in the chain's order holds while no two
  miners overlap, for then the slice a miner has read is still the chain.

`PeerSyncProofs`, from `PeerSyncAssumption`:

* `TypeCorrect`, `ChainsStayLinked`, `OneSyncAtATime`, `PendingStaysDistinct`.
* A chain stays linked since a block that a goroutine holds for later was decoded
  and cannot be valid. The flag needs which dial it was set by. For the pending
  transactions the slice a handler has read is a part of the list, and the
  broadcasts that have arrived and are not in it are still with a handler.

`QueriesProofs`, from `TextsAssumption`:

* `NeverMissed`, `GivenBackAsSent`, `PagesFit`, for any number of blocks and
  transactions, on whose list a query goes on while blocks are added.
* What carries them is what a query knows between two of its reads: that it
  will still find what it was going to (`GoesOnToFind`), that a hash it has
  named is still there (`HashStillThere`), that the height it has read is no
  more than the present one (`HeightsFit`), and that the blocks collected so
  far are the ones from `next` up to the end, but for those whose call failed
  (`PageSoFar`). The flattened list of transactions is shown to grow only at
  its end (`FlattenGrows`).

`PrimitivesProofs`, of the wallet database, from no assumption:

* `SavedStaysListed`, `NothingElseHidden`. The list has no address twice, and each
  step of a call knows what its earlier writes have left.

`PrimitivesProofs`, of the pure modules, from what their theorems assume and from
`ProofOfWorkAssumption`, `RetargetAssumption` and, for Merkle roots,
`MerkleAssumption` (a transaction is longer than two hashes):

* `BalancedVerifies` for signatures of any length, `FoundIsAccepted` for any
  injective hash and any number of nonces, `PaceIsFollowed` for chains of any
  length, `RootTells` for lists of ids of any length; `NewBlockIsAccepted`,
  `DifficultyIsPaced`, `RootsTellIds` state the last three for the properties
  that `parts` checks. `BalancedVerifies` says exactly which fresh signatures
  verify; the run `signature` shows that not all do.
* `RootTells` compares lists of ids that are as long as a hash, and either
  equally long or of ids that `NewTransaction` made (`Comparable`). It needs
  both: ids of other lengths can move bytes from one to the next, and a
  submitted id can be an inner node of another tree; the code checks neither.
  Two trees with one root then have one height (`SameHeight`: the nodes of a
  height are hashes of two nodes below, and no transaction is as short as
  that), and the proof goes down from the roots level by level (`AlikeBelow`).
  "The longer list repeats the end of the shorter" is not inductive; `Alike`
  adds that both fit a full tree of which the shorter one takes more than half.

`Facts` is what they share. Facts about recursive functions and folds
(`BitsOf`, the loop over the nonces, `FlattenSeq`, sums, the updates of a
block) need induction over data. The library's theorem on it has an operator as
parameter, so `Facts` proves `Induction` for a set of numbers instead, from the
well-foundedness of the naturals, and a theorem names the set of those for
which its statement holds; `RecursionExists` says that the function a recursive
definition names exists.

Only model-checked. Liveness (`LoadEnds`, `StopsForGood`, `DrainedWhileMining`,
`SyncEnds`, `NotifyEnds`, `StopEnds`), which needs fairness and ENABLED. Every
invariant and every action property that a run finds to hold is proved.

## 5. Where the code and its documents part

* **Double spend.** `README.md:22` and `:341` promise prevention. `AddBlock`
  checks signatures against the chain; `RemoveUTXO` closes the gap it makes, so a
  second transaction that names index 0 of the same two outputs removes the
  other one. Run `ledger_double_spend`.
* **A node that cannot start.** `cmd/node/main.go:144`. Dying between the tip and
  the metadata of the genesis block. Run `chain_store_genesis`.
* **Two miners.** `blockchain.go:329` verifies the previous hash, but without a
  lock; `server.go:279` starts a second goroutine while the first still works.
  Run `mining_overlap`.
* **A sync that adds nothing.** `README.md:33` promises automatic sync. Every
  block received is refused over the type JSON gave its transactions, and the
  sync reports success. Run `peer_sync_report`. `TestMessageBroadcast`
  (`network_test.go:168`) looks at what is sent, not at what is received. Nodes
  would also have to share a genesis block, which each makes for itself.

* **A signature that does not verify.** `TestSignAndVerify`
  (`wallet_test.go:78`) takes for granted that a fresh one does.
  `wallet.go:144` joins r and s without padding and `wallet.go:173` divides in
  the middle: an s a byte shorter than its r is refused, about one in 256, and
  with it the block. Run `signature`.
* **No best hash.** `TestGetBestBlockHash` (`server_test.go:104-110`) expects
  one. `server.go:131` asks for the block at `Height()`, one past the last, and
  answers with an error unless a block is added in between; `GetBlockchainInfo`
  then has no hash. Run `best_hash`.

Met while modelling and not a run:

* A failed block leaves traces. `README.md:289-291` orders validated, added,
  updated; the code updates first, so that a block that fails halfway is dropped
  and its first updates stay.
* Difficulty in mid-interval. `blockchain.go:25` says every 10 blocks; dying
  before `SaveDifficulty` of the block that closes an interval restarts with the
  old difficulty. And every failed `AddBlock` at that place adjusts once more.
* A wallet that pays itself from both outputs of one transaction always fails
  halfway, the second index having shifted; and after a shift a transaction may
  get the id of a confirmed one, as a second payment of nothing does. Its entry
  is then overwritten: what was left of it is lost, and what was spent of it
  can be spent again.
* `SendTransaction` never pays: `Sign` is given an empty map of previous
  transactions (`server.go:506`), so only an amount of 0 or less, which needs no
  input and which nothing refuses, gets through.
* `TestSubmitTransaction` (`server_test.go:143-174`) submits the id
  "test-tx-id" and expects an id back that is not empty. `Sscanf` finds no
  hexadecimal digit at its beginning, so the id is kept and answered as empty.
* A start that cannot read the tip begins a new chain beside the stored one
  (`blockchain.go:47-56`), which `README.md` does not tell of.
* A submitted transaction that names an output its transaction does not have
  ends the process when it is mined (`transaction.go:185`), and so may a
  `GetBalance` beside a block's update (`server.go:251`).
* Lists of transactions whose last ones repeat share a Merkle root, and so do
  lists of submitted ids whose bytes are cut in other places.
* A save cut short leaves a wallet that "wallet list" never shows and `Clear`
  never removes, until it is saved again.
* A dial during another sync is not retried, and a lost broadcast is not resent.
* A block that is appended and cannot be saved is on the chain of the running
  node, while the miner counts and announces nothing.
* The demo of `cmd/node`, killed before block 1 is saved, fails on every later
  run: its wallets are new each time and the genesis coins belong to the first.

## 6. Not modelled, and the plan

Done: `Ledger`, `ChainStore` with `DurableChain`, `MiningServer`, `PeerSync`,
`Streams`, `Queries`, `WalletStore`, the pure modules, and the proofs above.

Next, what the supply is where several payments wait: how much a shifted index can
make or lose, which needs a count of the entries that came into the set twice.

Not modelled:

* Elliptic-curve arithmetic, base58, hashing and LevelDB: libraries; a hash is
  modelled by the structure it identifies, a signature by what it covers.
* Generated code in `api/proto`, which is nearly half of the code's lines.
* Reads of one step with nothing to get wrong between (`GetBalance`, `GetUTXO`,
  `ListWallets`, `GetMiningInfo` and their pages), stubs, the ping stream, the
  page in `web/`, scripts, printing.
* What is left behind by a block that fails halfway: the runs and the theorem say
  when that happens (`FailsOnlyOnConflict`), not what memory is worth afterwards.
* The demo sequences of `cmd/node` and `cmd/node-p2p`: which payments they make.
* Torn reads: a data race may in Go show a slice half written. The models take
  each read and each write of a slice or an integer as one step, and of a map
  the chance that the runtime notices (`WriterRace`, `ReaderRace`).
* The application of a received block to the UTXO set
  (`network.go:451-468`), which no received block reaches.
