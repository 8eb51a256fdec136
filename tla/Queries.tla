------------------------------- MODULE Queries -------------------------------
(***************************************************************************)
(* What callers are told: the query handlers of internal/grpc/server.go    *)
(* and the pages of cmd/web-server that put several of them together,      *)
(* while transactions are submitted and blocks are mined.                  *)
(*                                                                         *)
(* A handler holds no lock between two reads of the chain, and the web     *)
(* server calls handlers one after the other, so what a call has read may  *)
(* be old when it reads on.  A scan goes up to the height read before it;  *)
(* the chain only grows, so the scan itself is one step, at the moment of  *)
(* its last read.  One query at a time is followed; queries change         *)
(* nothing, so more of them would not matter to it.                        *)
(***************************************************************************)
EXTENDS Texts, SequencesExt

CONSTANTS
    ServerAddress, \* addresses a wallet of the server may get
    MaxSubmitted,  \* bound on the transactions that reach the mempool
    MaxChain,      \* bound on the blocks of the chain, genesis included
    MaxCount       \* bound on the number of blocks the explorer asks for

VARIABLES
    chain,     \* bc.Blocks: the transactions of each block, coinbase left out
    mempool,   \* s.mempool
    drained,   \* what the miner has taken from it, while it makes a block
    mining,    \* the miner is in AddBlock
    submitted, \* the messages that have been submitted
    serverWallets, \* the addresses of s.wallets
    call       \* the query that is followed

ledger == <<chain, mempool, drained, mining, submitted, serverWallets>>
queryVars == <<ledger, call>>

-----------------------------------------------------------------------------
(* The chain as the handlers read it. *)

(* GetBlockHeight, and bc.Height in the other handlers.                    *)
Height == Len(chain)

(* bc.GetBlock(i), counted from 0: an error when there is no such block.   *)
HasBlock(i) == i >= 0 /\ i < Len(chain)

(* for i := 0; i <= height: one place more than there were blocks when the *)
(* height was read, which is skipped if there is still no block there.     *)
Scanned(height) == SubSeq(chain, 1, IF height < Height THEN height + 1 ELSE Height)

(* The transactions in the order in which a scan meets them.               *)
OnChain(height) == FlattenSeq(Scanned(height))

(* The places of a list at which a loop finds an id ...                    *)
Matches(list, id) == {i \in DOMAIN list : Show(list[i].id) = id}

(* ... of which it returns the first.                                      *)
FirstMatch(list, id) ==
    LET places == Matches(list, id)
    IN IF places = {} THEN <<>> ELSE <<TxToProto(list[Min(places)])>>

(* blockToProto: the height is found by another scan, which meets the      *)
(* block at its place, since a chain has no hash twice.  Every block has a *)
(* coinbase.                                                               *)
BlockToProto(i) == [height |-> i, transactions |-> 1 + Len(chain[i + 1])]

(* What GetBlockByHeight answers: the block, or nothing, an error.         *)
BlockAt(i) == IF HasBlock(i) THEN <<BlockToProto(i)>> ELSE <<>>

(* Not the code: the chain is searched before the mempool.                 *)
PlacesSwapped(height) == <<OnChain(height), mempool>>

(* Where GetTransaction looks, in this order.                              *)
Places(height) == <<mempool, OnChain(height)>>

(* No call has been made.                                                  *)
NoCall ==
    [op |-> "none", at |-> "idle", id |-> EmptyText, count |-> 0, height |-> 0,
     next |-> 0, top |-> 0, blocks |-> <<>>, answer |-> <<>>, known |-> FALSE,
     taken |-> FALSE, failed |-> {}]

Ready == call.at \in {"idle", "answered", "refused"}

Begin(op, at) == [NoCall EXCEPT !.op = op, !.at = at]

Answered(list) == [call EXCEPT !.at = "answered", !.answer = list]

-----------------------------------------------------------------------------
QueriesInit ==
    /\ chain = << <<>> >>
    /\ mempool = <<>> /\ drained = <<>> /\ mining = FALSE
    /\ submitted = <<>> /\ serverWallets = {}
    /\ call = NoCall

(* SubmitTransaction: whatever the message holds, it is accepted.          *)
SubmitTransaction(message) ==
    /\ Len(submitted) < MaxSubmitted
    /\ submitted' = Append(submitted, message)
    /\ mempool' = Append(mempool, ProtoToTx(message))
    /\ UNCHANGED <<chain, drained, mining, serverWallets, call>>

(* mineBlocks copies the mempool, clears it and calls AddBlock ...  It may  *)
(* do so while a call waits for the lock; taken records whether the call   *)
(* would have found in the mempool what it asks for.                       *)
Drain ==
    /\ ~mining
    /\ Len(chain) < MaxChain
    /\ mining' = TRUE
    /\ drained' = mempool
    /\ mempool' = <<>>
    /\ call' = [call EXCEPT !.taken =
                   @ \/ (call.at = "asked" /\ Matches(mempool, call.id) # {})]
    /\ UNCHANGED <<chain, submitted, serverWallets>>

(* ... which adds the block, or fails before or after that.                *)
AddMined ==
    /\ mining
    /\ chain' \in {chain, Append(chain, drained)}
    /\ mining' = FALSE
    /\ drained' = <<>>
    /\ UNCHANGED <<mempool, submitted, serverWallets, call>>

-----------------------------------------------------------------------------
(* The wallets of the server. *)

(* The address of a new random key is one that nobody has.                 *)
IsNew(a) == a \notin serverWallets

(* What GetWallet finds.                                                   *)
HasWallet(a) == a \in serverWallets

CreateWallet(a) ==
    /\ IsNew(a)
    /\ serverWallets' = serverWallets \cup {a}
    /\ UNCHANGED <<chain, mempool, drained, mining, submitted, call>>

(* The inputs that FindSpendableOutputs may give for an amount that can be *)
(* paid: it takes outputs until they reach it, none for 0 or less, which   *)
(* nothing refuses.                                                        *)
InputChoices(amount) == IF amount <= 0 THEN {<<>>} ELSE [1..1 -> Hex]

(* DecodeAddress: any text that is no address fails its checksum.          *)
DecodeAddress(to) == to \in ServerAddress

(* Sign looks the transaction of every input up in the map it is given,    *)
(* and SendTransaction gives it an empty one.                              *)
SignAll(inputs) == inputs = <<>>

(* SendTransaction: whoever is not in the wallets is refused, and so is    *)
(* what cannot be paid, addressed or signed.  The id is a hash.            *)
SendTransaction(from, to, amount) ==
    /\ Len(submitted) < MaxSubmitted
    /\ \E inputs \in InputChoices(amount), id \in Hex :
          IF HasWallet(from) /\ DecodeAddress(to) /\ SignAll(inputs)
          THEN /\ submitted' = Append(submitted, [id |-> Lower(id), input |-> EmptyText])
               /\ mempool' = Append(mempool, [id |-> <<id>>, input |-> inputs])
          ELSE UNCHANGED <<submitted, mempool>>
    /\ UNCHANGED <<chain, drained, mining, serverWallets, call>>

-----------------------------------------------------------------------------
(* GetTransaction and GetMempool. *)

(* Is the transaction in the mempool or on the chain?                      *)
Known(id) == Matches(mempool, id) # {} \/ Matches(OnChain(Height), id) # {}

(* The call comes in, and may have to wait for the lock of the mempool.    *)
AskTransaction(id) ==
    /\ Ready
    /\ call' = [Begin("GetTransaction", "asked") EXCEPT !.id = id, !.known = Known(id)]
    /\ UNCHANGED ledger

(* The first look, at the mempool, under its lock.                         *)
LookUp ==
    LET found == FirstMatch(Places(Height)[1], call.id)
    IN  /\ call.at = "asked"
        /\ call' = IF found = <<>> THEN [call EXCEPT !.at = "height"]
                   ELSE Answered(found)
        /\ UNCHANGED ledger

(* The second look, at the chain.                                          *)
LookUpNext ==
    /\ call.op = "GetTransaction" /\ call.at = "scan"
    /\ call' = Answered(FirstMatch(Places(call.top)[2], call.id))
    /\ UNCHANGED ledger

(* What GetMempool answers, under the lock: all of it.                     *)
Pending == [i \in DOMAIN mempool |-> TxToProto(mempool[i])]

(* GetMempool, and the explorer's page of it.                              *)
GetMempool ==
    /\ Ready
    /\ call' = [Begin("GetMempool", "answered") EXCEPT !.answer = Pending]
    /\ UNCHANGED ledger

-----------------------------------------------------------------------------
(* GetBlockchainInfo, GetBestBlockHash and the blocks. *)

(* A handler that scans the chain reads the height first.                  *)
ReadTop ==
    /\ call.at = "height"
    /\ call' = [call EXCEPT !.at = "scan", !.top = Height]
    /\ UNCHANGED ledger

(* The height is read, and then the block at that place.                   *)
ReadHeight(op) ==
    /\ Ready
    /\ call' = [Begin(op, "best") EXCEPT !.height = Height]
    /\ UNCHANGED ledger

(* The best block, if there is a block at that place by now: GetBlock      *)
(* counts from 0, and the height is how many there are.                    *)
ReadBest ==
    /\ call.at = "best"
    /\ call' = [call EXCEPT
                  !.at = IF call.op = "GetBlockchainInfo" THEN "height" ELSE "answered",
                  !.blocks = BlockAt(call.height)]
    /\ UNCHANGED ledger

(* The transactions in a list of blocks.                                   *)
Total(blocks) == Len(blocks) + Len(FlattenSeq(blocks))

(* getTotalTransactions.                                                   *)
CountTransactions ==
    /\ call.op = "GetBlockchainInfo" /\ call.at = "scan"
    /\ call' = [call EXCEPT !.at = "answered", !.count = Total(Scanned(call.top))]
    /\ UNCHANGED ledger

(* GetBlockByHash, for the hash of the block at place i, if there is one.  *)
AskHash(i) ==
    /\ Ready
    /\ call' = [Begin("GetBlockByHash", "height") EXCEPT !.next = i, !.known = HasBlock(i)]
    /\ UNCHANGED ledger

FindHash ==
    /\ call.op = "GetBlockByHash" /\ call.at = "scan"
    /\ call' = [call EXCEPT !.at = "answered",
                            !.blocks = IF call.next < Len(Scanned(call.top))
                                       THEN BlockAt(call.next) ELSE <<>>]
    /\ UNCHANGED ledger

(* GetBlockByHeight, and the explorer's page of a block.                   *)
GetBlockByHeight(i) ==
    /\ Ready
    /\ call' = [Begin("GetBlockByHeight", "answered") EXCEPT !.blocks = BlockAt(i)]
    /\ UNCHANGED ledger

-----------------------------------------------------------------------------
(* The explorer's page of recent blocks. *)

(* The web server asks for the height, and goes down from there ...        *)
AskHeight(count) ==
    /\ Ready
    /\ call' = [Begin("RecentBlocks", "fetch") EXCEPT
                  !.count = count, !.height = Height, !.next = Height]
    /\ UNCHANGED ledger

(* ... unless that call fails already: the page is an error.               *)
AskHeightFails ==
    /\ Ready
    /\ call' = Begin("RecentBlocks", "refused")
    /\ UNCHANGED ledger

Lowest == IF call.height - call.count < 0 THEN 0 ELSE call.height - call.count

(* Not the code: an error ends the page.                                   *)
FetchBlockOrStop ==
    LET i == call.next IN
    /\ call.op = "RecentBlocks" /\ call.at = "fetch"
    /\ call' = [call EXCEPT
                  !.blocks = @ \o BlockAt(i),
                  !.next = i - 1,
                  !.at = IF HasBlock(i) /\ i > Lowest THEN "fetch" ELSE "answered"]
    /\ UNCHANGED ledger

(* ... to the lowest block of the page, skipping what GetBlockByHeight     *)
(* does not find.                                                          *)
FetchBlock ==
    LET i == call.next IN
    /\ call.op = "RecentBlocks" /\ call.at = "fetch"
    /\ call' = [call EXCEPT
                  !.blocks = @ \o BlockAt(i),
                  !.next = i - 1,
                  !.at = IF i > Lowest THEN "fetch" ELSE "answered"]
    /\ UNCHANGED ledger

(* A call that breaks, or comes after the ten seconds of the page are      *)
(* over, skips its block in the same way.                                  *)
FetchFails ==
    LET i == call.next IN
    /\ call.op = "RecentBlocks" /\ call.at = "fetch"
    /\ call' = [call EXCEPT
                  !.failed = @ \cup {i},
                  !.next = i - 1,
                  !.at = IF i > Lowest THEN "fetch" ELSE "answered"]
    /\ UNCHANGED ledger

-----------------------------------------------------------------------------
(* The ids that callers ask for.                                           *)
Asked == {m.id : m \in Messages} \cup {Lower(bytes) : bytes \in Hex}

Caller ==
    \/ \E id \in Asked : AskTransaction(id)
    \/ LookUp \/ LookUpNext \/ GetMempool \/ ReadTop
    \/ \E op \in {"GetBlockchainInfo", "GetBestBlockHash"} : ReadHeight(op)
    \/ ReadBest \/ CountTransactions
    \/ \E i \in 0..MaxChain : AskHash(i) \/ GetBlockByHeight(i)
    \/ FindHash
    \/ \E count \in 1..MaxCount : AskHeight(count)
    \/ AskHeightFails \/ FetchBlock \/ FetchFails

QueriesNext ==
    \/ \E message \in Messages : SubmitTransaction(message)
    \/ \E a \in ServerAddress : CreateWallet(a)
    \/ \E from \in ServerAddress, to \in ServerAddress \cup {"no address"},
          amount \in -1..1 :
          SendTransaction(from, to, amount)
    \/ Drain \/ AddMined
    \/ Caller

QueriesSpec == QueriesInit /\ [][QueriesNext]_queryVars

-----------------------------------------------------------------------------
(* Nobody is told "not found" of a transaction that was in the mempool or  *)
(* on the chain when GetTransaction was called, though the miner may move  *)
(* it from the one to the other between the two looks: unless the miner    *)
(* took it out of the mempool before the first look, and the second came   *)
(* before AddBlock was done.  Nor is anybody told so of a block that was   *)
(* on the chain when GetBlockByHash was called.                            *)
NotFoundOnlyIfUnknown ==
    call.at = "answered" =>
        /\ call.op = "GetTransaction" /\ call.answer = <<>> => ~call.known \/ call.taken
        /\ call.op = "GetBlockByHash" /\ call.blocks = <<>> => ~call.known

(* What is answered is what was submitted: a transaction that is given is  *)
(* one that a caller submitted, with the same bytes in every field, in     *)
(* lower case, whatever followed them in the text; and it is the one that  *)
(* was asked for.  What SendTransaction refuses does not appear.           *)
GivenFor(shown, text) == Scan(shown) = Scan(text) /\ ~shown.upper /\ shown.rest = "none"

AnsweredAsSubmitted ==
    \A i \in DOMAIN call.answer :
        LET t == call.answer[i]
        IN  /\ call.op = "GetTransaction" => t.id = call.id
            /\ \E m \in ToSet(submitted) :
                   GivenFor(t.id, m.id) /\ GivenFor(t.input, m.input)

(* The blocks of a page follow each other downwards, from the newest there *)
(* was when the height was read, or the one after it, to as many as were   *)
(* asked for or to the genesis block, and none is missing but those that a *)
(* call of the page's own failed for: an off-by-one in the first place     *)
(* asked for is made up for by the last.  A best block that is named has   *)
(* been added since the height was read, and the total counts the blocks   *)
(* up to the height that is given with it, at least.                       *)
BlocksFit ==
    LET page == call.blocks
        h(i) == page[i].height
    IN
    /\ call.op = "RecentBlocks" /\ call.at = "answered" =>
          /\ \A i \in 1..Len(page) : h(i) \in Lowest..call.height
          /\ \A i \in 2..Len(page) : h(i) < h(i - 1)
          /\ \A k \in Lowest..(call.height - 1) :
                k \in call.failed \/ \E i \in 1..Len(page) : h(i) = k
    /\ call.op \in {"GetBlockchainInfo", "GetBestBlockHash"} =>
          \A i \in DOMAIN page : h(i) = call.height /\ HasBlock(h(i))
    /\ call.op = "GetBlockchainInfo" /\ call.at = "answered" =>
          /\ call.count >= Total(SubSeq(chain, 1, call.height))
          /\ call.count <= Total(chain)

-----------------------------------------------------------------------------
(* What a test expects and the code does not do: GetBestBlockHash gives a  *)
(* hash (server_test.go:108).                                              *)
BestHashIsGiven ==
    call.op = "GetBestBlockHash" /\ call.at = "answered" => call.blocks # <<>>
=============================================================================
