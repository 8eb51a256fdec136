------------------------------- MODULE Ledger -------------------------------
(***************************************************************************)
(* The in-memory ledger: internal/blockchain/blockchain.go with            *)
(* internal/utxo/utxo.go and internal/tx/transaction.go, called by one     *)
(* goroutine at a time, the way cmd/node and the package's tests call it.  *)
(*                                                                         *)
(* What is kept: which outputs a transaction names, who owns them, the     *)
(* order in which AddBlock checks, updates and appends, and the memory     *)
(* that the UTXO set shares with the blocks (difficulty: module Retarget). *)
(* Hashes are structural (an id is the content it is the hash of) and a    *)
(* signature is what it covers, the owners its inputs had when it was made,*)
(* and whether VerifySignature will divide its bytes into the two numbers  *)
(* it was put together from (module Signatures).                           *)
(***************************************************************************)
EXTENDS Integers, SequencesExt

CONSTANTS
    Addr,         \* wallet addresses (public-key hashes)
    Miners,       \* the addresses blocks are mined for
    Transfers,    \* the <<from, to>> pairs a caller asks to pay
    Amounts,      \* the amounts a caller asks to pay
    Reward,       \* value of a coinbase output (50 coins in the code)
    MaxHeight,    \* bound on the number of blocks, genesis included
    MaxPending,   \* bound on the created and not yet mined transactions
    MaxPayments   \* bound on the payments waiting or mined

ASSUME LedgerAssumption ==
    /\ Miners \subseteq Addr /\ Miners # {}
    /\ Transfers \subseteq Addr \X Addr
    /\ Amounts \subseteq Int
    /\ Reward \in Nat \ {0}
    /\ MaxHeight \in Nat \ {0}
    /\ MaxPending \in Nat
    /\ MaxPayments \in Nat

VARIABLES
    blocks,   \* bc.Blocks: the transactions of each, the genesis block first
    utxo,     \* bc.UTXOSet.UTXOs: id -> [outs, home]
    pending   \* transactions created by CreateTransaction and not yet mined

vars == <<blocks, utxo, pending>>

-----------------------------------------------------------------------------
(* Transactions.  An input names an output (counted from 1 here, from 0 in *)
(* the code) and the key that spends it; the id covers both and not the    *)
(* signature.  label is the "Block %d reward" text of a coinbase.          *)

NotCoinbase == -1

Hash(ins, outs, label) == [ins |-> ins, outs |-> outs, label |-> label]

NewTx(ins, outs, label) ==
    [id |-> Hash(ins, outs, label), outs |-> outs, signed |-> <<>>]

(* Not the code: the reward's text does not say which block.              *)
CoinbaseUnnumbered(to, label) ==
    NewTx(<<>>, <<[value |-> Reward, owner |-> to]>>, 0)

Coinbase(to, label) ==
    NewTx(<<>>, <<[value |-> Reward, owner |-> to]>>, label)

IsCoinbase(t) == t.id.label # NotCoinbase

(* Every confirmed transaction, in the order FindTransaction scans them.   *)
ChainTxs(chain) == FlattenSeq(chain)

Confirmed == Range(ChainTxs(blocks))

FindTransaction(id) ==
    LET txs == ChainTxs(blocks)
    IN  txs[Min({n \in DOMAIN txs : txs[n].id = id})]

(* The payments among them: each block also has one coinbase.             *)
Payments == Len(ChainTxs(blocks)) - Len(blocks)

(* The owner of the output an input names, as the block records it now.    *)
RecordedOwner(in) == FindTransaction(in.tx).outs[in.idx].owner

(* What input k signs: TrimmedCopy, without any signature or key, and then *)
(* the owner of the output that is spent, as the block shows it at this    *)
(* moment.  The copy is the transaction's own, so the owner tells it.      *)
SignedData(t, k) == RecordedOwner(t.id.ins[k])

(* Each signature is made of two random numbers, and splits again or not.  *)
Sign(t, splits) ==
    [t EXCEPT !.signed = [k \in DOMAIN t.id.ins |->
                            [covers |-> SignedData(t, k), splits |-> splits[k]]]]

(* Verify rebuilds the signed bytes.                                       *)
Verify(t) ==
    \A k \in DOMAIN t.id.ins :
        t.signed[k] = [covers |-> SignedData(t, k), splits |-> TRUE]

(* A transaction whose inputs name one that no block has is refused.       *)
VerifyTransaction(t) ==
    /\ \A k \in DOMAIN t.id.ins : \E c \in Confirmed : c.id = t.id.ins[k].tx
    /\ Verify(t)

-----------------------------------------------------------------------------
(* The UTXO set.  An entry's slice shares its array with the transaction   *)
(* it was taken from; home is that transaction's place in the chain, and   *)
(* Nowhere when its block was never appended.                              *)

Nowhere == <<0, 0>>

(* A ledger under update: the set, the chain whose arrays it shares, and   *)
(* whether every call so far returned without an error.                    *)
World(u, chain) == [ok |-> TRUE, utxo |-> u, chain |-> chain]

(* Not the code: always the first output goes.                             *)
KeptTail(outs, in) == Tail(outs)

(* append(outputs[:i], outputs[i+1:]...): the outputs after the removed    *)
(* one move up, written over the front of the shared array, whose last     *)
(* cell stays as it was.                                                   *)
Kept(outs, in) == RemoveAt(outs, in.idx)

(* Not the code: the array is cut with the slice.                         *)
OverwriteAll(array, slice) == slice

Overwrite(array, slice) ==
    slice \o SubSeq(array, Len(slice) + 1, Len(array))

(* Not the code: the last index is out of range.                          *)
HasOutputBefore(u, in) == in.tx \in DOMAIN u /\ in.idx < Len(u[in.tx].outs)

HasOutput(u, in) == in.tx \in DOMAIN u /\ in.idx <= Len(u[in.tx].outs)

(* Not the code: an entry with no outputs left stays.                     *)
SetEntryOnly(u, id, outs) == [u EXCEPT ![id].outs = outs]

(* An entry with no outputs left is deleted.                               *)
SetEntry(u, id, outs) ==
    IF outs = <<>>
    THEN Restrict(u, DOMAIN u \ {id})
    ELSE [u EXCEPT ![id].outs = outs]

(* Not the code: spent outputs stay in the set.                           *)
RemoveNothing(w, in) == w

RemoveUTXO(w, in) ==
    IF ~w.ok \/ ~HasOutput(w.utxo, in)
    THEN [w EXCEPT !.ok = FALSE]
    ELSE LET home == w.utxo[in.tx].home
             kept == Kept(w.utxo[in.tx].outs, in)
         IN  [ok    |-> TRUE,
              utxo  |-> SetEntry(w.utxo, in.tx, kept),
              chain |-> IF home = Nowhere
                        THEN w.chain
                        ELSE [w.chain EXCEPT ![home[1]][home[2]].outs =
                                Overwrite(@, kept)]]

AddUTXO(w, id, entry) ==
    [w EXCEPT !.utxo = [k \in DOMAIN w.utxo \cup {id} |->
                          IF k = id THEN entry ELSE w.utxo[k]]]

(* UTXOSet.Update of the transaction at place at of the chain: its inputs  *)
(* one by one, stopping at the first error, and then its outputs.          *)
Update(w, at) ==
    LET t     == w.chain[at[1]][at[2]]
        spent == FoldLeft(RemoveUTXO, w, t.id.ins)
    IN  IF spent.ok
        THEN AddUTXO(spent, t.id,
                     [outs |-> spent.chain[at[1]][at[2]].outs, home |-> at])
        ELSE spent

(* All transactions of block h, in order, stopping at the first error.     *)
UpdateBlock(w, h) ==
    FoldLeft(LAMBDA x, i : IF x.ok THEN Update(x, <<h, i>>) ELSE x,
             w, [i \in DOMAIN w.chain[h] |-> i])

Owned(outs, a) == {i \in DOMAIN outs : outs[i].owner = a}

(* What of a list of outputs belongs to the addresses in who.              *)
Worth(outs, who) ==
    SumFunction([i \in DOMAIN outs |->
        IF outs[i].owner \in who THEN outs[i].value ELSE 0])

Holdings(u, who) == SumFunction([id \in DOMAIN u |-> Worth(u[id].outs, who)])

GetBalance(u, a) == Holdings(u, {a})

(* The inputs that would spend what the set has for address a.             *)
Spendable(a) ==
    UNION {[tx : {id}, idx : Owned(utxo[id].outs, a), key : {a}] :
           id \in DOMAIN utxo}

(* The orders in which a scan may meet them: that of a map's keys is picked *)
(* by the runtime, each time anew; the outputs of one transaction come     *)
(* together, by rising index.                                              *)
Scans(inputs) ==
    {s \in SetToSeqs(inputs) :
        \A i, k \in DOMAIN s : i < k /\ s[i].tx = s[k].tx =>
            s[i].idx < s[k].idx /\ \A j \in i..k : s[j].tx = s[i].tx}

ValueOf(inputs) ==
    SumFunction([in \in inputs |-> utxo[in.tx].outs[in.idx].value])

(* A scan of these inputs may begin like this.                             *)
Begins(met, inputs) ==
    \A in \in inputs \ Range(met) : \A k \in DOMAIN met :
        met[k].tx = in.tx => met[k].idx < in.idx /\ Last(met).tx = in.tx

(* What a scan has met when it has found enough, and before that it had    *)
(* not: nothing at all, if 0 or less is asked for.                         *)
FindSpendableOutputs(a, amount) ==
    LET Enough(inputs) == ValueOf(inputs) >= amount IN
    {found \in SUBSET Spendable(a) :
        /\ Enough(found)
        /\ found = {} \/ \E last \in found : ~Enough(found \ {last})
        /\ \E met \in Scans(found) :
              /\ Begins(met, Spendable(a))
              /\ \A n \in 0..(Len(met) - 1) : ~Enough(Range(SubSeq(met, 1, n)))}

-----------------------------------------------------------------------------
(* createGenesisBlock: one coinbase, its output put in the set directly.   *)
Init ==
    /\ \E m \in Miners :
          LET genesis == <<Coinbase(m, 0)>>
          IN  /\ blocks = <<genesis>>
              /\ utxo = UpdateBlock(World(<<>>, <<genesis>>), 1).utxo
    /\ pending = <<>>

(* CreateTransaction: pick outputs, in a scan of the set and in another of *)
(* what it has found, pay the recipient, return the change, sign.  Nothing *)
(* is reserved, and no amount is refused: 0 or less needs no inputs.  When *)
(* the chosen outputs belong to a transaction no block has, signing fails  *)
(* and nothing changes.                                                    *)
CreateTransaction(from, to, amount) ==
    /\ Len(pending) < MaxPending /\ Len(blocks) < MaxHeight
    /\ Len(pending) + Payments < MaxPayments
    /\ \E found \in FindSpendableOutputs(from, amount) : \E ins \in Scans(found) :
          LET change == ValueOf(found) - amount
              outs   == <<[value |-> amount, owner |-> to]>> \o
                        (IF change > 0
                         THEN <<[value |-> change, owner |-> from]>>
                         ELSE <<>>)
          IN  /\ \A k \in DOMAIN ins : \E c \in Confirmed : c.id = ins[k].tx
              /\ \E splits \in [DOMAIN ins -> BOOLEAN] :
                    pending' = Append(pending,
                                      Sign(NewTx(ins, outs, NotCoinbase), splits))
    /\ UNCHANGED <<blocks, utxo>>

(* The block AddBlock builds from the first n pending transactions.        *)
Candidate(n, miner) ==
    <<Coinbase(miner, Len(blocks))>> \o SubSeq(pending, 1, n)

(* Not the code: the coinbase is left out of the updates.                 *)
UpdatedButCoinbase(block) ==
    FoldLeft(LAMBDA w, i : Update(w, <<Len(blocks) + 1, i>>),
             World(utxo, Append(blocks, block)),
             [i \in 1..(Len(block) - 1) |-> i + 1])

(* The ledger after the UTXO updates of AddBlock.                          *)
Updated(block) ==
    UpdateBlock(World(utxo, Append(blocks, block)), Len(blocks) + 1)

(* Not the code: the transactions not handed over are lost.               *)
HandOverAll(n) == Len(blocks) < MaxHeight /\ pending' = <<>>

(* The caller hands over the first n transactions and keeps the rest.      *)
HandOver(n) ==
    /\ Len(blocks) < MaxHeight
    /\ pending' = SubSeq(pending, n + 1, Len(pending))

AllVerify(n) == \A i \in 1..n : VerifyTransaction(pending[i])

(* AddBlock returns "invalid transaction": nothing has been touched yet.   *)
RejectBlock(n) ==
    /\ HandOver(n)
    /\ ~AllVerify(n)
    /\ UNCHANGED <<blocks, utxo>>

(* AddBlock succeeds: the block is appended after its updates.             *)
AddBlock(n, miner) ==
    LET w == Updated(Candidate(n, miner))
    IN  /\ HandOver(n)
        /\ AllVerify(n)
        /\ w.ok
        /\ utxo' = w.utxo
        /\ blocks' = w.chain

(* AddBlock returns "failed to update UTXO set": the block is dropped, the *)
(* updates made before the failing one stay.                               *)
FailBlock(n, miner) ==
    LET w == Updated(Candidate(n, miner))
    IN  /\ HandOver(n)
        /\ AllVerify(n)
        /\ ~w.ok
        /\ utxo' = [id \in DOMAIN w.utxo |->
                      IF w.utxo[id].home[1] > Len(blocks)
                      THEN [w.utxo[id] EXCEPT !.home = Nowhere]
                      ELSE w.utxo[id]]
        /\ blocks' = Front(w.chain)

Next ==
    \/ \E p \in Transfers, amount \in Amounts :
          CreateTransaction(p[1], p[2], amount)
    \/ \E n \in 0..Len(pending) : RejectBlock(n)
    \/ \E n \in 0..Len(pending), m \in Miners : AddBlock(n, m) \/ FailBlock(n, m)

Spec == Init /\ [][Next]_vars

-----------------------------------------------------------------------------
(* Type invariant. *)

Output == [value : Int, owner : Addr]

Signature == [covers : Addr, splits : BOOLEAN]

(* What every transaction of the model looks like, with one signature for  *)
(* each input.                                                             *)
IsTx(t) ==
    /\ DOMAIN t = {"id", "outs", "signed"}
    /\ DOMAIN t.id = {"ins", "outs", "label"}
    /\ Range(t.outs) \cup Range(t.id.outs) \subseteq Output
    /\ Range(t.signed) \subseteq Signature
    /\ Len(t.signed) = Len(t.id.ins)
    /\ t.id.label \in {NotCoinbase} \cup 0..(MaxHeight - 1)

(* Shapes and ranges of the variables, with the sharing between the     *)
(* UTXO set and the chain: an entry is never empty, and it is the front of *)
(* the outputs its home transaction shows (utxo.go:25, utxo.go:43).        *)
TypeOK ==
    /\ Len(blocks) \in 1..MaxHeight
    /\ \A t \in Confirmed : IsTx(t)
    /\ Len(pending) <= MaxPending
    /\ \A t \in Range(pending) : IsTx(t)
    /\ \A id \in DOMAIN utxo :
          /\ utxo[id].outs # <<>>
          /\ utxo[id].home # Nowhere =>
                LET t == blocks[utxo[id].home[1]][utxo[id].home[2]]
                IN  t.id = id /\ IsPrefix(utxo[id].outs, t.outs)

-----------------------------------------------------------------------------
(* What holds however the calls are ordered. *)

(* VerifyTransaction never indexes past an output slice (transaction.go:185*)
(* has no bounds check): whatever was spent since a transaction was        *)
(* created, the blocks still show an output at each index it names.        *)
VerifyNeverPanics ==
    \A t \in Range(pending) : \A in \in Range(t.id.ins) :
        /\ \E c \in Confirmed : c.id = in.tx
        /\ in.idx \in DOMAIN FindTransaction(in.tx).outs

(* The transactions a step hands to AddBlock, and their inputs.            *)
HandedInputs ==
    LET n == Len(pending) - Len(pending')
    IN  FlattenSeq([i \in 1..n |-> pending[i].id.ins])

(* AddBlock fails halfway (blockchain.go:236) only over a real conflict: an *)
(* input whose output has left the set since the transaction was created,  *)
(* or two inputs that name outputs of one transaction, the second of which *)
(* the first removal shifts.                                               *)
FailsOnlyOnConflict ==
    [][Len(pending') < Len(pending) /\ Len(blocks') = Len(blocks) /\ utxo' # utxo =>
          \/ \E in \in Range(HandedInputs) :
                in.tx \notin DOMAIN utxo \/ in.idx > Len(utxo[in.tx].outs)
          \/ ~IsInjective([k \in DOMAIN HandedInputs |-> HandedInputs[k].tx])]_vars

(* A reward, or what spends something, and only outputs that have no other *)
(* beside them: no index it names can shift.                               *)
StandsAlone(id) ==
    /\ id.label = NotCoinbase => id.ins # <<>>
    /\ \A in \in Range(id.ins) : Len(in.tx.outs) = 1

(* So do these, and all they descend from is among them.                   *)
Unshifted(ids) ==
    \A id \in ids : StandsAlone(id) /\ \A in \in Range(id.ins) : in.tx \in ids

(* The id of a confirmed transaction is taken again only in two ways.      *)
(* A payment of 0 or less, which spends nothing, is made twice.  Or an     *)
(* index may have shifted, in what it spends or in what that descends      *)
(* from: by the same payment made twice of an output that has another      *)
(* beside it, which puts the spent outputs of the first one back and so    *)
(* lets what spent them come again too, even when the block of the second  *)
(* was dropped.  Rewards, numbered, never clash.                           *)
SameIdOnlyAfterShift ==
    \A g, h \in DOMAIN blocks : \A i \in DOMAIN blocks[g], j \in DOMAIN blocks[h] :
        LET id == blocks[g][i].id
        IN  blocks[h][j].id = id /\ <<g, i>> # <<h, j>> /\ StandsAlone(id) =>
                ~\E ids \in SUBSET {t.id : t \in Confirmed} : id \in ids /\ Unshifted(ids)

-----------------------------------------------------------------------------
(* What holds when each transaction is mined before the next is created,   *)
(* as cmd/node does, for a positive amount, and nobody pays themselves.    *)

(* Money is neither made nor lost: the set holds exactly one reward for    *)
(* each block, through spending, change and index shifting.                *)
SupplyConserved == Holdings(utxo, Addr) = Reward * Len(blocks)

(* A block comes back from disk with the outputs it was saved with ...     *)
AsCreated(t) == [t EXCEPT !.outs = t.id.outs]

StoredChain ==
    [h \in DOMAIN blocks |->
        [i \in DOMAIN blocks[h] |-> AsCreated(blocks[h][i])]]

(* ... and loadBlockchain replays Update over them, its errors ignored.    *)
Reloaded ==
    FoldLeft(LAMBDA w, h :
               FoldLeft(LAMBDA x, i : [Update(x, <<h, i>>) EXCEPT !.ok = TRUE],
                        w, [i \in DOMAIN w.chain[h] |-> i]),
             World(<<>>, StoredChain),
             [h \in DOMAIN blocks |-> h])

(* A restart cannot be noticed: replaying the saved blocks gives the UTXO  *)
(* set the running node holds, and the same outputs in the blocks.         *)
ReloadAgrees == Reloaded.utxo = utxo /\ Reloaded.chain = blocks

(* What block b pays to a, and what a gave up to fund its transactions.    *)
Received(b, a) == SumFunction([j \in DOMAIN b |-> Worth(b[j].id.outs, {a})])

Given(b, a) ==
    SumFunction([j \in DOMAIN b |->
        IF ~IsCoinbase(b[j]) /\ Head(b[j].id.ins).key = a
        THEN Worth(b[j].id.outs, Addr) ELSE 0])

(* Each block moves exactly what its transactions say: every balance       *)
(* changes by what the block pays the address less what the address itself *)
(* signed away, so that index shifting never takes someone else's output.  *)
PaysExactly ==
    [][Len(blocks') > Len(blocks) =>
          \A a \in Addr :
             GetBalance(utxo', a) = GetBalance(utxo, a)
                + Received(Last(blocks'), a) - Given(Last(blocks'), a)]_vars

(* A transaction handed to AddBlock ends up in the block, unless one of its*)
(* signatures is divided in the wrong place: AddBlock refuses or drops     *)
(* nothing else that CreateTransaction has just made.                      *)
NothingDropped ==
    [][Len(pending') < Len(pending) =>
          \/ Head(pending) \in {AsCreated(t) : t \in Range(Last(blocks'))}
          \/ \E signature \in Range(Head(pending).signed) : ~signature.splits]_vars

-----------------------------------------------------------------------------
(* What the documentation promises and the code does not keep. *)

(* README.md:22 and README.md:341 name double-spend prevention: no two     *)
(* inputs of one block name the same output.                               *)
NoDoubleSpend ==
    \A h \in DOMAIN blocks :
        LET ins == FlattenSeq([i \in DOMAIN blocks[h] |-> blocks[h][i].id.ins])
        IN  IsInjective(ins)
=============================================================================
