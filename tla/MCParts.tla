------------------------------ MODULE MCParts ------------------------------
(* One instance for TLC of the parts that stand alone: the ledger, the     *)
(* queries and the wallet database, of which the one that part names runs, *)
(* and the algorithms, of which each input is an initial state.            *)
EXTENDS MCLedger, Queries, WalletStore, Algorithms

VARIABLE part

-----------------------------------------------------------------------------
(* Transactions of three contents, and their ids.                          *)
Contents == {<<x, x, x>> : x \in {a, b, c}}

IdsOf(letters) == {DoubleHashBytes(<<x, x, x>>) : x \in letters}

ListsOf(ids, lengths) == UNION {[1..n -> ids] : n \in lengths}

(* Ids that come with a submission may also be a node of the tree, random  *)
(* bytes as long as a hash, longer, or none at all.                        *)
OddIds ==
    IdsOf({a, b})
        \cup {DoubleHash(DoubleHashBytes(<<a, a, a>>), DoubleHashBytes(<<b, b, b>>)),
              <<a>>, <<a, b>>, <<>>}

(* Lists of up to five ids, with and without repeats.                      *)
SomeIds ==
    ListsOf(IdsOf({a, b}), 0..5) \cup ListsOf(IdsOf({a, b, c}), 1..4)
        \cup ListsOf(OddIds, 1..2)

(* Well-formed texts, and others: in upper case with something after the   *)
(* bytes, without any, and with half a pair at the end.                    *)
Text(bytes, upper, rest) == [bytes |-> bytes, upper |-> upper, rest |-> rest]

SomeMessages ==
    {[id |-> Text("6a", FALSE, "none"), input |-> Text("7b", FALSE, "none")],
     [id |-> Text("6a", TRUE, "other"), input |-> Text("", FALSE, "other")],
     [id |-> Text("7b", FALSE, "digit"), input |-> Text("7b", TRUE, "none")]}

-----------------------------------------------------------------------------
PartsInit ==
    /\ Init /\ QueriesInit /\ StoreInit
    /\ \/ part \in {"ledger", "queries", "wallets"} /\ input = [kind |-> "none"]
       \/ part = "algorithms" /\ input \in {i \in Inputs : i.kind # "none"}

(* A step of one part, beside which nothing else happens.                  *)
InLedger(A) ==
    /\ part = "ledger" /\ A
    /\ UNCHANGED <<part, input, queryVars, storeVars>>

InQueries(A) ==
    /\ part = "queries" /\ A
    /\ UNCHANGED <<part, input, vars, storeVars>>

InWallets(A) ==
    /\ part = "wallets" /\ A
    /\ UNCHANGED <<part, input, vars, queryVars>>

PartsNext ==
    \/ \E p \in Transfers, amount \in Amounts :
          InLedger(CreateTransaction(p[1], p[2], amount))
    \/ \E n \in 0..Len(pending) : InLedger(RejectBlock(n))
    \/ \E n \in 0..Len(pending), m \in Miners :
          InLedger(AddBlock(n, m) \/ FailBlock(n, m))
    \/ InQueries(\E message \in Messages : SubmitTransaction(message))
    \/ InQueries(CreateWallet(a))
    \/ \E to \in {a, "no address"}, amount \in -1..1 :
          InQueries(SendTransaction(a, to, amount))
    \/ InQueries(Drain) \/ InQueries(AddMined)
    \/ \E id \in Asked : InQueries(AskTransaction(id))
    \/ InQueries(LookUp) \/ InQueries(LookUpNext) \/ InQueries(GetMempool)
    \/ InQueries(ReadTop)
    \/ \E name \in {"GetBlockchainInfo", "GetBestBlockHash"} :
          InQueries(ReadHeight(name))
    \/ InQueries(ReadBest) \/ InQueries(CountTransactions)
    \/ \E i \in 0..MaxChain : InQueries(AskHash(i))
    \/ \E i \in 0..MaxChain : InQueries(GetBlockByHeight(i))
    \/ InQueries(FindHash)
    \/ \E count \in 1..MaxCount : InQueries(AskHeight(count))
    \/ InQueries(AskHeightFails)
    \/ InQueries(FetchBlock) \/ InQueries(FetchFails)
    \/ \E x \in {a, b, c} : InWallets(SaveWallet(x))
    \/ \E x \in {a, b, c} : InWallets(DeleteWallet(x))
    \/ InWallets(PutWallet) \/ InWallets(AddAddress)
    \/ InWallets(Clear) \/ InWallets(ClearNext) \/ InWallets(ClearList)
    \/ InWallets(CutShort)

PartsSpec ==
    PartsInit /\ [][PartsNext]_<<part, input, vars, queryVars, storeVars>>
=============================================================================
