--------------------------- MODULE PeerSyncProofs ---------------------------
(***************************************************************************)
(* Proofs about PeerSync, for any number of nodes, dials, blocks,          *)
(* transactions and stops.                                                 *)
(***************************************************************************)
EXTENDS PeerSync, FiniteSetTheorems, Facts

-----------------------------------------------------------------------------
(* The inductive invariant, in named parts. *)

(* A node mines on one of its own blocks at least: the genesis block.      *)
ChainsBegun == \A n \in Node : chain[n] # <<>>

(* What a node is about to append is a block on its tip: nothing else was  *)
(* appended since it was validated.                                        *)
WorkFits ==
    \A n \in Node :
        /\ work[n].at # "idle" => work[n].block \in Block
        /\ work[n].at = "append" => made[work[n].block] = Tip(n)

(* A sync goroutine belongs to a node that runs, until it has returned.    *)
SyncsOwned ==
    \A k \in Dial : IF At(k) \in {"unused", "over"} THEN sync[k].node = None
                                                   ELSE sync[k].node \in up

(* The flag of a node and its running sync, without counting.              *)
FlagIsTrue ==
    \A n \in Node :
        /\ syncing[n] => \E k \in Dial : Running(n, k)
        /\ \A k \in Dial : Running(n, k) => syncing[n]
        /\ \A j, k \in Dial : Running(n, j) /\ Running(n, k) => j = k

(* Transaction t is in the sequence s.                                     *)
Holds(s, t) == \E i \in 1..Len(s) : s[i] = t

Distinct(s) == \A i, j \in 1..Len(s) : s[i] = s[j] => i = j

(* The broadcasts of transactions on their way to n.                       *)
TxWire(n) == {m \in wire : m.kind = "new_tx" /\ m.to = n}

TxIntake(n) == {h \in intake : h.node = n}

(* A transaction comes to a node once: it is on the wire, or a handler has *)
(* it, or it may be pending.                                               *)
ComesOnce ==
    \A n \in Node :
        /\ Distinct(pending[n])
        /\ \A l, m \in TxWire(n) : l.what = m.what => l = m
        /\ \A g, h \in TxIntake(n) : g.tx = h.tx => g = h
        /\ \A m \in TxWire(n), h \in TxIntake(n) : m.what # h.tx
        /\ \A h \in TxIntake(n) : Distinct(h.read)
        /\ \A m \in TxWire(n) : ~Holds(pending[n], m.what)
        /\ \A h \in TxIntake(n) : ~Holds(pending[n], h.tx)
        /\ \A m \in TxWire(n), h \in TxIntake(n) : ~Holds(h.read, m.what)
        /\ \A g, h \in TxIntake(n) : ~Holds(g.read, h.tx)

IInv ==
    /\ TypeOK
    /\ ChainsBegun
    /\ WorkFits
    /\ ChainsLinked
    /\ SyncsOwned
    /\ FlagIsTrue
    /\ ComesOnce

-----------------------------------------------------------------------------
(* Facts about sequences. *)

(* The rest of a sequence is a sequence.                                  *)
LEMMA SuffixIsSeq ==
    ASSUME NEW S, NEW s \in Seq(S), NEW m \in Nat
    PROVE  SubSeq(s, m + 1, Len(s)) \in Seq(S)
  OBVIOUS

(* Appending a new element keeps the elements distinct.                   *)
LEMMA AppendDistinct ==
    ASSUME NEW S, NEW s \in Seq(S), NEW e \in S, Distinct(s), ~Holds(s, e)
    PROVE  /\ Distinct(Append(s, e))
           /\ \A t : Holds(Append(s, e), t) => Holds(s, t) \/ t = e
  <1>1. /\ Len(Append(s, e)) = Len(s) + 1 /\ Len(s) \in Nat
        /\ \A i \in 1..Len(s) : Append(s, e)[i] = s[i]
        /\ Append(s, e)[Len(s) + 1] = e
    BY AppendFacts
  <1>2. \A i \in 1..Len(Append(s, e)) : i \in 1..Len(s) \/ i = Len(s) + 1
    BY <1>1
  <1> QED BY <1>1, <1>2 DEF Distinct, Holds

-----------------------------------------------------------------------------
(* Facts about the state. *)

(* A running node has a tip, and it is a block.                            *)
LEMMA TipIsBlock ==
    ASSUME IInv, NEW n \in Node
    PROVE  /\ Tip(n) \in Block /\ Tip(n) = chain[n][Len(chain[n])]
           /\ chain[n] \in Seq(Block) /\ Len(chain[n]) \in Nat \ {0}
  <1>1. chain[n] \in Seq(Block) /\ chain[n] # <<>>
    BY DEF IInv, TypeOK, ChainsBegun
  <1>2. Len(chain[n]) \in 1..Len(chain[n])
    BY <1>1
  <1> QED BY <1>1, <1>2, ElementIn DEF Tip

(* Nothing that was received is added to a chain.                          *)
LEMMA ReceivedIsDropped ==
    ASSUME NEW n, NEW b, ProcessReceivedBlock(n, Decode(b))
    PROVE  chain' = chain
  BY DEF ProcessReceivedBlock, Decode, ValidateBlock

(* The states of a goroutine, as TypeOK has them.                          *)
SyncState ==
    [at : {"unused", "begin", "height", "compare", "blocks", "process",
           "return", "over"},
     node : Node \cup {None}, peer : Node \cup {None},
     heard : Nat, start : Nat, blocks : Seq(Block), next : Nat]

(* A goroutine that goes over into another of these states.                *)
LEMMA SyncTyped ==
    ASSUME IInv, NEW k \in Dial, NEW r \in SyncState, sync' = [sync EXCEPT ![k] = r]
    PROVE  /\ sync[k] \in SyncState /\ sync' \in [Dial -> SyncState]
           /\ sync'[k] = r /\ \A j \in Dial : j # k => sync'[j] = sync[j]
  <1>1. sync \in [Dial -> SyncState]
    BY DEF IInv, TypeOK, SyncState
  <1> QED BY <1>1

(* The state before the deferred function is one of them.                  *)
LEMMA ReturningIsState ==
    ASSUME NEW k, sync[k] \in SyncState
    PROVE  /\ Returning(k) \in SyncState /\ Returning(k).at = "return"
           /\ Returning(k).node = sync[k].node
  BY EmptyIsSeq DEF SyncState, Returning, NoSync

(* What a sync step must keep for the types to hold.                       *)
LEMMA SyncTypes ==
    ASSUME IInv, UNCHANGED <<node, chain, mining, gossip>>,
           peers' \in [Node -> SUBSET Node], syncing' \in [Node -> BOOLEAN],
           sync' \in [Dial -> SyncState],
           \A n \in Node \ up : peers'[n] = peers[n] /\ syncing'[n] = syncing[n]
    PROVE  TypeOK'
  <1> USE DEF IInv, node, mining, gossip
  <1>1. Block' = Block /\ Message' = Message
    BY DEF Block, Message
  <1>2. sync' \in [Dial -> SyncState]'
    BY <1>1 DEF SyncState
  <1> QED BY <1>1, <1>2 DEF TypeOK, SyncState

(* The chains stay as they are while no node mines.                        *)
LEMMA ChainsKept ==
    ASSUME IInv, UNCHANGED <<made, chain, work>>
    PROVE  ChainsBegun' /\ WorkFits' /\ ChainsLinked'
  BY DEF IInv, ChainsBegun, WorkFits, ChainsLinked, ValidateChain, Tip, Block

(* So do the syncs ...                                                     *)
LEMMA SyncsKept ==
    ASSUME IInv, UNCHANGED <<up, syncing, sync>>
    PROVE  SyncsOwned' /\ FlagIsTrue'
  BY DEF IInv, SyncsOwned, FlagIsTrue, Running, At

(* ... and the transactions on their way.                                  *)
LEMMA GossipKept ==
    ASSUME IInv, UNCHANGED <<wire, pending, intake>>
    PROVE  ComesOnce'
  BY DEF IInv, ComesOnce, TxWire, TxIntake

-----------------------------------------------------------------------------
(* Each action preserves the invariant. *)

(* The initial states satisfy the invariant.                               *)
LEMMA InitEstablishes == Init => IInv
  <1> SUFFICES ASSUME Init PROVE IInv
    OBVIOUS
  <1> USE PeerSyncAssumption DEF Init, NoSync, NoWork
  <1>1. /\ made \in Seq({None} \cup Block) /\ chain \in [Node -> Seq(Block)]
        /\ \A n \in Node : chain[n] # <<>> /\ Len(chain[n]) = 1
    <2>1. CASE made = [n \in Node |-> None] /\ chain = [n \in Node |-> <<n>>]
      <3>1. made \in Seq({None} \cup Block) /\ Len(made) = NodeCount
        BY <2>1 DEF Node
      <3> QED BY <2>1, <3>1 DEF Node, Block
    <2>2. CASE made = <<None>> /\ chain = [n \in Node |-> <<1>>]
      BY <2>2 DEF Block
    <2> QED BY <2>1, <2>2
  <1>2. TypeOK
    BY <1>1 DEF TypeOK, Message
  <1>3. ChainsBegun /\ WorkFits /\ ChainsLinked
    BY <1>1 DEF ChainsBegun, WorkFits, ChainsLinked, ValidateChain
  <1>4. SyncsOwned /\ FlagIsTrue
    BY DEF SyncsOwned, FlagIsTrue, Running, At, Node, None
  <1>5. ComesOnce
    BY DEF ComesOnce, TxWire, TxIntake, Distinct, Holds
  <1> QED BY <1>2, <1>3, <1>4, <1>5 DEF IInv

(* A step that changes no variable preserves the invariant.                *)
LEMMA StutterPreserves == IInv /\ UNCHANGED vars => IInv'
  <1> SUFFICES ASSUME IInv, UNCHANGED vars PROVE IInv'
    OBVIOUS
  <1> USE DEF vars, node, syncs, mining, gossip
  <1>1. TypeOK'
    BY DEF IInv, TypeOK, Block, Message
  <1> QED BY <1>1, ChainsKept, SyncsKept, GossipKept DEF IInv

(* A dial adds a goroutine that has not begun.                             *)
LEMMA ConnectToPeerStep ==
    ASSUME IInv, NEW n \in Node, NEW p \in Node, NEW k \in Dial,
           ConnectToPeer(n, k, p)
    PROVE  IInv'
  <1> USE DEF ConnectToPeer, node, mining, gossip
  <1>1. TypeOK'
    <2>1. sync[k] \in SyncState
      BY DEF IInv, TypeOK, SyncState
    <2>2. [sync[k] EXCEPT !.at = "begin", !.node = n, !.peer = p] \in SyncState
      BY <2>1 DEF SyncState
    <2>3. sync' \in [Dial -> SyncState]
      BY <2>2, SyncTyped
    <2>4. peers' \in [Node -> SUBSET Node]
      BY DEF IInv, TypeOK
    <2>5. /\ syncing' \in [Node -> BOOLEAN]
          /\ \A m \in Node \ up : peers'[m] = peers[m] /\ syncing'[m] = syncing[m]
      BY DEF IInv, TypeOK
    <2> QED BY <2>3, <2>4, <2>5, SyncTypes
  <1>2. /\ At(k)' = "begin" /\ At(k) = "unused" /\ sync'[k].node = n
        /\ \A j \in Dial : j # k => sync'[j] = sync[j]
    BY DEF IInv, TypeOK, At
  <1>3. SyncsOwned'
    BY <1>2 DEF IInv, SyncsOwned, At
  <1>4. FlagIsTrue'
    BY <1>2 DEF IInv, SyncsOwned, FlagIsTrue, Running, At, Node, None
  <1> QED BY <1>1, <1>3, <1>4, ChainsKept, GossipKept DEF IInv

(* The flag is set by the goroutine that finds it clear; the others of the *)
(* node are over before they begin.                                        *)
LEMMA BeginSyncStep == ASSUME IInv, NEW k \in Dial, BeginSync(k) PROVE IInv'
  <1> USE DEF BeginSync, node, mining, gossip
  <1>1. sync[k].node \in up /\ sync[k].node \in Node
    BY DEF IInv, SyncsOwned, TypeOK, At
  <1>2. TypeOK'
    <2>1. sync[k] \in SyncState /\ NoSync("over") \in SyncState
      BY EmptyIsSeq DEF IInv, TypeOK, SyncState, NoSync
    <2>2. [sync[k] EXCEPT !.at = "height"] \in SyncState
      BY <2>1 DEF SyncState
    <2>3. sync' \in [Dial -> SyncState]
      BY <2>1, <2>2, SyncTyped
    <2>4. /\ syncing' \in [Node -> BOOLEAN] /\ peers' \in [Node -> SUBSET Node]
          /\ \A n \in Node \ up : syncing'[n] = syncing[n]
      BY <1>1 DEF IInv, TypeOK
    <2> QED BY <2>3, <2>4, SyncTypes
  <1>3. /\ \A j \in Dial : j # k => sync'[j] = sync[j]
        /\ syncing[sync[k].node] => sync'[k].at = "over" /\ sync'[k].node = None
        /\ ~syncing[sync[k].node] =>
              sync'[k].at = "height" /\ sync'[k].node = sync[k].node
        /\ \A n \in Node : syncing'[n] = (syncing[n] \/ n = sync[k].node)
    BY ZenonT(40), <1>1 DEF IInv, TypeOK, NoSync
  <1>4. SyncsOwned'
    BY <1>1, <1>3 DEF IInv, SyncsOwned, At
  <1>5. FlagIsTrue'
    <2> DEFINE own == sync[k].node
    <2>1. /\ \A n \in Node, j \in Dial : j # k => (Running(n, j)' <=> Running(n, j))
          /\ \A n \in Node : ~Running(n, k)
          /\ \A n \in Node : Running(n, k)' <=> ~syncing[own] /\ n = own
      BY <1>1, <1>3 DEF Running, At, Node, None
    <2>2. /\ \A n \in Node : syncing[n] => \E j \in Dial : Running(n, j)
          /\ \A n \in Node : \A j \in Dial : Running(n, j) => syncing[n]
          /\ \A n \in Node : \A i, j \in Dial : Running(n, i) /\ Running(n, j) => i = j
      BY DEF IInv, FlagIsTrue
    <2>3. ASSUME NEW n \in Node
          PROVE  /\ syncing'[n] => \E j \in Dial : Running(n, j)'
                 /\ \A j \in Dial : Running(n, j)' => syncing'[n]
                 /\ \A i, j \in Dial : Running(n, i)' /\ Running(n, j)' => i = j
      <3>1. syncing'[n] <=> syncing[n] \/ n = own
        BY <1>3
      <3>2. CASE n = own /\ ~syncing[own]
        BY <2>1, <2>2, <3>1, <3>2
      <3>3. CASE ~(n = own /\ ~syncing[own])
        BY <2>1, <2>2, <3>1, <3>3
      <3> QED BY <3>2, <3>3
    <2> QED BY <2>3 DEF FlagIsTrue
  <1> QED BY <1>2, <1>4, <1>5, ChainsKept, GossipKept DEF IInv

(* A sync that goes on stays the running one of its node.                  *)
LEMMA SyncGoesOn ==
    ASSUME IInv, NEW k \in Dial, NEW r \in SyncState, sync' = [sync EXCEPT ![k] = r],
           UNCHANGED <<node, chain, peers, syncing, mining, gossip>>,
           At(k) \notin {"unused", "begin", "over"},
           r.at \notin {"unused", "begin", "over"},
           r.node = sync[k].node
    PROVE  IInv'
  <1>1. /\ sync' \in [Dial -> SyncState] /\ sync'[k] = r
        /\ \A j \in Dial : j # k => sync'[j] = sync[j]
    BY SyncTyped
  <1>2. TypeOK'
    BY <1>1, SyncTypes DEF IInv, TypeOK
  <1>3. SyncsOwned'
    BY <1>1 DEF IInv, SyncsOwned, At, node
  <1>4. \A n \in Node, j \in Dial : Running(n, j)' <=> Running(n, j)
    BY <1>1 DEF Running, At
  <1>5. FlagIsTrue'
    BY <1>4 DEF IInv, FlagIsTrue
  <1> QED BY <1>2, <1>3, <1>5, ChainsKept, GossipKept DEF IInv, node, mining, gossip

(* Each step of a sync between its begin and its end is one of those.      *)
LEMMA SyncStepsStep ==
    ASSUME IInv, NEW k \in Dial,
           \/ AnswerHeight(k) \/ CompareHeight(k) \/ AnswerBlocks(k)
           \/ ProcessNext(k) \/ ReportSynced(k) \/ StreamFails(k)
    PROVE  IInv'
  <1>0. sync[k] \in SyncState /\ (At(k) \notin {"unused", "over"} => sync[k].node \in Node)
    BY DEF IInv, TypeOK, SyncState, SyncsOwned
  <1>1. CASE AnswerHeight(k)
    <2> DEFINE r == [sync[k] EXCEPT !.at = "compare", !.heard = Height(sync[k].peer)]
    <2>1. Height(sync[k].peer) \in Nat
      BY <1>1, TipIsBlock DEF AnswerHeight, Height, IInv, TypeOK
    <2>2. r \in SyncState /\ r.at = "compare" /\ r.node = sync[k].node
      BY <1>0, <2>1 DEF SyncState
    <2> HIDE DEF r
    <2> QED BY <1>1, <2>2, SyncGoesOn DEF AnswerHeight, r
  <1>2. CASE CompareHeight(k)
    <2> DEFINE own == Height(sync[k].node)
               r == IF sync[k].heard > own
                    THEN [sync[k] EXCEPT !.at = "blocks", !.start = own, !.heard = 0]
                    ELSE Returning(k)
    <2>1. own \in Nat
      BY <1>0, <1>2, TipIsBlock DEF CompareHeight, Height
    <2>2. r \in SyncState /\ r.at \in {"blocks", "return"} /\ r.node = sync[k].node
      BY <1>0, <2>1, ReturningIsState DEF SyncState
    <2> HIDE DEF r
    <2> QED BY <1>2, <2>2, SyncGoesOn DEF CompareHeight, r
  <1>3. CASE AnswerBlocks(k)
    <2> DEFINE got == SubSeq(chain[sync[k].peer], sync[k].start + 1, Height(sync[k].peer))
               r == [sync[k] EXCEPT !.at = "process", !.start = 0, !.blocks = got]
    <2>1. got \in Seq(Block)
      BY <1>0, <1>3, SuffixIsSeq DEF AnswerBlocks, Height, IInv, TypeOK, SyncState
    <2> HIDE DEF got
    <2>2. r \in SyncState /\ r.at = "process" /\ r.node = sync[k].node
      BY <1>0, <2>1 DEF SyncState
    <2> HIDE DEF r
    <2> QED BY <1>3, <2>2, SyncGoesOn DEF AnswerBlocks, At, r, got
  <1>4. CASE ProcessNext(k)
    <2> DEFINE r == [sync[k] EXCEPT !.next = @ + 1]
    <2>1. chain' = chain
      BY <1>4, ReceivedIsDropped DEF ProcessNext
    <2>2. /\ r \in SyncState /\ r.at = sync[k].at /\ r.node = sync[k].node
          /\ sync' = [sync EXCEPT ![k] = r]
      BY <1>0, <1>4 DEF SyncState, ProcessNext
    <2> HIDE DEF r
    <2> QED BY <1>4, <2>1, <2>2, SyncGoesOn DEF ProcessNext, At
  <1>5. CASE ReportSynced(k) \/ StreamFails(k)
    BY <1>0, <1>5, ReturningIsState, SyncGoesOn DEF ReportSynced, StreamFails
  <1> QED BY <1>1, <1>2, <1>3, <1>4, <1>5

(* The flag is cleared by the one goroutine it was set by.                 *)
LEMMA FinishSyncStep == ASSUME IInv, NEW k \in Dial, FinishSync(k) PROVE IInv'
  <1> USE DEF FinishSync, node, mining, gossip
  <1>1. sync[k].node \in up /\ sync[k].node \in Node
    BY DEF IInv, SyncsOwned, TypeOK, At
  <1>2. TypeOK'
    <2>1. NoSync("over") \in SyncState
      BY EmptyIsSeq DEF SyncState, NoSync
    <2>2. sync' \in [Dial -> SyncState]
      BY <2>1, SyncTyped
    <2>3. /\ syncing' \in [Node -> BOOLEAN] /\ peers' \in [Node -> SUBSET Node]
          /\ \A n \in Node \ up : syncing'[n] = syncing[n]
      BY <1>1 DEF IInv, TypeOK
    <2> QED BY <2>2, <2>3, SyncTypes
  <1>3. /\ \A j \in Dial : j # k => sync'[j] = sync[j]
        /\ sync'[k].at = "over" /\ sync'[k].node = None
        /\ \A n \in Node : syncing'[n] = (syncing[n] /\ n # sync[k].node)
    BY <1>1 DEF IInv, TypeOK, NoSync
  <1>4. SyncsOwned'
    BY <1>1, <1>3 DEF IInv, SyncsOwned, At
  <1>5. FlagIsTrue'
    <2> DEFINE own == sync[k].node
    <2>1. /\ \A n \in Node, j \in Dial : j # k => (Running(n, j)' <=> Running(n, j))
          /\ \A n \in Node : Running(n, k) <=> n = own
          /\ \A n \in Node : ~Running(n, k)'
      BY <1>1, <1>3 DEF Running, At, Node, None
    <2>2. /\ \A n \in Node : syncing[n] => \E j \in Dial : Running(n, j)
          /\ \A n \in Node : \A j \in Dial : Running(n, j) => syncing[n]
          /\ \A n \in Node : \A i, j \in Dial : Running(n, i) /\ Running(n, j) => i = j
      BY DEF IInv, FlagIsTrue
    <2>3. ASSUME NEW n \in Node
          PROVE  /\ syncing'[n] => \E j \in Dial : Running(n, j)'
                 /\ \A j \in Dial : Running(n, j)' => syncing'[n]
                 /\ \A i, j \in Dial : Running(n, i)' /\ Running(n, j)' => i = j
      <3>1. syncing'[n] <=> syncing[n] /\ n # own
        BY <1>3
      <3>2. CASE n = own
        BY <2>1, <2>2, <3>1, <3>2
      <3>3. CASE n # own
        BY <2>1, <2>2, <3>1, <3>3
      <3> QED BY <3>2, <3>3
    <2> QED BY <2>3 DEF FlagIsTrue
  <1> QED BY <1>2, <1>4, <1>5, ChainsKept, GossipKept DEF IInv

(* The block that is mined is new, and its parent is the tip.              *)
LEMMA MineBlockStep == ASSUME IInv, NEW n \in Node, MineBlock(n) PROVE IInv'
  <1> USE DEF MineBlock, node, syncs, gossip
  <1>1. /\ made' = Append(made, Tip(n)) /\ made \in Seq({None} \cup Block)
        /\ Tip(n) \in {None} \cup Block
    BY TipIsBlock DEF IInv, TypeOK
  <1>2. /\ Len(made) \in Nat /\ Len(made') = Len(made) + 1
        /\ made' \in Seq({None} \cup Block)
        /\ \A b \in Block : made'[b] = made[b]
    BY <1>1, AppendFacts DEF Block
  <1>3. Block \subseteq Block' /\ Len(made) + 1 \in Block' /\ Message \subseteq Message'
    BY <1>2 DEF Block, Message
  <1>4. TypeOK'
    <2>1. made' \in Seq({None} \cup Block')
      <3>1. {None} \cup Block \subseteq {None} \cup Block'
        BY <1>3
      <3> QED BY <1>2, <3>1, SeqOfMore
    <2>2. chain' \in [Node -> Seq(Block')]
      BY <1>3, SeqOfMore DEF IInv, TypeOK
    <2>3. sync' \in [Dial -> SyncState']
      <3>1. \A k \in Dial : sync[k] \in SyncState /\ sync[k].blocks \in Seq(Block')
        BY <1>3, SeqOfMore DEF IInv, TypeOK, SyncState
      <3>2. \A k \in Dial : sync[k] \in SyncState'
        BY <3>1 DEF SyncState
      <3> QED BY <3>2 DEF IInv, TypeOK
    <2>4. work' \in [Node -> [at : {"idle", "validate", "append", "broadcast"},
                              block : Block' \cup {None}]]
      BY <1>2, <1>3 DEF IInv, TypeOK
    <2>5. wire' \subseteq Message'
      BY <1>3 DEF IInv, TypeOK
    <2>6. \A m \in Node \ up : peers[m] = {} /\ ~syncing[m] /\ work'[m] = NoWork
      BY DEF IInv, TypeOK
    <2> QED BY <2>1, <2>2, <2>3, <2>4, <2>5, <2>6 DEF IInv, TypeOK, SyncState
  <1>5. \A m \in Node : Tip(m)' = Tip(m) /\ Tip(m) \in Block
    BY TipIsBlock DEF Tip
  <1>6. ChainsBegun' /\ ChainsLinked'
    <2>1. \A m \in Node : \A i \in 1..Len(chain[m]) : chain[m][i] \in Block
      BY ElementIn DEF IInv, TypeOK
    <2>2. \A m \in Node : \A i \in 2..Len(chain[m]) : i \in 1..Len(chain[m])
      BY TipIsBlock
    <2> QED BY <1>2, <2>1, <2>2 DEF IInv, ChainsBegun, ChainsLinked, ValidateChain
  <1>7. WorkFits'
    <2>1. /\ work'[n].at = "validate" /\ work'[n].block = Len(made) + 1
          /\ \A m \in Node : m # n => work'[m] = work[m]
      BY DEF IInv, TypeOK
    <2> QED BY ZenonT(40), <1>2, <1>3, <1>5, <2>1 DEF IInv, WorkFits
  <1> QED BY <1>4, <1>6, <1>7, SyncsKept, GossipKept DEF IInv

(* A block that is validated links to the tip.                             *)
LEMMA ValidateMinedStep == ASSUME IInv, NEW n \in Node, ValidateMined(n) PROVE IInv'
  <1> USE DEF ValidateMined, node, syncs, gossip
  <1>1. /\ \A m \in Node : m # n => work'[m] = work[m]
        /\ \/ work'[n] = NoWork
           \/ /\ work'[n].at = "append" /\ work'[n].block = work[n].block
              /\ made[work[n].block] = Tip(n)
    BY DEF IInv, TypeOK, ValidateBlock, DecodeTyped
  <1>2. TypeOK'
    <2>1. work' \in [Node -> [at : {"idle", "validate", "append", "broadcast"},
                              block : Block \cup {None}]]
      BY ZenonT(40) DEF IInv, TypeOK, NoWork
    <2>2. Block' = Block /\ Message' = Message
      BY DEF Block, Message
    <2>3. \A m \in Node \ up : work'[m] = NoWork
      BY <1>1 DEF IInv, TypeOK, NoWork
    <2> QED BY <2>1, <2>2, <2>3 DEF IInv, TypeOK
  <1>3. WorkFits'
    BY <1>1 DEF IInv, WorkFits, Tip, Block, NoWork
  <1>4. ChainsBegun' /\ ChainsLinked'
    BY DEF IInv, ChainsBegun, ChainsLinked, ValidateChain
  <1> QED BY <1>2, <1>3, <1>4, SyncsKept, GossipKept DEF IInv

(* The tip it was validated on is the tip it is appended to.               *)
LEMMA AppendMinedStep == ASSUME IInv, NEW n \in Node, AppendMined(n) PROVE IInv'
  <1> USE DEF AppendMined, node, syncs, gossip
  <1> DEFINE b == work[n].block
  <1>1. /\ b \in Block /\ made[b] = Tip(n)
        /\ chain[n] \in Seq(Block) /\ Tip(n) = chain[n][Len(chain[n])]
    BY TipIsBlock DEF IInv, WorkFits
  <1>2. /\ chain'[n] = Append(chain[n], b)
        /\ \A m \in Node : m # n => chain'[m] = chain[m] /\ work'[m] = work[m]
        /\ work'[n].at = "broadcast" /\ work'[n].block = b
    BY DEF IInv, TypeOK
  <1>3. /\ chain'[n] \in Seq(Block) /\ Len(chain'[n]) = Len(chain[n]) + 1
        /\ Len(chain[n]) \in Nat /\ chain'[n][Len(chain[n]) + 1] = b
        /\ \A i \in 1..Len(chain[n]) : chain'[n][i] = chain[n][i]
    BY <1>1, <1>2, AppendFacts
  <1>4. TypeOK'
    <2>1. work' \in [Node -> [at : {"idle", "validate", "append", "broadcast"},
                              block : Block \cup {None}]]
      BY DEF IInv, TypeOK
    <2>2. chain' \in [Node -> Seq(Block)]
      BY <1>1, <1>3 DEF IInv, TypeOK
    <2>3. Block' = Block /\ Message' = Message
      BY DEF Block, Message
    <2>4. \A m \in Node \ up : work'[m] = NoWork
      BY <1>2 DEF IInv, TypeOK, NoWork
    <2> QED BY <2>1, <2>2, <2>3, <2>4 DEF IInv, TypeOK
  <1>5. ChainsBegun'
    <2>1. chain'[n] # <<>>
      BY <1>3
    <2> QED BY <1>2, <2>1 DEF IInv, ChainsBegun
  <1>6. WorkFits'
    BY <1>1, <1>2 DEF IInv, WorkFits, Tip, Block
  <1>7. ChainsLinked'
    <2>1. ASSUME NEW i \in 2..Len(chain'[n]) PROVE made[chain'[n][i]] = chain'[n][i - 1]
      <3>1. CASE i = Len(chain[n]) + 1
        <4>1. Len(chain[n]) \in 1..Len(chain[n])
          BY <1>3, <3>1
        <4> QED BY <1>1, <1>3, <3>1, <4>1
      <3>2. CASE i # Len(chain[n]) + 1
        <4>1. i \in 2..Len(chain[n]) /\ i - 1 \in 1..Len(chain[n]) /\ i \in 1..Len(chain[n])
          BY <1>3, <3>2
        <4> QED BY <1>3, <4>1 DEF IInv, ChainsLinked, ValidateChain
      <3> QED BY <3>1, <3>2
    <2> QED BY <1>2, <2>1 DEF IInv, ChainsLinked, ValidateChain
  <1> QED BY <1>4, <1>5, <1>6, <1>7, SyncsKept, GossipKept DEF IInv

(* What a step of the broadcasts must keep for the types to hold.          *)
LEMMA GossipTypes ==
    ASSUME IInv, UNCHANGED <<node, chain, syncs, mining, txs>>,
           wire' \subseteq Message,
           pending' \in [Node -> Seq(1..txs)],
           intake' \subseteq [node : Node, tx : 1..txs, read : Seq(1..txs)]
    PROVE  TypeOK'
  <1> USE DEF node, syncs, mining
  <1>1. Block' = Block /\ Message' = Message
    BY DEF Block, Message
  <1> QED BY <1>1 DEF IInv, TypeOK

(* The broadcast of a block is none of a transaction.                      *)
LEMMA BroadcastBlockStep == ASSUME IInv, NEW n \in Node, BroadcastBlock(n) PROVE IInv'
  <1> USE DEF BroadcastBlock, Broadcast, node, syncs, mining, gossip
  <1>1. /\ work[n].block \in Block /\ peers[n] \subseteq Node
        /\ work'[n] = NoWork /\ \A m \in Node : m # n => work'[m] = work[m]
    BY DEF IInv, TypeOK, WorkFits
  <1>2. TypeOK'
    <2>1. work' \in [Node -> [at : {"idle", "validate", "append", "broadcast"},
                              block : Block \cup {None}]]
      BY DEF IInv, TypeOK, NoWork
    <2>2. [from : {n}, to : peers[n], kind : {"new_block"}, what : {work[n].block}]
              \subseteq Message
      BY <1>1 DEF Message
    <2>3. Block' = Block /\ Message' = Message
      BY DEF Block, Message
    <2>4. \A m \in Node \ up : work'[m] = NoWork
      BY <1>1 DEF IInv, TypeOK
    <2>5. wire' \subseteq Message
      BY <2>2 DEF IInv, TypeOK
    <2> QED BY <2>1, <2>3, <2>4, <2>5 DEF IInv, TypeOK
  <1>3. ChainsBegun' /\ ChainsLinked'
    BY DEF IInv, ChainsBegun, ChainsLinked, ValidateChain
  <1>4. WorkFits'
    BY <1>1 DEF IInv, WorkFits, Tip, Block, NoWork
  <1>5. \A p \in Node : TxWire(p)' = TxWire(p) /\ TxIntake(p)' = TxIntake(p)
    BY DEF TxWire, TxIntake
  <1>6. ComesOnce'
    BY <1>5 DEF IInv, ComesOnce
  <1> QED BY <1>2, <1>3, <1>4, <1>6, SyncsKept DEF IInv

(* A transaction that is broadcast is new to everyone.                     *)
LEMMA BroadcastTransactionStep ==
    ASSUME IInv, NEW n \in Node, BroadcastTransaction(n)
    PROVE  IInv'
  <1> USE DEF BroadcastTransaction, Broadcast, node, syncs, mining
  <1>1. /\ txs \in Nat /\ Len(made) \in Nat /\ txs + 1 <= MaxMade /\ MaxMade \in Nat
        /\ peers[n] \subseteq Node
    BY PeerSyncAssumption DEF IInv, TypeOK
  <1>2. 1..txs \subseteq 1..txs' /\ txs' \in 1..txs' /\ txs' = txs + 1
    BY <1>1
  <1>3. Block' = Block /\ Message \subseteq Message'
    BY <1>2 DEF Block, Message
  <1>4. TypeOK'
    <2>1. [from : {n}, to : peers[n], kind : {"new_tx"}, what : {txs + 1}] \subseteq Message'
      BY <1>1, <1>2 DEF Message
    <2>2. wire' \subseteq Message'
      BY <1>3, <2>1 DEF IInv, TypeOK
    <2>3. pending' \in [Node -> Seq(1..txs')]
      BY <1>2, SeqOfMore DEF IInv, TypeOK
    <2>4. intake' \subseteq [node : Node, tx : 1..txs', read : Seq(1..txs')]
      BY <1>2, SeqOfMore DEF IInv, TypeOK
    <2>5. txs' \in 0..MaxMade
      BY <1>1, <1>2
    <2> QED BY <1>3, <2>2, <2>3, <2>4, <2>5 DEF IInv, TypeOK
  <1>5. ComesOnce'
    <2> SUFFICES ASSUME NEW p \in Node
                 PROVE  /\ Distinct(pending[p])
                        /\ \A l, m \in TxWire(p)' : l.what = m.what => l = m
                        /\ \A g, h \in TxIntake(p) : g.tx = h.tx => g = h
                        /\ \A m \in TxWire(p)', h \in TxIntake(p) : m.what # h.tx
                        /\ \A h \in TxIntake(p) : Distinct(h.read)
                        /\ \A m \in TxWire(p)' : ~Holds(pending[p], m.what)
                        /\ \A h \in TxIntake(p) : ~Holds(pending[p], h.tx)
                        /\ \A m \in TxWire(p)', h \in TxIntake(p) : ~Holds(h.read, m.what)
                        /\ \A g, h \in TxIntake(p) : ~Holds(g.read, h.tx)
      BY DEF ComesOnce, TxIntake
    <2>1. \A m \in TxWire(p)' :
              \/ m \in TxWire(p)
              \/ m = [from |-> n, to |-> p, kind |-> "new_tx", what |-> txs + 1]
      BY DEF TxWire
    <2>2. /\ \A m \in TxWire(p) : m.what \in 1..txs
          /\ \A h \in TxIntake(p) : h.tx \in 1..txs /\ h.read \in Seq(1..txs)
          /\ pending[p] \in Seq(1..txs)
      BY DEF IInv, TypeOK, Message, TxWire, TxIntake
    <2>3. txs + 1 \notin 1..txs
      BY <1>1
    <2>4. /\ ~Holds(pending[p], txs + 1)
          /\ \A h \in TxIntake(p) : ~Holds(h.read, txs + 1)
      BY <2>2, <2>3, ElementIn DEF Holds
    <2> QED BY <2>1, <2>2, <2>3, <2>4 DEF IInv, ComesOnce
  <1> QED BY <1>4, <1>5, ChainsKept, SyncsKept DEF IInv

(* A block that comes in is taken off the wire and dropped.                *)
LEMMA HandleBlockStreamStep ==
    ASSUME IInv, NEW m \in wire, HandleBlockStream(m)
    PROVE  IInv'
  <1> USE DEF HandleBlockStream, node, syncs, mining
  <1>1. chain' = chain
    BY ReceivedIsDropped
  <1>2. TypeOK'
    BY <1>1, GossipTypes DEF IInv, TypeOK
  <1>3. \A p \in Node : TxWire(p)' = TxWire(p) /\ TxIntake(p)' = TxIntake(p)
    BY DEF TxWire, TxIntake
  <1>4. ComesOnce'
    BY <1>3 DEF IInv, ComesOnce
  <1> QED BY <1>1, <1>2, <1>4, ChainsKept, SyncsKept DEF IInv

(* A transaction goes from the wire to one handler.                        *)
LEMMA HandleTxStreamStep ==
    ASSUME IInv, NEW m \in wire, HandleTxStream(m)
    PROVE  IInv'
  <1> USE DEF HandleTxStream, node, syncs, mining
  <1> DEFINE g == [node |-> m.to, tx |-> m.what, read |-> pending[m.to]]
  <1>1. /\ m \in Message /\ m.to \in Node /\ m.what \in 1..txs
        /\ pending[m.to] \in Seq(1..txs) /\ m \in TxWire(m.to)
    BY DEF IInv, TypeOK, Message, TxWire
  <1>2. TypeOK'
    <2>1. g \in [node : Node, tx : 1..txs, read : Seq(1..txs)]
      BY <1>1
    <2> QED BY <2>1, GossipTypes DEF IInv, TypeOK
  <1>3. ComesOnce'
    <2> SUFFICES ASSUME NEW p \in Node
                 PROVE  /\ Distinct(pending[p])
                        /\ \A j, l \in TxWire(p)' : j.what = l.what => j = l
                        /\ \A i, h \in TxIntake(p)' : i.tx = h.tx => i = h
                        /\ \A l \in TxWire(p)', h \in TxIntake(p)' : l.what # h.tx
                        /\ \A h \in TxIntake(p)' : Distinct(h.read)
                        /\ \A l \in TxWire(p)' : ~Holds(pending[p], l.what)
                        /\ \A h \in TxIntake(p)' : ~Holds(pending[p], h.tx)
                        /\ \A l \in TxWire(p)', h \in TxIntake(p)' : ~Holds(h.read, l.what)
                        /\ \A i, h \in TxIntake(p)' : ~Holds(i.read, h.tx)
      BY DEF ComesOnce
    <2>1. TxWire(p)' = TxWire(p) \ {m}
      BY DEF TxWire
    <2>2. CASE p # m.to
      <3>1. TxIntake(p)' = TxIntake(p)
        BY <2>2 DEF TxIntake
      <3> QED BY <2>1, <3>1 DEF IInv, ComesOnce
    <2>3. CASE p = m.to
      <3>1. TxIntake(p)' = TxIntake(p) \cup {g}
        BY <2>3 DEF TxIntake
      <3>2. g.tx = m.what /\ g.read = pending[p] /\ m \in TxWire(p)
        BY <1>1, <2>3
      <3> HIDE DEF g
      <3> QED BY <2>1, <3>1, <3>2 DEF IInv, ComesOnce
    <2> QED BY <2>2, <2>3
  <1> QED BY <1>2, <1>3, ChainsKept, SyncsKept DEF IInv

(* ... and from there to the pending ones of the node, which the handler   *)
(* may shorten.                                                            *)
LEMMA ProcessReceivedTransactionStep ==
    ASSUME IInv, NEW g \in intake, ProcessReceivedTransaction(g)
    PROVE  IInv'
  <1> USE DEF ProcessReceivedTransaction, node, syncs, mining
  <1>1. /\ g.node \in Node /\ g.tx \in 1..txs /\ g.read \in Seq(1..txs)
        /\ Append(g.read, g.tx) \in Seq(1..txs) /\ g \in TxIntake(g.node)
    BY AppendFacts DEF IInv, TypeOK, TxIntake
  <1>2. TypeOK'
    <2>1. pending' \in [Node -> Seq(1..txs)]
      BY <1>1 DEF IInv, TypeOK
    <2> QED BY <2>1, GossipTypes DEF IInv, TypeOK
  <1>3. Distinct(g.read) /\ ~Holds(g.read, g.tx)
    BY <1>1 DEF IInv, ComesOnce
  <1>4. /\ Distinct(Append(g.read, g.tx))
        /\ \A t : Holds(Append(g.read, g.tx), t) => Holds(g.read, t) \/ t = g.tx
    BY <1>1, <1>3, AppendDistinct
  <1>5. ComesOnce'
    <2> SUFFICES ASSUME NEW p \in Node
                 PROVE  /\ Distinct(pending'[p])
                        /\ \A j, l \in TxWire(p) : j.what = l.what => j = l
                        /\ \A i, h \in TxIntake(p)' : i.tx = h.tx => i = h
                        /\ \A l \in TxWire(p), h \in TxIntake(p)' : l.what # h.tx
                        /\ \A h \in TxIntake(p)' : Distinct(h.read)
                        /\ \A l \in TxWire(p) : ~Holds(pending'[p], l.what)
                        /\ \A h \in TxIntake(p)' : ~Holds(pending'[p], h.tx)
                        /\ \A l \in TxWire(p), h \in TxIntake(p)' : ~Holds(h.read, l.what)
                        /\ \A i, h \in TxIntake(p)' : ~Holds(i.read, h.tx)
      BY DEF ComesOnce, TxWire
    <2>1. TxIntake(p)' = TxIntake(p) \ {g}
      BY DEF TxIntake
    <2>2. CASE p # g.node
      <3>1. pending'[p] = pending[p]
        BY <2>2 DEF IInv, TypeOK
      <3> QED BY <2>1, <3>1 DEF IInv, ComesOnce
    <2>3. CASE p = g.node
      <3>1. pending'[p] = Append(g.read, g.tx) /\ g \in TxIntake(p)
        BY <1>1, <2>3 DEF IInv, TypeOK
      <3> QED BY <1>4, <2>1, <3>1 DEF IInv, ComesOnce
    <2> QED BY <2>2, <2>3
  <1> QED BY <1>2, <1>5, ChainsKept, SyncsKept DEF IInv

(* A node that ends takes its goroutines and its flag with it.             *)
LEMMA StopStep == ASSUME IInv, NEW n \in Node, Stop(n) PROVE IInv'
  <1> USE DEF Stop
  <1>1. Block' = Block /\ Message' = Message
    BY DEF Block, Message
  <1>2. NoSync("over") \in SyncState
    BY EmptyIsSeq DEF SyncState, NoSync
  <1>3. \A k \in Dial : sync'[k] = IF sync[k].node = n THEN NoSync("over") ELSE sync[k]
    OBVIOUS
  <1>4. /\ work'[n] = NoWork /\ ~syncing'[n] /\ peers'[n] = {} /\ pending'[n] = <<>>
        /\ \A m \in Node : m # n =>
              /\ work'[m] = work[m] /\ syncing'[m] = syncing[m]
              /\ peers'[m] = peers[m] /\ pending'[m] = pending[m]
    BY DEF IInv, TypeOK
  <1>5. TypeOK'
    <2>1. sync' \in [Dial -> SyncState']
      <3>1. SyncState' = SyncState
        BY <1>1 DEF SyncState
      <3>2. \A k \in Dial : sync[k] \in SyncState
        BY DEF IInv, TypeOK, SyncState
      <3>3. \A k \in Dial : sync'[k] \in SyncState
        BY <1>2, <1>3, <3>2
      <3> QED BY <3>1, <3>3
    <2>2. work' \in [Node -> [at : {"idle", "validate", "append", "broadcast"},
                              block : Block \cup {None}]]
      BY DEF IInv, TypeOK, NoWork
    <2>3. /\ pending' \in [Node -> Seq(1..txs)] /\ peers' \in [Node -> SUBSET Node]
          /\ syncing' \in [Node -> BOOLEAN] /\ stops' \in 0..MaxStops
      BY PeerSyncAssumption, EmptyIsSeq DEF IInv, TypeOK
    <2>4. \A m \in Node \ up' : peers'[m] = {} /\ ~syncing'[m] /\ work'[m] = NoWork
      BY <1>4 DEF IInv, TypeOK
    <2> QED BY <1>1, <2>1, <2>2, <2>3, <2>4 DEF IInv, TypeOK, SyncState
  <1>6. ChainsBegun' /\ ChainsLinked'
    BY DEF IInv, ChainsBegun, ChainsLinked, ValidateChain
  <1>7. WorkFits'
    BY <1>4 DEF IInv, WorkFits, Tip, Block, NoWork
  <1>8. SyncsOwned'
    BY <1>3 DEF IInv, SyncsOwned, At, NoSync
  <1>9. \A m \in Node, k \in Dial : Running(m, k)' <=> Running(m, k) /\ m # n
    BY <1>3 DEF Running, At, NoSync, Node, None
  <1>10. FlagIsTrue'
    BY <1>4, <1>9 DEF IInv, FlagIsTrue
  <1>11. ComesOnce'
    <2> SUFFICES ASSUME NEW p \in Node
                 PROVE  /\ Distinct(pending'[p])
                        /\ \A j, l \in TxWire(p)' : j.what = l.what => j = l
                        /\ \A i, h \in TxIntake(p)' : i.tx = h.tx => i = h
                        /\ \A l \in TxWire(p)', h \in TxIntake(p)' : l.what # h.tx
                        /\ \A h \in TxIntake(p)' : Distinct(h.read)
                        /\ \A l \in TxWire(p)' : ~Holds(pending'[p], l.what)
                        /\ \A h \in TxIntake(p)' : ~Holds(pending'[p], h.tx)
                        /\ \A l \in TxWire(p)', h \in TxIntake(p)' : ~Holds(h.read, l.what)
                        /\ \A i, h \in TxIntake(p)' : ~Holds(i.read, h.tx)
      BY DEF ComesOnce
    <2>1. TxWire(p)' \subseteq TxWire(p) /\ TxIntake(p)' \subseteq TxIntake(p)
      BY DEF TxWire, TxIntake
    <2>2. CASE p = n
      <3>1. pending'[p] = <<>>
        BY <1>4, <2>2
      <3>2. Distinct(pending'[p]) /\ \A t : ~Holds(pending'[p], t)
        BY <3>1 DEF Distinct, Holds
      <3> QED BY <2>1, <3>2 DEF IInv, ComesOnce
    <2>3. CASE p # n
      <3>1. pending'[p] = pending[p]
        BY <1>4, <2>3
      <3> QED BY <2>1, <3>1 DEF IInv, ComesOnce
    <2> QED BY <2>2, <2>3
  <1> QED BY <1>5, <1>6, <1>7, <1>8, <1>10, <1>11 DEF IInv

(* It starts again with nothing but its chain.                             *)
LEMMA StartStep == ASSUME IInv, NEW n \in Node, Start(n) PROVE IInv'
  <1> USE DEF Start, syncs, mining, gossip
  <1>1. TypeOK'
    BY DEF IInv, TypeOK, Block, Message
  <1>2. SyncsOwned' /\ FlagIsTrue'
    BY DEF IInv, SyncsOwned, FlagIsTrue, Running, At
  <1> QED BY <1>1, <1>2, ChainsKept, GossipKept DEF IInv

(* Every step preserves the invariant.                                     *)
LEMMA StepPreserves == IInv /\ [Next]_vars => IInv'
  <1> SUFFICES ASSUME IInv, Next PROVE IInv'
    BY StutterPreserves
  <1>1. CASE \E n, p \in Node, k \in Dial : ConnectToPeer(n, k, p)
    BY <1>1, ConnectToPeerStep
  <1>2. ASSUME NEW k \in Dial, SyncStep(k) \/ Reply(k) PROVE IInv'
    BY <1>2, BeginSyncStep, SyncStepsStep, FinishSyncStep DEF SyncStep, Reply
  <1>3. ASSUME NEW n \in Node,
               \/ MineBlock(n) \/ ValidateMined(n) \/ AppendMined(n) \/ BroadcastBlock(n)
               \/ BroadcastTransaction(n) \/ Stop(n) \/ Start(n)
        PROVE  IInv'
    BY <1>3, MineBlockStep, ValidateMinedStep, AppendMinedStep, BroadcastBlockStep,
       BroadcastTransactionStep, StopStep, StartStep
  <1>4. CASE \E m \in wire : HandleBlockStream(m) \/ HandleTxStream(m)
    BY <1>4, HandleBlockStreamStep, HandleTxStreamStep
  <1>5. CASE \E h \in intake : ProcessReceivedTransaction(h)
    BY <1>5, ProcessReceivedTransactionStep
  <1> QED BY <1>1, <1>2, <1>3, <1>4, <1>5 DEF Next

-----------------------------------------------------------------------------
(* The theorems. *)

(* The inductive invariant holds in every reachable state.                 *)
THEOREM Inductive == Spec => []IInv
  BY InitEstablishes, StepPreserves, PTL DEF Spec

(* Every variable keeps its type; a node that is down has no goroutine.    *)
THEOREM TypeCorrect == Spec => []TypeOK
  <1>1. IInv => TypeOK
    BY DEF IInv
  <1> QED BY <1>1, Inductive, PTL

(* However syncs, received blocks and the node's own mining interleave, a  *)
(* node's chain stays linked.                                              *)
THEOREM ChainsStayLinked == Spec => []ChainsLinked
  <1>1. IInv => ChainsLinked
    BY DEF IInv
  <1> QED BY <1>1, Inductive, PTL

(* The flag of a node is set exactly while one of its syncs runs, and      *)
(* there is never a second.                                                *)
THEOREM OneSyncAtATime == Spec => []SyncingIsTrue
  <1>1. IInv => SyncingIsTrue
    <2> SUFFICES ASSUME IInv, NEW n \in Node
                 PROVE  Cardinality({k \in Dial : Running(n, k)}) = IF syncing[n] THEN 1 ELSE 0
      BY DEF SyncingIsTrue
    <2>1. CASE syncing[n]
      <3>1. PICK k \in Dial : Running(n, k)
        BY <2>1 DEF IInv, FlagIsTrue
      <3>2. {j \in Dial : Running(n, j)} = {k}
        BY <3>1 DEF IInv, FlagIsTrue
      <3> QED BY <2>1, <3>2, FS_Singleton
    <2>2. CASE ~syncing[n]
      <3>1. {k \in Dial : Running(n, k)} = {}
        BY <2>2 DEF IInv, FlagIsTrue
      <3> QED BY <2>2, <3>1, FS_EmptySet
    <2> QED BY <2>1, <2>2
  <1> QED BY <1>1, Inductive, PTL

(* No broadcast is pending twice at a node, whatever the handlers          *)
(* overwrite of one another's and however often nodes stop and start.      *)
THEOREM PendingStaysDistinct == Spec => []PendingOnce
  <1>1. IInv => PendingOnce
    <2> SUFFICES ASSUME IInv, NEW n \in Node,
                        NEW i \in DOMAIN pending[n], NEW j \in DOMAIN pending[n],
                        pending[n][i] = pending[n][j]
                 PROVE  i = j
      BY DEF PendingOnce
    <2>1. pending[n] \in Seq(1..txs) /\ DOMAIN pending[n] = 1..Len(pending[n])
      BY DEF IInv, TypeOK
    <2> QED BY <2>1 DEF IInv, ComesOnce, Distinct
  <1> QED BY <1>1, Inductive, PTL
=============================================================================
