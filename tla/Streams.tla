------------------------------- MODULE Streams -------------------------------
(***************************************************************************)
(* Subscriptions: SubscribeBlocks and SubscribeTransactions of             *)
(* internal/grpc/server.go, the miner and the SubmitTransaction calls that *)
(* notify them, and Stop.                                                  *)
(*                                                                         *)
(* Each stream has a handler and a buffered channel; the channels are      *)
(* listed in s.blockSubs and s.txSubs under the RWMutex subsMu.  Handlers, *)
(* the miner and submitters are goroutines, and a client may stop reading  *)
(* or leave at any time.  A read lock here never waits for a Lock that     *)
(* waits, as Go's does: no holder of a read lock waits for anything, so    *)
(* this only adds behaviours.  Blocks are numbered as they are appended.   *)
(*                                                                         *)
(* Mining may be stopped and started while a goroutine is in AddBlock,     *)
(* which has no lock: then there are two, and one may append to the list   *)
(* as it was before the other's block.  Module MiningServer has their      *)
(* steps, and their ends; what AddBlock checks is module Ledger's subject: *)
(* here it may fail, and the process does not end before Stop returns.     *)
(***************************************************************************)
EXTENDS Integers, Sequences, SequencesExt

CONSTANTS
    MaxStreams, \* bound on the calls of SubscribeBlocks and
                \* SubscribeTransactions
    Tx,         \* submissions: each is one call of SubmitTransaction
    Capacity,   \* how many items a channel holds, 10 in the code
    MaxBlocks,  \* bound on the blocks ever appended, genesis included
    MaxStarts,  \* bound on the successful calls of StartMining
    MaxCalls,   \* bound on all of these calls together
    None        \* no item

(* One mineBlocks goroutine for each start, numbered by it.                *)
Miner == 1..MaxStarts

ASSUME StreamsAssumption ==
    /\ Capacity \in Nat \ {0}
    /\ MaxBlocks \in Nat \ {0}
    /\ MaxStreams \in Nat /\ MaxStarts \in Nat /\ MaxCalls \in Nat
    /\ Miner \cap Tx = {}

(* The calls, in the order in which they are made.                         *)
Stream == 1..MaxStreams

Kind == {"block", "tx"}

(* Every goroutine that notifies.                                          *)
Notifier == Tx \cup Miner

VARIABLES
    chain,    \* bc.Blocks
    made,     \* how many blocks have been appended
    miner,    \* where each miner is
    base,     \* the chain that its AddBlock has seen and extends
    notify,   \* the notify call of each notifier: [at, item, next]
    subs,     \* s.blockSubs and s.txSubs
    channel,  \* the items in each stream's channel
    handler,  \* the handler of each stream: [at, kind, item]
    left,     \* the streams whose client has gone: their context is done
    stop,     \* Stop: "no", "waiting" in GracefulStop, or "returned"
    overlapped, \* history: a miner was started while another lived
    unsaved,  \* history: the blocks that were appended and not saved
    received, \* history: what each client has been sent
    before,   \* history: what there was already when a stream was listed
    filled,   \* history: the streams whose channel has been full
    panicked  \* history: a closed channel was sent to or closed again

ledger == <<chain, made, miner, base>>
streams == <<subs, channel, handler, left>>
history == <<overlapped, unsaved, received, before, filled, panicked>>
vars == <<ledger, notify, streams, stop, history>>

KindOf(g) == IF g \in Miner THEN "block" ELSE "tx"

NoCall(at) == [at |-> at, item |-> None, next |-> 1]

(* No handler runs for the stream.                                         *)
NoStream == [at |-> "none", kind |-> "block", item |-> None]

(* The read locks of subsMu are held by the notifiers that step through a  *)
(* list.                                                                   *)
Readers == {g \in Notifier : notify[g].at = "send"}

Submitted == {t \in Tx : notify[t].at # "unsent"}

Alive(g) == miner[g] \notin {"none", "done"}

(* The calls that have been made, or that have set a miner to work.        *)
Calls ==
    Cardinality({g \in Miner : miner[g] # "none"})
    + Cardinality({s \in Stream : handler[s].at # "none"})

Closed == {s \in Stream : handler[s].at = "done"}

-----------------------------------------------------------------------------
Init ==
    /\ chain = <<1>> /\ made = 1 /\ overlapped = FALSE
    /\ miner = [g \in Miner |-> "none"] /\ base = [g \in Miner |-> <<>>]
    /\ notify = [g \in Notifier |-> NoCall(IF g \in Miner THEN "idle" ELSE "unsent")]
    /\ subs = [k \in Kind |-> <<>>]
    /\ channel = [s \in Stream |-> <<>>]
    /\ handler = [s \in Stream |-> NoStream]
    /\ left = {} /\ stop = "no"
    /\ unsaved = {} /\ received = [s \in Stream |-> <<>>]
    /\ before = [s \in Stream |-> {}]
    /\ filled = {} /\ panicked = FALSE

-----------------------------------------------------------------------------
(* The miner and the submitters. *)

(* SubmitTransaction appends to the mempool, then notifies.                *)
SubmitTransaction(t) ==
    /\ stop = "no"
    /\ notify[t].at = "unsent"
    /\ notify' = [notify EXCEPT ![t] = [at |-> "wait", item |-> t, next |-> 1]]
    /\ UNCHANGED <<ledger, streams, stop, history>>

(* StartMining that finds no mining in progress: the miner of an earlier   *)
(* start, stopped since, may still be at work.                             *)
StartMining(g) ==
    /\ stop = "no"
    /\ miner[g] = "none" /\ Calls < MaxCalls
    /\ \A h \in 1..(g - 1) : miner[h] # "none"
    /\ miner' = [miner EXCEPT ![g] = "select"]
    /\ overlapped' = (overlapped \/ \E h \in Miner : Alive(h))
    /\ UNCHANGED <<chain, made, base, notify, streams, stop, unsaved, received,
                   before, filled, panicked>>

(* The miner finds its channel closed.                                     *)
Exit(g) ==
    /\ stop # "returned"
    /\ miner[g] = "select"
    /\ miner' = [miner EXCEPT ![g] = "done"]
    /\ UNCHANGED <<chain, made, base, notify, streams, stop, history>>

(* mineBlocks goes on to the next block, unless it has been stopped; the   *)
(* block is validated against, and appended to, the chain as it is now.    *)
BeginBlock(g) ==
    /\ stop = "no"
    /\ miner[g] = "select"
    /\ miner' = [miner EXCEPT ![g] = "add"]
    /\ base' = [base EXCEPT ![g] = chain]
    /\ UNCHANGED <<chain, made, notify, streams, stop, history>>

(* bc.Blocks = append(bc.Blocks, newBlock)                                 *)
AppendBlock(g) ==
    /\ made < MaxBlocks
    /\ made' = made + 1
    /\ chain' = Append(base[g], made + 1)

(* AddBlock fails.  Nobody is told of a block that was appended and could  *)
(* not be saved.                                                           *)
AddBlockFails(g) ==
    /\ stop # "returned"
    /\ miner[g] = "add"
    /\ miner' = [miner EXCEPT ![g] = "select"]
    /\ base' = [base EXCEPT ![g] = <<>>]
    /\ \/ UNCHANGED <<chain, made, unsaved>>
       \/ AppendBlock(g) /\ unsaved' = unsaved \cup {made + 1}
    /\ UNCHANGED <<notify, streams, stop, overlapped, received, before, filled,
                   panicked>>

(* Not the code: subscribers are told of a block whatever AddBlock says.   *)
AddBlockOrNot(g) ==
    /\ stop # "returned"
    /\ miner[g] = "add"
    /\ miner' = [miner EXCEPT ![g] = "notify"]
    /\ base' = [base EXCEPT ![g] = <<>>]
    /\ made < MaxBlocks
    /\ AppendBlock(g) \/ UNCHANGED <<chain, made>>
    /\ notify' = [notify EXCEPT ![g] = [at |-> "wait", item |-> made + 1, next |-> 1]]
    /\ UNCHANGED <<streams, stop, history>>

(* AddBlock has appended the block and saved it; the miner notifies.       *)
AddBlock(g) ==
    /\ stop # "returned"
    /\ miner[g] = "add"
    /\ miner' = [miner EXCEPT ![g] = "notify"]
    /\ base' = [base EXCEPT ![g] = <<>>]
    /\ AppendBlock(g)
    /\ notify' = [notify EXCEPT ![g] = [at |-> "wait", item |-> made + 1, next |-> 1]]
    /\ UNCHANGED <<streams, stop, history>>

(* The state of the call, and of the miner, when turn n is the next: after *)
(* the last one the deferred RUnlock follows, the submission is answered   *)
(* and the miner goes on.                                                  *)
Turn(g, n) ==
    LET over == n > Len(subs[KindOf(g)]) IN
    /\ notify' = [notify EXCEPT ![g] =
                     IF ~over THEN [@ EXCEPT !.at = "send", !.next = n]
                     ELSE NoCall(IF g \in Miner THEN "idle" ELSE "done")]
    /\ miner' = IF over /\ g \in Miner THEN [miner EXCEPT ![g] = "select"] ELSE miner

RLock(g) ==
    /\ notify[g].at = "wait"
    /\ Turn(g, 1)
    /\ UNCHANGED <<chain, made, base, streams, stop, history>>

(* One turn of the loop over the list, for the channel that is next: what  *)
(* it holds afterwards.                                                    *)
Put(g, s, after) ==
    /\ notify[g].at = "send"
    /\ channel' = [channel EXCEPT ![s] = after]
    /\ filled' = IF Len(after) = Capacity THEN filled \cup {s} ELSE filled
    /\ panicked' = (panicked \/ s \in Closed)
    /\ UNCHANGED <<chain, made, base, subs, handler, left, stop, overlapped,
                   unsaved, received, before>>

Target(g) == subs[KindOf(g)][notify[g].next]

(* Not the code: one item too many.                                        *)
NotifyNextOverfull(g) ==
    LET s == Target(g) room == Len(channel[s]) <= Capacity IN
    /\ Put(g, s, IF room THEN Append(channel[s], notify[g].item) ELSE channel[s])
    /\ Turn(g, notify[g].next + 1)

(* Not the code: a channel that is full ends the loop.                     *)
NotifyNextBreaking(g) ==
    LET s == Target(g) room == Len(channel[s]) < Capacity IN
    /\ Put(g, s, IF room THEN Append(channel[s], notify[g].item) ELSE channel[s])
    /\ Turn(g, IF room THEN notify[g].next + 1 ELSE Len(subs[KindOf(g)]) + 1)

(* Not the code: the send has no default, and waits for room.              *)
NotifyNextBlocking(g) ==
    LET s == Target(g) IN
    /\ notify[g].at = "send"
    /\ Len(channel[s]) < Capacity
    /\ Put(g, s, Append(channel[s], notify[g].item))
    /\ Turn(g, notify[g].next + 1)

(* The item is put into the channel, or the channel is full and skipped.   *)
NotifyNext(g) ==
    LET s == Target(g) room == Len(channel[s]) < Capacity IN
    /\ Put(g, s, IF room THEN Append(channel[s], notify[g].item) ELSE channel[s])
    /\ Turn(g, notify[g].next + 1)

Notify(g) == RLock(g) \/ NotifyNext(g)

-----------------------------------------------------------------------------
(* The handler of a stream. *)

(* A client calls; the handler makes a channel and calls Lock.             *)
Subscribe(s, k) ==
    /\ stop = "no"
    /\ handler[s].at = "none" /\ Calls < MaxCalls
    /\ \A r \in 1..(s - 1) : handler[r].at # "none"
    /\ handler' = [handler EXCEPT ![s] = [at |-> "joining", kind |-> k, item |-> None]]
    /\ UNCHANGED <<ledger, notify, subs, channel, left, stop, history>>

Existing(k) == IF k = "block" THEN 1..made ELSE Submitted

(* The first critical section: the channel is listed.                      *)
Join(s) ==
    LET k == handler[s].kind IN
    /\ handler[s].at = "joining"
    /\ Readers = {}
    /\ subs' = [subs EXCEPT ![k] = Append(@, s)]
    /\ handler' = [handler EXCEPT ![s].at = "loop"]
    /\ before' = [before EXCEPT ![s] = Existing(k)]
    /\ UNCHANGED <<ledger, notify, channel, left, stop, overlapped, unsaved,
                   received, filled, panicked>>

(* select: an item is there.                                               *)
Receive(s) ==
    /\ handler[s].at = "loop"
    /\ channel[s] # <<>>
    /\ handler' = [handler EXCEPT ![s].at = "sending", ![s].item = Head(channel[s])]
    /\ channel' = [channel EXCEPT ![s] = Tail(@)]
    /\ UNCHANGED <<ledger, notify, subs, left, stop, history>>

(* stream.Send waits for a client that does not read.                      *)
Send(s) ==
    /\ handler[s].at = "sending"
    /\ s \notin left
    /\ handler' = [handler EXCEPT ![s].at = "loop", ![s].item = None]
    /\ received' = [received EXCEPT ![s] = Append(@, handler[s].item)]
    /\ UNCHANGED <<ledger, notify, subs, channel, left, stop,
                   overlapped, unsaved, before, filled, panicked>>

(* What happened to a stream that ends is of no interest any more.         *)
Forget(s) ==
    /\ received' = [received EXCEPT ![s] = <<>>]
    /\ before' = [before EXCEPT ![s] = {}]
    /\ filled' = filled \ {s}

(* Not the code: the loop has no case for the stream's context.            *)
ReturnFromSend(s) ==
    /\ handler[s].at = "sending"
    /\ s \in left
    /\ handler' = [handler EXCEPT ![s].at = "leaving", ![s].item = None]
    /\ Forget(s)
    /\ UNCHANGED <<ledger, notify, subs, channel, left, stop, overlapped,
                   unsaved, panicked>>

(* Not the code: close(ch) comes before the removal.                       *)
ReturnClosing(s) ==
    /\ handler[s].at \in {"loop", "sending"}
    /\ s \in left
    /\ handler' = [handler EXCEPT ![s].at = "done", ![s].item = None]
    /\ Forget(s)
    /\ UNCHANGED <<ledger, notify, subs, channel, left, stop, overlapped,
                   unsaved, panicked>>

(* select: the context is done; or Send returns an error.  The deferred    *)
(* function calls Lock.                                                    *)
Return(s) ==
    /\ handler[s].at \in {"loop", "sending"}
    /\ s \in left
    /\ handler' = [handler EXCEPT ![s].at = "leaving", ![s].item = None]
    /\ Forget(s)
    /\ UNCHANGED <<ledger, notify, subs, channel, left, stop, overlapped,
                   unsaved, panicked>>

(* The second critical section: the channel is taken off the list; then,   *)
(* out of everyone's reach, it is closed with what it still holds.         *)
Leave(s) ==
    /\ handler[s].at = "leaving"
    /\ Readers = {}
    /\ \E i \in DOMAIN subs[handler[s].kind] :
          /\ subs[handler[s].kind][i] = s
          /\ subs' = [subs EXCEPT ![handler[s].kind] = RemoveAt(@, i)]
    /\ handler' = [handler EXCEPT ![s] = [NoStream EXCEPT !.at = "done"]]
    /\ channel' = [channel EXCEPT ![s] = <<>>]
    /\ UNCHANGED <<ledger, notify, left, stop, history>>

Handle(s) ==
    \/ Join(s) \/ Receive(s) \/ Return(s) \/ Leave(s)

(* The client cancels, or its connection breaks.                           *)
ClientLeaves(s) ==
    /\ handler[s].at \in {"joining", "loop", "sending"}
    /\ s \notin left
    /\ left' = left \cup {s}
    /\ UNCHANGED <<ledger, notify, subs, channel, handler, stop, history>>

-----------------------------------------------------------------------------
(* Stop: mining is stopped, and GracefulStop takes no new calls ...        *)
Stop ==
    /\ stop = "no"
    /\ stop' = "waiting"
    /\ UNCHANGED <<ledger, notify, streams, history>>

(* ... and waits for the calls that run; then cmd/node-grpc ends.          *)
StopReturns ==
    /\ stop = "waiting"
    /\ \A s \in Stream : handler[s].at \in {"none", "done"}
    /\ \A t \in Tx : notify[t].at \in {"unsent", "done"}
    /\ stop' = "returned"
    /\ UNCHANGED <<ledger, notify, streams, history>>

Mine(g) ==
    StartMining(g) \/ Exit(g) \/ BeginBlock(g) \/ AddBlockFails(g) \/ AddBlock(g)

Next ==
    \/ \E t \in Tx : SubmitTransaction(t)
    \/ \E g \in Miner : Mine(g)
    \/ \E g \in Notifier : Notify(g)
    \/ \E s \in Stream : (\E k \in Kind : Subscribe(s, k)) \/ Handle(s) \/ Send(s)
                         \/ ClientLeaves(s)
    \/ Stop \/ StopReturns

Spec == Init /\ [][Next]_vars

(* Goroutines are scheduled, and GracefulStop notices that it is done.  A  *)
(* client need not read, nor leave.                                        *)
Fairness ==
    /\ \A g \in Notifier : WF_vars(Notify(g))
    /\ \A s \in Stream : WF_vars(Handle(s))
    /\ WF_vars(StopReturns)

FairSpec == Spec /\ Fairness

-----------------------------------------------------------------------------
Item == (1..MaxBlocks) \cup Tx

TypeOK ==
    /\ made \in 1..MaxBlocks /\ chain \in Seq(1..MaxBlocks)
    /\ miner \in [Miner -> {"none", "select", "add", "notify", "done"}]
    /\ base \in [Miner -> Seq(1..MaxBlocks)]
    /\ overlapped \in BOOLEAN
    /\ notify \in [Notifier -> [at : {"unsent", "idle", "wait", "send", "done"},
                                item : Item \cup {None}, next : Nat \ {0}]]
    /\ subs \in [Kind -> Seq(Stream)]
    /\ channel \in [Stream -> Seq(Item)]
    /\ \A s \in Stream : Len(channel[s]) <= Capacity
    /\ handler \in [Stream -> [at : {"none", "joining", "loop", "sending",
                                     "leaving", "done"},
                               kind : Kind, item : Item \cup {None}]]
    /\ unsaved \subseteq 1..MaxBlocks
    /\ left \subseteq Stream /\ filled \subseteq Stream
    /\ stop \in {"no", "waiting", "returned"}
    /\ received \in [Stream -> Seq(Item)]
    /\ before \in [Stream -> SUBSET Item]
    /\ panicked \in BOOLEAN

(* No channel is sent to after its handler has closed it: the removal      *)
(* waits for the notifiers that are stepping through the list.             *)
NoSendOnClosed == ~panicked

(* What a stream has been given, sent or not.                              *)
Given(s) ==
    received[s]
    \o (IF handler[s].at = "sending" THEN <<handler[s].item>> ELSE <<>>)
    \o channel[s]

(* Subscribers are told of blocks that were appended and saved, and never  *)
(* twice of one; and as long as no miner is started while another lives,   *)
(* of blocks that are on the chain, in the order of the chain.             *)
ToldInOrder ==
    \A s \in Stream :
        handler[s].at \in {"loop", "sending"} /\ handler[s].kind = "block" =>
            /\ \A i \in DOMAIN Given(s) : Given(s)[i] \in (1..made) \ unsaved
            /\ \A i, j \in DOMAIN Given(s) : Given(s)[i] = Given(s)[j] => i = j
            /\ ~overlapped =>
                  \A i, j \in DOMAIN Given(s) : i <= j =>
                      \E p, q \in DOMAIN chain :
                          p <= q /\ chain[p] = Given(s)[i] /\ chain[q] = Given(s)[j]

(* What the notifiers are through with.                                    *)
Notified(k) ==
    IF k = "block" THEN (1..made) \ (unsaved \cup {notify[g].item : g \in Miner})
                   ELSE {t \in Tx : notify[t].at = "done"}

(* A stream whose channel was never full has been given everything that    *)
(* came after it was listed, whoever else subscribed, left or was slow.    *)
MissesOnlyWhenFull ==
    \A s \in Stream :
        handler[s].at \in {"loop", "sending"} /\ s \notin filled =>
            Notified(handler[s].kind) \ before[s] \subseteq ToSet(Given(s))

(* Notifying comes to an end, whatever the clients do: the miners and the  *)
(* submitters are never held up by a subscriber.                           *)
NotifyEnds ==
    \A g \in Notifier :
        notify[g].at \in {"wait", "send"} ~> notify[g].at \in {"idle", "done"}

(* Once Stop is called and every client has gone, Stop returns.            *)
StopEnds ==
    (stop = "waiting" /\ \A s \in Stream : handler[s].at # "none" => s \in left)
        ~> stop = "returned"
=============================================================================
