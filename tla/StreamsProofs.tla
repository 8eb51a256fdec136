--------------------------- MODULE StreamsProofs ---------------------------
(***************************************************************************)
(* Proofs about Streams, for any number of streams, submissions and        *)
(* blocks, and any capacity of the channels.                               *)
(***************************************************************************)
EXTENDS Streams, Facts

-----------------------------------------------------------------------------
(* The inductive invariant, in named parts. *)

(* The handlers whose channel is listed.                                   *)
Listed(s) == handler[s].at \in {"loop", "sending", "leaving"}

(* The handlers that still serve their client.                             *)
Serving(s) == handler[s].at \in {"loop", "sending"}

(* The two lists hold exactly the channels of the handlers that joined and *)
(* have not taken theirs off yet, each one once.                           *)
ListsExact ==
    \A k \in Kind :
        /\ \A i \in 1..Len(subs[k]) :
              Listed(subs[k][i]) /\ handler[subs[k][i]].kind = k
        /\ \A i, j \in 1..Len(subs[k]) : subs[k][i] = subs[k][j] => i = j
        /\ \A s \in Stream : Listed(s) /\ handler[s].kind = k =>
              \E i \in 1..Len(subs[k]) : subs[k][i] = s

(* A notifier that holds the read lock is at a place of its list.          *)
TurnInList ==
    \A g \in Notifier : notify[g].at = "send" =>
        notify[g].next \in 1..Len(subs[KindOf(g)])

(* What a call carries, and that a miner makes one for each new block it   *)
(* has saved.                                                              *)
CallsKnown ==
    /\ unsaved \subseteq 1..made
    /\ \A g \in Miner :
          /\ notify[g].at \in {"idle", "wait", "send"}
          /\ miner[g] = "notify" <=> notify[g].at # "idle"
          /\ notify[g].at # "idle" => notify[g].item \in (1..made) \ unsaved
    /\ \A g, h \in Miner :
          /\ notify[g].at # "idle" /\ notify[h].at # "idle"
          /\ notify[g].item = notify[h].item
          => g = h
    /\ \A t \in Tx :
          /\ notify[t].at # "idle"
          /\ notify[t].at \in {"wait", "send"} => notify[t].item = t

(* Without an overlap one miner lives at most, the chain has every block   *)
(* that was appended, and the newest is the one that is being told.        *)
OneMiner ==
    ~overlapped =>
        /\ \A g, h \in Miner : Alive(g) /\ Alive(h) => g = h
        /\ Len(chain) = made /\ \A b \in 1..made : chain[b] = b
        /\ \A g \in Miner : miner[g] = "add" => base[g] = chain
        /\ \A g \in Miner : miner[g] = "notify" => notify[g].item = made

(* The loop of g has been past the channel of s.                           *)
Passed(g, s) ==
    /\ notify[g].at = "send"
    /\ \E i \in 1..(notify[g].next - 1) : subs[KindOf(g)][i] = s

(* The blocks and submissions whose notifier is through with its list.     *)
Told(k) ==
    IF k = "block" THEN {b \in (1..made) \ unsaved :
                            \A g \in Miner : notify[g].at # "idle" => notify[g].item # b}
                   ELSE {t \in Tx : notify[t].at = "done"}

(* A channel is empty until it is listed; what is being sent is an item.   *)
Fresh(s) ==
    /\ handler[s].at \in {"none", "joining"} => channel[s] = <<>> /\ received[s] = <<>>
    /\ handler[s].at = "sending" => handler[s].item \in Item

RoomUnlessFilled(s) == Serving(s) /\ s \notin filled => Len(channel[s]) < Capacity

(* ToldInOrder for s; and until a miner gets to s, s has not been given    *)
(* the block being told, nor, without an overlap, a newer one.             *)
InOrder(s) ==
    Serving(s) /\ handler[s].kind = "block" =>
        /\ \A i \in DOMAIN Given(s) : Given(s)[i] \in (1..made) \ unsaved
        /\ \A i, j \in DOMAIN Given(s) : Given(s)[i] = Given(s)[j] => i = j
        /\ \A g \in Miner : notify[g].at # "idle" /\ ~Passed(g, s) =>
              \A i \in DOMAIN Given(s) : Given(s)[i] # notify[g].item
        /\ ~overlapped =>
              /\ \A i, j \in DOMAIN Given(s) : i < j => Given(s)[i] < Given(s)[j]
              /\ \A g \in Miner : notify[g].at # "idle" /\ ~Passed(g, s) =>
                    \A i \in DOMAIN Given(s) : Given(s)[i] < notify[g].item

(* A stream the loop has been past has the item, unless it was full.       *)
PassedHasItem(s) ==
    \A g \in Notifier :
        /\ Serving(s) /\ handler[s].kind = KindOf(g) /\ s \notin filled
        /\ Passed(g, s) /\ notify[g].item \notin before[s]
        => notify[g].item \in ToSet(Given(s))

(* A stream has everything that was told, unless it was full.              *)
HasWhatWasTold(s) ==
    Serving(s) /\ s \notin filled =>
        Told(handler[s].kind) \ before[s] \subseteq ToSet(Given(s))

StreamOK(s) ==
    /\ Fresh(s)
    /\ RoomUnlessFilled(s)
    /\ InOrder(s)
    /\ PassedHasItem(s)
    /\ HasWhatWasTold(s)

IInv ==
    /\ TypeOK
    /\ ListsExact
    /\ TurnInList
    /\ CallsKnown
    /\ OneMiner
    /\ NoSendOnClosed
    /\ \A s \in Stream : StreamOK(s)

-----------------------------------------------------------------------------
(* Facts about sequences. *)

(* Receiving moves the head of the channel next to what was received.     *)
LEMMA HeadMoves ==
    ASSUME NEW S, NEW r \in Seq(S), NEW c \in Seq(S), c # <<>>
    PROVE  r \o <<Head(c)>> \o Tail(c) = r \o <<>> \o c
  <1>1. <<Head(c)>> \o Tail(c) = c
    BY TailFacts, SameSeq
  <1> QED BY <1>1, TailFacts

(* Sending moves it on.                                                   *)
LEMMA SentMoves ==
    ASSUME NEW S, NEW r \in Seq(S), NEW c \in Seq(S), NEW e \in S
    PROVE  Append(r, e) \o <<>> \o c = r \o <<e>> \o c
  OBVIOUS

(* An item put into a channel is the last one given.                      *)
LEMMA AppendMoves ==
    ASSUME NEW S, NEW r \in Seq(S), NEW c \in Seq(S), NEW e \in S
    PROVE  r \o Append(c, e) = Append(r \o c, e)
  OBVIOUS

(* What taking one element off a list leaves.                             *)
LEMMA RemoveFacts ==
    ASSUME NEW S, NEW s \in Seq(S), NEW i \in 1..Len(s)
    PROVE  /\ RemoveAt(s, i) \in Seq(S)
           /\ Len(RemoveAt(s, i)) = Len(s) - 1
           /\ \A j \in 1..(Len(s) - 1) :
                 RemoveAt(s, i)[j] = IF j < i THEN s[j] ELSE s[j + 1]
  <1> DEFINE a == SubSeq(s, 1, i - 1)  b == SubSeq(s, i + 1, Len(s))
  <1>1. /\ a \in Seq(S) /\ Len(a) = i - 1
        /\ \A j \in 1..(i - 1) : a[j] = s[j]
    OBVIOUS
  <1>2. /\ b \in Seq(S) /\ Len(b) = Len(s) - i
        /\ \A j \in 1..(Len(s) - i) : b[j] = s[j + i]
    OBVIOUS
  <1>3. RemoveAt(s, i) = a \o b
    BY DEF RemoveAt
  <1> HIDE DEF a, b
  <1>4. a \o b \in Seq(S) /\ Len(a \o b) = Len(s) - 1
    <2>1. a \o b \in Seq(S) /\ Len(a \o b) = Len(a) + Len(b)
      BY <1>1, <1>2, ConcatFacts
    <2> QED BY <1>1, <1>2, <2>1
  <1>5. ASSUME NEW j \in 1..(Len(s) - 1)
        PROVE  (a \o b)[j] = IF j < i THEN s[j] ELSE s[j + 1]
    <2>1. CASE j < i
      BY <1>1, <1>2, <2>1, ConcatFacts
    <2>2. CASE ~(j < i)
      <3>1. j - (i - 1) \in 1..Len(b) /\ j = Len(a) + (j - (i - 1))
        BY SMTT(30), <1>1, <1>2, <2>2
      <3> DEFINE n == j - (i - 1)
      <3>3. n \in 1..Len(b) /\ j = Len(a) + n
        BY <3>1
      <3> HIDE DEF n
      <3>4. (a \o b)[Len(a) + n] = b[n]
        BY <1>1, <1>2, <3>3, ConcatFacts
      <3>2. (a \o b)[j] = b[j - (i - 1)]
        BY <3>3, <3>4 DEF n
      <3> QED BY <1>2, <2>2, <3>1, <3>2
    <2> QED BY <2>1, <2>2
  <1> QED BY <1>3, <1>4, <1>5

-----------------------------------------------------------------------------
(* Facts about the state. *)

(* What a stream has been given is a sequence of items.                   *)
LEMMA GivenIsSeq ==
    ASSUME IInv, NEW s \in Stream
    PROVE  Given(s) \in Seq(Item) /\ DOMAIN Given(s) = 1..Len(Given(s))
  <1>1. received[s] \in Seq(Item) /\ channel[s] \in Seq(Item)
    BY DEF IInv, TypeOK
  <1>2. handler[s].at = "sending" => handler[s].item \in Item
    BY DEF IInv, StreamOK, Fresh
  <1> QED BY <1>1, <1>2 DEF Given

(* It is a matter of the stream's own handler, channel and client.         *)
LEMMA GivenKept ==
    ASSUME NEW s \in Stream, handler'[s] = handler[s],
           channel'[s] = channel[s], received'[s] = received[s]
    PROVE  Given(s)' = Given(s)
  BY Zenon DEF Given

(* A notifier carries an item, and has a list.                             *)
LEMMA ItemKnown ==
    ASSUME IInv, NEW g \in Notifier, notify[g].at \in {"wait", "send"}
    PROVE  notify[g].item \in Item /\ KindOf(g) \in Kind
  BY StreamsAssumption
  DEF IInv, TypeOK, CallsKnown, Notifier, Item, KindOf, Kind

(* The channel whose turn it is belongs to a handler that has not closed   *)
(* it, and to no one the loop has been past.                               *)
LEMMA TargetListed ==
    ASSUME IInv, NEW g \in Notifier, notify[g].at = "send"
    PROVE  /\ Target(g) \in Stream
           /\ Listed(Target(g)) /\ handler[Target(g)].kind = KindOf(g)
           /\ ~Passed(g, Target(g))
  <1>1. KindOf(g) \in Kind /\ subs[KindOf(g)] \in Seq(Stream)
    BY ItemKnown DEF IInv, TypeOK
  <1>2. notify[g].next \in 1..Len(subs[KindOf(g)])
    BY DEF IInv, TurnInList
  <1>3. Target(g) \in Stream
    BY <1>1, <1>2, ElementIn DEF Target
  <1> QED BY SMTT(30), <1>1, <1>2, <1>3 DEF IInv, ListsExact, Target, Passed

(* When the loop is through, it has been past every stream of the list     *)
(* but the one whose turn it was.                                          *)
LEMMA LastTurn ==
    ASSUME IInv, NEW g \in Notifier, notify[g].at = "send",
           notify[g].next + 1 > Len(subs[KindOf(g)]),
           NEW s \in Stream, Serving(s), handler[s].kind = KindOf(g),
           s # Target(g)
    PROVE  Passed(g, s)
  <1>1. KindOf(g) \in Kind /\ subs[KindOf(g)] \in Seq(Stream)
    BY ItemKnown DEF IInv, TypeOK
  <1>2. notify[g].next = Len(subs[KindOf(g)])
    BY <1>1 DEF IInv, TurnInList
  <1>3. PICK i \in 1..Len(subs[KindOf(g)]) : subs[KindOf(g)][i] = s
    BY <1>1 DEF IInv, ListsExact, Listed, Serving
  <1>4. i # notify[g].next
    BY <1>3 DEF Target
  <1> QED BY <1>1, <1>2, <1>3, <1>4 DEF Passed

(* The lists stay exact while nobody joins or leaves.                      *)
LEMMA ListsKept ==
    ASSUME IInv, subs' = subs,
           \A r \in Stream :
               /\ Listed(r)' <=> Listed(r)
               /\ Listed(r) => handler'[r].kind = handler[r].kind
    PROVE  ListsExact'
  <1> SUFFICES ASSUME NEW l \in Kind
               PROVE  /\ \A i \in 1..Len(subs[l]) :
                            Listed(subs[l][i])' /\ handler'[subs[l][i]].kind = l
                      /\ \A i, j \in 1..Len(subs[l]) : subs[l][i] = subs[l][j] => i = j
                      /\ \A r \in Stream : Listed(r)' /\ handler'[r].kind = l =>
                            \E i \in 1..Len(subs[l]) : subs[l][i] = r
    BY DEF ListsExact, Listed
  <1>1. \A i \in 1..Len(subs[l]) : subs[l][i] \in Stream
    BY ElementIn DEF IInv, TypeOK
  <1>2. /\ \A i \in 1..Len(subs[l]) : Listed(subs[l][i]) /\ handler[subs[l][i]].kind = l
        /\ \A i, j \in 1..Len(subs[l]) : subs[l][i] = subs[l][j] => i = j
        /\ \A r \in Stream : Listed(r) /\ handler[r].kind = l =>
              \E i \in 1..Len(subs[l]) : subs[l][i] = r
    BY DEF IInv, ListsExact
  <1>3. ASSUME NEW i \in 1..Len(subs[l])
        PROVE  Listed(subs[l][i])' /\ handler'[subs[l][i]].kind = l
    BY <1>1, <1>2
  <1> QED BY <1>1, <1>2, <1>3

(* Nothing changes for a stream while its handler, its channel, its client *)
(* and the loops that reach it stay as they are, and what was told does    *)
(* not grow.                                                               *)
LEMMA StreamKept ==
    ASSUME NEW s \in Stream, StreamOK(s),
           handler'[s] = handler[s], channel'[s] = channel[s],
           received'[s] = received[s], before'[s] = before[s],
           s \in filled <=> s \in filled',
           made' = made, unsaved' = unsaved, overlapped => overlapped',
           \A g \in Miner :
               /\ notify'[g].at # "idle" =>
                     notify[g].at # "idle" /\ notify'[g].item = notify[g].item
               /\ Passed(g, s)' <=> Passed(g, s),
           \A g \in Notifier : Passed(g, s)' =>
               Passed(g, s) /\ notify'[g].item = notify[g].item,
           Told(handler[s].kind)' \subseteq Told(handler[s].kind)
    PROVE  StreamOK(s)'
  <1>1. Given(s)' = Given(s) /\ (Serving(s)' <=> Serving(s))
    BY GivenKept DEF Serving
  <1>2. Fresh(s)' /\ RoomUnlessFilled(s)'
    BY <1>1 DEF StreamOK, Fresh, RoomUnlessFilled
  <1>3. InOrder(s)'
    BY <1>1 DEF StreamOK, InOrder
  <1>4. PassedHasItem(s)'
    BY <1>1 DEF StreamOK, PassedHasItem
  <1>5. HasWhatWasTold(s)'
    BY <1>1 DEF StreamOK, HasWhatWasTold
  <1> QED BY <1>2, <1>3, <1>4, <1>5 DEF StreamOK

(* What a turn does to the notifier, and to the miner.                     *)
LEMMA TurnFacts ==
    ASSUME IInv, NEW g \in Notifier, notify[g].at \in {"wait", "send"},
           NEW n \in Nat \ {0}, Turn(g, n)
    PROVE  /\ notify' \in [Notifier -> [at : {"unsent", "idle", "wait", "send", "done"},
                                        item : Item \cup {None}, next : Nat \ {0}]]
           /\ \A h \in Notifier : h # g => notify'[h] = notify[h]
           /\ n <= Len(subs[KindOf(g)]) =>
                 /\ notify'[g].at = "send" /\ notify'[g].next = n
                 /\ notify'[g].item = notify[g].item /\ miner' = miner
           /\ n > Len(subs[KindOf(g)]) =>
                 /\ notify'[g].at = IF g \in Miner THEN "idle" ELSE "done"
                 /\ miner' = IF g \in Miner THEN [miner EXCEPT ![g] = "select"] ELSE miner
  <1>1. Len(subs[KindOf(g)]) \in Nat
    BY ItemKnown DEF IInv, TypeOK
  <1>2. notify \in [Notifier -> [at : {"unsent", "idle", "wait", "send", "done"},
                                 item : Item \cup {None}, next : Nat \ {0}]]
    BY DEF IInv, TypeOK
  <1>3. CASE n > Len(subs[KindOf(g)])
    <2>1. /\ notify' = [notify EXCEPT ![g] =
                           NoCall(IF g \in Miner THEN "idle" ELSE "done")]
          /\ miner' = IF g \in Miner THEN [miner EXCEPT ![g] = "select"] ELSE miner
      BY <1>1, <1>3 DEF Turn
    <2> QED BY <1>1, <1>2, <1>3, <2>1 DEF NoCall
  <1>4. CASE ~(n > Len(subs[KindOf(g)]))
    <2>1. /\ notify' = [notify EXCEPT ![g] = [@ EXCEPT !.at = "send", !.next = n]]
          /\ miner' = miner
      BY <1>1, <1>4 DEF Turn
    <2> QED BY <1>1, <1>2, <1>4, <2>1
  <1> QED BY <1>3, <1>4

(* ... to the places in the lists, and to what the calls carry ...         *)
LEMMA TurnKeeps ==
    ASSUME IInv, NEW g \in Notifier, notify[g].at \in {"wait", "send"},
           NEW n \in Nat \ {0}, Turn(g, n),
           UNCHANGED <<chain, made, base, subs, unsaved, overlapped>>
    PROVE  TurnInList' /\ CallsKnown' /\ OneMiner'
  <1>1. /\ Len(subs[KindOf(g)]) \in Nat
        /\ Miner \subseteq Notifier /\ Tx \subseteq Notifier
        /\ miner \in [Miner -> {"none", "select", "add", "notify", "done"}]
    BY ItemKnown DEF IInv, TypeOK, Notifier
  <1>2. TurnInList'
    BY <1>1, TurnFacts DEF IInv, TurnInList
  <1> DEFINE over == n > Len(subs[KindOf(g)])
  <1>3. /\ \A h \in Notifier : h # g => notify'[h] = notify[h]
        /\ ~over => /\ notify'[g].at = "send" /\ notify'[g].item = notify[g].item
                    /\ miner' = miner
        /\ over => /\ notify'[g].at = IF g \in Miner THEN "idle" ELSE "done"
                   /\ miner' = IF g \in Miner THEN [miner EXCEPT ![g] = "select"] ELSE miner
    BY <1>1, TurnFacts
  <1> HIDE DEF over
  <1>4. CASE g \in Miner
    <2>1. /\ \A t \in Tx : notify'[t] = notify[t]
          /\ \A h \in Miner : h # g => notify'[h] = notify[h] /\ miner'[h] = miner[h]
          /\ notify[g].at # "idle" /\ miner[g] = "notify"
          /\ \/ notify'[g].at = "send" /\ notify'[g].item = notify[g].item
                /\ miner'[g] = "notify"
             \/ notify'[g].at = "idle" /\ miner'[g] = "select"
      BY <1>1, <1>3, <1>4, StreamsAssumption DEF IInv, CallsKnown
    <2>2. CallsKnown'
      BY <1>4, <2>1 DEF IInv, CallsKnown
    <2>3. OneMiner'
      BY <1>4, <2>1 DEF IInv, OneMiner, Alive
    <2> QED BY <1>2, <2>2, <2>3
  <1>5. CASE g \in Tx
    <2>1. /\ miner' = miner /\ \A h \in Miner : notify'[h] = notify[h]
          /\ \A t \in Tx : t # g => notify'[t] = notify[t]
          /\ notify'[g].at # "idle"
          /\ notify'[g].at \in {"wait", "send"} => notify'[g].item = notify[g].item
      BY <1>1, <1>3, <1>5, StreamsAssumption DEF IInv, CallsKnown
    <2>2. CallsKnown'
      BY <1>5, <2>1 DEF IInv, CallsKnown
    <2>3. OneMiner'
      BY <2>1 DEF IInv, OneMiner, Alive
    <2> QED BY <1>2, <2>2, <2>3
  <1> QED BY <1>2, <1>4, <1>5 DEF Notifier

(* ... and to what was told: the item, if the loop is through.             *)
LEMMA TurnTells ==
    ASSUME IInv, NEW g \in Notifier, notify[g].at \in {"wait", "send"},
           NEW n \in Nat \ {0}, Turn(g, n), UNCHANGED <<made, unsaved>>,
           NEW k \in Kind
    PROVE  \/ Told(k)' \subseteq Told(k)
           \/ /\ k = KindOf(g) /\ n > Len(subs[k])
              /\ Told(k)' \subseteq Told(k) \cup {notify[g].item}
  <1>1. /\ Len(subs[KindOf(g)]) \in Nat
        /\ Miner \subseteq Notifier /\ Tx \subseteq Notifier
    BY ItemKnown DEF IInv, TypeOK, Notifier
  <1>2. CASE n <= Len(subs[KindOf(g)])
    BY <1>1, <1>2, TurnFacts, StreamsAssumption DEF IInv, CallsKnown, Told
  <1>3. CASE n > Len(subs[KindOf(g)]) /\ g \in Miner
    <2>1. /\ \A h \in Notifier : h # g => notify'[h] = notify[h]
          /\ notify'[g].at = "idle" /\ KindOf(g) = "block" /\ g \notin Tx
      BY <1>3, TurnFacts, StreamsAssumption DEF KindOf
    <2> QED BY <1>1, <1>3, <2>1 DEF Told
  <1>4. CASE n > Len(subs[KindOf(g)]) /\ g \in Tx
    BY <1>1, <1>4, TurnFacts, StreamsAssumption DEF IInv, CallsKnown, Told, KindOf, Kind
  <1> QED BY <1>1, <1>2, <1>3, <1>4 DEF Notifier

-----------------------------------------------------------------------------
(* Each action preserves the invariant. *)

(* The initial state satisfies the invariant.                              *)
LEMMA InitEstablishes == Init => IInv
  <1> SUFFICES ASSUME Init PROVE IInv
    OBVIOUS
  <1> USE StreamsAssumption DEF Init, NoCall, NoStream
  <1>1. TypeOK
    <2>1. notify \in [Notifier -> [at : {"unsent", "idle", "wait", "send", "done"},
                                   item : Item \cup {None}, next : Nat \ {0}]]
      OBVIOUS
    <2>2. handler \in [Stream -> [at : {"none", "joining", "loop", "sending",
                                        "leaving", "done"},
                                  kind : Kind, item : Item \cup {None}]]
      BY DEF Kind
    <2>3. /\ channel \in [Stream -> Seq(Item)] /\ received \in [Stream -> Seq(Item)]
          /\ subs \in [Kind -> Seq(Stream)] /\ before \in [Stream -> SUBSET Item]
      OBVIOUS
    <2>4. /\ made \in 1..MaxBlocks /\ chain \in Seq(1..MaxBlocks)
          /\ base \in [Miner -> Seq(1..MaxBlocks)]
          /\ \A s \in Stream : Len(channel[s]) <= Capacity
      OBVIOUS
    <2> QED BY <2>1, <2>2, <2>3, <2>4 DEF TypeOK
  <1>2. ListsExact /\ TurnInList /\ CallsKnown /\ OneMiner /\ NoSendOnClosed
    BY DEF ListsExact, TurnInList, CallsKnown, OneMiner, Alive, NoSendOnClosed,
           Notifier, Listed
  <1>3. \A s \in Stream : StreamOK(s)
    BY DEF StreamOK, Fresh, RoomUnlessFilled, InOrder, PassedHasItem,
           HasWhatWasTold, Serving
  <1> QED BY <1>1, <1>2, <1>3 DEF IInv

(* A step that leaves the lists, the channels, the handlers and the        *)
(* notifiers alone preserves it.                                           *)
LEMMA QuietStep ==
    ASSUME IInv, TypeOK', OneMiner',
           UNCHANGED <<made, notify, subs, channel, handler, unsaved, received,
                       before, filled, panicked>>,
           overlapped => overlapped',
           \A g \in Miner : miner'[g] = "notify" <=> miner[g] = "notify"
    PROVE  IInv'
  <1> USE DEF IInv
  <1>1. ListsExact' /\ TurnInList' /\ CallsKnown' /\ NoSendOnClosed'
    BY DEF ListsExact, TurnInList, CallsKnown, NoSendOnClosed, Listed
  <1>2. ASSUME NEW s \in Stream PROVE StreamOK(s)'
    BY StreamKept DEF Passed, Told
  <1> QED BY <1>1, <1>2

(* A step that changes no variable preserves the invariant.                *)
LEMMA StutterPreserves == IInv /\ UNCHANGED vars => IInv'
  <1> SUFFICES ASSUME IInv, UNCHANGED vars PROVE IInv'
    OBVIOUS
  <1> USE DEF vars, ledger, streams, history
  <1>1. TypeOK' /\ OneMiner'
    BY DEF IInv, TypeOK, OneMiner, Alive
  <1> QED BY <1>1, QuietStep

(* Neither a miner that starts, ends or goes on, nor the two ends of Stop  *)
(* touch what subscribers see, and no more does a client that leaves.      *)
LEMMA QuietActionsStep ==
    ASSUME IInv,
           \/ \E g \in Miner : StartMining(g) \/ Exit(g) \/ BeginBlock(g)
           \/ Stop \/ StopReturns
           \/ \E s \in Stream : ClientLeaves(s)
    PROVE  IInv'
  <1> USE DEF ledger, streams, history
  <1>1. ASSUME NEW g \in Miner, StartMining(g) PROVE IInv'
    <2>1. TypeOK'
      BY <1>1 DEF StartMining, IInv, TypeOK
    <2>2. /\ miner[g] = "none" /\ miner'[g] = "select"
          /\ \A h \in Miner : h # g => miner'[h] = miner[h]
      BY <1>1 DEF StartMining, IInv, TypeOK
    <2>3. OneMiner'
      BY <1>1, <2>2 DEF StartMining, IInv, OneMiner, Alive
    <2>4. /\ \A h \in Miner : miner'[h] = "notify" <=> miner[h] = "notify"
          /\ overlapped => overlapped'
      BY <1>1, <2>2 DEF StartMining
    <2> QED BY <1>1, <2>1, <2>3, <2>4, QuietStep DEF StartMining
  <1>2. ASSUME NEW g \in Miner, Exit(g) PROVE IInv'
    <2>1. TypeOK'
      BY <1>2 DEF Exit, IInv, TypeOK
    <2>2. /\ miner[g] = "select" /\ miner'[g] = "done"
          /\ \A h \in Miner : h # g => miner'[h] = miner[h]
      BY <1>2 DEF Exit, IInv, TypeOK
    <2>3. OneMiner'
      BY <1>2, <2>2 DEF Exit, IInv, OneMiner, Alive
    <2>4. \A h \in Miner : miner'[h] = "notify" <=> miner[h] = "notify"
      BY <2>2
    <2> QED BY <1>2, <2>1, <2>3, <2>4, QuietStep DEF Exit
  <1>3. ASSUME NEW g \in Miner, BeginBlock(g) PROVE IInv'
    <2>1. TypeOK'
      BY <1>3 DEF BeginBlock, IInv, TypeOK
    <2>2. /\ miner[g] = "select" /\ miner'[g] = "add" /\ base'[g] = chain
          /\ \A h \in Miner : h # g => miner'[h] = miner[h] /\ base'[h] = base[h]
      BY <1>3 DEF BeginBlock, IInv, TypeOK
    <2>3. OneMiner'
      BY <1>3, <2>2 DEF BeginBlock, IInv, OneMiner, Alive
    <2>4. \A h \in Miner : miner'[h] = "notify" <=> miner[h] = "notify"
      BY <2>2
    <2> QED BY <1>3, <2>1, <2>3, <2>4, QuietStep DEF BeginBlock
  <1>4. CASE Stop \/ StopReturns
    <2>1. TypeOK' /\ OneMiner'
      BY <1>4 DEF Stop, StopReturns, IInv, TypeOK, OneMiner, Alive
    <2> QED BY <1>4, <2>1, QuietStep DEF Stop, StopReturns
  <1>5. ASSUME NEW s \in Stream, ClientLeaves(s) PROVE IInv'
    <2>1. TypeOK' /\ OneMiner'
      BY <1>5 DEF ClientLeaves, IInv, TypeOK, OneMiner, Alive
    <2> QED BY <1>5, <2>1, QuietStep DEF ClientLeaves
  <1> QED BY <1>1, <1>2, <1>3, <1>4, <1>5

(* A submission that begins to notify has not been past any stream.        *)
LEMMA SubmitTransactionStep ==
    ASSUME IInv, NEW t \in Tx, SubmitTransaction(t)
    PROVE  IInv'
  <1> USE StreamsAssumption DEF IInv, SubmitTransaction, ledger, streams, history
  <1>0. t \in Notifier /\ t \in Item /\ t \notin Miner
    BY DEF Notifier, Item
  <1>5. \A h \in Notifier : h # t => notify'[h] = notify[h]
    BY DEF TypeOK
  <1>1. TypeOK'
    BY <1>0 DEF TypeOK
  <1>2. ListsExact' /\ NoSendOnClosed'
    BY DEF ListsExact, NoSendOnClosed, Listed
  <1>3. TurnInList' /\ CallsKnown' /\ OneMiner'
    <2>1. notify'[t].at = "wait" /\ notify'[t].item = t
      BY <1>0 DEF TypeOK
    <2>2. CallsKnown' /\ OneMiner'
      BY <1>0, <1>5, <2>1 DEF CallsKnown, OneMiner, Alive, Notifier
    <2>3. TurnInList'
      BY <1>0, <1>5, <2>1 DEF TurnInList
    <2> QED BY <2>2, <2>3
  <1>4. ASSUME NEW s \in Stream PROVE StreamOK(s)'
    <2>1. \A g \in Notifier : Passed(g, s)' =>
              Passed(g, s) /\ notify'[g].item = notify[g].item
      BY <1>0 DEF TypeOK, Passed
    <2>2. \A g \in Miner : notify'[g] = notify[g] /\ (Passed(g, s)' <=> Passed(g, s))
      BY <1>0, <1>5 DEF Passed, Notifier
    <2>3. Told(handler[s].kind)' \subseteq Told(handler[s].kind)
      BY <1>0, <1>5, <2>2 DEF Told, TypeOK, Notifier
    <2> QED BY <2>1, <2>2, <2>3, StreamKept
  <1> QED BY <1>1, <1>2, <1>3, <1>4

(* An append adds the next number; without an overlap, to the whole chain. *)
LEMMA AppendBlockFacts ==
    ASSUME IInv, NEW g \in Miner, AppendBlock(g)
    PROVE  /\ made \in Nat /\ made' = made + 1 /\ made' \in 1..MaxBlocks
           /\ chain' \in Seq(1..MaxBlocks)
           /\ ~overlapped /\ miner[g] = "add" =>
                 Len(chain') = made' /\ \A b \in 1..made' : chain'[b] = b
  <1>1. made \in Nat /\ made' = made + 1 /\ made' \in 1..MaxBlocks
    BY StreamsAssumption DEF IInv, TypeOK, AppendBlock
  <1>2. base[g] \in Seq(1..MaxBlocks) /\ chain' = Append(base[g], made')
    BY <1>1 DEF IInv, TypeOK, AppendBlock
  <1>3. /\ chain' \in Seq(1..MaxBlocks) /\ Len(chain') = Len(base[g]) + 1
        /\ \A b \in 1..Len(base[g]) : chain'[b] = base[g][b]
        /\ chain'[Len(base[g]) + 1] = made'
    BY <1>1, <1>2, AppendFacts
  <1>4. ASSUME ~overlapped, miner[g] = "add"
        PROVE  Len(chain') = made' /\ \A b \in 1..made' : chain'[b] = b
    <2>1. Len(base[g]) = made /\ \A b \in 1..made : base[g][b] = b
      BY <1>4 DEF IInv, OneMiner
    <2> QED BY <1>1, <1>3, <2>1
  <1> QED BY <1>1, <1>3, <1>4

(* A block that could not be saved is told to nobody, and makes what was   *)
(* told no newer.                                                          *)
LEMMA AddBlockFailsStep == ASSUME IInv, NEW g \in Miner, AddBlockFails(g) PROVE IInv'
  <1> USE StreamsAssumption DEF IInv, AddBlockFails, streams
  <1>0. /\ miner[g] = "add" /\ miner'[g] = "select" /\ notify' = notify
        /\ \A h \in Miner : h # g => miner'[h] = miner[h] /\ base'[h] = base[h]
        /\ \A h \in Miner : miner'[h] = "notify" <=> miner[h] = "notify"
    BY DEF TypeOK
  <1>1. CASE UNCHANGED <<chain, made, unsaved>>
    <2>1. TypeOK'
      BY <1>1 DEF TypeOK
    <2>2. ListsExact' /\ TurnInList' /\ CallsKnown' /\ NoSendOnClosed'
      BY <1>0, <1>1 DEF ListsExact, TurnInList, CallsKnown, NoSendOnClosed, Listed
    <2>3. OneMiner'
      BY <1>0, <1>1 DEF OneMiner, Alive
    <2>4. ASSUME NEW s \in Stream PROVE StreamOK(s)'
      BY <1>1, StreamKept DEF Passed, Told
    <2> QED BY <2>1, <2>2, <2>3, <2>4
  <1>2. CASE AppendBlock(g) /\ unsaved' = unsaved \cup {made + 1}
    <2>1. /\ made \in Nat /\ made' = made + 1 /\ made' \in 1..MaxBlocks
          /\ chain' \in Seq(1..MaxBlocks)
          /\ ~overlapped => Len(chain') = made' /\ \A b \in 1..made' : chain'[b] = b
      BY <1>0, <1>2, AppendBlockFacts
    <2>2. /\ unsaved' \subseteq 1..made' /\ unsaved' \subseteq 1..MaxBlocks
          /\ (1..made)' \ unsaved' = (1..made) \ unsaved
      BY <1>2, <2>1 DEF TypeOK, CallsKnown
    <2>3. TypeOK'
      <3>1. /\ miner' \in [Miner -> {"none", "select", "add", "notify", "done"}]
            /\ base' \in [Miner -> Seq(1..MaxBlocks)]
        BY DEF TypeOK
      <3> QED BY <2>1, <2>2, <3>1 DEF TypeOK
    <2>4. ListsExact' /\ TurnInList' /\ NoSendOnClosed'
      BY DEF ListsExact, TurnInList, NoSendOnClosed, Listed
    <2>5. CallsKnown'
      BY <1>0, <2>2 DEF CallsKnown
    <2>6. OneMiner'
      BY <1>0, <2>1 DEF OneMiner, Alive
    <2>7. ASSUME NEW s \in Stream PROVE StreamOK(s)'
      <3>1. /\ Given(s)' = Given(s) /\ (Serving(s)' <=> Serving(s))
            /\ \A h \in Notifier : Passed(h, s)' <=> Passed(h, s)
            /\ \A h \in Miner : Passed(h, s)' <=> Passed(h, s)
        BY GivenKept DEF Serving, Passed
      <3>2. Fresh(s)' /\ RoomUnlessFilled(s)' /\ PassedHasItem(s)'
        BY <3>1 DEF StreamOK, Fresh, RoomUnlessFilled, PassedHasItem
      <3>3. InOrder(s)'
        BY <1>0, <2>2, <3>1 DEF StreamOK, InOrder
      <3>4. Told(handler[s].kind)' \subseteq Told(handler[s].kind)
        <4>1. \A b \in (1..made') \ unsaved' : b \in (1..made) \ unsaved
          BY <2>2
        <4> QED BY <1>0, <4>1 DEF Told
      <3>5. HasWhatWasTold(s)'
        BY <3>1, <3>4 DEF StreamOK, HasWhatWasTold
      <3> QED BY <3>2, <3>3, <3>5 DEF StreamOK
    <2> QED BY <2>3, <2>4, <2>5, <2>6, <2>7
  <1> QED BY <1>1, <1>2

(* The new block is newer than all that was told; nobody has been told it. *)
LEMMA AddBlockStep == ASSUME IInv, NEW g \in Miner, AddBlock(g) PROVE IInv'
  <1> USE StreamsAssumption DEF IInv, AddBlock, streams, history
  <1>0. /\ g \in Notifier /\ g \notin Tx /\ made + 1 \in Item
        /\ miner[g] = "add" /\ notify[g].at = "idle"
        /\ made \in Nat /\ made' = made + 1 /\ made' \in 1..MaxBlocks
        /\ chain' \in Seq(1..MaxBlocks)
        /\ ~overlapped => Len(chain') = made' /\ \A b \in 1..made' : chain'[b] = b
    <2>1. /\ made \in Nat /\ made' = made + 1 /\ made' \in 1..MaxBlocks
          /\ chain' \in Seq(1..MaxBlocks)
          /\ ~overlapped => Len(chain') = made' /\ \A b \in 1..made' : chain'[b] = b
      BY AppendBlockFacts
    <2> QED BY <2>1 DEF Notifier, Item, TypeOK, CallsKnown
  <1>1. /\ notify'[g].at = "wait" /\ notify'[g].item = made + 1
        /\ miner'[g] = "notify"
        /\ \A h \in Notifier : h # g => notify'[h] = notify[h]
        /\ \A h \in Miner : h # g =>
              /\ notify'[h] = notify[h] /\ miner'[h] = miner[h]
              /\ base'[h] = base[h]
        /\ \A t \in Tx : notify'[t] = notify[t]
    BY <1>0 DEF TypeOK, Notifier
  <1>2. TypeOK'
    <2>1. /\ miner' \in [Miner -> {"none", "select", "add", "notify", "done"}]
          /\ base' \in [Miner -> Seq(1..MaxBlocks)]
      BY DEF TypeOK
    <2>2. notify' \in [Notifier -> [at : {"unsent", "idle", "wait", "send", "done"},
                                    item : Item \cup {None}, next : Nat \ {0}]]
      BY <1>0 DEF TypeOK
    <2> QED BY <1>0, <2>1, <2>2 DEF TypeOK
  <1>3. ListsExact' /\ NoSendOnClosed'
    BY DEF ListsExact, NoSendOnClosed, Listed
  <1>4. TurnInList'
    BY <1>1 DEF TurnInList
  <1>5. \A b \in (1..made) \ unsaved : b \in (1..made') \ unsaved /\ b < made + 1
    BY <1>0
  <1>6. CallsKnown'
    <2>1. unsaved' \subseteq 1..made' /\ made + 1 \in (1..made') \ unsaved
      BY <1>0 DEF CallsKnown
    <2>2. \A h \in Miner :
             /\ notify'[h].at \in {"idle", "wait", "send"}
             /\ miner'[h] = "notify" <=> notify'[h].at # "idle"
             /\ notify'[h].at # "idle" => notify'[h].item \in (1..made') \ unsaved
      BY <1>1, <1>5, <2>1 DEF CallsKnown
    <2>3. \A h \in Miner : h # g /\ notify'[h].at # "idle" => notify'[h].item # made + 1
      BY <1>0, <1>1 DEF CallsKnown
    <2>4. \A h, l \in Miner :
             /\ notify'[h].at # "idle" /\ notify'[l].at # "idle"
             /\ notify'[h].item = notify'[l].item
             => h = l
      BY <1>1, <2>3 DEF CallsKnown
    <2> QED BY <1>1, <2>1, <2>2, <2>4 DEF CallsKnown
  <1>7. OneMiner'
    BY <1>0, <1>1 DEF OneMiner, Alive
  <1>8. ASSUME NEW s \in Stream PROVE StreamOK(s)'
    <2>1. Given(s)' = Given(s) /\ (Serving(s)' <=> Serving(s))
      BY GivenKept DEF Serving
    <2>2. /\ \A h \in Notifier : Passed(h, s)' =>
                Passed(h, s) /\ notify'[h].item = notify[h].item
          /\ \A h \in Miner : h # g => (Passed(h, s)' <=> Passed(h, s))
      BY <1>1 DEF Passed
    <2>3. Fresh(s)' /\ RoomUnlessFilled(s)' /\ PassedHasItem(s)'
      BY <2>1, <2>2 DEF StreamOK, Fresh, RoomUnlessFilled, PassedHasItem
    <2>4. InOrder(s)'
      <3> SUFFICES ASSUME Serving(s), handler[s].kind = "block" PROVE InOrder(s)'
        BY <2>1 DEF InOrder
      <3>1. \A i \in DOMAIN Given(s) :
               Given(s)[i] \in (1..made') \ unsaved /\ Given(s)[i] < made + 1
        BY <1>5 DEF StreamOK, InOrder
      <3>2. \A i \in DOMAIN Given(s) : Given(s)[i] # made + 1
        BY <1>0, <3>1
      <3> QED BY <1>1, <2>1, <2>2, <3>1, <3>2 DEF StreamOK, InOrder
    <2>5. Told(handler[s].kind)' \subseteq Told(handler[s].kind)
      <3>1. \A b \in (1..made') \ unsaved : b # made + 1 => b \in (1..made) \ unsaved
        BY <1>0
      <3> QED BY <1>0, <1>1, <3>1 DEF Told
    <2>6. HasWhatWasTold(s)'
      BY <2>1, <2>5 DEF StreamOK, HasWhatWasTold
    <2> QED BY <2>3, <2>4, <2>6 DEF StreamOK
  <1> QED BY <1>2, <1>3, <1>4, <1>6, <1>7, <1>8

(* A handler that begins has nothing yet.                                  *)
LEMMA SubscribeStep ==
    ASSUME IInv, NEW s \in Stream, NEW k \in Kind, Subscribe(s, k)
    PROVE  IInv'
  <1> USE DEF IInv, Subscribe, ledger, streams, history
  <1>1. TypeOK'
    BY DEF TypeOK
  <1>2. /\ handler'[s].at = "joining" /\ ~Listed(s) /\ ~Listed(s)'
        /\ \A r \in Stream : r # s => handler'[r] = handler[r]
    BY DEF TypeOK, Listed
  <1>3. ListsExact'
    BY <1>2, ListsKept DEF Listed
  <1>4. TurnInList' /\ CallsKnown' /\ OneMiner' /\ NoSendOnClosed'
    BY DEF TurnInList, CallsKnown, OneMiner, Alive, NoSendOnClosed
  <1>5. StreamOK(s)'
    BY <1>2 DEF StreamOK, Fresh, RoomUnlessFilled, InOrder, PassedHasItem,
                HasWhatWasTold, Serving
  <1>6. ASSUME NEW r \in Stream, r # s PROVE StreamOK(r)'
    BY <1>2, <1>6, StreamKept DEF Passed, Told
  <1> QED BY <1>1, <1>3, <1>4, <1>5, <1>6

(* Taking an item off the channel is not visible in what was given.        *)
LEMMA ReceiveStep == ASSUME IInv, NEW s \in Stream, Receive(s) PROVE IInv'
  <1> USE DEF IInv, Receive, ledger, streams, history
  <1>1. /\ channel[s] \in Seq(Item) /\ received[s] \in Seq(Item)
        /\ Len(channel[s]) <= Capacity
    BY DEF TypeOK
  <1>2. /\ Head(channel[s]) \in Item /\ Tail(channel[s]) \in Seq(Item)
        /\ Len(Tail(channel[s])) = Len(channel[s]) - 1 /\ Len(channel[s]) \in Nat
    BY <1>1, TailFacts
  <1>3. TypeOK'
    <2>1. /\ channel' \in [Stream -> Seq(Item)]
          /\ \A r \in Stream : Len(channel'[r]) <= Capacity
      BY <1>1, <1>2, StreamsAssumption DEF TypeOK
    <2>2. handler' \in [Stream -> [at : {"none", "joining", "loop", "sending",
                                         "leaving", "done"},
                                   kind : Kind, item : Item \cup {None}]]
      BY ZenonT(40), <1>2 DEF TypeOK
    <2> QED BY <2>1, <2>2 DEF TypeOK
  <1>4. /\ handler'[s].at = "sending" /\ handler'[s].kind = handler[s].kind
        /\ handler'[s].item = Head(channel[s]) /\ channel'[s] = Tail(channel[s])
        /\ \A r \in Stream : r # s =>
              handler'[r] = handler[r] /\ channel'[r] = channel[r]
    BY DEF TypeOK
  <1>5. Serving(s) /\ Serving(s)' /\ Listed(s) /\ Listed(s)'
    BY <1>4 DEF Serving, Listed
  <1>6. ListsExact'
    BY <1>4, <1>5, ListsKept DEF Listed
  <1>7. TurnInList' /\ CallsKnown' /\ OneMiner' /\ NoSendOnClosed'
    BY DEF TurnInList, CallsKnown, OneMiner, Alive, NoSendOnClosed
  <1>8. StreamOK(s)'
    <2>1. Given(s) = received[s] \o <<>> \o channel[s]
      BY Zenon DEF Given
    <2>2. Given(s)' = received[s] \o <<Head(channel[s])>> \o Tail(channel[s])
      BY <1>4 DEF Given
    <2>3. Given(s)' = Given(s)
      BY <1>1, <2>1, <2>2, HeadMoves
    <2>4. Fresh(s)' /\ RoomUnlessFilled(s)'
      BY <1>1, <1>2, <1>4, <1>5, StreamsAssumption
      DEF StreamOK, Fresh, RoomUnlessFilled
    <2>5. /\ (Serving(s)' <=> Serving(s)) /\ handler'[s].kind = handler[s].kind
          /\ \A g \in Miner : Passed(g, s)' <=> Passed(g, s)
          /\ \A g \in Notifier : Passed(g, s)' <=> Passed(g, s)
      BY <1>4, <1>5 DEF Passed
    <2>6. InOrder(s)'
      BY <2>3, <2>5 DEF StreamOK, InOrder
    <2>7. PassedHasItem(s)'
      BY <2>3, <2>5 DEF StreamOK, PassedHasItem
    <2>8. HasWhatWasTold(s)'
      BY <2>3, <2>5 DEF StreamOK, HasWhatWasTold, Told
    <2> QED BY <2>4, <2>6, <2>7, <2>8 DEF StreamOK
  <1>9. ASSUME NEW r \in Stream, r # s PROVE StreamOK(r)'
    BY <1>4, <1>9, StreamKept DEF Passed, Told
  <1> QED BY <1>3, <1>6, <1>7, <1>8, <1>9

(* Neither is sending it on.                                               *)
LEMMA SendStep == ASSUME IInv, NEW s \in Stream, Send(s) PROVE IInv'
  <1> USE DEF IInv, Send, ledger, streams, history
  <1>1. /\ channel[s] \in Seq(Item) /\ received[s] \in Seq(Item)
        /\ handler[s].item \in Item
    BY DEF TypeOK, StreamOK, Fresh
  <1>2. TypeOK'
    <2>1. received' \in [Stream -> Seq(Item)]
      BY <1>1, AppendFacts DEF TypeOK
    <2>2. handler' \in [Stream -> [at : {"none", "joining", "loop", "sending",
                                         "leaving", "done"},
                                   kind : Kind, item : Item \cup {None}]]
      BY ZenonT(40) DEF TypeOK
    <2> QED BY <2>1, <2>2 DEF TypeOK
  <1>3. /\ handler'[s].at = "loop" /\ handler'[s].kind = handler[s].kind
        /\ received'[s] = Append(received[s], handler[s].item)
        /\ \A r \in Stream : r # s =>
              handler'[r] = handler[r] /\ received'[r] = received[r]
    BY DEF TypeOK
  <1>4. Serving(s) /\ Serving(s)' /\ Listed(s) /\ Listed(s)'
    BY <1>3 DEF Serving, Listed
  <1>5. ListsExact'
    BY <1>3, <1>4, ListsKept DEF Listed
  <1>6. TurnInList' /\ CallsKnown' /\ OneMiner' /\ NoSendOnClosed'
    BY DEF TurnInList, CallsKnown, OneMiner, Alive, NoSendOnClosed
  <1>7. StreamOK(s)'
    <2>1. Given(s) = received[s] \o <<handler[s].item>> \o channel[s]
      BY Zenon DEF Given
    <2>2. Given(s)' = Append(received[s], handler[s].item) \o <<>> \o channel[s]
      BY <1>3 DEF Given
    <2>3. Given(s)' = Given(s)
      BY <1>1, <2>1, <2>2, SentMoves
    <2>4. Fresh(s)' /\ RoomUnlessFilled(s)'
      BY <1>3, <1>4 DEF StreamOK, Fresh, RoomUnlessFilled
    <2>5. /\ (Serving(s)' <=> Serving(s)) /\ handler'[s].kind = handler[s].kind
          /\ \A g \in Miner : Passed(g, s)' <=> Passed(g, s)
          /\ \A g \in Notifier : Passed(g, s)' <=> Passed(g, s)
      BY <1>3, <1>4 DEF Passed
    <2>6. InOrder(s)'
      BY <2>3, <2>5 DEF StreamOK, InOrder
    <2>7. PassedHasItem(s)'
      BY <2>3, <2>5 DEF StreamOK, PassedHasItem
    <2>8. HasWhatWasTold(s)'
      BY <2>3, <2>5 DEF StreamOK, HasWhatWasTold, Told
    <2> QED BY <2>4, <2>6, <2>7, <2>8 DEF StreamOK
  <1>8. ASSUME NEW r \in Stream, r # s PROVE StreamOK(r)'
    BY <1>3, <1>8, StreamKept DEF Passed, Told
  <1> QED BY <1>2, <1>5, <1>6, <1>7, <1>8

(* A stream that ends is owed nothing any more, and stays listed.          *)
LEMMA ReturnStep == ASSUME IInv, NEW s \in Stream, Return(s) PROVE IInv'
  <1> USE DEF IInv, Return, Forget, ledger, streams, history
  <1>1. TypeOK'
    <2>1. handler' \in [Stream -> [at : {"none", "joining", "loop", "sending",
                                         "leaving", "done"},
                                   kind : Kind, item : Item \cup {None}]]
      BY ZenonT(40) DEF TypeOK
    <2>2. /\ received' \in [Stream -> Seq(Item)]
          /\ before' \in [Stream -> SUBSET Item] /\ filled' \subseteq Stream
      BY DEF TypeOK
    <2> QED BY <2>1, <2>2 DEF TypeOK
  <1>2. /\ handler'[s].at = "leaving" /\ handler'[s].kind = handler[s].kind
        /\ \A r \in Stream : r # s =>
              /\ handler'[r] = handler[r] /\ received'[r] = received[r]
              /\ before'[r] = before[r] /\ (r \in filled <=> r \in filled')
    BY DEF TypeOK
  <1>3. ListsExact'
    BY <1>2, ListsKept DEF Listed
  <1>4. TurnInList' /\ CallsKnown' /\ OneMiner' /\ NoSendOnClosed'
    BY DEF TurnInList, CallsKnown, OneMiner, Alive, NoSendOnClosed
  <1>5. StreamOK(s)'
    BY <1>2 DEF StreamOK, Fresh, RoomUnlessFilled, InOrder, PassedHasItem,
                HasWhatWasTold, Serving
  <1>6. ASSUME NEW r \in Stream, r # s PROVE StreamOK(r)'
    BY <1>2, <1>6, StreamKept DEF Passed, Told
  <1> QED BY <1>1, <1>3, <1>4, <1>5, <1>6

(* A stream is listed when no loop runs, last, with nothing given yet; all *)
(* that there is was there before.                                         *)
LEMMA JoinStep == ASSUME IInv, NEW s \in Stream, Join(s) PROVE IInv'
  <1> USE DEF IInv, Join, ledger, streams, history
  <1> DEFINE k == handler[s].kind
  <1>1. /\ k \in Kind /\ subs[k] \in Seq(Stream)
        /\ Append(subs[k], s) \in Seq(Stream)
        /\ Existing(k) \subseteq Item
    <2>1. k \in Kind /\ subs[k] \in Seq(Stream)
      BY DEF TypeOK
    <2>2. 1..made \subseteq Item /\ Submitted \subseteq Item
      BY StreamsAssumption DEF TypeOK, Submitted, Item
    <2> QED BY <2>1, <2>2, AppendFacts DEF Existing
  <1>2. TypeOK'
    <2>1. handler' \in [Stream -> [at : {"none", "joining", "loop", "sending",
                                         "leaving", "done"},
                                   kind : Kind, item : Item \cup {None}]]
      BY DEF TypeOK
    <2>2. subs' \in [Kind -> Seq(Stream)] /\ before' \in [Stream -> SUBSET Item]
      BY <1>1 DEF TypeOK
    <2> QED BY <2>1, <2>2 DEF TypeOK
  <1>3. /\ handler'[s].at = "loop" /\ handler'[s].kind = k
        /\ before'[s] = Existing(k)
        /\ \A r \in Stream : r # s =>
              handler'[r] = handler[r] /\ before'[r] = before[r]
    BY DEF TypeOK
  <1>4. \A g \in Notifier : notify[g].at # "send"
    BY DEF Readers
  <1>5. ListsExact'
    <2> DEFINE on(r) == handler'[r].at \in {"loop", "sending", "leaving"}
               new == subs'
    <2> SUFFICES ASSUME NEW l \in Kind
                 PROVE  /\ \A i \in 1..Len(new[l]) :
                              on(new[l][i]) /\ handler'[new[l][i]].kind = l
                        /\ \A i, j \in 1..Len(new[l]) : new[l][i] = new[l][j] => i = j
                        /\ \A r \in Stream : on(r) /\ handler'[r].kind = l =>
                              \E i \in 1..Len(new[l]) : new[l][i] = r
      BY DEF ListsExact, Listed
    <2>2. ~Listed(s) /\ on(s) /\ \A r \in Stream : r # s => (on(r) <=> Listed(r))
      BY <1>3 DEF Listed
    <2>3. /\ \A i \in 1..Len(subs[l]) :
                /\ subs[l][i] \in Stream /\ Listed(subs[l][i])
                /\ handler[subs[l][i]].kind = l
          /\ \A i, j \in 1..Len(subs[l]) : subs[l][i] = subs[l][j] => i = j
          /\ \A r \in Stream : Listed(r) /\ handler[r].kind = l =>
                \E i \in 1..Len(subs[l]) : subs[l][i] = r
      BY ElementIn DEF ListsExact, TypeOK
    <2>4. CASE l # k
      <3>1. new[l] = subs[l]
        BY <2>4 DEF TypeOK
      <3> HIDE DEF on, new
      <3> QED BY <1>3, <2>2, <2>3, <2>4, <3>1
    <2>5. CASE l = k
      <3>1. new[l] = Append(subs[l], s) /\ Len(subs[l]) \in Nat
        BY <1>1, <2>5 DEF TypeOK
      <3>2. /\ Len(new[l]) = Len(subs[l]) + 1 /\ new[l][Len(subs[l]) + 1] = s
            /\ \A i \in 1..Len(subs[l]) : new[l][i] = subs[l][i]
        BY <1>1, <2>5, <3>1, AppendFacts
      <3>3. \A i \in 1..Len(subs[l]) : new[l][i] = subs[l][i] /\ subs[l][i] # s
        BY <2>2, <2>3, <3>2
      <3>4. /\ \A i \in 1..Len(new[l]) : i \in 1..Len(subs[l]) \/ i = Len(subs[l]) + 1
            /\ \A i \in 1..Len(subs[l]) : i \in 1..Len(new[l])
            /\ Len(subs[l]) + 1 \in 1..Len(new[l])
        BY <3>1, <3>2
      <3> HIDE DEF on, new
      <3>5. ASSUME NEW i \in 1..Len(new[l])
            PROVE  on(new[l][i]) /\ handler'[new[l][i]].kind = l
        BY <1>3, <2>2, <2>3, <2>5, <3>2, <3>3, <3>4
      <3>6. ASSUME NEW i \in 1..Len(new[l]), NEW j \in 1..Len(new[l]), new[l][i] = new[l][j]
            PROVE  i = j
        BY <2>3, <3>2, <3>3, <3>4, <3>6
      <3>7. ASSUME NEW r \in Stream, on(r), handler'[r].kind = l
            PROVE  \E i \in 1..Len(new[l]) : new[l][i] = r
        BY <1>3, <2>2, <2>3, <3>2, <3>3, <3>4, <3>7
      <3> QED BY <3>5, <3>6, <3>7
    <2> QED BY <2>4, <2>5
  <1>6. TurnInList' /\ CallsKnown' /\ OneMiner' /\ NoSendOnClosed'
    BY <1>4 DEF TurnInList, CallsKnown, OneMiner, Alive, NoSendOnClosed
  <1>7. \A g \in Notifier \cup Miner, r \in Stream : ~Passed(g, r) /\ ~Passed(g, r)'
    BY <1>4 DEF Passed, Notifier
  <1>8. StreamOK(s)'
    <2>1. channel'[s] = <<>> /\ received'[s] = <<>>
      BY DEF StreamOK, Fresh
    <2>2. Given(s)' = <<>>
      BY <1>3, <2>1 DEF Given
    <2>3. Fresh(s)' /\ RoomUnlessFilled(s)'
      BY <1>3, <2>1, StreamsAssumption DEF Fresh, RoomUnlessFilled
    <2>4. InOrder(s)' /\ PassedHasItem(s)'
      BY <1>7, <2>2 DEF InOrder, PassedHasItem
    <2>5. Told(k)' \subseteq Existing(k)
      BY DEF Told, Existing, Submitted
    <2>6. HasWhatWasTold(s)'
      BY <1>3, <2>5 DEF HasWhatWasTold
    <2> QED BY <2>3, <2>4, <2>6 DEF StreamOK
  <1>9. ASSUME NEW r \in Stream, r # s PROVE StreamOK(r)'
    <2>1. Told(handler[r].kind)' = Told(handler[r].kind)
      BY DEF Told
    <2>2. Miner \subseteq Notifier
      BY DEF Notifier
    <2> QED BY <1>3, <1>7, <1>9, <2>1, <2>2, StreamKept
  <1> QED BY <1>2, <1>5, <1>6, <1>8, <1>9

(* A stream is taken off its list when no loop runs; the others keep their *)
(* order.                                                                  *)
LEMMA LeaveStep == ASSUME IInv, NEW s \in Stream, Leave(s) PROVE IInv'
  <1> USE DEF IInv, Leave, NoStream, ledger, streams, history
  <1> DEFINE k == handler[s].kind
  <1>1. k \in Kind /\ subs[k] \in Seq(Stream)
    BY DEF TypeOK
  <1>2. PICK p \in 1..Len(subs[k]) :
            subs[k][p] = s /\ subs' = [subs EXCEPT ![k] = RemoveAt(@, p)]
    <2>1. DOMAIN subs[k] = 1..Len(subs[k])
      BY <1>1
    <2> QED BY <2>1
  <1>3. /\ RemoveAt(subs[k], p) \in Seq(Stream)
        /\ Len(RemoveAt(subs[k], p)) = Len(subs[k]) - 1
        /\ \A j \in 1..(Len(subs[k]) - 1) :
              RemoveAt(subs[k], p)[j] = IF j < p THEN subs[k][j] ELSE subs[k][j + 1]
    BY ONLY <1>1, p \in 1..Len(subs[k]), RemoveFacts
  <1>4. TypeOK'
    <2>1. handler' \in [Stream -> [at : {"none", "joining", "loop", "sending",
                                         "leaving", "done"},
                                   kind : Kind, item : Item \cup {None}]]
      BY DEF TypeOK, Kind
    <2>2. /\ subs' \in [Kind -> Seq(Stream)] /\ channel' \in [Stream -> Seq(Item)]
          /\ \A r \in Stream : Len(channel'[r]) <= Capacity
      BY SMTT(30), <1>2, <1>3, StreamsAssumption DEF TypeOK
    <2> QED BY <2>1, <2>2 DEF TypeOK
  <1>5. /\ handler'[s].at = "done"
        /\ \A r \in Stream : r # s =>
              handler'[r] = handler[r] /\ channel'[r] = channel[r]
    BY DEF TypeOK
  <1>6. \A g \in Notifier : notify[g].at # "send"
    BY DEF Readers
  <1>7. ListsExact'
    <2> DEFINE on(r) == handler'[r].at \in {"loop", "sending", "leaving"}
               new == subs'
    <2> SUFFICES ASSUME NEW l \in Kind
                 PROVE  /\ \A i \in 1..Len(new[l]) :
                              on(new[l][i]) /\ handler'[new[l][i]].kind = l
                        /\ \A i, j \in 1..Len(new[l]) : new[l][i] = new[l][j] => i = j
                        /\ \A r \in Stream : on(r) /\ handler'[r].kind = l =>
                              \E i \in 1..Len(new[l]) : new[l][i] = r
      BY DEF ListsExact, Listed
    <2>1. ~on(s) /\ \A r \in Stream : r # s => (on(r) <=> Listed(r))
      BY <1>5 DEF Listed
    <2>2. /\ \A i \in 1..Len(subs[l]) :
                /\ subs[l][i] \in Stream /\ Listed(subs[l][i])
                /\ handler[subs[l][i]].kind = l
          /\ \A i, j \in 1..Len(subs[l]) : subs[l][i] = subs[l][j] => i = j
          /\ \A r \in Stream : Listed(r) /\ handler[r].kind = l =>
                \E i \in 1..Len(subs[l]) : subs[l][i] = r
      BY ElementIn DEF ListsExact, TypeOK
    <2>3. CASE l # k
      <3>1. new[l] = subs[l]
        BY <1>2, <2>3 DEF TypeOK
      <3> HIDE DEF on, new
      <3> QED BY <1>5, <2>1, <2>2, <2>3, <3>1
    <2>4. CASE l = k
      <3>1. Len(subs[l]) \in Nat /\ p \in 1..Len(subs[l]) /\ subs[l][p] = s
        BY <1>1, <1>2, <2>4
      <3>2. /\ Len(new[l]) = Len(subs[l]) - 1
            /\ \A j \in 1..(Len(subs[l]) - 1) :
                  new[l][j] = IF j < p THEN subs[l][j] ELSE subs[l][j + 1]
        BY <1>2, <1>3, <2>4 DEF TypeOK
      <3> HIDE DEF on, new
      <3> DEFINE old(j) == IF j < p THEN j ELSE j + 1
      <3>3. \A j \in 1..Len(new[l]) :
                old(j) \in 1..Len(subs[l]) /\ old(j) # p /\ new[l][j] = subs[l][old(j)]
        BY <3>1, <3>2
      <3>4. \A i \in 1..Len(subs[l]) : i # p => \E j \in 1..Len(new[l]) : old(j) = i
        <4> SUFFICES ASSUME NEW i \in 1..Len(subs[l]), i # p
                     PROVE  \E j \in 1..Len(new[l]) : old(j) = i
          OBVIOUS
        <4>1. CASE i < p
          BY <3>1, <3>2, <4>1
        <4>2. CASE i > p
          <5>1. i - 1 \in 1..Len(new[l]) /\ old(i - 1) = i
            BY <3>1, <3>2, <4>2
          <5> QED BY <5>1
        <4> QED BY <3>1, <4>1, <4>2
      <3>5. \A i, j \in 1..Len(new[l]) : old(i) = old(j) => i = j
        BY <3>1, <3>2
      <3> HIDE DEF old
      <3>6. ASSUME NEW i \in 1..Len(new[l])
            PROVE  on(new[l][i]) /\ handler'[new[l][i]].kind = l
        <4> DEFINE o == old(i)
        <4>2. o \in 1..Len(subs[l]) /\ o # p /\ new[l][i] = subs[l][o]
          BY <3>3
        <4> HIDE DEF o
        <4>3. subs[l][o] \in Stream /\ subs[l][o] # subs[l][p]
          BY <2>2, <3>1, <4>2
        <4>1. new[l][i] \in Stream /\ new[l][i] # s
          BY <3>1, <4>2, <4>3
        <4> QED BY <1>5, <2>1, <2>2, <3>3, <4>1
      <3>7. ASSUME NEW i \in 1..Len(new[l]), NEW j \in 1..Len(new[l]), new[l][i] = new[l][j]
            PROVE  i = j
        BY <2>2, <3>3, <3>5, <3>7
      <3>8. ASSUME NEW r \in Stream, on(r), handler'[r].kind = l
            PROVE  \E i \in 1..Len(new[l]) : new[l][i] = r
        <4>1. r # s
          BY <2>1, <3>8
        <4>2. PICK i \in 1..Len(subs[l]) : subs[l][i] = r
          BY <1>5, <2>1, <2>2, <3>8, <4>1
        <4>3. PICK j \in 1..Len(new[l]) : old(j) = i
          BY <3>1, <3>4, <4>1, <4>2
        <4> QED BY <3>3, <4>2, <4>3
      <3> QED BY <3>6, <3>7, <3>8
    <2> QED BY <2>3, <2>4
  <1>8. TurnInList' /\ CallsKnown' /\ OneMiner' /\ NoSendOnClosed'
    BY <1>6 DEF TurnInList, CallsKnown, OneMiner, Alive, NoSendOnClosed
  <1>9. StreamOK(s)'
    BY <1>5 DEF StreamOK, Fresh, RoomUnlessFilled, InOrder, PassedHasItem,
                HasWhatWasTold, Serving
  <1>10. ASSUME NEW r \in Stream, r # s PROVE StreamOK(r)'
    <2>1. \A g \in Notifier : ~Passed(g, r) /\ ~Passed(g, r)'
      BY <1>6 DEF Passed
    <2>2. Told(handler[r].kind)' = Told(handler[r].kind)
      BY <1>5, <1>10 DEF Told
    <2>3. Miner \subseteq Notifier
      BY DEF Notifier
    <2> QED BY <1>5, <1>10, <2>1, <2>2, <2>3, StreamKept
  <1> QED BY <1>4, <1>7, <1>8, <1>9, <1>10

(* A loop begins before the first stream; with no stream it is through.    *)
LEMMA RLockStep == ASSUME IInv, NEW g \in Notifier, RLock(g) PROVE IInv'
  <1> USE DEF IInv, RLock, streams, history
  <1>0. /\ notify' \in [Notifier -> [at : {"unsent", "idle", "wait", "send", "done"},
                                     item : Item \cup {None}, next : Nat \ {0}]]
        /\ \A h \in Notifier : h # g => notify'[h] = notify[h]
        /\ notify'[g].at = "send" => notify'[g].next = 1
        /\ miner' \in [Miner -> {"none", "select", "add", "notify", "done"}]
    <2>0. miner \in [Miner -> {"none", "select", "add", "notify", "done"}]
      BY DEF TypeOK
    <2>1. Len(subs[KindOf(g)]) \in Nat
      BY ItemKnown DEF TypeOK
    <2>2. CASE 1 <= Len(subs[KindOf(g)])
      BY <2>0, <2>2, TurnFacts
    <2>3. CASE 1 > Len(subs[KindOf(g)])
      BY <2>0, <2>3, TurnFacts
    <2> QED BY <2>1, <2>2, <2>3
  <1>1. TypeOK' /\ NoSendOnClosed'
    BY <1>0 DEF TypeOK, NoSendOnClosed
  <1>2. ListsExact'
    BY ListsKept DEF Listed
  <1>3. TurnInList' /\ CallsKnown' /\ OneMiner'
    BY TurnKeeps
  <1>4. ASSUME NEW s \in Stream PROVE StreamOK(s)'
    <2>1. Given(s)' = Given(s) /\ (Serving(s)' <=> Serving(s))
      BY GivenKept DEF Serving
    <2>2. \A h \in Notifier : Passed(h, s)' =>
              Passed(h, s) /\ notify'[h].item = notify[h].item
      BY TurnFacts DEF Passed
    <2>3. Fresh(s)' /\ RoomUnlessFilled(s)' /\ PassedHasItem(s)'
      BY <2>1, <2>2 DEF StreamOK, Fresh, RoomUnlessFilled, PassedHasItem
    <2>4. InOrder(s)'
      <3>1. \A h \in Miner :
               /\ notify'[h].at # "idle" =>
                     notify[h].at # "idle" /\ notify'[h].item = notify[h].item
               /\ Passed(h, s)' <=> Passed(h, s)
        <4>1. \A h \in Miner : h # g => notify'[h] = notify[h]
          BY <1>0 DEF Notifier
        <4>2. /\ notify[g].at = "wait" /\ notify'[g].at = "send" => notify'[g].next = 1
              /\ g \in Miner /\ notify'[g].at # "idle" => notify'[g].item = notify[g].item
          <5>1. Len(subs[KindOf(g)]) \in Nat
            BY ItemKnown DEF TypeOK
          <5>2. CASE 1 <= Len(subs[KindOf(g)])
            BY <1>0, <5>2, TurnFacts
          <5>3. CASE 1 > Len(subs[KindOf(g)])
            BY <1>0, <5>3, TurnFacts
          <5> QED BY <5>1, <5>2, <5>3
        <4> QED BY <4>1, <4>2 DEF Passed
      <3> QED BY <2>1, <3>1 DEF StreamOK, InOrder
    <2>5. ASSUME Serving(s), s \notin filled
          PROVE  Told(handler[s].kind)' \subseteq Told(handler[s].kind)
      <3>1. handler[s].kind \in Kind /\ subs[handler[s].kind] \in Seq(Stream)
        BY DEF TypeOK
      <3>2. \E i \in 1..Len(subs[handler[s].kind]) : subs[handler[s].kind][i] = s
        BY <2>5, <3>1 DEF ListsExact, Serving, Listed
      <3>3. ~(1 > Len(subs[handler[s].kind]))
        BY <3>1, <3>2
      <3> QED BY <3>1, <3>3, TurnTells
    <2>6. HasWhatWasTold(s)'
      BY <2>1, <2>5 DEF StreamOK, HasWhatWasTold
    <2> QED BY <2>3, <2>4, <2>6 DEF StreamOK
  <1> QED BY <1>1, <1>2, <1>3, <1>4

(* One turn of the loop gives its item to one stream whose channel has     *)
(* room, and leaves what every other stream was given alone.               *)
LEMMA PutGives ==
    ASSUME IInv, NEW g \in Notifier, NotifyNext(g),
           NEW s \in Stream, s = Target(g)
    PROVE  /\ \A r \in Stream : r # s => Given(r)' = Given(r)
           /\ Given(s)' = IF Len(channel[s]) < Capacity
                          THEN Append(Given(s), notify[g].item) ELSE Given(s)
  <1> USE DEF NotifyNext, Put
  <1>1. s \in Stream /\ notify[g].item \in Item
    BY ItemKnown
  <1>2. ASSUME NEW r \in Stream, r # s PROVE Given(r)' = Given(r)
    BY <1>1, <1>2, GivenKept DEF IInv, TypeOK
  <1>3. CASE ~(Len(channel[s]) < Capacity)
    <2>1. channel'[s] = channel[s]
      BY <1>1, <1>3 DEF IInv, TypeOK
    <2> QED BY <1>1, <1>2, <1>3, <2>1, GivenKept
  <1>4. CASE Len(channel[s]) < Capacity
    <2> DEFINE first == received[s]
                        \o (IF handler[s].at = "sending" THEN <<handler[s].item>> ELSE <<>>)
    <2>1. channel'[s] = Append(channel[s], notify[g].item)
      BY <1>1, <1>4 DEF IInv, TypeOK
    <2>2. Given(s) = first \o channel[s]
      BY Zenon DEF Given
    <2>3. Given(s)' = first \o Append(channel[s], notify[g].item)
      BY <2>1 DEF Given
    <2>4. first \in Seq(Item) /\ channel[s] \in Seq(Item)
      <3>1. received[s] \in Seq(Item) /\ channel[s] \in Seq(Item)
        BY <1>1 DEF IInv, TypeOK
      <3>2. handler[s].at = "sending" => handler[s].item \in Item
        BY <1>1 DEF IInv, StreamOK, Fresh
      <3> QED BY <3>1, <3>2
    <2> HIDE DEF first
    <2>5. Given(s)' = Append(Given(s), notify[g].item)
      BY ONLY <1>1, <2>2, <2>3, <2>4, AppendMoves
    <2> QED BY <1>2, <1>4, <2>5
  <1> QED BY <1>2, <1>3, <1>4

(* The loop goes past one stream after the other; one that has room gets   *)
(* the item, and one that has not has been full.                           *)
LEMMA NotifyNextStep == ASSUME IInv, NEW g \in Notifier, NotifyNext(g) PROVE IInv'
  <1>t. PICK t \in Stream : t = Target(g)
    BY TargetListed DEF NotifyNext, Put
  <1>i. PICK item \in Item : item = notify[g].item
    BY ItemKnown DEF NotifyNext, Put
  <1> DEFINE n == notify[g].next + 1
             room == Len(channel[t]) < Capacity
             last == n > Len(subs[KindOf(g)])
  <1>0. /\ notify[g].at = "send" /\ Turn(g, n)
        /\ channel' = [channel EXCEPT ![t] = IF room THEN Append(@, item) ELSE @]
        /\ filled' = IF Len(channel'[t]) = Capacity THEN filled \cup {t} ELSE filled
        /\ panicked' = (panicked \/ t \in Closed)
        /\ UNCHANGED <<chain, made, base, subs, handler, left, stop, overlapped,
                       unsaved, received, before>>
    BY <1>t, <1>i DEF NotifyNext, Put, IInv, TypeOK
  <1>1. /\ t \in Stream /\ Listed(t) /\ handler[t].kind = KindOf(g)
        /\ ~Passed(g, t) /\ item \in Item /\ KindOf(g) \in Kind
    BY <1>0, <1>t, TargetListed, ItemKnown
  <1>2. n \in Nat \ {0} /\ Len(subs[KindOf(g)]) \in Nat
    BY <1>0, <1>1 DEF IInv, TypeOK
  <1>3. /\ notify' \in [Notifier -> [at : {"unsent", "idle", "wait", "send", "done"},
                                     item : Item \cup {None}, next : Nat \ {0}]]
        /\ \A h \in Notifier : h # g => notify'[h] = notify[h]
        /\ ~last => /\ notify'[g].at = "send" /\ notify'[g].next = n
                    /\ notify'[g].item = item /\ miner' = miner
        /\ last => /\ notify'[g].at = IF g \in Miner THEN "idle" ELSE "done"
                   /\ miner' = IF g \in Miner THEN [miner EXCEPT ![g] = "select"] ELSE miner
    BY <1>0, <1>2, <1>i, TurnFacts
  <1>4. channel[t] \in Seq(Item) /\ Len(channel[t]) \in Nat /\ Len(channel[t]) <= Capacity
    BY <1>1 DEF IInv, TypeOK
  <1>5. /\ channel'[t] \in Seq(Item) /\ Len(channel'[t]) <= Capacity
        /\ room => Len(channel'[t]) = Len(channel[t]) + 1
        /\ \A s \in Stream : s # t => channel'[s] = channel[s]
    BY <1>0, <1>1, <1>4, AppendFacts, StreamsAssumption DEF IInv, TypeOK
  <1>6. TypeOK'
    <2>1. /\ channel' \in [Stream -> Seq(Item)]
          /\ \A s \in Stream : Len(channel'[s]) <= Capacity
      BY <1>0, <1>1, <1>4, <1>5, AppendFacts DEF IInv, TypeOK
    <2>2. /\ miner' \in [Miner -> {"none", "select", "add", "notify", "done"}]
          /\ filled' \subseteq Stream
      BY <1>0, <1>1, <1>3 DEF IInv, TypeOK
    <2>3. panicked' \in BOOLEAN
      BY <1>0 DEF IInv, TypeOK
    <2> QED BY <1>0, <1>3, <2>1, <2>2, <2>3 DEF IInv, TypeOK
  <1>7. NoSendOnClosed'
    BY <1>0, <1>1 DEF IInv, NoSendOnClosed, Closed, Listed
  <1>8. ListsExact'
    BY <1>0, ListsKept DEF Listed
  <1>9. TurnInList' /\ CallsKnown' /\ OneMiner'
    BY <1>0, <1>2, TurnKeeps
  <1>10. \A s \in Stream, h \in Notifier :
            Passed(h, s)' =>
                /\ notify'[h].item = notify[h].item
                /\ Passed(h, s) \/ (h = g /\ s = t)
    <2>1. ASSUME NEW s \in Stream, NEW h \in Notifier, h # g, Passed(h, s)'
          PROVE  notify'[h].item = notify[h].item /\ Passed(h, s)
      BY <1>0, <1>3, <2>1 DEF Passed
    <2>2. ASSUME NEW s \in Stream, Passed(g, s)'
          PROVE  notify'[g].item = notify[g].item /\ (Passed(g, s) \/ s = t)
      <3>1. ~last
        BY <1>3, <2>2 DEF Passed
      <3>2. PICK i \in 1..notify[g].next : subs[KindOf(g)][i] = s
        BY <1>0, <1>2, <1>3, <2>2, <3>1 DEF Passed, IInv, TypeOK
      <3>3. CASE i = notify[g].next
        BY <1>3, <1>i, <1>t, <3>1, <3>2, <3>3 DEF Target
      <3>4. CASE i # notify[g].next
        <4>1. i \in 1..(notify[g].next - 1)
          BY <3>4 DEF IInv, TypeOK
        <4> QED BY <1>0, <1>3, <1>i, <3>1, <3>2, <4>1 DEF Passed
      <3> QED BY <3>3, <3>4
    <2> QED BY <2>1, <2>2
  <1>11. \A h \in Miner : notify'[h].at # "idle" =>
            /\ notify[h].at # "idle" /\ notify'[h].item = notify[h].item
            /\ \A s \in Stream : Passed(h, s) => Passed(h, s)'
            /\ h = g => Passed(h, t)'
    <2> SUFFICES ASSUME NEW h \in Miner, notify'[h].at # "idle" PROVE
                     /\ notify[h].at # "idle" /\ notify'[h].item = notify[h].item
                     /\ \A s \in Stream : Passed(h, s) => Passed(h, s)'
                     /\ h = g => Passed(h, t)'
      OBVIOUS
    <2>1. CASE h # g
      <3>1. notify'[h] = notify[h]
        BY <1>3, <2>1 DEF Notifier
      <3> QED BY <1>0, <2>1, <3>1 DEF Passed
    <2>2. CASE h = g
      <3>1. /\ notify'[g].at = "send" /\ notify'[g].next = notify[g].next + 1
            /\ notify'[g].item = notify[g].item
        BY <1>3, <1>i, <2>2
      <3>2. notify[g].next \in 1..(notify'[g].next - 1)
            /\ 1..(notify[g].next - 1) \subseteq 1..(notify'[g].next - 1)
        BY <3>1 DEF IInv, TypeOK
      <3> QED BY <1>0, <1>t, <2>2, <3>1, <3>2 DEF Passed, Target
    <2> QED BY <2>1, <2>2
  <1>12. \A s \in Stream : Serving(s) /\ handler[s].kind = KindOf(g) /\ last /\ s # t
                              => Passed(g, s)
    BY <1>0, <1>t, LastTurn
  <1>13. \A k \in Kind :
            \/ Told(k)' \subseteq Told(k)
            \/ k = KindOf(g) /\ last /\ Told(k)' \subseteq Told(k) \cup {item}
    <2> SUFFICES ASSUME NEW k \in Kind
                 PROVE  \/ Told(k)' \subseteq Told(k)
                        \/ k = KindOf(g) /\ last /\ Told(k)' \subseteq Told(k) \cup {item}
      OBVIOUS
    <2> QED BY <1>0, <1>2, <1>i, TurnTells
  <1>14. /\ \A s \in Stream : s # t => Given(s)' = Given(s)
         /\ Given(t)' = IF room THEN Append(Given(t), item) ELSE Given(t)
    BY <1>t, <1>i, PutGives
  <1> HIDE DEF n, room, last
  <1>15. ASSUME NEW s \in Stream, s # t PROVE StreamOK(s)'
    <2>1. StreamOK(s) /\ Given(s)' = Given(s) /\ handler'[s] = handler[s]
          /\ channel'[s] = channel[s] /\ (s \in filled' <=> s \in filled)
          /\ before'[s] = before[s] /\ received'[s] = received[s]
          /\ made' = made /\ unsaved' = unsaved /\ overlapped' = overlapped
          /\ (Serving(s)' <=> Serving(s))
      BY <1>0, <1>5, <1>14, <1>15 DEF IInv, Serving
    <2>2. Fresh(s)' /\ RoomUnlessFilled(s)'
      BY <2>1 DEF StreamOK, Fresh, RoomUnlessFilled
    <2>3. InOrder(s)'
      BY <1>11, <2>1 DEF StreamOK, InOrder
    <2>4. PassedHasItem(s)'
      BY <1>10, <1>15, <2>1 DEF StreamOK, PassedHasItem
    <2>5. HasWhatWasTold(s)'
      <3> SUFFICES ASSUME Serving(s), s \notin filled
                   PROVE  Told(handler[s].kind)' \ before[s] \subseteq ToSet(Given(s))
        BY <2>1 DEF HasWhatWasTold
      <3>1. handler[s].kind \in Kind
        BY DEF IInv, TypeOK
      <3>2. Told(handler[s].kind) \ before[s] \subseteq ToSet(Given(s))
        BY <2>1 DEF StreamOK, HasWhatWasTold
      <3>3. handler[s].kind = KindOf(g) /\ last /\ item \notin before[s]
               => item \in ToSet(Given(s))
        BY <1>12, <1>15, <1>i, <2>1 DEF StreamOK, PassedHasItem
      <3> QED BY <1>13, <2>1, <3>1, <3>2, <3>3
    <2> QED BY <2>2, <2>3, <2>4, <2>5 DEF StreamOK
  <1>16. StreamOK(t)'
    <2>1. StreamOK(t) /\ handler' = handler /\ before' = before
          /\ received' = received
          /\ made' = made /\ unsaved' = unsaved /\ overlapped' = overlapped
          /\ (Serving(t)' <=> Serving(t)) /\ filled \subseteq filled'
          /\ (t \notin filled' => Len(channel'[t]) # Capacity)
          /\ Given(t) \in Seq(Item) /\ Capacity \in Nat
          /\ DOMAIN Given(t) = 1..Len(Given(t)) /\ Len(Given(t)) \in Nat
      BY <1>0, <1>1, GivenIsSeq, StreamsAssumption DEF IInv, Serving
    <2>2. Fresh(t)' /\ RoomUnlessFilled(t)'
      BY <1>1, <1>5, <2>1 DEF StreamOK, Fresh, RoomUnlessFilled, Listed
    <2>3. room => /\ Given(t)' \in Seq(Item) /\ DOMAIN Given(t)' = 1..(Len(Given(t)) + 1)
                  /\ \A i \in 1..Len(Given(t)) : Given(t)'[i] = Given(t)[i]
                  /\ Given(t)'[Len(Given(t)) + 1] = item
      BY <1>1, <1>14, <2>1, AppendFacts
    <2>4. room => item \in ToSet(Given(t))' /\ ToSet(Given(t)) \subseteq ToSet(Given(t))'
      BY <2>1, <2>3 DEF ToSet
    <2>5. Serving(t) /\ ~room => t \in filled
      BY <1>1, <2>1 DEF StreamOK, RoomUnlessFilled, room
    <2>6. InOrder(t)'
      <3> SUFFICES ASSUME Serving(t), handler[t].kind = "block"
                   PROVE  InOrder(t)'
        BY <2>1 DEF InOrder
      <3>1. g \in Miner /\ notify[g].at # "idle" /\ item \in (1..made) \ unsaved
        BY <1>0, <1>1, <1>i DEF KindOf, IInv, CallsKnown, Notifier
      <3>2. /\ \A i \in DOMAIN Given(t) : Given(t)[i] \in (1..made) \ unsaved
            /\ \A i, j \in DOMAIN Given(t) : Given(t)[i] = Given(t)[j] => i = j
            /\ \A i \in DOMAIN Given(t) : Given(t)[i] # item
            /\ ~overlapped =>
                  /\ \A i, j \in DOMAIN Given(t) : i < j => Given(t)[i] < Given(t)[j]
                  /\ \A i \in DOMAIN Given(t) : Given(t)[i] < item
        BY <1>1, <1>i, <2>1, <3>1 DEF StreamOK, InOrder
      <3>3. ASSUME NEW h \in Miner, notify'[h].at # "idle", ~Passed(h, t)'
            PROVE  /\ overlapped /\ notify'[h].item # item
                   /\ \A i \in DOMAIN Given(t) : Given(t)[i] # notify'[h].item
        <4>1. /\ h # g /\ notify[h].at # "idle" /\ notify'[h].item = notify[h].item
              /\ ~Passed(h, t)
          BY <1>1, <1>11, <3>3
        <4>2. notify[h].item # item
          BY <1>i, <3>1, <4>1 DEF IInv, CallsKnown
        <4>3. overlapped
          BY <3>1, <4>1 DEF IInv, CallsKnown, OneMiner, Alive
        <4> QED BY <2>1, <4>1, <4>2, <4>3 DEF StreamOK, InOrder
      <3>4. CASE ~room
        BY <1>14, <2>1, <3>2, <3>3, <3>4 DEF InOrder
      <3>5. CASE room
        <4>1. \A i \in DOMAIN Given(t)' : Given(t)'[i] \in (1..made) \ unsaved
          BY <2>1, <2>3, <3>1, <3>2, <3>5
        <4>2. \A i, j \in DOMAIN Given(t)' : Given(t)'[i] = Given(t)'[j] => i = j
          BY <2>1, <2>3, <3>1, <3>2, <3>5
        <4>3. ~overlapped =>
                 \A i, j \in DOMAIN Given(t)' : i < j => Given(t)'[i] < Given(t)'[j]
          BY <2>1, <2>3, <3>1, <3>2, <3>5
        <4>4. ASSUME NEW h \in Miner, notify'[h].at # "idle", ~Passed(h, t)'
              PROVE  /\ overlapped
                     /\ \A i \in DOMAIN Given(t)' : Given(t)'[i] # notify'[h].item
          BY <2>1, <2>3, <3>3, <3>5, <4>4
        <4> QED BY <2>1, <4>1, <4>2, <4>3, <4>4 DEF InOrder
      <3> QED BY <3>4, <3>5
    <2>7. PassedHasItem(t)'
      <3> SUFFICES ASSUME Serving(t), t \notin filled', NEW h \in Notifier,
                          handler[t].kind = KindOf(h), Passed(h, t)',
                          notify'[h].item \notin before[t]
                   PROVE  notify'[h].item \in ToSet(Given(t))'
        BY <2>1 DEF PassedHasItem
      <3>1. room
        BY <2>1, <2>5
      <3> QED BY <1>10, <1>i, <2>1, <2>4, <3>1 DEF StreamOK, PassedHasItem
    <2>8. HasWhatWasTold(t)'
      <3> SUFFICES ASSUME Serving(t), t \notin filled'
                   PROVE  Told(handler[t].kind)' \ before[t] \subseteq ToSet(Given(t))'
        BY <2>1 DEF HasWhatWasTold
      <3>1. room
        BY <2>1, <2>5
      <3>2. Told(handler[t].kind) \ before[t] \subseteq ToSet(Given(t))
        BY <2>1 DEF StreamOK, HasWhatWasTold
      <3> QED BY <1>1, <1>13, <2>1, <2>4, <3>1, <3>2
    <2> QED BY <2>2, <2>6, <2>7, <2>8 DEF StreamOK
  <1>17. ASSUME NEW s \in Stream PROVE StreamOK(s)'
    BY <1>15, <1>16, <1>17
  <1> QED BY <1>6, <1>7, <1>8, <1>9, <1>17 DEF IInv

(* Every step preserves the invariant.                                     *)
LEMMA StepPreserves == IInv /\ [Next]_vars => IInv'
  <1> SUFFICES ASSUME IInv, Next PROVE IInv'
    BY StutterPreserves
  <1>1. CASE \E t \in Tx : SubmitTransaction(t)
    BY <1>1, SubmitTransactionStep
  <1>2. ASSUME NEW g \in Miner, Mine(g) PROVE IInv'
    BY <1>2, QuietActionsStep, AddBlockFailsStep, AddBlockStep DEF Mine
  <1>3. CASE \E g \in Notifier : Notify(g)
    BY <1>3, RLockStep, NotifyNextStep DEF Notify
  <1>4. ASSUME NEW s \in Stream,
               \/ \E k \in Kind : Subscribe(s, k)
               \/ Handle(s) \/ Send(s) \/ ClientLeaves(s)
        PROVE  IInv'
    BY <1>4, SubscribeStep, JoinStep, ReceiveStep, ReturnStep, LeaveStep,
       SendStep, QuietActionsStep DEF Handle
  <1>5. CASE Stop \/ StopReturns
    BY <1>5, QuietActionsStep
  <1> QED BY <1>1, <1>2, <1>3, <1>4, <1>5 DEF Next

-----------------------------------------------------------------------------
(* The theorems. *)

(* The inductive invariant holds in every reachable state.                 *)
THEOREM Inductive == Spec => []IInv
  BY InitEstablishes, StepPreserves, PTL DEF Spec

(* Every variable keeps its type; no channel ever holds more than it can.  *)
THEOREM TypeCorrect == Spec => []TypeOK
  <1>1. IInv => TypeOK
    BY DEF IInv
  <1> QED BY <1>1, Inductive, PTL

(* No notifier sends on a channel that its handler has closed, whoever     *)
(* joins, leaves or is being notified meanwhile.                           *)
THEOREM ChannelsOpen == Spec => []NoSendOnClosed
  <1>1. IInv => NoSendOnClosed
    BY DEF IInv
  <1> QED BY <1>1, Inductive, PTL

(* Subscribers are told of blocks that were appended and saved, never      *)
(* twice of one, however many miners notify; and without an overlap of two *)
(* miners, of blocks of the chain in the order of the chain.               *)
THEOREM BlocksInOrder == Spec => []ToldInOrder
  <1>1. IInv => ToldInOrder
    <2> SUFFICES ASSUME IInv, NEW s \in Stream, Serving(s), handler[s].kind = "block"
                 PROVE  /\ \A i \in DOMAIN Given(s) : Given(s)[i] \in (1..made) \ unsaved
                        /\ \A i, j \in DOMAIN Given(s) : Given(s)[i] = Given(s)[j] => i = j
                        /\ ~overlapped =>
                              \A i, j \in DOMAIN Given(s) : i <= j =>
                                  \E p, q \in DOMAIN chain :
                                      p <= q /\ chain[p] = Given(s)[i] /\ chain[q] = Given(s)[j]
      BY DEF ToldInOrder, Serving
    <2>1. /\ \A i \in DOMAIN Given(s) : Given(s)[i] \in (1..made) \ unsaved
          /\ \A i, j \in DOMAIN Given(s) : Given(s)[i] = Given(s)[j] => i = j
          /\ ~overlapped => \A i, j \in DOMAIN Given(s) : i < j => Given(s)[i] < Given(s)[j]
      BY DEF IInv, StreamOK, InOrder
    <2>2. ASSUME ~overlapped, NEW i \in DOMAIN Given(s), NEW j \in DOMAIN Given(s), i <= j
          PROVE  \E p, q \in DOMAIN chain :
                     p <= q /\ chain[p] = Given(s)[i] /\ chain[q] = Given(s)[j]
      <3> DEFINE p == Given(s)[i]
                 q == Given(s)[j]
      <3>1. DOMAIN chain = 1..made /\ \A b \in 1..made : chain[b] = b /\ b \in Nat
        BY <2>2 DEF IInv, TypeOK, OneMiner
      <3>2. p \in 1..made /\ q \in 1..made
        BY <2>1
      <3>3. DOMAIN Given(s) \subseteq Nat
        BY GivenIsSeq
      <3>4. p <= q
        <4>1. CASE i = j
          BY <3>1, <3>2, <4>1
        <4>2. CASE i < j
          BY <2>1, <2>2, <3>1, <3>2, <4>2
        <4> QED BY <2>2, <3>3, <4>1, <4>2
      <3> HIDE DEF p, q
      <3>5. \E x, y \in DOMAIN chain : x <= y /\ chain[x] = p /\ chain[y] = q
        BY <3>1, <3>2, <3>4
      <3> QED BY <3>5 DEF p, q
    <2> QED BY <2>1, <2>2
  <1> QED BY <1>1, Inductive, PTL

(* A subscriber misses an item only if its channel was full at some time   *)
(* since it was listed.                                                    *)
THEOREM NothingMissed == Spec => []MissesOnlyWhenFull
  <1>1. IInv => MissesOnlyWhenFull
    <2> SUFFICES ASSUME IInv, NEW s \in Stream, Serving(s), s \notin filled
                 PROVE  Notified(handler[s].kind) \ before[s] \subseteq ToSet(Given(s))
      BY DEF MissesOnlyWhenFull, Serving
    <2>1. Notified(handler[s].kind) \subseteq Told(handler[s].kind)
      BY DEF Notified, Told, IInv, CallsKnown
    <2> QED BY <2>1 DEF IInv, StreamOK, HasWhatWasTold
  <1> QED BY <1>1, Inductive, PTL
=============================================================================
