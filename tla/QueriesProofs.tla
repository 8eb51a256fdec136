---------------------------- MODULE QueriesProofs ----------------------------
(***************************************************************************)
(* Proofs that the queries of Queries answer what they should, for any     *)
(* texts, addresses and bounds: an inductive invariant.                    *)
(***************************************************************************)
EXTENDS Queries, Facts

-----------------------------------------------------------------------------
(* The inductive invariant, in named parts.                                *)

(* What may be in the mempool or on the chain: the forms of what has been  *)
(* submitted.                                                              *)
Sent == {ProtoToTx(submitted[k]) : k \in DOMAIN submitted}

(* Every transaction, wherever it is, is one that was submitted, and there *)
(* is always a genesis block.                                              *)
LedgerOK ==
    /\ submitted \in Seq(Message)
    /\ mempool \in Seq(Sent) /\ drained \in Seq(Sent)
    /\ chain \in Seq(Seq(Sent)) /\ Len(chain) >= 1

(* A block as it is answered.                                              *)
BlockSet == [height : Int, transactions : Int]

Ops == {"none", "GetTransaction", "GetBlockByHash", "GetBlockchainInfo",
        "GetBestBlockHash", "RecentBlocks", "GetMempool", "GetBlockByHeight"}

Phases == {"idle", "asked", "best", "height", "scan", "fetch", "answered", "refused"}

CallSet ==
    [op : Ops, at : Phases, id : Form, count : Int, height : Int, next : Int,
     top : Int, blocks : Seq(BlockSet), answer : Seq(Message), known : BOOLEAN,
     taken : BOOLEAN, failed : SUBSET Int]

(* Where a query can be.                                                   *)
PhasesOf(op) ==
    CASE op = "GetTransaction" -> {"asked", "height", "scan", "answered"}
      [] op = "GetBlockByHash" -> {"height", "scan", "answered"}
      [] op = "GetBlockchainInfo" -> {"best", "height", "scan", "answered"}
      [] op = "GetBestBlockHash" -> {"best", "answered"}
      [] op = "RecentBlocks" -> {"fetch", "answered", "refused"}
      [] op \in {"GetMempool", "GetBlockByHeight"} -> {"answered"}
      [] OTHER -> {"idle"}

CallOK == call \in CallSet /\ call.at \in PhasesOf(call.op)

(* A transaction that was known is in the mempool until that is searched,  *)
(* unless it was taken, or on the chain, in the part of it that is scanned. *)
StillThere(height) == Matches(OnChain(height), call.id) # {}

GoesOnToFind ==
    call.op = "GetTransaction" /\ call.known /\ ~call.taken =>
        /\ call.at = "asked" => Matches(mempool, call.id) # {} \/ StillThere(Height)
        /\ call.at = "height" => StillThere(Height)
        /\ call.at = "scan" => StillThere(call.top)

(* A block asked for by its hash is where it was, and the scan gets there. *)
HashStillThere ==
    call.op = "GetBlockByHash" /\ call.known =>
        /\ call.next >= 0 /\ call.next < Height
        /\ call.at = "scan" => call.next < call.top

(* A page never asks for a place above the height that it read.            *)
NextFits ==
    call.op = "RecentBlocks" /\ call.at = "fetch" => call.next <= call.height

(* A height that was read is still one of the chain, and the scan for the  *)
(* total covers the blocks up to it.                                       *)
HeightsFit ==
    /\ call.height \in 0..Height /\ NextFits
    /\ call.at = "scan" => call.top \in 0..Height
    /\ call.op = "GetBlockchainInfo" /\ call.at = "scan" => call.height <= call.top

(* The blocks of a page so far: going down from the place first asked for, *)
(* or the one below, all but those that a call has failed for.             *)
PageSoFar ==
    call.op = "RecentBlocks" /\ call.at # "refused" =>
        LET b == call.blocks
            h(i) == b[i].height
        IN  /\ call.count >= 1 /\ call.height >= 1
            /\ \A i \in 1..Len(b) : h(i) \in (call.next + 1)..call.height
            /\ \A i \in 2..Len(b) : h(i) < h(i - 1)
            /\ \A k \in (call.next + 1)..(call.height - 1) :
                  k \in call.failed \/ \E i \in 1..Len(b) : h(i) = k
            /\ call.at = "fetch" => call.next >= Lowest
            /\ call.at = "answered" => call.next = Lowest - 1

(* What is true of the query that is followed.                             *)
CallInv ==
    /\ CallOK /\ GoesOnToFind /\ HashStillThere /\ HeightsFit /\ PageSoFar
    /\ NotFoundOnlyIfUnknown /\ AnsweredAsSubmitted /\ BlocksFit

IInv == LedgerOK /\ CallInv

-----------------------------------------------------------------------------
(* Facts about the operators of the model.                                 *)

(* d begins with c.                                                        *)
Continues(d, c) == Len(c) <= Len(d) /\ \A i \in 1..Len(c) : d[i] = c[i]

(* What c begins with, d begins with.                                      *)
LEMMA SamePart ==
    ASSUME NEW T, NEW c \in Seq(T), NEW d \in Seq(T), Continues(d, c),
           NEW m \in 0..Len(c)
    PROVE  SubSeq(d, 1, m) = SubSeq(c, 1, m)
  <1>1. m \in 0..Len(d) /\ m \in Nat
    BY DEF Continues
  <1>2. /\ SubSeq(c, 1, m) \in Seq(T) /\ Len(SubSeq(c, 1, m)) = m
        /\ \A i \in 1..m : SubSeq(c, 1, m)[i] = c[i]
    BY FrontFacts
  <1>3. /\ SubSeq(d, 1, m) \in Seq(T) /\ Len(SubSeq(d, 1, m)) = m
        /\ \A i \in 1..m : SubSeq(d, 1, m)[i] = d[i]
    BY <1>1, FrontFacts
  <1>4. \A i \in 1..m : d[i] = c[i]
    BY DEF Continues
  <1> HIDE DEF Continues
  <1> QED BY <1>2, <1>3, <1>4, SameSeq

(* What is found in a part of a chain is found in a longer part of it, and *)
(* of the chain as it is later.                                            *)
LEMMA FoundStays ==
    ASSUME NEW T, NEW c \in Seq(Seq(T)), NEW d \in Seq(Seq(T)), Continues(d, c),
           NEW m \in 0..Len(c), NEW n \in m..Len(d), NEW id,
           Matches(FlattenSeq(SubSeq(c, 1, m)), id) # {}
    PROVE  Matches(FlattenSeq(SubSeq(d, 1, n)), id) # {}
  <1> DEFINE old == FlattenSeq(SubSeq(c, 1, m))
             new == FlattenSeq(SubSeq(d, 1, n))
  <1>1. m \in 0..Len(d)
    BY DEF Continues
  <1>2. SubSeq(d, 1, m) = SubSeq(c, 1, m)
    BY SamePart
  <1>3. /\ old \in Seq(T) /\ new \in Seq(T) /\ Len(old) <= Len(new)
        /\ \A i \in 1..Len(old) : new[i] = old[i]
    <2> DEFINE same == FlattenSeq(SubSeq(d, 1, m))
    <2>1. /\ same \in Seq(T) /\ new \in Seq(T) /\ Len(same) <= Len(new)
          /\ \A i \in 1..Len(same) : new[i] = same[i]
      BY <1>1, FlattenGrows
    <2>2. same = old
      BY <1>2
    <2> HIDE DEF old, new, same
    <2> QED BY <2>1, <2>2
  <1>4. PICK i \in DOMAIN old : Show(old[i].id) = id
    BY DEF Matches
  <1> HIDE DEF old, new
  <1>5. i \in 1..Len(old) /\ i \in 1..Len(new)
    BY <1>3, <1>4, PlacesOfSeq
  <1>6. i \in DOMAIN new /\ Show(new[i].id) = id
    BY <1>3, <1>4, <1>5, PlacesOfSeq
  <1> QED BY <1>6 DEF Matches, new

(* A longer part of a chain has as many transactions, or more.             *)
LEMMA TotalGrows ==
    ASSUME NEW T, NEW s \in Seq(Seq(T)), NEW m \in 0..Len(s), NEW n \in m..Len(s)
    PROVE  /\ Total(SubSeq(s, 1, m)) \in Nat /\ Total(SubSeq(s, 1, n)) \in Nat
           /\ Total(SubSeq(s, 1, m)) <= Total(SubSeq(s, 1, n))
  <1> DEFINE shorter == FlattenSeq(SubSeq(s, 1, m))
             longer == FlattenSeq(SubSeq(s, 1, n))
  <1>1. shorter \in Seq(T) /\ longer \in Seq(T) /\ Len(shorter) <= Len(longer)
    BY FlattenGrows
  <1>2. n \in 0..Len(s) /\ m <= n /\ m \in Nat /\ n \in Nat
    OBVIOUS
  <1>3. Len(SubSeq(s, 1, m)) = m /\ Len(SubSeq(s, 1, n)) = n
    BY <1>2, FrontFacts
  <1>4. /\ Total(SubSeq(s, 1, m)) = m + Len(shorter)
        /\ Total(SubSeq(s, 1, n)) = n + Len(longer)
    BY <1>3 DEF Total
  <1> HIDE DEF shorter, longer
  <1>5. Len(shorter) \in Nat /\ Len(longer) \in Nat
    BY <1>1
  <1> QED BY <1>1, <1>2, <1>4, <1>5

(* The part of the chain that a scan sees: up to the height that was read, *)
(* or one block more.                                                      *)
LEMMA ScannedFacts ==
    ASSUME chain \in Seq(Seq(Sent)), NEW h \in 0..Height
    PROVE  \E n \in h..Height : /\ Scanned(h) = SubSeq(chain, 1, n)
                                /\ n = IF h < Height THEN h + 1 ELSE Height
                                /\ Len(Scanned(h)) = n
                                /\ OnChain(h) \in Seq(Sent)
  <1> DEFINE n == IF h < Height THEN h + 1 ELSE Height
  <1>1. Height = Len(chain) /\ Height \in Nat
    BY DEF Height
  <1>2. h \in Nat /\ n \in h..Height /\ n \in 0..Len(chain)
    BY <1>1
  <1>3. Scanned(h) = SubSeq(chain, 1, n)
    BY DEF Scanned
  <1> HIDE DEF n
  <1>4. Len(SubSeq(chain, 1, n)) = n
    BY <1>2, FrontFacts
  <1>5. FlattenSeq(SubSeq(chain, 1, n)) \in Seq(Sent)
    <2>1. n \in n..Len(chain)
      BY <1>1, <1>2
    <2> QED BY <1>2, <2>1, FlattenGrows
  <1> QED BY <1>2, <1>3, <1>4, <1>5 DEF OnChain, n

(* The bytes of a text come back, in lower case and with nothing after.    *)
LEMMA ShowScan ==
    ASSUME NEW text \in Form
    PROVE  Show(Scan(text)) \in Form /\ GivenFor(Show(Scan(text)), text)
  <1>1. "" \notin Hex
    BY TextsAssumption
  <1>2. text.bytes \in Hex \cup {""}
    BY DEF Form
  <1>3. /\ \A bytes \in Hex \cup {""} : Lower(bytes) \in Form
        /\ \A bytes : /\ Lower(bytes).bytes = bytes /\ Lower(bytes).rest = "none"
                      /\ ~Lower(bytes).upper
    BY DEF Lower, Form
  <1>4. CASE text.bytes = "" \/ text.rest = "digit"
    <2>1. Scan(text) = <<>> /\ Show(<<>>) = Lower("")
      BY <1>4 DEF Scan, Show, EmptyText
    <2>2. Scan(Lower("")) = <<>>
      BY <1>3 DEF Scan
    <2> QED BY <1>3, <2>1, <2>2 DEF GivenFor
  <1>5. CASE ~(text.bytes = "" \/ text.rest = "digit")
    <2> DEFINE bytes == text.bytes
    <2>1. Scan(text) = <<bytes>> /\ bytes # "" /\ bytes \in Hex
      BY <1>2, <1>5 DEF Scan
    <2> HIDE DEF bytes
    <2>2. Show(<<bytes>>) = Lower(bytes)
      <3>1. <<bytes>> # <<>> /\ <<bytes>>[1] = bytes
        OBVIOUS
      <3> QED BY <3>1 DEF Show
    <2>3. Scan(Lower(bytes)) = <<bytes>>
      <3>1. Lower(bytes).bytes = bytes /\ Lower(bytes).rest = "none"
        BY <1>3
      <3> QED BY <2>1, <3>1 DEF Scan
    <2> QED BY <1>3, <2>1, <2>2, <2>3 DEF GivenFor
  <1> QED BY <1>4, <1>5

(* A message, as it is answered.                                           *)
Given(t, m) == GivenFor(t.id, m.id) /\ GivenFor(t.input, m.input)

(* A transaction that was submitted is answered so.                        *)
LEMMA SentFacts ==
    ASSUME submitted \in Seq(Message), NEW t \in Sent
    PROVE  /\ TxToProto(t) \in Message /\ TxToProto(t).id = Show(t.id)
           /\ \E m \in ToSet(submitted) : Given(TxToProto(t), m)
  <1>1. PICK k \in DOMAIN submitted : t = ProtoToTx(submitted[k])
    BY DEF Sent
  <1> DEFINE m == submitted[k]
  <1>2. m \in Message /\ m \in ToSet(submitted)
    BY <1>1, ElementIn, PlacesOfSeq DEF ToSet
  <1>3. m.id \in Form /\ m.input \in Form
    BY <1>2 DEF Message
  <1> HIDE DEF m
  <1>4. t = [id |-> Scan(m.id), input |-> Scan(m.input)]
    BY <1>1 DEF ProtoToTx, m
  <1>5. TxToProto(t) = [id |-> Show(Scan(m.id)), input |-> Show(Scan(m.input))]
    BY <1>4 DEF TxToProto
  <1>6. Given(TxToProto(t), m)
    BY <1>3, <1>5, ShowScan DEF Given
  <1>7. TxToProto(t) \in Message
    BY <1>3, <1>5, ShowScan DEF Message
  <1>8. TxToProto(t).id = Show(t.id)
    BY DEF TxToProto
  <1> QED BY <1>2, <1>6, <1>7, <1>8

(* An answer that gives submitted transactions as they should be given,    *)
(* and only those with the id, if one is asked for.                        *)
Right(answer) ==
    /\ answer \in Seq(Message)
    /\ \A i \in DOMAIN answer : \E m \in ToSet(submitted) : Given(answer[i], m)

(* The first match is such an answer, and there is one if there is any.    *)
LEMMA FirstMatchFacts ==
    ASSUME submitted \in Seq(Message), NEW list \in Seq(Sent), NEW id
    PROVE  /\ FirstMatch(list, id) = <<>> <=> Matches(list, id) = {}
           /\ Right(FirstMatch(list, id))
           /\ \A i \in DOMAIN FirstMatch(list, id) : FirstMatch(list, id)[i].id = id
  <1> DEFINE places == Matches(list, id)
  <1>1. CASE places = {}
    <2>1. FirstMatch(list, id) = <<>>
      BY <1>1 DEF FirstMatch
    <2>2. <<>> \in Seq(Message) /\ DOMAIN <<>> = {}
      OBVIOUS
    <2> QED BY <1>1, <2>1, <2>2 DEF Right
  <1>2. CASE places # {}
    <2> DEFINE first == Min(places)
               t == TxToProto(list[first])
    <2>1. places \subseteq DOMAIN list /\ DOMAIN list = 1..Len(list)
      BY PlacesOfSeq DEF Matches
    <2>2. \E x \in places : \A y \in places : x <= y
      <3>1. places \subseteq Nat
        BY <2>1
      <3> QED BY <1>2, <3>1, LeastElement
    <2>3. first \in places
      BY <2>2 DEF Min
    <2>4. FirstMatch(list, id) = <<t>>
      BY <1>2 DEF FirstMatch
    <2> HIDE DEF first
    <2>5. list[first] \in Sent /\ Show(list[first].id) = id
      <3>1. first \in 1..Len(list)
        BY <2>1, <2>3
      <3> QED BY <2>3, <3>1, ElementIn DEF Matches
    <2>6. t \in Message /\ t.id = id /\ \E m \in ToSet(submitted) : Given(t, m)
      BY <2>5, SentFacts
    <2> HIDE DEF t
    <2>7. <<t>> \in Seq(Message) /\ DOMAIN <<t>> = {1} /\ <<t>>[1] = t /\ <<t>> # <<>>
      BY <2>6
    <2> QED BY <1>2, <2>4, <2>6, <2>7 DEF Right
  <1> QED BY <1>1, <1>2

(* What BlockAt gives.                                                     *)
LEMMA BlockAtFacts ==
    ASSUME Len(chain) \in Nat, chain \in Seq(Seq(Sent)), NEW i \in Int
    PROVE  /\ BlockAt(i) \in Seq(BlockSet)
           /\ HasBlock(i) <=> i \in 0..(Height - 1)
           /\ HasBlock(i) => /\ Len(BlockAt(i)) = 1 /\ BlockAt(i) # <<>>
                             /\ DOMAIN BlockAt(i) = {1} /\ BlockAt(i)[1].height = i
           /\ ~HasBlock(i) => BlockAt(i) = <<>>
  <1>1. HasBlock(i) <=> i \in 0..(Height - 1)
    BY DEF HasBlock, Height
  <1>2. CASE HasBlock(i)
    <2> DEFINE b == BlockToProto(i)
    <2>1. BlockAt(i) = <<b>>
      BY <1>2 DEF BlockAt
    <2>2. chain[i + 1] \in Seq(Sent)
      <3>1. i + 1 \in 1..Len(chain)
        BY <1>1, <1>2 DEF Height
      <3> QED BY <3>1, ElementIn
    <2>3. Len(chain[i + 1]) \in Nat
      BY <2>2
    <2>4. b \in BlockSet /\ b.height = i
      BY <2>3 DEF BlockToProto, BlockSet
    <2> HIDE DEF b
    <2>5. <<b>> \in Seq(BlockSet) /\ Len(<<b>>) = 1 /\ <<b>> # <<>>
          /\ DOMAIN <<b>> = {1} /\ <<b>>[1] = b
      BY <2>4
    <2> QED BY <1>1, <1>2, <2>1, <2>4, <2>5
  <1>3. CASE ~HasBlock(i)
    BY <1>1, <1>3, EmptyIsSeq DEF BlockAt
  <1> QED BY <1>2, <1>3

-----------------------------------------------------------------------------
(* The ledger goes on, whatever the query is at.                           *)

(* The chain is as it was or has a block more, nothing that was submitted  *)
(* is forgotten, and what leaves the mempool is noted.                     *)
Goes ==
    /\ LedgerOK' /\ chain \in Seq(Seq(Sent'))
    /\ call' = [call EXCEPT !.taken = call'.taken]
    /\ call'.taken \in BOOLEAN /\ (call.taken => call'.taken)
    /\ call.at = "asked" /\ ~call'.taken /\ Matches(mempool, call.id) # {} =>
          Matches(mempool', call.id) # {}
    /\ Continues(chain', chain)
    /\ ToSet(submitted) \subseteq ToSet(submitted')

(* Then the query is right as it was.                                      *)
LEMMA CallKept == IInv /\ Goes => CallInv'
  <1> SUFFICES ASSUME IInv, Goes PROVE CallInv'
    OBVIOUS
  <1>1. /\ chain \in Seq(Seq(Sent')) /\ chain' \in Seq(Seq(Sent'))
        /\ chain \in Seq(Seq(Sent))
        /\ Continues(chain', chain)
        /\ Height = Len(chain) /\ Height' = Len(chain')
        /\ ToSet(submitted) \subseteq ToSet(submitted')
    BY DEF Goes, IInv, LedgerOK, Height
  <1>13. /\ call' \in CallSet /\ call'.op = call.op /\ call'.at = call.at
         /\ call'.id = call.id /\ call'.count = call.count
         /\ call'.height = call.height /\ call'.next = call.next
         /\ call'.top = call.top /\ call'.blocks = call.blocks
         /\ call'.answer = call.answer /\ call'.known = call.known
         /\ call'.failed = call.failed /\ (call.taken => call'.taken)
    <2>1. call \in CallSet
      BY DEF IInv, CallInv, CallOK
    <2>2. /\ call' = [call EXCEPT !.taken = call'.taken] /\ call'.taken \in BOOLEAN
          /\ call.taken => call'.taken
      BY DEF Goes
    <2> QED BY <2>1, <2>2 DEF CallSet
  <1>2. Height \in Nat /\ Height' \in Nat /\ Height <= Height'
    BY <1>1 DEF Continues
  <1>3. /\ CallOK /\ GoesOnToFind /\ HashStillThere /\ HeightsFit /\ PageSoFar
        /\ NotFoundOnlyIfUnknown /\ AnsweredAsSubmitted /\ BlocksFit
    BY DEF IInv, CallInv
  <1>4. ASSUME NEW h \in 0..Height, NEW k \in h..Height', StillThere(h),
               k = h \/ (h = Height /\ k = Height')
        PROVE  Matches(OnChain(k)', call.id) # {}
    <2> DEFINE m == IF h < Height THEN h + 1 ELSE Height
               n == IF k < Height' THEN k + 1 ELSE Height'
    <2>1. h \in Nat /\ k \in Nat /\ m \in 0..Len(chain) /\ n \in m..Len(chain')
      BY <1>1, <1>2, <1>4
    <2>2. OnChain(h) = FlattenSeq(SubSeq(chain, 1, m))
      BY DEF OnChain, Scanned
    <2>3. OnChain(k)' = FlattenSeq(SubSeq(chain', 1, n))
      BY DEF OnChain, Scanned
    <2>4. Matches(FlattenSeq(SubSeq(chain, 1, m)), call.id) # {}
      BY <1>4, <2>2 DEF StillThere
    <2> HIDE DEF m, n
    <2>5. Matches(FlattenSeq(SubSeq(chain', 1, n)), call.id) # {}
      BY <1>1, <2>1, <2>4, FoundStays
    <2> QED BY <2>3, <2>5
  <1>5. CallOK'
    BY <1>3, <1>13 DEF CallOK, PhasesOf
  <1>6. GoesOnToFind'
    <2>3. ASSUME call.op = "GetTransaction", call.known, ~call'.taken, call.at = "asked"
          PROVE  Matches(mempool', call.id) # {} \/ StillThere(Height)'
      <3>1. Matches(mempool, call.id) # {} \/ StillThere(Height)
        BY <1>3, <1>13, <2>3 DEF GoesOnToFind
      <3>2. CASE Matches(mempool, call.id) # {}
        BY <2>3, <3>2 DEF Goes
      <3>3. CASE StillThere(Height)
        <4>1. Height \in 0..Height /\ Height' \in Height..Height'
          BY <1>2
        <4>2. Matches(OnChain(Height)', call.id) # {}
          BY <1>4, <3>3, <4>1
        <4> QED BY <1>13, <4>2 DEF StillThere
      <3> QED BY <3>1, <3>2, <3>3
    <2>1. ASSUME call.op = "GetTransaction", call.known, ~call'.taken, call.at = "height"
          PROVE  StillThere(Height)'
      <3>1. StillThere(Height) /\ Height \in 0..Height /\ Height' \in Height..Height'
        BY <1>2, <1>3, <1>13, <2>1 DEF GoesOnToFind
      <3>2. Matches(OnChain(Height)', call.id) # {}
        BY <1>4, <3>1
      <3> QED BY <1>13, <3>2 DEF StillThere
    <2>2. ASSUME call.op = "GetTransaction", call.known, ~call'.taken, call.at = "scan"
          PROVE  StillThere(call.top)'
      <3>1. StillThere(call.top) /\ call.top \in 0..Height
        BY <1>3, <1>13, <2>2 DEF GoesOnToFind, HeightsFit, NextFits
      <3>2. call.top \in call.top..Height'
        BY <1>2, <3>1
      <3>3. Matches(OnChain(call.top)', call.id) # {}
        BY <1>1, <1>4, <1>13, <3>1, <3>2
      <3> QED BY <1>13, <3>3 DEF StillThere
    <2> QED BY <1>13, <2>1, <2>2, <2>3 DEF GoesOnToFind
  <1>7. HashStillThere'
    BY <1>1, <1>2, <1>3, <1>13 DEF HashStillThere, CallOK, CallSet
  <1>8. HeightsFit'
    BY <1>1, <1>2, <1>3, <1>13 DEF HeightsFit, NextFits
  <1>9. PageSoFar'
    BY <1>1, <1>3, <1>13 DEF PageSoFar, Lowest
  <1>10. NotFoundOnlyIfUnknown'
    BY <1>1, <1>3, <1>13 DEF NotFoundOnlyIfUnknown
  <1>11. AnsweredAsSubmitted'
    BY <1>1, <1>3, <1>13 DEF AnsweredAsSubmitted
  <1>12. BlocksFit'
    <2>1. \A i \in Int : HasBlock(i) => HasBlock(i)'
      BY <1>1, <1>2 DEF HasBlock
    <2>2. call.blocks \in Seq(BlockSet) /\ call.height \in 0..Height
      BY <1>3 DEF CallOK, CallSet, HeightsFit, NextFits
    <2>3. ASSUME NEW i \in DOMAIN call.blocks PROVE call.blocks[i].height \in Int
      <3>1. call.blocks[i] \in BlockSet
        BY <2>2, <2>3, ElementIn, PlacesOfSeq
      <3> QED BY <3>1 DEF BlockSet
    <2>4. SubSeq(chain', 1, call.height) = SubSeq(chain, 1, call.height)
      <3>1. call.height \in 0..Len(chain)
        BY <1>1, <2>2
      <3> QED BY <1>1, <3>1, SamePart
    <2>5. /\ Total(chain) \in Nat /\ Total(chain') \in Nat
          /\ Total(chain) <= Total(chain')
      <3>1. SubSeq(chain', 1, Len(chain)) = chain
        <4>1. Len(chain) \in 0..Len(chain)
          BY <1>1, <1>2
        <4>2. SubSeq(chain', 1, Len(chain)) = SubSeq(chain, 1, Len(chain))
          BY <1>1, <4>1, SamePart
        <4> QED BY <1>1, <4>2, WholePart
      <3>2. SubSeq(chain', 1, Len(chain')) = chain'
        BY <1>1, WholePart
      <3>3. Len(chain) \in 0..Len(chain') /\ Len(chain') \in Len(chain)..Len(chain')
        BY <1>1, <1>2
      <3>4. /\ Total(SubSeq(chain', 1, Len(chain))) \in Nat
            /\ Total(SubSeq(chain', 1, Len(chain'))) \in Nat
            /\ Total(SubSeq(chain', 1, Len(chain))) <= Total(SubSeq(chain', 1, Len(chain')))
        BY <1>1, <3>3, TotalGrows
      <3> QED BY <3>1, <3>2, <3>4
    <2>6. call.count \in Int
      BY <1>3 DEF CallOK, CallSet
    <2>7. ASSUME call.op = "GetBlockchainInfo", call.at = "answered"
          PROVE  /\ call.count >= Total(SubSeq(chain', 1, call.height))
                 /\ call.count <= Total(chain')
      <3>1. /\ call.count >= Total(SubSeq(chain, 1, call.height))
            /\ call.count <= Total(chain)
        BY <1>3, <2>7 DEF BlocksFit
      <3>2. call.count >= Total(SubSeq(chain', 1, call.height))
        BY <2>4, <3>1
      <3>3. call.count <= Total(chain')
        BY ONLY <2>5, <2>6, <3>1
      <3> QED BY <3>2, <3>3
    <2>8. ASSUME call.op \in {"GetBlockchainInfo", "GetBestBlockHash"},
                 NEW i \in DOMAIN call.blocks
          PROVE  call.blocks[i].height = call.height /\ HasBlock(call.blocks[i].height)'
      <3>1. call.blocks[i].height = call.height /\ HasBlock(call.blocks[i].height)
        BY <1>3, <2>8 DEF BlocksFit
      <3>2. call.height \in Int /\ HasBlock(call.height)
        BY <2>2, <3>1
      <3>3. HasBlock(call.height)'
        BY <1>13, <2>1, <3>2 DEF HasBlock
      <3> QED BY <1>13, <3>1, <3>3 DEF HasBlock
    <2>9. Lowest' = Lowest
      BY <1>13 DEF Lowest
    <2>10. ASSUME call.op = "RecentBlocks", call.at = "answered"
           PROVE  LET b == call.blocks IN
                  /\ \A i \in 1..Len(b) : b[i].height \in Lowest..call.height
                  /\ \A i \in 2..Len(b) : b[i].height < b[i - 1].height
                  /\ \A k \in Lowest..(call.height - 1) :
                        k \in call.failed \/ \E i \in 1..Len(b) : b[i].height = k
      BY <1>3, <2>10 DEF BlocksFit
    <2>11. \A i : HasBlock(i)' <=> i >= 0 /\ i < Len(chain')
      BY DEF HasBlock
    <2>12. \A b : Total(b)' = Total(b)
      BY DEF Total
    <2>13. call'.op = "RecentBlocks" /\ call'.at = "answered" =>
             /\ \A i \in 1..Len(call'.blocks) : call'.blocks[i].height \in Lowest'..call'.height
             /\ \A i \in 2..Len(call'.blocks) :
                   call'.blocks[i].height < call'.blocks[i - 1].height
             /\ \A k \in Lowest'..(call'.height - 1) :
                   k \in call'.failed
                     \/ \E i \in 1..Len(call'.blocks) : call'.blocks[i].height = k
      BY <1>13, <2>9, <2>10, Zenon
    <2>14. call'.op \in {"GetBlockchainInfo", "GetBestBlockHash"} =>
             \A i \in DOMAIN call'.blocks :
                /\ call'.blocks[i].height = call'.height
                /\ call'.blocks[i].height >= 0 /\ call'.blocks[i].height < Len(chain')
      <3>1. call.op \in {"GetBlockchainInfo", "GetBestBlockHash"} =>
              \A i \in DOMAIN call.blocks :
                 /\ call.blocks[i].height = call.height
                 /\ call.blocks[i].height >= 0 /\ call.blocks[i].height < Len(chain')
        BY <1>13, <2>8 DEF HasBlock
      <3> QED BY <1>13, <3>1, Zenon
    <2>15. call'.op = "GetBlockchainInfo" /\ call'.at = "answered" =>
             /\ call'.count >= Total(SubSeq(chain', 1, call'.height))
             /\ call'.count <= Total(chain')
      BY <1>13, <2>7, Zenon
    <2> QED BY <2>13, <2>14, <2>15, Zenon DEF BlocksFit, HasBlock, Total
  <1> QED BY <1>5, <1>6, <1>7, <1>8, <1>9, <1>10, <1>11, <1>12 DEF CallInv

(* A query that stays as it is, while nothing leaves the mempool.          *)
LEMMA Stays ==
    ASSUME IInv, call' = call, LedgerOK', chain \in Seq(Seq(Sent')),
           Continues(chain', chain), ToSet(submitted) \subseteq ToSet(submitted'),
           Matches(mempool, call.id) # {} => Matches(mempool', call.id) # {}
    PROVE  Goes
  <1>1. call \in CallSet
    BY DEF IInv, CallInv, CallOK
  <1>2. call = [call EXCEPT !.taken = call.taken] /\ call.taken \in BOOLEAN
    BY <1>1 DEF CallSet
  <1> QED BY <1>2 DEF Goes

(* What was sent before a submission is still among what was sent, and so  *)
(* is the chain; what is submitted is added.                               *)
LEMMA Submits ==
    ASSUME LedgerOK, NEW message \in Message, submitted' = Append(submitted, message)
    PROVE  /\ submitted' \in Seq(Message) /\ ProtoToTx(message) \in Sent'
           /\ mempool \in Seq(Sent') /\ drained \in Seq(Sent') /\ chain \in Seq(Seq(Sent'))
           /\ ToSet(submitted) \subseteq ToSet(submitted')
  <1>1. submitted \in Seq(Message)
    BY DEF LedgerOK
  <1>2. /\ submitted' \in Seq(Message) /\ Len(submitted') = Len(submitted) + 1
        /\ Len(submitted) \in Nat
        /\ \A k \in 1..Len(submitted) : submitted'[k] = submitted[k]
        /\ submitted'[Len(submitted) + 1] = message
    BY <1>1, AppendFacts
  <1>3. DOMAIN submitted = 1..Len(submitted) /\ DOMAIN submitted' = 1..(Len(submitted) + 1)
    BY <1>1, <1>2, PlacesOfSeq
  <1>4. \A k \in DOMAIN submitted : k \in DOMAIN submitted' /\ submitted'[k] = submitted[k]
    BY <1>2, <1>3
  <1>5. Sent \subseteq Sent' /\ ToSet(submitted) \subseteq ToSet(submitted')
    BY <1>4 DEF Sent, ToSet
  <1>6. ProtoToTx(message) \in Sent'
    <2>1. Len(submitted) + 1 \in DOMAIN submitted'
      BY <1>2, <1>3
    <2>2. Sent' = {ProtoToTx(submitted'[k]) : k \in DOMAIN submitted'}
      BY DEF Sent
    <2> QED BY <1>2, <2>1, <2>2
  <1>7. mempool \in Seq(Sent') /\ drained \in Seq(Sent')
    BY <1>5, SeqOfMore DEF LedgerOK
  <1>8. chain \in Seq(Seq(Sent'))
    <2>1. Seq(Sent) \subseteq Seq(Sent')
      BY <1>5, SeqOfMore
    <2> QED BY <2>1, SeqOfMore DEF LedgerOK
  <1> QED BY <1>2, <1>5, <1>6, <1>7, <1>8

(* A chain goes on from itself, and a block more goes on from it.          *)
LEMMA ContinuesFacts ==
    ASSUME NEW T, NEW c \in Seq(T), NEW b \in T
    PROVE  Continues(c, c) /\ Continues(Append(c, b), c)
  BY AppendFacts DEF Continues

(* A message that reaches the mempool is among what was submitted.         *)
LEMMA SubmitGoes ==
    ASSUME IInv, NEW message \in Message, NEW t,
           t = ProtoToTx(message),
           submitted' = Append(submitted, message), mempool' = Append(mempool, t),
           chain' = chain, drained' = drained, call' = call
    PROVE  IInv'
  <1>1. LedgerOK
    BY DEF IInv
  <1>2. /\ submitted' \in Seq(Message) /\ t \in Sent'
        /\ mempool \in Seq(Sent') /\ drained \in Seq(Sent') /\ chain \in Seq(Seq(Sent'))
        /\ ToSet(submitted) \subseteq ToSet(submitted')
    BY <1>1, Submits
  <1>3. mempool' \in Seq(Sent')
    BY <1>2, AppendFacts
  <1>4. LedgerOK'
    BY <1>1, <1>2, <1>3 DEF LedgerOK
  <1>5. Continues(chain', chain)
    BY <1>2 DEF Continues
  <1>6. Matches(mempool, call.id) # {} => Matches(mempool', call.id) # {}
    <2>1. /\ DOMAIN mempool = 1..Len(mempool) /\ DOMAIN mempool' = 1..Len(mempool')
          /\ Len(mempool) \in Nat /\ Len(mempool') = Len(mempool) + 1
          /\ \A i \in 1..Len(mempool) : mempool'[i] = mempool[i]
      BY <1>2, <1>3, AppendFacts, PlacesOfSeq
    <2>2. \A i \in DOMAIN mempool : i \in DOMAIN mempool' /\ mempool'[i] = mempool[i]
      BY <2>1
    <2> QED BY <2>2 DEF Matches
  <1>7. Goes
    BY <1>2, <1>4, <1>5, <1>6, Stays
  <1> QED BY <1>4, <1>7, CallKept DEF IInv

(* SubmitTransaction keeps the form of the message.                        *)
LEMMA SubmitTransactionKeeps ==
    ASSUME IInv, NEW message \in Message, SubmitTransaction(message) PROVE IInv'
  BY SubmitGoes DEF SubmitTransaction

(* SendTransaction keeps what it could sign, with no input to look up.     *)
LEMMA SendTransactionKeeps ==
    ASSUME IInv, NEW from, NEW to, NEW amount, SendTransaction(from, to, amount)
    PROVE  IInv'
  <1>1. PICK inputs \in InputChoices(amount), id \in Hex :
            IF HasWallet(from) /\ DecodeAddress(to) /\ SignAll(inputs)
            THEN /\ submitted' = Append(submitted, [id |-> Lower(id), input |-> EmptyText])
                 /\ mempool' = Append(mempool, [id |-> <<id>>, input |-> inputs])
            ELSE UNCHANGED <<submitted, mempool>>
    BY DEF SendTransaction
  <1>2. chain' = chain /\ drained' = drained /\ call' = call
    BY DEF SendTransaction
  <1>3. CASE HasWallet(from) /\ DecodeAddress(to) /\ SignAll(inputs)
    <2> DEFINE message == [id |-> Lower(id), input |-> EmptyText]
               t == [id |-> <<id>>, input |-> inputs]
    <2>1. message \in Message
      BY DEF Message, Form, Lower, EmptyText
    <2>2. t = ProtoToTx(message)
      <3>1. inputs = <<>> /\ Scan(Lower(id)) = <<id>> /\ Scan(EmptyText) = <<>>
        <4>1. "" \notin Hex
          BY TextsAssumption
        <4> QED BY <1>3, <4>1 DEF SignAll, Scan, Lower, EmptyText
      <3> QED BY <3>1 DEF ProtoToTx
    <2> HIDE DEF message, t
    <2>3. submitted' = Append(submitted, message) /\ mempool' = Append(mempool, t)
      BY <1>1, <1>3 DEF message, t
    <2> QED BY <1>2, <2>1, <2>2, <2>3, SubmitGoes
  <1>4. CASE ~(HasWallet(from) /\ DecodeAddress(to) /\ SignAll(inputs))
    <2>1. UNCHANGED <<submitted, mempool>>
      BY <1>1, <1>4
    <2>2. LedgerOK /\ LedgerOK' /\ Sent' = Sent
      BY <1>2, <2>1 DEF IInv, LedgerOK, Sent
    <2>3. /\ chain \in Seq(Seq(Sent')) /\ Continues(chain', chain)
          /\ ToSet(submitted) \subseteq ToSet(submitted')
          /\ Matches(mempool, call.id) # {} => Matches(mempool', call.id) # {}
      BY <1>2, <2>1, <2>2 DEF LedgerOK, Continues, Matches
    <2>4. Goes
      BY <1>2, <2>2, <2>3, Stays
    <2> QED BY <2>2, <2>4, CallKept DEF IInv
  <1> QED BY <1>3, <1>4

(* The miner takes what was submitted.                                     *)
LEMMA DrainKeeps == ASSUME IInv, Drain PROVE IInv'
  <1>1. LedgerOK /\ Sent' = Sent
    BY DEF IInv, Drain, Sent
  <1>2. LedgerOK'
    <2>1. drained' = mempool /\ mempool' = <<>> /\ chain' = chain /\ submitted' = submitted
      BY DEF Drain
    <2>2. <<>> \in Seq(Sent)
      BY EmptyIsSeq
    <2> QED BY <1>1, <2>1, <2>2 DEF LedgerOK
  <1>3. call \in CallSet
    BY DEF IInv, CallInv, CallOK
  <1> DEFINE taken == call.taken \/ (call.at = "asked" /\ Matches(mempool, call.id) # {})
  <1>4. call' = [call EXCEPT !.taken = taken] /\ taken \in BOOLEAN
    BY <1>3 DEF Drain, CallSet
  <1>5. call'.taken = taken
    BY <1>3, <1>4 DEF CallSet
  <1>6. /\ chain' = chain /\ submitted' = submitted /\ chain \in Seq(Seq(Sent'))
        /\ Continues(chain', chain) /\ ToSet(submitted) \subseteq ToSet(submitted')
    BY <1>1 DEF Drain, LedgerOK, Continues
  <1>8. call.at = "asked" /\ Matches(mempool, call.id) # {} => taken
    BY <1>3
  <1>9. call.taken => taken
    OBVIOUS
  <1> HIDE DEF taken
  <1>7. Goes
    <2>1. call' = [call EXCEPT !.taken = call'.taken] /\ call'.taken \in BOOLEAN
      BY <1>4, <1>5
    <2>2. call.taken => call'.taken
      BY <1>5, <1>9
    <2>3. call.at = "asked" /\ Matches(mempool, call.id) # {} => call'.taken
      BY <1>5, <1>8
    <2>4. chain \in Seq(Seq(Sent'))
      BY <1>6
    <2>5. /\ call'.taken \in BOOLEAN
          /\ call.at = "asked" /\ ~call'.taken /\ Matches(mempool, call.id) # {} =>
                Matches(mempool', call.id) # {}
      BY <2>1, <2>3
    <2> QED BY <1>2, <1>6, <2>1, <2>2, <2>4, <2>5, Zenon DEF Goes
  <1> QED BY <1>2, <1>7, CallKept DEF IInv

(* The chain gets a block of it, or none.                                  *)
LEMMA AddBlockKeeps == ASSUME IInv, AddMined PROVE IInv'
  <1>1. LedgerOK /\ Sent' = Sent
    BY DEF IInv, AddMined, Sent
  <1>2. /\ chain' = chain \/ chain' = Append(chain, drained)
        /\ drained' = <<>> /\ mempool' = mempool /\ submitted' = submitted /\ call' = call
    BY DEF AddMined
  <1>3. chain \in Seq(Seq(Sent)) /\ drained \in Seq(Sent) /\ Len(chain) >= 1
    BY <1>1 DEF LedgerOK
  <1>4. chain' \in Seq(Seq(Sent)) /\ Len(chain') >= 1
    <2>1. CASE chain' = chain
      BY <1>3, <2>1
    <2>2. CASE chain' = Append(chain, drained)
      <3>1. /\ Append(chain, drained) \in Seq(Seq(Sent))
            /\ Len(Append(chain, drained)) = Len(chain) + 1 /\ Len(chain) \in Nat
        BY <1>3, AppendFacts
      <3> QED BY <2>2, <3>1
    <2> QED BY <1>2, <2>1, <2>2
  <1>5. Continues(chain', chain)
    BY <1>2, <1>3, ContinuesFacts
  <1>6. LedgerOK'
    <2>1. <<>> \in Seq(Sent)
      BY EmptyIsSeq
    <2> QED BY <1>1, <1>2, <1>4, <2>1 DEF LedgerOK
  <1>7. Goes
    <2>1. Matches(mempool, call.id) # {} => Matches(mempool', call.id) # {}
      BY <1>2 DEF Matches
    <2>2. ToSet(submitted) \subseteq ToSet(submitted')
      BY <1>2
    <2> QED BY <1>1, <1>2, <1>3, <1>5, <1>6, <2>1, <2>2, Stays
  <1> QED BY <1>6, <1>7, CallKept DEF IInv

(* A wallet more changes nothing of this.                                  *)
LEMMA CreateWalletKeeps == ASSUME IInv, NEW a, CreateWallet(a) PROVE IInv'
  <1>1. LedgerOK /\ Sent' = Sent
    BY DEF IInv, CreateWallet, Sent
  <1>2. UNCHANGED <<chain, mempool, drained, submitted, call>>
    BY DEF CreateWallet
  <1>3. LedgerOK'
    BY <1>1, <1>2 DEF LedgerOK
  <1>4. Goes
    <2>1. /\ chain \in Seq(Seq(Sent')) /\ Continues(chain', chain)
          /\ ToSet(submitted) \subseteq ToSet(submitted')
          /\ Matches(mempool, call.id) # {} => Matches(mempool', call.id) # {}
      BY <1>1, <1>2 DEF LedgerOK, Continues, Matches
    <2> QED BY <1>2, <1>3, <2>1, Stays
  <1> QED BY <1>3, <1>4, CallKept DEF IInv

-----------------------------------------------------------------------------
(* The query goes on, and changes nothing.                                 *)

(* What it is about stays as it is.                                        *)
LEMMA LedgerKept ==
    ASSUME IInv, UNCHANGED ledger
    PROVE  /\ LedgerOK /\ LedgerOK' /\ CallInv
           /\ chain' = chain /\ submitted' = submitted /\ Height' = Height
           /\ Height = Len(chain) /\ Height \in Nat /\ Height >= 1
           /\ \A h : OnChain(h)' = OnChain(h)
           /\ \A i : HasBlock(i)' = HasBlock(i)
           /\ \A id : Matches(mempool, id)' = Matches(mempool, id)
  <1>1. /\ chain' = chain /\ mempool' = mempool /\ drained' = drained
        /\ submitted' = submitted
    BY DEF ledger
  <1>2. LedgerOK /\ CallInv
    BY DEF IInv
  <1>3. LedgerOK'
    BY <1>1, <1>2 DEF LedgerOK, Sent
  <1>4. Height' = Height /\ Height = Len(chain) /\ Height \in Nat /\ Height >= 1
    BY <1>1, <1>2 DEF Height, LedgerOK
  <1>5. \A h : OnChain(h)' = OnChain(h)
    BY <1>1 DEF OnChain, Scanned, Height
  <1>6. \A i : HasBlock(i)' = HasBlock(i)
    BY <1>1 DEF HasBlock
  <1>7. mempool' = mempool
    BY <1>1
  <1>8. \A id : Matches(mempool, id)' = Matches(mempool, id)
    BY <1>7 DEF Matches
  <1> QED BY <1>1, <1>2, <1>3, <1>4, <1>5, <1>6, <1>8

(* No call is a call too.                                                  *)
LEMMA NoCallFacts == NoCall \in CallSet
  <1>1. <<>> \in Seq(BlockSet) /\ <<>> \in Seq(Message) /\ EmptyText \in Form
    BY EmptyIsSeq DEF EmptyText, Lower, Form
  <1>2. "none" \in Ops /\ "idle" \in Phases /\ FALSE \in BOOLEAN /\ 0 \in Int
        /\ {} \in SUBSET Int
    BY DEF Ops, Phases
  <1> QED BY <1>1, <1>2, Zenon DEF NoCall, CallSet

(* A call that has just been made.                                         *)
LEMMA BeginFacts ==
    ASSUME NEW op \in Ops, NEW at \in Phases
    PROVE  Begin(op, at) \in CallSet
  BY NoCallFacts DEF Begin, CallSet

(* GetTransaction is called.                                               *)
LEMMA AskTransactionKeeps == ASSUME IInv, NEW id \in Form, AskTransaction(id) PROVE IInv'
  <1>1. UNCHANGED ledger
    BY DEF AskTransaction
  <1>2. /\ LedgerOK /\ LedgerOK' /\ Height' = Height /\ Height \in Nat
        /\ \A h : OnChain(h)' = OnChain(h)
        /\ \A x : Matches(mempool, x)' = Matches(mempool, x)
    BY <1>1, LedgerKept
  <1>3. call' = [Begin("GetTransaction", "asked") EXCEPT !.id = id, !.known = Known(id)]
    BY DEF AskTransaction
  <1>4. /\ call'.op = "GetTransaction" /\ call'.at = "asked" /\ call'.id = id
        /\ call'.known = Known(id) /\ call'.height = 0 /\ call'.blocks = <<>>
        /\ call'.answer = <<>>
    BY <1>3 DEF Begin, NoCall
  <1>5. CallOK'
    <2>1. Known(id) \in BOOLEAN
      BY DEF Known
    <2>2. Begin("GetTransaction", "asked") \in CallSet
      BY BeginFacts DEF Ops, Phases
    <2>3. call' \in CallSet
      BY <1>3, <2>1, <2>2 DEF CallSet
    <2> QED BY <1>4, <2>3 DEF CallOK, PhasesOf
  <1>6. GoesOnToFind'
    <2> SUFFICES ASSUME Known(id)
                 PROVE  Matches(mempool, id)' # {} \/ Matches(OnChain(Height), id)' # {}
      BY <1>4 DEF GoesOnToFind, StillThere, Matches
    <2>1. Matches(mempool, id) # {} \/ Matches(OnChain(Height), id) # {}
      BY DEF Known
    <2> QED BY <1>2, <2>1 DEF Matches
  <1>7. HashStillThere' /\ PageSoFar' /\ BlocksFit' /\ NotFoundOnlyIfUnknown'
    BY <1>4 DEF HashStillThere, PageSoFar, BlocksFit, NotFoundOnlyIfUnknown
  <1>8. HeightsFit'
    BY <1>2, <1>4 DEF HeightsFit, NextFits
  <1>9. AnsweredAsSubmitted'
    BY <1>4 DEF AnsweredAsSubmitted
  <1> QED BY <1>2, <1>5, <1>6, <1>7, <1>8, <1>9 DEF IInv, CallInv

(* GetTransaction looks in the mempool, and goes on only if it must.       *)
LEMMA LookUpKeeps == ASSUME IInv, LookUp PROVE IInv'
  <1> DEFINE found == FirstMatch(mempool, call.id)
  <1>1. UNCHANGED ledger
    BY DEF LookUp
  <1>2. /\ LedgerOK /\ LedgerOK' /\ Height' = Height /\ Height \in Nat /\ CallInv
        /\ submitted' = submitted /\ \A h : OnChain(h)' = OnChain(h)
    BY <1>1, LedgerKept
  <1>3. call' = IF found = <<>> THEN [call EXCEPT !.at = "height"]
                ELSE [call EXCEPT !.at = "answered", !.answer = found]
    BY DEF LookUp, Places, Answered
  <1>4. /\ found = <<>> <=> Matches(mempool, call.id) = {}
        /\ Right(found) /\ \A i \in DOMAIN found : found[i].id = call.id
    BY <1>2, FirstMatchFacts DEF LedgerOK
  <1>14. call.op = "GetTransaction" /\ call.at = "asked" /\ call \in CallSet
    BY <1>2 DEF LookUp, CallInv, CallOK, PhasesOf, CallSet, Ops
  <1> HIDE DEF found
  <1>5. /\ call'.op = "GetTransaction" /\ call'.id = call.id /\ call'.taken = call.taken
        /\ call'.known = call.known /\ call'.height = call.height
        /\ found = <<>> => call'.at = "height" /\ call'.answer = call.answer
        /\ found # <<>> => call'.at = "answered" /\ call'.answer = found
    BY <1>3, <1>14 DEF CallSet
  <1>6. call' \in CallSet
    <2>1. found \in Seq(Message)
      BY <1>4 DEF Right
    <2> QED BY <1>3, <1>14, <2>1 DEF CallSet, Phases
  <1>7. CallOK'
    BY <1>5, <1>6 DEF CallOK, PhasesOf
  <1>8. GoesOnToFind'
    <2> SUFFICES ASSUME call.known, ~call.taken, call'.at = "height"
                 PROVE  Matches(OnChain(Height), call.id) # {}
      BY <1>2, <1>5 DEF GoesOnToFind, StillThere
    <2>1. found = <<>>
      BY <1>5
    <2>2. Matches(mempool, call.id) # {} \/ StillThere(Height)
      BY <1>2, <1>14 DEF CallInv, GoesOnToFind
    <2> QED BY <1>4, <2>1, <2>2 DEF StillThere
  <1>9. HashStillThere' /\ PageSoFar' /\ BlocksFit'
    BY <1>5 DEF HashStillThere, PageSoFar, BlocksFit
  <1>10. HeightsFit'
    BY <1>2, <1>5 DEF HeightsFit, NextFits, CallInv
  <1>11. NotFoundOnlyIfUnknown'
    BY <1>5 DEF NotFoundOnlyIfUnknown
  <1>12. AnsweredAsSubmitted'
    <2>1. ASSUME NEW i \in DOMAIN found
          PROVE  found[i].id = call.id /\ \E m \in ToSet(submitted) : Given(found[i], m)
      BY <1>4 DEF Right
    <2>2. CASE found = <<>>
      BY <1>2, <1>5, <1>14, <2>2 DEF AnsweredAsSubmitted, CallInv
    <2>3. CASE found # <<>>
      BY <1>2, <1>5, <2>1, <2>3 DEF AnsweredAsSubmitted, Given
    <2> QED BY <2>2, <2>3
  <1> QED BY <1>2, <1>7, <1>8, <1>9, <1>10, <1>11, <1>12 DEF IInv, CallInv

(* GetTransaction looks on the chain.                                      *)
LEMMA LookUpNextKeeps == ASSUME IInv, LookUpNext PROVE IInv'
  <1> DEFINE found == FirstMatch(OnChain(call.top), call.id)
  <1>1. UNCHANGED ledger
    BY DEF LookUpNext
  <1>2. /\ LedgerOK /\ LedgerOK' /\ Height' = Height /\ Height \in Nat
        /\ submitted' = submitted /\ CallInv
    BY <1>1, LedgerKept
  <1>3. call' = [call EXCEPT !.at = "answered", !.answer = found]
    BY DEF LookUpNext, Places, Answered
  <1>4. call.op = "GetTransaction" /\ call.at = "scan" /\ call \in CallSet
    BY <1>2 DEF LookUpNext, CallInv, CallOK
  <1>5. OnChain(call.top) \in Seq(Sent)
    <2>1. call.top \in 0..Height /\ chain \in Seq(Seq(Sent))
      BY <1>2, <1>4 DEF CallInv, HeightsFit, LedgerOK
    <2> QED BY <2>1, ScannedFacts
  <1>6. /\ found = <<>> <=> Matches(OnChain(call.top), call.id) = {}
        /\ Right(found) /\ \A i \in DOMAIN found : found[i].id = call.id
    BY <1>2, <1>5, FirstMatchFacts DEF LedgerOK
  <1> HIDE DEF found
  <1>7. /\ call'.op = "GetTransaction" /\ call'.at = "answered" /\ call'.answer = found
        /\ call'.id = call.id /\ call'.known = call.known /\ call'.height = call.height
        /\ call'.taken = call.taken
    BY <1>3, <1>4 DEF CallSet
  <1>8. CallOK'
    <2>1. call' \in CallSet
      BY <1>3, <1>4, <1>6 DEF CallSet, Phases, Right
    <2> QED BY <1>7, <2>1 DEF CallOK, PhasesOf
  <1>9. GoesOnToFind' /\ HashStillThere' /\ PageSoFar' /\ BlocksFit'
    BY <1>7 DEF GoesOnToFind, HashStillThere, PageSoFar, BlocksFit
  <1>10. HeightsFit'
    BY <1>2, <1>7 DEF HeightsFit, NextFits, CallInv
  <1>11. NotFoundOnlyIfUnknown'
    <2>1. call.known /\ ~call.taken => found # <<>>
      BY <1>2, <1>4, <1>6 DEF CallInv, GoesOnToFind, StillThere
    <2> QED BY <1>7, <2>1 DEF NotFoundOnlyIfUnknown
  <1>12. AnsweredAsSubmitted'
    <2>1. ASSUME NEW i \in DOMAIN found
          PROVE  found[i].id = call.id
                 /\ \E m \in ToSet(submitted) : Given(found[i], m)
      BY <1>6 DEF Right
    <2> QED BY <1>2, <1>7, <2>1 DEF AnsweredAsSubmitted, Given
  <1> QED BY <1>2, <1>8, <1>9, <1>10, <1>11, <1>12 DEF IInv, CallInv

(* GetMempool gives all of the mempool.                                    *)
LEMMA GetMempoolKeeps == ASSUME IInv, GetMempool PROVE IInv'
  <1>1. UNCHANGED ledger
    BY DEF GetMempool
  <1>2. /\ LedgerOK /\ LedgerOK' /\ Height' = Height /\ Height \in Nat
        /\ submitted' = submitted
    BY <1>1, LedgerKept
  <1>3. call' = [Begin("GetMempool", "answered") EXCEPT !.answer = Pending]
    BY DEF GetMempool
  <1>4. Right(Pending)
    <2>1. /\ mempool \in Seq(Sent) /\ submitted \in Seq(Message)
          /\ DOMAIN mempool = 1..Len(mempool) /\ Len(mempool) \in Nat
      BY <1>2, PlacesOfSeq DEF LedgerOK
    <2>2. ASSUME NEW i \in 1..Len(mempool)
          PROVE  /\ TxToProto(mempool[i]) \in Message
                 /\ \E m \in ToSet(submitted) : Given(TxToProto(mempool[i]), m)
      <3>1. mempool[i] \in Sent
        BY <2>1, ElementIn
      <3> QED BY <2>1, <3>1, SentFacts
    <2>3. Pending = [i \in 1..Len(mempool) |-> TxToProto(mempool[i])]
      BY <2>1 DEF Pending
    <2>4. Pending \in [1..Len(mempool) -> Message]
      BY <2>2, <2>3
    <2>5. Pending \in Seq(Message)
      BY <2>1, <2>4
    <2> QED BY <2>2, <2>3, <2>5 DEF Right
  <1>5. /\ call'.op = "GetMempool" /\ call'.at = "answered" /\ call'.answer = Pending
        /\ call'.height = 0 /\ call'.blocks = <<>>
    BY <1>3 DEF Begin, NoCall
  <1>6. call' \in CallSet
    <2>1. Pending \in Seq(Message)
      BY <1>4 DEF Right
    <2>2. Begin("GetMempool", "answered") \in CallSet
      BY BeginFacts DEF Ops, Phases
    <2> QED BY <1>3, <2>1, <2>2 DEF CallSet
  <1>7. CallOK'
    BY <1>5, <1>6 DEF CallOK, PhasesOf
  <1>8. GoesOnToFind' /\ HashStillThere' /\ PageSoFar' /\ BlocksFit' /\ NotFoundOnlyIfUnknown'
    BY <1>5 DEF GoesOnToFind, HashStillThere, PageSoFar, BlocksFit, NotFoundOnlyIfUnknown
  <1>9. HeightsFit'
    BY <1>2, <1>5 DEF HeightsFit, NextFits
  <1>10. AnsweredAsSubmitted'
    BY <1>2, <1>4, <1>5 DEF AnsweredAsSubmitted, Given, Right
  <1> QED BY <1>2, <1>7, <1>8, <1>9, <1>10 DEF IInv, CallInv

(* The height that is read covers what was known.                          *)
LEMMA ReadTopKeeps == ASSUME IInv, ReadTop PROVE IInv'
  <1>1. UNCHANGED ledger
    BY DEF ReadTop
  <1>2. /\ LedgerOK /\ LedgerOK' /\ Height' = Height /\ Height \in Nat
        /\ submitted' = submitted /\ CallInv /\ \A h : OnChain(h)' = OnChain(h)
    BY <1>1, LedgerKept
  <1>3. call' = [call EXCEPT !.at = "scan", !.top = Height] /\ call.at = "height"
    BY DEF ReadTop
  <1>4. call \in CallSet /\ call.at \in PhasesOf(call.op)
    BY <1>2 DEF CallInv, CallOK
  <1>5. /\ call'.op = call.op /\ call'.at = "scan" /\ call'.top = Height
        /\ call'.id = call.id /\ call'.known = call.known /\ call'.height = call.height
        /\ call'.next = call.next /\ call'.blocks = call.blocks
        /\ call'.answer = call.answer /\ call'.taken = call.taken
    BY <1>3, <1>4 DEF CallSet
  <1>6. call.op \in {"GetTransaction", "GetBlockByHash", "GetBlockchainInfo"}
    BY <1>3, <1>4 DEF PhasesOf, CallSet, Ops
  <1>7. CallOK'
    <2>1. call' \in CallSet
      <3>1. "scan" \in Phases /\ Height \in Int
        BY <1>2 DEF Phases
      <3> QED BY <1>3, <1>4, <3>1 DEF CallSet
    <2> QED BY <1>5, <1>6, <2>1 DEF CallOK, PhasesOf
  <1>8. GoesOnToFind'
    BY <1>2, <1>3, <1>5 DEF GoesOnToFind, StillThere, CallInv
  <1>9. HashStillThere'
    BY <1>2, <1>5 DEF HashStillThere, CallInv
  <1>10. HeightsFit'
    BY <1>2, <1>5 DEF HeightsFit, NextFits, CallInv
  <1>11. PageSoFar' /\ NotFoundOnlyIfUnknown'
    BY <1>5, <1>6 DEF PageSoFar, NotFoundOnlyIfUnknown
  <1>12. AnsweredAsSubmitted'
    BY <1>2, <1>5 DEF AnsweredAsSubmitted, CallInv
  <1>13. BlocksFit'
    <2>1. \A i : HasBlock(i)' = HasBlock(i)
      BY <1>1, LedgerKept
    <2> QED BY <1>2, <1>5, <1>6, <2>1 DEF BlocksFit, CallInv
  <1> QED BY <1>2, <1>7, <1>8, <1>9, <1>10, <1>11, <1>12, <1>13 DEF IInv, CallInv

(* The height is read first.                                               *)
LEMMA ReadHeightKeeps ==
    ASSUME IInv, NEW op \in {"GetBlockchainInfo", "GetBestBlockHash"}, ReadHeight(op)
    PROVE  IInv'
  <1>1. UNCHANGED ledger
    BY DEF ReadHeight
  <1>2. /\ LedgerOK' /\ Height' = Height /\ Height \in Nat
    BY <1>1, LedgerKept
  <1>3. call' = [Begin(op, "best") EXCEPT !.height = Height]
    BY DEF ReadHeight
  <1>4. /\ call'.op = op /\ call'.at = "best" /\ call'.height = Height
        /\ call'.blocks = <<>> /\ call'.answer = <<>>
    BY <1>3 DEF Begin, NoCall
  <1>5. CallOK'
    <2>1. Begin(op, "best") \in CallSet
      BY BeginFacts DEF Ops, Phases
    <2>2. call' \in CallSet
      BY SMTT(30), <1>2, <1>3, <2>1 DEF CallSet
    <2> QED BY <1>4, <2>2 DEF CallOK, PhasesOf
  <1>6. /\ GoesOnToFind' /\ HashStillThere' /\ PageSoFar' /\ NotFoundOnlyIfUnknown'
        /\ AnsweredAsSubmitted'
    BY <1>4 DEF GoesOnToFind, HashStillThere, PageSoFar, NotFoundOnlyIfUnknown,
                AnsweredAsSubmitted
  <1>7. HeightsFit'
    BY <1>2, <1>4 DEF HeightsFit, NextFits
  <1>8. BlocksFit'
    BY <1>4 DEF BlocksFit
  <1> QED BY <1>2, <1>5, <1>6, <1>7, <1>8 DEF IInv, CallInv

(* The block above that height, if there is one by now.                    *)
LEMMA ReadBestKeeps == ASSUME IInv, ReadBest PROVE IInv'
  <1>1. UNCHANGED ledger
    BY DEF ReadBest
  <1>2. /\ LedgerOK /\ LedgerOK' /\ Height' = Height /\ Height \in Nat
        /\ submitted' = submitted /\ CallInv /\ \A i : HasBlock(i)' = HasBlock(i)
    BY <1>1, LedgerKept
  <1> DEFINE at == IF call.op = "GetBlockchainInfo" THEN "height" ELSE "answered"
             blocks == BlockAt(call.height)
  <1>3. call' = [call EXCEPT !.at = at, !.blocks = blocks] /\ call.at = "best"
    BY DEF ReadBest
  <1>4. call \in CallSet /\ call.at \in PhasesOf(call.op) /\ call.height \in 0..Height
    BY <1>2 DEF CallInv, CallOK, HeightsFit, NextFits
  <1>5. call.op \in {"GetBlockchainInfo", "GetBestBlockHash"}
    BY <1>3, <1>4 DEF PhasesOf, CallSet, Ops
  <1>6. /\ blocks \in Seq(BlockSet)
        /\ \A i \in DOMAIN blocks :
              blocks[i].height = call.height /\ HasBlock(blocks[i].height)
    <2>1. chain \in Seq(Seq(Sent)) /\ Len(chain) \in Nat /\ call.height \in Int
      BY <1>2, <1>4 DEF LedgerOK
    <2>2. /\ blocks \in Seq(BlockSet)
          /\ HasBlock(call.height) => DOMAIN blocks = {1} /\ blocks[1].height = call.height
          /\ ~HasBlock(call.height) => blocks = <<>>
      BY <2>1, BlockAtFacts
    <2> HIDE DEF blocks
    <2>3. CASE HasBlock(call.height)
      BY <2>2, <2>3
    <2>4. CASE ~HasBlock(call.height)
      BY <2>2, <2>4
    <2> QED BY <2>3, <2>4
  <1>7. at \in {"height", "answered"} /\ (at = "height" <=> call.op = "GetBlockchainInfo")
    OBVIOUS
  <1> HIDE DEF at, blocks
  <1>8. /\ call'.op = call.op /\ call'.at = at /\ call'.height = call.height
        /\ call'.blocks = blocks /\ call'.answer = call.answer
    BY <1>3, <1>4 DEF CallSet
  <1>9. CallOK'
    <2>1. call' \in CallSet
      <3>1. at \in Phases
        BY <1>7 DEF Phases
      <3> QED BY <1>3, <1>4, <1>6, <3>1 DEF CallSet
    <2> QED BY <1>5, <1>7, <1>8, <2>1 DEF CallOK, PhasesOf
  <1>10. GoesOnToFind' /\ HashStillThere' /\ PageSoFar' /\ NotFoundOnlyIfUnknown'
    BY <1>5, <1>8 DEF GoesOnToFind, HashStillThere, PageSoFar, NotFoundOnlyIfUnknown
  <1>11. HeightsFit'
    BY <1>2, <1>4, <1>7, <1>8 DEF HeightsFit, NextFits
  <1>12. AnsweredAsSubmitted'
    BY <1>2, <1>5, <1>8 DEF AnsweredAsSubmitted, CallInv
  <1>13. BlocksFit'
    BY <1>2, <1>5, <1>6, <1>7, <1>8 DEF BlocksFit
  <1> QED BY <1>2, <1>9, <1>10, <1>11, <1>12, <1>13 DEF IInv, CallInv

(* The total counts the blocks up to that height, at least.                *)
LEMMA CountTransactionsKeeps == ASSUME IInv, CountTransactions PROVE IInv'
  <1>1. UNCHANGED ledger
    BY DEF CountTransactions
  <1>2. /\ LedgerOK /\ LedgerOK' /\ Height' = Height /\ Height \in Nat /\ Height = Len(chain)
        /\ submitted' = submitted /\ CallInv /\ \A i : HasBlock(i)' = HasBlock(i)
        /\ chain' = chain
    BY <1>1, LedgerKept
  <1> DEFINE total == Total(Scanned(call.top))
  <1>3. call' = [call EXCEPT !.at = "answered", !.count = total]
    BY DEF CountTransactions
  <1>4. /\ call.op = "GetBlockchainInfo" /\ call.at = "scan" /\ call \in CallSet
        /\ call.height \in 0..Height /\ call.top \in 0..Height /\ call.height <= call.top
    BY <1>2 DEF CallInv, CallOK, HeightsFit, CountTransactions
  <1>5. /\ total \in Nat /\ total >= Total(SubSeq(chain, 1, call.height))
        /\ total <= Total(chain)
    <2>1. chain \in Seq(Seq(Sent))
      BY <1>2 DEF LedgerOK
    <2>2. PICK n \in call.top..Height : Scanned(call.top) = SubSeq(chain, 1, n)
      BY <1>4, <2>1, ScannedFacts
    <2>3. /\ call.height \in 0..Len(chain) /\ n \in call.height..Len(chain)
          /\ n \in 0..Len(chain) /\ Len(chain) \in n..Len(chain)
      BY <1>2, <1>4
    <2>4. SubSeq(chain, 1, Len(chain)) = chain
      BY <2>1, WholePart
    <2>5. /\ Total(SubSeq(chain, 1, call.height)) \in Nat /\ Total(SubSeq(chain, 1, n)) \in Nat
          /\ Total(SubSeq(chain, 1, call.height)) <= Total(SubSeq(chain, 1, n))
      BY <2>1, <2>3, TotalGrows
    <2>6. Total(SubSeq(chain, 1, n)) <= Total(SubSeq(chain, 1, Len(chain)))
      BY <2>1, <2>3, TotalGrows
    <2>7. total = Total(SubSeq(chain, 1, n))
      BY <2>2
    <2> HIDE DEF total
    <2>8. total <= Total(chain)
      BY <2>4, <2>6, <2>7
    <2> QED BY <2>5, <2>7, <2>8
  <1> HIDE DEF total
  <1>6. /\ call'.op = call.op /\ call'.at = "answered" /\ call'.height = call.height
        /\ call'.blocks = call.blocks /\ call'.answer = call.answer /\ call'.count = total
    BY <1>3, <1>4 DEF CallSet
  <1>7. CallOK'
    <2>1. call' \in CallSet
      <3>1. "answered" \in Phases /\ total \in Int
        BY <1>5 DEF Phases
      <3> QED BY <1>3, <1>4, <3>1 DEF CallSet
    <2> QED BY <1>4, <1>6, <2>1 DEF CallOK, PhasesOf
  <1>8. GoesOnToFind' /\ HashStillThere' /\ PageSoFar' /\ NotFoundOnlyIfUnknown'
    BY <1>4, <1>6 DEF GoesOnToFind, HashStillThere, PageSoFar, NotFoundOnlyIfUnknown
  <1>9. HeightsFit'
    BY <1>2, <1>4, <1>6 DEF HeightsFit, NextFits
  <1>10. AnsweredAsSubmitted'
    BY <1>2, <1>4, <1>6 DEF AnsweredAsSubmitted, CallInv
  <1>11. BlocksFit'
    <2>1. \A i \in DOMAIN call.blocks :
              call.blocks[i].height = call.height /\ HasBlock(call.blocks[i].height)
      BY <1>2, <1>4 DEF BlocksFit, CallInv
    <2> QED BY <1>2, <1>4, <1>5, <1>6, <2>1 DEF BlocksFit
  <1> QED BY <1>2, <1>7, <1>8, <1>9, <1>10, <1>11 DEF IInv, CallInv

(* A block is asked for by its hash.                                       *)
LEMMA AskHashKeeps == ASSUME IInv, NEW i \in Int, AskHash(i) PROVE IInv'
  <1>1. UNCHANGED ledger
    BY DEF AskHash
  <1>2. /\ LedgerOK /\ LedgerOK' /\ Height' = Height /\ Height \in Nat /\ Height = Len(chain)
    BY <1>1, LedgerKept
  <1>3. call' = [Begin("GetBlockByHash", "height") EXCEPT !.next = i, !.known = HasBlock(i)]
    BY DEF AskHash
  <1>4. /\ call'.op = "GetBlockByHash" /\ call'.at = "height" /\ call'.next = i
        /\ call'.known = HasBlock(i) /\ call'.height = 0
        /\ call'.blocks = <<>> /\ call'.answer = <<>>
    BY <1>3 DEF Begin, NoCall
  <1>5. CallOK'
    <2>1. Begin("GetBlockByHash", "height") \in CallSet
      BY BeginFacts DEF Ops, Phases
    <2>2. HasBlock(i) \in BOOLEAN
      BY DEF HasBlock
    <2>3. call' \in CallSet
      BY <1>3, <2>1, <2>2 DEF CallSet
    <2> QED BY <1>4, <2>3 DEF CallOK, PhasesOf
  <1>6. GoesOnToFind' /\ PageSoFar' /\ NotFoundOnlyIfUnknown' /\ AnsweredAsSubmitted'
        /\ BlocksFit'
    BY <1>4 DEF GoesOnToFind, PageSoFar, NotFoundOnlyIfUnknown, AnsweredAsSubmitted,
                BlocksFit
  <1>7. HashStillThere'
    BY <1>2, <1>4 DEF HashStillThere, HasBlock
  <1>8. HeightsFit'
    BY <1>2, <1>4 DEF HeightsFit, NextFits
  <1> QED BY <1>2, <1>5, <1>6, <1>7, <1>8 DEF IInv, CallInv

(* The scan meets the block at its place.                                  *)
LEMMA FindHashKeeps == ASSUME IInv, FindHash PROVE IInv'
  <1>1. UNCHANGED ledger
    BY DEF FindHash
  <1>2. /\ LedgerOK /\ LedgerOK' /\ Height' = Height /\ Height \in Nat /\ Height = Len(chain)
        /\ submitted' = submitted /\ CallInv
    BY <1>1, LedgerKept
  <1> DEFINE blocks == IF call.next < Len(Scanned(call.top)) THEN BlockAt(call.next) ELSE <<>>
  <1>3. call' = [call EXCEPT !.at = "answered", !.blocks = blocks]
    BY DEF FindHash
  <1>4. /\ call.op = "GetBlockByHash" /\ call.at = "scan" /\ call \in CallSet
        /\ call.top \in 0..Height /\ call.height \in 0..Height
    BY <1>2 DEF CallInv, CallOK, HeightsFit, FindHash
  <1>5. chain \in Seq(Seq(Sent)) /\ Len(chain) \in Nat /\ call.next \in Int
    BY <1>2, <1>4 DEF LedgerOK, CallSet
  <1>6. blocks \in Seq(BlockSet)
    BY <1>5, BlockAtFacts, EmptyIsSeq
  <1>7. call.known => blocks # <<>>
    <2> SUFFICES ASSUME call.known PROVE blocks # <<>>
      OBVIOUS
    <2>1. call.next >= 0 /\ call.next < Height /\ call.next < call.top
      BY <1>2, <1>4 DEF CallInv, HashStillThere
    <2>2. PICK n \in call.top..Height : Len(Scanned(call.top)) = n
      BY <1>4, <1>5, ScannedFacts
    <2>3. call.next < Len(Scanned(call.top)) /\ call.next \in 0..(Height - 1)
      BY <1>2, <1>4, <1>5, <2>1, <2>2
    <2>4. HasBlock(call.next)
      BY <1>5, <2>3, BlockAtFacts
    <2> QED BY <1>5, <2>3, <2>4, BlockAtFacts
  <1> HIDE DEF blocks
  <1>8. /\ call'.op = call.op /\ call'.at = "answered" /\ call'.height = call.height
        /\ call'.next = call.next /\ call'.known = call.known
        /\ call'.blocks = blocks /\ call'.answer = call.answer
    BY <1>3, <1>4 DEF CallSet
  <1>9. CallOK'
    <2>1. call' \in CallSet
      <3>1. "answered" \in Phases
        BY DEF Phases
      <3> QED BY <1>3, <1>4, <1>6, <3>1 DEF CallSet
    <2> QED BY <1>4, <1>8, <2>1 DEF CallOK, PhasesOf
  <1>10. GoesOnToFind' /\ PageSoFar' /\ BlocksFit'
    BY <1>4, <1>8 DEF GoesOnToFind, PageSoFar, BlocksFit
  <1>11. HashStillThere'
    BY <1>2, <1>4, <1>8 DEF HashStillThere, CallInv
  <1>12. HeightsFit'
    BY <1>2, <1>4, <1>8 DEF HeightsFit, NextFits
  <1>13. NotFoundOnlyIfUnknown'
    BY <1>4, <1>7, <1>8 DEF NotFoundOnlyIfUnknown
  <1>14. AnsweredAsSubmitted'
    BY <1>2, <1>4, <1>8 DEF AnsweredAsSubmitted, CallInv
  <1> QED BY <1>2, <1>9, <1>10, <1>11, <1>12, <1>13, <1>14 DEF IInv, CallInv

(* A block is asked for by its height.                                     *)
LEMMA GetBlockByHeightKeeps == ASSUME IInv, NEW i \in Int, GetBlockByHeight(i) PROVE IInv'
  <1>1. UNCHANGED ledger
    BY DEF GetBlockByHeight
  <1>2. LedgerOK /\ LedgerOK' /\ Height' = Height /\ Height \in Nat
    BY <1>1, LedgerKept
  <1>3. call' = [Begin("GetBlockByHeight", "answered") EXCEPT !.blocks = BlockAt(i)]
    BY DEF GetBlockByHeight
  <1>4. /\ call'.op = "GetBlockByHeight" /\ call'.at = "answered" /\ call'.height = 0
        /\ call'.answer = <<>>
    BY <1>3 DEF Begin, NoCall
  <1>5. CallOK'
    <2>1. Begin("GetBlockByHeight", "answered") \in CallSet
      BY BeginFacts DEF Ops, Phases
    <2>2. BlockAt(i) \in Seq(BlockSet)
      <3>1. chain \in Seq(Seq(Sent)) /\ Len(chain) \in Nat
        BY <1>2 DEF LedgerOK
      <3> QED BY <3>1, BlockAtFacts
    <2>3. call' \in CallSet
      BY <1>3, <2>1, <2>2 DEF CallSet
    <2> QED BY <1>4, <2>3 DEF CallOK, PhasesOf
  <1>6. /\ GoesOnToFind' /\ HashStillThere' /\ PageSoFar' /\ NotFoundOnlyIfUnknown'
        /\ AnsweredAsSubmitted' /\ BlocksFit'
    BY <1>4 DEF GoesOnToFind, HashStillThere, PageSoFar, NotFoundOnlyIfUnknown,
                AnsweredAsSubmitted, BlocksFit
  <1>7. HeightsFit'
    BY <1>2, <1>4 DEF HeightsFit, NextFits
  <1> QED BY <1>2, <1>5, <1>6, <1>7 DEF IInv, CallInv

(* A page starts one place above the newest block.                         *)
LEMMA AskHeightKeeps ==
    ASSUME IInv, NEW count \in Int, count >= 1, AskHeight(count) PROVE IInv'
  <1>1. UNCHANGED ledger
    BY DEF AskHeight
  <1>2. LedgerOK' /\ Height' = Height /\ Height \in Nat /\ Height >= 1
    BY <1>1, LedgerKept
  <1>3. call' = [Begin("RecentBlocks", "fetch") EXCEPT
                   !.count = count, !.height = Height, !.next = Height]
    BY DEF AskHeight
  <1>4. /\ call'.op = "RecentBlocks" /\ call'.at = "fetch" /\ call'.count = count
        /\ call'.height = Height /\ call'.next = Height
        /\ call'.blocks = <<>> /\ call'.answer = <<>>
    BY <1>3 DEF Begin, NoCall
  <1>5. CallOK'
    <2>1. Begin("RecentBlocks", "fetch") \in CallSet
      BY BeginFacts DEF Ops, Phases
    <2>2. call' \in CallSet
      <3>1. Height \in Int
        BY <1>2
      <3> QED BY <1>3, <2>1, <3>1 DEF CallSet
    <2> QED BY <1>4, <2>2 DEF CallOK, PhasesOf
  <1>6. /\ GoesOnToFind' /\ HashStillThere' /\ NotFoundOnlyIfUnknown'
        /\ AnsweredAsSubmitted' /\ BlocksFit'
    BY <1>4 DEF GoesOnToFind, HashStillThere, NotFoundOnlyIfUnknown,
                AnsweredAsSubmitted, BlocksFit
  <1>7. HeightsFit'
    BY <1>2, <1>4 DEF HeightsFit, NextFits
  <1>8. PageSoFar'
    <2>1. Lowest' <= call'.next
      BY <1>2, <1>4 DEF Lowest
    <2>2. Len(<<>>) = 0 /\ 1..0 = {} /\ 2..0 = {} /\ (Height + 1)..(Height - 1) = {}
      BY <1>2
    <2> QED BY <1>2, <1>4, <2>1, <2>2 DEF PageSoFar
  <1> QED BY <1>2, <1>5, <1>6, <1>7, <1>8 DEF IInv, CallInv

(* A page that is refused has nothing on it.                               *)
LEMMA AskHeightFailsKeeps == ASSUME IInv, AskHeightFails PROVE IInv'
  <1>1. UNCHANGED ledger
    BY DEF AskHeightFails
  <1>2. LedgerOK' /\ Height' = Height /\ Height \in Nat
    BY <1>1, LedgerKept
  <1>3. call' = Begin("RecentBlocks", "refused")
    BY DEF AskHeightFails
  <1>4. /\ call'.op = "RecentBlocks" /\ call'.at = "refused" /\ call'.height = 0
        /\ call'.answer = <<>>
    BY <1>3 DEF Begin, NoCall
  <1>5. CallOK'
    <2>1. Begin("RecentBlocks", "refused") \in CallSet
      BY BeginFacts DEF Ops, Phases
    <2> QED BY <1>3, <1>4, <2>1 DEF CallOK, PhasesOf
  <1>6. /\ GoesOnToFind' /\ HashStillThere' /\ NotFoundOnlyIfUnknown' /\ PageSoFar'
        /\ AnsweredAsSubmitted' /\ BlocksFit'
    BY <1>4 DEF GoesOnToFind, HashStillThere, NotFoundOnlyIfUnknown, PageSoFar,
                AnsweredAsSubmitted, BlocksFit
  <1>7. HeightsFit'
    BY <1>2, <1>4 DEF HeightsFit, NextFits
  <1> QED BY <1>2, <1>5, <1>6, <1>7 DEF IInv, CallInv

(* What is fetched for place i goes to the end of the page, and whoever is *)
(* missing has failed.                                                     *)
LEMMA PageGoesOn ==
    ASSUME IInv, UNCHANGED ledger, call.op = "RecentBlocks", call.at = "fetch",
           NEW fetched \in Seq(BlockSet), NEW lost \in SUBSET Int,
           fetched = <<>> \/ (Len(fetched) = 1 /\ fetched[1].height = call.next),
           call.next < call.height /\ fetched = <<>> => call.next \in lost,
           NEW at, at = IF call.next > Lowest THEN "fetch" ELSE "answered",
           call' = [call EXCEPT !.blocks = @ \o fetched, !.failed = @ \cup lost,
                                !.next = call.next - 1, !.at = at]
    PROVE  IInv'
  <1>2. /\ LedgerOK /\ LedgerOK' /\ Height' = Height /\ Height \in Nat
        /\ submitted' = submitted /\ CallInv
    BY LedgerKept
  <1> DEFINE i == call.next
             old == call.blocks
             new == old \o fetched
             gone == call.failed \cup lost
             low == Lowest
  <1>3. call' = [call EXCEPT !.blocks = new, !.failed = gone, !.next = i - 1, !.at = at]
    OBVIOUS
  <1>4. call \in CallSet /\ call.height \in 0..Height
    BY <1>2 DEF CallInv, CallOK, HeightsFit, NextFits
  <1>5. /\ call.count >= 1 /\ call.height >= 1 /\ i >= low
        /\ \A k \in 1..Len(old) : old[k].height \in (i + 1)..call.height
        /\ \A k \in 2..Len(old) : old[k].height < old[k - 1].height
        /\ \A k \in (i + 1)..(call.height - 1) :
              k \in call.failed \/ \E j \in 1..Len(old) : old[j].height = k
    BY <1>2 DEF CallInv, PageSoFar
  <1>6. /\ i \in Int /\ old \in Seq(BlockSet) /\ call.count \in Int /\ call.height \in Int
        /\ gone \in SUBSET Int /\ call.failed \subseteq gone /\ lost \subseteq gone
    BY <1>4 DEF CallSet
  <1>7. low \in Int
    BY <1>6 DEF Lowest
  <1>19. i <= call.height
    BY <1>2 DEF CallInv, HeightsFit, NextFits
  <1>20. fetched = <<>> \/ (Len(fetched) = 1 /\ fetched[1].height = i)
    OBVIOUS
  <1>21. i < call.height /\ fetched = <<>> => i \in gone
    BY <1>6
  <1>22. at = IF i > low THEN "fetch" ELSE "answered"
    OBVIOUS
  <1> HIDE DEF i, old, low, gone
  <1>8. /\ call'.op = call.op /\ call'.at = at /\ call'.height = call.height
        /\ call'.next = i - 1 /\ call'.count = call.count /\ call'.failed = gone
        /\ call'.blocks = new /\ call'.answer = call.answer
    BY <1>3, <1>4 DEF CallSet
  <1>9. /\ new \in Seq(BlockSet) /\ Len(new) = Len(old) + Len(fetched)
        /\ \A k \in 1..Len(old) : new[k] = old[k]
        /\ \A k \in 1..Len(fetched) : new[Len(old) + k] = fetched[k]
    BY <1>6, ConcatFacts
  <1> HIDE DEF new
  <1>10. Len(old) \in Nat
    BY <1>6
  <1>11. at \in {"fetch", "answered"} /\ (at = "fetch" <=> i > low)
    BY <1>22
  <1>12. CallOK'
    <2>1. call' \in CallSet
      <3>1. at \in Phases /\ i - 1 \in Int
        BY <1>6, <1>11 DEF Phases
      <3> QED BY <1>3, <1>4, <1>6, <1>9, <3>1 DEF CallSet
    <2> QED BY <1>8, <1>11, <2>1 DEF CallOK, PhasesOf
  <1>13. /\ \A k \in 1..Len(new) : new[k].height \in i..call.height
         /\ \A k \in 2..Len(new) : new[k].height < new[k - 1].height
         /\ \A k \in i..(call.height - 1) :
               k \in gone \/ \E j \in 1..Len(new) : new[j].height = k
    <2>1. CASE fetched = <<>>
      <3>1. Len(new) = Len(old) /\ \A k \in 1..Len(old) : new[k] = old[k]
        BY <1>9, <1>10, <2>1
      <3>2. \A k \in 1..Len(new) : new[k].height \in i..call.height
        <4>1. (i + 1)..call.height \subseteq i..call.height
          BY <1>6
        <4> QED BY <1>5, <3>1, <4>1
      <3>3. \A k \in 2..Len(new) : new[k].height < new[k - 1].height
        <4>1. \A k \in 2..Len(old) : k \in 1..Len(old) /\ k - 1 \in 1..Len(old)
          BY <1>10
        <4> QED BY <1>5, <3>1, <4>1
      <3>4. ASSUME NEW k \in i..(call.height - 1)
            PROVE  k \in gone \/ \E j \in 1..Len(new) : new[j].height = k
        <4>1. CASE k = i
          <5>1. i < call.height
            BY <1>6, <4>1
          <5> QED BY <1>21, <2>1, <4>1, <5>1
        <4>2. CASE k # i
          <5>1. k \in (i + 1)..(call.height - 1)
            BY <1>6, <4>2
          <5>2. k \in call.failed \/ \E j \in 1..Len(old) : old[j].height = k
            BY <1>5, <5>1
          <5> QED BY <1>6, <3>1, <5>2
        <4> QED BY <4>1, <4>2
      <3> QED BY <3>2, <3>3, <3>4
    <2>2. CASE fetched # <<>>
      <3>1. Len(new) = Len(old) + 1 /\ new[Len(old) + 1].height = i
        <4>1. Len(fetched) = 1 /\ 1 \in 1..Len(fetched) /\ fetched[1].height = i
          BY <1>20, <2>2
        <4> QED BY <1>9, <4>1
      <3>2. ASSUME NEW k \in 1..Len(new) PROVE new[k].height \in i..call.height
        <4>1. CASE k \in 1..Len(old)
          <5>1. new[k].height \in (i + 1)..call.height
            BY <1>5, <1>9, <4>1
          <5> QED BY <1>6, <5>1
        <4>2. CASE k = Len(old) + 1
          BY <1>6, <1>19, <3>1, <4>2
        <4> QED BY <1>10, <3>1, <4>1, <4>2
      <3>3. ASSUME NEW k \in 2..Len(new) PROVE new[k].height < new[k - 1].height
        <4>1. CASE k \in 2..Len(old)
          <5>1. k \in 1..Len(old) /\ k - 1 \in 1..Len(old)
            BY <1>10, <4>1
          <5> QED BY <1>5, <1>9, <4>1, <5>1
        <4>2. CASE k = Len(old) + 1
          <5>1. k - 1 = Len(old) /\ Len(old) \in 1..Len(old)
            BY <1>10, <4>2
          <5>2. new[k - 1].height \in (i + 1)..call.height
            BY <1>5, <1>9, <5>1
          <5> QED BY <1>6, <3>1, <4>2, <5>2
        <4> QED BY <1>10, <3>1, <4>1, <4>2
      <3>4. ASSUME NEW k \in i..(call.height - 1)
            PROVE  k \in gone \/ \E j \in 1..Len(new) : new[j].height = k
        <4>1. CASE k = i
          <5>1. Len(old) + 1 \in 1..Len(new)
            BY <1>10, <3>1
          <5> QED BY <3>1, <4>1, <5>1
        <4>2. CASE k # i
          <5>1. k \in (i + 1)..(call.height - 1)
            BY <1>6, <4>2
          <5>2. k \in call.failed \/ \E j \in 1..Len(old) : old[j].height = k
            BY <1>5, <5>1
          <5>3. \A j \in 1..Len(old) : j \in 1..Len(new) /\ new[j] = old[j]
            BY <1>9, <1>10, <3>1
          <5> QED BY <1>6, <5>2, <5>3
        <4> QED BY <4>1, <4>2
      <3> QED BY <3>2, <3>3, <3>4
    <2> QED BY <2>1, <2>2
  <1>14. Lowest' = low
    BY <1>8 DEF Lowest, low
  <1>15. PageSoFar'
    <2>1. (i - 1) + 1 = i
      BY <1>6
    <2>2. (at = "fetch" => i - 1 >= low) /\ (at = "answered" => i - 1 = low - 1)
      BY <1>5, <1>6, <1>7, <1>11
    <2>3. \A k \in 1..Len(call'.blocks) : call'.blocks[k].height \in (call'.next + 1)..call'.height
      BY <1>8, <1>13, <2>1
    <2>4. \A k \in 2..Len(call'.blocks) : call'.blocks[k].height < call'.blocks[k - 1].height
      BY <1>8, <1>13
    <2>8. call'.next + 1 = i
      BY <1>8, <2>1
    <2>5. \A k \in (call'.next + 1)..(call'.height - 1) :
             k \in call'.failed \/ \E j \in 1..Len(call'.blocks) : call'.blocks[j].height = k
      <3>1. \A k \in i..(call'.height - 1) :
               k \in call'.failed \/ \E j \in 1..Len(call'.blocks) : call'.blocks[j].height = k
        BY <1>8, <1>13, Zenon
      <3> QED BY <2>8, <3>1, Zenon
    <2>7. call'.count >= 1 /\ call'.height >= 1
      BY <1>2, <1>8 DEF CallInv, PageSoFar
    <2>6. /\ call'.at = "fetch" => call'.next >= Lowest'
          /\ call'.at = "answered" => call'.next = Lowest' - 1
      BY <1>8, <1>14, <2>2
    <2> QED BY <2>3, <2>4, <2>5, <2>6, <2>7, Zenon DEF PageSoFar
  <1>16. GoesOnToFind' /\ HashStillThere' /\ NotFoundOnlyIfUnknown'
    BY <1>8 DEF GoesOnToFind, HashStillThere, NotFoundOnlyIfUnknown
  <1>17. HeightsFit'
    BY <1>2, <1>6, <1>8, <1>11, <1>19 DEF HeightsFit, NextFits, CallInv
  <1>18. AnsweredAsSubmitted'
    BY <1>2, <1>8 DEF AnsweredAsSubmitted, CallInv
  <1>23. BlocksFit'
    <2>1. at = "answered" => i = low
      BY <1>5, <1>6, <1>7, <1>11
    <2>2. call'.op = "RecentBlocks"
      BY <1>3, <1>8
    <2>3. ASSUME call'.at = "answered"
          PROVE  LET b == call'.blocks IN
                 /\ \A k \in 1..Len(b) : b[k].height \in Lowest'..call'.height
                 /\ \A k \in 2..Len(b) : b[k].height < b[k - 1].height
                 /\ \A k \in Lowest'..(call'.height - 1) :
                       k \in call'.failed \/ \E j \in 1..Len(b) : b[j].height = k
      <3>1. Lowest' = i /\ call'.height = call.height /\ call'.blocks = new /\ call'.failed = gone
        BY <1>8, <1>14, <2>1, <2>3
      <3> QED BY <1>13, <3>1, Zenon
    <2> QED BY <2>2, <2>3, Zenon DEF BlocksFit
  <1> QED BY <1>2, <1>12, <1>15, <1>16, <1>17, <1>18, <1>23 DEF IInv, CallInv

(* A page goes down by one block, but for the first place maybe.           *)
LEMMA FetchBlockKeeps == ASSUME IInv, FetchBlock PROVE IInv'
  <1>1. UNCHANGED ledger /\ call.op = "RecentBlocks" /\ call.at = "fetch"
    BY DEF FetchBlock
  <1>2. /\ LedgerOK /\ CallInv /\ Height \in Nat /\ Height = Len(chain)
        /\ call \in CallSet /\ call.height \in 0..Height
    BY <1>1, LedgerKept DEF CallInv, CallOK, HeightsFit, NextFits
  <1> DEFINE fetched == BlockAt(call.next)
             at == IF call.next > Lowest THEN "fetch" ELSE "answered"
  <1>3. /\ chain \in Seq(Seq(Sent)) /\ Len(chain) \in Nat /\ call.next \in Int
    BY <1>2 DEF LedgerOK, CallSet
  <1>4. /\ fetched \in Seq(BlockSet)
        /\ HasBlock(call.next) <=> call.next \in 0..(Height - 1)
        /\ HasBlock(call.next) => Len(fetched) = 1 /\ fetched[1].height = call.next
        /\ ~HasBlock(call.next) => fetched = <<>>
    BY <1>3, BlockAtFacts
  <1>5. call.next >= 0
    <2>1. call.next >= Lowest
      BY <1>1, <1>2 DEF CallInv, PageSoFar
    <2> QED BY <1>2, <1>3, <2>1 DEF Lowest, CallSet
  <1>6. call.next < call.height /\ fetched = <<>> => call.next \in {}
    <2> SUFFICES ASSUME call.next < call.height PROVE fetched # <<>>
      OBVIOUS
    <2>1. HasBlock(call.next)
      BY <1>2, <1>3, <1>4, <1>5
    <2>2. Len(fetched) = 1
      BY <1>4, <2>1
    <2> HIDE DEF fetched
    <2> QED BY <2>2
  <1>7. call' = [call EXCEPT !.blocks = @ \o fetched, !.failed = @ \cup {},
                             !.next = call.next - 1, !.at = at]
    <2>1. call' = [call EXCEPT !.blocks = @ \o fetched, !.next = call.next - 1, !.at = at]
      BY DEF FetchBlock
    <2> HIDE DEF fetched, at
    <2> QED BY <1>2, <2>1 DEF CallSet
  <1>8. fetched = <<>> \/ (Len(fetched) = 1 /\ fetched[1].height = call.next)
    BY <1>4
  <1>9. {} \in SUBSET Int /\ at = IF call.next > Lowest THEN "fetch" ELSE "answered"
    OBVIOUS
  <1> HIDE DEF fetched, at
  <1> QED BY <1>1, <1>4, <1>6, <1>7, <1>8, <1>9, PageGoesOn

(* A block that a call failed for is missing.                              *)
LEMMA FetchFailsKeeps == ASSUME IInv, FetchFails PROVE IInv'
  <1>1. UNCHANGED ledger /\ call.op = "RecentBlocks" /\ call.at = "fetch"
    BY DEF FetchFails
  <1>2. call \in CallSet
    BY DEF IInv, CallInv, CallOK
  <1> DEFINE lost == {call.next}
             at == IF call.next > Lowest THEN "fetch" ELSE "answered"
  <1>3. <<>> \in Seq(BlockSet) /\ lost \in SUBSET Int /\ call.next \in lost
    BY <1>2, EmptyIsSeq DEF CallSet
  <1>4. call.blocks \o <<>> = call.blocks
    <2>1. call.blocks \in Seq(BlockSet)
      BY <1>2 DEF CallSet
    <2> QED BY <2>1
  <1>5. call' = [call EXCEPT !.failed = @ \cup lost, !.next = call.next - 1, !.at = at]
    BY DEF FetchFails
  <1> HIDE DEF lost
  <1>9. at = IF call.next > Lowest THEN "fetch" ELSE "answered"
    OBVIOUS
  <1> HIDE DEF at
  <1>6. call' = [call EXCEPT !.blocks = @ \o <<>>, !.failed = @ \cup lost,
                             !.next = call.next - 1, !.at = at]
    BY <1>2, <1>4, <1>5 DEF CallSet
  <1> QED BY <1>1, <1>3, <1>6, <1>9, PageGoesOn

-----------------------------------------------------------------------------
(* The invariant and the theorems.                                         *)

(* Nothing has been submitted or asked.                                    *)
LEMMA InitEstablishes == QueriesInit => IInv
  <1> SUFFICES ASSUME QueriesInit PROVE IInv
    OBVIOUS
  <1>1. /\ chain = << <<>> >> /\ mempool = <<>> /\ drained = <<>>
        /\ submitted = <<>> /\ call = NoCall
    BY DEF QueriesInit
  <1>2. LedgerOK
    <2>1. <<>> \in Seq(Sent) /\ <<>> \in Seq(Message)
      BY EmptyIsSeq
    <2>2. << <<>> >> \in Seq(Seq(Sent)) /\ Len(<< <<>> >>) = 1
      BY <2>1
    <2> QED BY <1>1, <2>1, <2>2 DEF LedgerOK
  <1>3. call.op = "none" /\ call.at = "idle" /\ call.answer = <<>> /\ call.height = 0
    BY <1>1 DEF NoCall
  <1>4. CallOK
    BY <1>1, <1>3, NoCallFacts DEF CallOK, PhasesOf
  <1>5. HeightsFit
    BY <1>2, <1>3 DEF HeightsFit, NextFits, LedgerOK, Height
  <1>6. /\ GoesOnToFind /\ HashStillThere /\ PageSoFar /\ NotFoundOnlyIfUnknown
        /\ AnsweredAsSubmitted /\ BlocksFit
    BY <1>3 DEF GoesOnToFind, HashStillThere, PageSoFar, NotFoundOnlyIfUnknown,
                AnsweredAsSubmitted, BlocksFit
  <1> QED BY <1>2, <1>4, <1>5, <1>6 DEF IInv, CallInv

(* Nothing happens.                                                        *)
LEMMA StutterPreserves == IInv /\ UNCHANGED queryVars => IInv'
  <1> SUFFICES ASSUME IInv, UNCHANGED queryVars PROVE IInv'
    OBVIOUS
  <1>1. UNCHANGED <<chain, mempool, drained, submitted, call>>
    BY DEF queryVars, ledger
  <1>2. LedgerOK /\ LedgerOK'
    BY <1>1 DEF IInv, LedgerOK, Sent
  <1>3. Sent' = Sent
    BY <1>1 DEF Sent
  <1>4. Goes
    <2>1. /\ chain \in Seq(Seq(Sent')) /\ Continues(chain', chain)
          /\ ToSet(submitted) \subseteq ToSet(submitted')
          /\ Matches(mempool, call.id) # {} => Matches(mempool', call.id) # {}
      BY <1>1, <1>2, <1>3 DEF LedgerOK, Continues, Matches
    <2> QED BY <1>1, <1>2, <2>1, Stays
  <1> QED BY <1>2, <1>4, CallKept DEF IInv

(* Each action preserves the invariant.                                    *)
LEMMA StepPreserves == IInv /\ [QueriesNext]_queryVars => IInv'
  <1> SUFFICES ASSUME IInv, [QueriesNext]_queryVars PROVE IInv'
    OBVIOUS
  <1>1. CASE Caller
    <2>1. ASSUME NEW id \in Asked, AskTransaction(id) PROVE IInv'
      <3>1. Asked \subseteq Form
        <4>1. \A m \in Messages : m.id \in Form
          BY TextsAssumption DEF Message
        <4>2. \A bytes \in Hex : Lower(bytes) \in Form
          BY DEF Lower, Form
        <4> QED BY <4>1, <4>2 DEF Asked
      <3> QED BY <2>1, <3>1, AskTransactionKeeps
    <2>2. ASSUME NEW op \in {"GetBlockchainInfo", "GetBestBlockHash"}, ReadHeight(op)
          PROVE  IInv'
      BY <2>2, ReadHeightKeeps
    <2>3. ASSUME NEW i \in 0..MaxChain, AskHash(i) \/ GetBlockByHeight(i) PROVE IInv'
      BY <2>3, AskHashKeeps, GetBlockByHeightKeeps
    <2>4. ASSUME NEW count \in 1..MaxCount, AskHeight(count) PROVE IInv'
      BY <2>4, AskHeightKeeps
    <2> QED BY <1>1, <2>1, <2>2, <2>3, <2>4, LookUpKeeps, LookUpNextKeeps, GetMempoolKeeps,
               ReadTopKeeps, ReadBestKeeps, CountTransactionsKeeps, FindHashKeeps,
               FetchBlockKeeps, FetchFailsKeeps, AskHeightFailsKeeps DEF Caller
  <1>2. ASSUME NEW message \in Messages, SubmitTransaction(message) PROVE IInv'
    BY <1>2, SubmitTransactionKeeps, TextsAssumption
  <1>3. ASSUME NEW a \in ServerAddress, CreateWallet(a) PROVE IInv'
    BY <1>3, CreateWalletKeeps
  <1>4. ASSUME NEW from \in ServerAddress, NEW to \in ServerAddress \cup {"no address"}, NEW amount \in -1..1,
               SendTransaction(from, to, amount)
        PROVE  IInv'
    BY <1>4, SendTransactionKeeps
  <1> QED BY <1>1, <1>2, <1>3, <1>4, DrainKeeps, AddBlockKeeps, StutterPreserves DEF QueriesNext

(* What is true of every state: nothing but what was submitted is kept,    *)
(* and a query goes on to find what was there when it was made.            *)
THEOREM Inductive == QueriesSpec => []IInv
  BY InitEstablishes, StepPreserves, PTL DEF QueriesSpec

(* NotFoundOnlyIfUnknown: GetTransaction misses what was known when it was *)
(* called only if the miner took it before the first look, and AddBlock    *)
(* was not done with it at the second.                                     *)
THEOREM NeverMissed == QueriesSpec => []NotFoundOnlyIfUnknown
  <1>1. IInv => NotFoundOnlyIfUnknown
    BY DEF IInv, CallInv
  <1> QED BY <1>1, Inductive, PTL

(* AnsweredAsSubmitted: what comes back is what was submitted, whatever    *)
(* has been done with it since.                                            *)
THEOREM GivenBackAsSent == QueriesSpec => []AnsweredAsSubmitted
  <1>1. IInv => AnsweredAsSubmitted
    BY DEF IInv, CallInv
  <1> QED BY <1>1, Inductive, PTL

(* BlocksFit: pages have no gaps but where a call failed, the best block is*)
(* one that was added since, and totals count the blocks that are named    *)
(* with them, at least.                                                    *)
THEOREM PagesFit == QueriesSpec => []BlocksFit
  <1>1. IInv => BlocksFit
    BY DEF IInv, CallInv
  <1> QED BY <1>1, Inductive, PTL
=============================================================================
