-------------------------- MODULE PrimitivesProofs --------------------------
(***************************************************************************)
(* Proofs about the parts that stand alone.  The wallet database, for any  *)
(* set of addresses and any number of writes that fail: wherever a call is *)
(* cut short, a wallet that was saved stays readable and listed, and only  *)
(* a cut save hides one.  The algorithms, for inputs of any size: the      *)
(* bytes of a signature, the search for a nonce, the difficulty and the    *)
(* Merkle root of a list.                                                  *)
(***************************************************************************)
EXTENDS Algorithms, WalletStore, Signatures, Facts

-----------------------------------------------------------------------------
(* The wallet database: the inductive invariant, in named parts. *)

Call ==
    [name : {"none", "save", "clear"},
     at : {"none", "wallet", "list", "delete"},
     address : Address \cup {""},
     rest : Seq(Address)]

TypeOK ==
    /\ wallets \subseteq Address /\ kept \subseteq Address
    /\ list \in Seq(Address)
    /\ cut \in BOOLEAN
    /\ op \in Call

(* The call under way is one of the three, at a place of its own.          *)
CallKnown ==
    \/ op = NoOp
    \/ /\ op.name = "save" /\ op.at \in {"wallet", "list"}
       /\ op.address \in Address
    \/ op.name = "clear" /\ op.at = "delete"

(* No address is in the list twice.                                        *)
ListedOnce == \A i, j \in 1..Len(list) : list[i] = list[j] => i = j

(* What was saved with success is there and listed.                        *)
KeptIsThere ==
    \A w \in kept : w \in wallets /\ \E i \in 1..Len(list) : list[i] = w

(* A save has put its wallet before it reads the list.                     *)
PutBeforeList == op.name = "save" /\ op.at = "list" => op.address \in wallets

(* Only the wallet of a save between its two writes is not in the list:    *)
(* before the first, a wallet that is saved again is still listed.         *)
HiddenBetweenWrites ==
    cut \/ \A w \in wallets :
              \/ \E i \in 1..Len(list) : list[i] = w
              \/ op.name = "save" /\ op.at = "list" /\ op.address = w

(* Clear still has every wallet before it that is there.                   *)
ClearMissesNone ==
    op.at = "delete" =>
        /\ kept = {}
        /\ cut \/ \A w \in wallets : \E i \in 1..Len(op.rest) : op.rest[i] = w

IInv ==
    /\ TypeOK
    /\ CallKnown
    /\ ListedOnce
    /\ KeptIsThere
    /\ PutBeforeList
    /\ HiddenBetweenWrites
    /\ ClearMissesNone

-----------------------------------------------------------------------------
(* The wallet database: facts about sequences and calls. *)

(* Every element but the first is in the rest.                             *)
LEMMA InTail ==
    ASSUME NEW S, NEW s \in Seq(S), s # <<>>, NEW i \in 1..Len(s), s[i] # Head(s)
    PROVE  \E j \in 1..Len(Tail(s)) : Tail(s)[j] = s[i]
  <1>1. i # 1 /\ Len(s) \in Nat
    BY TailFacts
  <1>2. i - 1 \in 1..(Len(s) - 1)
    BY <1>1
  <1>3. Tail(s)[i - 1] = s[(i - 1) + 1]
    BY <1>2, TailFacts
  <1>4. (i - 1) + 1 = i
    OBVIOUS
  <1> QED BY <1>2, <1>3, <1>4, TailFacts

(* The call that no process is in.                                         *)
LEMMA NoOpFacts ==
    NoOp.name = "none" /\ NoOp.at = "none" /\ NoOp \in Call
  BY DEF NoOp, Call

-----------------------------------------------------------------------------
(* The wallet database: each action preserves the invariant. *)

(* Nothing is there at first.                                              *)
LEMMA InitEstablishes == StoreInit => IInv
  <1> SUFFICES ASSUME StoreInit PROVE IInv
    OBVIOUS
  <1> USE DEF StoreInit
  <1>1. TypeOK
    <2>1. op \in Call
      BY NoOpFacts
    <2>2. list \in Seq(Address)
      OBVIOUS
    <2> QED BY <2>1, <2>2 DEF TypeOK
  <1>2. CallKnown /\ ListedOnce /\ KeptIsThere
    BY DEF CallKnown, ListedOnce, KeptIsThere
  <1>3. PutBeforeList /\ HiddenBetweenWrites /\ ClearMissesNone
    BY NoOpFacts DEF PutBeforeList, HiddenBetweenWrites, ClearMissesNone
  <1> QED BY <1>1, <1>2, <1>3 DEF IInv

(* A step that touches no variable leaves the invariant.                   *)
LEMMA StutterPreserves == IInv /\ UNCHANGED storeVars => IInv'
  BY DEF IInv, storeVars, TypeOK, CallKnown, ListedOnce, KeptIsThere, PutBeforeList,
         HiddenBetweenWrites, ClearMissesNone

(* A save begins before its first write.                                   *)
LEMMA SaveWalletStep ==
    ASSUME IInv, NEW w \in Address, SaveWallet(w) PROVE IInv'
  <1> USE DEF IInv, SaveWallet
  <1>1. /\ op'.name = "save" /\ op'.at = "wallet" /\ op'.address = w
        /\ op.name = "none"
    BY NoOpFacts DEF NoOp
  <1>2. TypeOK'
    <2>1. op' = [NoOp EXCEPT !.name = "save", !.at = "wallet", !.address = w]
      OBVIOUS
    <2>2. op' \in Call
      BY NoOpFacts, <2>1 DEF Call
    <2> QED BY <2>2 DEF TypeOK
  <1>3. CallKnown' /\ ListedOnce' /\ KeptIsThere'
    BY <1>1 DEF CallKnown, ListedOnce, KeptIsThere
  <1>4. PutBeforeList' /\ HiddenBetweenWrites' /\ ClearMissesNone'
    BY <1>1 DEF PutBeforeList, HiddenBetweenWrites, ClearMissesNone
  <1> QED BY <1>2, <1>3, <1>4

(* The first write puts the wallet, which the list may not have yet.       *)
LEMMA PutWalletStep ==
    ASSUME IInv, PutWallet PROVE IInv'
  <1> USE DEF IInv, PutWallet
  <1>1. op.name = "save" /\ op.address \in Address
    BY NoOpFacts DEF CallKnown
  <1>2. op'.name = "save" /\ op'.at = "list" /\ op'.address = op.address
    BY <1>1 DEF TypeOK, Call
  <1>3. TypeOK'
    <2>1. op' \in Call
      BY DEF TypeOK, Call
    <2> QED BY <1>1, <2>1 DEF TypeOK
  <1>4. CallKnown' /\ ListedOnce' /\ KeptIsThere'
    BY <1>1, <1>2 DEF CallKnown, ListedOnce, KeptIsThere
  <1>5. PutBeforeList'
    BY <1>2 DEF PutBeforeList
  <1>6. HiddenBetweenWrites'
    BY <1>1, <1>2 DEF HiddenBetweenWrites
  <1>7. ClearMissesNone'
    BY <1>2 DEF ClearMissesNone
  <1> QED BY <1>3, <1>4, <1>5, <1>6, <1>7

(* The second write lists it, once, and the save has succeeded.            *)
LEMMA AddAddressStep ==
    ASSUME IInv, AddAddress PROVE IInv'
  <1> USE DEF IInv, AddAddress
  <1>1. op.address \in Address /\ op.address \in wallets
    BY NoOpFacts DEF CallKnown, PutBeforeList
  <1>2. list' \in Seq(Address) /\ ListedOnce'
    <2>1. CASE Contains(list, op.address)
      BY <2>1 DEF GetAllAddresses, TypeOK, ListedOnce
    <2>2. CASE ~Contains(list, op.address)
      <3>1. list' = Append(list, op.address)
        BY <2>2 DEF GetAllAddresses
      <3>2. \A i \in 1..Len(list) : list[i] # op.address
        BY <2>2 DEF Contains
      <3>3. list \in Seq(Address)
        BY DEF TypeOK
      <3>4. /\ list' \in Seq(Address) /\ Len(list') = Len(list) + 1
            /\ \A i \in 1..Len(list) : list'[i] = list[i]
            /\ list'[Len(list) + 1] = op.address
        BY ONLY <1>1, <3>1, <3>3, AppendFacts
      <3>5. Len(list) \in Nat
        BY <3>3
      <3> QED BY <3>2, <3>4, <3>5 DEF ListedOnce
    <2> QED BY <2>1, <2>2
  <1>3. /\ \A w : (\E i \in 1..Len(list) : list[i] = w) =>
                      \E i \in 1..Len(list') : list'[i] = w
        /\ \E i \in 1..Len(list') : list'[i] = op.address
    <2>1. CASE Contains(list, op.address)
      BY <2>1 DEF GetAllAddresses, Contains
    <2>2. CASE ~Contains(list, op.address)
      <3>1. list' = Append(list, op.address) /\ list \in Seq(Address)
        BY <2>2 DEF GetAllAddresses, TypeOK
      <3>2. /\ Len(list) \in Nat
            /\ Len(list') = Len(list) + 1
            /\ \A i \in 1..Len(list) : list'[i] = list[i]
            /\ list'[Len(list) + 1] = op.address
        BY <1>1, <3>1, AppendFacts
      <3> QED BY <3>2
    <2> QED BY <2>1, <2>2
  <1>4. TypeOK'
    BY <1>1, <1>2, NoOpFacts DEF TypeOK
  <1>5. CallKnown'
    BY DEF CallKnown
  <1>6. KeptIsThere'
    BY <1>1, <1>3 DEF KeptIsThere
  <1>7. HiddenBetweenWrites'
    BY <1>3 DEF HiddenBetweenWrites
  <1>8. PutBeforeList' /\ ClearMissesNone'
    BY NoOpFacts DEF PutBeforeList, ClearMissesNone
  <1> QED BY <1>2, <1>4, <1>5, <1>6, <1>7, <1>8

(* A wallet that is deleted is kept no longer; its address stays listed.   *)
LEMMA DeleteWalletStep ==
    ASSUME IInv, NEW w \in Address, DeleteWallet(w) PROVE IInv'
  <1> USE DEF IInv, DeleteWallet
  <1>1. op.name = "none" /\ op.at = "none"
    BY NoOpFacts
  <1>2. TypeOK'
    BY DEF TypeOK
  <1>3. CallKnown' /\ ListedOnce' /\ KeptIsThere'
    BY DEF CallKnown, ListedOnce, KeptIsThere
  <1>4. PutBeforeList' /\ HiddenBetweenWrites' /\ ClearMissesNone'
    BY <1>1 DEF PutBeforeList, HiddenBetweenWrites, ClearMissesNone
  <1> QED BY <1>2, <1>3, <1>4

(* Clear takes the whole list before it.                                   *)
LEMMA ClearStep ==
    ASSUME IInv, Clear PROVE IInv'
  <1> USE DEF IInv, Clear
  <1>1. /\ op'.name = "clear" /\ op'.at = "delete" /\ op'.rest = list
        /\ op.name = "none"
    BY NoOpFacts DEF NoOp, GetAllAddresses
  <1>2. TypeOK'
    <2>1. list \in Seq(Address)
      BY DEF TypeOK
    <2>2. op' \in Call
      BY <2>1 DEF NoOp, Call, GetAllAddresses
    <2> QED BY <2>2 DEF TypeOK
  <1>3. CallKnown' /\ ListedOnce' /\ KeptIsThere'
    BY <1>1 DEF CallKnown, ListedOnce, KeptIsThere
  <1>4. PutBeforeList' /\ HiddenBetweenWrites' /\ ClearMissesNone'
    BY <1>1 DEF PutBeforeList, HiddenBetweenWrites, ClearMissesNone
  <1> QED BY <1>2, <1>3, <1>4

(* A wallet that leaves what is before Clear has left the database.        *)
LEMMA ClearNextStep ==
    ASSUME IInv, ClearNext PROVE IInv'
  <1> USE DEF IInv, ClearNext
  <1>1. op.name = "clear" /\ kept = {}
    BY NoOpFacts DEF CallKnown, ClearMissesNone
  <1>2. op.rest \in Seq(Address) /\ op.rest # <<>>
    BY DEF TypeOK, Call
  <1>3. op'.name = "clear" /\ op'.at = "delete" /\ op'.rest = Tail(op.rest)
    BY <1>1 DEF TypeOK, Call
  <1>4. TypeOK'
    <2>1. Tail(op.rest) \in Seq(Address)
      BY <1>2, TailFacts
    <2>2. op' \in Call
      BY <2>1 DEF TypeOK, Call
    <2> QED BY <2>2 DEF TypeOK
  <1>5. CallKnown' /\ ListedOnce' /\ KeptIsThere'
    BY <1>1, <1>3 DEF CallKnown, ListedOnce, KeptIsThere
  <1>6. PutBeforeList' /\ HiddenBetweenWrites'
    BY <1>1, <1>3 DEF PutBeforeList, HiddenBetweenWrites
  <1>7. ASSUME ~cut, NEW w \in wallets'
        PROVE  \E i \in 1..Len(op'.rest) : op'.rest[i] = w
    <2>1. PICK i \in 1..Len(op.rest) : op.rest[i] = w
      BY <1>7 DEF ClearMissesNone
    <2>2. w # Head(op.rest)
      BY <1>7
    <2> QED BY <1>2, <1>3, <2>1, <2>2, InTail
  <1>8. ClearMissesNone'
    BY <1>1, <1>7 DEF ClearMissesNone
  <1> QED BY <1>4, <1>5, <1>6, <1>8

(* With nothing before it, no wallet is left that the list would show.     *)
LEMMA ClearListStep ==
    ASSUME IInv, ClearList PROVE IInv'
  <1> USE DEF IInv, ClearList
  <1>1. kept = {} /\ (cut \/ wallets = {})
    BY DEF ClearMissesNone
  <1>2. TypeOK'
    BY NoOpFacts DEF TypeOK
  <1>3. CallKnown' /\ ListedOnce' /\ KeptIsThere'
    BY <1>1 DEF CallKnown, ListedOnce, KeptIsThere
  <1>4. PutBeforeList' /\ HiddenBetweenWrites' /\ ClearMissesNone'
    BY <1>1, NoOpFacts DEF PutBeforeList, HiddenBetweenWrites, ClearMissesNone
  <1> QED BY <1>2, <1>3, <1>4

(* A save that is cut before its first write has hidden nothing.           *)
LEMMA CutShortStep ==
    ASSUME IInv, CutShort PROVE IInv'
  <1> USE DEF IInv, CutShort
  <1>1. TypeOK'
    BY NoOpFacts DEF TypeOK
  <1>2. CallKnown' /\ ListedOnce' /\ KeptIsThere'
    BY DEF CallKnown, ListedOnce, KeptIsThere
  <1>3. HiddenBetweenWrites'
    BY DEF HiddenBetweenWrites
  <1>4. PutBeforeList' /\ ClearMissesNone'
    BY NoOpFacts DEF PutBeforeList, ClearMissesNone
  <1> QED BY <1>1, <1>2, <1>3, <1>4

(* Every step of the specification preserves the invariant.                *)
LEMMA StepPreserves == IInv /\ [StoreNext]_storeVars => IInv'
  <1> SUFFICES ASSUME IInv, [StoreNext]_storeVars PROVE IInv'
    OBVIOUS
  <1>1. ASSUME NEW w \in Address, SaveWallet(w) \/ DeleteWallet(w) PROVE IInv'
    BY <1>1, SaveWalletStep, DeleteWalletStep
  <1>2. CASE PutWallet \/ AddAddress
    BY <1>2, PutWalletStep, AddAddressStep
  <1>3. CASE Clear \/ ClearNext \/ ClearList
    BY <1>3, ClearStep, ClearNextStep, ClearListStep
  <1>4. CASE CutShort
    BY <1>4, CutShortStep
  <1>5. CASE UNCHANGED storeVars
    BY <1>5, StutterPreserves
  <1> QED BY <1>1, <1>2, <1>3, <1>4, <1>5 DEF StoreNext

(* The invariant holds in every reachable state.                           *)
THEOREM Inductive == StoreSpec => []IInv
  BY InitEstablishes, StepPreserves, PTL DEF StoreSpec

-----------------------------------------------------------------------------
(* SaveWallet reports success only when both its writes are done, and no   *)
(* other call undoes one of them but DeleteWallet and Clear: a wallet that *)
(* was saved can be read and is listed exactly once.                       *)
THEOREM SavedStaysListed == StoreSpec => []SavedIsListed
  <1>1. IInv => SavedIsListed
    <2> SUFFICES ASSUME IInv, NEW w \in kept
                 PROVE  /\ GetWallet(w) = <<w>>
                        /\ \E i \in DOMAIN list :
                              \A j \in DOMAIN list : list[j] = w <=> j = i
      BY DEF SavedIsListed, GetAllAddresses
    <2>1. GetWallet(w) = <<w>>
      BY DEF IInv, KeptIsThere, GetWallet, WalletExists
    <2>2. DOMAIN list = 1..Len(list)
      BY PlacesOfSeq DEF IInv, TypeOK
    <2>3. PICK i \in 1..Len(list) : list[i] = w
      BY DEF IInv, KeptIsThere
    <2>4. \A j \in 1..Len(list) : list[j] = w <=> j = i
      BY <2>3 DEF IInv, ListedOnce
    <2> QED BY <2>1, <2>2, <2>4
  <1> QED BY <1>1, Inductive, PTL

(* But for a save that was cut between its two writes, every wallet in the *)
(* database is in the list, so that Clear finds it.                        *)
THEOREM NothingElseHidden == StoreSpec => []OnlyCutIsHidden
  <1>1. IInv => OnlyCutIsHidden
    <2> SUFFICES ASSUME IInv, ~cut, NEW w \in wallets
                 PROVE  w \in ToSet(list) \cup
                              (IF op.name = "save" THEN {op.address} ELSE {})
      BY DEF OnlyCutIsHidden, GetAllAddresses
    <2>1. DOMAIN list = 1..Len(list)
      BY PlacesOfSeq DEF IInv, TypeOK
    <2>2. CASE \E i \in 1..Len(list) : list[i] = w
      BY <2>1, <2>2 DEF ToSet
    <2>3. CASE op.name = "save" /\ op.address = w
      BY <2>3
    <2> QED BY <2>2, <2>3 DEF IInv, HiddenBetweenWrites
  <1> QED BY <1>1, Inductive, PTL

-----------------------------------------------------------------------------
(* Signatures. *)

(* Leading zeros, and nothing else, are lost.                              *)
LEMMA SetBytesFacts ==
    ASSUME NEW bytes \in Seq(Nat)
    PROVE  /\ SetBytes(bytes) \in Seq(Nat)
           /\ Len(SetBytes(bytes)) <= Len(bytes)
           /\ bytes # <<>> /\ bytes[1] # 0 => SetBytes(bytes) = bytes
  <1> DEFINE zeros == {i \in 0..Len(bytes) : \A k \in 1..i : bytes[k] = 0}
             skip == CHOOSE i \in zeros : \A k \in zeros : k <= i
  <1>1. skip \in zeros
    <2>1. Len(bytes) \in Nat /\ zeros \subseteq 0..Len(bytes) /\ 0 \in zeros
      OBVIOUS
    <2>2. \E i \in zeros : \A k \in zeros : k <= i
      BY <2>1, GreatestElement
    <2> QED BY <2>2
  <1>2. skip \in 0..Len(bytes) /\ \A k \in 1..skip : bytes[k] = 0
    BY <1>1
  <1>3. SetBytes(bytes) = SubSeq(bytes, skip + 1, Len(bytes))
    BY DEF SetBytes
  <1> HIDE DEF zeros, skip
  <1>4. /\ SubSeq(bytes, skip + 1, Len(bytes)) \in Seq(Nat)
        /\ Len(SubSeq(bytes, skip + 1, Len(bytes))) = Len(bytes) - skip
    BY <1>2, RestFacts
  <1>5. ASSUME bytes # <<>>, bytes[1] # 0
        PROVE  SubSeq(bytes, skip + 1, Len(bytes)) = bytes
    <2>1. skip = 0
      BY <1>2, <1>5
    <2> QED BY <2>1
  <1> QED BY <1>2, <1>3, <1>4, <1>5

(* The half of a number, rounded down.                                     *)
LEMMA HalfFacts ==
    ASSUME NEW n \in Nat
    PROVE  n \div 2 \in Nat /\ n \div 2 <= n /\ n - 2 * (n \div 2) \in {0, 1}
  OBVIOUS

(* Taking a signature apart gives back the numbers it was made of if and   *)
(* only if its middle is where they meet.                                  *)
LEMMA SplitGivesBack ==
    ASSUME NEW r \in Seq(Nat), r # <<>>, r[1] # 0,
           NEW s \in Seq(Nat), s # <<>>, s[1] # 0
    PROVE  Split(Sign(r, s)) = <<r, s>> <=> Len(s) - Len(r) \in {0, 1}
  <1> DEFINE sig == r \o s
             half == Len(sig) \div 2
             left == SubSeq(sig, 1, half)
             right == SubSeq(sig, half + 1, Len(sig))
  <1>1. /\ sig \in Seq(Nat) /\ Len(sig) = Len(r) + Len(s)
        /\ Len(r) \in Nat /\ Len(s) \in Nat
        /\ \A i \in 1..Len(r) : sig[i] = r[i]
        /\ \A i \in 1..Len(s) : sig[Len(r) + i] = s[i]
    BY ConcatFacts
  <1>2. Split(Sign(r, s)) = <<SetBytes(left), SetBytes(right)>>
    BY DEF Split, Sign
  <1> HIDE DEF sig
  <1>3. half \in Nat /\ half <= Len(sig) /\ Len(sig) - 2 * half \in {0, 1}
    <2>1. Len(sig) \in Nat
      BY <1>1
    <2> QED BY <2>1, HalfFacts
  <1> HIDE DEF half
  <1>4. half \in 0..Len(sig)
    BY <1>1, <1>3
  <1>5. /\ left \in Seq(Nat) /\ Len(left) = half
        /\ \A i \in 1..half : left[i] = sig[i]
    BY <1>1, <1>4, FrontFacts
  <1>6. /\ right \in Seq(Nat) /\ Len(right) = Len(sig) - half
        /\ \A i \in 1..(Len(sig) - half) : right[i] = sig[half + i]
    BY ZenonT(40), <1>1, <1>4, RestFacts
  <1> HIDE DEF left, right
  <1>7. ASSUME Len(s) - Len(r) \in {0, 1} PROVE Split(Sign(r, s)) = <<r, s>>
    <2>1. half = Len(r)
      BY SMTT(30), <1>1, <1>3, <1>7
    <2>2. left = r
      BY SMTT(30), <1>1, <1>5, <2>1, SameSeq
    <2>3. right = s
      <3>1. Len(sig) - half = Len(s) /\ \A i \in 1..Len(s) : right[i] = s[i]
        BY <1>1, <1>6, <2>1
      <3> QED BY ZenonT(40), <1>6, <3>1, SameSeq
    <2>4. SetBytes(r) = r /\ SetBytes(s) = s
      BY SetBytesFacts
    <2> QED BY <1>2, <2>2, <2>3, <2>4
  <1>8. ASSUME Split(Sign(r, s)) = <<r, s>> PROVE Len(s) - Len(r) \in {0, 1}
    <2>1. SetBytes(left) = r /\ SetBytes(right) = s
      BY <1>2, <1>8
    <2>2. Len(r) <= half /\ Len(s) <= Len(sig) - half
      BY <1>5, <1>6, <2>1, SetBytesFacts
    <2> QED BY SMTT(30), <1>1, <1>3, <2>2
  <1> QED BY <1>7, <1>8

(* A signature that was just made verifies exactly if s is as long as r or *)
(* one byte longer, and the two are long enough: for all numbers, in every *)
(* base, whatever the least length.                                        *)
THEOREM BalancedVerifies ==
    ASSUME NEW r \in Seq(Nat), IsNumber(r),
           NEW numbers, \A s \in numbers : s \in Seq(Nat) /\ IsNumber(s)
    PROVE  VerifiesIfBalanced(r, numbers)
  <1> SUFFICES ASSUME NEW s \in numbers
               PROVE  Verifies(r, s) <=> /\ Len(s) - Len(r) \in {0, 1}
                                         /\ Len(r) + Len(s) >= MinLength
    BY DEF VerifiesIfBalanced
  <1>1. s \in Seq(Nat) /\ s # <<>> /\ s[1] # 0 /\ r # <<>> /\ r[1] # 0
    BY DEF IsNumber
  <1>2. Split(Sign(r, s)) = <<r, s>> <=> Len(s) - Len(r) \in {0, 1}
    BY <1>1, SplitGivesBack
  <1>3. Len(Sign(r, s)) = Len(r) + Len(s)
    BY <1>1, ConcatFacts DEF Sign
  <1> QED BY <1>2, <1>3 DEF Verifies

-----------------------------------------------------------------------------
(* The search for a nonce. *)

(* What the loop of Mine does at every nonce.                              *)
IsLoop(loop, hash, bits) ==
    loop = [nonce \in Nonce |->
               IF nonce = MaxNonce
               THEN [nonce |-> nonce, hash |-> HashBlockHeader(hash, nonce - 1)]
               ELSE IF IsValidHash(HashBlockHeader(hash, nonce), bits)
               THEN [nonce |-> nonce, hash |-> HashBlockHeader(hash, nonce)]
               ELSE loop[nonce + 1]]

(* Where it stops, if it comes that far.                                   *)
Stops(nonce, hash, bits) == nonce = MaxNonce \/ IsValidHash(hash[nonce], bits)

(* The first place to stop at, from a nonce on.                            *)
IsFirstStop(stop, nonce, hash, bits) ==
    /\ stop \in nonce..MaxNonce /\ Stops(stop, hash, bits)
    /\ \A k \in nonce..(stop - 1) : ~Stops(k, hash, bits)

FirstStop(nonce, hash, bits) == CHOOSE stop : IsFirstStop(stop, nonce, hash, bits)

(* There is one, from every nonce on, and no other.                        *)
LEMMA FirstStopFacts ==
    ASSUME NEW hash, NEW bits, NEW nonce \in Nonce
    PROVE  /\ IsFirstStop(FirstStop(nonce, hash, bits), nonce, hash, bits)
           /\ \A stop : IsFirstStop(stop, nonce, hash, bits) =>
                 stop = FirstStop(nonce, hash, bits)
  <1> DEFINE stops == {k \in nonce..MaxNonce : Stops(k, hash, bits)}
  <1>1. nonce \in Nat /\ MaxNonce \in Nat /\ nonce <= MaxNonce
    BY ProofOfWorkAssumption DEF Nonce
  <1>2. MaxNonce \in stops /\ stops \subseteq Nat
    BY <1>1 DEF Stops
  <1>3. PICK stop \in stops : \A k \in stops : stop <= k
    BY <1>2, LeastElement
  <1>4. IsFirstStop(stop, nonce, hash, bits)
    <2>1. stop \in nonce..MaxNonce /\ Stops(stop, hash, bits)
      BY <1>3
    <2>2. ASSUME NEW k \in nonce..(stop - 1) PROVE ~Stops(k, hash, bits)
      BY <1>1, <1>3, <2>1
    <2> QED BY <2>1, <2>2 DEF IsFirstStop
  <1>5. IsFirstStop(FirstStop(nonce, hash, bits), nonce, hash, bits)
    BY <1>4 DEF FirstStop
  <1>6. ASSUME NEW x, NEW y, IsFirstStop(x, nonce, hash, bits),
               IsFirstStop(y, nonce, hash, bits)
        PROVE  x = y
    <2>1. x \in nonce..MaxNonce /\ y \in nonce..MaxNonce
      BY <1>6 DEF IsFirstStop
    <2>2. ~(x \in nonce..(y - 1)) /\ ~(y \in nonce..(x - 1))
      BY <1>6 DEF IsFirstStop
    <2> QED BY <1>1, <2>1, <2>2
  <1> QED BY <1>5, <1>6

(* The loop has a result from every nonce on, so that Mine's is one of     *)
(* those that obey it.                                                     *)
LEMMA LoopExists ==
    ASSUME NEW hash, NEW bits
    PROVE  \E loop : IsLoop(loop, hash, bits) /\ Mine(hash, bits) = loop[0]
  <1> DEFINE first(nonce) == FirstStop(nonce, hash, bits)
             end(stop) == [nonce |-> stop,
                           hash |-> HashBlockHeader(hash, IF stop = MaxNonce
                                                          THEN stop - 1 ELSE stop)]
             f == [nonce \in Nonce |-> end(first(nonce))]
  <1>1. ASSUME NEW nonce \in Nonce, nonce = MaxNonce
        PROVE  f[nonce] = [nonce |-> nonce, hash |-> HashBlockHeader(hash, nonce - 1)]
    <2>1. first(nonce) \in nonce..MaxNonce
      BY FirstStopFacts DEF IsFirstStop
    <2>2. first(nonce) = MaxNonce
      BY <1>1, <2>1, ProofOfWorkAssumption
    <2> QED BY <1>1, <2>2
  <1>2. ASSUME NEW nonce \in Nonce, nonce # MaxNonce,
               IsValidHash(HashBlockHeader(hash, nonce), bits)
        PROVE  f[nonce] = [nonce |-> nonce, hash |-> HashBlockHeader(hash, nonce)]
    <2>1. IsFirstStop(nonce, nonce, hash, bits)
      BY <1>2, ProofOfWorkAssumption DEF IsFirstStop, Stops, Nonce, HashBlockHeader
    <2>2. first(nonce) = nonce
      BY <2>1, FirstStopFacts
    <2> QED BY <1>2, <2>2
  <1>3. ASSUME NEW nonce \in Nonce, nonce # MaxNonce,
               ~IsValidHash(HashBlockHeader(hash, nonce), bits)
        PROVE  f[nonce] = f[nonce + 1]
    <2>1. nonce + 1 \in Nonce /\ nonce \in Nat /\ MaxNonce \in Nat
      BY <1>3, ProofOfWorkAssumption DEF Nonce
    <2>2. IsFirstStop(first(nonce + 1), nonce + 1, hash, bits)
      BY <2>1, FirstStopFacts
    <2>3. ~Stops(nonce, hash, bits)
      BY <1>3 DEF Stops, HashBlockHeader
    <2>4. IsFirstStop(first(nonce + 1), nonce, hash, bits)
      BY <2>1, <2>2, <2>3 DEF IsFirstStop
    <2>5. first(nonce) = first(nonce + 1)
      BY <2>4, FirstStopFacts
    <2> QED BY <2>1, <2>5
  <1>4. IsLoop(f, hash, bits)
    BY <1>1, <1>2, <1>3 DEF IsLoop
  <1> HIDE DEF f
  <1>5. \E loop : IsLoop(loop, hash, bits)
    BY <1>4
  <1> QED BY <1>5 DEF IsLoop, Mine

(* Mine returns the first nonce with a low hash, or runs out.              *)
LEMMA MineFacts ==
    ASSUME NEW hash, NEW bits
    PROVE  \E stop : /\ IsFirstStop(stop, 0, hash, bits)
                     /\ Mine(hash, bits) =
                           [nonce |-> stop,
                            hash |-> hash[IF stop = MaxNonce THEN stop - 1 ELSE stop]]
  <1>1. PICK loop : IsLoop(loop, hash, bits) /\ Mine(hash, bits) = loop[0]
    BY LoopExists
  <1>2. 0 \in Nonce
    BY ProofOfWorkAssumption DEF Nonce
  <1>3. PICK stop : IsFirstStop(stop, 0, hash, bits)
    BY <1>2, FirstStopFacts
  <1>4. stop \in Nonce /\ stop \in Nat
    BY <1>3, ProofOfWorkAssumption DEF IsFirstStop, Nonce
  <1>5. \A n \in Nat : n <= stop => loop[0] = loop[n]
    <2> DEFINE S == {n \in Nat : n <= stop => loop[0] = loop[n]}
    <2>1. 0 \in S
      OBVIOUS
    <2>2. ASSUME NEW n \in Nat, n \in S PROVE n + 1 \in S
      <3> SUFFICES ASSUME n + 1 <= stop PROVE loop[0] = loop[n + 1]
        OBVIOUS
      <3>1. loop[0] = loop[n]
        BY <1>4, <2>2
      <3>2. n \in Nonce /\ ~Stops(n, hash, bits)
        BY <1>3, <1>4, ProofOfWorkAssumption DEF IsFirstStop, Nonce
      <3>3. loop[n] = loop[n + 1]
        BY <1>1, <3>2 DEF IsLoop, Stops, HashBlockHeader
      <3> QED BY <3>1, <3>3
    <2> HIDE DEF S
    <2>3. \A n \in Nat : n \in S
      BY <2>1, <2>2, Induction
    <2> QED BY <2>3 DEF S
  <1>6. loop[0] = loop[stop]
    BY <1>4, <1>5
  <1>7. loop[stop] = [nonce |-> stop,
                      hash |-> hash[IF stop = MaxNonce THEN stop - 1 ELSE stop]]
    BY <1>1, <1>3, <1>4 DEF IsLoop, IsFirstStop, Stops, HashBlockHeader
  <1> QED BY <1>1, <1>3, <1>6, <1>7

(* AddBlock accepts the block it has mined exactly if some nonce that is   *)
(* tried has a low hash: for every hash function that gives no hash twice, *)
(* every difficulty and every number of nonces.                            *)
THEOREM FoundIsAccepted ==
    ASSUME NEW hash, IsInjective(hash), DOMAIN hash = Nonce, NEW bits
    PROVE  AcceptedIfFound(hash, bits)
  <1>1. PICK stop : /\ IsFirstStop(stop, 0, hash, bits)
                    /\ Mine(hash, bits) =
                          [nonce |-> stop,
                           hash |-> hash[IF stop = MaxNonce THEN stop - 1 ELSE stop]]
    BY MineFacts
  <1>2. stop \in Nonce /\ MaxNonce \in Nat \ {0}
    BY <1>1, ProofOfWorkAssumption DEF IsFirstStop, Nonce
  <1>3. CASE stop = MaxNonce
    <2>1. \A nonce \in 0..(MaxNonce - 1) : ~IsValidHash(hash[nonce], bits)
      BY <1>1, <1>3 DEF IsFirstStop, Stops
    <2>2. MaxNonce \in Nonce /\ MaxNonce - 1 \in Nonce /\ MaxNonce # MaxNonce - 1
      BY <1>2 DEF Nonce
    <2>3. hash[MaxNonce - 1] # hash[MaxNonce]
      BY <2>2 DEF IsInjective
    <2>4. ~Accepted(hash, Mine(hash, bits), bits)
      BY <1>1, <1>3, <2>3 DEF Accepted, HashBlockHeader
    <2> QED BY <2>1, <2>4 DEF AcceptedIfFound
  <1>4. CASE stop # MaxNonce
    <2>1. stop \in 0..(MaxNonce - 1) /\ IsValidHash(hash[stop], bits)
      BY <1>1, <1>2, <1>4 DEF IsFirstStop, Stops, Nonce
    <2>2. Accepted(hash, Mine(hash, bits), bits)
      BY <1>1, <1>4, <2>1 DEF Accepted, Validate, HashBlockHeader
    <2> QED BY <2>1, <2>2 DEF AcceptedIfFound
  <1> QED BY <1>3, <1>4

-----------------------------------------------------------------------------
(* The difficulty. *)

(* How many intervals are full: one more at each full one.                 *)
LEMMA RoundFacts ==
    ASSUME NEW k \in Nat \ {0}, NEW m \in Nat
    PROVE  /\ (0 \div k) = 0
           /\ (m \div k) \in Nat
           /\ ((m + 1) % k) = 0 => ((m + 1) \div k) = (m \div k) + 1 /\ k <= m + 1
           /\ ((m + 1) % k) # 0 => ((m + 1) \div k) = (m \div k)
  <1>1. (0 \div k) = 0
    OBVIOUS
  <1>2. (m \div k) \in Nat /\ (m % k) \in 0..(k - 1) /\ m = k * (m \div k) + (m % k)
    OBVIOUS
  <1>3. ASSUME ((m + 1) % k) = 0 PROVE ((m + 1) \div k) = (m \div k) + 1
    BY <1>3
  <1>4. ASSUME ((m + 1) % k) # 0 PROVE ((m + 1) \div k) = (m \div k)
    BY <1>4
  <1>5. ASSUME ((m + 1) % k) = 0 PROVE k <= m + 1
    <2>1. ASSUME m + 1 < k PROVE ((m + 1) % k) = m + 1
      BY <2>1
    <2> QED BY <1>5, <2>1
  <1> QED BY <1>1, <1>2, <1>3, <1>4, <1>5

(* A product grows with its factors.                                       *)
LEMMA ProductGrows ==
    ASSUME NEW x \in Nat, NEW y \in Nat, NEW z \in Nat, x <= y
    PROVE  z * x <= z * y
  <1>1. y - x \in Nat /\ z * (y - x) >= 0
    OBVIOUS
  <1>2. z * (y - x) = z * y - z * x
    OBVIOUS
  <1> QED BY <1>1, <1>2

(* What AdjustDifficulty does at the end of an interval.                   *)
Turn(gap, bits) ==
    IF 2 * ((Interval - 1) * gap) < ExpectedTime
    THEN IF bits < MaxBits THEN bits + 1 ELSE bits
    ELSE IF (Interval - 1) * gap > 2 * ExpectedTime
         THEN IF bits > MinBits THEN bits - 1 ELSE bits
    ELSE bits

(* The three paces of FollowsPace are three ways to turn.                  *)
LEMMA TurnFacts ==
    ASSUME NEW gap \in Nat, NEW bits \in Int
    PROVE  /\ 2 * gap <= Seconds =>
                 Turn(gap, bits) = IF bits < MaxBits THEN bits + 1 ELSE bits
           /\ gap >= Seconds /\ gap <= 2 * Seconds => Turn(gap, bits) = bits
           /\ gap * (Interval - 1) > 2 * Seconds * Interval =>
                 Turn(gap, bits) = IF bits > MinBits THEN bits - 1 ELSE bits
  <1> DEFINE taken == (Interval - 1) * gap
             due == Interval * Seconds
  <1>1. /\ Interval \in Nat /\ Interval >= 3 /\ Seconds \in Nat /\ Seconds > 0
        /\ Interval - 1 \in Nat /\ Interval - 2 \in Nat
    BY RetargetAssumption
  <1>2. taken \in Nat /\ due \in Nat /\ due = (Interval - 1) * Seconds + Seconds
    BY <1>1
  <1>3. ASSUME 2 * gap <= Seconds PROVE 2 * taken < due
    <2>1. (Interval - 1) * (2 * gap) <= (Interval - 1) * Seconds
      BY <1>1, <1>3, ProductGrows
    <2>2. (Interval - 1) * (2 * gap) = 2 * taken
      BY <1>1
    <2> QED BY <1>1, <1>2, <2>1, <2>2
  <1>4. ASSUME gap >= Seconds, gap <= 2 * Seconds
        PROVE  ~(2 * taken < due) /\ ~(taken > 2 * due)
    <2>1. Interval * Seconds <= Interval * gap
      BY <1>1, <1>4, ProductGrows
    <2>2. 2 * taken = Interval * gap + (Interval - 2) * gap /\ (Interval - 2) * gap >= 0
      BY <1>1
    <2>3. (Interval - 1) * gap <= (Interval - 1) * (2 * Seconds)
      BY <1>1, <1>4, ProductGrows
    <2>4. (Interval - 1) * (2 * Seconds) = 2 * due - 2 * Seconds
      BY <1>1
    <2>5. Interval * gap \in Nat
      BY <1>1
    <2>6. ~(2 * taken < due)
      BY <1>1, <1>2, <2>1, <2>2, <2>5
    <2> QED BY <1>1, <1>2, <2>3, <2>4, <2>6
  <1>5. ASSUME gap * (Interval - 1) > 2 * Seconds * Interval
        PROVE  ~(2 * taken < due) /\ taken > 2 * due
    <2>1. gap * (Interval - 1) = taken /\ 2 * Seconds * Interval = 2 * due
      BY <1>1
    <2> QED BY <1>2, <1>5, <2>1
  <1>6. Turn(gap, bits) = IF 2 * taken < due
                          THEN IF bits < MaxBits THEN bits + 1 ELSE bits
                          ELSE IF taken > 2 * due
                               THEN IF bits > MinBits THEN bits - 1 ELSE bits
                          ELSE bits
    BY DEF Turn, ExpectedTime
  <1> HIDE DEF taken, due
  <1> QED BY <1>3, <1>4, <1>5, <1>6

(* On a chain with a steady pace that is what it does, and nothing before. *)
LEMMA SteadyTurns ==
    ASSUME NEW gap \in Nat, NEW bits \in Int, NEW n \in Nat, NEW m \in 1..n
    PROVE  AdjustDifficulty(SubSeq(Steady(gap, n), 1, m), bits) =
               IF (m % Interval) = 0 THEN Turn(gap, bits) ELSE bits
  <1> DEFINE all == Steady(gap, n)
             times == SubSeq(all, 1, m)
  <1>1. all \in Seq(Nat) /\ Len(all) = n /\ \A i \in 1..n : all[i] = (i - 1) * gap
    <2>1. all \in [1..n -> Nat]
      BY DEF Steady
    <2> QED BY <2>1 DEF Steady
  <1> HIDE DEF all
  <1>2. Len(times) = m /\ \A i \in 1..m : times[i] = (i - 1) * gap
    <2>1. m \in 0..Len(all)
      BY <1>1
    <2>2. /\ Len(SubSeq(all, 1, m)) = m
          /\ \A i \in 1..m : SubSeq(all, 1, m)[i] = all[i]
      BY <1>1, <2>1, FrontFacts
    <2> QED BY <1>1, <2>2
  <1> HIDE DEF times
  <1>3. Interval \in Nat /\ Interval >= 3
    BY RetargetAssumption
  <1>4. ASSUME (m % Interval) = 0
        PROVE  Interval <= m /\ TimeTaken(times) = (Interval - 1) * gap
    <2>1. Interval <= m
      <3>1. m - 1 \in Nat /\ (m - 1) + 1 = m /\ Interval \in Nat \ {0}
        BY <1>3
      <3>2. ASSUME NEW k \in Nat, k + 1 = m PROVE Interval <= k + 1
        <4>1. ((k + 1) % Interval) = 0
          BY <1>4, <3>2
        <4> QED BY <3>1, <4>1, RoundFacts
      <3> QED BY <3>1, <3>2
    <2>2. times[m] = (m - 1) * gap
      BY <1>2
    <2>3. times[m - Interval + 1] = ((m - Interval + 1) - 1) * gap
      BY <1>2, <1>3, <2>1
    <2>4. (m - 1) * gap - ((m - Interval + 1) - 1) * gap = (Interval - 1) * gap
      BY <1>3
    <2> QED BY <1>2, <2>1, <2>2, <2>3, <2>4 DEF TimeTaken
  <1>5. AdjustDifficulty(times, bits) =
            IF (m % Interval) = 0 THEN Turn(gap, bits) ELSE bits
    <2>1. CASE (m % Interval) # 0
      BY <1>2, <2>1 DEF AdjustDifficulty
    <2>2. CASE (m % Interval) = 0
      BY <1>2, <1>3, <1>4, <2>2 DEF AdjustDifficulty, Turn
    <2> QED BY <2>1, <2>2
  <1> QED BY <1>5 DEF times, all

(* What the bits of a chain with a steady pace are, from block to block.   *)
TurnsAlong(bits, gap, first, n) ==
    /\ bits \in [1..n -> Int] /\ bits[1] = first
    /\ \A i \in 1..(n - 1) :
          bits[i + 1] = IF (i % Interval) = 0 THEN Turn(gap, bits[i]) ELSE bits[i]

(* There are such bits, so that the ones of the definition are such.       *)
LEMMA BitsOfFacts ==
    ASSUME NEW gap \in Nat, NEW first \in Int, NEW n \in Nat \ {0}
    PROVE  TurnsAlong(BitsOf(Steady(gap, n), first), gap, first, n)
  <1> DEFINE times == Steady(gap, n)
             next(old, i) == AdjustDifficulty(SubSeq(times, 1, i - 1), old)
             step == [p \in Int \X Nat |-> next(p[1], p[2])]
             Obeys(f) == f = [i \in 1..Len(times) |->
                                IF i = 1 THEN first ELSE next(f[i - 1], i)]
             bits == BitsOf(times, first)
  <1>1. Len(times) = n
    BY DEF Steady
  <1>2. ASSUME NEW i, NEW old \in Int PROVE next(old, i) \in Int
    BY DEF AdjustDifficulty
  <1>3. bits = CHOOSE g : Obeys(g)
    BY DEF BitsOf
  <1> HIDE DEF next, times
  <1>4. step \in [Int \X Nat -> Int]
    BY <1>2
  <1>5. \E f : Obeys(f)
    <2>1. PICK f : IsRecursion(f, Int, first, step, n)
      <3> HIDE DEF step
      <3> QED BY <1>4, RecursionExists
    <2>2. /\ f \in [1..n -> Int]
          /\ \A i \in 1..n : f[i] = IF i = 1 THEN first ELSE step[<<f[i - 1], i>>]
      <3> HIDE DEF step
      <3> QED BY <2>1 DEF IsRecursion
    <2>3. ASSUME NEW i \in 1..n, i # 1 PROVE step[<<f[i - 1], i>>] = next(f[i - 1], i)
      <3>1. f[i - 1] \in Int /\ i \in Nat
        BY <2>2, <2>3
      <3> QED BY <3>1
    <2> HIDE DEF step
    <2>4. ASSUME NEW i \in 1..n
          PROVE  f[i] = IF i = 1 THEN first ELSE next(f[i - 1], i)
      <3>1. CASE i = 1
        BY <2>2, <3>1
      <3>2. CASE i # 1
        BY <2>2, <2>3, <3>2
      <3> QED BY <3>1, <3>2
    <2>5. f = [i \in 1..n |-> IF i = 1 THEN first ELSE next(f[i - 1], i)]
      BY <2>2, <2>4
    <2> QED BY <1>1, <2>5
  <1>6. Obeys(bits)
    <2> HIDE DEF Obeys, bits
    <2> QED BY <1>3, <1>5
  <1> HIDE DEF bits
  <1>7. /\ bits = [i \in 1..n |-> bits[i]]
        /\ bits[1] = first
        /\ \A i \in 1..(n - 1) : bits[i + 1] = next(bits[i], i + 1)
    <2>1. /\ bits = [i \in 1..n |-> bits[i]]
          /\ \A i \in 1..n : bits[i] = IF i = 1 THEN first ELSE next(bits[i - 1], i)
      BY <1>1, <1>6
    <2>2. bits[1] = first
      <3>1. 1 \in 1..n
        OBVIOUS
      <3>2. bits[1] = IF 1 = 1 THEN first ELSE next(bits[1 - 1], 1)
        BY ONLY <2>1, <3>1
      <3> QED BY ONLY <3>2
    <2>3. ASSUME NEW i \in 1..(n - 1) PROVE bits[i + 1] = next(bits[i], i + 1)
      <3>1. i + 1 \in 1..n /\ i + 1 # 1 /\ (i + 1) - 1 = i
        OBVIOUS
      <3> QED BY <2>1, <3>1
    <2> QED BY <2>1, <2>2, <2>3
  <1>8. \A i \in 1..n : bits[i] \in Int
    <2> DEFINE S == {k \in Nat : k + 1 \in 1..n => bits[k + 1] \in Int}
    <2>1. 0 \in S
      BY <1>7
    <2>2. ASSUME NEW k \in Nat, k \in S PROVE k + 1 \in S
      <3> SUFFICES ASSUME (k + 1) + 1 \in 1..n PROVE bits[(k + 1) + 1] \in Int
        OBVIOUS
      <3>1. k + 1 \in 1..(n - 1)
        OBVIOUS
      <3>2. bits[(k + 1) + 1] = next(bits[k + 1], (k + 1) + 1)
        BY <1>7, <3>1
      <3>3. bits[k + 1] \in Int
        BY <2>2, <3>1
      <3>4. next(bits[k + 1], (k + 1) + 1) \in Int
        BY <1>2, <3>3
      <3> QED BY <3>2, <3>4
    <2> HIDE DEF S
    <2>3. \A k \in Nat : k \in S
      BY <2>1, <2>2, Induction
    <2>4. ASSUME NEW i \in 1..n PROVE bits[i] \in Int
      <3>1. i - 1 \in S /\ (i - 1) + 1 = i
        BY <2>3
      <3> QED BY <3>1 DEF S
    <2> QED BY <2>4
  <1>9. bits \in [1..n -> Int]
    BY <1>7, <1>8
  <1>10. ASSUME NEW i \in 1..(n - 1)
         PROVE  bits[i + 1] = IF (i % Interval) = 0 THEN Turn(gap, bits[i]) ELSE bits[i]
    <2>1. i \in 1..n /\ (i + 1) - 1 = i /\ bits[i] \in Int
      BY <1>8
    <2>2. next(bits[i], i + 1) = AdjustDifficulty(SubSeq(Steady(gap, n), 1, i), bits[i])
      BY <2>1 DEF next, times
    <2>3. AdjustDifficulty(SubSeq(Steady(gap, n), 1, i), bits[i]) =
              IF (i % Interval) = 0 THEN Turn(gap, bits[i]) ELSE bits[i]
      BY <2>1, SteadyTurns
    <2>4. bits[i + 1] = next(bits[i], i + 1)
      BY <1>7
    <2> QED BY <2>2, <2>3, <2>4
  <1> QED BY <1>7, <1>9, <1>10 DEF TurnsAlong, bits, times

(* The difficulty follows the pace of the blocks: at every pace, from      *)
(* every difficulty between the limits, after any number of blocks, and    *)
(* for every interval of three blocks or more.                             *)
THEOREM PaceIsFollowed ==
    ASSUME NEW gap \in Nat, NEW first \in MinBits..MaxBits,
           NEW lengths, lengths \subseteq Nat \ {0}
    PROVE  FollowsPace(gap, first, lengths)
  <1> SUFFICES ASSUME NEW n \in lengths
               PROVE  LET bits == BitsOf(Steady(gap, n), first)
                          rounds == (n - 1) \div Interval
                          least(x, y) == IF x < y THEN x ELSE y
                      IN /\ 2 * gap <= Seconds =>
                               bits[n] = first + least(rounds, MaxBits - first)
                         /\ gap >= Seconds /\ gap <= 2 * Seconds => bits[n] = first
                         /\ gap * (Interval - 1) > 2 * Seconds * Interval =>
                               bits[n] = first - least(rounds, first - MinBits)
    BY DEF FollowsPace
  <1> DEFINE bits == BitsOf(Steady(gap, n), first)
             least(x, y) == IF x < y THEN x ELSE y
             fast == 2 * gap <= Seconds
             good == gap >= Seconds /\ gap <= 2 * Seconds
             slow == gap * (Interval - 1) > 2 * Seconds * Interval
             Right(m) == /\ fast => bits[m + 1] =
                                       first + least(m \div Interval, MaxBits - first)
                         /\ good => bits[m + 1] = first
                         /\ slow => bits[m + 1] =
                                       first - least(m \div Interval, first - MinBits)
             S == {m \in Nat : m + 1 \in 1..n => Right(m)}
  <1>1. n \in Nat \ {0} /\ first \in Int /\ MinBits \in Nat /\ MaxBits \in Nat
        /\ first <= MaxBits /\ MinBits <= first /\ Interval \in Nat \ {0}
    BY RetargetAssumption
  <1>2. /\ bits \in [1..n -> Int] /\ bits[1] = first
        /\ \A i \in 1..(n - 1) :
              bits[i + 1] = IF (i % Interval) = 0 THEN Turn(gap, bits[i]) ELSE bits[i]
    <2>1. TurnsAlong(bits, gap, first, n)
      BY <1>1, BitsOfFacts
    <2> HIDE DEF bits
    <2> QED BY <2>1 DEF TurnsAlong
  <1>3. \A d \in Int : /\ fast => Turn(gap, d) = IF d < MaxBits THEN d + 1 ELSE d
                       /\ good => Turn(gap, d) = d
                       /\ slow => Turn(gap, d) = IF d > MinBits THEN d - 1 ELSE d
    BY TurnFacts
  <1> HIDE DEF bits, fast, good, slow
  <1>4. 0 \in S
    <2>1. (0 \div Interval) = 0
      BY <1>1, RoundFacts
    <2>2. bits[0 + 1] = first
      BY <1>2
    <2>3. least(0, MaxBits - first) = 0 /\ least(0, first - MinBits) = 0
      BY <1>1
    <2> HIDE DEF least
    <2>4. Right(0)
      BY <1>1, <2>1, <2>2, <2>3
    <2> QED BY <2>4
  <1>5. ASSUME NEW m \in Nat, m \in S PROVE m + 1 \in S
    <2> SUFFICES ASSUME (m + 1) + 1 \in 1..n PROVE Right(m + 1)
      OBVIOUS
    <2> DEFINE rounds == m \div Interval
               later == (m + 1) \div Interval
               old == bits[m + 1]
               new == bits[(m + 1) + 1]
    <2>1. m + 1 \in 1..(n - 1) /\ m + 1 \in 1..n
      BY <1>1
    <2>2. Right(m) /\ old \in Int
      BY <1>2, <1>5, <2>1
    <2>3. new = IF ((m + 1) % Interval) = 0 THEN Turn(gap, old) ELSE old
      BY <1>2, <2>1
    <2>4. /\ rounds \in Nat
          /\ ((m + 1) % Interval) = 0 => later = rounds + 1
          /\ ((m + 1) % Interval) # 0 => later = rounds
      BY <1>1, RoundFacts
    <2>5. /\ fast => old = first + least(rounds, MaxBits - first)
          /\ good => old = first
          /\ slow => old = first - least(rounds, first - MinBits)
      BY <2>2
    <2> HIDE DEF rounds, later, old, new
    <2>6. CASE ((m + 1) % Interval) # 0
      <3>1. new = old /\ later = rounds
        BY <2>3, <2>4, <2>6
      <3> QED BY <2>5, <3>1 DEF later, new
    <2>7. CASE ((m + 1) % Interval) = 0
      <3>1. new = Turn(gap, old) /\ later = rounds + 1
        BY <2>3, <2>4, <2>7
      <3>2. fast => new = first + least(later, MaxBits - first)
        BY <1>1, <1>3, <2>2, <2>4, <2>5, <3>1
      <3>3. good => new = first
        BY <1>1, <1>3, <2>5, <3>1
      <3>4. slow => new = first - least(later, first - MinBits)
        BY <1>1, <1>3, <2>2, <2>4, <2>5, <3>1
      <3> QED BY <3>2, <3>3, <3>4 DEF later, new
    <2> QED BY <2>6, <2>7
  <1> HIDE DEF S
  <1>6. \A m \in Nat : m \in S
    BY <1>4, <1>5, Induction
  <1>7. Right(n - 1)
    <2>1. n - 1 \in S /\ (n - 1) + 1 \in 1..n
      BY <1>1, <1>6
    <2> QED BY <2>1 DEF S
  <1>8. (n - 1) + 1 = n
    BY <1>1
  <1> QED BY <1>7, <1>8 DEF bits, fast, good, slow

-----------------------------------------------------------------------------
(* The Merkle tree: what a root says of lists of ids, of any length. *)

(* A sequence of one piece, as a hash is.                                  *)
Long(x) == x = <<x[1]>>

AllLong(V) == \A x \in V : Long(x)

(* What is made of two nodes out of V.                                     *)
Nodes(V) == {DoubleHash(l, r) : l \in V, r \in V}

(* The hash of no two nodes, and not the root of an empty list.            *)
Unhashed(x) == x # EmptyRoot /\ \A l, r : Long(l) /\ Long(r) => x # DoubleHash(l, r)

(* Two hashes and what they are hashed to tell each other.                 *)
LEMMA DoubleHashFacts ==
    ASSUME NEW l, NEW r, Long(l), Long(r)
    PROVE  l \o r = <<l[1], r[1]>> /\ DoubleHash(l, r) = << << <<l[1], r[1]>> >> >>
  <1> DEFINE p == l[1]
             q == r[1]
             A == {p, q}
  <1>1. <<p>> \in Seq(A) /\ <<q>> \in Seq(A) /\ <<p, q>> \in Seq(A)
    OBVIOUS
  <1>2. /\ <<p>> \o <<q>> \in Seq(A) /\ Len(<<p>> \o <<q>>) = 2
        /\ (<<p>> \o <<q>>)[1] = p /\ (<<p>> \o <<q>>)[2] = q
    <2>1. Len(<<p>>) = 1 /\ Len(<<q>>) = 1 /\ 1 \in 1..1 /\ 1 + 1 = 2
          /\ <<p>>[1] = p /\ <<q>>[1] = q
      OBVIOUS
    <2> HIDE DEF A, p, q
    <2> QED BY <1>1, <2>1, ConcatFacts
  <1>3. <<p>> \o <<q>> = <<p, q>>
    <2>1. /\ Len(<<p, q>>) = 2 /\ <<p, q>>[1] = p /\ <<p, q>>[2] = q
          /\ \A i \in 1..2 : i = 1 \/ i = 2
      OBVIOUS
    <2>2. \A i \in 1..2 : (<<p>> \o <<q>>)[i] = <<p, q>>[i]
      BY <1>2, <2>1
    <2> HIDE DEF A, p, q
    <2> QED BY <1>1, <1>2, <2>1, <2>2, SameSeq
  <1>4. l \o r = <<p, q>>
    BY <1>3 DEF Long
  <1> QED BY <1>4 DEF DoubleHash, DoubleHashBytes

(* So two pairs of hashes with one hash are one pair.                      *)
LEMMA SamePair ==
    ASSUME NEW l, NEW r, NEW x, NEW y, Long(l), Long(r), Long(x), Long(y),
           DoubleHash(l, r) = DoubleHash(x, y)
    PROVE  l = x /\ r = y
  <1>1. << << <<l[1], r[1]>> >> >> = << << <<x[1], y[1]>> >> >>
    BY DoubleHashFacts
  <1>2. <<l[1], r[1]>> = <<x[1], y[1]>>
    BY <1>1
  <1> QED BY <1>2 DEF Long

(* What is made of nodes is as long as a hash.                             *)
LEMMA NodesLong == ASSUME NEW V PROVE AllLong(Nodes(V))
  BY DEF Nodes, AllLong, Long, DoubleHash, DoubleHashBytes

(* How many nodes are above a level of n, more than one.                   *)
IsHalf(m, n) == m \in Nat /\ (2 * m = n \/ 2 * m = n + 1)

(* A level of an odd length is filled up with its last node.               *)
LEMMA PadFacts ==
    ASSUME NEW V, NEW s \in Seq(V), Len(s) >= 1
    PROVE  /\ Pad(s) \in Seq(V)
           /\ Len(Pad(s)) = Len(s) \/ Len(Pad(s)) = Len(s) + 1
           /\ \E m \in Nat : Len(Pad(s)) = 2 * m
           /\ \A i \in 1..Len(s) : Pad(s)[i] = s[i]
           /\ Len(Pad(s)) = Len(s) + 1 => Pad(s)[Len(s) + 1] = s[Len(s)]
  <1>1. Len(s) \in Nat /\ Last(s) = s[Len(s)] /\ s[Len(s)] \in V
    BY DEF Last
  <1>2. CASE (Len(s) % 2) = 0
    <2>1. Pad(s) = s
      BY <1>2 DEF Pad
    <2>2. \E m \in Nat : Len(s) = 2 * m
      <3>1. Len(s) = 2 * (Len(s) \div 2) /\ Len(s) \div 2 \in Nat
        BY <1>1, <1>2
      <3> QED BY <3>1
    <2> QED BY <1>1, <2>1, <2>2
  <1>3. CASE (Len(s) % 2) # 0
    <2>1. Pad(s) = Append(s, s[Len(s)])
      BY <1>1, <1>3 DEF Pad
    <2>2. \E m \in Nat : Len(s) + 1 = 2 * m
      <3>1. Len(s) + 1 = 2 * ((Len(s) + 1) \div 2) /\ (Len(s) + 1) \div 2 \in Nat
        BY <1>1, <1>3
      <3> QED BY <3>1
    <2>3. /\ Pad(s) \in Seq(V) /\ Len(Pad(s)) = Len(s) + 1
          /\ \A i \in 1..Len(s) : Pad(s)[i] = s[i]
          /\ Pad(s)[Len(s) + 1] = s[Len(s)]
      BY <1>1, <2>1, AppendFacts
    <2> QED BY <2>2, <2>3
  <1> QED BY <1>2, <1>3

(* Each node of the next level is made from two of the filled level.       *)
LEMMA NextLevelFacts ==
    ASSUME NEW V, NEW s \in Seq(V), Len(s) >= 1
    PROVE  /\ NextLevel(s) \in Seq(Nodes(V))
           /\ IsHalf(Len(NextLevel(s)), Len(s))
           /\ Len(Pad(s)) = 2 * Len(NextLevel(s))
           /\ \A i \in 1..Len(NextLevel(s)) :
                 NextLevel(s)[i] = DoubleHash(Pad(s)[2 * i - 1], Pad(s)[2 * i])
  <1> DEFINE p == Pad(s)
             n == Len(p) \div 2
  <1>1. /\ p \in Seq(V)
        /\ Len(p) = Len(s) \/ Len(p) = Len(s) + 1
        /\ \E m \in Nat : Len(p) = 2 * m
    BY PadFacts
  <1>2. p \in Seq(V) /\ Len(s) \in Nat
    BY PadFacts
  <1> HIDE DEF p
  <1>3. n \in Nat /\ Len(p) = 2 * n
    BY <1>1
  <1> HIDE DEF n
  <1>4. NextLevel(s) = [i \in 1..n |-> DoubleHash(p[2 * i - 1], p[2 * i])]
    BY DEF NextLevel, p, n
  <1>5. ASSUME NEW i \in 1..n PROVE DoubleHash(p[2 * i - 1], p[2 * i]) \in Nodes(V)
    <2>1. 2 * i - 1 \in 1..Len(p) /\ 2 * i \in 1..Len(p)
      BY <1>3
    <2> QED BY <1>2, <2>1, ElementIn DEF Nodes
  <1>6. /\ NextLevel(s) \in Seq(Nodes(V)) /\ Len(NextLevel(s)) = n
        /\ \A i \in 1..n : NextLevel(s)[i] = DoubleHash(p[2 * i - 1], p[2 * i])
    BY <1>3, <1>4, <1>5
  <1>7. IsHalf(n, Len(s))
    BY <1>1, <1>2, <1>3, PadFacts DEF IsHalf, p
  <1> QED BY <1>3, <1>6, <1>7 DEF p

(* Two levels of one height, the longer one up to repeats the shorter: p   *)
(* is the number of nodes of that height in a full tree.                   *)
Alike(long, short, p) ==
    /\ Len(short) <= Len(long) /\ Len(long) <= p /\ p < 2 * Len(short)
    /\ \A i \in 1..Len(short) : long[i] = short[i]
    /\ \A i \in (Len(short) + 1)..Len(long) :
          \E k \in 1..(Len(short) - 1) : i - k <= Len(short) /\ long[i] = long[i - k]

(* One node, or an even number of them.                                    *)
Full(p) == p = 1 \/ \E r \in Nat : p = 2 * r

(* What is alike one level up is alike.                                    *)
LEMMA AlikeBelow ==
    ASSUME NEW V, AllLong(V), NEW s \in Seq(V), NEW t \in Seq(V), Len(s) > 1, Len(t) > 1,
           NEW p \in Nat, Full(p), Alike(NextLevel(s), NextLevel(t), p)
    PROVE  Alike(s, t, 2 * p) \/ Alike(t, s, 2 * p)
  <1> DEFINE la == Len(s)
             lb == Len(t)
             sp == Pad(s)
             tp == Pad(t)
             su == NextLevel(s)
             tu == NextLevel(t)
             m == Len(su)
             n == Len(tu)
  <1>1. la \in Nat /\ lb \in Nat /\ la >= 1 /\ lb >= 1
    OBVIOUS
  <1>2. /\ Len(sp) = 2 * m /\ IsHalf(m, la)
        /\ \A i \in 1..m : su[i] = DoubleHash(sp[2 * i - 1], sp[2 * i])
        /\ sp \in Seq(V)
        /\ \A i \in 1..la : sp[i] = s[i]
        /\ 2 * m = la + 1 => sp[la + 1] = s[la]
    BY <1>1, PadFacts, NextLevelFacts
  <1>3. /\ Len(tp) = 2 * n /\ IsHalf(n, lb)
        /\ \A i \in 1..n : tu[i] = DoubleHash(tp[2 * i - 1], tp[2 * i])
        /\ tp \in Seq(V)
        /\ \A i \in 1..lb : tp[i] = t[i]
        /\ 2 * n = lb + 1 => tp[lb + 1] = t[lb]
    BY <1>1, PadFacts, NextLevelFacts
  <1>4. /\ n <= m /\ m <= p /\ p < 2 * n
        /\ \A i \in 1..n : su[i] = tu[i]
        /\ \A i \in (n + 1)..m :
              \E k \in 1..(n - 1) : i - k <= n /\ su[i] = su[i - k]
    BY DEF Alike
  <1> HIDE DEF la, lb, sp, tp, su, tu, m, n
  <1>5. /\ m \in Nat /\ n \in Nat /\ la > 1 /\ lb > 1
        /\ la = 2 * m \/ la = 2 * m - 1
        /\ lb = 2 * n \/ lb = 2 * n - 1
    BY <1>1, <1>2, <1>3 DEF IsHalf, la, lb
  <1>6. p = 1 \/ p <= 2 * n - 2
    BY <1>4, <1>5 DEF Full
  <1>7. ASSUME NEW i \in 1..(2 * n) PROVE sp[i] = tp[i]
    <2>1. PICK j \in 1..n : i = 2 * j - 1 \/ i = 2 * j
      <3>1. (i + 1) \div 2 \in 1..n /\ (i = 2 * ((i + 1) \div 2) - 1 \/ i = 2 * ((i + 1) \div 2))
        BY <1>5
      <3> QED BY <3>1
    <2>2. su[j] = tu[j] /\ j \in 1..m
      BY <1>4, <1>5
    <2>3. DoubleHash(sp[2 * j - 1], sp[2 * j]) = DoubleHash(tp[2 * j - 1], tp[2 * j])
      BY <1>2, <1>3, <2>2
    <2>4. /\ 2 * j - 1 \in 1..(2 * m) /\ 2 * j \in 1..(2 * m)
          /\ 2 * j - 1 \in 1..(2 * n) /\ 2 * j \in 1..(2 * n)
      BY <1>5, <2>2
    <2>5. /\ Long(sp[2 * j - 1]) /\ Long(sp[2 * j]) /\ Long(tp[2 * j - 1]) /\ Long(tp[2 * j])
      BY <1>2, <1>3, <2>4, ElementIn DEF AllLong
    <2>6. sp[2 * j - 1] = tp[2 * j - 1] /\ sp[2 * j] = tp[2 * j]
      BY <2>3, <2>5, SamePair
    <2> QED BY <2>1, <2>6
  <1>8. ASSUME NEW i \in (2 * n + 1)..(2 * m)
        PROVE  \E k \in 1..(n - 1) : /\ i - 2 * k <= 2 * n /\ sp[i] = sp[i - 2 * k]
                                     /\ i - 2 * k >= 1
                                     /\ i - 2 * k = 2 * n => i = 2 * (n + k) /\ n + k <= m
    <2>1. PICK j \in (n + 1)..m : i = 2 * j - 1 \/ i = 2 * j
      <3>1. (i + 1) \div 2 \in (n + 1)..m /\ (i = 2 * ((i + 1) \div 2) - 1 \/ i = 2 * ((i + 1) \div 2))
        BY <1>5
      <3> QED BY <3>1
    <2>2. PICK k \in 1..(n - 1) : j - k <= n /\ su[j] = su[j - k]
      BY <1>4
    <2>3. j \in 1..m /\ j - k \in 1..m
      BY <1>4, <1>5, <2>2
    <2>4. DoubleHash(sp[2 * j - 1], sp[2 * j]) = DoubleHash(sp[2 * (j - k) - 1], sp[2 * (j - k)])
      BY <1>2, <2>2, <2>3
    <2>5. sp[2 * j - 1] = sp[2 * (j - k) - 1] /\ sp[2 * j] = sp[2 * (j - k)]
      <3>1. /\ 2 * j - 1 \in 1..(2 * m) /\ 2 * j \in 1..(2 * m)
            /\ 2 * (j - k) - 1 \in 1..(2 * m) /\ 2 * (j - k) \in 1..(2 * m)
        BY <1>5, <2>3
      <3>2. /\ Long(sp[2 * j - 1]) /\ Long(sp[2 * j])
            /\ Long(sp[2 * (j - k) - 1]) /\ Long(sp[2 * (j - k)])
        BY <1>2, <3>1, ElementIn DEF AllLong
      <3> QED BY <2>4, <3>2, SamePair
    <2>6. 2 * (j - k) - 1 = (2 * j - 1) - 2 * k /\ 2 * (j - k) = 2 * j - 2 * k
      BY <1>5
    <2>7. sp[i] = sp[i - 2 * k]
      BY <2>1, <2>5, <2>6
    <2>8. /\ i - 2 * k <= 2 * n /\ i - 2 * k >= 1
          /\ i - 2 * k = 2 * n => i = 2 * (n + k) /\ n + k <= m
      BY <1>5, <2>1, <2>2, <2>3
    <2> QED BY <2>7, <2>8
  <1>9. lb = 2 * n - 1 => sp[2 * n] = sp[lb]
    <2> SUFFICES ASSUME lb = 2 * n - 1 PROVE sp[2 * n] = sp[lb]
      OBVIOUS
    <2>1. 2 * n = lb + 1 /\ lb \in 1..lb /\ 2 * n \in 1..(2 * n) /\ lb \in 1..(2 * n)
      BY <1>5
    <2>2. tp[2 * n] = t[lb] /\ tp[lb] = t[lb]
      BY <1>3, <2>1
    <2> QED BY <1>7, <2>1, <2>2
  <1>10. CASE lb <= la
    <2>1. ASSUME NEW i \in 1..lb PROVE s[i] = t[i]
      <3>1. i \in 1..la /\ i \in 1..(2 * n)
        BY <1>5, <1>10
      <3> QED BY <1>2, <1>3, <1>7, <3>1
    <2>2. ASSUME NEW i \in (lb + 1)..la
          PROVE  \E k \in 1..(lb - 1) : i - k <= lb /\ s[i] = s[i - k]
      <3>1. i \in 1..la /\ i \in 1..(2 * m) /\ s[i] = sp[i]
        BY <1>2, <1>5
      <3>2. CASE i <= 2 * n
        <4>1. i = lb + 1 /\ i = 2 * n /\ lb = 2 * n - 1 /\ i - 1 = lb /\ lb \in 1..la
          BY <1>5, <1>10, <3>2
        <4>2. s[i] = s[i - 1]
          BY <1>2, <1>9, <3>1, <4>1
        <4>3. 1 \in 1..(lb - 1) /\ i - 1 <= lb
          BY <1>5, <4>1
        <4> QED BY <4>2, <4>3
      <3>3. CASE ~(i <= 2 * n)
        <4>1. i \in (2 * n + 1)..(2 * m)
          BY <1>5, <3>1, <3>3
        <4>2. PICK k \in 1..(n - 1) : /\ i - 2 * k <= 2 * n /\ sp[i] = sp[i - 2 * k]
                                      /\ i - 2 * k >= 1
                                      /\ i - 2 * k = 2 * n => i = 2 * (n + k) /\ n + k <= m
          BY <1>8, <4>1
        <4>3. CASE i - 2 * k <= lb
          <5>1. 2 * k \in 1..(lb - 1) /\ i - 2 * k \in 1..la
            BY <1>5, <1>10, <4>2, <4>3
          <5>2. s[i] = s[i - 2 * k]
            BY <1>2, <3>1, <4>2, <5>1
          <5> QED BY <4>3, <5>1, <5>2
        <4>4. CASE ~(i - 2 * k <= lb)
          <5>1. lb = 2 * n - 1 /\ i - 2 * k = 2 * n
            BY <1>5, <4>2, <4>4
          <5>2. n + k <= m /\ n + k <= 2 * n - 2
            BY <1>4, <1>5, <1>6, <4>2, <5>1
          <5>3. /\ 2 * k + 1 \in 1..(lb - 1) /\ i - (2 * k + 1) = lb /\ lb \in 1..la
            BY <1>5, <1>10, <5>1, <5>2
          <5>4. s[i] = sp[2 * n] /\ s[lb] = sp[lb]
            <6>1. s[i] = sp[2 * n]
              BY <3>1, <4>2, <5>1
            <6>2. s[lb] = sp[lb]
              BY <1>2, <5>3
            <6> QED BY <6>1, <6>2
          <5>5. s[i] = s[i - (2 * k + 1)]
            BY <1>9, <5>1, <5>3, <5>4
          <5>6. i - (2 * k + 1) <= lb
            BY <1>5, <5>3
          <5> QED BY <5>3, <5>5, <5>6
        <4> QED BY <4>3, <4>4
      <3> QED BY <3>2, <3>3
    <2>3. lb <= la /\ la <= 2 * p /\ 2 * p < 2 * lb
      BY <1>4, <1>5, <1>6, <1>10
    <2>4. Alike(s, t, 2 * p)
      BY <2>1, <2>2, <2>3 DEF Alike, la, lb
    <2> QED BY <2>4
  <1>11. CASE ~(lb <= la)
    <2>1. m = n /\ la = 2 * n - 1 /\ lb = 2 * n /\ lb = la + 1
      BY <1>4, <1>5, <1>11
    <2>2. ASSUME NEW i \in 1..la PROVE t[i] = s[i]
      <3>1. i \in 1..lb /\ i \in 1..(2 * n)
        BY <1>5, <2>1
      <3> QED BY <1>2, <1>3, <1>7, <3>1
    <2>3. ASSUME NEW i \in (la + 1)..lb
          PROVE  \E k \in 1..(la - 1) : i - k <= la /\ t[i] = t[i - k]
      <3>1. i = lb /\ i - 1 = la /\ 1 \in 1..(la - 1) /\ la \in 1..lb /\ la \in 1..la /\ lb \in 1..lb
            /\ lb \in 1..(2 * n)
        BY <1>5, <2>1
      <3>2. t[lb] = sp[lb] /\ sp[lb] = s[la] /\ s[la] = t[la]
        BY <1>2, <1>3, <1>7, <2>1, <2>2, <3>1
      <3> QED BY <3>1, <3>2
    <2>4. la <= lb /\ lb <= 2 * p /\ 2 * p < 2 * la
      BY <1>4, <1>5, <1>6, <2>1
    <2>5. Alike(t, s, 2 * p)
      BY <2>2, <2>3, <2>4 DEF Alike, la, lb
    <2> QED BY <2>5
  <1> QED BY <1>10, <1>11

(* The levels of a tree of height h, which ends in its root.               *)
Climbs(f, s, h) ==
    /\ h \in Nat \ {0} /\ f[1] = s /\ Len(f[h]) = 1
    /\ \A n \in 1..(h - 1) : Len(f[n]) > 1 /\ f[n + 1] = NextLevel(f[n])

(* The recursion that BuildMerkleTree climbs the levels with.              *)
LevelOf(f, n, s) ==
    IF n = 1 THEN s
    ELSE IF Len(f[n - 1]) <= 1 THEN f[n - 1]
    ELSE NextLevel(f[n - 1])

IsLevels(f, s, k) == f = [n \in 1..k |-> LevelOf(f, n, s)]

(* There is a function of the recursion.                                   *)
LEMMA LevelsExist ==
    ASSUME NEW s, NEW k \in Nat PROVE \E f : IsLevels(f, s, k)
  <1> DEFINE S == {j \in Nat : \E f : IsLevels(f, s, j)}
  <1>1. 0 \in S
    <2>1. IsLevels([n \in 1..0 |-> s], s, 0)
      BY DEF IsLevels
    <2> QED BY <2>1
  <1>2. ASSUME NEW j \in Nat, j \in S PROVE j + 1 \in S
    <2>1. PICK f : IsLevels(f, s, j)
      BY <1>2
    <2> DEFINE g == [n \in 1..(j + 1) |-> IF n <= j THEN f[n] ELSE LevelOf(f, n, s)]
    <2>2. ASSUME NEW n \in 1..(j + 1) PROVE g[n] = LevelOf(g, n, s)
      <3>1. g[n] = LevelOf(f, n, s)
        <4>1. CASE n <= j
          BY <2>1, <4>1 DEF IsLevels
        <4>2. CASE ~(n <= j)
          BY <4>2
        <4> QED BY <4>1, <4>2
      <3>2. n # 1 => g[n - 1] = f[n - 1]
        <4>1. n # 1 => n - 1 \in 1..(j + 1) /\ n - 1 <= j
          OBVIOUS
        <4> QED BY <4>1
      <3> HIDE DEF g
      <3> QED BY <3>1, <3>2 DEF LevelOf
    <2>3. g = [n \in 1..(j + 1) |-> g[n]]
      OBVIOUS
    <2> HIDE DEF g
    <2>4. IsLevels(g, s, j + 1)
      BY <2>2, <2>3 DEF IsLevels
    <2> QED BY <2>4
  <1> HIDE DEF S
  <1>3. k \in S
    BY <1>1, <1>2, Induction
  <1> QED BY <1>3 DEF S

(* The numbers from 1 on: 1, and the greater ones.                         *)
LEMMA OneOrMore ==
    ASSUME NEW x \in Nat, x >= 1
    PROVE  (x = 1 \/ x > 1) /\ (x <= 1 => x = 1) /\ ~(x > 1 /\ x <= 1)
  OBVIOUS

(* A level becomes shorter until it is a single node.                      *)
LEMMA LevelsShrink ==
    ASSUME NEW V, NEW s \in Seq(V), s # <<>>, NEW f, IsLevels(f, s, Len(s) + 1)
    PROVE  \E h \in 1..Len(s) : /\ Climbs(f, s, h)
                                /\ \A n \in 1..(h - 1) : Len(f[n]) > 1
  <1> DEFINE l == Len(s)
             Fits(n) == /\ \E W : f[n] \in Seq(W)
                        /\ Len(f[n]) >= 1 /\ (Len(f[n]) = 1 \/ Len(f[n]) <= l + 1 - n)
             S == {k \in Nat : k + 1 <= l + 1 => Fits(k + 1)}
             Ends == {n \in 1..l : Len(f[n]) = 1}
  <1>1. l \in Nat /\ l >= 1
    <2>1. Len(s) \in Nat /\ Len(s) # 0
      OBVIOUS
    <2> QED BY <2>1
  <1>2. \A n \in 1..(l + 1) : f[n] = LevelOf(f, n, s)
    BY DEF IsLevels
  <1> HIDE DEF l
  <1>3. f[1] = s /\ Len(f[1]) = l
    BY <1>1, <1>2 DEF LevelOf, l
  <1>4. 0 \in S
    <2>1. Fits(1)
      BY <1>1, <1>3
    <2> QED BY <2>1
  <1>5. ASSUME NEW n \in 1..l
        PROVE  f[n + 1] = IF Len(f[n]) <= 1 THEN f[n] ELSE NextLevel(f[n])
    <2>1. n + 1 \in 1..(l + 1) /\ n + 1 # 1 /\ (n + 1) - 1 = n
      BY <1>1
    <2> QED BY <1>2, <2>1 DEF LevelOf
  <1>6. ASSUME NEW n \in 1..l, Fits(n) PROVE Fits(n + 1)
    <2>1. PICK W : f[n] \in Seq(W)
      BY <1>6
    <2>2. Len(f[n]) \in Nat
      BY <2>1
    <2>3. CASE Len(f[n]) <= 1
      <3>1. f[n + 1] = f[n] /\ Len(f[n]) >= 1
        BY <1>5, <1>6, <2>3
      <3>2. Len(f[n]) = 1
        BY <2>2, <2>3, <3>1, OneOrMore
      <3> QED BY <2>1, <3>1, <3>2
    <2>4. CASE ~(Len(f[n]) <= 1)
      <3>1. f[n + 1] = NextLevel(f[n])
        BY <1>5, <2>4
      <3>2. NextLevel(f[n]) \in Seq(Nodes(W)) /\ IsHalf(Len(NextLevel(f[n])), Len(f[n]))
        <4>1. Len(f[n]) >= 1
          BY <1>6
        <4> QED BY <2>1, <4>1, NextLevelFacts
      <3>3. Len(f[n + 1]) >= 1 /\ Len(f[n + 1]) <= Len(f[n]) - 1 /\ Len(f[n + 1]) \in Nat
        BY <2>2, <2>4, <3>1, <3>2 DEF IsHalf
      <3>4. Len(f[n]) <= l + 1 - n
        BY <1>6, <2>2, <2>4
      <3>5. Len(f[n + 1]) <= l + 1 - (n + 1)
        BY <1>1, <2>2, <3>3, <3>4
      <3> QED BY <3>1, <3>2, <3>3, <3>5
    <2> QED BY <2>3, <2>4
  <1> HIDE DEF Fits
  <1>7. ASSUME NEW k \in Nat, k \in S PROVE k + 1 \in S
    <2>1. ASSUME (k + 1) + 1 <= l + 1 PROVE Fits((k + 1) + 1)
      <3>1. k + 1 \in 1..l /\ k + 1 <= l + 1
        BY <1>1, <2>1
      <3> QED BY <1>6, <1>7, <3>1
    <2> QED BY <2>1
  <1> HIDE DEF S
  <1>8. ASSUME NEW n \in 1..l PROVE Fits(n)
    <2>1. n - 1 \in Nat /\ (n - 1) + 1 = n /\ n <= l + 1
      BY <1>1
    <2>2. n - 1 \in S
      BY <1>4, <1>7, <2>1, Induction
    <2> QED BY <2>1, <2>2 DEF S
  <1>9. ASSUME NEW n \in 1..l PROVE Len(f[n]) \in Nat /\ Len(f[n]) >= 1
    <2>1. PICK W : f[n] \in Seq(W)
      BY <1>8 DEF Fits
    <2> QED BY <1>8, <2>1 DEF Fits
  <1>10. l \in Ends
    <2>1. l \in 1..l /\ (l + 1) - l = 1
      BY <1>1
    <2>2. Len(f[l]) = 1 \/ Len(f[l]) <= 1
      BY <1>8, <2>1 DEF Fits
    <2>3. Len(f[l]) \in Nat /\ Len(f[l]) >= 1
      BY <1>9, <2>1
    <2>4. Len(f[l]) = 1
      BY <2>2, <2>3, OneOrMore
    <2> QED BY <2>1, <2>4
  <1>11. PICK h \in Ends : \A n \in Ends : h <= n
    <2>1. Ends \subseteq Nat /\ Ends # {}
      BY <1>1, <1>10
    <2> HIDE DEF Ends
    <2> QED BY <2>1, LeastElement
  <1>12. h \in 1..l /\ Len(f[h]) = 1
    BY <1>11
  <1>13. ASSUME NEW n \in 1..(h - 1) PROVE Len(f[n]) > 1 /\ f[n + 1] = NextLevel(f[n])
    <2>1. n \in 1..l /\ ~(h <= n)
      BY <1>1, <1>12
    <2>2. Len(f[n]) # 1
      BY <1>11, <2>1
    <2>3. Len(f[n]) > 1
      <3>1. Len(f[n]) \in Nat /\ Len(f[n]) >= 1
        BY <1>9, <2>1
      <3> QED BY <2>2, <3>1, OneOrMore
    <2>4. ~(Len(f[n]) <= 1)
      BY <1>9, <2>1, <2>3
    <2> QED BY <1>5, <2>1, <2>3, <2>4
  <1>14. Climbs(f, s, h)
    BY <1>1, <1>3, <1>12, <1>13 DEF Climbs
  <1> QED BY <1>12, <1>13, <1>14 DEF l

(* The root is where a climb from the ids ends.                            *)
LEMMA RootFacts ==
    ASSUME NEW V, NEW s \in Seq(V), s # <<>>
    PROVE  \E f, h : Climbs(f, s, h) /\ BuildMerkleRoot(s) = f[h][1]
  <1> DEFINE l == Len(s)
             f == CHOOSE f : IsLevels(f, s, l + 1)
             height == CHOOSE n \in 1..l : /\ Len(f[n]) = 1
                                           /\ \A m \in 1..(n - 1) : Len(f[m]) > 1
             tree == [n \in 1..height |-> f[n]]
  <1>1. l \in Nat /\ l + 1 \in Nat
    OBVIOUS
  <1>2. IsLevels(f, s, l + 1)
    <2>1. \E g : IsLevels(g, s, l + 1)
      <3> HIDE DEF l
      <3> QED BY <1>1, LevelsExist
    <2> HIDE DEF l
    <2> QED BY <2>1
  <1>3. BuildMerkleTree(s) = tree
    BY DEF BuildMerkleTree, IsLevels, LevelOf
  <1> HIDE DEF f
  <1>4. PICK h \in 1..l : Climbs(f, s, h)
    BY <1>2, LevelsShrink
  <1>5. /\ height \in 1..l /\ Len(f[height]) = 1
        /\ \A m \in 1..(height - 1) : Len(f[m]) > 1
    <2>1. h \in 1..l /\ Len(f[h]) = 1 /\ \A m \in 1..(h - 1) : Len(f[m]) > 1
      BY <1>4 DEF Climbs
    <2> QED BY <2>1
  <1> HIDE DEF height
  <1>6. height = h
    <2>1. ~(height < h)
      <3>1. height < h => height \in 1..(h - 1)
        BY <1>1, <1>4, <1>5
      <3>2. \A n \in 1..(h - 1) : Len(f[n]) > 1
        BY <1>4 DEF Climbs
      <3>3. ~(Len(f[height]) > 1)
        BY <1>5
      <3> QED BY <3>1, <3>2, <3>3
    <2>2. ~(h < height)
      <3>1. h < height => h \in 1..(height - 1)
        BY <1>1, <1>4, <1>5
      <3>2. ~(Len(f[h]) > 1)
        BY <1>4 DEF Climbs
      <3> QED BY <1>5, <3>1, <3>2
    <2> QED BY <1>1, <1>4, <1>5, <2>1, <2>2
  <1>7. Last(tree) = f[h]
    <2>1. Len(tree) = h /\ h \in 1..h
      BY <1>1, <1>4, <1>6
    <2> QED BY <1>6, <2>1 DEF Last
  <1>8. BuildMerkleRoot(s) = f[h][1]
    BY <1>3, <1>7 DEF BuildMerkleRoot
  <1> QED BY <1>4, <1>8

(* The nodes of each height, over the ids in T.                            *)
IsTower(N, T, m) == N[0] = T /\ \A i \in 0..(m - 1) : N[i + 1] = Nodes(N[i])

(* There are nodes of each height.                                         *)
LEMMA TowerExists ==
    ASSUME NEW T, NEW m \in Nat PROVE \E N : IsTower(N, T, m)
  <1> DEFINE S == {j \in Nat : \E N : IsTower(N, T, j)}
  <1>1. 0 \in S
    <2>1. IsTower([i \in 0..0 |-> T], T, 0)
      BY DEF IsTower
    <2> QED BY <2>1
  <1>2. ASSUME NEW j \in Nat, j \in S PROVE j + 1 \in S
    <2>1. PICK N : IsTower(N, T, j)
      BY <1>2
    <2> DEFINE M == [i \in 0..(j + 1) |-> IF i <= j THEN N[i] ELSE Nodes(N[j])]
    <2>2. M[0] = T /\ M[j] = N[j] /\ M[j + 1] = Nodes(N[j])
      <3>1. 0 \in 0..(j + 1) /\ 0 <= j /\ j \in 0..(j + 1) /\ j + 1 \in 0..(j + 1) /\ ~(j + 1 <= j)
        OBVIOUS
      <3> QED BY <2>1, <3>1 DEF IsTower
    <2>3. ASSUME NEW i \in 0..(j - 1) PROVE M[i + 1] = Nodes(M[i])
      <3>1. i \in 0..(j + 1) /\ i <= j /\ i + 1 \in 0..(j + 1) /\ i + 1 <= j
        OBVIOUS
      <3>2. M[i] = N[i] /\ M[i + 1] = N[i + 1]
        BY <3>1
      <3>3. N[i + 1] = Nodes(N[i])
        BY <2>1 DEF IsTower
      <3> HIDE DEF M
      <3> QED BY <3>2, <3>3
    <2> HIDE DEF M
    <2>4. ASSUME NEW i \in 0..((j + 1) - 1) PROVE M[i + 1] = Nodes(M[i])
      <3>1. i \in 0..(j - 1) \/ i = j
        OBVIOUS
      <3> QED BY <2>2, <2>3, <3>1
    <2>5. IsTower(M, T, j + 1)
      BY <2>2, <2>4 DEF IsTower
    <2> QED BY <2>5
  <1> HIDE DEF S
  <1>3. m \in S
    BY <1>1, <1>2, Induction
  <1> QED BY <1>3 DEF S

(* Every node is as long as a hash if the ids are.                         *)
LEMMA TowerLong ==
    ASSUME NEW T, AllLong(T), NEW m \in Nat, NEW N, IsTower(N, T, m), NEW i \in 0..m
    PROVE  AllLong(N[i])
  <1>1. CASE i = 0
    BY <1>1 DEF IsTower
  <1>2. CASE i # 0
    <2>1. i - 1 \in 0..(m - 1) /\ (i - 1) + 1 = i
      BY <1>2
    <2>2. N[i] = Nodes(N[i - 1])
      BY <2>1 DEF IsTower
    <2> QED BY <2>2, NodesLong
  <1> QED BY <1>1, <1>2

(* No node has two heights.                                                *)
LEMMA TowerFloors ==
    ASSUME NEW T, \A x \in T : Unhashed(x), AllLong(T), NEW m \in Nat, NEW N, IsTower(N, T, m),
           NEW i \in 0..m, NEW j \in 0..m, i < j, NEW x \in N[i]
    PROVE  x \notin N[j]
  <1> DEFINE Apart(k) == \A l \in 0..m : k < l => \A y \in N[k] : y \notin N[l]
             S == {k \in Nat : k <= m => Apart(k)}
  <1>1. ASSUME NEW l \in 0..m, l > 0
        PROVE  l - 1 \in 0..m /\ N[l] = Nodes(N[l - 1])
    <2>1. l - 1 \in 0..(m - 1) /\ (l - 1) + 1 = l
      BY <1>1
    <2> QED BY <2>1 DEF IsTower
  <1>2. 0 \in S
    <2>1. ASSUME NEW l \in 0..m, 0 < l, NEW y \in N[0], y \in N[l] PROVE FALSE
      <3>1. y \in Nodes(N[l - 1])
        BY <1>1, <2>1
      <3>2. PICK u \in N[l - 1], v \in N[l - 1] : y = DoubleHash(u, v)
        BY <3>1 DEF Nodes
      <3>3. Unhashed(y)
        BY <2>1 DEF IsTower
      <3>4. Long(u) /\ Long(v)
        <4>1. l - 1 \in 0..m
          BY <1>1, <2>1
        <4>2. AllLong(N[l - 1])
          BY <4>1, TowerLong
        <4> QED BY <4>2 DEF AllLong
      <3> QED BY <3>2, <3>3, <3>4 DEF Unhashed
    <2> QED BY <2>1
  <1>3. ASSUME NEW k \in Nat, k \in S PROVE k + 1 \in S
    <2>1. ASSUME k + 1 <= m, NEW l \in 0..m, k + 1 < l, NEW y \in N[k + 1], y \in N[l]
          PROVE  FALSE
      <3>1. y \in Nodes(N[l - 1]) /\ l - 1 \in 0..m
        BY <1>1, <2>1
      <3>2. y \in Nodes(N[k])
        <4>1. k + 1 \in 0..m /\ k + 1 > 0 /\ (k + 1) - 1 = k
          BY <2>1
        <4> QED BY <1>1, <2>1, <4>1
      <3>3. PICK u \in N[l - 1], v \in N[l - 1] : y = DoubleHash(u, v)
        BY <3>1 DEF Nodes
      <3>4. PICK w \in N[k], z \in N[k] : y = DoubleHash(w, z)
        BY <3>2 DEF Nodes
      <3>5. Long(u) /\ Long(v) /\ Long(w) /\ Long(z)
        <4>1. k \in 0..m
          BY <2>1
        <4>2. AllLong(N[l - 1]) /\ AllLong(N[k])
          BY <3>1, <4>1, TowerLong
        <4> QED BY <4>2 DEF AllLong
      <3>6. u = w
        <4>1. DoubleHash(u, v) = DoubleHash(w, z)
          BY <3>3, <3>4
        <4> QED BY ONLY <3>5, <4>1, SamePair
      <3>7. Apart(k) /\ k < l - 1
        BY <1>3, <2>1
      <3> QED BY <3>1, <3>6, <3>7
    <2> QED BY <2>1
  <1> HIDE DEF S
  <1>4. i \in S
    BY <1>2, <1>3, Induction
  <1> QED BY <1>4 DEF S

(* The nodes of a climb are of the heights of its levels.                  *)
LEMMA ClimbFloors ==
    ASSUME NEW T, NEW s \in Seq(T), NEW f, NEW h, Climbs(f, s, h),
           NEW m \in Nat, h <= m + 1, NEW N, IsTower(N, T, m)
    PROVE  \A n \in 1..h : f[n] \in Seq(N[n - 1])
  <1> DEFINE S == {k \in Nat : k + 1 <= h => f[k + 1] \in Seq(N[k])}
  <1>1. h \in Nat /\ f[1] = s /\ N[0] = T
    BY DEF Climbs, IsTower
  <1>2. 0 \in S
    BY <1>1
  <1>3. ASSUME NEW k \in Nat, k \in S PROVE k + 1 \in S
    <2>1. ASSUME (k + 1) + 1 <= h PROVE f[(k + 1) + 1] \in Seq(N[k + 1])
      <3>1. k + 1 \in 1..(h - 1) /\ k \in 0..(m - 1) /\ k + 1 <= h
        BY <1>1, <2>1
      <3>2. f[k + 1] \in Seq(N[k]) /\ Len(f[k + 1]) > 1 /\ f[(k + 1) + 1] = NextLevel(f[k + 1])
        BY <1>3, <3>1 DEF Climbs
      <3>3. Len(f[k + 1]) >= 1
        BY <3>2
      <3>4. NextLevel(f[k + 1]) \in Seq(Nodes(N[k]))
        BY <3>2, <3>3, NextLevelFacts
      <3>5. N[k + 1] = Nodes(N[k])
        BY <3>1 DEF IsTower
      <3> QED BY <3>2, <3>4, <3>5
    <2> QED BY <2>1
  <1> HIDE DEF S
  <1>4. ASSUME NEW n \in 1..h PROVE f[n] \in Seq(N[n - 1])
    <2>1. n - 1 \in Nat /\ (n - 1) + 1 = n /\ n <= h
      BY <1>1
    <2>2. n - 1 \in S
      BY <1>2, <1>3, <2>1, Induction
    <2> QED BY <2>1, <2>2 DEF S
  <1> QED BY <1>4

(* Trees with one root have one height.                                    *)
LEMMA SameHeight ==
    ASSUME NEW T, \A x \in T : Unhashed(x), AllLong(T), NEW s \in Seq(T), NEW t \in Seq(T),
           NEW f, NEW h, Climbs(f, s, h), NEW g, NEW k, Climbs(g, t, k),
           f[h][1] = g[k][1]
    PROVE  h = k
  <1>1. h \in Nat \ {0} /\ k \in Nat \ {0} /\ Len(f[h]) = 1 /\ Len(g[k]) = 1
    BY DEF Climbs
  <1> DEFINE m == h + k
  <1>2. /\ m \in Nat /\ h <= m + 1 /\ k <= m + 1
        /\ h \in 1..h /\ k \in 1..k /\ h - 1 \in 0..m /\ k - 1 \in 0..m
    BY <1>1
  <1> HIDE DEF m
  <1>3. PICK N : IsTower(N, T, m)
    BY <1>2, TowerExists
  <1>4. f[h] \in Seq(N[h - 1]) /\ g[k] \in Seq(N[k - 1])
    BY <1>2, <1>3, ClimbFloors
  <1>5. f[h][1] \in N[h - 1] /\ g[k][1] \in N[k - 1]
    BY <1>1, <1>4
  <1>6. ~(h - 1 < k - 1)
    BY <1>2, <1>3, <1>5, TowerFloors
  <1>7. ~(k - 1 < h - 1)
    BY <1>2, <1>3, <1>5, TowerFloors
  <1> QED BY <1>1, <1>6, <1>7

(* A sequence whose elements are all in a set.                             *)
LEMMA SeqByPlaces ==
    ASSUME NEW S, NEW T, NEW s \in Seq(S), \A i \in 1..Len(s) : s[i] \in T
    PROVE  s \in Seq(T)
  OBVIOUS

(* Trees over lists of one length have one height.                         *)
LEMMA LevelSizes ==
    ASSUME NEW T, NEW s \in Seq(T), NEW t \in Seq(T), Len(s) = Len(t),
           NEW f, NEW h, Climbs(f, s, h), NEW g, NEW k, Climbs(g, t, k)
    PROVE  h <= k
  <1>1. h \in Nat \ {0} /\ k \in Nat \ {0} /\ Len(g[k]) = 1 /\ f[1] = s /\ g[1] = t
    BY DEF Climbs
  <1> DEFINE m == h + k
             S == {n \in Nat : n + 1 <= h /\ n + 1 <= k => Len(f[n + 1]) = Len(g[n + 1])}
  <1>2. m \in Nat /\ h <= m + 1 /\ k <= m + 1
    BY <1>1
  <1> HIDE DEF m
  <1>3. PICK N : IsTower(N, T, m)
    BY <1>2, TowerExists
  <1>4. /\ \A n \in 1..h : f[n] \in Seq(N[n - 1])
        /\ \A n \in 1..k : g[n] \in Seq(N[n - 1])
    BY <1>2, <1>3, ClimbFloors
  <1>5. 0 \in S
    BY <1>1
  <1>6. ASSUME NEW n \in Nat, n \in S PROVE n + 1 \in S
    <2>1. ASSUME (n + 1) + 1 <= h, (n + 1) + 1 <= k
          PROVE  Len(f[(n + 1) + 1]) = Len(g[(n + 1) + 1])
      <3>1. n + 1 \in 1..(h - 1) /\ n + 1 \in 1..(k - 1) /\ n + 1 \in 1..h /\ n + 1 \in 1..k
        BY <1>1, <2>1
      <3>2. /\ Len(f[n + 1]) > 1 /\ f[(n + 1) + 1] = NextLevel(f[n + 1])
            /\ Len(g[n + 1]) > 1 /\ g[(n + 1) + 1] = NextLevel(g[n + 1])
        BY <3>1 DEF Climbs
      <3>3. Len(f[n + 1]) = Len(g[n + 1])
        BY <1>6, <3>1
      <3>4. f[n + 1] \in Seq(N[(n + 1) - 1]) /\ g[n + 1] \in Seq(N[(n + 1) - 1])
        BY <1>4, <3>1
      <3>5. Len(f[n + 1]) \in Nat /\ Len(f[n + 1]) >= 1 /\ Len(g[n + 1]) >= 1
        BY <3>2, <3>4
      <3>6. IsHalf(Len(NextLevel(f[n + 1])), Len(f[n + 1]))
        BY <3>4, <3>5, NextLevelFacts
      <3>7. IsHalf(Len(NextLevel(g[n + 1])), Len(g[n + 1]))
        BY <3>4, <3>5, NextLevelFacts
      <3>8. Len(NextLevel(f[n + 1])) = Len(NextLevel(g[n + 1]))
        BY <3>3, <3>5, <3>6, <3>7 DEF IsHalf
      <3> QED BY <3>2, <3>8
    <2> QED BY <2>1
  <1> HIDE DEF S
  <1>7. ASSUME k < h PROVE FALSE
    <2>1. k - 1 \in Nat /\ (k - 1) + 1 = k /\ k \in 1..(h - 1)
      BY <1>1, <1>7
    <2>2. k - 1 \in S
      BY <1>5, <1>6, <2>1, Induction
    <2>3. Len(f[k]) = Len(g[k])
      <3>1. (k - 1) + 1 <= h /\ (k - 1) + 1 <= k
        BY <1>1, <1>7
      <3>2. Len(f[(k - 1) + 1]) = Len(g[(k - 1) + 1])
        BY <2>2, <3>1 DEF S
      <3> QED BY <2>1, <3>2
    <2>4. Len(f[k]) > 1
      BY <2>1 DEF Climbs
    <2> QED BY <1>1, <2>3, <2>4
  <1> QED BY <1>1, <1>7

(* Trees with one root have lists of ids that are alike.                   *)
LEMMA SameRoot ==
    ASSUME NEW T, AllLong(T), NEW s \in Seq(T), NEW t \in Seq(T),
           NEW f, NEW g, NEW h, Climbs(f, s, h), Climbs(g, t, h), f[h][1] = g[h][1]
    PROVE  \E p \in Nat : Alike(s, t, p) \/ Alike(t, s, p)
  <1> DEFINE Level(n) == \E p \in Nat : /\ Full(p)
                                        /\ \/ Alike(f[n], g[n], p)
                                           \/ Alike(g[n], f[n], p)
             S == {k \in Nat : k < h => Level(h - k)}
  <1>1. /\ h \in Nat \ {0} /\ f[1] = s /\ g[1] = t /\ Len(f[h]) = 1 /\ Len(g[h]) = 1
        /\ \A n \in 1..(h - 1) : /\ Len(f[n]) > 1 /\ f[n + 1] = NextLevel(f[n])
                                 /\ Len(g[n]) > 1 /\ g[n + 1] = NextLevel(g[n])
    BY DEF Climbs
  <1>2. PICK N : IsTower(N, T, h)
    BY <1>1, TowerExists
  <1>3. /\ \A n \in 1..h : f[n] \in Seq(N[n - 1])
        /\ \A n \in 1..h : g[n] \in Seq(N[n - 1])
    <2>1. h \in Nat /\ h <= h + 1
      BY <1>1
    <2>2. \A n \in 1..h : f[n] \in Seq(N[n - 1])
      BY <1>2, <2>1, ClimbFloors
    <2>3. \A n \in 1..h : g[n] \in Seq(N[n - 1])
      BY <1>2, <2>1, ClimbFloors
    <2> QED BY <2>2, <2>3
  <1>4. Level(h)
    <2>1. Full(1) /\ Alike(f[h], g[h], 1)
      BY <1>1 DEF Full, Alike
    <2> QED BY <2>1
  <1>5. ASSUME NEW n \in 1..(h - 1), Level(n + 1) PROVE Level(n)
    <2>1. PICK p \in Nat : /\ Full(p)
                           /\ \/ Alike(f[n + 1], g[n + 1], p)
                              \/ Alike(g[n + 1], f[n + 1], p)
      BY <1>5
    <2>2. /\ f[n] \in Seq(N[n - 1]) /\ Len(f[n]) > 1 /\ f[n + 1] = NextLevel(f[n])
          /\ g[n] \in Seq(N[n - 1]) /\ Len(g[n]) > 1 /\ g[n + 1] = NextLevel(g[n])
      <3>1. n \in 1..h
        BY <1>1
      <3> QED BY <1>1, <1>3, <3>1
    <2>7. AllLong(N[n - 1])
      <3>1. n - 1 \in 0..h /\ h \in Nat
        BY <1>1
      <3> QED BY <1>2, <3>1, TowerLong
    <2>3. ASSUME Alike(f[n + 1], g[n + 1], p)
          PROVE  Alike(f[n], g[n], 2 * p) \/ Alike(g[n], f[n], 2 * p)
      <3>1. Alike(NextLevel(f[n]), NextLevel(g[n]), p)
        BY <2>2, <2>3
      <3> QED BY <2>1, <2>2, <2>7, <3>1, AlikeBelow
    <2>4. ASSUME Alike(g[n + 1], f[n + 1], p)
          PROVE  Alike(f[n], g[n], 2 * p) \/ Alike(g[n], f[n], 2 * p)
      <3>1. Alike(NextLevel(g[n]), NextLevel(f[n]), p)
        BY <2>2, <2>4
      <3> QED BY <2>1, <2>2, <2>7, <3>1, AlikeBelow
    <2>5. Alike(f[n], g[n], 2 * p) \/ Alike(g[n], f[n], 2 * p)
      BY <2>1, <2>3, <2>4
    <2>6. 2 * p \in Nat /\ Full(2 * p)
      BY DEF Full
    <2> QED BY <2>5, <2>6
  <1> HIDE DEF Level
  <1>6. 0 \in S
    <2>1. h - 0 = h
      BY <1>1
    <2> QED BY <1>4, <2>1
  <1>7. ASSUME NEW k \in Nat, k \in S PROVE k + 1 \in S
    <2>1. ASSUME k + 1 < h PROVE Level(h - (k + 1))
      <3>1. h - (k + 1) \in 1..(h - 1) /\ (h - (k + 1)) + 1 = h - k /\ k < h
        BY <1>1, <2>1
      <3> QED BY <1>5, <1>7, <3>1
    <2> QED BY <2>1
  <1> HIDE DEF S
  <1>8. h - 1 \in S /\ h - (h - 1) = 1 /\ h - 1 < h
    <2>1. h - 1 \in Nat /\ h - (h - 1) = 1 /\ h - 1 < h
      BY <1>1
    <2> QED BY <1>6, <1>7, <2>1, Induction
  <1>9. Level(1)
    BY <1>8 DEF S
  <1> QED BY <1>1, <1>9 DEF Level

(* The ids of transactions are as long as a hash, and no hash of two nodes. *)
LEMMA IdFacts ==
    /\ AllLong(TransactionIds)
    /\ \A x \in TransactionIds : Unhashed(x)
  <1> SUFFICES ASSUME NEW content \in Content
               PROVE  Long(DoubleHashBytes(content)) /\ Unhashed(DoubleHashBytes(content))
    BY DEF TransactionIds, AllLong
  <1>1. Len(content) > 2
    BY MerkleAssumption
  <1>2. Long(DoubleHashBytes(content))
    BY DEF Long, DoubleHashBytes
  <1>3. DoubleHashBytes(content) # EmptyRoot
    <2>1. <<content>> # <<>>
      OBVIOUS
    <2> QED BY <2>1 DEF DoubleHashBytes, EmptyRoot
  <1>4. ASSUME NEW l, NEW r, Long(l), Long(r), DoubleHashBytes(content) = DoubleHash(l, r)
        PROVE  FALSE
    <2>1. << <<content>> >> = << << <<l[1], r[1]>> >> >>
      BY <1>4, DoubleHashFacts DEF DoubleHashBytes
    <2>2. content = <<l[1], r[1]>>
      BY <2>1
    <2>3. Len(content) = 2
      BY <2>2
    <2> QED BY <1>1, <2>3
  <1> QED BY <1>2, <1>3, <1>4 DEF Unhashed

(* The root of some ids of transactions is not that of none.               *)
LEMMA SomeRoot ==
    ASSUME NEW T, AllLong(T), \A x \in T : Unhashed(x), NEW s \in Seq(T), s # <<>>
    PROVE  BuildMerkleRoot(s) # EmptyRoot
  <1>1. PICK f, h : Climbs(f, s, h) /\ BuildMerkleRoot(s) = f[h][1]
    BY RootFacts
  <1>2. h \in Nat \ {0} /\ Len(f[h]) = 1
    BY <1>1 DEF Climbs
  <1>3. PICK N : IsTower(N, T, h)
    BY <1>2, TowerExists
  <1>4. f[h] \in Seq(N[h - 1])
    <2>1. h \in 1..h /\ h <= h + 1 /\ h \in Nat
      BY <1>2
    <2> QED BY <1>1, <1>3, <2>1, ClimbFloors
  <1>5. f[h][1] \in N[h - 1]
    BY <1>2, <1>4
  <1>6. CASE h = 1
    <2>1. f[h][1] \in T
      BY <1>3, <1>5, <1>6 DEF IsTower
    <2> QED BY <1>1, <2>1 DEF Unhashed
  <1>7. CASE h # 1
    <2>1. h - 2 \in 0..(h - 1) /\ (h - 2) + 1 = h - 1 /\ h - 2 \in 0..h
      BY <1>2, <1>7
    <2>2. PICK l \in N[h - 2], r \in N[h - 2] : f[h][1] = DoubleHash(l, r)
      BY <1>3, <1>5, <2>1 DEF IsTower, Nodes
    <2>3. f[h][1] = << <<l \o r>> >>
      BY <2>2 DEF DoubleHash, DoubleHashBytes
    <2>4. <<l \o r>> # <<>>
      OBVIOUS
    <2> QED BY <1>1, <2>3, <2>4 DEF EmptyRoot
  <1> QED BY <1>6, <1>7

(* A Merkle root tells the ids, up to repeats at the end: for lists of any *)
(* length over ids as long as a hash, of one length or of transactions     *)
(* (merkle.go).                                                            *)
THEOREM RootTells ==
    ASSUME NEW Piece, NEW ids \in Seq(Seq(Piece)), NEW lists \in SUBSET Seq(Seq(Piece))
    PROVE  RootTellsIds(ids, lists)
  <1> SUFFICES ASSUME NEW other \in Seq(Seq(Piece)), Comparable(ids, other),
                      BuildMerkleRoot(ids) = BuildMerkleRoot(other)
               PROVE  SameUpToRepeats(ids, other) \/ SameUpToRepeats(other, ids)
    BY DEF RootTellsIds
  <1> DEFINE U == {x \in Seq(Piece) : Len(x) = 1}
  <1>0. ids \in Seq(U) /\ other \in Seq(U) /\ AllLong(U)
    <2>1. ASSUME NEW s \in Seq(Seq(Piece)), LongAsHash(s) PROVE s \in Seq(U)
      <3>1. \A i \in 1..Len(s) : s[i] \in Seq(Piece) /\ Len(s[i]) = 1
        BY <2>1, ElementIn DEF LongAsHash
      <3>2. \A i \in 1..Len(s) : s[i] \in U
        BY <3>1
      <3> HIDE DEF U
      <3> QED BY <3>2, SeqByPlaces
    <2>2. \A x \in U : Long(x)
      BY DEF Long
    <2> QED BY <2>1, <2>2 DEF Comparable, AllLong
  <1> HIDE DEF U
  <1>1. Len(ids) = Len(other) \/ (ids \in Seq(TransactionIds) /\ other \in Seq(TransactionIds))
    <2>1. ASSUME NEW s \in Seq(Seq(Piece)), FromTransactions(s) PROVE s \in Seq(TransactionIds)
      BY <2>1 DEF FromTransactions
    <2> QED BY <2>1 DEF Comparable
  <1>2. ASSUME NEW s \in Seq(U), NEW t \in Seq(U), NEW p \in Nat, Alike(s, t, p)
        PROVE  SameUpToRepeats(s, t)
    <2>1. /\ Len(t) <= Len(s) /\ \A i \in 1..Len(t) : s[i] = t[i]
          /\ \A i \in (Len(t) + 1)..Len(s) :
                \E k \in 1..(Len(t) - 1) : i - k <= Len(t) /\ s[i] = s[i - k]
      BY <1>2 DEF Alike
    <2>2. IsPrefix(t, s)
      BY <2>1, PrefixFacts
    <2>3. 1..(Len(t) - 1) \subseteq 1..Len(t)
      OBVIOUS
    <2> QED BY <2>1, <2>2, <2>3 DEF SameUpToRepeats
  <1>3. CASE ids = <<>> \/ other = <<>>
    <2>1. BuildMerkleRoot(<<>>) = EmptyRoot
      BY DEF BuildMerkleRoot
    <2>2. ids = <<>> /\ other = <<>>
      <3>1. CASE Len(ids) = Len(other)
        BY <1>0, <1>3, <3>1
      <3>2. CASE ids \in Seq(TransactionIds) /\ other \in Seq(TransactionIds)
        BY <1>3, <2>1, <3>2, IdFacts, SomeRoot
      <3> QED BY <1>1, <3>1, <3>2
    <2>3. IsPrefix(ids, other)
      <3>1. Len(ids) <= Len(other) /\ \A k \in 1..Len(ids) : ids[k] = other[k]
        BY <2>2
      <3> QED BY <3>1, PrefixFacts
    <2>4. (Len(other) + 1)..Len(ids) = {}
      BY <2>2
    <2> QED BY <2>2, <2>3, <2>4 DEF SameUpToRepeats
  <1>4. CASE ids # <<>> /\ other # <<>>
    <2>1. PICK f, h : Climbs(f, ids, h) /\ BuildMerkleRoot(ids) = f[h][1]
      BY <1>4, RootFacts
    <2>2. PICK g, k : Climbs(g, other, k) /\ BuildMerkleRoot(other) = g[k][1]
      BY <1>4, RootFacts
    <2>3. h = k
      <3>1. f[h][1] = g[k][1]
        BY <2>1, <2>2
      <3>2. CASE Len(ids) = Len(other)
        <4>1. h <= k /\ k <= h
          BY <1>0, <2>1, <2>2, <3>2, LevelSizes
        <4>2. h \in Nat /\ k \in Nat
          BY <2>1, <2>2 DEF Climbs
        <4> QED BY <4>1, <4>2
      <3>3. CASE ids \in Seq(TransactionIds) /\ other \in Seq(TransactionIds)
        BY <2>1, <2>2, <3>1, <3>3, IdFacts, SameHeight
      <3> QED BY <1>1, <3>2, <3>3
    <2>4. \E p \in Nat : Alike(ids, other, p) \/ Alike(other, ids, p)
      <3>1. Climbs(g, other, h) /\ f[h][1] = g[h][1]
        BY <2>1, <2>2, <2>3
      <3> QED BY <1>0, <2>1, <3>1, SameRoot
    <2> QED BY <1>0, <1>2, <2>4
  <1> QED BY <1>3, <1>4

-----------------------------------------------------------------------------
(* The inputs of the runs, one theorem for each kind. *)

(* An input is never changed.                                              *)
LEMMA InputStays == InputSpec => [](input \in Inputs)
  <1>1. input \in Inputs /\ [InputNext]_input => (input \in Inputs)'
    BY DEF InputNext
  <1> QED BY <1>1, PTL DEF InputSpec

(* MinedIsAccepted, for any number of nonces, hashes and bits.             *)
THEOREM NewBlockIsAccepted == InputSpec => []MinedIsAccepted
  <1>1. input \in Inputs => MinedIsAccepted
    <2> SUFFICES ASSUME input \in Inputs, input.kind = "nonces"
                 PROVE  AcceptedIfFound(input.hash, input.bits)
      BY DEF MinedIsAccepted
    <2>1. input.hash \in Injection(Nonce, Hashes)
      BY DEF Inputs
    <2>2. IsInjective(input.hash) /\ DOMAIN input.hash = Nonce
      BY <2>1 DEF Injection
    <2> QED BY <2>2, FoundIsAccepted
  <1> QED BY <1>1, InputStays, PTL

(* DifficultyFollowsPace, for every interval, block time and limits.       *)
THEOREM DifficultyIsPaced == InputSpec => []DifficultyFollowsPace
  <1>1. input \in Inputs => DifficultyFollowsPace
    <2> SUFFICES ASSUME input \in Inputs, input.kind = "pace"
                 PROVE  FollowsPace(input.gap, input.first, Lengths)
      BY DEF DifficultyFollowsPace
    <2>1. input.gap \in Gaps /\ input.first \in MinBits..MaxBits
      BY DEF Inputs
    <2>2. input.gap \in Nat /\ Lengths \subseteq Nat \ {0}
      BY <2>1 DEF Gaps, Lengths
    <2> QED BY <2>1, <2>2, PaceIsFollowed
  <1> QED BY <1>1, InputStays, PTL

(* MerkleRootTellsIds, whatever pieces transactions and ids are made of.   *)
THEOREM RootsTellIds ==
    ASSUME NEW Piece, Ids \in SUBSET Seq(Seq(Piece))
    PROVE  InputSpec => []MerkleRootTellsIds
  <1>1. input \in Inputs => MerkleRootTellsIds
    <2> SUFFICES ASSUME input \in Inputs, input.kind = "ids"
                 PROVE  RootTellsIds(input.ids, Ids)
      BY DEF MerkleRootTellsIds
    <2>1. input.ids \in Ids
      BY DEF Inputs
    <2>2. input.ids \in Seq(Seq(Piece))
      BY <2>1
    <2> QED BY <2>2, RootTells
  <1> QED BY <1>1, InputStays, PTL
=============================================================================
