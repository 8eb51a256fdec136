---------------------------- MODULE LedgerProofs ----------------------------
(***************************************************************************)
(* Proofs about Ledger, for any addresses, amounts and bounds: the types,  *)
(* that VerifyTransaction reads no output that is not there, and that      *)
(* AddBlock fails halfway only over a conflict among the inputs it got,    *)
(* and that no id is confirmed twice where no index can shift.             *)
(* Then, where each payment is mined before the next is created: that the  *)
(* supply is conserved, that a block moves what it says, that no payment   *)
(* is dropped, and that a restart gives the same ledger.                   *)
(*                                                                         *)
(* An id is the content it is the hash of and so nests the ids its inputs  *)
(* name.  The invariant is therefore stated over a set I of ids whose      *)
(* inputs name ids of I, and grows I with each new transaction.            *)
(***************************************************************************)
EXTENDS Ledger, Facts

-----------------------------------------------------------------------------
(* The shared array. *)

(* An array keeps its length; its front is what was written over it.       *)
LEMMA OverwriteFacts ==
    ASSUME NEW S, NEW array \in Seq(S), NEW slice \in Seq(S), Len(slice) <= Len(array)
    PROVE  /\ Overwrite(array, slice) \in Seq(S)
           /\ Len(Overwrite(array, slice)) = Len(array)
           /\ \A k \in 1..Len(array) :
                 Overwrite(array, slice)[k] = IF k <= Len(slice) THEN slice[k] ELSE array[k]
  <1> DEFINE n == Len(slice)
             rest == SubSeq(array, n + 1, Len(array))
  <1>1. Len(array) \in Nat /\ n \in Nat /\ n \in 0..Len(array)
    OBVIOUS
  <1>2. /\ rest \in Seq(S) /\ Len(rest) = Len(array) - n
        /\ \A k \in 1..(Len(array) - n) : rest[k] = array[n + k]
    BY <1>1, RestFacts
  <1> HIDE DEF rest
  <1>3. /\ slice \o rest \in Seq(S) /\ Len(slice \o rest) = Len(array)
        /\ \A k \in 1..n : (slice \o rest)[k] = slice[k]
        /\ \A k \in 1..(Len(array) - n) : (slice \o rest)[n + k] = rest[k]
    BY <1>1, <1>2, ConcatFacts
  <1>4. ASSUME NEW k \in 1..Len(array)
        PROVE  (slice \o rest)[k] = IF k <= n THEN slice[k] ELSE array[k]
    <2>1. CASE k <= n
      BY <1>1, <1>3, <2>1
    <2>2. CASE ~(k <= n)
      <3> DEFINE j == k - n
      <3>1. j \in 1..(Len(array) - n) /\ n + j = k
        BY <1>1, <2>2
      <3> HIDE DEF j
      <3> QED BY <1>2, <1>3, <2>2, <3>1
    <2> QED BY <2>1, <2>2
  <1> QED BY <1>3, <1>4 DEF Overwrite, rest

-----------------------------------------------------------------------------
(* What the ids, the transactions and the UTXO set are made of.  An id is  *)
(* the content it is the hash of, and the inputs of one name others: I is  *)
(* the set of the ids there are so far.                                    *)

Labels == {NotCoinbase} \cup 0..(MaxHeight - 1)

InputsOver(I) == [tx : I, idx : Nat \ {0}, key : Addr]

IdsOver(I) == [ins : Seq(InputsOver(I)), outs : Seq(Output) \ {<<>>}, label : Labels]

TxsOver(I) ==
    {t \in [id : I, outs : Seq(Output), signed : Seq(Signature)] :
        Len(t.outs) = Len(t.id.outs) /\ Len(t.signed) = Len(t.id.ins)}

ChainsOver(I) == Seq(Seq(TxsOver(I)))

Entries == [outs : Seq(Output), home : Nat \X Nat]

SetsOver(I) == UNION {[D -> Entries] : D \in SUBSET I}

(* What is at a place of a chain.                                          *)
TxAt(c, p) == c[p[1]][p[2]]

(* An entry is not empty, and has no more outputs than were created.       *)
EntriesFit(u) ==
    /\ IsFiniteSet(DOMAIN u)
    /\ \A id \in DOMAIN u : Len(u[id].outs) >= 1 /\ Len(u[id].outs) <= Len(id.outs)

(* It is the front of the array it shares with the transaction it is of.   *)
Shares(u, c) ==
    \A id \in DOMAIN u :
        u[id].home # Nowhere =>
            /\ u[id].home \in PlacesIn(c)
            /\ TxAt(c, u[id].home).id = id
            /\ IsPrefix(u[id].outs, TxAt(c, u[id].home).outs)

(* Two chains that differ at most in the outputs their transactions show.  *)
SameShape(d, c) ==
    /\ Len(d) = Len(c)
    /\ \A h \in 1..Len(c) :
          /\ Len(d[h]) = Len(c[h])
          /\ \A i \in 1..Len(c[h]) :
                d[h][i].id = c[h][i].id /\ d[h][i].signed = c[h][i].signed

(* What the updates of a ledger with the chain c go through.               *)
WorldsOver(I, c) ==
    {w \in [ok : BOOLEAN, utxo : SetsOver(I), chain : ChainsOver(I)] :
        EntriesFit(w.utxo) /\ Shares(w.utxo, w.chain) /\ SameShape(w.chain, c)}

(* What it is to be a UTXO set over I.                                     *)
LEMMA SetFacts ==
    ASSUME NEW I, NEW u
    PROVE  u \in SetsOver(I) <=> DOMAIN u \in SUBSET I /\ u \in [DOMAIN u -> Entries]
  <1>1. ASSUME u \in SetsOver(I)
        PROVE  DOMAIN u \in SUBSET I /\ u \in [DOMAIN u -> Entries]
    <2>1. PICK D \in SUBSET I : u \in [D -> Entries]
      BY <1>1 DEF SetsOver
    <2>2. DOMAIN u = D
      BY <2>1
    <2> QED BY <2>1, <2>2
  <1>2. ASSUME DOMAIN u \in SUBSET I, u \in [DOMAIN u -> Entries]
        PROVE  u \in SetsOver(I)
    BY <1>2 DEF SetsOver
  <1> QED BY <1>1, <1>2

(* What a chain is made of.                                                *)
LEMMA ChainFacts ==
    ASSUME NEW I, NEW c \in ChainsOver(I)
    PROVE  /\ Len(c) \in Nat
           /\ \A h \in 1..Len(c) : c[h] \in Seq(TxsOver(I)) /\ Len(c[h]) \in Nat
           /\ \A h \in 1..Len(c) : \A i \in 1..Len(c[h]) : c[h][i] \in TxsOver(I)
           /\ \A p \in PlacesIn(c) : TxAt(c, p) \in TxsOver(I)
  <1>1. Len(c) \in Nat
    BY DEF ChainsOver
  <1>2. ASSUME NEW h \in 1..Len(c) PROVE c[h] \in Seq(TxsOver(I)) /\ Len(c[h]) \in Nat
    <2>1. c[h] \in Seq(TxsOver(I))
      BY ElementIn DEF ChainsOver
    <2> QED BY <2>1
  <1>3. ASSUME NEW h \in 1..Len(c), NEW i \in 1..Len(c[h])
        PROVE  c[h][i] \in TxsOver(I)
    BY <1>2, ElementIn
  <1>4. \A p \in PlacesIn(c) : TxAt(c, p) \in TxsOver(I)
    BY <1>3 DEF PlacesIn, TxAt
  <1> QED BY <1>1, <1>2, <1>3, <1>4

(* What a transaction over I is made of.                                   *)
LEMMA TxFacts ==
    ASSUME NEW I, I \subseteq IdsOver(I), NEW t \in TxsOver(I)
    PROVE  /\ t = [id |-> t.id, outs |-> t.outs, signed |-> t.signed]
           /\ t.id \in I
           /\ t.outs \in Seq(Output) /\ t.id.outs \in Seq(Output)
           /\ Len(t.outs) = Len(t.id.outs) /\ Len(t.outs) \in Nat /\ Len(t.outs) >= 1
           /\ t.id.ins \in Seq(InputsOver(I)) /\ t.signed \in Seq(Signature)
           /\ Len(t.signed) = Len(t.id.ins)
           /\ t.id.label \in Labels
  <1>1. /\ t = [id |-> t.id, outs |-> t.outs, signed |-> t.signed]
        /\ t.id \in I /\ t.outs \in Seq(Output) /\ t.signed \in Seq(Signature)
        /\ Len(t.outs) = Len(t.id.outs) /\ Len(t.signed) = Len(t.id.ins)
    BY DEF TxsOver
  <1>2. t.id \in IdsOver(I)
    BY <1>1
  <1>3. /\ t.id.ins \in Seq(InputsOver(I)) /\ t.id.outs \in Seq(Output) /\ t.id.outs # <<>>
        /\ t.id.label \in Labels
    BY <1>2 DEF IdsOver
  <1> QED BY <1>1, <1>3

(* The chain d is c with other outputs, as many, at the place p.           *)
Written(d, c, p, outs) ==
    /\ SameShape(d, c) /\ PlacesIn(d) = PlacesIn(c)
    /\ TxAt(d, p).outs = outs
    /\ \A q \in PlacesIn(c) : q # p => TxAt(d, q) = TxAt(c, q)

(* Writing as many outputs over those of one place gives such a chain.     *)
LEMMA WriteFacts ==
    ASSUME NEW I, NEW c \in ChainsOver(I), NEW p \in PlacesIn(c),
           NEW outs \in Seq(Output), Len(outs) = Len(TxAt(c, p).outs)
    PROVE  /\ [c EXCEPT ![p[1]][p[2]].outs = outs] \in ChainsOver(I)
           /\ Written([c EXCEPT ![p[1]][p[2]].outs = outs], c, p, outs)
  <1> DEFINE h == p[1]
             i == p[2]
             t == c[h][i]
             e == [t EXCEPT !.outs = outs]
             b == [c[h] EXCEPT ![i] = e]
             d == [c EXCEPT ![h] = b]
  <1>1. h \in 1..Len(c) /\ i \in 1..Len(c[h]) /\ p = <<h, i>> /\ TxAt(c, p) = t
    BY DEF PlacesIn, TxAt
  <1>2. c[h] \in Seq(TxsOver(I)) /\ t \in TxsOver(I) /\ c \in Seq(Seq(TxsOver(I)))
    BY <1>1, ChainFacts DEF ChainsOver
  <1>3. e \in TxsOver(I) /\ e.outs = outs /\ e.id = t.id /\ e.signed = t.signed
    <2> HIDE DEF t
    <2>1. Len(outs) = Len(t.outs)
      BY <1>1
    <2> QED BY <1>2, <2>1 DEF TxsOver
  <1>4. /\ b \in Seq(TxsOver(I)) /\ Len(b) = Len(c[h]) /\ b[i] = e
        /\ \A k \in 1..Len(c[h]) : k # i => b[k] = c[h][k]
    <2> HIDE DEF e, h, i
    <2> QED BY <1>1, <1>2, <1>3, ReplaceFacts
  <1>5. /\ d \in Seq(Seq(TxsOver(I))) /\ Len(d) = Len(c) /\ d[h] = b
        /\ \A k \in 1..Len(c) : k # h => d[k] = c[k]
    <2> HIDE DEF b, h
    <2> QED BY <1>1, <1>2, <1>4, ReplaceFacts
  <1>6. d = [c EXCEPT ![p[1]][p[2]].outs = outs]
    OBVIOUS
  <1> HIDE DEF d, b, e, t, h, i
  <1>7. \A k \in 1..Len(c) : Len(d[k]) = Len(c[k])
    BY <1>4, <1>5
  <1>8. SameShape(d, c)
    <2>1. ASSUME NEW k \in 1..Len(c), NEW j \in 1..Len(c[k])
          PROVE  d[k][j].id = c[k][j].id /\ d[k][j].signed = c[k][j].signed
      BY <1>3, <1>4, <1>5 DEF t
    <2> QED BY <1>5, <1>7, <2>1 DEF SameShape
  <1>9. PlacesIn(d) = PlacesIn(c)
    BY <1>5, <1>7 DEF PlacesIn
  <1>10. TxAt(d, p).outs = outs
    BY <1>1, <1>3, <1>4, <1>5 DEF TxAt, h, i
  <1>11. ASSUME NEW q \in PlacesIn(c), q # p PROVE TxAt(d, q) = TxAt(c, q)
    <2>1. q[1] \in 1..Len(c) /\ q[2] \in 1..Len(c[q[1]]) /\ q = <<q[1], q[2]>>
      BY DEF PlacesIn
    <2>2. q[1] # h \/ q[2] # i
      BY <1>1, <1>11, <2>1
    <2> QED BY <1>4, <1>5, <2>1, <2>2 DEF TxAt
  <1> QED BY <1>5, <1>6, <1>8, <1>9, <1>10, <1>11 DEF ChainsOver, Written

(* Chains of one shape have the same places, and the same ids there.       *)
LEMMA ShapeFacts ==
    ASSUME NEW c, NEW d, SameShape(d, c)
    PROVE  /\ PlacesIn(d) = PlacesIn(c)
           /\ \A p \in PlacesIn(c) : TxAt(d, p).id = TxAt(c, p).id
           /\ \A e : SameShape(e, d) => SameShape(e, c)
  <1>1. PlacesIn(d) = PlacesIn(c)
    BY DEF PlacesIn, SameShape
  <1>2. \A p \in PlacesIn(c) : TxAt(d, p).id = TxAt(c, p).id
    BY DEF PlacesIn, SameShape, TxAt
  <1>3. \A e : SameShape(e, d) => SameShape(e, c)
    BY DEF SameShape
  <1> QED BY <1>1, <1>2, <1>3

(* What a ledger under update is made of.                                  *)
LEMMA WorldFacts ==
    ASSUME NEW I, NEW c, NEW w \in WorldsOver(I, c)
    PROVE  /\ w = [ok |-> w.ok, utxo |-> w.utxo, chain |-> w.chain] /\ w.ok \in BOOLEAN
           /\ DOMAIN w.utxo \in SUBSET I /\ w.utxo \in [DOMAIN w.utxo -> Entries]
           /\ IsFiniteSet(DOMAIN w.utxo)
           /\ \A id \in DOMAIN w.utxo :
                 /\ w.utxo[id] \in Entries
                 /\ w.utxo[id].outs \in Seq(Output) /\ Len(w.utxo[id].outs) \in Nat
                 /\ Len(w.utxo[id].outs) >= 1 /\ Len(w.utxo[id].outs) <= Len(id.outs)
           /\ w.chain \in ChainsOver(I)
           /\ Shares(w.utxo, w.chain) /\ SameShape(w.chain, c)
  <1>1. w \in [ok : BOOLEAN, utxo : SetsOver(I), chain : ChainsOver(I)]
    BY DEF WorldsOver
  <1>2. EntriesFit(w.utxo) /\ Shares(w.utxo, w.chain) /\ SameShape(w.chain, c)
    BY DEF WorldsOver
  <1>3. DOMAIN w.utxo \in SUBSET I /\ w.utxo \in [DOMAIN w.utxo -> Entries]
    BY <1>1, SetFacts
  <1>4. ASSUME NEW id \in DOMAIN w.utxo
        PROVE  /\ w.utxo[id] \in Entries
               /\ w.utxo[id].outs \in Seq(Output) /\ Len(w.utxo[id].outs) \in Nat
    <2>1. w.utxo[id] \in Entries
      BY <1>3
    <2>2. w.utxo[id].outs \in Seq(Output)
      BY <2>1 DEF Entries
    <2> QED BY <2>1, <2>2
  <1> QED BY <1>1, <1>2, <1>3, <1>4 DEF EntriesFit

(* ... and what makes one.                                                 *)
LEMMA WorldIs ==
    ASSUME NEW I, NEW c, NEW ok \in BOOLEAN, NEW u, NEW d \in ChainsOver(I),
           DOMAIN u \in SUBSET I, u \in [DOMAIN u -> Entries],
           EntriesFit(u), Shares(u, d), SameShape(d, c)
    PROVE  [ok |-> ok, utxo |-> u, chain |-> d] \in WorldsOver(I, c)
  <1>1. u \in SetsOver(I)
    BY SetFacts
  <1> QED BY <1>1 DEF WorldsOver

(* The set v is u with other outputs for id; the entry goes with the last. *)
EntrySet(v, u, id, outs) ==
    /\ v \in [DOMAIN v -> Entries]
    /\ DOMAIN v = IF outs = <<>> THEN DOMAIN u \ {id} ELSE DOMAIN u
    /\ \A k \in DOMAIN v : k # id => v[k] = u[k]
    /\ id \in DOMAIN v => v[id].outs = outs /\ v[id].home = u[id].home

(* SetEntry sets the outputs of one entry, or takes the entry out.         *)
LEMMA SetEntryFacts ==
    ASSUME NEW u, u \in [DOMAIN u -> Entries], NEW id \in DOMAIN u, NEW outs \in Seq(Output)
    PROVE  EntrySet(SetEntry(u, id, outs), u, id, outs)
  <1> USE DEF EntrySet
  <1>1. CASE outs = <<>>
    <2>1. SetEntry(u, id, outs) = [k \in DOMAIN u \ {id} |-> u[k]]
      BY <1>1 DEF SetEntry, Restrict
    <2> QED BY <1>1, <2>1
  <1>2. CASE outs # <<>>
    <2>1. SetEntry(u, id, outs) = [u EXCEPT ![id].outs = outs]
      BY <1>2 DEF SetEntry
    <2>2. u[id] \in Entries /\ [u[id] EXCEPT !.outs = outs] \in Entries
      BY DEF Entries
    <2>3. /\ [u[id] EXCEPT !.outs = outs].outs = outs
          /\ [u[id] EXCEPT !.outs = outs].home = u[id].home
      BY <2>2 DEF Entries
    <2> DEFINE e == [u[id] EXCEPT !.outs = outs]
    <2>4. [u EXCEPT ![id].outs = outs] = [u EXCEPT ![id] = e]
      OBVIOUS
    <2> HIDE DEF e
    <2>5. [u EXCEPT ![id] = e] \in [DOMAIN u -> Entries]
      BY <2>2 DEF e
    <2> QED BY <1>2, <2>1, <2>3, <2>4, <2>5 DEF e
  <1> QED BY <1>1, <1>2

(* What a removal that finds its output does, and what it leaves.          *)
Removed(w, r, in) ==
    LET kept == RemoveAt(w.utxo[in.tx].outs, in.idx)
        home == w.utxo[in.tx].home
    IN  /\ r.ok = TRUE
        /\ DOMAIN r.utxo = IF kept = <<>> THEN DOMAIN w.utxo \ {in.tx} ELSE DOMAIN w.utxo
        /\ \A id \in DOMAIN r.utxo : id # in.tx => r.utxo[id] = w.utxo[id]
        /\ in.tx \in DOMAIN r.utxo =>
              r.utxo[in.tx].outs = kept /\ r.utxo[in.tx].home = home
        /\ home = Nowhere => r.chain = w.chain
        /\ home # Nowhere =>
              TxAt(r.chain, home).outs = Overwrite(TxAt(w.chain, home).outs, kept)
        /\ \A p \in PlacesIn(w.chain) : p # home => TxAt(r.chain, p) = TxAt(w.chain, p)

(* RemoveUTXO keeps a ledger a ledger; it does what Removed says, or fails.*)
LEMMA RemoveUTXOFacts ==
    ASSUME NEW I, NEW c, NEW w \in WorldsOver(I, c), NEW in, in.idx \in Nat \ {0}
    PROVE  /\ RemoveUTXO(w, in) \in WorldsOver(I, c)
           /\ ~w.ok \/ ~HasOutput(w.utxo, in) => RemoveUTXO(w, in) = [w EXCEPT !.ok = FALSE]
           /\ w.ok /\ HasOutput(w.utxo, in) => Removed(w, RemoveUTXO(w, in), in)
  <1>1. CASE ~w.ok \/ ~HasOutput(w.utxo, in)
    <2>1. RemoveUTXO(w, in) = [w EXCEPT !.ok = FALSE]
      BY <1>1 DEF RemoveUTXO
    <2>2. [w EXCEPT !.ok = FALSE] \in WorldsOver(I, c)
      BY DEF WorldsOver
    <2> QED BY <1>1, <2>1, <2>2
  <1>2. CASE w.ok /\ HasOutput(w.utxo, in)
    <2> DEFINE u == w.utxo
               outs == u[in.tx].outs
               home == u[in.tx].home
               kept == RemoveAt(outs, in.idx)
               old == TxAt(w.chain, home).outs
               new == Overwrite(old, kept)
               v == SetEntry(u, in.tx, kept)
               d == IF home = Nowhere THEN w.chain
                    ELSE [w.chain EXCEPT ![home[1]][home[2]].outs = new]
    <2>1. /\ DOMAIN u \in SUBSET I /\ u \in [DOMAIN u -> Entries] /\ IsFiniteSet(DOMAIN u)
          /\ \A id \in DOMAIN u :
                /\ u[id].outs \in Seq(Output) /\ Len(u[id].outs) \in Nat
                /\ Len(u[id].outs) >= 1 /\ Len(u[id].outs) <= Len(id.outs)
          /\ w.chain \in ChainsOver(I)
          /\ Shares(u, w.chain) /\ SameShape(w.chain, c)
      BY WorldFacts
    <2>2. /\ in.tx \in DOMAIN u /\ outs \in Seq(Output) /\ in.idx \in 1..Len(outs)
          /\ Len(outs) \in Nat /\ Len(outs) <= Len(in.tx.outs)
      <3>1. in.tx \in DOMAIN u /\ in.idx <= Len(outs)
        BY <1>2 DEF HasOutput
      <3> QED BY <2>1, <3>1
    <2>3. /\ kept \in Seq(Output) /\ Len(kept) = Len(outs) - 1
      BY <2>2, RemoveAtFacts
    <2>4. RemoveUTXO(w, in) = [ok |-> TRUE, utxo |-> v, chain |-> d]
      <3>1. w.chain[home[1]][home[2]].outs = old
        BY DEF TxAt
      <3>2. ~(~w.ok \/ ~HasOutput(w.utxo, in))
        BY <1>2
      <3>3. RemoveUTXO(w, in) =
              [ok |-> TRUE, utxo |-> v,
               chain |-> IF home = Nowhere THEN w.chain
                         ELSE [w.chain EXCEPT ![home[1]][home[2]].outs = Overwrite(@, kept)]]
        BY <3>2 DEF RemoveUTXO, Kept
      <3>4. [w.chain EXCEPT ![home[1]][home[2]].outs = Overwrite(@, kept)] =
            [w.chain EXCEPT ![home[1]][home[2]].outs = new]
        BY <3>1
      <3> QED BY <3>3, <3>4
    <2>5. /\ v \in [DOMAIN v -> Entries]
          /\ DOMAIN v = IF kept = <<>> THEN DOMAIN u \ {in.tx} ELSE DOMAIN u
          /\ \A k \in DOMAIN v : k # in.tx => v[k] = u[k]
          /\ in.tx \in DOMAIN v => v[in.tx].outs = kept /\ v[in.tx].home = home
      <3> HIDE DEF kept, u
      <3>1. u \in [DOMAIN u -> Entries] /\ in.tx \in DOMAIN u /\ kept \in Seq(Output)
        BY <2>1, <2>2, <2>3
      <3>2. EntrySet(v, u, in.tx, kept)
        BY <3>1, SetEntryFacts
      <3> QED BY <3>2 DEF EntrySet
    <2>6. home # Nowhere =>
            /\ home \in PlacesIn(w.chain) /\ TxAt(w.chain, home).id = in.tx
            /\ old \in Seq(Output) /\ Len(outs) <= Len(old)
      <3> SUFFICES ASSUME home # Nowhere
                   PROVE  /\ home \in PlacesIn(w.chain) /\ TxAt(w.chain, home).id = in.tx
                          /\ old \in Seq(Output) /\ Len(outs) <= Len(old)
        OBVIOUS
      <3>1. /\ home \in PlacesIn(w.chain) /\ TxAt(w.chain, home).id = in.tx
            /\ IsPrefix(outs, old)
        BY <2>1, <2>2 DEF Shares
      <3>2. TxAt(w.chain, home) \in TxsOver(I)
        BY <2>1, <3>1, ChainFacts
      <3>3. old \in Seq(Output)
        BY <3>2 DEF TxsOver
      <3> QED BY <3>1, <3>3 DEF IsPrefix
    <2>7. home # Nowhere =>
            /\ new \in Seq(Output) /\ Len(new) = Len(old)
            /\ IsPrefix(kept, new)
      <3> SUFFICES ASSUME home # Nowhere
                   PROVE  new \in Seq(Output) /\ Len(new) = Len(old) /\ IsPrefix(kept, new)
        OBVIOUS
      <3>1. Len(kept) <= Len(old) /\ Len(old) \in Nat /\ Len(kept) \in Nat
        BY <2>2, <2>3, <2>6
      <3> HIDE DEF old, kept
      <3>2. /\ new \in Seq(Output) /\ Len(new) = Len(old)
            /\ \A k \in 1..Len(old) : new[k] = IF k <= Len(kept) THEN kept[k] ELSE old[k]
        BY <2>3, <2>6, <3>1, OverwriteFacts
      <3> HIDE DEF new
      <3>3. Len(kept) <= Len(new) /\ \A k \in 1..Len(kept) : kept[k] = new[k]
        BY <3>1, <3>2
      <3> QED BY <2>3, <3>2, <3>3, PrefixFacts
    <2>8. /\ d \in ChainsOver(I) /\ SameShape(d, w.chain) /\ PlacesIn(d) = PlacesIn(w.chain)
          /\ home # Nowhere => TxAt(d, home).outs = new
          /\ \A p \in PlacesIn(w.chain) : p # home => TxAt(d, p) = TxAt(w.chain, p)
          /\ home = Nowhere => d = w.chain
      <3>1. CASE home = Nowhere
        <4>1. SameShape(w.chain, w.chain)
          BY DEF SameShape
        <4> QED BY <2>1, <3>1, <4>1
      <3>2. CASE home # Nowhere
        <4>1. d = [w.chain EXCEPT ![home[1]][home[2]].outs = new]
          BY <3>2
        <4> HIDE DEF d, new, old, home
        <4>2. home \in PlacesIn(w.chain) /\ new \in Seq(Output)
              /\ Len(new) = Len(TxAt(w.chain, home).outs)
          BY <2>6, <2>7, <3>2 DEF old
        <4>3. w.chain \in ChainsOver(I)
          BY <2>1
        <4> DEFINE e == [w.chain EXCEPT ![home[1]][home[2]].outs = new]
        <4>4. e \in ChainsOver(I) /\ Written(e, w.chain, home, new)
          BY <4>2, <4>3, WriteFacts
        <4> HIDE DEF e
        <4>5. d = e
          BY <4>1 DEF e
        <4> QED BY <3>2, <4>4, <4>5 DEF Written
      <3> QED BY <3>1, <3>2
    <2> HIDE DEF u, outs, home, kept, old, new, v, d
    <2>9. EntriesFit(v)
      <3>1. IsFiniteSet(DOMAIN v)
        <4>1. DOMAIN v \in SUBSET DOMAIN u
          BY <2>5
        <4> QED BY <2>1, <4>1, FS_Subset
      <3>2. ASSUME NEW id \in DOMAIN v
            PROVE  Len(v[id].outs) >= 1 /\ Len(v[id].outs) <= Len(id.outs)
        <4>1. CASE id # in.tx
          BY <2>1, <2>5, <4>1
        <4>2. CASE id = in.tx
          <5>1. v[id].outs = kept /\ kept # <<>>
            BY <2>5, <4>2
          <5>2. Len(kept) >= 1
            BY <2>3, <5>1
          <5>3. Len(kept) <= Len(in.tx.outs)
            BY <2>1, <2>2, <2>3
          <5> QED BY <4>2, <5>1, <5>2, <5>3
        <4> QED BY <4>1, <4>2
      <3> QED BY <3>1, <3>2 DEF EntriesFit
    <2>10. Shares(v, d)
      <3> SUFFICES ASSUME NEW id \in DOMAIN v, v[id].home # Nowhere
                   PROVE  /\ v[id].home \in PlacesIn(d)
                          /\ TxAt(d, v[id].home).id = id
                          /\ IsPrefix(v[id].outs, TxAt(d, v[id].home).outs)
        BY DEF Shares
      <3>1. \A p \in PlacesIn(w.chain) : TxAt(d, p).id = TxAt(w.chain, p).id
        BY <2>8, ShapeFacts
      <3>2. CASE id # in.tx
        <4>1. v[id] = u[id] /\ id \in DOMAIN u
          BY <2>5, <3>2
        <4>2. /\ u[id].home \in PlacesIn(w.chain) /\ TxAt(w.chain, u[id].home).id = id
              /\ IsPrefix(u[id].outs, TxAt(w.chain, u[id].home).outs)
          BY <2>1, <4>1 DEF Shares
        <4>3. u[id].home # home
          <5>1. CASE home = Nowhere
            BY <4>1, <5>1
          <5>2. CASE home # Nowhere
            BY <2>6, <3>2, <4>2, <5>2
          <5> QED BY <5>1, <5>2
        <4> QED BY <2>8, <3>1, <4>1, <4>2, <4>3
      <3>3. CASE id = in.tx
        <4>1. v[id].outs = kept /\ v[id].home = home /\ home # Nowhere
          BY <2>5, <3>3
        <4> QED BY <2>6, <2>7, <2>8, <3>1, <3>3, <4>1
      <3> QED BY <3>2, <3>3
    <2>11. [ok |-> TRUE, utxo |-> v, chain |-> d] \in WorldsOver(I, c)
      <3>1. SameShape(d, c)
        BY <2>1, <2>8, ShapeFacts
      <3>2. DOMAIN v \in SUBSET I
        BY <2>1, <2>5
      <3> QED BY <2>5, <2>8, <2>9, <2>10, <3>1, <3>2, WorldIs
    <2>12. Removed(w, [ok |-> TRUE, utxo |-> v, chain |-> d], in)
      BY <2>5, <2>8 DEF Removed, u, outs, home, kept, old, new
    <2> QED BY <1>2, <2>4, <2>11, <2>12
  <1> QED BY <1>1, <1>2

(* The ledgers, all in V, that the removal of the first n of a list of     *)
(* inputs goes through.                                                    *)
Removals(f, w, ins, n, V) ==
    /\ f \in [0..n -> V] /\ f[0] = w
    /\ \A k \in 1..n : f[k] = RemoveUTXO(f[k - 1], ins[k])

RemovesWithin(V, ins, n) == \A v \in V : \A k \in 1..n : RemoveUTXO(v, ins[k]) \in V

(* What AddBlock's loop over the inputs of a transaction goes through.     *)
LEMMA RemoveAll ==
    ASSUME NEW V, NEW w \in V, NEW ins, NEW n \in Nat, DOMAIN ins = 1..n,
           RemovesWithin(V, ins, n)
    PROVE  \E f : Removals(f, w, ins, n, V) /\ FoldLeft(RemoveUTXO, w, ins) = f[n]
  <1> DEFINE step == [p \in V \X (1..n) |-> RemoveUTXO(p[1], ins[p[2]])]
             ch == [T \in SUBSET (1..n) |-> Max(T)]
             Folds(g) == g = [T \in SUBSET (1..n) |->
                               IF T = {} THEN w
                               ELSE RemoveUTXO(g[T \ {Max(T)}], ins[Max(T)])]
             iter == CHOOSE g : Folds(g)
             Along(g) == /\ g \in [SUBSET (1..n) -> V] /\ g[1..0] = w
                         /\ \A k \in 1..n : g[1..k] = RemoveUTXO(g[1..(k - 1)], ins[k])
  <1>1. step \in [V \X (1..n) -> V]
    BY DEF RemovesWithin
  <1>2. IsFiniteSet(1..n) /\ \A T \in SUBSET (1..n) : T # {} => ch[T] \in T
    BY MaxIn, FirstNumbers DEF MaxGives
  <1>3. PICK g : IsFold(g, V, w, step, ch, 1..n)
    <2> HIDE DEF step, ch
    <2> QED BY <1>1, <1>2, FoldExists
  <1>4. Folds(g)
    <2>1. /\ g \in [SUBSET (1..n) -> V]
          /\ \A T \in SUBSET (1..n) :
                g[T] = IF T = {} THEN w ELSE step[<<g[T \ {ch[T]}], ch[T]>>]
      <3> HIDE DEF step, ch
      <3> QED BY <1>3 DEF IsFold
    <2>2. ASSUME NEW T \in SUBSET (1..n)
          PROVE  g[T] = IF T = {} THEN w ELSE RemoveUTXO(g[T \ {Max(T)}], ins[Max(T)])
      <3>1. CASE T = {}
        BY <2>1, <3>1
      <3>2. CASE T # {}
        <4>1. ch[T] = Max(T) /\ Max(T) \in 1..n /\ g[T \ {Max(T)}] \in V
          BY <1>2, <2>1, <3>2
        <4>2. g[T] = step[<<g[T \ {Max(T)}], Max(T)>>]
          <5> HIDE DEF step, ch
          <5> QED BY <2>1, <3>2, <4>1
        <4>3. step[<<g[T \ {Max(T)}], Max(T)>>] = RemoveUTXO(g[T \ {Max(T)}], ins[Max(T)])
          BY <4>1
        <4> QED BY <3>2, <4>2, <4>3
      <3> QED BY <3>1, <3>2
    <2> QED BY <2>1, <2>2
  <1>5. Folds(iter)
    BY <1>4
  <1>6. FoldLeft(RemoveUTXO, w, ins) = iter[1..n]
    BY DEF FoldLeft, MapThenFoldSet
  <1> HIDE DEF iter
  <1>7. \A T \in SUBSET (1..n) :
           iter[T] = IF T = {} THEN w ELSE RemoveUTXO(iter[T \ {Max(T)}], ins[Max(T)])
    BY <1>5
  <1>8. iter[1..0] = w
    BY <1>7, FirstNumbers
  <1>9. ASSUME NEW k \in 1..n PROVE iter[1..k] = RemoveUTXO(iter[1..(k - 1)], ins[k])
    <2>1. /\ 1..k \in SUBSET (1..n) /\ 1..k # {}
          /\ Max(1..k) = k /\ (1..k) \ {k} = 1..(k - 1)
      BY FirstNumbers
    <2>2. iter[1..k] = RemoveUTXO(iter[(1..k) \ {Max(1..k)}], ins[Max(1..k)])
      BY <1>7, <2>1
    <2> QED BY <2>1, <2>2
  <1> DEFINE S == {k \in Nat : k <= n => iter[1..k] \in V}
  <1>10. 0 \in S
    BY <1>8
  <1>11. ASSUME NEW k \in Nat, k \in S PROVE k + 1 \in S
    <2> SUFFICES ASSUME k + 1 <= n PROVE iter[1..(k + 1)] \in V
      OBVIOUS
    <2>1. k + 1 \in 1..n /\ (k + 1) - 1 = k /\ iter[1..k] \in V
      BY <1>11
    <2> QED BY <1>9, <2>1 DEF RemovesWithin
  <1> HIDE DEF S
  <1>12. \A k \in Nat : k \in S
    BY <1>10, <1>11, Induction
  <1>13. \A k \in 0..n : iter[1..k] \in V
    BY <1>12 DEF S
  <1> DEFINE f == [k \in 0..n |-> iter[1..k]]
  <1>14. f \in [0..n -> V] /\ f[0] = w /\ f[n] = iter[1..n]
    BY <1>8, <1>13
  <1>15. ASSUME NEW k \in 1..n PROVE f[k] = RemoveUTXO(f[k - 1], ins[k])
    <2>1. f[k] = iter[1..k] /\ f[k - 1] = iter[1..(k - 1)]
      OBVIOUS
    <2> QED BY <1>9, <2>1
  <1> HIDE DEF f
  <1> QED BY <1>6, <1>14, <1>15 DEF Removals

(* The body of that loop.                                                  *)
UpdateNext(w, at) == IF w.ok THEN Update(w, at) ELSE w

(* The ledgers, all in V, that the updates for the first n transactions of *)
(* block h go through.                                                     *)
Updates(f, w, h, n, V) ==
    /\ f \in [0..n -> V] /\ f[0] = w
    /\ \A k \in 1..n : f[k] = UpdateNext(f[k - 1], <<h, k>>)

UpdatesWithin(V, h, n) == \A v \in V : \A k \in 1..n : UpdateNext(v, <<h, k>>) \in V

(* What the loop over the transactions of block h goes through.            *)
LEMMA UpdateAll ==
    ASSUME NEW V, NEW w \in V, NEW h, NEW n \in Nat, DOMAIN w.chain[h] = 1..n,
           UpdatesWithin(V, h, n)
    PROVE  \E f : Updates(f, w, h, n, V) /\ UpdateBlock(w, h) = f[n]
  <1> DEFINE q == [i \in DOMAIN w.chain[h] |-> i]
             step == [p \in V \X (1..n) |-> UpdateNext(p[1], <<h, p[2]>>)]
             ch == [T \in SUBSET (1..n) |-> Max(T)]
             Folds(g) == g = [T \in SUBSET DOMAIN q |->
                               IF T = {} THEN w
                               ELSE UpdateNext(g[T \ {Max(T)}], <<h, q[Max(T)]>>)]
             iter == CHOOSE g : Folds(g)
             Along(g) == /\ g \in [SUBSET (1..n) -> V] /\ g[1..0] = w
                         /\ \A k \in 1..n : g[1..k] = UpdateNext(g[1..(k - 1)], <<h, k>>)
  <1>1. DOMAIN q = 1..n /\ \A T \in SUBSET (1..n) : T # {} => q[Max(T)] = Max(T)
    <2>1. DOMAIN q = 1..n /\ \A k \in 1..n : q[k] = k
      OBVIOUS
    <2> QED BY <2>1, MaxIn DEF MaxGives
  <1>2. step \in [V \X (1..n) -> V]
    BY DEF UpdatesWithin
  <1>3. IsFiniteSet(1..n) /\ \A T \in SUBSET (1..n) : T # {} => ch[T] \in T
    BY MaxIn, FirstNumbers DEF MaxGives
  <1>4. PICK g : IsFold(g, V, w, step, ch, 1..n)
    <2> HIDE DEF step, ch
    <2> QED BY <1>2, <1>3, FoldExists
  <1>5. Folds(g)
    <2>1. /\ g \in [SUBSET (1..n) -> V]
          /\ \A T \in SUBSET (1..n) :
                g[T] = IF T = {} THEN w ELSE step[<<g[T \ {ch[T]}], ch[T]>>]
      <3> HIDE DEF step, ch
      <3> QED BY <1>4 DEF IsFold
    <2>2. ASSUME NEW T \in SUBSET (1..n)
          PROVE  g[T] = IF T = {} THEN w ELSE UpdateNext(g[T \ {Max(T)}], <<h, Max(T)>>)
      <3>1. CASE T = {}
        BY <2>1, <3>1
      <3>2. CASE T # {}
        <4>1. ch[T] = Max(T) /\ Max(T) \in 1..n /\ g[T \ {Max(T)}] \in V
          BY <1>3, <2>1, <3>2
        <4>2. g[T] = step[<<g[T \ {Max(T)}], Max(T)>>]
          <5> HIDE DEF step, ch
          <5> QED BY <2>1, <3>2, <4>1
        <4>3. step[<<g[T \ {Max(T)}], Max(T)>>] = UpdateNext(g[T \ {Max(T)}], <<h, Max(T)>>)
          BY <4>1
        <4> QED BY <3>2, <4>2, <4>3
      <3> QED BY <3>1, <3>2
    <2>3. g = [T \in SUBSET (1..n) |-> g[T]]
      BY <2>1
    <2>4. g = [T \in SUBSET (1..n) |->
                IF T = {} THEN w ELSE UpdateNext(g[T \ {Max(T)}], <<h, q[Max(T)]>>)]
      <3> HIDE DEF q
      <3>1. \A T \in SUBSET (1..n) :
               g[T] = IF T = {} THEN w ELSE UpdateNext(g[T \ {Max(T)}], <<h, q[Max(T)]>>)
        BY <1>1, <2>2
      <3> QED BY <2>3, <3>1
    <2> HIDE DEF q
    <2> QED BY <1>1, <2>4
  <1>6. Folds(iter)
    BY ZenonT(60), <1>5
  <1>7. UpdateBlock(w, h) = iter[1..n]
    <2>1. UpdateBlock(w, h) = iter[DOMAIN q]
      BY DEF UpdateBlock, UpdateNext, FoldLeft, MapThenFoldSet
    <2> HIDE DEF iter, q
    <2> QED BY <1>1, <2>1
  <1> HIDE DEF iter
  <1>8. \A T \in SUBSET (1..n) :
           iter[T] = IF T = {} THEN w ELSE UpdateNext(iter[T \ {Max(T)}], <<h, Max(T)>>)
    <2> HIDE DEF q
    <2> QED BY <1>1, <1>6
  <1>9. iter[1..0] = w
    BY <1>8, FirstNumbers
  <1>10. ASSUME NEW k \in 1..n PROVE iter[1..k] = UpdateNext(iter[1..(k - 1)], <<h, k>>)
    <2>1. /\ 1..k \in SUBSET (1..n) /\ 1..k # {}
          /\ Max(1..k) = k /\ (1..k) \ {k} = 1..(k - 1)
      BY FirstNumbers
    <2>2. iter[1..k] = UpdateNext(iter[(1..k) \ {Max(1..k)}], <<h, Max(1..k)>>)
      BY <1>8, <2>1
    <2> QED BY <2>1, <2>2
  <1> DEFINE S == {k \in Nat : k <= n => iter[1..k] \in V}
  <1>11. 0 \in S
    BY <1>9
  <1>12. ASSUME NEW k \in Nat, k \in S PROVE k + 1 \in S
    <2> SUFFICES ASSUME k + 1 <= n PROVE iter[1..(k + 1)] \in V
      OBVIOUS
    <2>1. k + 1 \in 1..n /\ (k + 1) - 1 = k /\ iter[1..k] \in V
      BY <1>12
    <2> QED BY <1>10, <2>1 DEF UpdatesWithin
  <1> HIDE DEF S
  <1>13. \A k \in Nat : k \in S
    BY <1>11, <1>12, Induction
  <1>14. \A k \in 0..n : iter[1..k] \in V
    BY <1>13 DEF S
  <1> DEFINE f == [k \in 0..n |-> iter[1..k]]
  <1>15. f \in [0..n -> V] /\ f[0] = w /\ f[n] = iter[1..n]
    BY <1>9, <1>14
  <1>16. ASSUME NEW k \in 1..n PROVE f[k] = UpdateNext(f[k - 1], <<h, k>>)
    <2>1. f[k] = iter[1..k] /\ f[k - 1] = iter[1..(k - 1)]
      OBVIOUS
    <2> QED BY <1>10, <2>1
  <1> HIDE DEF f
  <1> QED BY <1>7, <1>15, <1>16 DEF Updates

(* What the outputs of the transaction at one place add.                   *)
Added(w, r, at) ==
    LET t == TxAt(w.chain, at)
    IN  /\ r.ok = w.ok /\ r.chain = w.chain
        /\ DOMAIN r.utxo = DOMAIN w.utxo \cup {t.id}
        /\ r.utxo[t.id].outs = t.outs /\ r.utxo[t.id].home = at
        /\ \A id \in DOMAIN w.utxo : id # t.id => r.utxo[id] = w.utxo[id]

(* AddUTXO puts the outputs that the block shows into the set.             *)
LEMMA AddUTXOFacts ==
    ASSUME NEW I, I \subseteq IdsOver(I), NEW c, NEW w \in WorldsOver(I, c),
           NEW at \in PlacesIn(w.chain)
    PROVE  LET t == TxAt(w.chain, at)
               r == AddUTXO(w, t.id, [outs |-> t.outs, home |-> at])
           IN  r \in WorldsOver(I, c) /\ Added(w, r, at)
  <1> DEFINE t == TxAt(w.chain, at)
             entry == [outs |-> t.outs, home |-> at]
             u == w.utxo
             v == [k \in DOMAIN u \cup {t.id} |-> IF k = t.id THEN entry ELSE u[k]]
             r == [w EXCEPT !.utxo = v]
  <1>1. /\ w = [ok |-> w.ok, utxo |-> u, chain |-> w.chain] /\ w.ok \in BOOLEAN
        /\ DOMAIN u \in SUBSET I /\ IsFiniteSet(DOMAIN u)
        /\ \A id \in DOMAIN u :
              u[id] \in Entries /\ Len(u[id].outs) >= 1 /\ Len(u[id].outs) <= Len(id.outs)
        /\ w.chain \in ChainsOver(I)
        /\ Shares(u, w.chain) /\ SameShape(w.chain, c)
    BY WorldFacts
  <1>2. t \in TxsOver(I)
    BY <1>1, ChainFacts
  <1>3. /\ t.id \in I /\ t.outs \in Seq(Output) /\ Len(t.outs) = Len(t.id.outs)
        /\ Len(t.outs) >= 1 /\ Len(t.outs) \in Nat
    <2> HIDE DEF t
    <2> QED BY <1>2, TxFacts
  <1>4. entry \in Entries /\ entry.outs = t.outs /\ entry.home = at
    <2>1. at \in Nat \X Nat
      BY DEF PlacesIn
    <2> HIDE DEF t
    <2> QED BY <1>3, <2>1 DEF Entries
  <1>5. AddUTXO(w, t.id, entry) = r
    BY DEF AddUTXO
  <1> HIDE DEF t, entry
  <1>6. /\ DOMAIN v = DOMAIN u \cup {t.id} /\ v[t.id] = entry
        /\ \A id \in DOMAIN u : id # t.id => v[id] = u[id]
    OBVIOUS
  <1> HIDE DEF u, v
  <1>7. DOMAIN v \in SUBSET I /\ v \in [DOMAIN v -> Entries]
    <2>1. v = [id \in DOMAIN v |-> v[id]]
      BY DEF v
    <2>2. \A id \in DOMAIN v : v[id] \in Entries
      BY <1>1, <1>4, <1>6
    <2>3. DOMAIN v \in SUBSET I
      BY <1>1, <1>3, <1>6
    <2> QED BY <2>1, <2>2, <2>3
  <1>8. EntriesFit(v)
    <2>1. IsFiniteSet(DOMAIN v)
      BY <1>1, <1>6, FS_AddElement
    <2>2. ASSUME NEW id \in DOMAIN v
          PROVE  Len(v[id].outs) >= 1 /\ Len(v[id].outs) <= Len(id.outs)
      <3>1. CASE id = t.id
        BY <1>3, <1>4, <1>6, <3>1
      <3>2. CASE id # t.id
        BY <1>1, <1>6, <3>2
      <3> QED BY <3>1, <3>2
    <2> QED BY <2>1, <2>2 DEF EntriesFit
  <1>9. Shares(v, w.chain)
    <2> SUFFICES ASSUME NEW id \in DOMAIN v, v[id].home # Nowhere
                 PROVE  /\ v[id].home \in PlacesIn(w.chain)
                        /\ TxAt(w.chain, v[id].home).id = id
                        /\ IsPrefix(v[id].outs, TxAt(w.chain, v[id].home).outs)
      BY DEF Shares
    <2>1. CASE id = t.id
      <3>1. v[id].outs = t.outs /\ v[id].home = at
        BY <1>4, <1>6, <2>1
      <3>2. IsPrefix(t.outs, t.outs)
        BY <1>3, PrefixFacts
      <3> QED BY <2>1, <3>1, <3>2 DEF t
    <2>2. CASE id # t.id
      BY <1>1, <1>6, <2>2 DEF Shares
    <2> QED BY <2>1, <2>2
  <1>10. r = [ok |-> w.ok, utxo |-> v, chain |-> w.chain]
    BY <1>1
  <1>11. r \in WorldsOver(I, c)
    <2> HIDE DEF r
    <2> QED BY <1>1, <1>7, <1>8, <1>9, <1>10, WorldIs
  <1>12. Added(w, r, at)
    BY <1>1, <1>4, <1>6, <1>10 DEF Added, t, u
  <1> QED BY <1>5, <1>11, <1>12 DEF t, entry

(* The update r of w for the transaction at one place.                     *)
UpdatedBy(w, r, at, V) ==
    LET ins == TxAt(w.chain, at).id.ins
    IN  \E f : /\ Removals(f, w, ins, Len(ins), V)
               /\ IF f[Len(ins)].ok THEN Added(f[Len(ins)], r, at) ELSE r = f[Len(ins)]

(* Update removes what its transaction spends, and then adds its outputs.  *)
LEMMA UpdateFacts ==
    ASSUME NEW I, I \subseteq IdsOver(I), NEW c, NEW w \in WorldsOver(I, c),
           NEW at \in PlacesIn(w.chain)
    PROVE  Update(w, at) \in WorldsOver(I, c) /\ UpdatedBy(w, Update(w, at), at, WorldsOver(I, c))
  <1> DEFINE V == WorldsOver(I, c)
             t == TxAt(w.chain, at)
             ins == t.id.ins
             n == Len(ins)
  <1>1. w.chain \in ChainsOver(I)
    BY WorldFacts
  <1>2. t \in TxsOver(I)
    BY <1>1, ChainFacts
  <1>3. ins \in Seq(InputsOver(I)) /\ t.id \in I
    <2> HIDE DEF t
    <2> QED BY <1>2, TxFacts
  <1> HIDE DEF t, ins
  <1>4. n \in Nat /\ DOMAIN ins = 1..n /\ \A k \in 1..n : ins[k].idx \in Nat \ {0}
    <2>1. \A k \in 1..n : ins[k] \in InputsOver(I)
      BY <1>3, ElementIn
    <2> QED BY <1>3, <2>1 DEF InputsOver
  <1>5. \A v \in V : \A k \in 1..n : RemoveUTXO(v, ins[k]) \in V
    BY <1>4, RemoveUTXOFacts
  <1> DEFINE spent == FoldLeft(RemoveUTXO, w, ins)
  <1>6. PICK f : Removals(f, w, ins, n, V) /\ spent = f[n]
    <2> HIDE DEF V, n
    <2>1. w \in V /\ RemovesWithin(V, ins, n)
      BY <1>5 DEF RemovesWithin, V
    <2> QED BY <1>4, <2>1, RemoveAll
  <1>7. Update(w, at) = IF spent.ok
                        THEN AddUTXO(spent, t.id, [outs |-> TxAt(spent.chain, at).outs, home |-> at])
                        ELSE spent
    BY DEF Update, TxAt, t, ins
  <1> HIDE DEF spent
  <1>8. spent \in V /\ at \in PlacesIn(spent.chain) /\ TxAt(spent.chain, at).id = t.id
    <2>1. spent \in V
      <3> HIDE DEF V
      <3> QED BY <1>4, <1>6 DEF Removals
    <2>2. SameShape(spent.chain, c) /\ SameShape(w.chain, c)
      BY <2>1, WorldFacts
    <2>3. PlacesIn(spent.chain) = PlacesIn(c) /\ PlacesIn(w.chain) = PlacesIn(c)
          /\ \A p \in PlacesIn(c) : /\ TxAt(spent.chain, p).id = TxAt(c, p).id
                                  /\ TxAt(w.chain, p).id = TxAt(c, p).id
      BY <2>2, ShapeFacts
    <2> QED BY <2>1, <2>3 DEF t
  <1>9. Removals(f, w, ins, Len(ins), V)
    BY <1>6
  <1>10. CASE spent.ok
    <2> DEFINE r == AddUTXO(spent, t.id, [outs |-> TxAt(spent.chain, at).outs, home |-> at])
    <2>1. r \in V /\ Added(spent, r, at)
      BY <1>8, AddUTXOFacts
    <2>2. Update(w, at) = r
      BY <1>7, <1>10
    <2> HIDE DEF r
    <2> QED BY <1>6, <1>9, <1>10, <2>1, <2>2 DEF UpdatedBy, ins, t
  <1>11. CASE ~spent.ok
    <2>1. Update(w, at) = spent
      BY <1>7, <1>11
    <2> QED BY <1>6, <1>8, <1>9, <1>11, <2>1 DEF UpdatedBy, ins, t
  <1> QED BY <1>10, <1>11

(* UpdateBlock is a sequence of updates, each within the ledgers over I.   *)
LEMMA UpdateBlockFacts ==
    ASSUME NEW I, I \subseteq IdsOver(I), NEW c, NEW w \in WorldsOver(I, c),
           NEW h \in 1..Len(c)
    PROVE  /\ UpdateBlock(w, h) \in WorldsOver(I, c)
           /\ \E f : /\ Updates(f, w, h, Len(w.chain[h]), WorldsOver(I, c))
                     /\ UpdateBlock(w, h) = f[Len(w.chain[h])]
  <1> DEFINE V == WorldsOver(I, c)
             n == Len(w.chain[h])
  <1>1. w.chain \in ChainsOver(I) /\ SameShape(w.chain, c)
    BY WorldFacts
  <1>2. Len(w.chain) = Len(c) /\ n \in Nat /\ DOMAIN w.chain[h] = 1..n
    <2>1. h \in 1..Len(w.chain) /\ Len(w.chain) = Len(c)
      BY <1>1 DEF SameShape
    <2>2. w.chain[h] \in Seq(TxsOver(I))
      BY <1>1, <2>1, ChainFacts
    <2> QED BY <2>1, <2>2, PlacesOfSeq
  <1>3. ASSUME NEW v \in V, NEW k \in 1..n PROVE UpdateNext(v, <<h, k>>) \in V
    <2>1. v.chain \in ChainsOver(I) /\ SameShape(v.chain, c)
      BY WorldFacts
    <2>2. <<h, k>> \in PlacesIn(w.chain)
      BY <1>1, <1>2, ChainFacts DEF PlacesIn
    <2>3. <<h, k>> \in PlacesIn(v.chain)
      BY <1>1, <2>1, <2>2, ShapeFacts
    <2>4. Update(v, <<h, k>>) \in V
      BY <2>3, UpdateFacts
    <2> QED BY <2>4 DEF UpdateNext
  <1> HIDE DEF V, n
  <1>4. w \in V
    BY DEF V
  <1>5. PICK f : Updates(f, w, h, n, V) /\ UpdateBlock(w, h) = f[n]
    <2>1. UpdatesWithin(V, h, n)
      BY <1>3 DEF UpdatesWithin
    <2> QED BY <1>2, <1>4, <2>1, UpdateAll
  <1>6. UpdateBlock(w, h) \in V
    BY <1>2, <1>5 DEF Updates
  <1> QED BY <1>5, <1>6 DEF V, n

-----------------------------------------------------------------------------
(* Confirmed transactions. *)

(* The confirmed transactions are those at the places of the chain.        *)
LEMMA ConfirmedFacts ==
    ASSUME NEW I, blocks \in ChainsOver(I)
    PROVE  /\ ChainTxs(blocks) \in Seq(TxsOver(I))
           /\ \A t : t \in Confirmed <=> \E p \in PlacesIn(blocks) : TxAt(blocks, p) = t
           /\ \A n \in DOMAIN ChainTxs(blocks) :
                 \E p \in PlacesIn(blocks) : ChainTxs(blocks)[n] = TxAt(blocks, p)
  <1> DEFINE txs == ChainTxs(blocks)
  <1>1. blocks \in Seq(Seq(TxsOver(I)))
    BY DEF ChainsOver
  <1>2. txs \in Seq(TxsOver(I)) /\ \E pos : Flattened(pos, blocks)
    BY <1>1, FlattenPlaces DEF ChainTxs
  <1>3. PICK pos : Flattened(pos, blocks)
    BY <1>2
  <1>4. /\ \A p \in PlacesIn(blocks) : pos[p] \in 1..Len(txs) /\ txs[pos[p]] = TxAt(blocks, p)
        /\ \A k \in 1..Len(txs) : \E p \in PlacesIn(blocks) : pos[p] = k
    BY <1>3 DEF Flattened, ChainTxs, TxAt
  <1> HIDE DEF txs
  <1>5. DOMAIN txs = 1..Len(txs)
    BY <1>2
  <1>6. \A n \in DOMAIN txs : \E p \in PlacesIn(blocks) : txs[n] = TxAt(blocks, p)
    BY <1>4, <1>5
  <1>7. ASSUME NEW t
        PROVE  t \in Confirmed <=> \E p \in PlacesIn(blocks) : TxAt(blocks, p) = t
    <2>1. t \in Confirmed <=> \E n \in DOMAIN txs : txs[n] = t
      BY DEF Confirmed, Range, txs
    <2>2. ASSUME NEW p \in PlacesIn(blocks) PROVE \E n \in DOMAIN txs : txs[n] = TxAt(blocks, p)
      BY <1>4, <1>5
    <2> QED BY <1>6, <2>1, <2>2
  <1> QED BY <1>2, <1>6, <1>7 DEF txs

(* The transaction of an id that is confirmed is found, at some place.     *)
LEMMA FindTransactionFacts ==
    ASSUME NEW I, blocks \in ChainsOver(I), NEW id,
           \E p \in PlacesIn(blocks) : TxAt(blocks, p).id = id
    PROVE  \E p \in PlacesIn(blocks) :
              FindTransaction(id) = TxAt(blocks, p) /\ TxAt(blocks, p).id = id
  <1> DEFINE txs == ChainTxs(blocks)
             T == {n \in DOMAIN txs : txs[n].id = id}
  <1>1. txs \in Seq(TxsOver(I))
    BY ConfirmedFacts
  <1>2. PICK q \in PlacesIn(blocks) : TxAt(blocks, q).id = id
    OBVIOUS
  <1>3. PICK k \in DOMAIN txs : txs[k] = TxAt(blocks, q)
    <2>1. TxAt(blocks, q) \in Confirmed
      BY ConfirmedFacts
    <2> QED BY <2>1 DEF Confirmed, Range
  <1>4. \A n \in DOMAIN txs : \E p \in PlacesIn(blocks) : txs[n] = TxAt(blocks, p)
    BY ConfirmedFacts
  <1> HIDE DEF txs
  <1>5. T \subseteq Nat /\ T # {}
    <2>1. DOMAIN txs \subseteq Nat
      BY <1>1
    <2> QED BY <1>2, <1>3, <2>1
  <1> HIDE DEF T
  <1>6. \E x \in T : \A y \in T : x <= y
    BY <1>5, LeastElement
  <1>7. Min(T) \in T
    BY <1>6 DEF Min
  <1>8. Min(T) \in DOMAIN txs /\ txs[Min(T)].id = id
    BY <1>7 DEF T
  <1>9. FindTransaction(id) = txs[Min(T)]
    BY DEF FindTransaction, T, txs
  <1> QED BY <1>4, <1>8, <1>9

-----------------------------------------------------------------------------
(* The inductive invariant. *)

(* An input names an output of a transaction that is confirmed.            *)
Names(c, in) ==
    /\ \E p \in PlacesIn(c) : TxAt(c, p).id = in.tx
    /\ in.idx \in 1..Len(in.tx.outs)

(* What the ledger is, when I is the set of the ids there are.             *)
LedgerOver(I) ==
    /\ I \subseteq IdsOver(I)
    /\ blocks \in ChainsOver(I) /\ Len(blocks) \in 1..MaxHeight
    /\ pending \in Seq(TxsOver(I)) /\ Len(pending) <= MaxPending
    /\ utxo \in SetsOver(I) /\ EntriesFit(utxo) /\ Shares(utxo, blocks)
    /\ \A k \in 1..Len(pending) : \A j \in 1..Len(pending[k].id.ins) :
          Names(blocks, pending[k].id.ins[j])

LedgerOK == \E I : LedgerOver(I)

(* What is over a set of ids is over any larger one.                       *)
LEMMA MoreIds ==
    ASSUME NEW I, NEW J, I \subseteq J
    PROVE  /\ IdsOver(I) \subseteq IdsOver(J)
           /\ TxsOver(I) \subseteq TxsOver(J)
           /\ ChainsOver(I) \subseteq ChainsOver(J)
           /\ SetsOver(I) \subseteq SetsOver(J)
           /\ Seq(TxsOver(I)) \subseteq Seq(TxsOver(J))
  <1>1. InputsOver(I) \subseteq InputsOver(J)
    BY DEF InputsOver
  <1>2. Seq(InputsOver(I)) \subseteq Seq(InputsOver(J))
    BY <1>1, SeqOfMore
  <1>3. IdsOver(I) \subseteq IdsOver(J)
    BY <1>2 DEF IdsOver
  <1>4. TxsOver(I) \subseteq TxsOver(J)
    BY DEF TxsOver
  <1>5. Seq(TxsOver(I)) \subseteq Seq(TxsOver(J))
    BY <1>4, SeqOfMore
  <1>6. ChainsOver(I) \subseteq ChainsOver(J)
    BY <1>5, SeqOfMore DEF ChainsOver
  <1>7. SetsOver(I) \subseteq SetsOver(J)
    BY DEF SetsOver
  <1> QED BY <1>3, <1>4, <1>5, <1>6, <1>7

(* What a coinbase is.                                                     *)
LEMMA CoinbaseFacts ==
    ASSUME LedgerAssumption, NEW to \in Addr, NEW label \in 0..(MaxHeight - 1), NEW I,
           Coinbase(to, label).id \in I
    PROVE  /\ Coinbase(to, label).id \in IdsOver(I)
           /\ Coinbase(to, label) \in TxsOver(I)
           /\ Coinbase(to, label).id.ins = <<>>
           /\ Coinbase(to, label).id.label = label
           /\ Coinbase(to, label).outs = Coinbase(to, label).id.outs
           /\ Coinbase(to, label).outs = <<[value |-> Reward, owner |-> to]>>
  <1> DEFINE out == [value |-> Reward, owner |-> to]
             t == Coinbase(to, label)
  <1>1. out \in Output
    BY DEF LedgerAssumption, Output
  <1> HIDE DEF out
  <1>2. <<out>> \in Seq(Output) /\ <<out>> # <<>>
    BY <1>1
  <1>3. /\ t = [id |-> t.id, outs |-> <<out>>, signed |-> <<>>]
        /\ t.id = [ins |-> <<>>, outs |-> <<out>>, label |-> label]
    BY DEF Coinbase, NewTx, Hash, out
  <1> HIDE DEF t
  <1>4. /\ t.id.ins = <<>> /\ t.id.outs = <<out>> /\ t.id.label = label
        /\ t.outs = <<out>> /\ t.signed = <<>>
    BY <1>3
  <1>5. t.id \in IdsOver(I)
    BY <1>2, <1>3 DEF IdsOver, Labels
  <1>6. t \in TxsOver(I)
    <2>1. t.id \in I
      BY DEF t
    <2>2. t \in [id : I, outs : Seq(Output), signed : Seq(Signature)]
      <3>1. <<>> \in Seq(Signature)
        BY EmptyIsSeq
      <3> DEFINE none == <<>>
      <3>2. [id |-> t.id, outs |-> <<out>>, signed |-> none] \in
              [id : I, outs : Seq(Output), signed : Seq(Signature)]
        <4> HIDE DEF none
        <4> QED BY <1>2, <2>1, <3>1 DEF none
      <3> QED BY <1>3, <3>2
    <2> QED BY <1>4, <2>2 DEF TxsOver
  <1> QED BY <1>4, <1>5, <1>6 DEF t, out

(* The ledger begins with the genesis block and its one output.            *)
LEMMA InitFacts ==
    ASSUME LedgerAssumption, Init
    PROVE  \E m \in Miners :
              LET t == Coinbase(m, 0)
              IN  /\ blocks = <<<<t>>>> /\ pending = <<>>
                  /\ {t.id} \subseteq IdsOver({t.id}) /\ blocks \in ChainsOver({t.id})
                  /\ utxo \in SetsOver({t.id}) /\ EntriesFit(utxo) /\ Shares(utxo, blocks)
                  /\ DOMAIN utxo = {t.id}
                  /\ utxo[t.id].outs = t.outs /\ utxo[t.id].home = <<1, 1>>
                  /\ UpdateBlock(World(<<>>, blocks), 1) = World(utxo, blocks)
  <1>1. PICK m \in Miners :
           /\ blocks = <<<<Coinbase(m, 0)>>>>
           /\ utxo = UpdateBlock(World(<<>>, <<<<Coinbase(m, 0)>>>>), 1).utxo
    BY DEF Init
  <1> DEFINE t == Coinbase(m, 0)
             I == {t.id}
             c == <<<<t>>>>
             w == World(<<>>, c)
             r == UpdateBlock(w, 1)
             V == WorldsOver(I, c)
  <1>2. /\ t.id \in IdsOver(I) /\ t \in TxsOver(I) /\ t.id.ins = <<>>
        /\ t.outs = t.id.outs
    <2>1. m \in Addr /\ 0 \in 0..(MaxHeight - 1) /\ t.id \in I
      BY DEF LedgerAssumption
    <2> HIDE DEF I
    <2> QED BY <2>1, CoinbaseFacts
  <1> HIDE DEF t
  <1>3. I \subseteq IdsOver(I)
    BY <1>2
  <1>4. c \in ChainsOver(I) /\ Len(c) = 1 /\ Len(c[1]) = 1 /\ c[1][1] = t
    <2>1. <<t>> \in Seq(TxsOver(I)) /\ Len(<<t>>) = 1 /\ <<t>>[1] = t
      BY <1>2
    <2> QED BY <2>1 DEF ChainsOver
  <1>5. <<1, 1>> \in PlacesIn(c) /\ TxAt(c, <<1, 1>>) = t
    <2> DEFINE p == <<1, 1>>
    <2>1. p \in Nat \X Nat /\ p[1] = 1 /\ p[2] = 1
      OBVIOUS
    <2> HIDE DEF p, c
    <2>2. p \in PlacesIn(c) /\ TxAt(c, p) = t
      BY <1>4, <2>1 DEF PlacesIn, TxAt
    <2> QED BY <2>2 DEF p
  <1> HIDE DEF c
  <1>6. w = [ok |-> TRUE, utxo |-> <<>>, chain |-> c] /\ w.ok /\ w.chain = c /\ w.utxo = <<>>
    BY DEF World
  <1>7. w \in V
    <2> DEFINE u == <<>>
    <2>1. DOMAIN u = {} /\ u \in [DOMAIN u -> Entries]
      OBVIOUS
    <2>2. EntriesFit(u) /\ Shares(u, c) /\ DOMAIN u \in SUBSET I
      BY <2>1, FS_EmptySet DEF EntriesFit, Shares
    <2>3. SameShape(c, c)
      BY DEF SameShape
    <2> HIDE DEF u
    <2>4. [ok |-> TRUE, utxo |-> u, chain |-> c] \in V
      BY <1>4, <2>1, <2>2, <2>3, WorldIs
    <2> QED BY <1>6, <2>4 DEF u
  <1> HIDE DEF w, I
  <1>8. /\ r \in V
        /\ \E f : /\ Updates(f, w, 1, Len(w.chain[1]), V)
                  /\ r = f[Len(w.chain[1])]
    <2>1. 1 \in 1..Len(c)
      BY <1>4
    <2> QED BY ZenonT(60), <1>3, <1>7, <2>1, UpdateBlockFacts
  <1>9. r = Update(w, <<1, 1>>)
    <2>1. PICK f : Updates(f, w, 1, Len(w.chain[1]), V) /\ r = f[Len(w.chain[1])]
      BY <1>8
    <2>2. f[0] = w /\ f[1] = UpdateNext(f[0], <<1, 1>>) /\ r = f[1]
      <3>1. Len(w.chain[1]) = 1 /\ 1 \in 1..1 /\ 1 - 1 = 0
        BY <1>4, <1>6
      <3> HIDE DEF V, r
      <3> QED BY <2>1, <3>1 DEF Updates
    <2> HIDE DEF r
    <2> QED BY <1>6, <2>2 DEF UpdateNext
  <1>10. UpdatedBy(w, r, <<1, 1>>, V)
    <2>1. <<1, 1>> \in PlacesIn(w.chain)
      BY <1>5, <1>6
    <2> HIDE DEF r
    <2> QED BY <1>3, <1>7, <1>9, <2>1, UpdateFacts
  <1> HIDE DEF r, V
  <1>11. Added(w, r, <<1, 1>>)
    <2>1. TxAt(w.chain, <<1, 1>>).id.ins = <<>> /\ Len(<<>>) = 0
      BY <1>2, <1>5, <1>6
    <2>2. PICK f : /\ Removals(f, w, <<>>, 0, V)
                   /\ IF f[0].ok THEN Added(f[0], r, <<1, 1>>) ELSE r = f[0]
      BY <1>10, <2>1 DEF UpdatedBy
    <2>3. f[0] = w
      BY <2>2 DEF Removals
    <2> QED BY <1>6, <2>2, <2>3
  <1>12. /\ r.chain = c /\ DOMAIN r.utxo = {t.id}
         /\ r.utxo[t.id].outs = t.outs /\ r.utxo[t.id].home = <<1, 1>>
    BY <1>5, <1>6, <1>11 DEF Added
  <1>13. /\ r.utxo \in SetsOver(I) /\ EntriesFit(r.utxo) /\ Shares(r.utxo, c)
    <2>1. /\ r \in [ok : BOOLEAN, utxo : SetsOver(I), chain : ChainsOver(I)]
          /\ EntriesFit(r.utxo) /\ Shares(r.utxo, r.chain)
      BY <1>8 DEF V, WorldsOver
    <2> QED BY <1>12, <2>1
  <1>14. utxo = r.utxo /\ blocks = c /\ pending = <<>>
    BY <1>1 DEF Init, r, w, c, t
  <1>17. UpdateBlock(World(<<>>, blocks), 1) = World(utxo, blocks)
    <2>1. r = [ok |-> r.ok, utxo |-> r.utxo, chain |-> r.chain]
      BY <1>8, WorldFacts DEF V
    <2>2. r.ok = TRUE /\ r.chain = c
      BY <1>6, <1>11, <1>12 DEF Added
    <2>3. r = UpdateBlock(World(<<>>, c), 1)
      BY DEF r, w
    <2> HIDE DEF r
    <2> QED BY <1>14, <2>1, <2>2, <2>3 DEF World
  <1>15. /\ blocks = <<<<t>>>> /\ I = {t.id}
    BY <1>14 DEF c, I
  <1>16. /\ blocks = <<<<t>>>> /\ pending = <<>>
         /\ {t.id} \subseteq IdsOver({t.id}) /\ blocks \in ChainsOver({t.id})
         /\ utxo \in SetsOver({t.id}) /\ EntriesFit(utxo) /\ Shares(utxo, blocks)
         /\ DOMAIN utxo = {t.id}
         /\ utxo[t.id].outs = t.outs /\ utxo[t.id].home = <<1, 1>>
         /\ UpdateBlock(World(<<>>, blocks), 1) = World(utxo, blocks)
    BY <1>3, <1>4, <1>12, <1>13, <1>14, <1>15, <1>17
  <1> QED BY <1>16 DEF t

(* The genesis block and its one entry make a ledger.                      *)
LEMMA InitOK == ASSUME LedgerAssumption, Init PROVE LedgerOK
  <1>1. PICK m \in Miners :
           LET t == Coinbase(m, 0)
           IN  /\ blocks = <<<<t>>>> /\ pending = <<>>
               /\ {t.id} \subseteq IdsOver({t.id}) /\ blocks \in ChainsOver({t.id})
               /\ utxo \in SetsOver({t.id}) /\ EntriesFit(utxo) /\ Shares(utxo, blocks)
    BY InitFacts
  <1> DEFINE I == {Coinbase(m, 0).id}
  <1>2. /\ I \subseteq IdsOver(I) /\ blocks \in ChainsOver(I) /\ Len(blocks) = 1
        /\ utxo \in SetsOver(I) /\ EntriesFit(utxo) /\ Shares(utxo, blocks)
        /\ pending = <<>>
    BY <1>1
  <1> HIDE DEF I
  <1>3. pending \in Seq(TxsOver(I)) /\ Len(pending) = 0
    BY <1>2, EmptyIsSeq
  <1>4. LedgerOver(I)
    BY <1>2, <1>3 DEF LedgerOver, LedgerAssumption
  <1> QED BY <1>4 DEF LedgerOK

-----------------------------------------------------------------------------
(* The block a caller has AddBlock build. *)

(* The ledger that the updates for a new block begin with.                 *)
Start(n, miner) == World(utxo, Append(blocks, Candidate(n, miner)))

(* A chain with one block more, as AddBlock's updates see it.              *)
Extended(J, c, n, miner) ==
    /\ J \subseteq IdsOver(J)
    /\ c \in ChainsOver(J) /\ Len(c) = Len(blocks) + 1
    /\ \A h \in 1..Len(blocks) : c[h] = blocks[h]
    /\ Len(c[Len(c)]) = n + 1
    /\ c[Len(c)][1] = Coinbase(miner, Len(blocks))
    /\ \A i \in 1..n : c[Len(c)][i + 1] = pending[i]
    /\ PlacesIn(blocks) \subseteq PlacesIn(c)
    /\ \A p \in PlacesIn(blocks) : TxAt(c, p) = TxAt(blocks, p)

(* AddBlock starts its updates on a ledger that ends in the candidate.     *)
LEMMA CandidateFacts ==
    ASSUME LedgerAssumption, NEW I, LedgerOver(I), NEW n \in 0..Len(pending),
           NEW miner \in Miners, Len(blocks) < MaxHeight
    PROVE  LET J == I \cup {Coinbase(miner, Len(blocks)).id}
               c == Append(blocks, Candidate(n, miner))
           IN  Extended(J, c, n, miner) /\ Start(n, miner) \in WorldsOver(J, c)
  <1> DEFINE new == Coinbase(miner, Len(blocks))
             J == I \cup {new.id}
             b == Candidate(n, miner)
             c == Append(blocks, b)
  <1>1. /\ I \subseteq IdsOver(I) /\ blocks \in ChainsOver(I) /\ Len(blocks) \in Nat
        /\ pending \in Seq(TxsOver(I)) /\ Len(blocks) >= 1
        /\ utxo \in SetsOver(I) /\ EntriesFit(utxo) /\ Shares(utxo, blocks)
    BY DEF LedgerOver
  <1>2. /\ IdsOver(I) \subseteq IdsOver(J) /\ TxsOver(I) \subseteq TxsOver(J)
        /\ ChainsOver(I) \subseteq ChainsOver(J) /\ SetsOver(I) \subseteq SetsOver(J)
        /\ Seq(TxsOver(I)) \subseteq Seq(TxsOver(J))
    <2>1. I \subseteq J
      OBVIOUS
    <2> HIDE DEF J
    <2> QED BY <2>1, MoreIds
  <1>3. new.id \in IdsOver(J) /\ new \in TxsOver(J)
    <2>1. miner \in Addr /\ Len(blocks) \in 0..(MaxHeight - 1) /\ new.id \in J
      BY <1>1 DEF LedgerAssumption
    <2> HIDE DEF J
    <2> QED BY <2>1, CoinbaseFacts
  <1>4. J \subseteq IdsOver(J)
    <2> HIDE DEF new
    <2>1. I \subseteq IdsOver(J)
      BY <1>1, <1>2
    <2>2. \A x \in J : x \in I \/ x = new.id
      OBVIOUS
    <2> HIDE DEF J
    <2> QED BY <1>3, <2>1, <2>2
  <1> HIDE DEF new, J
  <1>5. /\ b \in Seq(TxsOver(J)) /\ Len(b) = n + 1 /\ b[1] = new
        /\ \A i \in 1..n : b[i + 1] = pending[i]
    <2> DEFINE s == SubSeq(pending, 1, n)
    <2>1. s \in Seq(TxsOver(I)) /\ Len(s) = n /\ \A i \in 1..n : s[i] = pending[i]
      BY <1>1, FrontFacts
    <2>2. s \in Seq(TxsOver(J)) /\ <<new>> \in Seq(TxsOver(J))
      BY <1>2, <1>3, <2>1
    <2>3. b = <<new>> \o s
      BY DEF Candidate, new
    <2> DEFINE one == <<new>>
    <2>4. one \in Seq(TxsOver(J)) /\ Len(one) = 1 /\ one[1] = new
      BY <2>2
    <2> HIDE DEF s, one, b
    <2>5. /\ one \o s \in Seq(TxsOver(J)) /\ Len(one \o s) = Len(one) + Len(s)
          /\ \A i \in 1..Len(one) : (one \o s)[i] = one[i]
          /\ \A i \in 1..Len(s) : (one \o s)[Len(one) + i] = s[i]
      <3>1. one \in Seq(TxsOver(J)) /\ s \in Seq(TxsOver(J))
        BY <2>2, <2>4
      <3> QED BY <3>1, ConcatFacts
    <2>6. b = one \o s /\ n \in Nat
      BY <2>3 DEF one
    <2> QED BY <2>1, <2>4, <2>5, <2>6
  <1> HIDE DEF b
  <1>6. /\ c \in ChainsOver(J) /\ Len(c) = Len(blocks) + 1 /\ c[Len(c)] = b
        /\ \A h \in 1..Len(blocks) : c[h] = blocks[h]
    <2>1. blocks \in Seq(Seq(TxsOver(J)))
      BY <1>1, <1>2 DEF ChainsOver
    <2> QED BY <1>5, <2>1, AppendFacts DEF ChainsOver
  <1> HIDE DEF c
  <1>7. PlacesIn(blocks) \subseteq PlacesIn(c)
    BY <1>1, <1>6 DEF PlacesIn
  <1>8. \A p \in PlacesIn(blocks) : TxAt(c, p) = TxAt(blocks, p)
    BY <1>6 DEF PlacesIn, TxAt
  <1>9. Extended(J, c, n, miner)
    BY <1>4, <1>5, <1>6, <1>7, <1>8 DEF Extended, new
  <1>10. Shares(utxo, c)
    BY <1>1, <1>7, <1>8 DEF Shares
  <1>11. [ok |-> TRUE, utxo |-> utxo, chain |-> c] \in WorldsOver(J, c)
    <2>1. DOMAIN utxo \in SUBSET J /\ utxo \in [DOMAIN utxo -> Entries]
      BY <1>1, <1>2, SetFacts
    <2>2. SameShape(c, c)
      BY DEF SameShape
    <2> QED BY <1>1, <1>6, <1>10, <2>1, <2>2, WorldIs
  <1>12. Start(n, miner) = [ok |-> TRUE, utxo |-> utxo, chain |-> c]
    BY DEF Start, World, c, b
  <1> QED BY <1>9, <1>11, <1>12 DEF J, c, b, new

-----------------------------------------------------------------------------
(* What a new transaction spends. *)

(* What a function on a finite set gives is a finite set.                  *)
LEMMA FiniteRange ==
    ASSUME NEW S, IsFiniteSet(S), NEW f, DOMAIN f = S, f = [x \in S |-> f[x]]
    PROVE  IsFiniteSet({f[x] : x \in S})
  <1> DEFINE T == {f[x] : x \in S}
  <1>1. f \in [S -> T] /\ \A t \in T : \E x \in S : f[x] = t
    OBVIOUS
  <1>2. f \in Surjection(S, T)
    <2> HIDE DEF T
    <2> QED BY <1>1 DEF Surjection
  <1> QED BY <1>2, FS_Surjection

(* The inputs in ins are those in found, once each, and those name outputs *)
(* that the set has for one address.                                       *)
LEMMA SpendableFacts ==
    ASSUME NEW I, utxo \in SetsOver(I), EntriesFit(utxo), NEW who \in Addr
    PROVE  /\ IsFiniteSet(Spendable(who)) /\ Spendable(who) \subseteq InputsOver(I)
           /\ \A in \in Spendable(who) :
                 /\ HasOutput(utxo, in) /\ in.idx \in 1..Len(utxo[in.tx].outs)
                 /\ utxo[in.tx].outs[in.idx].owner = who /\ in.key = who
  <1> DEFINE own(id) == Owned(utxo[id].outs, who)
             of(id) == [tx : {id}, idx : own(id), key : {who}]
             lists == [id \in DOMAIN utxo |-> of(id)]
  <1>1. /\ DOMAIN utxo \in SUBSET I /\ utxo \in [DOMAIN utxo -> Entries]
        /\ IsFiniteSet(DOMAIN utxo)
    BY SetFacts DEF EntriesFit
  <1>2. ASSUME NEW id \in DOMAIN utxo
        PROVE  /\ own(id) \subseteq 1..Len(utxo[id].outs) /\ Len(utxo[id].outs) \in Nat
               /\ IsFiniteSet(own(id))
               /\ \A i \in own(id) : utxo[id].outs[i].owner = who
    <2>1. utxo[id] \in Entries
      BY <1>1
    <2>2. utxo[id].outs \in Seq(Output)
      BY <2>1 DEF Entries
    <2>3. DOMAIN utxo[id].outs = 1..Len(utxo[id].outs) /\ Len(utxo[id].outs) \in Nat
      BY <2>2
    <2>4. own(id) \subseteq 1..Len(utxo[id].outs)
      BY <2>3 DEF Owned
    <2>5. IsFiniteSet(1..Len(utxo[id].outs))
      BY <2>3, FS_Interval
    <2>6. IsFiniteSet(own(id))
      BY <2>4, <2>5, FS_Subset
    <2> QED BY <2>3, <2>4, <2>6 DEF Owned
  <1>3. ASSUME NEW id \in DOMAIN utxo PROVE IsFiniteSet(of(id))
    <2> DEFINE S == own(id)
               f == [i \in S |-> [tx |-> id, idx |-> i, key |-> who]]
    <2>1. of(id) = {f[i] : i \in S}
      <3>1. ASSUME NEW x \in of(id) PROVE x \in {f[i] : i \in S}
        <4>1. x = [tx |-> id, idx |-> x.idx, key |-> who] /\ x.idx \in S
          OBVIOUS
        <4>2. f[x.idx] = [tx |-> id, idx |-> x.idx, key |-> who]
          BY <4>1
        <4> HIDE DEF f, S
        <4> QED BY <4>1, <4>2
      <3>2. ASSUME NEW i \in S PROVE f[i] \in of(id)
        OBVIOUS
      <3> HIDE DEF f, S
      <3> QED BY <3>1, <3>2
    <2>2. IsFiniteSet(S) /\ DOMAIN f = S /\ f = [i \in S |-> f[i]]
      BY <1>2
    <2> HIDE DEF f, S
    <2>3. IsFiniteSet({f[i] : i \in S})
      BY <2>2, FiniteRange
    <2> QED BY <2>1, <2>3
  <1>4. Spendable(who) = UNION {lists[id] : id \in DOMAIN utxo}
    BY DEF Spendable
  <1>5. IsFiniteSet({lists[id] : id \in DOMAIN utxo})
    <2> DEFINE S == DOMAIN utxo
    <2>1. IsFiniteSet(S) /\ DOMAIN lists = S /\ lists = [id \in S |-> lists[id]]
      BY <1>1
    <2> HIDE DEF lists
    <2> QED BY <2>1, FiniteRange
  <1>6. \A L \in {lists[id] : id \in DOMAIN utxo} : IsFiniteSet(L)
    <2> HIDE DEF of
    <2> QED BY <1>3
  <1>7. IsFiniteSet(Spendable(who))
    <2> DEFINE all == {lists[id] : id \in DOMAIN utxo}
    <2> HIDE DEF all
    <2>1. IsFiniteSet(all) /\ \A L \in all : IsFiniteSet(L)
      BY <1>5, <1>6 DEF all
    <2>2. IsFiniteSet(UNION all)
      BY <2>1, FS_UNION
    <2> QED BY <1>4, <2>2 DEF all
  <1>8. ASSUME NEW in \in Spendable(who)
        PROVE  /\ in \in InputsOver(I)
               /\ HasOutput(utxo, in) /\ in.idx \in 1..Len(utxo[in.tx].outs)
               /\ utxo[in.tx].outs[in.idx].owner = who /\ in.key = who
    <2>1. PICK id \in DOMAIN utxo : in \in of(id)
      BY DEF Spendable
    <2>2. /\ in = [tx |-> id, idx |-> in.idx, key |-> who]
          /\ in.tx = id /\ in.idx \in own(id) /\ in.key = who
      BY <2>1
    <2>3. in.idx \in 1..Len(utxo[id].outs) /\ Len(utxo[id].outs) \in Nat
      BY <1>2, <2>2
    <2>4. id \in I /\ in.idx \in Nat \ {0}
      BY <1>1, <2>3
    <2>5. in \in InputsOver(I)
      BY <2>2, <2>4 DEF InputsOver
    <2>6. utxo[in.tx].outs[in.idx].owner = who
      BY <1>2, <2>2
    <2> QED BY <2>2, <2>3, <2>5, <2>6 DEF HasOutput
  <1> QED BY <1>7, <1>8

(* ins is one of the orders of the inputs in found.                        *)
InOrder(ins, found) ==
    /\ ins \in Seq(found)
    /\ \A i, j \in 1..Len(ins) : ins[i] = ins[j] => i = j
    /\ \A x \in found : \E i \in 1..Len(ins) : ins[i] = x

(* A scan meets each input of a set once, and no others.                   *)
LEMMA ScanFacts ==
    ASSUME NEW found, IsFiniteSet(found), NEW ins \in Scans(found)
    PROVE  InOrder(ins, found) /\ Len(ins) = Cardinality(found)
  <1> DEFINE n == Cardinality(found)
  <1>1. n \in Nat
    BY FS_CardinalityType
  <1>2. ins \in [1..n -> found] /\ \A i, j \in 1..n : i # j => ins[i] # ins[j]
    BY DEF Scans, SetToSeqs
  <1>3. ins \in Seq(found) /\ Len(ins) = n
    BY <1>1, <1>2
  <1>4. \A x \in found : \E i \in 1..n : ins[i] = x
    <2> DEFINE D == 1..n
    <2>1. IsFiniteSet(D) /\ Cardinality(D) = n
      BY <1>1, FS_Interval
    <2>2. ins \in Injection(D, found)
      BY <1>2 DEF Injection, IsInjective
    <2> HIDE DEF D
    <2>3. ins \in Surjection(D, found)
      BY <2>1, <2>2, FS_Injection
    <2> QED BY <2>3 DEF Surjection, D
  <1> HIDE DEF n
  <1>5. \A i, j \in 1..Len(ins) : ins[i] = ins[j] => i = j
    BY <1>2, <1>3
  <1> QED BY <1>3, <1>4, <1>5 DEF InOrder, n

(* What a scan has found is worth enough, and it found something if more   *)
(* than 0 was asked for.                                                   *)
LEMMA FoundFacts ==
    ASSUME NEW I, utxo \in SetsOver(I), EntriesFit(utxo), NEW who \in Addr,
           NEW amount \in Int, NEW found \in FindSpendableOutputs(who, amount)
    PROVE  /\ found \subseteq Spendable(who) /\ IsFiniteSet(found)
           /\ ValueOf(found) \in Int /\ ValueOf(found) >= amount
           /\ amount > 0 => found # {}
  <1> DEFINE all == Spendable(who)
  <1>1. IsFiniteSet(all)
    BY SpendableFacts
  <1>2. found \subseteq all /\ ValueOf(found) >= amount
    BY DEF FindSpendableOutputs
  <1> HIDE DEF all
  <1>3. IsFiniteSet(found)
    BY <1>1, <1>2, FS_Subset
  <1> DEFINE value(in) == utxo[in.tx].outs[in.idx].value
             f == [in \in found |-> value(in)]
  <1>4. f \in [found -> Int]
    <2>1. ASSUME NEW in \in found PROVE value(in) \in Int
      <3>1. in.idx \in 1..Len(utxo[in.tx].outs) /\ in.tx \in DOMAIN utxo
        BY <1>2, SpendableFacts DEF all, HasOutput
      <3>2. utxo[in.tx] \in Entries
        BY <3>1, SetFacts
      <3>3. utxo[in.tx].outs \in Seq(Output)
        BY <3>2 DEF Entries
      <3>4. utxo[in.tx].outs[in.idx] \in Output
        BY <3>1, <3>3, ElementIn
      <3> QED BY <3>4 DEF Output
    <2> HIDE DEF value
    <2> QED BY <2>1
  <1>5. ValueOf(found) = SumFunction(f)
    BY DEF ValueOf
  <1>6. DOMAIN f = found
    OBVIOUS
  <1> HIDE DEF f
  <1>7. ValueOf(found) \in Int
    BY <1>3, <1>4, <1>5, SumFacts
  <1>8. ASSUME amount > 0 PROVE found # {}
    <2> SUFFICES ASSUME found = {} PROVE FALSE
      OBVIOUS
    <2>1. SumFunction(f) = 0
      BY <1>3, <1>4, SumFacts
    <2> QED BY <1>2, <1>5, <1>8, <2>1
  <1> QED BY <1>2, <1>3, <1>7, <1>8 DEF all

(* The owner RecordedOwner reads is that of an output: the index is good.  *)
LEMMA RecordedOwnerFacts ==
    ASSUME NEW I, I \subseteq IdsOver(I), blocks \in ChainsOver(I), NEW in, Names(blocks, in)
    PROVE  /\ in.idx \in DOMAIN FindTransaction(in.tx).outs
           /\ RecordedOwner(in) \in Addr
  <1>1. PICK p \in PlacesIn(blocks) :
           FindTransaction(in.tx) = TxAt(blocks, p) /\ TxAt(blocks, p).id = in.tx
    BY FindTransactionFacts DEF Names
  <1> DEFINE t == TxAt(blocks, p)
  <1>2. t \in TxsOver(I)
    BY ChainFacts
  <1>3. t.outs \in Seq(Output) /\ Len(t.outs) = Len(in.tx.outs)
    <2> HIDE DEF t
    <2>1. t.id = in.tx
      BY <1>1 DEF t
    <2> QED BY <1>2, <2>1, TxFacts
  <1> HIDE DEF t
  <1>4. in.idx \in 1..Len(t.outs)
    BY <1>3 DEF Names
  <1>5. t.outs[in.idx] \in Output
    BY <1>3, <1>4, ElementIn
  <1>6. FindTransaction(in.tx) = t
    BY <1>1 DEF t
  <1>7. RecordedOwner(in) = t.outs[in.idx].owner
    BY <1>6 DEF RecordedOwner
  <1> QED BY <1>3, <1>4, <1>5, <1>6, <1>7 DEF Output

(* What a payment of an amount makes of what was found for it.             *)
PaymentOuts(found, from, to, amount) ==
    <<[value |-> amount, owner |-> to]>> \o
        (IF ValueOf(found) - amount > 0
         THEN <<[value |-> ValueOf(found) - amount, owner |-> from]>>
         ELSE <<>>)

Payment(ins, splits, found, from, to, amount) ==
    Sign(NewTx(ins, PaymentOuts(found, from, to, amount), NotCoinbase), splits)

(* The outputs of a payment have known owners.                             *)
LEMMA PaymentOutsFacts ==
    ASSUME NEW found, NEW from \in Addr, NEW to \in Addr, NEW amount \in Int,
           ValueOf(found) \in Int
    PROVE  PaymentOuts(found, from, to, amount) \in Seq(Output) \ {<<>>}
  <1> DEFINE pay == [value |-> amount, owner |-> to]
             change == ValueOf(found) - amount
             back == [value |-> change, owner |-> from]
             rest == IF change > 0 THEN <<back>> ELSE <<>>
  <1>1. pay \in Output
    BY DEF Output
  <1>2. rest \in Seq(Output)
    <2>1. CASE change > 0
      <3>1. back \in Output
        <4>1. change \in Int
          OBVIOUS
        <4> HIDE DEF change
        <4> QED BY <4>1 DEF Output
      <3> HIDE DEF back, change
      <3> QED BY <2>1, <3>1
    <2>2. CASE ~(change > 0)
      <3> HIDE DEF back, change
      <3> QED BY <2>2, EmptyIsSeq
    <2> QED BY <2>1, <2>2
  <1> DEFINE one == <<pay>>
  <1>3. one \in Seq(Output) /\ Len(one) = 1
    BY <1>1
  <1>4. PaymentOuts(found, from, to, amount) = one \o rest
    BY DEF PaymentOuts
  <1> HIDE DEF one, rest
  <1>5. one \o rest \in Seq(Output) /\ Len(one \o rest) = Len(one) + Len(rest)
    BY <1>2, <1>3, ConcatFacts
  <1>6. one \o rest # <<>>
    BY <1>2, <1>3, <1>5
  <1> QED BY <1>4, <1>5, <1>6

(* What a step that creates a transaction creates.                         *)
Creates(I, found, ins, splits, from, to, amount) ==
    LET t == Payment(ins, splits, found, from, to, amount)
        J == I \cup {t.id}
    IN  /\ InOrder(ins, found) /\ splits \in [DOMAIN ins -> BOOLEAN]
        /\ \A k \in 1..Len(ins) : Names(blocks, ins[k])
        /\ pending' = Append(pending, t) /\ Len(pending) < MaxPending
        /\ t.id.ins = ins /\ t.id.outs = PaymentOuts(found, from, to, amount)
        /\ t.id.label = NotCoinbase /\ t.outs = t.id.outs
        /\ t.signed = [k \in DOMAIN ins |->
                       [covers |-> RecordedOwner(ins[k]), splits |-> splits[k]]]
        /\ J \subseteq IdsOver(J) /\ t \in TxsOver(J)

(* CreateTransaction appends a payment whose inputs name confirmed outputs.*)
LEMMA CreateFacts ==
    ASSUME LedgerAssumption, NEW I, LedgerOver(I), NEW pair \in Transfers, NEW amount \in Amounts,
           CreateTransaction(pair[1], pair[2], amount)
    PROVE  \E found \in FindSpendableOutputs(pair[1], amount) : \E ins, splits :
              Creates(I, found, ins, splits, pair[1], pair[2], amount)
  <1> DEFINE from == pair[1]
             to == pair[2]
  <1>1. from \in Addr /\ to \in Addr /\ amount \in Int
    BY DEF LedgerAssumption
  <1> HIDE DEF from, to
  <1>2. /\ I \subseteq IdsOver(I) /\ blocks \in ChainsOver(I)
        /\ utxo \in SetsOver(I) /\ EntriesFit(utxo)
    BY DEF LedgerOver
  <1>3. PICK found \in FindSpendableOutputs(from, amount) :
           \E ins \in Scans(found) :
              /\ \A k \in DOMAIN ins : \E x \in Confirmed : x.id = ins[k].tx
              /\ \E splits \in [DOMAIN ins -> BOOLEAN] :
                    pending' = Append(pending, Payment(ins, splits, found, from, to, amount))
    BY DEF CreateTransaction, Payment, PaymentOuts, from, to
  <1>14. PICK ins \in Scans(found) :
           /\ \A k \in DOMAIN ins : \E x \in Confirmed : x.id = ins[k].tx
           /\ \E splits \in [DOMAIN ins -> BOOLEAN] :
                 pending' = Append(pending, Payment(ins, splits, found, from, to, amount))
    BY <1>3
  <1>15. PICK splits \in [DOMAIN ins -> BOOLEAN] :
           pending' = Append(pending, Payment(ins, splits, found, from, to, amount))
    BY <1>14
  <1>4. /\ ins \in Scans(found) /\ splits \in [DOMAIN ins -> BOOLEAN]
        /\ \A k \in DOMAIN ins : \E x \in Confirmed : x.id = ins[k].tx
        /\ pending' = Append(pending, Payment(ins, splits, found, from, to, amount))
    BY <1>14, <1>15
  <1>5. /\ found \subseteq Spendable(from) /\ IsFiniteSet(found)
        /\ ValueOf(found) \in Int
    BY <1>1, <1>2, FoundFacts
  <1>6. InOrder(ins, found)
    BY <1>5, ScanFacts
  <1>7. /\ ins \in Seq(InputsOver(I)) /\ DOMAIN ins = 1..Len(ins) /\ Len(ins) \in Nat
        /\ \A k \in 1..Len(ins) : ins[k] \in Spendable(from)
    <2>1. ins \in Seq(found)
      BY <1>6 DEF InOrder
    <2>2. found \subseteq InputsOver(I)
      BY <1>1, <1>2, <1>5, SpendableFacts
    <2>3. ins \in Seq(InputsOver(I))
      BY <2>1, <2>2, SeqOfMore
    <2>4. \A k \in 1..Len(ins) : ins[k] \in found
      BY <2>1, ElementIn
    <2> QED BY <1>5, <2>3, <2>4
  <1>8. ASSUME NEW k \in 1..Len(ins) PROVE Names(blocks, ins[k])
    <2>1. PICK x \in Confirmed : x.id = ins[k].tx
      BY <1>4, <1>7
    <2>2. \E p \in PlacesIn(blocks) : TxAt(blocks, p).id = ins[k].tx
      BY <1>2, <2>1, ConfirmedFacts
    <2>3. /\ ins[k].idx \in 1..Len(utxo[ins[k].tx].outs)
          /\ ins[k].tx \in DOMAIN utxo
      BY <1>1, <1>2, <1>7, SpendableFacts DEF HasOutput
    <2>4. /\ utxo[ins[k].tx] \in Entries /\ ins[k].tx \in I
          /\ Len(utxo[ins[k].tx].outs) <= Len(ins[k].tx.outs)
      BY <1>2, <2>3, SetFacts DEF EntriesFit
    <2>5. ins[k].idx \in 1..Len(ins[k].tx.outs)
      <3>1. utxo[ins[k].tx].outs \in Seq(Output)
        BY <2>4 DEF Entries
      <3>2. ins[k].tx.outs \in Seq(Output)
        BY <1>2, <2>4 DEF IdsOver
      <3>3. Len(utxo[ins[k].tx].outs) \in Nat /\ Len(ins[k].tx.outs) \in Nat
        BY <3>1, <3>2
      <3> QED BY <2>3, <2>4, <3>3
    <2> QED BY <2>2, <2>5 DEF Names
  <1> DEFINE t == Payment(ins, splits, found, from, to, amount)
             outs == PaymentOuts(found, from, to, amount)
             signed == [k \in DOMAIN ins |->
                          [covers |-> RecordedOwner(ins[k]), splits |-> splits[k]]]
             J == I \cup {t.id}
  <1>9. outs \in Seq(Output) \ {<<>>}
    BY <1>1, <1>5, PaymentOutsFacts
  <1> HIDE DEF outs
  <1>10. /\ t.id = Hash(ins, outs, NotCoinbase) /\ t.outs = outs /\ t.signed = signed
         /\ t = [id |-> t.id, outs |-> outs, signed |-> signed]
         /\ t.id.ins = ins /\ t.id.outs = outs /\ t.id.label = NotCoinbase
    BY DEF Payment, Sign, NewTx, Hash, SignedData, outs
  <1> HIDE DEF t
  <1>11. signed \in Seq(Signature) /\ Len(signed) = Len(ins)
    <2>1. \A k \in 1..Len(ins) : RecordedOwner(ins[k]) \in Addr
      BY <1>2, <1>8, RecordedOwnerFacts
    <2>2. \A k \in 1..Len(ins) : splits[k] \in BOOLEAN
      BY <1>4, <1>7
    <2>3. signed \in [1..Len(ins) -> Signature]
      BY <1>7, <2>1, <2>2 DEF Signature
    <2> HIDE DEF signed
    <2> QED BY <1>7, <2>3
  <1> HIDE DEF signed
  <1>12. J \subseteq IdsOver(J) /\ t \in TxsOver(J)
    <2>1. I \subseteq J /\ t.id \in J
      OBVIOUS
    <2>2. IdsOver(I) \subseteq IdsOver(J) /\ TxsOver(I) \subseteq TxsOver(J)
      <3> HIDE DEF J
      <3> QED BY <2>1, MoreIds
    <2>3. t.id \in IdsOver(I)
      BY <1>7, <1>9, <1>10 DEF IdsOver, Hash, Labels
    <2>4. t \in TxsOver(J)
      <3> HIDE DEF J
      <3> QED BY <1>9, <1>10, <1>11, <2>1 DEF TxsOver
    <2> QED BY <1>2, <2>2, <2>3, <2>4
  <1>13. Len(pending) < MaxPending
    BY DEF CreateTransaction
  <1> QED BY <1>4, <1>6, <1>8, <1>10, <1>12, <1>13 DEF t, J, outs, signed, from, to, Creates

(* Chains that agree on the ids at the places of one name the same.        *)
LEMMA NamesKept ==
    ASSUME NEW c, NEW d, NEW in, Names(c, in), PlacesIn(c) \subseteq PlacesIn(d),
           \A p \in PlacesIn(c) : TxAt(d, p).id = TxAt(c, p).id
    PROVE  Names(d, in)
  BY DEF Names

(* Creating a transaction keeps the ledger a ledger; its id is a new one.  *)
LEMMA CreateStep ==
    ASSUME LedgerAssumption, NEW I, LedgerOver(I), NEW pair \in Transfers, NEW amount \in Amounts,
           CreateTransaction(pair[1], pair[2], amount)
    PROVE  LedgerOK'
  <1>1. PICK found \in FindSpendableOutputs(pair[1], amount) :
           \E ins, splits : Creates(I, found, ins, splits, pair[1], pair[2], amount)
    BY CreateFacts
  <1>2. PICK ins, splits : Creates(I, found, ins, splits, pair[1], pair[2], amount)
    BY <1>1
  <1> DEFINE t == Payment(ins, splits, found, pair[1], pair[2], amount)
             J == I \cup {t.id}
  <1>3. /\ \A k \in 1..Len(ins) : Names(blocks, ins[k])
        /\ pending' = Append(pending, t) /\ Len(pending) < MaxPending
        /\ t.id.ins = ins
        /\ J \subseteq IdsOver(J) /\ t \in TxsOver(J)
    BY <1>2 DEF Creates
  <1> HIDE DEF t
  <1>4. /\ blocks \in ChainsOver(I) /\ Len(blocks) \in 1..MaxHeight
        /\ pending \in Seq(TxsOver(I))
        /\ utxo \in SetsOver(I) /\ EntriesFit(utxo) /\ Shares(utxo, blocks)
        /\ \A k \in 1..Len(pending) : \A j \in 1..Len(pending[k].id.ins) :
              Names(blocks, pending[k].id.ins[j])
    BY DEF LedgerOver
  <1>5. /\ ChainsOver(I) \subseteq ChainsOver(J) /\ SetsOver(I) \subseteq SetsOver(J)
        /\ Seq(TxsOver(I)) \subseteq Seq(TxsOver(J))
    <2>1. I \subseteq J
      OBVIOUS
    <2> HIDE DEF J
    <2> QED BY <2>1, MoreIds
  <1>6. UNCHANGED <<blocks, utxo>>
    BY DEF CreateTransaction
  <1> HIDE DEF J
  <1>7. /\ pending' \in Seq(TxsOver(J)) /\ Len(pending') = Len(pending) + 1
        /\ \A k \in 1..Len(pending) : pending'[k] = pending[k]
        /\ pending'[Len(pending) + 1] = t /\ Len(pending) \in Nat
    <2>1. pending \in Seq(TxsOver(J))
      BY <1>4, <1>5
    <2> QED BY <1>3, <2>1, AppendFacts
  <1>8. Len(pending') <= MaxPending
    BY <1>3, <1>7 DEF LedgerAssumption
  <1>9. ASSUME NEW k \in 1..Len(pending'), NEW j \in 1..Len(pending'[k].id.ins)
        PROVE  Names(blocks, pending'[k].id.ins[j])
    <2>1. CASE k \in 1..Len(pending)
      BY <1>4, <1>7, <2>1
    <2>2. CASE k = Len(pending) + 1
      BY <1>3, <1>7, <2>2
    <2> QED BY <1>7, <2>1, <2>2
  <1>10. /\ blocks' \in ChainsOver(J) /\ Len(blocks') \in 1..MaxHeight
         /\ utxo' \in SetsOver(J) /\ EntriesFit(utxo') /\ Shares(utxo', blocks')
         /\ \A k \in 1..Len(pending') : \A j \in 1..Len(pending'[k].id.ins) :
               Names(blocks', pending'[k].id.ins[j])
    BY <1>4, <1>5, <1>6, <1>9
  <1>11. PICK K : K = J
    OBVIOUS
  <1>12. LedgerOver(K)'
    BY <1>11, <1>3, <1>7, <1>8, <1>10 DEF LedgerOver
  <1> QED BY <1>12 DEF LedgerOK

(* What is left of the pending transactions, when their inputs name what   *)
(* the chain c has.                                                        *)
LEMMA HandedOver ==
    ASSUME LedgerAssumption, NEW I, LedgerOver(I), NEW n \in 0..Len(pending), HandOver(n),
           PlacesIn(blocks) \subseteq PlacesIn(blocks'),
           \A p \in PlacesIn(blocks) : TxAt(blocks', p).id = TxAt(blocks, p).id
    PROVE  /\ pending' \in Seq(TxsOver(I)) /\ Len(pending') = Len(pending) - n
           /\ Len(pending) \in Nat /\ Len(pending') <= MaxPending
           /\ \A k \in 1..Len(pending') : pending'[k] = pending[n + k]
           /\ \A k \in 1..Len(pending') : \A j \in 1..Len(pending'[k].id.ins) :
                 Names(blocks', pending'[k].id.ins[j])
  <1>1. pending \in Seq(TxsOver(I)) /\ Len(pending) <= MaxPending /\ Len(pending) \in Nat
    BY DEF LedgerOver
  <1>2. pending' = SubSeq(pending, n + 1, Len(pending))
    BY DEF HandOver
  <1>3. /\ pending' \in Seq(TxsOver(I)) /\ Len(pending') = Len(pending) - n
        /\ \A k \in 1..(Len(pending) - n) : pending'[k] = pending[n + k]
    BY <1>1, <1>2, RestFacts
  <1>4. Len(pending') <= MaxPending
    <2>1. Len(pending') <= Len(pending) /\ Len(pending') \in Nat
      BY <1>1, <1>3
    <2> QED BY <1>1, <2>1 DEF LedgerAssumption
  <1>5. ASSUME NEW k \in 1..Len(pending'), NEW j \in 1..Len(pending'[k].id.ins)
        PROVE  Names(blocks', pending'[k].id.ins[j])
    <2>1. pending'[k] = pending[n + k] /\ n + k \in 1..Len(pending)
      BY <1>1, <1>3
    <2>2. Names(blocks, pending[n + k].id.ins[j])
      BY <1>5, <2>1 DEF LedgerOver
    <2> QED BY <2>1, <2>2, NamesKept
  <1> QED BY <1>1, <1>3, <1>4, <1>5

(* Rejecting a block takes pending transactions away and nothing else.     *)
LEMMA RejectStep ==
    ASSUME LedgerAssumption, NEW I, LedgerOver(I), NEW n \in 0..Len(pending), RejectBlock(n)
    PROVE  LedgerOK'
  <1>1. HandOver(n) /\ UNCHANGED <<blocks, utxo>>
    BY DEF RejectBlock
  <1>2. /\ pending' \in Seq(TxsOver(I)) /\ Len(pending') <= MaxPending
        /\ \A k \in 1..Len(pending') : \A j \in 1..Len(pending'[k].id.ins) :
              Names(blocks', pending'[k].id.ins[j])
    BY <1>1, HandedOver
  <1>3. LedgerOver(I)'
    BY <1>1, <1>2 DEF LedgerOver
  <1> QED BY <1>3 DEF LedgerOK

(* The ledger after the updates of a new block.                            *)
LEMMA UpdatedFacts ==
    ASSUME LedgerAssumption, NEW I, LedgerOver(I), NEW n \in 0..Len(pending),
           NEW miner \in Miners, Len(blocks) < MaxHeight
    PROVE  LET J == I \cup {Coinbase(miner, Len(blocks)).id}
               c == Append(blocks, Candidate(n, miner))
               w == Updated(Candidate(n, miner))
           IN  /\ Extended(J, c, n, miner) /\ Start(n, miner) \in WorldsOver(J, c)
               /\ w \in WorldsOver(J, c)
               /\ \E f : /\ Updates(f, Start(n, miner), Len(blocks) + 1, n + 1, WorldsOver(J, c))
                         /\ w = f[n + 1]
  <1> DEFINE J == I \cup {Coinbase(miner, Len(blocks)).id}
             c == Append(blocks, Candidate(n, miner))
             w == Updated(Candidate(n, miner))
             s == Start(n, miner)
             h == Len(blocks) + 1
  <1>1. Extended(J, c, n, miner) /\ s \in WorldsOver(J, c)
    BY CandidateFacts
  <1>2. w = UpdateBlock(s, h) /\ s.chain = c
    BY DEF Updated, Start, World
  <1> HIDE DEF J, c, w, s
  <1>3. /\ J \subseteq IdsOver(J) /\ Len(c) = h /\ h \in 1..Len(c) /\ Len(c[h]) = n + 1
    <2>1. Len(blocks) \in Nat
      BY DEF LedgerOver
    <2> QED BY <1>1, <2>1 DEF Extended
  <1>4. /\ w \in WorldsOver(J, c)
        /\ \E f : /\ Updates(f, s, h, n + 1, WorldsOver(J, c)) /\ w = f[n + 1]
    <2> HIDE DEF h
    <2>1. /\ UpdateBlock(s, h) \in WorldsOver(J, c)
          /\ \E f : /\ Updates(f, s, h, Len(s.chain[h]), WorldsOver(J, c))
                    /\ UpdateBlock(s, h) = f[Len(s.chain[h])]
      <3>1. J \subseteq IdsOver(J) /\ s \in WorldsOver(J, c) /\ h \in 1..Len(c)
        BY <1>1, <1>3
      <3> QED BY ZenonT(60), <3>1, UpdateBlockFacts
    <2>2. Len(s.chain[h]) = n + 1
      BY <1>2, <1>3
    <2> HIDE DEF s
    <2> QED BY <1>2, <2>1, <2>2
  <1> QED BY <1>1, <1>4 DEF J, c, w, s

(* Adding a block leaves the ledger that the updates give.                 *)
LEMMA AddStep ==
    ASSUME LedgerAssumption, NEW I, LedgerOver(I), NEW n \in 0..Len(pending),
           NEW miner \in Miners, AddBlock(n, miner)
    PROVE  LedgerOK'
  <1> DEFINE J == I \cup {Coinbase(miner, Len(blocks)).id}
             c == Append(blocks, Candidate(n, miner))
             w == Updated(Candidate(n, miner))
  <1>1. HandOver(n) /\ Len(blocks) < MaxHeight /\ utxo' = w.utxo /\ blocks' = w.chain
    BY DEF AddBlock, HandOver
  <1>2. Extended(J, c, n, miner) /\ w \in WorldsOver(J, c)
    BY <1>1, UpdatedFacts
  <1>3. Seq(TxsOver(I)) \subseteq Seq(TxsOver(J))
    <2>1. I \subseteq J
      OBVIOUS
    <2> HIDE DEF J
    <2> QED BY <2>1, MoreIds
  <1> HIDE DEF J, c, w
  <1>4. /\ w.utxo \in SetsOver(J) /\ EntriesFit(w.utxo) /\ Shares(w.utxo, w.chain)
        /\ w.chain \in ChainsOver(J) /\ SameShape(w.chain, c)
    BY <1>2 DEF WorldsOver
  <1>5. /\ J \subseteq IdsOver(J) /\ Len(c) = Len(blocks) + 1
        /\ PlacesIn(blocks) \subseteq PlacesIn(c)
        /\ \A p \in PlacesIn(blocks) : TxAt(c, p) = TxAt(blocks, p)
    BY <1>2 DEF Extended
  <1>6. Len(w.chain) = Len(c)
    BY <1>4 DEF SameShape
  <1>7. Len(blocks') \in 1..MaxHeight
    <2>1. Len(blocks) \in 1..MaxHeight
      BY DEF LedgerOver
    <2> QED BY <1>1, <1>5, <1>6, <2>1 DEF LedgerAssumption
  <1>8. PlacesIn(w.chain) = PlacesIn(c) /\ \A p \in PlacesIn(c) : TxAt(w.chain, p).id = TxAt(c, p).id
    BY <1>4, ShapeFacts
  <1>9. /\ PlacesIn(blocks) \subseteq PlacesIn(blocks')
        /\ \A p \in PlacesIn(blocks) : TxAt(blocks', p).id = TxAt(blocks, p).id
    BY <1>1, <1>5, <1>8
  <1>10. /\ pending' \in Seq(TxsOver(I)) /\ Len(pending') <= MaxPending
         /\ \A k \in 1..Len(pending') : \A j \in 1..Len(pending'[k].id.ins) :
               Names(blocks', pending'[k].id.ins[j])
    BY <1>1, <1>9, HandedOver
  <1>11. /\ blocks' \in ChainsOver(J) /\ utxo' \in SetsOver(J)
         /\ EntriesFit(utxo') /\ Shares(utxo', blocks') /\ pending' \in Seq(TxsOver(J))
    BY <1>1, <1>3, <1>4, <1>10
  <1>12. PICK K : K = J
    OBVIOUS
  <1>13. LedgerOver(K)'
    BY <1>12, <1>5, <1>7, <1>10, <1>11 DEF LedgerOver
  <1> QED BY <1>13 DEF LedgerOK

(* What a chain is without its last block.                                 *)
LEMMA WithoutLast ==
    ASSUME NEW J, NEW d \in ChainsOver(J), NEW m \in Nat, Len(d) = m + 1
    PROVE  /\ Front(d) \in ChainsOver(J) /\ Len(Front(d)) = m
           /\ \A h \in 1..m : Front(d)[h] = d[h]
           /\ PlacesIn(Front(d)) = {p \in PlacesIn(d) : p[1] <= m}
           /\ \A p \in PlacesIn(Front(d)) : TxAt(Front(d), p) = TxAt(d, p)
  <1> DEFINE e == Front(d)
  <1>1. m \in 0..Len(d) /\ e = SubSeq(d, 1, m) /\ d \in Seq(Seq(TxsOver(J)))
    BY DEF Front, ChainsOver
  <1>2. e \in Seq(Seq(TxsOver(J))) /\ Len(e) = m /\ \A h \in 1..m : e[h] = d[h]
    BY <1>1, FrontFacts
  <1> HIDE DEF e
  <1>3. PlacesIn(e) = {p \in PlacesIn(d) : p[1] <= m}
    BY <1>2 DEF PlacesIn
  <1>4. \A p \in PlacesIn(e) : TxAt(e, p) = TxAt(d, p)
    BY <1>2 DEF PlacesIn, TxAt
  <1> QED BY <1>2, <1>3, <1>4 DEF e, ChainsOver

(* A failed block leaves the chain as long as it was, with the same ids.   *)
LEMMA FailedFacts ==
    ASSUME LedgerAssumption, NEW I, LedgerOver(I), NEW n \in 0..Len(pending),
           NEW miner \in Miners, FailBlock(n, miner)
    PROVE  LET J == I \cup {Coinbase(miner, Len(blocks)).id}
               d == Updated(Candidate(n, miner)).chain
           IN  /\ blocks' \in ChainsOver(J) /\ Len(blocks') = Len(blocks)
               /\ PlacesIn(blocks') = {p \in PlacesIn(d) : p[1] <= Len(blocks)}
               /\ \A p \in PlacesIn(blocks') : TxAt(blocks', p) = TxAt(d, p)
               /\ PlacesIn(blocks') = PlacesIn(blocks)
               /\ \A p \in PlacesIn(blocks) : TxAt(blocks', p).id = TxAt(blocks, p).id
  <1> DEFINE J == I \cup {Coinbase(miner, Len(blocks)).id}
             c == Append(blocks, Candidate(n, miner))
             w == Updated(Candidate(n, miner))
             m == Len(blocks)
             d == w.chain
  <1>1. Len(blocks) < MaxHeight /\ blocks' = Front(d)
    BY DEF FailBlock, HandOver
  <1>2. Extended(J, c, n, miner) /\ w \in WorldsOver(J, c)
    BY <1>1, UpdatedFacts
  <1> HIDE DEF J, c, w
  <1>3. /\ Len(c) = m + 1 /\ m \in Nat
        /\ \A h \in 1..m : c[h] = blocks[h]
        /\ PlacesIn(blocks) \subseteq PlacesIn(c)
        /\ \A p \in PlacesIn(blocks) : TxAt(c, p) = TxAt(blocks, p)
    BY <1>2 DEF Extended, LedgerOver
  <1>4. d \in ChainsOver(J) /\ SameShape(d, c)
    BY <1>2, WorldFacts
  <1>5. Len(d) = m + 1
    BY <1>3, <1>4 DEF SameShape
  <1>6. PlacesIn(d) = PlacesIn(c) /\ \A p \in PlacesIn(c) : TxAt(d, p).id = TxAt(c, p).id
    BY <1>4, ShapeFacts
  <1> HIDE DEF m, d
  <1>7. /\ Front(d) \in ChainsOver(J) /\ Len(Front(d)) = m
        /\ PlacesIn(Front(d)) = {p \in PlacesIn(d) : p[1] <= m}
        /\ \A p \in PlacesIn(Front(d)) : TxAt(Front(d), p) = TxAt(d, p)
    <2>1. d \in ChainsOver(J) /\ m \in Nat /\ Len(d) = m + 1
      BY <1>3, <1>4, <1>5
    <2> QED BY ONLY <2>1, WithoutLast
  <1>8. {p \in PlacesIn(c) : p[1] <= m} = PlacesIn(blocks)
    <2>1. \A p \in PlacesIn(blocks) : p[1] <= m
      BY <1>3 DEF PlacesIn, m
    <2>2. ASSUME NEW p \in PlacesIn(c), p[1] <= m PROVE p \in PlacesIn(blocks)
      <3>1. p \in Nat \X Nat /\ p[1] \in 1..Len(c) /\ p[2] \in 1..Len(c[p[1]])
        BY DEF PlacesIn
      <3>2. p[1] \in 1..m
        BY <1>3, <2>2, <3>1
      <3> QED BY <1>3, <3>1, <3>2 DEF PlacesIn, m
    <2> QED BY <1>3, <2>1, <2>2
  <1>9. /\ blocks' \in ChainsOver(J) /\ Len(blocks') = m
        /\ PlacesIn(blocks') = {p \in PlacesIn(d) : p[1] <= m}
        /\ \A p \in PlacesIn(blocks') : TxAt(blocks', p) = TxAt(d, p)
    BY <1>1, <1>7
  <1> QED BY <1>3, <1>6, <1>8, <1>9 DEF J, d, w, m

(* A failed block leaves entries without a home, and no block more.        *)
LEMMA FailStep ==
    ASSUME LedgerAssumption, NEW I, LedgerOver(I), NEW n \in 0..Len(pending),
           NEW miner \in Miners, FailBlock(n, miner)
    PROVE  LedgerOK'
  <1> DEFINE J == I \cup {Coinbase(miner, Len(blocks)).id}
             c == Append(blocks, Candidate(n, miner))
             w == Updated(Candidate(n, miner))
             m == Len(blocks)
             d == w.chain
             u == w.utxo
             cut(e) == IF e.home[1] > m THEN [e EXCEPT !.home = Nowhere] ELSE e
  <1>1. /\ HandOver(n) /\ m < MaxHeight
        /\ utxo' = [id \in DOMAIN u |-> cut(u[id])]
        /\ blocks' = Front(d)
    BY DEF FailBlock, HandOver
  <1>2. Extended(J, c, n, miner) /\ w \in WorldsOver(J, c)
    BY <1>1, UpdatedFacts
  <1>3. Seq(TxsOver(I)) \subseteq Seq(TxsOver(J))
    <2>1. I \subseteq J
      OBVIOUS
    <2> HIDE DEF J
    <2> QED BY <2>1, MoreIds
  <1> HIDE DEF J, c, w
  <1>4. /\ u \in SetsOver(J) /\ EntriesFit(u) /\ Shares(u, d)
        /\ d \in ChainsOver(J) /\ SameShape(d, c)
    BY <1>2 DEF WorldsOver
  <1>5. /\ J \subseteq IdsOver(J) /\ Len(c) = m + 1 /\ m \in 1..MaxHeight /\ m \in Nat
        /\ PlacesIn(blocks) \subseteq PlacesIn(c)
        /\ \A p \in PlacesIn(blocks) : TxAt(c, p) = TxAt(blocks, p)
    BY <1>2 DEF Extended, LedgerOver
  <1>6. Len(d) = m + 1
    BY <1>4, <1>5 DEF SameShape
  <1>7. /\ blocks' \in ChainsOver(J) /\ Len(blocks') = m
        /\ PlacesIn(blocks') = {p \in PlacesIn(d) : p[1] <= m}
        /\ \A p \in PlacesIn(blocks') : TxAt(blocks', p) = TxAt(d, p)
        /\ PlacesIn(blocks') = PlacesIn(blocks)
        /\ \A p \in PlacesIn(blocks) : TxAt(blocks', p).id = TxAt(blocks, p).id
    BY FailedFacts DEF J, w
  <1>10. /\ pending' \in Seq(TxsOver(I)) /\ Len(pending') <= MaxPending
         /\ \A k \in 1..Len(pending') : \A j \in 1..Len(pending'[k].id.ins) :
               Names(blocks', pending'[k].id.ins[j])
    BY <1>1, <1>7, HandedOver
  <1>11. DOMAIN u \in SUBSET J /\ \A id \in DOMAIN u : u[id] \in Entries
    BY <1>4, SetFacts
  <1> HIDE DEF u, d, m
  <1>12. ASSUME NEW e \in Entries
         PROVE  /\ cut(e) \in Entries /\ cut(e).outs = e.outs
                /\ e.home[1] > m => cut(e).home = Nowhere
                /\ ~(e.home[1] > m) => cut(e) = e
    <2>1. Nowhere \in Nat \X Nat
      BY DEF Nowhere
    <2>2. [e EXCEPT !.home = Nowhere] \in Entries
          /\ [e EXCEPT !.home = Nowhere].outs = e.outs
          /\ [e EXCEPT !.home = Nowhere].home = Nowhere
      BY <2>1 DEF Entries
    <2> QED BY <2>2
  <1>13. /\ DOMAIN utxo' = DOMAIN u
         /\ \A id \in DOMAIN u : utxo'[id] = cut(u[id])
    <2> HIDE DEF cut
    <2> QED BY <1>1
  <1> HIDE DEF cut
  <1>14. utxo' \in SetsOver(J)
    <2>1. utxo' = [id \in DOMAIN utxo' |-> utxo'[id]]
      BY <1>1
    <2>2. \A id \in DOMAIN utxo' : utxo'[id] \in Entries
      BY <1>11, <1>12, <1>13
    <2>3. utxo' \in [DOMAIN utxo' -> Entries] /\ DOMAIN utxo' \in SUBSET J
      BY <1>11, <1>13, <2>1, <2>2
    <2> QED BY <2>3, SetFacts
  <1>15. EntriesFit(utxo')
    BY <1>4, <1>11, <1>12, <1>13 DEF EntriesFit
  <1>16. Shares(utxo', blocks')
    <2> SUFFICES ASSUME NEW id \in DOMAIN u, utxo'[id].home # Nowhere
                 PROVE  /\ utxo'[id].home \in PlacesIn(blocks')
                        /\ TxAt(blocks', utxo'[id].home).id = id
                        /\ IsPrefix(utxo'[id].outs, TxAt(blocks', utxo'[id].home).outs)
      BY <1>13 DEF Shares
    <2>1. utxo'[id] = u[id] /\ ~(u[id].home[1] > m)
      BY <1>11, <1>12, <1>13
    <2>2. /\ u[id].home \in PlacesIn(d) /\ TxAt(d, u[id].home).id = id
          /\ IsPrefix(u[id].outs, TxAt(d, u[id].home).outs)
      BY <1>4, <2>1 DEF Shares
    <2>3. u[id].home \in PlacesIn(blocks')
      <3>1. u[id].home[1] \in Nat
        BY <2>2 DEF PlacesIn
      <3>2. u[id].home[1] <= m
        BY <1>5, <2>1, <3>1
      <3> QED BY <1>7, <2>2, <3>2
    <2> QED BY <1>7, <2>1, <2>2, <2>3
  <1>17. Len(blocks') \in 1..MaxHeight /\ pending' \in Seq(TxsOver(J))
    BY <1>3, <1>5, <1>7, <1>10
  <1>18. PICK K : K = J
    OBVIOUS
  <1>19. LedgerOver(K)'
    BY <1>18, <1>5, <1>7, <1>10, <1>14, <1>15, <1>16, <1>17 DEF LedgerOver
  <1> QED BY <1>19 DEF LedgerOK

(* The invariant is inductive.                                             *)
LEMMA NextOK == ASSUME LedgerAssumption, LedgerOK, [Next]_vars PROVE LedgerOK'
  <1>1. PICK I : LedgerOver(I)
    BY DEF LedgerOK
  <1>2. CASE Next
    <2>1. ASSUME NEW pair \in Transfers, NEW amount \in Amounts,
                 CreateTransaction(pair[1], pair[2], amount)
          PROVE  LedgerOK'
      BY <1>1, <2>1, CreateStep
    <2>2. ASSUME NEW n \in 0..Len(pending), RejectBlock(n) PROVE LedgerOK'
      BY <1>1, <2>2, RejectStep
    <2>3. ASSUME NEW n \in 0..Len(pending), NEW m \in Miners, AddBlock(n, m) PROVE LedgerOK'
      BY <1>1, <2>3, AddStep
    <2>4. ASSUME NEW n \in 0..Len(pending), NEW m \in Miners, FailBlock(n, m) PROVE LedgerOK'
      BY <1>1, <2>4, FailStep
    <2> QED BY <1>2, <2>1, <2>2, <2>3, <2>4 DEF Next
  <1>3. CASE UNCHANGED vars
    <2>1. LedgerOver(I)'
      BY <1>1, <1>3 DEF LedgerOver, vars
    <2> QED BY <2>1 DEF LedgerOK
  <1> QED BY <1>2, <1>3

(* The inductive invariant: the ledger is one over some set of ids, always.*)
THEOREM AlwaysOK == Spec => []LedgerOK
  <1>1. Init => LedgerOK
    BY LedgerAssumption, InitOK
  <1>2. LedgerOK /\ [Next]_vars => LedgerOK'
    BY LedgerAssumption, NextOK
  <1> QED BY <1>1, <1>2, PTL DEF Spec

(* Transactions over I have the shape that TypeOK asks for.                *)
LEMMA TxsAreTyped ==
    ASSUME NEW I, I \subseteq IdsOver(I), NEW t \in TxsOver(I)
    PROVE  IsTx(t)
  <1>1. /\ t = [id |-> t.id, outs |-> t.outs, signed |-> t.signed]
        /\ t.id \in I /\ t.outs \in Seq(Output) /\ t.id.outs \in Seq(Output)
        /\ t.signed \in Seq(Signature) /\ Len(t.signed) = Len(t.id.ins) /\ t.id.label \in Labels
    BY TxFacts
  <1>2. DOMAIN t = {"id", "outs", "signed"}
    BY <1>1
  <1>3. DOMAIN t.id = {"ins", "outs", "label"}
    BY <1>1 DEF IdsOver
  <1>4. Range(t.outs) \subseteq Output /\ Range(t.id.outs) \subseteq Output
    <2>1. \A s \in Seq(Output) : Range(s) \subseteq Output
      BY DEF Range
    <2> QED BY <1>1, <2>1
  <1>5. Range(t.signed) \subseteq Signature
    <2>1. \A s \in Seq(Signature) : Range(s) \subseteq Signature
      BY DEF Range
    <2> QED BY <1>1, <2>1
  <1> QED BY <1>1, <1>2, <1>3, <1>4, <1>5 DEF IsTx, Labels

(* The type invariant follows from the inductive one.                      *)
LEMMA TypeFollows == ASSUME LedgerOK PROVE TypeOK
  <1>1. PICK I : LedgerOver(I)
    BY DEF LedgerOK
  <1>2. /\ I \subseteq IdsOver(I) /\ blocks \in ChainsOver(I) /\ Len(blocks) \in 1..MaxHeight
        /\ pending \in Seq(TxsOver(I)) /\ Len(pending) <= MaxPending
        /\ utxo \in SetsOver(I) /\ EntriesFit(utxo) /\ Shares(utxo, blocks)
    BY <1>1 DEF LedgerOver
  <1>3. ASSUME NEW t \in Confirmed PROVE IsTx(t)
    <2>1. PICK p \in PlacesIn(blocks) : TxAt(blocks, p) = t
      BY <1>2, ConfirmedFacts
    <2>2. t \in TxsOver(I)
      BY <1>2, <2>1, ChainFacts
    <2> QED BY <1>2, <2>2, TxsAreTyped
  <1>4. ASSUME NEW t \in Range(pending) PROVE IsTx(t)
    <2>1. t \in TxsOver(I)
      BY <1>2 DEF Range
    <2> QED BY <1>2, <2>1, TxsAreTyped
  <1>5. ASSUME NEW id \in DOMAIN utxo
        PROVE  /\ utxo[id].outs # <<>>
               /\ utxo[id].home # Nowhere =>
                     /\ blocks[utxo[id].home[1]][utxo[id].home[2]].id = id
                     /\ IsPrefix(utxo[id].outs, blocks[utxo[id].home[1]][utxo[id].home[2]].outs)
    <2>1. Len(utxo[id].outs) >= 1
      BY <1>2 DEF EntriesFit
    <2>2. utxo[id].outs # <<>>
      BY <2>1
    <2> QED BY <1>2, <2>2 DEF Shares, TxAt
  <1> QED BY <1>2, <1>3, <1>4, <1>5 DEF TypeOK

(* The type invariant: in every reachable state, for any addresses and     *)
(* amounts, every transaction has its shape and every entry of the UTXO    *)
(* set is the front of the outputs that its home transaction shows.        *)
THEOREM TypeCorrect == Spec => []TypeOK
  <1>1. LedgerOK => TypeOK
    BY TypeFollows
  <1> QED BY <1>1, AlwaysOK, PTL

(* So does the safety of the lookups of VerifyTransaction.                 *)
LEMMA NoPanicFollows == ASSUME LedgerOK PROVE VerifyNeverPanics
  <1>1. PICK I : LedgerOver(I)
    BY DEF LedgerOK
  <1>2. /\ I \subseteq IdsOver(I) /\ blocks \in ChainsOver(I)
        /\ pending \in Seq(TxsOver(I))
        /\ \A k \in 1..Len(pending) : \A j \in 1..Len(pending[k].id.ins) :
              Names(blocks, pending[k].id.ins[j])
    BY <1>1 DEF LedgerOver
  <1> SUFFICES ASSUME NEW t \in Range(pending), NEW in \in Range(t.id.ins)
               PROVE  /\ \E x \in Confirmed : x.id = in.tx
                      /\ in.idx \in DOMAIN FindTransaction(in.tx).outs
    BY DEF VerifyNeverPanics
  <1>3. PICK k \in 1..Len(pending) : t = pending[k]
    BY <1>2 DEF Range
  <1>4. t \in TxsOver(I)
    BY <1>2, <1>3, ElementIn
  <1>5. t.id.ins \in Seq(InputsOver(I))
    BY <1>2, <1>4, TxFacts
  <1>6. PICK j \in 1..Len(t.id.ins) : in = t.id.ins[j]
    BY <1>5 DEF Range
  <1>7. Names(blocks, in)
    BY <1>2, <1>3, <1>6
  <1>8. in.idx \in DOMAIN FindTransaction(in.tx).outs
    BY <1>2, <1>7, RecordedOwnerFacts
  <1>9. \E x \in Confirmed : x.id = in.tx
    <2>1. PICK p \in PlacesIn(blocks) : TxAt(blocks, p).id = in.tx
      BY <1>7 DEF Names
    <2>2. TxAt(blocks, p) \in Confirmed
      BY <1>2, ConfirmedFacts
    <2> QED BY <2>1, <2>2
  <1> QED BY <1>8, <1>9

(* VerifyTransaction never reads past the outputs of a block's transaction *)
(* (transaction.go:185), whatever was spent, failed or shifted since the   *)
(* transaction it verifies was made.                                       *)
THEOREM NoPanics == Spec => []VerifyNeverPanics
  <1>1. LedgerOK => VerifyNeverPanics
    BY NoPanicFollows
  <1> QED BY <1>1, AlwaysOK, PTL

-----------------------------------------------------------------------------
(* AddBlock's updates succeed when no two inputs are in conflict.          *)

(* The input k of the i-th pending transaction.                            *)
In(i, k) == pending[i].id.ins[k]

(* No input is without its output, and no two name the same transaction.   *)
NoConflict(n) ==
    /\ \A i \in 1..n : \A k \in 1..Len(pending[i].id.ins) : HasOutput(utxo, In(i, k))
    /\ \A i, j \in 1..n : \A k \in 1..Len(pending[i].id.ins) : \A l \in 1..Len(pending[j].id.ins) :
          In(i, k).tx = In(j, l).tx => i = j /\ k = l

(* The set has the outputs of the inputs that come after the k-th of the   *)
(* i-th transaction.                                                       *)
HasLater(u, n, i, k) ==
    \A j \in 1..n : \A l \in 1..Len(pending[j].id.ins) :
        j > i \/ (j = i /\ l > k) => HasOutput(u, In(j, l))

(* The removals of the inputs of the i-th pending transaction succeed.     *)
LEMMA RemovalsSucceed ==
    ASSUME NEW I, LedgerOver(I), NEW n \in 0..Len(pending), NoConflict(n),
           NEW J, NEW c, NEW i \in 1..n, NEW g, NEW w,
           Removals(g, w, pending[i].id.ins, Len(pending[i].id.ins), WorldsOver(J, c)),
           w.ok = TRUE, HasLater(w.utxo, n, i, 0)
    PROVE  /\ g[Len(pending[i].id.ins)].ok = TRUE
           /\ HasLater(g[Len(pending[i].id.ins)].utxo, n, i, Len(pending[i].id.ins))
  <1> DEFINE ins == pending[i].id.ins
             L == Len(ins)
             V == WorldsOver(J, c)
             Good(k) == g[k].ok = TRUE /\ HasLater(g[k].utxo, n, i, k)
             S == {k \in Nat : k <= L => Good(k)}
  <1>1. ins \in Seq(InputsOver(I)) /\ L \in Nat
    <2>1. I \subseteq IdsOver(I) /\ pending \in Seq(TxsOver(I)) /\ i \in 1..Len(pending)
      BY DEF LedgerOver
    <2>2. pending[i] \in TxsOver(I)
      BY <2>1, ElementIn
    <2>3. ins \in Seq(InputsOver(I))
      BY <2>1, <2>2, TxFacts
    <2> QED BY <2>3
  <1>2. /\ g \in [0..L -> V] /\ g[0] = w
        /\ \A k \in 1..L : g[k] = RemoveUTXO(g[k - 1], ins[k])
    BY DEF Removals
  <1>3. 0 \in S
    BY <1>2
  <1>4. ASSUME NEW k \in Nat, k + 1 <= L, Good(k) PROVE Good(k + 1)
    <2> DEFINE in == ins[k + 1]
               v == g[k]
               r == g[k + 1]
    <2>1. k + 1 \in 1..L /\ (k + 1) - 1 = k /\ k \in 0..L
      BY <1>1, <1>4
    <2>2. v \in V /\ r = RemoveUTXO(v, in) /\ v.ok = TRUE /\ HasLater(v.utxo, n, i, k)
      <3> HIDE DEF V
      <3> QED BY <1>2, <1>4, <2>1
    <2>3. in \in InputsOver(I) /\ in.idx \in Nat \ {0}
      <3>1. in \in InputsOver(I)
        BY <1>1, <2>1, ElementIn
      <3> QED BY <3>1 DEF InputsOver
    <2>4. HasOutput(v.utxo, in)
      <3>1. k + 1 > k /\ in = In(i, k + 1)
        BY DEF In
      <3> QED BY <2>1, <2>2, <3>1 DEF HasLater
    <2> HIDE DEF v, r, in, V
    <2>5. Removed(v, r, in)
      BY <2>2, <2>3, <2>4, RemoveUTXOFacts DEF V
    <2>6. r.ok = TRUE
      BY <2>5 DEF Removed
    <2>7. ASSUME NEW j \in 1..n, NEW l \in 1..Len(pending[j].id.ins),
                 j > i \/ (j = i /\ l > k + 1)
          PROVE  HasOutput(r.utxo, In(j, l))
      <3>1. j > i \/ (j = i /\ l > k)
        BY <2>7
      <3>2. HasOutput(v.utxo, In(j, l))
        BY <2>2, <2>7, <3>1 DEF HasLater
      <3>3. In(j, l).tx # in.tx
        <4>1. in = In(i, k + 1) /\ (j # i \/ l # k + 1)
          BY <2>7 DEF in, In
        <4> QED BY <2>1, <2>7, <4>1 DEF NoConflict
      <3>4. /\ In(j, l).tx \in DOMAIN r.utxo
            /\ r.utxo[In(j, l).tx] = v.utxo[In(j, l).tx]
        BY <2>5, <3>2, <3>3 DEF Removed, HasOutput
      <3> QED BY <3>2, <3>4 DEF HasOutput
    <2>8. HasLater(r.utxo, n, i, k + 1)
      BY <2>7 DEF HasLater
    <2> QED BY <2>6, <2>8 DEF r
  <1> HIDE DEF Good
  <1>5. ASSUME NEW k \in Nat, k \in S PROVE k + 1 \in S
    <2>1. ASSUME k + 1 <= L PROVE Good(k + 1)
      BY <1>1, <1>5, <1>4, <2>1
    <2> QED BY <2>1
  <1> HIDE DEF S
  <1>6. L \in S
    BY <1>1, <1>3, <1>5, Induction
  <1> QED BY <1>6, <1>1 DEF S, Good

(* With nothing in conflict, all updates of AddBlock succeed.              *)
LEMMA UpdatesSucceed ==
    ASSUME LedgerAssumption, NEW I, LedgerOver(I), NEW n \in 0..Len(pending), NoConflict(n),
           NEW miner \in Miners, Len(blocks) < MaxHeight
    PROVE  Updated(Candidate(n, miner)).ok = TRUE
  <1> DEFINE J == I \cup {Coinbase(miner, Len(blocks)).id}
             c == Append(blocks, Candidate(n, miner))
             s == Start(n, miner)
             h == Len(blocks) + 1
             V == WorldsOver(J, c)
             Ins(i) == pending[i].id.ins
  <1>1. Extended(J, c, n, miner) /\ s \in V
    BY UpdatedFacts
  <1>2. PICK f : Updates(f, s, h, n + 1, V) /\ Updated(Candidate(n, miner)) = f[n + 1]
    BY UpdatedFacts
  <1>3. s.ok = TRUE /\ s.utxo = utxo /\ s.chain = c
    BY DEF Start, World
  <1>4. Coinbase(miner, Len(blocks)).id.ins = <<>>
    BY DEF Coinbase, NewTx, Hash
  <1> HIDE DEF J, c, s
  <1>5. /\ J \subseteq IdsOver(J) /\ Len(c) = h /\ h \in 1..Len(c) /\ Len(c[h]) = n + 1
        /\ c[h][1].id.ins = <<>> /\ \A i \in 1..n : c[h][i + 1] = pending[i]
        /\ n \in Nat
    <2>1. Len(blocks) \in Nat /\ n \in Nat
      BY DEF LedgerOver
    <2> QED BY <1>1, <1>4, <2>1 DEF Extended
  <1> HIDE DEF h, V
  <1>6. /\ f \in [0..(n + 1) -> V] /\ f[0] = s
        /\ \A m \in 1..(n + 1) : f[m] = UpdateNext(f[m - 1], <<h, m>>)
    BY <1>2 DEF Updates
  <1> DEFINE Good(m) == f[m].ok = TRUE /\ HasLater(f[m].utxo, n, m - 1, Len(Ins(m - 1)))
             S == {m \in Nat : m <= n + 1 => Good(m)}
  <1>7. 0 \in S
    <2>1. HasLater(utxo, n, 0 - 1, Len(Ins(0 - 1)))
      BY DEF NoConflict, HasLater
    <2> QED BY <1>3, <1>6, <2>1
  <1>8. ASSUME NEW m \in Nat, m + 1 <= n + 1, Good(m) PROVE Good(m + 1)
    <2> DEFINE w == f[m]
               r == f[m + 1]
               at == <<h, m + 1>>
               t == TxAt(w.chain, at)
    <2>1. m + 1 \in 1..(n + 1) /\ (m + 1) - 1 = m /\ m \in 0..(n + 1) /\ m <= n + 1 /\ m <= n
      BY <1>5, <1>8
    <2>2. w \in V /\ r = UpdateNext(w, at) /\ w.ok = TRUE
          /\ HasLater(w.utxo, n, m - 1, Len(Ins(m - 1)))
      <3> QED BY <1>6, <1>8, <2>1
    <2> HIDE DEF w, r, Ins
    <2>3. r = Update(w, at)
      BY <2>2 DEF UpdateNext
    <2>4. at \in PlacesIn(w.chain) /\ t.id = c[h][m + 1].id /\ t \in TxsOver(J)
      <3>1. at \in PlacesIn(c) /\ TxAt(c, at) = c[h][m + 1]
        BY <1>5, <2>1 DEF PlacesIn, TxAt
      <3>2. SameShape(w.chain, c) /\ w.chain \in ChainsOver(J)
        BY <2>2, WorldFacts DEF V
      <3>3. at \in PlacesIn(w.chain) /\ t.id = c[h][m + 1].id
        BY <3>1, <3>2, ShapeFacts
      <3> QED BY <3>2, <3>3, ChainFacts
    <2>5. UpdatedBy(w, r, at, V)
      <3> HIDE DEF at
      <3> QED BY <1>5, <2>2, <2>3, <2>4, UpdateFacts DEF V
    <2>6. /\ Len(t.outs) = Len(t.id.outs) /\ t.id \in J
      <3> HIDE DEF t
      <3> QED BY <1>5, <2>4, TxFacts
    <2> DEFINE ins == t.id.ins
    <2>7. PICK g : /\ Removals(g, w, ins, Len(ins), V)
                   /\ IF g[Len(ins)].ok THEN Added(g[Len(ins)], r, at) ELSE r = g[Len(ins)]
      BY <2>5 DEF UpdatedBy
    <2> HIDE DEF t, at
    <2> DEFINE q == g[Len(ins)]
    <2>8. q.ok = TRUE /\ HasLater(q.utxo, n, m, Len(Ins(m)))
      <3>1. CASE m = 0
        <4>1. ins = <<>> /\ Len(ins) = 0
          BY <1>5, <2>4, <3>1
        <4>2. q = w
          BY <2>7, <4>1 DEF Removals
        <4>3. HasLater(w.utxo, n, m, Len(Ins(m)))
          <5>1. \A j \in 1..n : j > m - 1 /\ (j > m \/ j = m => j > m - 1)
            BY <3>1
          <5> QED BY <2>2, <5>1 DEF HasLater
        <4> QED BY <2>2, <4>2, <4>3
      <3>2. CASE m # 0
        <4>1. m \in 1..n
          BY <2>1, <3>2
        <4>2. ins = Ins(m)
          BY <1>5, <2>4, <4>1 DEF Ins
        <4>3. HasLater(w.utxo, n, m, 0)
          <5>1. \A j \in 1..n : (j > m \/ j = m) => j > m - 1
            BY <4>1
          <5> QED BY <2>2, <5>1 DEF HasLater
        <4>4. /\ Removals(g, w, pending[m].id.ins, Len(pending[m].id.ins), V)
              /\ q = g[Len(pending[m].id.ins)]
          BY <2>7, <4>2 DEF Ins
        <4>5. /\ Removals(g, w, pending[m].id.ins, Len(pending[m].id.ins), WorldsOver(J, c))
              /\ w.ok = TRUE /\ m \in 1..n /\ n \in 0..Len(pending)
              /\ LedgerOver(I) /\ NoConflict(n) /\ HasLater(w.utxo, n, m, 0)
          BY <2>2, <4>1, <4>3, <4>4 DEF V
        <4>6. /\ g[Len(pending[m].id.ins)].ok = TRUE
              /\ HasLater(g[Len(pending[m].id.ins)].utxo, n, m, Len(pending[m].id.ins))
          BY <4>5, RemovalsSucceed
        <4> QED BY <4>4, <4>6 DEF Ins
      <3> QED BY <3>1, <3>2
    <2>9. Added(q, r, at) /\ q \in V
      <3>1. Len(ins) \in 0..Len(ins)
        <4>1. ins \in Seq(InputsOver(J))
          BY <1>5, <2>4, TxFacts
        <4> QED BY <4>1
      <3>2. q \in V
        BY <2>7, <3>1 DEF Removals
      <3> QED BY <2>7, <2>8, <3>2
    <2> HIDE DEF q
    <2>10. TxAt(q.chain, at).id = t.id /\ TxAt(q.chain, at) \in TxsOver(J)
      <3>1. SameShape(w.chain, c) /\ SameShape(q.chain, c) /\ q.chain \in ChainsOver(J)
        BY <2>2, <2>9, WorldFacts DEF V
      <3>2. /\ PlacesIn(w.chain) = PlacesIn(c) /\ PlacesIn(q.chain) = PlacesIn(c)
            /\ TxAt(q.chain, at).id = TxAt(c, at).id /\ TxAt(w.chain, at).id = TxAt(c, at).id
        BY <2>4, <3>1, ShapeFacts
      <3> QED BY <2>4, <3>1, <3>2, ChainFacts DEF t
    <2>11. r.ok = TRUE
      BY <2>8, <2>9 DEF Added
    <2>12. ASSUME NEW j \in 1..n, NEW l \in 1..Len(pending[j].id.ins),
                  j > m \/ (j = m /\ l > Len(Ins(m)))
           PROVE  HasOutput(r.utxo, In(j, l))
      <3>1. HasOutput(q.utxo, In(j, l))
        BY <2>8, <2>12 DEF HasLater
      <3>2. CASE In(j, l).tx # t.id
        BY <2>9, <2>10, <3>1, <3>2 DEF Added, HasOutput
      <3>3. CASE In(j, l).tx = t.id
        <4>1. /\ t.id \in DOMAIN r.utxo /\ r.utxo[t.id].outs = TxAt(q.chain, at).outs
          BY <2>9, <2>10 DEF Added
        <4>2. Len(TxAt(q.chain, at).outs) = Len(t.id.outs)
          <5> DEFINE x == TxAt(q.chain, at)
          <5> HIDE DEF x
          <5>1. x \in TxsOver(J) /\ x.id = t.id
            BY <2>10 DEF x
          <5>2. Len(x.outs) = Len(x.id.outs)
            BY <1>5, <5>1, TxFacts
          <5> QED BY <5>1, <5>2 DEF x
        <4>3. In(j, l).idx \in 1..Len(t.id.outs)
          <5>1. Names(blocks, In(j, l))
            <6>1. j \in 1..Len(pending)
              BY DEF LedgerOver
            <6> QED BY <6>1 DEF LedgerOver, In
          <5> QED BY <3>3, <5>1 DEF Names
        <4> QED BY <3>3, <4>1, <4>2, <4>3 DEF HasOutput
      <3> QED BY <3>2, <3>3
    <2>13. HasLater(r.utxo, n, m, Len(Ins(m)))
      BY <2>12 DEF HasLater
    <2> QED BY <2>1, <2>11, <2>13 DEF r
  <1> HIDE DEF Good
  <1>9. ASSUME NEW m \in Nat, m \in S PROVE m + 1 \in S
    <2>1. ASSUME m + 1 <= n + 1 PROVE Good(m + 1)
      BY <1>5, <1>9, <1>8, <2>1
    <2> QED BY <2>1
  <1> HIDE DEF S
  <1>10. n + 1 \in S
    BY <1>5, <1>7, <1>9, Induction
  <1> QED BY <1>2, <1>5, <1>10 DEF S, Good

(* The inputs of the first n pending transactions, one after the other.    *)
InputsOf(n) == FlattenSeq([i \in 1..n |-> pending[i].id.ins])

(* What FailsOnlyOnConflict says of them.                                  *)
Conflict(s) ==
    \/ \E in \in Range(s) : in.tx \notin DOMAIN utxo \/ in.idx > Len(utxo[in.tx].outs)
    \/ ~IsInjective([k \in DOMAIN s |-> s[k].tx])

(* A conflict among the inputs shows in their sequence.                    *)
LEMMA ConflictShows ==
    ASSUME NEW I, LedgerOver(I), NEW n \in 0..Len(pending), ~NoConflict(n)
    PROVE  Conflict(InputsOf(n))
  <1> DEFINE lists == [i \in 1..n |-> pending[i].id.ins]
             s == FlattenSeq(lists)
             X == InputsOver(I)
  <1>1. /\ I \subseteq IdsOver(I) /\ pending \in Seq(TxsOver(I)) /\ n \in Nat
        /\ Len(pending) \in Nat /\ utxo \in SetsOver(I)
    BY DEF LedgerOver
  <1>2. ASSUME NEW i \in 1..n PROVE pending[i].id.ins \in Seq(X)
    <2>1. pending[i] \in TxsOver(I)
      BY <1>1, ElementIn
    <2> QED BY <1>1, <2>1, TxFacts
  <1> HIDE DEF X
  <1>3. /\ lists \in Seq(Seq(X)) /\ Len(lists) = n
        /\ \A i \in 1..n : lists[i] = pending[i].id.ins
    BY <1>1, <1>2
  <1> HIDE DEF lists
  <1>4. s \in Seq(X) /\ \E pos : Flattened(pos, lists)
    BY <1>3, FlattenPlaces
  <1>5. PICK pos : Flattened(pos, lists)
    BY <1>4
  <1>6. s = InputsOf(n)
    BY DEF InputsOf, lists
  <1> HIDE DEF s
  <1>7. ASSUME NEW i \in 1..n, NEW k \in 1..Len(pending[i].id.ins)
        PROVE  /\ <<i, k>> \in PlacesIn(lists) /\ pos[<<i, k>>] \in DOMAIN s
               /\ s[pos[<<i, k>>]] = In(i, k)
    <2>1. <<i, k>> \in PlacesIn(lists)
      <3>1. Len(pending[i].id.ins) \in Nat
        BY <1>2
      <3> QED BY <1>1, <1>3, <3>1 DEF PlacesIn
    <2>2. pos[<<i, k>>] \in 1..Len(s) /\ s[pos[<<i, k>>]] = lists[i][k]
      BY <1>5, <2>1 DEF Flattened, s
    <2> QED BY <1>3, <1>4, <2>1, <2>2 DEF In
  <1>8. CASE \E i \in 1..n : \E k \in 1..Len(pending[i].id.ins) : ~HasOutput(utxo, In(i, k))
    <2>1. PICK i \in 1..n : \E k \in 1..Len(pending[i].id.ins) : ~HasOutput(utxo, In(i, k))
      BY <1>8
    <2>2. PICK k \in 1..Len(pending[i].id.ins) : ~HasOutput(utxo, In(i, k))
      BY <2>1
    <2> DEFINE in == In(i, k)
    <2>3. in \in Range(s) /\ in \in X
      <3>1. pos[<<i, k>>] \in DOMAIN s /\ s[pos[<<i, k>>]] = in
        BY <1>7
      <3> HIDE DEF in
      <3> QED BY <1>4, <3>1 DEF Range
    <2> HIDE DEF in
    <2>4. in.tx \notin DOMAIN utxo \/ ~(in.idx <= Len(utxo[in.tx].outs))
      BY <2>2 DEF HasOutput, in
    <2>5. in.idx \in Nat /\ (in.tx \in DOMAIN utxo => Len(utxo[in.tx].outs) \in Nat)
      <3>1. in.idx \in Nat
        BY <2>3 DEF X, InputsOver
      <3>2. \A id \in DOMAIN utxo : utxo[id] \in Entries
        BY <1>1, SetFacts
      <3>3. \A e \in Entries : Len(e.outs) \in Nat
        BY DEF Entries
      <3> QED BY <3>1, <3>2, <3>3
    <2>6. in.tx \notin DOMAIN utxo \/ in.idx > Len(utxo[in.tx].outs)
      BY <2>4, <2>5
    <2> QED BY <1>6, <2>3, <2>6 DEF Conflict
  <1>9. CASE ~(\E i \in 1..n : \E k \in 1..Len(pending[i].id.ins) : ~HasOutput(utxo, In(i, k)))
    <2>1. PICK i \in 1..n, j \in 1..n : \E k \in 1..Len(pending[i].id.ins) :
                                        \E l \in 1..Len(pending[j].id.ins) :
             In(i, k).tx = In(j, l).tx /\ ~(i = j /\ k = l)
      BY <1>9 DEF NoConflict
    <2>2. PICK k \in 1..Len(pending[i].id.ins), l \in 1..Len(pending[j].id.ins) :
             In(i, k).tx = In(j, l).tx /\ ~(i = j /\ k = l)
      BY <2>1
    <2> DEFINE p == <<i, k>>
               q == <<j, l>>
               txs == [x \in DOMAIN s |-> s[x].tx]
    <2>3. /\ p \in PlacesIn(lists) /\ pos[p] \in DOMAIN s /\ s[pos[p]] = In(i, k)
          /\ q \in PlacesIn(lists) /\ pos[q] \in DOMAIN s /\ s[pos[q]] = In(j, l)
      BY <1>7
    <2>4. p # q
      BY <2>2
    <2> HIDE DEF p, q
    <2>5. pos[p] # pos[q]
      BY <1>5, <2>3, <2>4 DEF Flattened
    <2>6. txs[pos[p]] = txs[pos[q]] /\ pos[p] \in DOMAIN txs /\ pos[q] \in DOMAIN txs
      BY <2>2, <2>3
    <2>7. ~IsInjective(txs)
      BY <2>5, <2>6 DEF IsInjective
    <2> QED BY <1>6, <2>7 DEF Conflict
  <1> QED BY <1>8, <1>9

(* Every step that drops a block after touching the set has a conflict.    *)
LEMMA FailStepConflicts ==
    ASSUME LedgerAssumption, NEW I, LedgerOver(I), Next,
           Len(pending') < Len(pending), Len(blocks') = Len(blocks), utxo' # utxo
    PROVE  LET n == Len(pending) - Len(pending') IN Conflict(InputsOf(n))
  <1>1. /\ pending \in Seq(TxsOver(I)) /\ Len(pending) \in Nat
        /\ Len(blocks) \in Nat
    BY DEF LedgerOver
  <1>2. ASSUME NEW pair \in Transfers, NEW amount \in Amounts,
               CreateTransaction(pair[1], pair[2], amount)
        PROVE  FALSE
    BY <1>2 DEF CreateTransaction
  <1>3. ASSUME NEW n \in 0..Len(pending), RejectBlock(n) PROVE FALSE
    BY <1>3 DEF RejectBlock
  <1>4. ASSUME NEW n \in 0..Len(pending), NEW m \in Miners, AddBlock(n, m) PROVE FALSE
    <2> DEFINE J == I \cup {Coinbase(m, Len(blocks)).id}
               c == Append(blocks, Candidate(n, m))
               w == Updated(Candidate(n, m))
    <2>1. Len(blocks) < MaxHeight /\ blocks' = w.chain
      BY <1>4 DEF AddBlock, HandOver
    <2>2. Extended(J, c, n, m) /\ w \in WorldsOver(J, c)
      BY <2>1, UpdatedFacts
    <2> HIDE DEF J, c, w
    <2>3. Len(w.chain) = Len(c) /\ Len(c) = Len(blocks) + 1
      BY <2>2 DEF WorldsOver, SameShape, Extended
    <2> QED BY <1>1, <2>1, <2>3
  <1>5. ASSUME NEW n \in 0..Len(pending), NEW m \in Miners, FailBlock(n, m)
        PROVE  Conflict(InputsOf(Len(pending) - Len(pending')))
    <2>1. /\ Len(blocks) < MaxHeight /\ pending' = SubSeq(pending, n + 1, Len(pending))
          /\ ~Updated(Candidate(n, m)).ok
      BY <1>5 DEF FailBlock, HandOver
    <2>2. ~NoConflict(n)
      <3>1. NoConflict(n) => Updated(Candidate(n, m)).ok = TRUE
        BY <2>1, UpdatesSucceed
      <3> QED BY <2>1, <3>1
    <2>3. Len(pending') = Len(pending) - n
      BY <1>1, <2>1, RestFacts
    <2>4. Len(pending) - Len(pending') = n
      BY <1>1, <2>3
    <2> QED BY <2>2, <2>4, ConflictShows
  <1> QED BY <1>2, <1>3, <1>4, <1>5 DEF Next

(* AddBlock fails halfway only over a real conflict among the inputs it is *)
(* handed: one whose output is gone, or two that name one transaction.     *)
THEOREM OnlyConflictsFail == Spec => FailsOnlyOnConflict
  <1> DEFINE A == Len(pending') < Len(pending) /\ Len(blocks') = Len(blocks) /\ utxo' # utxo =>
                     \/ \E in \in Range(HandedInputs) :
                           in.tx \notin DOMAIN utxo \/ in.idx > Len(utxo[in.tx].outs)
                     \/ ~IsInjective([k \in DOMAIN HandedInputs |-> HandedInputs[k].tx])
  <1>1. LedgerOK /\ [Next]_vars => [A]_vars
    <2> SUFFICES ASSUME LedgerOK, Next,
                        Len(pending') < Len(pending), Len(blocks') = Len(blocks), utxo' # utxo
                 PROVE  Conflict(HandedInputs)
      BY DEF Conflict
    <2>1. PICK I : LedgerOver(I)
      BY DEF LedgerOK
    <2>2. HandedInputs = InputsOf(Len(pending) - Len(pending'))
      BY DEF HandedInputs, InputsOf
    <2>3. Conflict(InputsOf(Len(pending) - Len(pending')))
      BY <2>1, FailStepConflicts, LedgerAssumption
    <2> QED BY <2>2, <2>3
  <1> QED BY <1>1, AlwaysOK, PTL DEF Spec, FailsOnlyOnConflict

-----------------------------------------------------------------------------
(* One payment at a time: what an update of the set is worth. *)

(* What an output is worth to the addresses in who.                        *)
Share(o, who) == IF o.owner \in who THEN o.value ELSE 0

(* The terms of Worth.                                                     *)
SharesOf(outs, who) == [i \in 1..Len(outs) |-> Share(outs[i], who)]

(* Worth is a sum of integers, and the last of its partial sums.           *)
LEMMA WorthFacts ==
    ASSUME NEW outs \in Seq(Output), NEW who
    PROVE  /\ Len(outs) \in Nat
           /\ SharesOf(outs, who) \in [1..Len(outs) -> Int]
           /\ Worth(outs, who) = SumFunction(SharesOf(outs, who))
           /\ Worth(outs, who) = Partial(SharesOf(outs, who), Len(outs))
           /\ Worth(outs, who) \in Int
  <1>1. Len(outs) \in Nat /\ DOMAIN outs = 1..Len(outs)
    OBVIOUS
  <1>2. ASSUME NEW i \in 1..Len(outs) PROVE Share(outs[i], who) \in Int
    <2>1. outs[i] \in Output
      BY ElementIn
    <2> QED BY <2>1 DEF Output, Share
  <1>3. SharesOf(outs, who) \in [1..Len(outs) -> Int]
    BY <1>2 DEF SharesOf
  <1>4. Worth(outs, who) = SumFunction(SharesOf(outs, who))
    BY <1>1 DEF Worth, SharesOf, Share
  <1> QED BY <1>1, <1>3, <1>4, PartialSums

(* Removing an output takes what it is worth.                              *)
LEMMA WorthLeft ==
    ASSUME NEW outs \in Seq(Output), NEW i \in 1..Len(outs), NEW who
    PROVE  Worth(RemoveAt(outs, i), who) = Worth(outs, who) - Share(outs[i], who)
  <1> DEFINE kept == RemoveAt(outs, i)
             l == Len(outs)
             f == SharesOf(outs, who)
             g == SharesOf(kept, who)
  <1>1. /\ kept \in Seq(Output) /\ Len(kept) = l - 1 /\ l \in Nat
        /\ \A k \in 1..(l - 1) : kept[k] = IF k < i THEN outs[k] ELSE outs[k + 1]
    BY RemoveAtFacts
  <1> HIDE DEF kept
  <1>2. /\ f \in [1..l -> Int] /\ Worth(outs, who) = Partial(f, l)
        /\ g \in [1..(l - 1) -> Int] /\ Worth(kept, who) = Partial(g, l - 1)
    BY <1>1, WorthFacts
  <1>3. ASSUME NEW k \in 1..(l - 1) PROVE g[k] = IF k < i THEN f[k] ELSE f[k + 1]
    <2>1. g[k] = Share(kept[k], who) /\ k \in 1..l /\ k + 1 \in 1..l
      BY <1>1 DEF SharesOf
    <2>2. f[k] = Share(outs[k], who) /\ f[k + 1] = Share(outs[k + 1], who)
      BY <2>1 DEF SharesOf
    <2> HIDE DEF f, g
    <2> QED BY <1>1, <2>1, <2>2
  <1>4. f[i] = Share(outs[i], who)
    BY DEF SharesOf
  <1> HIDE DEF f, g, l
  <1>5. /\ Partial(f, 0) = 0 /\ Partial(g, 0) = 0 /\ l \in Nat \ {0} /\ l - 1 \in Nat /\ i \in 1..l
        /\ \A n \in 0..l : Partial(f, n) \in Int
        /\ \A n \in 1..l : Partial(f, n) = Partial(f, n - 1) + f[n] /\ f[n] \in Int
        /\ \A n \in 0..(l - 1) : Partial(g, n) \in Int
        /\ \A n \in 1..(l - 1) : Partial(g, n) = Partial(g, n - 1) + g[n]
    <2>1. l \in Nat \ {0} /\ l - 1 \in Nat /\ i \in 1..l
      BY <1>1 DEF l
    <2> QED BY <1>2, <2>1, PartialSums
  <1> DEFINE Early(n) == n < i => Partial(g, n) = Partial(f, n)
             Late(n) == n >= i - 1 => Partial(g, n) = Partial(f, n + 1) - f[i]
             Good(n) == Early(n) /\ Late(n)
             S == {n \in Nat : n <= l - 1 => Good(n)}
  <1>6. 0 \in S
    <2>1. Early(0)
      BY <1>5
    <2>2. Late(0)
      <3>1. ASSUME 0 >= i - 1 PROVE Partial(g, 0) = Partial(f, 0 + 1) - f[i]
        <4>1. i = 1 /\ 1 \in 1..l
          BY <1>5, <3>1
        <4>2. Partial(f, 1) = Partial(f, 1 - 1) + f[1] /\ f[1] \in Int
          BY <1>5, <4>1
        <4> QED BY <1>5, <4>1, <4>2
      <3> QED BY <3>1
    <2> QED BY <2>1, <2>2
  <1>7. ASSUME NEW n \in Nat, n + 1 <= l - 1, Good(n) PROVE Good(n + 1)
    <2>1. /\ n + 1 \in 1..(l - 1) /\ n + 1 \in 1..l /\ n + 2 \in 1..l /\ (n + 1) - 1 = n
          /\ (n + 2) - 1 = n + 1 /\ n \in 0..(l - 1) /\ n + 1 \in 0..l
      BY <1>5, <1>7
    <2>2. /\ Partial(g, n + 1) = Partial(g, n) + g[n + 1]
          /\ Partial(f, n + 1) = Partial(f, n) + f[n + 1]
          /\ Partial(f, n + 2) = Partial(f, n + 1) + f[n + 2]
          /\ f[n + 1] \in Int /\ f[n + 2] \in Int /\ f[i] \in Int
          /\ Partial(g, n) \in Int /\ Partial(f, n) \in Int /\ Partial(f, n + 1) \in Int
      <3>1. n \in 0..l
        BY <1>5, <2>1
      <3> QED BY <1>5, <2>1, <3>1
    <2>3. g[n + 1] = IF n + 1 < i THEN f[n + 1] ELSE f[n + 2]
      <3>1. (n + 1) + 1 = n + 2
        OBVIOUS
      <3> QED BY <1>3, <2>1, <3>1
    <2>4. CASE n + 1 < i
      <3>1. Partial(g, n) = Partial(f, n) /\ g[n + 1] = f[n + 1]
        BY <1>5, <1>7, <2>3, <2>4
      <3>2. Partial(g, n + 1) = Partial(f, n + 1)
        BY <2>2, <3>1
      <3>3. ASSUME n + 1 >= i - 1 PROVE Partial(g, n + 1) = Partial(f, (n + 1) + 1) - f[i]
        <4>1. i = n + 2 /\ (n + 1) + 1 = n + 2
          BY <1>5, <2>4, <3>3
        <4> QED BY <2>2, <3>2, <4>1
      <3> QED BY <3>2, <3>3
    <2>5. CASE ~(n + 1 < i)
      <3>1. Partial(g, n) = Partial(f, n + 1) - f[i] /\ g[n + 1] = f[n + 2]
        BY <1>5, <1>7, <2>3, <2>5
      <3>2. Partial(g, n + 1) = (Partial(f, n + 1) - f[i]) + f[n + 2]
        BY <2>2, <3>1
      <3>3. Partial(g, n + 1) = Partial(f, n + 2) - f[i]
        <4> DEFINE P == Partial(f, n + 1)
                   v == f[i]
                   x == f[n + 2]
        <4>1. /\ P \in Int /\ v \in Int /\ x \in Int
              /\ Partial(f, n + 2) = P + x /\ Partial(g, n + 1) = (P - v) + x
          BY <2>2, <3>2
        <4> HIDE DEF P, v, x
        <4> QED BY <4>1 DEF v
      <3>4. (n + 1) + 1 = n + 2
        OBVIOUS
      <3> QED BY <2>5, <3>3, <3>4
    <2> QED BY <2>4, <2>5
  <1> HIDE DEF Good
  <1>8. ASSUME NEW n \in Nat, n \in S PROVE n + 1 \in S
    <2>1. ASSUME n + 1 <= l - 1 PROVE Good(n + 1)
      BY <1>5, <1>7, <1>8, <2>1
    <2> QED BY <2>1
  <1> HIDE DEF S
  <1>9. l - 1 \in S
    BY <1>5, <1>6, <1>8, Induction
  <1>10. Good(l - 1)
    BY <1>5, <1>9 DEF S
  <1>11. Partial(g, l - 1) = Partial(f, l) - f[i]
    BY <1>5, <1>10 DEF Good
  <1> QED BY <1>2, <1>4, <1>11 DEF kept, l

(* The terms of Holdings.                                                  *)
Worths(u, who) == [id \in DOMAIN u |-> Worth(u[id].outs, who)]

(* Holdings is a sum of integers, one for each entry of the set.           *)
LEMMA HoldingsFacts ==
    ASSUME NEW I, NEW c, NEW w \in WorldsOver(I, c), NEW who
    PROVE  /\ IsFiniteSet(DOMAIN w.utxo) /\ Worths(w.utxo, who) \in [DOMAIN w.utxo -> Int]
           /\ Holdings(w.utxo, who) = SumFunction(Worths(w.utxo, who))
           /\ Holdings(w.utxo, who) \in Int
  <1>1. /\ IsFiniteSet(DOMAIN w.utxo)
        /\ \A id \in DOMAIN w.utxo : w.utxo[id].outs \in Seq(Output)
    BY WorldFacts
  <1>2. \A id \in DOMAIN w.utxo : Worth(w.utxo[id].outs, who) \in Int
    BY <1>1, WorthFacts
  <1>3. Worths(w.utxo, who) \in [DOMAIN w.utxo -> Int]
    BY <1>2 DEF Worths
  <1>4. Holdings(w.utxo, who) = SumFunction(Worths(w.utxo, who))
    BY DEF Holdings, Worths
  <1> QED BY <1>1, <1>3, <1>4, SumFacts

(* Removing an output takes its value from who owned it.                   *)
LEMMA HoldingsLeft ==
    ASSUME NEW I, NEW c, NEW w \in WorldsOver(I, c), NEW r \in WorldsOver(I, c),
           NEW in, in.idx \in Nat \ {0}, HasOutput(w.utxo, in), Removed(w, r, in), NEW who
    PROVE  Holdings(r.utxo, who) =
              Holdings(w.utxo, who) - Share(w.utxo[in.tx].outs[in.idx], who)
  <1> DEFINE D == DOMAIN w.utxo
             E == DOMAIN r.utxo
             f == Worths(w.utxo, who)
             g == Worths(r.utxo, who)
             id == in.tx
             outs == w.utxo[id].outs
             kept == RemoveAt(outs, in.idx)
  <1>1. /\ IsFiniteSet(D) /\ f \in [D -> Int] /\ Holdings(w.utxo, who) = SumFunction(f)
        /\ IsFiniteSet(E) /\ g \in [E -> Int] /\ Holdings(r.utxo, who) = SumFunction(g)
    BY HoldingsFacts
  <1>2. /\ id \in D /\ outs \in Seq(Output) /\ in.idx \in 1..Len(outs)
    <2>1. id \in D /\ in.idx <= Len(outs)
      BY DEF HasOutput
    <2>2. outs \in Seq(Output) /\ Len(outs) \in Nat
      BY <2>1, WorldFacts
    <2> QED BY <2>1, <2>2
  <1>3. /\ E = IF kept = <<>> THEN D \ {id} ELSE D
        /\ \A k \in E : k # id => r.utxo[k] = w.utxo[k]
        /\ id \in E => r.utxo[id].outs = kept
    BY DEF Removed
  <1>4. Worth(kept, who) = Worth(outs, who) - Share(outs[in.idx], who)
    BY <1>2, WorthLeft
  <1>5. kept \in Seq(Output) /\ Worth(kept, who) \in Int /\ Worth(outs, who) \in Int
    <2>1. kept \in Seq(Output)
      BY <1>2, RemoveAtFacts
    <2> HIDE DEF kept, outs
    <2> QED BY <1>2, <2>1, WorthFacts
  <1>6. Share(outs[in.idx], who) \in Int
    <2>1. outs[in.idx] \in Output
      BY <1>2, ElementIn
    <2> QED BY <2>1 DEF Output, Share
  <1>7. D \ {id} = E \ {id} /\ \A k \in D \ {id} : f[k] = g[k]
    <2>1. D \ {id} = E \ {id}
      <3> HIDE DEF D, E, kept
      <3> QED BY <1>3
    <2>2. ASSUME NEW k \in D \ {id} PROVE f[k] = g[k]
      <3>1. k \in D /\ k \in E /\ k # id
        BY <2>1, <2>2
      <3>2. f[k] = Worth(w.utxo[k].outs, who) /\ g[k] = Worth(r.utxo[k].outs, who)
        BY <3>1 DEF Worths
      <3> QED BY <1>3, <3>1, <3>2
    <2> QED BY <2>1, <2>2
  <1>8. TermAt(f, id) = Worth(outs, who)
    BY <1>2 DEF TermAt, Worths
  <1>9. TermAt(g, id) = Worth(kept, who)
    <2>1. CASE id \in E
      BY <1>3, <2>1 DEF TermAt, Worths
    <2>2. CASE id \notin E
      <3>1. kept = <<>>
        <4> HIDE DEF D, E, kept
        <4> QED BY <1>2, <1>3, <2>2
      <3>2. Worth(kept, who) = 0
        <4>1. Len(kept) = 0
          BY <3>1
        <4> HIDE DEF kept
        <4>2. SharesOf(kept, who) \in [1..0 -> Int] /\ Worth(kept, who) = Partial(SharesOf(kept, who), 0)
          BY <1>5, <4>1, WorthFacts
        <4> QED BY <4>2, PartialSums
      <3>3. TermAt(g, id) = 0
        BY <1>1, <2>2 DEF TermAt
      <3> QED BY <3>2, <3>3
    <2> QED BY <2>1, <2>2
  <1> HIDE DEF D, E, f, g, kept, outs
  <1>10. SumFunction(g) = SumFunction(f) - TermAt(f, id) + TermAt(g, id)
    BY <1>1, <1>7, SumsDiffer
  <1>11. SumFunction(f) \in Int /\ SumFunction(g) \in Int
    BY <1>1, SumFacts
  <1>12. SumFunction(g) = SumFunction(f) - Worth(outs, who) + Worth(kept, who)
    BY <1>8, <1>9, <1>10
  <1>13. SumFunction(g) = SumFunction(f) - Share(outs[in.idx], who)
    <2> HIDE DEF id
    <2> QED BY <1>4, <1>5, <1>6, <1>11, <1>12
  <1> QED BY <1>1, <1>13 DEF outs

(* Adding outputs under an id that has none adds what they are worth.      *)
LEMMA HoldingsMore ==
    ASSUME NEW I, NEW c, NEW w \in WorldsOver(I, c), NEW r \in WorldsOver(I, c),
           NEW at, Added(w, r, at), TxAt(w.chain, at).id \notin DOMAIN w.utxo, NEW who
    PROVE  /\ Holdings(r.utxo, who) = Holdings(w.utxo, who) + Worth(TxAt(w.chain, at).outs, who)
           /\ Worth(TxAt(w.chain, at).outs, who) \in Int
  <1> DEFINE D == DOMAIN w.utxo
             E == DOMAIN r.utxo
             f == Worths(w.utxo, who)
             g == Worths(r.utxo, who)
             t == TxAt(w.chain, at)
             id == t.id
  <1>1. /\ IsFiniteSet(D) /\ f \in [D -> Int] /\ Holdings(w.utxo, who) = SumFunction(f)
        /\ IsFiniteSet(E) /\ g \in [E -> Int] /\ Holdings(r.utxo, who) = SumFunction(g)
    BY HoldingsFacts
  <1>2. /\ E = D \cup {id} /\ id \notin D
        /\ r.utxo[id].outs = t.outs
        /\ \A k \in D : k # id => r.utxo[k] = w.utxo[k]
    BY DEF Added
  <1>3. TermAt(f, id) = 0
    BY <1>1, <1>2 DEF TermAt
  <1>4. TermAt(g, id) = Worth(t.outs, who)
    BY <1>2 DEF TermAt, Worths
  <1>5. D \ {id} = E \ {id} /\ \A k \in D \ {id} : f[k] = g[k]
    <2>1. D \ {id} = E \ {id}
      <3> HIDE DEF D, E, id
      <3> QED BY <1>2
    <2>2. ASSUME NEW k \in D \ {id} PROVE f[k] = g[k]
      <3>1. k \in D /\ k \in E /\ k # id
        BY <2>1, <2>2
      <3>2. f[k] = Worth(w.utxo[k].outs, who) /\ g[k] = Worth(r.utxo[k].outs, who)
        BY <3>1 DEF Worths
      <3> QED BY <1>2, <3>1, <3>2
    <2> QED BY <2>1, <2>2
  <1>6. Worth(t.outs, who) \in Int
    <2>1. id \in E
      BY <1>2
    <2>2. g[id] \in Int /\ g[id] = Worth(t.outs, who)
      BY <1>1, <1>2, <2>1 DEF Worths
    <2> QED BY <2>2
  <1> HIDE DEF D, E, f, g, t
  <1>7. SumFunction(g) = SumFunction(f) - TermAt(f, id) + TermAt(g, id)
    BY <1>1, <1>5, SumsDiffer
  <1>8. SumFunction(f) \in Int /\ SumFunction(g) \in Int
    BY <1>1, SumFacts
  <1> QED BY <1>1, <1>3, <1>4, <1>6, <1>7, <1>8 DEF t

(* No two of the outputs go to one owner.                                  *)
Distinct(outs) == \A i, j \in 1..Len(outs) : outs[i].owner = outs[j].owner => i = j

(* The set still has an output that the input's key may spend.             *)
StillHolds(u, in) ==
    /\ in.tx \in DOMAIN u
    /\ \E i \in 1..Len(u[in.tx].outs) : u[in.tx].outs[i].owner = in.key

(* Every entry is of a transaction of the chain, its owners all different. *)
SoundSet(u) == \A id \in DOMAIN u : Distinct(u[id].outs) /\ u[id].home # Nowhere

(* The input names an output of the set, by the key of its owner.          *)
Spends(u, in) ==
    /\ in.idx \in Nat \ {0} /\ HasOutput(u, in)
    /\ u[in.tx].outs[in.idx].owner = in.key

(* What the world r has kept of the world w.                               *)
OnlyLost(w, r) ==
    /\ DOMAIN r.utxo \subseteq DOMAIN w.utxo
    /\ \A in : StillHolds(r.utxo, in) => StillHolds(w.utxo, in)
    /\ \A p \in PlacesIn(w.chain) :
          TxAt(w.chain, p).id \notin DOMAIN w.utxo => TxAt(r.chain, p) = TxAt(w.chain, p)

(* An input that spends leaves its key nothing there to spend.             *)
LEMMA SpendFacts ==
    ASSUME NEW I, NEW c, NEW w \in WorldsOver(I, c), NEW r \in WorldsOver(I, c),
           NEW in, SoundSet(w.utxo), Spends(w.utxo, in), Removed(w, r, in)
    PROVE  /\ SoundSet(r.utxo) /\ OnlyLost(w, r) /\ ~StillHolds(r.utxo, in)
           /\ \A id \in DOMAIN w.utxo :
                 id # in.tx => id \in DOMAIN r.utxo /\ r.utxo[id] = w.utxo[id]
  <1> DEFINE D == DOMAIN w.utxo
             E == DOMAIN r.utxo
             outs == w.utxo[in.tx].outs
             home == w.utxo[in.tx].home
             kept == RemoveAt(outs, in.idx)
  <1>1. /\ in.tx \in D /\ outs \in Seq(Output) /\ in.idx \in 1..Len(outs)
        /\ Len(outs) \in Nat /\ outs[in.idx].owner = in.key
    <2>1. in.tx \in D /\ in.idx <= Len(outs) /\ in.idx \in Nat \ {0} /\ outs[in.idx].owner = in.key
      BY DEF HasOutput, Spends
    <2>2. outs \in Seq(Output) /\ Len(outs) \in Nat
      BY <2>1, WorldFacts
    <2> QED BY <2>1, <2>2
  <1>2. /\ Len(kept) = Len(outs) - 1
        /\ \A k \in 1..(Len(outs) - 1) : kept[k] = IF k < in.idx THEN outs[k] ELSE outs[k + 1]
    BY <1>1, RemoveAtFacts
  <1>3. /\ E = IF kept = <<>> THEN D \ {in.tx} ELSE D
        /\ \A id \in E : id # in.tx => r.utxo[id] = w.utxo[id]
        /\ in.tx \in E => r.utxo[in.tx].outs = kept /\ r.utxo[in.tx].home = home
        /\ \A p \in PlacesIn(w.chain) : p # home => TxAt(r.chain, p) = TxAt(w.chain, p)
    BY DEF Removed
  <1>4. /\ Distinct(outs) /\ home # Nowhere
        /\ \A id \in D : Distinct(w.utxo[id].outs) /\ w.utxo[id].home # Nowhere
    BY <1>1 DEF SoundSet
  <1>5. TxAt(w.chain, home).id = in.tx
    <2>1. Shares(w.utxo, w.chain)
      BY WorldFacts
    <2> QED BY <1>1, <1>4, <2>1 DEF Shares
  <1>6. E \subseteq D /\ \A id \in D : id # in.tx => id \in E /\ r.utxo[id] = w.utxo[id]
    <2> HIDE DEF D, E, kept
    <2> QED BY <1>3
  <1> HIDE DEF kept, outs, home
  <1> DEFINE From(k) == IF k < in.idx THEN k ELSE k + 1
  <1>7. ASSUME NEW k \in 1..Len(kept)
        PROVE  From(k) \in 1..Len(outs) /\ From(k) # in.idx /\ kept[k] = outs[From(k)]
    <2>1. k \in 1..(Len(outs) - 1)
      BY <1>2
    <2>2. kept[k] = IF k < in.idx THEN outs[k] ELSE outs[k + 1]
      BY <1>2, <2>1
    <2>3. CASE k < in.idx
      BY <1>1, <2>1, <2>2, <2>3
    <2>4. CASE ~(k < in.idx)
      BY <1>1, <2>1, <2>2, <2>4
    <2> QED BY <2>3, <2>4
  <1>8. Distinct(kept)
    <2> SUFFICES ASSUME NEW i \in 1..Len(kept), NEW j \in 1..Len(kept),
                        kept[i].owner = kept[j].owner
                 PROVE  i = j
      BY DEF Distinct
    <2>1. From(i) = From(j)
      <3> HIDE DEF From
      <3> QED BY <1>4, <1>7 DEF Distinct
    <2>2. i \in 1..(Len(outs) - 1) /\ j \in 1..(Len(outs) - 1)
      BY <1>2
    <2> QED BY <1>1, <2>1, <2>2
  <1>9. ~\E k \in 1..Len(kept) : kept[k].owner = in.key
    <2> SUFFICES ASSUME NEW k \in 1..Len(kept), kept[k].owner = in.key PROVE FALSE
      OBVIOUS
    <2> HIDE DEF From
    <2> QED BY <1>1, <1>4, <1>7 DEF Distinct
  <1>10. ~StillHolds(r.utxo, in)
    BY <1>3, <1>9 DEF StillHolds
  <1>11. SoundSet(r.utxo)
    <2> SUFFICES ASSUME NEW id \in E PROVE Distinct(r.utxo[id].outs) /\ r.utxo[id].home # Nowhere
      BY DEF SoundSet
    <2>1. CASE id = in.tx
      BY <1>3, <1>4, <1>8, <2>1
    <2>2. CASE id # in.tx
      BY <1>3, <1>4, <1>6, <2>2
    <2> QED BY <2>1, <2>2
  <1>12. ASSUME NEW x, StillHolds(r.utxo, x) PROVE StillHolds(w.utxo, x)
    <2>1. x.tx \in E /\ x.tx \in D
      BY <1>6, <1>12 DEF StillHolds
    <2>2. PICK i \in 1..Len(r.utxo[x.tx].outs) : r.utxo[x.tx].outs[i].owner = x.key
      BY <1>12 DEF StillHolds
    <2>3. CASE x.tx = in.tx
      <3>1. i \in 1..Len(kept) /\ kept[i].owner = x.key
        BY <1>3, <2>1, <2>2, <2>3
      <3>2. From(i) \in 1..Len(outs) /\ outs[From(i)].owner = x.key
        <4> HIDE DEF From
        <4> QED BY <1>7, <3>1
      <3> HIDE DEF From
      <3> QED BY <2>1, <2>3, <3>2 DEF StillHolds, outs
    <2>4. CASE x.tx # in.tx
      BY <1>3, <2>1, <2>2, <2>4 DEF StillHolds
    <2> QED BY <2>3, <2>4
  <1>13. ASSUME NEW p \in PlacesIn(w.chain), TxAt(w.chain, p).id \notin D
         PROVE  TxAt(r.chain, p) = TxAt(w.chain, p)
    <2>1. p # home
      BY <1>1, <1>5, <1>13
    <2> QED BY <1>3, <2>1
  <1> QED BY <1>6, <1>10, <1>11, <1>12, <1>13 DEF OnlyLost

(* Outputs that come in with owners all different.                         *)
LEMMA GainFacts ==
    ASSUME NEW I, NEW c, NEW w \in WorldsOver(I, c), NEW r, NEW at \in PlacesIn(w.chain),
           SoundSet(w.utxo), Added(w, r, at), TxAt(w.chain, at).id \notin DOMAIN w.utxo,
           Distinct(TxAt(w.chain, at).outs)
    PROVE  /\ SoundSet(r.utxo)
           /\ \A id \in DOMAIN w.utxo : id \in DOMAIN r.utxo /\ r.utxo[id] = w.utxo[id]
           /\ \A in : in.tx # TxAt(w.chain, at).id /\ StillHolds(r.utxo, in) => StillHolds(w.utxo, in)
  <1> DEFINE t == TxAt(w.chain, at)
  <1>1. /\ DOMAIN r.utxo = DOMAIN w.utxo \cup {t.id} /\ t.id \notin DOMAIN w.utxo
        /\ r.utxo[t.id].outs = t.outs /\ r.utxo[t.id].home = at
        /\ \A id \in DOMAIN w.utxo : id # t.id => r.utxo[id] = w.utxo[id]
    BY DEF Added
  <1>2. at # Nowhere
    BY DEF PlacesIn, Nowhere
  <1>3. Distinct(t.outs)
    OBVIOUS
  <1> HIDE DEF t
  <1>4. \A id \in DOMAIN w.utxo : id \in DOMAIN r.utxo /\ r.utxo[id] = w.utxo[id]
    BY <1>1
  <1>5. SoundSet(r.utxo)
    BY <1>1, <1>2, <1>3, <1>4 DEF SoundSet
  <1>6. ASSUME NEW in, in.tx # t.id, StillHolds(r.utxo, in) PROVE StillHolds(w.utxo, in)
    <2>1. in.tx \in DOMAIN w.utxo /\ r.utxo[in.tx] = w.utxo[in.tx]
      BY <1>1, <1>4, <1>6 DEF StillHolds
    <2> QED BY <1>6, <2>1 DEF StillHolds
  <1> QED BY <1>4, <1>5, <1>6 DEF t

(* The inputs of one payment: outputs of one owner, in different entries.  *)
SpendsAll(u, ins) ==
    /\ \A k \in 1..Len(ins) : Spends(u, ins[k]) /\ ins[k].key = ins[1].key
    /\ \A j, k \in 1..Len(ins) : ins[j].tx = ins[k].tx => j = k

(* The values of the outputs that the inputs name.                         *)
Spent(u, ins) == [k \in 1..Len(ins) |-> u[ins[k].tx].outs[ins[k].idx].value]

(* What the first n inputs take from the addresses in who.                 *)
Taken(u, ins, n, who) == IF ins[1].key \in who THEN Partial(Spent(u, ins), n) ELSE 0

(* Each input takes what the output it names is worth.                     *)
TakesEach(u, ins, who) ==
    /\ Spent(u, ins) \in [1..Len(ins) -> Int]
    /\ Taken(u, ins, 0, who) = 0
    /\ \A n \in 0..Len(ins) : Taken(u, ins, n, who) \in Int
    /\ \A n \in 1..Len(ins) :
          LET o == u[ins[n].tx].outs[ins[n].idx]
          IN  /\ Share(o, who) \in Int
              /\ Taken(u, ins, n, who) = Taken(u, ins, n - 1, who) + Share(o, who)

(* So do the inputs of a payment, one after the other.                     *)
LEMMA SpentFacts ==
    ASSUME NEW I, NEW c, NEW w \in WorldsOver(I, c), NEW X, NEW ins \in Seq(X),
           SpendsAll(w.utxo, ins), NEW who
    PROVE  TakesEach(w.utxo, ins, who)
  <1> DEFINE f == Spent(w.utxo, ins)
             l == Len(ins)
             o(n) == w.utxo[ins[n].tx].outs[ins[n].idx]
  <1>1. l \in Nat
    OBVIOUS
  <1>2. ASSUME NEW n \in 1..l PROVE o(n) \in Output /\ o(n).owner = ins[1].key
    <2>1. Spends(w.utxo, ins[n]) /\ ins[n].key = ins[1].key
      BY DEF SpendsAll
    <2>2. /\ ins[n].tx \in DOMAIN w.utxo /\ ins[n].idx <= Len(w.utxo[ins[n].tx].outs)
          /\ ins[n].idx \in Nat \ {0} /\ o(n).owner = ins[1].key
      BY <2>1 DEF Spends, HasOutput
    <2>3. w.utxo[ins[n].tx].outs \in Seq(Output) /\ Len(w.utxo[ins[n].tx].outs) \in Nat
      BY <2>2, WorldFacts
    <2>4. ins[n].idx \in 1..Len(w.utxo[ins[n].tx].outs)
      BY <2>2, <2>3
    <2>5. o(n) \in Output
      BY <2>3, <2>4, ElementIn
    <2> QED BY <2>2, <2>5
  <1>3. \A n \in 1..l : f[n] = o(n).value
    BY DEF Spent
  <1>4. f \in [1..l -> Int]
    <2>1. \A n \in 1..l : o(n).value \in Int
      <3> HIDE DEF o
      <3> QED BY <1>2 DEF Output
    <2> QED BY <2>1 DEF Spent
  <1> HIDE DEF f, l
  <1>5. /\ Partial(f, 0) = 0 /\ \A n \in 0..l : Partial(f, n) \in Int
        /\ \A n \in 1..l : Partial(f, n) = Partial(f, n - 1) + f[n]
    BY <1>1, <1>4, PartialSums
  <1>6. \A n : Taken(w.utxo, ins, n, who) = IF ins[1].key \in who THEN Partial(f, n) ELSE 0
    BY DEF Taken, f
  <1>7. ASSUME NEW n \in 1..l
        PROVE  /\ Share(o(n), who) \in Int
               /\ Taken(w.utxo, ins, n, who) = Taken(w.utxo, ins, n - 1, who) + Share(o(n), who)
    <2>1. o(n).value \in Int /\ o(n).owner = ins[1].key /\ f[n] = o(n).value
      <3> HIDE DEF o
      <3> QED BY <1>2, <1>3 DEF Output
    <2> HIDE DEF o
    <2>2. Share(o(n), who) = IF ins[1].key \in who THEN f[n] ELSE 0
      BY <2>1 DEF Share
    <2>3. CASE ins[1].key \in who
      <3>1. Taken(w.utxo, ins, n, who) = Partial(f, n) /\ Taken(w.utxo, ins, n - 1, who) = Partial(f, n - 1)
        BY <1>6, <2>3
      <3> QED BY <1>5, <2>1, <2>2, <2>3, <3>1
    <2>4. CASE ins[1].key \notin who
      <3>1. Taken(w.utxo, ins, n, who) = 0 /\ Taken(w.utxo, ins, n - 1, who) = 0
        BY <1>6, <2>4
      <3> QED BY <2>2, <2>4, <3>1
    <2> QED BY <2>3, <2>4
  <1>8. Taken(w.utxo, ins, 0, who) = 0 /\ \A n \in 0..l : Taken(w.utxo, ins, n, who) \in Int
    BY <1>5, <1>6
  <1> QED BY <1>4, <1>7, <1>8 DEF f, l, TakesEach

(* What is left of the world w when its payment's inputs are gone.         *)
Paid(w, r, ins, who) ==
    /\ r.ok = TRUE /\ SoundSet(r.utxo) /\ OnlyLost(w, r)
    /\ \A k \in 1..Len(ins) : ~StillHolds(r.utxo, ins[k])
    /\ Holdings(r.utxo, who) = Holdings(w.utxo, who) - Taken(w.utxo, ins, Len(ins), who)

(* Removing the inputs of a payment never fails, and takes what it spends. *)
LEMMA PaymentRemovals ==
    ASSUME NEW I, NEW c, NEW w \in WorldsOver(I, c), NEW X, NEW ins \in Seq(X),
           w.ok = TRUE, SoundSet(w.utxo), SpendsAll(w.utxo, ins), NEW who,
           NEW g, Removals(g, w, ins, Len(ins), WorldsOver(I, c))
    PROVE  Paid(w, g[Len(ins)], ins, who) /\ g[Len(ins)] \in WorldsOver(I, c)
  <1> DEFINE V == WorldsOver(I, c)
             l == Len(ins)
             Same(u, k) == \A j \in 1..l : j > k =>
                              ins[j].tx \in DOMAIN u /\ u[ins[j].tx] = w.utxo[ins[j].tx]
             Gone(u, k) == \A j \in 1..l : j <= k => ~StillHolds(u, ins[j])
             took(k) == Taken(w.utxo, ins, k, who)
             Good(k) == /\ g[k].ok = TRUE /\ SoundSet(g[k].utxo) /\ OnlyLost(w, g[k])
                        /\ Same(g[k].utxo, k) /\ Gone(g[k].utxo, k)
                        /\ Holdings(g[k].utxo, who) = Holdings(w.utxo, who) - took(k)
             S == {k \in Nat : k <= l => Good(k)}
  <1>1. /\ g \in [0..l -> V] /\ g[0] = w /\ l \in Nat
        /\ \A k \in 1..l : g[k] = RemoveUTXO(g[k - 1], ins[k])
    BY DEF Removals
  <1>2. /\ took(0) = 0 /\ \A n \in 0..l : took(n) \in Int
        /\ \A n \in 1..l : LET o == w.utxo[ins[n].tx].outs[ins[n].idx]
                           IN  Share(o, who) \in Int /\ took(n) = took(n - 1) + Share(o, who)
    <2>1. TakesEach(w.utxo, ins, who)
      BY SpentFacts
    <2> QED BY <2>1 DEF TakesEach
  <1>3. \A v \in V : Holdings(v.utxo, who) \in Int
    BY HoldingsFacts
  <1>4. \A j \in 1..l : Spends(w.utxo, ins[j]) /\ \A k \in 1..l : ins[j].tx = ins[k].tx => j = k
    BY DEF SpendsAll
  <1> HIDE DEF took
  <1>5. 0 \in S
    <2>1. OnlyLost(w, w)
      BY DEF OnlyLost
    <2>2. Same(w.utxo, 0)
      BY <1>4 DEF Spends, HasOutput
    <2>3. Gone(w.utxo, 0)
      OBVIOUS
    <2>4. Holdings(w.utxo, who) = Holdings(w.utxo, who) - took(0)
      BY <1>2, <1>3
    <2> HIDE DEF Same, Gone
    <2> QED BY <1>1, <2>1, <2>2, <2>3, <2>4
  <1>6. ASSUME NEW k \in Nat, k + 1 <= l, Good(k) PROVE Good(k + 1)
    <2> DEFINE in == ins[k + 1]
               v == g[k]
               r == g[k + 1]
    <2>1. k + 1 \in 1..l /\ (k + 1) - 1 = k /\ k \in 0..l /\ k + 1 \in 0..l /\ k + 1 > k
      BY <1>1, <1>6
    <2>2. v \in V /\ r \in V /\ r = RemoveUTXO(v, in)
      <3> HIDE DEF V
      <3> QED BY <1>1, <2>1
    <2>3. /\ v.ok = TRUE /\ SoundSet(v.utxo) /\ OnlyLost(w, v)
          /\ Same(v.utxo, k) /\ Gone(v.utxo, k)
          /\ Holdings(v.utxo, who) = Holdings(w.utxo, who) - took(k)
      BY <1>6
    <2>4. /\ in.tx \in DOMAIN v.utxo /\ v.utxo[in.tx] = w.utxo[in.tx]
      BY <2>1, <2>3
    <2>5. Spends(w.utxo, in)
      BY <1>4, <2>1
    <2> HIDE DEF v, r, in, V
    <2>6. Spends(v.utxo, in) /\ HasOutput(v.utxo, in) /\ in.idx \in Nat \ {0}
      BY <2>4, <2>5 DEF Spends, HasOutput
    <2>7. Removed(v, r, in)
      BY <2>2, <2>3, <2>6, RemoveUTXOFacts DEF V
    <2>8. /\ SoundSet(r.utxo) /\ OnlyLost(v, r) /\ ~StillHolds(r.utxo, in)
          /\ \A id \in DOMAIN v.utxo :
                id # in.tx => id \in DOMAIN r.utxo /\ r.utxo[id] = v.utxo[id]
      BY <2>2, <2>3, <2>6, <2>7, SpendFacts DEF V
    <2>9. OnlyLost(w, r)
      <3>1. /\ PlacesIn(v.chain) = PlacesIn(w.chain)
            /\ \A p \in PlacesIn(w.chain) : TxAt(v.chain, p).id = TxAt(w.chain, p).id
        <4>1. SameShape(v.chain, c) /\ SameShape(w.chain, c)
          BY <2>2, WorldFacts DEF V
        <4> QED BY <4>1, ShapeFacts
      <3> QED BY <2>3, <2>8, <3>1 DEF OnlyLost
    <2>10. Holdings(r.utxo, who) = Holdings(w.utxo, who) - took(k + 1)
      <3> DEFINE o == w.utxo[in.tx].outs[in.idx]
      <3>1. Holdings(r.utxo, who) = Holdings(v.utxo, who) - Share(v.utxo[in.tx].outs[in.idx], who)
        BY <2>2, <2>6, <2>7, HoldingsLeft DEF V
      <3>2. v.utxo[in.tx].outs[in.idx] = o
        BY <2>4
      <3>3. Share(o, who) \in Int /\ took(k + 1) = took(k) + Share(o, who) /\ took(k) \in Int
        BY <1>2, <2>1 DEF in
      <3>4. Holdings(w.utxo, who) \in Int
        BY <1>3 DEF V
      <3> HIDE DEF o
      <3> QED BY <2>3, <3>1, <3>2, <3>3, <3>4
    <2>11. Same(r.utxo, k + 1)
      <3> SUFFICES ASSUME NEW j \in 1..l, j > k + 1
                   PROVE  ins[j].tx \in DOMAIN r.utxo /\ r.utxo[ins[j].tx] = w.utxo[ins[j].tx]
        OBVIOUS
      <3>1. j > k /\ j # k + 1
        BY <2>1
      <3>2. ins[j].tx \in DOMAIN v.utxo /\ v.utxo[ins[j].tx] = w.utxo[ins[j].tx]
        BY <2>3, <3>1
      <3>3. ins[j].tx # in.tx
        BY <1>4, <2>1, <3>1 DEF in
      <3> QED BY <2>8, <3>2, <3>3
    <2>12. Gone(r.utxo, k + 1)
      <3> SUFFICES ASSUME NEW j \in 1..l, j <= k + 1 PROVE ~StillHolds(r.utxo, ins[j])
        OBVIOUS
      <3>1. CASE j = k + 1
        BY <2>8, <3>1 DEF in
      <3>2. CASE j # k + 1
        <4>1. j <= k
          BY <2>1, <3>2
        <4>2. ~StillHolds(v.utxo, ins[j])
          BY <2>3, <4>1
        <4> QED BY <2>8, <4>2 DEF OnlyLost
      <3> QED BY <3>1, <3>2
    <2>13. r.ok = TRUE
      BY <2>7 DEF Removed
    <2> HIDE DEF Same, Gone
    <2> QED BY <2>8, <2>9, <2>10, <2>11, <2>12, <2>13 DEF r
  <1> HIDE DEF Good
  <1>7. ASSUME NEW k \in Nat, k \in S PROVE k + 1 \in S
    <2>1. ASSUME k + 1 <= l PROVE Good(k + 1)
      BY <1>1, <1>7, <1>6, <2>1
    <2> QED BY <2>1
  <1> HIDE DEF S
  <1>8. l \in S
    BY <1>1, <1>5, <1>7, Induction
  <1>9. Good(l)
    BY <1>1, <1>8 DEF S
  <1>10. Paid(w, g[l], ins, who)
    BY <1>1, <1>9 DEF Good, Paid, took
  <1>11. g[l] \in V
    BY <1>1
  <1> QED BY <1>10, <1>11

(* With nothing to spend, Update only adds.                                *)
LEMMA RewardUpdate ==
    ASSUME NEW I, I \subseteq IdsOver(I), NEW c, NEW w \in WorldsOver(I, c),
           NEW at \in PlacesIn(w.chain), w.ok = TRUE, TxAt(w.chain, at).id.ins = <<>>
    PROVE  Update(w, at) \in WorldsOver(I, c) /\ Added(w, Update(w, at), at)
  <1> DEFINE r == Update(w, at)
             V == WorldsOver(I, c)
  <1>1. r \in V /\ UpdatedBy(w, r, at, V)
    BY UpdateFacts
  <1> HIDE DEF r, V
  <1>2. PICK g : Removals(g, w, <<>>, 0, V) /\ IF g[0].ok THEN Added(g[0], r, at) ELSE r = g[0]
    BY <1>1 DEF UpdatedBy
  <1>3. g[0] = w
    BY <1>2 DEF Removals
  <1> QED BY <1>1, <1>2, <1>3 DEF r, V

(* What the update of a payment makes of the world w.                      *)
Moved(w, r, t, who) ==
    /\ r.ok = TRUE /\ SoundSet(r.utxo)
    /\ Worth(t.outs, who) \in Int
    /\ Taken(w.utxo, t.id.ins, Len(t.id.ins), who) \in Int
    /\ Holdings(r.utxo, who) = Holdings(w.utxo, who) + Worth(t.outs, who)
                                  - Taken(w.utxo, t.id.ins, Len(t.id.ins), who)
    /\ \A in : in.tx # t.id /\ StillHolds(r.utxo, in) => StillHolds(w.utxo, in)
    /\ \A k \in 1..Len(t.id.ins) : ~StillHolds(r.utxo, t.id.ins[k])

(* Update of a payment succeeds: it takes what the inputs name and adds    *)
(* the outputs.                                                            *)
LEMMA PaymentUpdate ==
    ASSUME NEW I, I \subseteq IdsOver(I), NEW c, NEW w \in WorldsOver(I, c),
           NEW at \in PlacesIn(w.chain), w.ok = TRUE, SoundSet(w.utxo),
           NEW t, t = TxAt(w.chain, at), t.id \notin DOMAIN w.utxo, Distinct(t.outs),
           SpendsAll(w.utxo, t.id.ins), NEW who
    PROVE  Update(w, at) \in WorldsOver(I, c) /\ Moved(w, Update(w, at), t, who)
  <1> DEFINE r == Update(w, at)
             V == WorldsOver(I, c)
             ins == t.id.ins
             l == Len(ins)
  <1>1. r \in V /\ UpdatedBy(w, r, at, V)
    BY UpdateFacts
  <1>2. t \in TxsOver(I)
    <2>1. w.chain \in ChainsOver(I)
      BY WorldFacts
    <2> QED BY <2>1, ChainFacts
  <1>3. ins \in Seq(InputsOver(I)) /\ l \in Nat
    <2>1. ins \in Seq(InputsOver(I))
      BY <1>2, TxFacts
    <2> QED BY <2>1
  <1> HIDE DEF r
  <1>4. PICK g : /\ Removals(g, w, ins, l, V)
                 /\ IF g[l].ok THEN Added(g[l], r, at) ELSE r = g[l]
    BY <1>1 DEF UpdatedBy
  <1> DEFINE q == g[l]
  <1>5. Paid(w, q, ins, who) /\ q \in V
    BY <1>3, <1>4, PaymentRemovals
  <1>6. /\ q.ok = TRUE /\ SoundSet(q.utxo) /\ OnlyLost(w, q)
        /\ \A k \in 1..l : ~StillHolds(q.utxo, ins[k])
        /\ Holdings(q.utxo, who) = Holdings(w.utxo, who) - Taken(w.utxo, ins, l, who)
    BY <1>5 DEF Paid
  <1>7. Taken(w.utxo, ins, l, who) \in Int
    <2>1. TakesEach(w.utxo, ins, who)
      BY <1>3, SpentFacts
    <2>2. l \in 0..l
      BY <1>3
    <2> QED BY <2>1, <2>2 DEF TakesEach
  <1>8. Added(q, r, at)
    BY <1>4, <1>6
  <1> HIDE DEF q, V
  <1>9. /\ TxAt(q.chain, at) = t /\ t.id \notin DOMAIN q.utxo /\ at \in PlacesIn(q.chain)
    <2>1. TxAt(q.chain, at) = t /\ t.id \notin DOMAIN q.utxo
      BY <1>6 DEF OnlyLost
    <2>2. SameShape(q.chain, c) /\ SameShape(w.chain, c)
      BY <1>5, WorldFacts DEF V
    <2> QED BY <2>1, <2>2, ShapeFacts
  <1>10. /\ SoundSet(r.utxo)
         /\ \A in : in.tx # t.id /\ StillHolds(r.utxo, in) => StillHolds(q.utxo, in)
    BY <1>5, <1>6, <1>8, <1>9, GainFacts DEF V
  <1>11. /\ Holdings(r.utxo, who) = Holdings(q.utxo, who) + Worth(t.outs, who)
         /\ Worth(t.outs, who) \in Int
    BY <1>1, <1>5, <1>8, <1>9, HoldingsMore DEF V
  <1>12. Holdings(w.utxo, who) \in Int
    BY HoldingsFacts
  <1>13. Holdings(r.utxo, who) = Holdings(w.utxo, who) + Worth(t.outs, who) - Taken(w.utxo, ins, l, who)
    BY <1>6, <1>7, <1>11, <1>12
  <1>14. \A in : in.tx # t.id /\ StillHolds(r.utxo, in) => StillHolds(w.utxo, in)
    BY <1>6, <1>10 DEF OnlyLost
  <1>15. \A k \in 1..l : ~StillHolds(r.utxo, ins[k])
    <2>1. ASSUME NEW k \in 1..l PROVE ins[k].tx # t.id
      BY DEF SpendsAll, Spends, HasOutput
    <2> QED BY <1>6, <1>10, <2>1
  <1>16. r.ok = TRUE
    BY <1>6, <1>8 DEF Added
  <1> QED BY <1>1, <1>7, <1>10, <1>11, <1>13, <1>14, <1>15, <1>16 DEF Moved, r, V

-----------------------------------------------------------------------------
(* cmd/node mines each payment in a block of its own before it creates the *)
(* next, pays no one out of their own wallet, and pays more than 0         *)
(* (main.go:76-119).                                                       *)
OneAtATime ==
    /\ MaxPending <= 1
    /\ \A p \in Transfers : p[1] # p[2]
    /\ Amounts \subseteq Nat \ {0}

(* No id is taken twice, rewards are numbered by their blocks, and what an *)
(* input of the chain has spent is gone for good.                          *)
SoundChain(c, u) ==
    /\ \A p, q \in PlacesIn(c) : TxAt(c, p).id = TxAt(c, q).id => p = q
    /\ \A p \in PlacesIn(c) : TxAt(c, p).id.label < Len(c)
    /\ \A p \in PlacesIn(c) : \A k \in 1..Len(TxAt(c, p).id.ins) :
          Names(c, TxAt(c, p).id.ins[k]) /\ ~StillHolds(u, TxAt(c, p).id.ins[k])

(* A waiting payment spends outputs the set has, signed by their owner,    *)
(* and pays out what they are worth.                                       *)
SoundPayment(t) ==
    /\ Len(t.id.ins) >= 1 /\ t.id.label = NotCoinbase
    /\ t.outs = t.id.outs /\ Distinct(t.outs)
    /\ SpendsAll(utxo, t.id.ins)
    /\ \A k \in 1..Len(t.id.ins) : t.signed[k].covers = t.id.ins[k].key
    /\ Worth(t.outs, Addr) = SumFunction(Spent(utxo, t.id.ins))

(* With one payment at a time: the chain and the set are sound, and the    *)
(* payment that waits, if any, still spends what the set has.              *)
Steady ==
    /\ SoundChain(blocks, utxo) /\ SoundSet(utxo)
    /\ Len(pending) <= 1
    /\ \A k \in 1..Len(pending) : SoundPayment(pending[k])

(* The ids of the set are those of the chain.                              *)
LEMMA SetIsConfirmed ==
    ASSUME NEW I, LedgerOver(I), SoundSet(utxo), NEW id \in DOMAIN utxo
    PROVE  \E p \in PlacesIn(blocks) : TxAt(blocks, p).id = id
  <1>1. Shares(utxo, blocks) /\ utxo[id].home # Nowhere
    BY DEF LedgerOver, SoundSet
  <1> QED BY <1>1 DEF Shares

(* A transaction whose input the set still has is not confirmed.           *)
LEMMA NotConfirmed ==
    ASSUME NEW I, LedgerOver(I), Steady, NEW i \in 1..Len(pending)
    PROVE  /\ \A p \in PlacesIn(blocks) : TxAt(blocks, p).id # pending[i].id
           /\ pending[i].id \notin DOMAIN utxo
  <1> DEFINE t == pending[i]
             in == t.id.ins[1]
  <1>1. t \in TxsOver(I) /\ I \subseteq IdsOver(I)
    <2>1. pending \in Seq(TxsOver(I)) /\ I \subseteq IdsOver(I)
      BY DEF LedgerOver
    <2> QED BY <2>1, ElementIn
  <1>2. SoundPayment(t)
    BY DEF Steady
  <1> HIDE DEF t
  <1>3. t.id.ins \in Seq(InputsOver(I)) /\ Len(t.id.ins) \in Nat
    <2>1. t.id.ins \in Seq(InputsOver(I))
      BY <1>1, TxFacts
    <2> QED BY <2>1
  <1>4. 1 \in 1..Len(t.id.ins)
    BY <1>2, <1>3 DEF SoundPayment
  <1>5. StillHolds(utxo, in)
    <2>1. Spends(utxo, in)
      BY <1>2, <1>4 DEF SoundPayment, SpendsAll
    <2>2. /\ in.tx \in DOMAIN utxo /\ in.idx <= Len(utxo[in.tx].outs) /\ in.idx \in Nat \ {0}
          /\ utxo[in.tx].outs[in.idx].owner = in.key
      BY <2>1 DEF Spends, HasOutput
    <2>3. utxo[in.tx].outs \in Seq(Output)
      <3>1. utxo[in.tx] \in Entries
        <4>1. utxo \in SetsOver(I)
          BY DEF LedgerOver
        <4> QED BY <2>2, <4>1, SetFacts
      <3> QED BY <3>1 DEF Entries
    <2>4. in.idx \in 1..Len(utxo[in.tx].outs)
      BY <2>2, <2>3
    <2> QED BY <2>2, <2>4 DEF StillHolds
  <1>6. ASSUME NEW p \in PlacesIn(blocks), TxAt(blocks, p).id = t.id PROVE FALSE
    <2>1. SoundChain(blocks, utxo)
      BY DEF Steady
    <2>2. ~StillHolds(utxo, in)
      BY <1>4, <1>6, <2>1 DEF SoundChain
    <2> QED BY <1>5, <2>2
  <1>7. t.id \notin DOMAIN utxo
    <2>1. SoundSet(utxo)
      BY DEF Steady
    <2> QED BY <1>6, <2>1, SetIsConfirmed
  <1> QED BY <1>6, <1>7 DEF t

(* A larger set has the outputs that the inputs spend.                     *)
LEMMA SpendsKept ==
    ASSUME NEW u, NEW v, \A id \in DOMAIN u : id \in DOMAIN v /\ v[id] = u[id],
           NEW ins, SpendsAll(u, ins)
    PROVE  SpendsAll(v, ins) /\ Spent(v, ins) = Spent(u, ins)
  <1>1. ASSUME NEW k \in 1..Len(ins)
        PROVE  /\ v[ins[k].tx] = u[ins[k].tx] /\ Spends(v, ins[k]) /\ ins[k].key = ins[1].key
    <2>1. Spends(u, ins[k]) /\ ins[k].key = ins[1].key
      BY DEF SpendsAll
    <2>2. ins[k].tx \in DOMAIN u
      BY <2>1 DEF Spends, HasOutput
    <2>3. ins[k].tx \in DOMAIN v /\ v[ins[k].tx] = u[ins[k].tx]
      BY <2>2
    <2> QED BY <2>1, <2>3 DEF Spends, HasOutput
  <1>2. SpendsAll(v, ins)
    BY <1>1 DEF SpendsAll
  <1>3. Spent(v, ins) = Spent(u, ins)
    BY <1>1 DEF Spent
  <1> QED BY <1>2, <1>3

(* What the updates of a block with no payment make of the set ...         *)
MinedEmpty(cb, w, who) ==
    /\ w.ok = TRUE /\ SoundSet(w.utxo)
    /\ Worth(cb.outs, who) \in Int
    /\ Holdings(w.utxo, who) = Holdings(utxo, who) + Worth(cb.outs, who)
    /\ \A id \in DOMAIN utxo : id \in DOMAIN w.utxo /\ w.utxo[id] = utxo[id]
    /\ \A in : in.tx # cb.id /\ StillHolds(w.utxo, in) => StillHolds(utxo, in)

(* ... and those of a block with the payment t.                            *)
MinedOne(cb, t, w, who) ==
    /\ w.ok = TRUE /\ SoundSet(w.utxo)
    /\ Worth(cb.outs, who) \in Int /\ Worth(t.outs, who) \in Int
    /\ Taken(utxo, t.id.ins, Len(t.id.ins), who) \in Int
    /\ Holdings(w.utxo, who) = Holdings(utxo, who) + Worth(cb.outs, who) + Worth(t.outs, who)
                                  - Taken(utxo, t.id.ins, Len(t.id.ins), who)
    /\ \A in : in.tx # cb.id /\ in.tx # t.id /\ StillHolds(w.utxo, in) => StillHolds(utxo, in)
    /\ \A k \in 1..Len(t.id.ins) : ~StillHolds(w.utxo, t.id.ins[k])

(* A block holds one payment at most, and all its updates succeed.         *)
LEMMA MinedFacts ==
    ASSUME LedgerAssumption, NEW I, LedgerOver(I), Steady, NEW n \in 0..Len(pending),
           NEW miner \in Miners, Len(blocks) < MaxHeight, NEW who
    PROVE  LET cb == Coinbase(miner, Len(blocks))
               w == Updated(Candidate(n, miner))
           IN  /\ n = 0 => MinedEmpty(cb, w, who)
               /\ n = 1 => MinedOne(cb, pending[1], w, who)
               /\ n \in {0, 1}
               /\ \A p \in PlacesIn(blocks) : TxAt(blocks, p).id # cb.id
  <1> DEFINE cb == Coinbase(miner, Len(blocks))
             J == I \cup {cb.id}
             c == Append(blocks, Candidate(n, miner))
             s == Start(n, miner)
             h == Len(blocks) + 1
             V == WorldsOver(J, c)
             w == Updated(Candidate(n, miner))
  <1>1. Extended(J, c, n, miner) /\ s \in V
    BY UpdatedFacts
  <1>2. PICK f : Updates(f, s, h, n + 1, V) /\ w = f[n + 1]
    BY UpdatedFacts
  <1>3. s.ok = TRUE /\ s.utxo = utxo /\ s.chain = c
    BY DEF Start, World
  <1>4. n \in {0, 1} /\ Len(blocks) \in Nat /\ Len(blocks) \in 0..(MaxHeight - 1) /\ miner \in Addr
    <2>1. Len(pending) \in Nat /\ Len(blocks) \in Nat
      BY DEF LedgerOver
    <2>2. Len(pending) <= 1
      BY DEF Steady
    <2> QED BY <2>1, <2>2 DEF LedgerAssumption
  <1>5. /\ cb.id.ins = <<>> /\ cb.id.label = Len(blocks) /\ cb.outs = cb.id.outs
        /\ cb.outs = <<[value |-> Reward, owner |-> miner]>>
    <2>1. cb.id \in J
      OBVIOUS
    <2> HIDE DEF J
    <2> QED BY <1>4, <2>1, CoinbaseFacts
  <1> HIDE DEF J, c, s, cb, w
  <1>6. \A p \in PlacesIn(blocks) : TxAt(blocks, p).id # cb.id
    <2>1. ASSUME NEW p \in PlacesIn(blocks) PROVE TxAt(blocks, p).id.label < Len(blocks)
      BY DEF Steady, SoundChain
    <2>2. ASSUME NEW p \in PlacesIn(blocks), TxAt(blocks, p).id = cb.id PROVE FALSE
      <3>1. Len(blocks) < Len(blocks)
        BY <1>5, <2>1, <2>2
      <3> QED BY <1>4, <3>1
    <2> QED BY <2>2
  <1>7. SoundSet(utxo) /\ cb.id \notin DOMAIN utxo
    <2>1. SoundSet(utxo)
      BY DEF Steady
    <2> QED BY <1>6, <2>1, SetIsConfirmed
  <1>8. /\ J \subseteq IdsOver(J) /\ Len(c) = h /\ h \in 1..Len(c) /\ Len(c[h]) = n + 1
        /\ c[h][1] = cb /\ \A i \in 1..n : c[h][i + 1] = pending[i]
    BY <1>1, <1>4 DEF Extended, cb
  <1> HIDE DEF h, V
  <1> DEFINE at1 == <<h, 1>>
             at2 == <<h, 2>>
             x == f[1]
  <1>9. /\ at1 \in PlacesIn(c) /\ TxAt(c, at1) = cb
        /\ n = 1 => at2 \in PlacesIn(c) /\ TxAt(c, at2) = pending[1]
    BY <1>4, <1>8 DEF PlacesIn, TxAt
  <1>10. /\ f[0] = s /\ x = UpdateNext(s, at1)
         /\ n = 1 => f[2] = UpdateNext(x, at2)
    BY <1>2, <1>4 DEF Updates
  <1> HIDE DEF at1, at2, x
  <1>11. x \in V /\ Added(s, x, at1)
    <2>1. x = Update(s, at1)
      BY <1>3, <1>10 DEF UpdateNext
    <2>2. /\ J \subseteq IdsOver(J) /\ s \in WorldsOver(J, c) /\ at1 \in PlacesIn(s.chain)
          /\ s.ok = TRUE /\ TxAt(s.chain, at1).id.ins = <<>>
      BY <1>1, <1>3, <1>5, <1>8, <1>9 DEF V
    <2>3. Update(s, at1) \in WorldsOver(J, c) /\ Added(s, Update(s, at1), at1)
      BY <2>2, RewardUpdate
    <2> QED BY <2>1, <2>3 DEF V
  <1>12. MinedEmpty(cb, x, who)
    <2>1. /\ s \in WorldsOver(J, c) /\ x \in WorldsOver(J, c) /\ at1 \in PlacesIn(s.chain)
          /\ Added(s, x, at1) /\ SoundSet(s.utxo) /\ TxAt(s.chain, at1) = cb
          /\ TxAt(s.chain, at1).id \notin DOMAIN s.utxo
      BY <1>1, <1>3, <1>7, <1>9, <1>11 DEF V
    <2>2. Distinct(TxAt(s.chain, at1).outs)
      <3>1. Len(cb.outs) = 1
        BY <1>5
      <3>2. Distinct(cb.outs)
        BY <3>1 DEF Distinct
      <3> QED BY <2>1, <3>2
    <2>3. /\ SoundSet(x.utxo)
          /\ \A id \in DOMAIN s.utxo : id \in DOMAIN x.utxo /\ x.utxo[id] = s.utxo[id]
          /\ \A in : in.tx # cb.id /\ StillHolds(x.utxo, in) => StillHolds(s.utxo, in)
      BY <2>1, <2>2, GainFacts
    <2>4. /\ Holdings(x.utxo, who) = Holdings(s.utxo, who) + Worth(cb.outs, who)
          /\ Worth(cb.outs, who) \in Int
      BY <2>1, HoldingsMore
    <2>5. x.ok = TRUE
      BY <1>3, <1>11 DEF Added
    <2> QED BY <1>3, <2>3, <2>4, <2>5 DEF MinedEmpty
  <1>13. ASSUME n = 1 PROVE MinedOne(cb, pending[1], f[2], who)
    <2> DEFINE t == pending[1]
               ins == t.id.ins
               l == Len(ins)
    <2>1. 1 \in 1..Len(pending)
      <3>1. Len(pending) \in Nat
        BY DEF LedgerOver
      <3> QED BY <1>13, <3>1
    <2>2. SoundPayment(t) /\ t.id \notin DOMAIN utxo
      BY <2>1, NotConfirmed DEF Steady
    <2>3. f[2] = Update(x, at2)
      BY <1>10, <1>12, <1>13 DEF UpdateNext, MinedEmpty
    <2>4. SpendsAll(utxo, ins) /\ Distinct(t.outs) /\ t.id.label = NotCoinbase
      BY <2>2 DEF SoundPayment
    <2> HIDE DEF t
    <2>5. SpendsAll(x.utxo, ins) /\ Spent(x.utxo, ins) = Spent(utxo, ins)
      <3>1. \A id \in DOMAIN utxo : id \in DOMAIN x.utxo /\ x.utxo[id] = utxo[id]
        BY <1>12 DEF MinedEmpty
      <3> QED BY <2>4, <3>1, SpendsKept
    <2>6. Taken(x.utxo, ins, l, who) = Taken(utxo, ins, l, who)
      BY <2>5 DEF Taken
    <2>7. t.id # cb.id
      BY <1>4, <1>5, <2>4 DEF NotCoinbase
    <2>8. /\ x.chain = c /\ t = TxAt(x.chain, at2) /\ at2 \in PlacesIn(x.chain)
          /\ t.id \notin DOMAIN x.utxo
      <3>1. x.chain = c /\ DOMAIN x.utxo = DOMAIN utxo \cup {cb.id}
        BY <1>3, <1>9, <1>11 DEF Added
      <3> QED BY <1>9, <1>13, <2>2, <2>7, <3>1 DEF t
    <2>9. x.ok = TRUE /\ SoundSet(x.utxo)
      BY <1>12 DEF MinedEmpty
    <2>10. Moved(x, f[2], t, who)
      <3>1. J \subseteq IdsOver(J) /\ x \in WorldsOver(J, c)
        BY <1>8, <1>11 DEF V
      <3>2. Moved(x, Update(x, at2), t, who)
        BY <2>4, <2>5, <2>8, <2>9, <3>1, PaymentUpdate
      <3> QED BY <2>3, <3>2
    <2> DEFINE r == f[2]
    <2> HIDE DEF r
    <2>11. Moved(x, r, t, who)
      BY <2>10 DEF r
    <2>12. /\ Holdings(r.utxo, who) = Holdings(utxo, who) + Worth(cb.outs, who) + Worth(t.outs, who)
                                        - Taken(utxo, ins, l, who)
      BY <1>12, <2>6, <2>11 DEF Moved, MinedEmpty
    <2>13. \A in : in.tx # cb.id /\ in.tx # t.id /\ StillHolds(r.utxo, in) => StillHolds(utxo, in)
      BY <1>12, <2>11 DEF Moved, MinedEmpty
    <2>14. /\ r.ok = TRUE /\ SoundSet(r.utxo) /\ Worth(cb.outs, who) \in Int /\ Worth(t.outs, who) \in Int
           /\ Taken(utxo, ins, l, who) \in Int
           /\ \A k \in 1..l : ~StillHolds(r.utxo, ins[k])
      BY <1>12, <2>6, <2>11 DEF Moved, MinedEmpty
    <2> QED BY <2>12, <2>13, <2>14 DEF MinedOne, r, t
  <1>14. n = 0 => MinedEmpty(cb, w, who)
    BY <1>2, <1>12 DEF x
  <1>15. n = 1 => MinedOne(cb, pending[1], w, who)
    BY <1>2, <1>13
  <1> QED BY <1>4, <1>6, <1>14, <1>15 DEF cb, w

(* The sum over a set is the sum over its elements in any order.           *)
LEMMA SumInOrder ==
    ASSUME NEW found, IsFiniteSet(found), NEW v \in [found -> Int], NEW ins, InOrder(ins, found)
    PROVE  SumFunction(v) = SumFunction([k \in 1..Len(ins) |-> v[ins[k]]])
  <1> DEFINE l == Len(ins)
             f == [k \in 1..l |-> v[ins[k]]]
             T(k) == {ins[j] : j \in 1..k}
             some(k) == [x \in T(k) |-> v[x]]
             Good(k) == SumFunction(some(k)) = Partial(f, k)
             S == {k \in Nat : k <= l => Good(k)}
  <1>1. /\ ins \in Seq(found) /\ l \in Nat /\ \A k \in 1..l : ins[k] \in found
        /\ \A i, j \in 1..l : ins[i] = ins[j] => i = j
        /\ \A x \in found : \E i \in 1..l : ins[i] = x
    <2>1. ins \in Seq(found)
      BY DEF InOrder
    <2> QED BY <2>1, ElementIn DEF InOrder
  <1> HIDE DEF l
  <1>2. f \in [1..l -> Int]
    BY <1>1
  <1>3. \A k \in 1..l : f[k] = v[ins[k]]
    OBVIOUS
  <1> HIDE DEF f
  <1>4. /\ Partial(f, 0) = 0 /\ Partial(f, l) = SumFunction(f)
        /\ \A n \in 0..l : Partial(f, n) \in Int
        /\ \A n \in 1..l : Partial(f, n) = Partial(f, n - 1) + f[n]
    BY <1>1, <1>2, PartialSums
  <1>5. ASSUME NEW k \in 0..l
        PROVE  /\ IsFiniteSet(T(k)) /\ some(k) \in [T(k) -> Int]
               /\ \A x \in T(k) : some(k)[x] = v[x]
    <2>1. T(k) \subseteq found
      BY <1>1
    <2>2. IsFiniteSet(T(k))
      BY <2>1, FS_Subset
    <2> HIDE DEF T
    <2> QED BY <2>1, <2>2
  <1>6. 0 \in S
    <2> DEFINE D == T(0)
               e == some(0)
    <2>1. D = {} /\ IsFiniteSet(D) /\ e \in [D -> Int]
      BY <1>1, <1>5
    <2> HIDE DEF D, e
    <2>2. SumFunction(e) = 0
      BY <2>1, SumFacts
    <2> QED BY <1>4, <2>2 DEF e
  <1>7. ASSUME NEW k \in Nat, k + 1 <= l, Good(k) PROVE Good(k + 1)
    <2> DEFINE D == T(k + 1)
               e == some(k + 1)
               x == ins[k + 1]
    <2>1. k + 1 \in 1..l /\ k + 1 \in 0..l /\ (k + 1) - 1 = k /\ k \in 0..l
      BY <1>1, <1>7
    <2>2. IsFiniteSet(D) /\ e \in [D -> Int] /\ \A y \in D : e[y] = v[y]
      <3> HIDE DEF T, some
      <3> QED BY <1>5, <2>1
    <2>3. x \in D /\ D \ {x} = T(k)
      <3>1. ASSUME NEW j \in 1..(k + 1), ins[j] # x PROVE ins[j] \in T(k)
        <4>1. j # k + 1
          BY <3>1
        <4>2. j \in 1..k
          BY <2>1, <4>1
        <4> QED BY <4>2
      <3>2. ASSUME NEW j \in 1..k PROVE ins[j] \in D /\ ins[j] # x
        <4>1. j \in 1..(k + 1) /\ j \in 1..l /\ j # k + 1
          BY <1>1, <2>1
        <4> QED BY <1>1, <2>1, <4>1
      <3>3. x \in D
        BY <2>1
      <3> QED BY <3>1, <3>2, <3>3
    <2> HIDE DEF D, e, x
    <2>4. SumFunction(e) = e[x] + SumFunction([y \in D \ {x} |-> e[y]])
      <3>1. \A z \in D : SumFunction(e) = e[z] + SumFunction([y \in D \ {z} |-> e[y]])
        BY <2>2, SumFacts
      <3> QED BY <2>3, <3>1
    <2>5. [y \in D \ {x} |-> e[y]] = some(k)
      <3>1. \A y \in D \ {x} : e[y] = v[y]
        BY <2>2
      <3> HIDE DEF T
      <3> QED BY <2>3, <3>1
    <2> HIDE DEF some
    <2>6. e[x] = f[k + 1] /\ e[x] \in Int
      BY <1>3, <2>1, <2>2, <2>3 DEF x
    <2>7. SumFunction(e) = Partial(f, k + 1)
      <3>1. /\ SumFunction(some(k)) = Partial(f, k) /\ Partial(f, k) \in Int
            /\ Partial(f, k + 1) = Partial(f, k) + f[k + 1]
        BY <1>4, <1>7, <2>1
      <3> QED BY <2>4, <2>5, <2>6, <3>1
    <2> QED BY <2>7 DEF e
  <1> HIDE DEF Good
  <1>8. ASSUME NEW k \in Nat, k \in S PROVE k + 1 \in S
    <2>1. ASSUME k + 1 <= l PROVE Good(k + 1)
      BY <1>1, <1>8, <1>7, <2>1
    <2> QED BY <2>1
  <1> HIDE DEF S
  <1>9. l \in S
    BY <1>1, <1>6, <1>8, Induction
  <1>10. Good(l)
    BY <1>1, <1>9 DEF S
  <1>11. some(l) = v
    <2>1. T(l) = found
      BY <1>1
    <2> HIDE DEF T
    <2> QED BY <2>1
  <1> HIDE DEF some
  <1> QED BY <1>4, <1>10, <1>11 DEF Good, f, l

(* A payment pays out what was found for it, to two addresses at most.     *)
LEMMA PaymentWorth ==
    ASSUME NEW found, NEW from \in Addr, NEW to \in Addr, from # to,
           NEW amount \in Nat \ {0}, ValueOf(found) \in Int, ValueOf(found) >= amount
    PROVE  /\ Worth(PaymentOuts(found, from, to, amount), Addr) = ValueOf(found)
           /\ Distinct(PaymentOuts(found, from, to, amount))
  <1> DEFINE outs == PaymentOuts(found, from, to, amount)
             value == ValueOf(found)
             pay == [value |-> amount, owner |-> to]
             back == [value |-> value - amount, owner |-> from]
             f == SharesOf(outs, Addr)
  <1>1. outs \in Seq(Output)
    BY PaymentOutsFacts
  <1>2. outs = IF value - amount > 0 THEN <<pay>> \o <<back>> ELSE <<pay>> \o <<>>
    BY DEF PaymentOuts
  <1> HIDE DEF outs, value, f
  <1>3. value \in Int /\ value >= amount
    BY DEF value
  <1>4. /\ f \in [1..Len(outs) -> Int] /\ Len(outs) \in Nat
        /\ Worth(outs, Addr) = Partial(f, Len(outs))
    BY <1>1, WorthFacts DEF f
  <1>5. \A i \in 1..Len(outs) : f[i] = Share(outs[i], Addr)
    BY DEF f, SharesOf
  <1>6. CASE value - amount > 0
    <2>1. /\ Len(outs) = 2 /\ outs[1] = pay /\ outs[2] = back
      BY <1>2, <1>6
    <2>2. f[1] = amount /\ f[2] = value - amount
      BY <1>5, <2>1 DEF Share
    <2>3. Partial(f, 0) = 0 /\ Partial(f, 1) = Partial(f, 0) + f[1] /\ Partial(f, 2) = Partial(f, 1) + f[2]
      <3>1. f \in [1..2 -> Int]
        BY <1>4, <2>1
      <3>2. Partial(f, 0) = 0 /\ \A n \in 1..2 : Partial(f, n) = Partial(f, n - 1) + f[n]
        BY <3>1, PartialSums
      <3> QED BY <3>2
    <2>4. Worth(outs, Addr) = value
      BY <1>3, <1>4, <2>1, <2>2, <2>3
    <2>5. Distinct(outs)
      BY <2>1 DEF Distinct
    <2> QED BY <2>4, <2>5 DEF outs, value
  <1>7. CASE ~(value - amount > 0)
    <2>1. value = amount
      BY <1>3, <1>7
    <2>2. Len(outs) = 1 /\ outs[1] = pay
      BY <1>2, <1>7
    <2>3. f[1] = amount
      BY <1>5, <2>2 DEF Share
    <2>4. Partial(f, 0) = 0 /\ Partial(f, 1) = Partial(f, 0) + f[1]
      <3>1. f \in [1..1 -> Int]
        BY <1>4, <2>2
      <3>2. Partial(f, 0) = 0 /\ \A n \in 1..1 : Partial(f, n) = Partial(f, n - 1) + f[n]
        BY <3>1, PartialSums
      <3> QED BY <3>2
    <2>5. Worth(outs, Addr) = value
      BY <1>3, <1>4, <2>1, <2>2, <2>3, <2>4
    <2>6. Distinct(outs)
      BY <2>2 DEF Distinct
    <2> QED BY <2>5, <2>6 DEF outs, value
  <1> QED BY <1>6, <1>7

(* The owner that Sign and Verify read is that of the output in the set.   *)
LEMMA OwnerIsRecorded ==
    ASSUME NEW I, LedgerOver(I), SoundChain(blocks, utxo), SoundSet(utxo),
           NEW in, Names(blocks, in), HasOutput(utxo, in), in.idx \in Nat \ {0}
    PROVE  RecordedOwner(in) = utxo[in.tx].outs[in.idx].owner
  <1> DEFINE e == utxo[in.tx]
  <1>1. /\ blocks \in ChainsOver(I) /\ I \subseteq IdsOver(I) /\ utxo \in SetsOver(I)
        /\ Shares(utxo, blocks)
    BY DEF LedgerOver
  <1>2. in.tx \in DOMAIN utxo /\ in.idx <= Len(e.outs)
    BY DEF HasOutput
  <1>3. /\ e.home \in PlacesIn(blocks) /\ TxAt(blocks, e.home).id = in.tx
        /\ IsPrefix(e.outs, TxAt(blocks, e.home).outs)
    BY <1>1, <1>2 DEF SoundSet, Shares
  <1>4. PICK p \in PlacesIn(blocks) :
           FindTransaction(in.tx) = TxAt(blocks, p) /\ TxAt(blocks, p).id = in.tx
    BY <1>1, FindTransactionFacts DEF Names
  <1>5. p = e.home
    BY <1>3, <1>4 DEF SoundChain
  <1>6. e.outs \in Seq(Output) /\ TxAt(blocks, p).outs \in Seq(Output)
    <2>1. e \in Entries
      BY <1>1, <1>2, SetFacts
    <2>2. TxAt(blocks, p) \in TxsOver(I)
      BY <1>1, ChainFacts
    <2> QED BY <2>1, <2>2 DEF Entries, TxsOver
  <1> HIDE DEF e
  <1>7. in.idx \in 1..Len(e.outs)
    BY <1>2, <1>6
  <1>8. e.outs[in.idx] = TxAt(blocks, p).outs[in.idx]
    BY <1>3, <1>5, <1>6, <1>7, PrefixFacts
  <1> QED BY <1>4, <1>8 DEF RecordedOwner, e

(* Its signatures are divided where they were put together.                *)
Divided(t) == \A signature \in Range(t.signed) : signature.splits

(* A payment that waits verifies, if its signatures are divided right.     *)
LEMMA AlwaysVerifies ==
    ASSUME NEW I, LedgerOver(I), Steady, NEW n \in 0..Len(pending),
           \A i \in 1..n : Divided(pending[i])
    PROVE  AllVerify(n)
  <1> SUFFICES ASSUME NEW i \in 1..n PROVE VerifyTransaction(pending[i])
    BY DEF AllVerify
  <1> DEFINE t == pending[i]
             ins == t.id.ins
  <1>1. /\ blocks \in ChainsOver(I) /\ I \subseteq IdsOver(I) /\ pending \in Seq(TxsOver(I))
        /\ \A k \in 1..Len(pending) : \A j \in 1..Len(pending[k].id.ins) :
              Names(blocks, pending[k].id.ins[j])
    BY DEF LedgerOver
  <1>2. i \in 1..Len(pending)
    <2>1. Len(pending) \in Nat
      BY <1>1
    <2> QED BY <2>1
  <1>3. SoundChain(blocks, utxo) /\ SoundSet(utxo) /\ SoundPayment(t)
    BY <1>2 DEF Steady
  <1>4. DOMAIN ins = 1..Len(ins) /\ t.signed \in Seq(Signature) /\ Len(t.signed) = Len(ins)
    <2>1. t \in TxsOver(I)
      BY <1>1, <1>2, ElementIn
    <2> HIDE DEF t
    <2>2. ins \in Seq(InputsOver(I)) /\ t.signed \in Seq(Signature) /\ Len(t.signed) = Len(ins)
      BY <1>1, <2>1, TxFacts
    <2> QED BY <2>2, PlacesOfSeq
  <1>5. ASSUME NEW k \in 1..Len(ins)
        PROVE  /\ \E c \in Confirmed : c.id = ins[k].tx
               /\ t.signed[k] = [covers |-> RecordedOwner(ins[k]), splits |-> TRUE]
    <2>1. Names(blocks, ins[k])
      BY <1>1, <1>2
    <2>2. \E c \in Confirmed : c.id = ins[k].tx
      <3>1. PICK p \in PlacesIn(blocks) : TxAt(blocks, p).id = ins[k].tx
        BY <2>1 DEF Names
      <3>2. TxAt(blocks, p) \in Confirmed
        BY <1>1, ConfirmedFacts
      <3> QED BY <3>1, <3>2
    <2>3. /\ HasOutput(utxo, ins[k]) /\ ins[k].idx \in Nat \ {0}
          /\ utxo[ins[k].tx].outs[ins[k].idx].owner = ins[k].key
          /\ t.signed[k].covers = ins[k].key
      BY <1>3 DEF SoundPayment, SpendsAll, Spends
    <2>4. RecordedOwner(ins[k]) = utxo[ins[k].tx].outs[ins[k].idx].owner
      BY <1>3, <2>1, <2>3, OwnerIsRecorded
    <2>5. t.signed[k] \in Signature /\ t.signed[k] \in Range(t.signed)
      <3> DEFINE signed == t.signed
      <3>1. signed \in Seq(Signature) /\ k \in 1..Len(signed)
        BY <1>4
      <3> HIDE DEF signed
      <3>2. signed[k] \in Signature /\ signed[k] \in Range(signed)
        BY <3>1 DEF Range
      <3> QED BY <3>2 DEF signed
    <2>6. t.signed[k].splits = TRUE
      BY <2>5 DEF Divided, Signature
    <2> DEFINE signature == t.signed[k]
    <2>7. signature = [covers |-> signature.covers, splits |-> signature.splits]
      BY <2>5 DEF Signature
    <2> QED BY <2>2, <2>3, <2>4, <2>6, <2>7
  <1> HIDE DEF t
  <1>6. VerifyTransaction(t)
    BY <1>4, <1>5 DEF VerifyTransaction, Verify, SignedData
  <1> QED BY <1>6 DEF t

(* CreateTransaction makes a sound payment.                                *)
LEMMA CreateSteady ==
    ASSUME LedgerAssumption, OneAtATime, NEW I, LedgerOver(I), Steady,
           NEW pair \in Transfers, NEW amount \in Amounts,
           CreateTransaction(pair[1], pair[2], amount)
    PROVE  Steady'
  <1> DEFINE from == pair[1]
             to == pair[2]
  <1>1. /\ from \in Addr /\ to \in Addr /\ from # to /\ amount \in Nat \ {0}
        /\ MaxPending <= 1 /\ MaxPending \in Nat
    BY DEF LedgerAssumption, OneAtATime
  <1>2. PICK found \in FindSpendableOutputs(from, amount) :
           \E ins, splits : Creates(I, found, ins, splits, from, to, amount)
    BY CreateFacts
  <1>3. PICK ins, splits : Creates(I, found, ins, splits, from, to, amount)
    BY <1>2
  <1> DEFINE t == Payment(ins, splits, found, from, to, amount)
             outs == PaymentOuts(found, from, to, amount)
  <1>4. /\ InOrder(ins, found)
        /\ \A k \in 1..Len(ins) : Names(blocks, ins[k])
        /\ pending' = Append(pending, t) /\ Len(pending) < MaxPending
        /\ t.id.ins = ins /\ t.id.outs = outs
        /\ t.id.label = NotCoinbase /\ t.outs = t.id.outs
        /\ t.signed = [k \in DOMAIN ins |->
                         [covers |-> RecordedOwner(ins[k]), splits |-> splits[k]]]
    BY <1>3 DEF Creates
  <1> HIDE DEF t, from, to
  <1>5. /\ utxo \in SetsOver(I) /\ EntriesFit(utxo) /\ Len(pending) \in Nat
        /\ pending \in Seq(TxsOver(I)) /\ SoundChain(blocks, utxo) /\ SoundSet(utxo)
    BY DEF LedgerOver, Steady
  <1>6. /\ found \subseteq Spendable(from) /\ IsFiniteSet(found) /\ found # {}
        /\ ValueOf(found) \in Int /\ ValueOf(found) >= amount
    BY <1>1, <1>5, FoundFacts
  <1>7. /\ Spendable(from) \subseteq InputsOver(I)
        /\ \A in \in Spendable(from) :
                 /\ HasOutput(utxo, in) /\ in.idx \in 1..Len(utxo[in.tx].outs)
                 /\ utxo[in.tx].outs[in.idx].owner = from /\ in.key = from
    BY <1>1, <1>5, SpendableFacts
  <1>8. /\ ins \in Seq(found) /\ Len(ins) \in Nat /\ Len(ins) >= 1 /\ DOMAIN ins = 1..Len(ins)
        /\ \A k \in 1..Len(ins) : ins[k] \in found
        /\ \A j, k \in 1..Len(ins) : ins[j] = ins[k] => j = k
    <2>1. ins \in Seq(found) /\ \A j, k \in 1..Len(ins) : ins[j] = ins[k] => j = k
      BY <1>4 DEF InOrder
    <2>2. \E i \in 1..Len(ins) : TRUE
      BY <1>4, <1>6 DEF InOrder
    <2>3. Len(ins) \in Nat /\ DOMAIN ins = 1..Len(ins) /\ \A k \in 1..Len(ins) : ins[k] \in found
      BY <2>1, ElementIn
    <2> QED BY <2>1, <2>2, <2>3
  <1>9. ASSUME NEW k \in 1..Len(ins)
        PROVE  /\ Spends(utxo, ins[k]) /\ ins[k].key = from
               /\ ins[k] \in InputsOver(I) /\ ins[k].idx \in 1..Len(utxo[ins[k].tx].outs)
    <2>1. ins[k] \in Spendable(from)
      BY <1>6, <1>8
    <2>2. ins[k] \in InputsOver(I)
      BY <1>7, <2>1
    <2>3. ins[k].idx \in Nat \ {0}
      BY <2>2 DEF InputsOver
    <2> QED BY <1>7, <2>1, <2>2, <2>3 DEF Spends
  <1>10. ASSUME NEW j \in 1..Len(ins), NEW k \in 1..Len(ins), ins[j].tx = ins[k].tx
         PROVE  j = k
    <2> DEFINE e == utxo[ins[j].tx].outs
    <2>1. /\ ins[j].idx \in 1..Len(e) /\ e[ins[j].idx].owner = from
          /\ ins[k].idx \in 1..Len(e) /\ e[ins[k].idx].owner = from
      BY <1>9, <1>10 DEF Spends
    <2>2. Distinct(e)
      <3>1. ins[j].tx \in DOMAIN utxo
        BY <1>9 DEF Spends, HasOutput
      <3> QED BY <1>5, <3>1 DEF SoundSet
    <2> HIDE DEF e
    <2>3. ins[j].idx = ins[k].idx
      BY <2>1, <2>2 DEF Distinct
    <2>4. /\ ins[j] = [tx |-> ins[j].tx, idx |-> ins[j].idx, key |-> ins[j].key]
          /\ ins[k] = [tx |-> ins[k].tx, idx |-> ins[k].idx, key |-> ins[k].key]
      BY <1>9 DEF InputsOver
    <2>5. ins[j] = ins[k]
      BY <1>9, <1>10, <2>3, <2>4
    <2> QED BY <1>8, <2>5
  <1>11. SpendsAll(utxo, ins)
    <2>1. 1 \in 1..Len(ins)
      BY <1>8
    <2> QED BY <1>9, <1>10, <2>1 DEF SpendsAll
  <1>12. ASSUME NEW k \in 1..Len(ins) PROVE t.signed[k].covers = ins[k].key
    <2>1. t.signed[k].covers = RecordedOwner(ins[k])
      BY <1>4, <1>8
    <2>2. HasOutput(utxo, ins[k]) /\ ins[k].idx \in Nat \ {0} /\ Names(blocks, ins[k])
      BY <1>4, <1>9 DEF Spends
    <2>3. RecordedOwner(ins[k]) = utxo[ins[k].tx].outs[ins[k].idx].owner
      BY <1>5, <2>2, OwnerIsRecorded
    <2> QED BY <1>9, <2>1, <2>3 DEF Spends
  <1>13. Worth(outs, Addr) = ValueOf(found) /\ Distinct(outs)
    BY <1>1, <1>6, PaymentWorth
  <1>14. ValueOf(found) = SumFunction(Spent(utxo, ins))
    <2> DEFINE v == [in \in found |-> utxo[in.tx].outs[in.idx].value]
    <2>1. v \in [found -> Int]
      <3>1. ASSUME NEW in \in found PROVE utxo[in.tx].outs[in.idx].value \in Int
        <4>1. in.idx \in 1..Len(utxo[in.tx].outs) /\ in.tx \in DOMAIN utxo
          BY <1>6, <1>7 DEF HasOutput
        <4>2. utxo[in.tx] \in Entries
          BY <1>5, <4>1, SetFacts
        <4>3. utxo[in.tx].outs \in Seq(Output)
          BY <4>2 DEF Entries
        <4>4. utxo[in.tx].outs[in.idx] \in Output
          BY <4>1, <4>3, ElementIn
        <4> QED BY <4>4 DEF Output
      <3> QED BY <3>1
    <2>2. ValueOf(found) = SumFunction(v)
      BY DEF ValueOf
    <2>3. \A x \in found : v[x] = utxo[x.tx].outs[x.idx].value
      OBVIOUS
    <2> HIDE DEF v
    <2>4. SumFunction(v) = SumFunction([k \in 1..Len(ins) |-> v[ins[k]]])
      <3>1. IsFiniteSet(found) /\ v \in [found -> Int] /\ InOrder(ins, found)
        BY <1>4, <1>6, <2>1
      <3> QED BY <3>1, SumInOrder
    <2>5. [k \in 1..Len(ins) |-> v[ins[k]]] = Spent(utxo, ins)
      BY <1>8, <2>3 DEF Spent
    <2> QED BY <2>2, <2>4, <2>5
  <1>15. UNCHANGED <<blocks, utxo>>
    BY DEF CreateTransaction
  <1> HIDE DEF outs
  <1>16. /\ Len(t.id.ins) >= 1 /\ t.id.label = NotCoinbase
         /\ t.outs = t.id.outs /\ Distinct(t.outs)
         /\ SpendsAll(utxo, t.id.ins)
         /\ \A k \in 1..Len(t.id.ins) : t.signed[k].covers = t.id.ins[k].key
         /\ Worth(t.outs, Addr) = SumFunction(Spent(utxo, t.id.ins))
    BY <1>4, <1>8, <1>11, <1>12, <1>13, <1>14
  <1>17. Len(pending) = 0 /\ pending' = <<t>>
    <2>1. Len(pending) = 0
      BY <1>1, <1>4, <1>5
    <2>2. pending = <<>>
      BY <1>5, <2>1
    <2> QED BY <1>4, <2>1, <2>2
  <1>18. /\ Len(pending') <= 1
         /\ \A k \in 1..Len(pending') : SoundPayment(pending[k])'
    <2>1. Len(pending') = 1 /\ pending'[1] = t
      BY <1>17
    <2>2. SoundPayment(pending[1])'
      BY <1>15, <1>16, <2>1 DEF SoundPayment
    <2> QED BY <2>1, <2>2
  <1>19. SoundChain(blocks', utxo') /\ SoundSet(utxo')
    BY <1>5, <1>15
  <1> QED BY <1>18, <1>19 DEF Steady

(* The chain that AddBlock leaves: one more block, of a reward and the     *)
(* first n payments, as far as their ids and signatures.                   *)
OneMore(n, cb) ==
    LET h == Len(blocks) + 1
    IN  /\ Len(blocks) \in Nat /\ n \in Nat
        /\ Len(blocks') = h /\ blocks'[h] \in Seq(Range(blocks'[h])) /\ Len(blocks'[h]) = n + 1
        /\ PlacesIn(blocks) \subseteq PlacesIn(blocks')
        /\ \A p \in PlacesIn(blocks') :
              p \in PlacesIn(blocks) \/ \E j \in 1..(n + 1) : p = <<h, j>>
        /\ \A p \in PlacesIn(blocks) : TxAt(blocks', p).id = TxAt(blocks, p).id
        /\ blocks'[h][1].id = cb.id
        /\ \A i \in 1..n : /\ blocks'[h][i + 1].id = pending[i].id
                           /\ blocks'[h][i + 1].signed = pending[i].signed
        /\ \A j \in 1..(n + 1) : \E K : blocks'[h][j] \in TxsOver(K)

(* Updating the set leaves ids and signatures alone.                       *)
LEMMA OneMoreBlock ==
    ASSUME LedgerAssumption, NEW I, LedgerOver(I), NEW n \in 0..Len(pending),
           NEW miner \in Miners, AddBlock(n, miner)
    PROVE  OneMore(n, Coinbase(miner, Len(blocks)))
  <1> DEFINE cb == Coinbase(miner, Len(blocks))
             J == I \cup {cb.id}
             c == Append(blocks, Candidate(n, miner))
             w == Updated(Candidate(n, miner))
             h == Len(blocks) + 1
  <1>1. Len(blocks) < MaxHeight /\ blocks' = w.chain
    BY DEF AddBlock, HandOver
  <1>2. Extended(J, c, n, miner) /\ w \in WorldsOver(J, c)
    BY <1>1, UpdatedFacts
  <1> HIDE DEF J, c, w
  <1>3. /\ Len(c) = h /\ Len(c[h]) = n + 1 /\ c[h][1] = cb
        /\ \A k \in 1..Len(blocks) : c[k] = blocks[k]
        /\ \A i \in 1..n : c[h][i + 1] = pending[i]
        /\ PlacesIn(blocks) \subseteq PlacesIn(c)
        /\ \A p \in PlacesIn(blocks) : TxAt(c, p) = TxAt(blocks, p)
    BY <1>2 DEF Extended, cb
  <1>4. Len(blocks) \in Nat /\ Len(blocks) \in 1..MaxHeight /\ n \in Nat
    BY DEF LedgerOver
  <1> HIDE DEF cb
  <1>5. SameShape(blocks', c) /\ blocks' \in ChainsOver(J)
    BY <1>1, <1>2, WorldFacts
  <1>6. /\ PlacesIn(blocks') = PlacesIn(c) /\ Len(blocks') = h
        /\ \A p \in PlacesIn(c) : TxAt(blocks', p).id = TxAt(c, p).id
    BY <1>3, <1>5, ShapeFacts DEF SameShape
  <1> HIDE DEF h
  <1>7. h \in 1..Len(c) /\ h \in 1..Len(blocks') /\ h \in Nat
    BY <1>3, <1>4, <1>6 DEF h
  <1>8. /\ Len(blocks'[h]) = n + 1
        /\ \A j \in 1..(n + 1) : blocks'[h][j].id = c[h][j].id /\ blocks'[h][j].signed = c[h][j].signed
    BY <1>3, <1>5, <1>7 DEF SameShape
  <1>9. /\ blocks'[h] \in Seq(TxsOver(J)) /\ \A j \in 1..(n + 1) : blocks'[h][j] \in TxsOver(J)
    BY <1>5, <1>7, <1>8, ChainFacts
  <1>10. ASSUME NEW p \in PlacesIn(blocks')
         PROVE  p \in PlacesIn(blocks) \/ \E j \in 1..(n + 1) : p = <<h, j>>
    <2>1. p \in Nat \X Nat /\ p[1] \in 1..Len(c) /\ p[2] \in 1..Len(c[p[1]]) /\ p = <<p[1], p[2]>>
      BY <1>6 DEF PlacesIn
    <2>2. CASE p[1] = h
      BY <1>3, <2>1, <2>2
    <2>3. CASE p[1] # h
      <3>1. p[1] \in 1..Len(blocks)
        BY <1>3, <1>4, <2>1, <2>3 DEF h
      <3> QED BY <1>3, <2>1, <3>1 DEF PlacesIn
    <2> QED BY <2>2, <2>3
  <1>11. blocks'[h] \in Seq(Range(blocks'[h]))
    <2> DEFINE b == blocks'[h]
    <2>1. b \in Seq(TxsOver(J))
      BY <1>9
    <2> HIDE DEF b
    <2>2. b \in Seq(Range(b))
      BY <2>1 DEF Range
    <2> QED BY <2>2 DEF b
  <1>12. \A j \in 1..(n + 1) : \E K : blocks'[h][j] \in TxsOver(K)
    BY <1>9
  <1>13. blocks'[h][1].id = cb.id /\ 1 \in 1..(n + 1)
    BY <1>3, <1>4, <1>8
  <1>14. ASSUME NEW i \in 1..n
         PROVE  /\ blocks'[h][i + 1].id = pending[i].id
                /\ blocks'[h][i + 1].signed = pending[i].signed
    <2>1. i + 1 \in 1..(n + 1)
      BY <1>4
    <2> QED BY <1>3, <1>8, <2>1
  <1>15. \A p \in PlacesIn(blocks) : TxAt(blocks', p).id = TxAt(blocks, p).id
    BY <1>3, <1>6
  <1> QED BY <1>3, <1>4, <1>6, <1>8, <1>10, <1>11, <1>12, <1>13, <1>14, <1>15 DEF OneMore, h, cb

(* AddBlock keeps the ledger steady.                                       *)
LEMMA MineSteady ==
    ASSUME LedgerAssumption, NEW I, LedgerOver(I), Steady, NEW n \in 0..Len(pending),
           NEW miner \in Miners, AddBlock(n, miner)
    PROVE  Steady'
  <1> DEFINE cb == Coinbase(miner, Len(blocks))
             w == Updated(Candidate(n, miner))
             h == Len(blocks) + 1
  <1>1. /\ HandOver(n) /\ Len(blocks) < MaxHeight /\ utxo' = w.utxo
    BY DEF AddBlock, HandOver
  <1>2. /\ n = 0 => MinedEmpty(cb, w, Addr)
        /\ n = 1 => MinedOne(cb, pending[1], w, Addr)
        /\ n \in {0, 1}
        /\ \A p \in PlacesIn(blocks) : TxAt(blocks, p).id # cb.id
    BY <1>1, MinedFacts
  <1>3. OneMore(n, cb)
    BY OneMoreBlock
  <1> HIDE DEF w
  <1>4. /\ SoundChain(blocks, utxo) /\ SoundSet(utxo) /\ Len(pending) <= 1
        /\ \A k \in 1..Len(pending) : SoundPayment(pending[k])
    BY DEF Steady
  <1>5. /\ I \subseteq IdsOver(I) /\ blocks \in ChainsOver(I) /\ pending \in Seq(TxsOver(I))
        /\ \A k \in 1..Len(pending) : \A j \in 1..Len(pending[k].id.ins) :
              Names(blocks, pending[k].id.ins[j])
        /\ Len(pending) \in Nat /\ Len(blocks) \in 1..MaxHeight /\ Len(blocks) \in Nat
    BY DEF LedgerOver
  <1>6. /\ cb.id.ins = <<>> /\ cb.id.label = Len(blocks)
    <2> DEFINE J == {cb.id}
    <2>1. Len(blocks) \in 0..(MaxHeight - 1) /\ miner \in Addr /\ cb.id \in J
      BY <1>1, <1>5 DEF LedgerAssumption
    <2> HIDE DEF J, cb
    <2>2. /\ Coinbase(miner, Len(blocks)).id.ins = <<>>
          /\ Coinbase(miner, Len(blocks)).id.label = Len(blocks)
      BY <2>1, CoinbaseFacts DEF cb
    <2> QED BY <2>2 DEF cb
  <1> HIDE DEF cb
  <1>7. /\ Len(blocks') = h
        /\ PlacesIn(blocks) \subseteq PlacesIn(blocks')
        /\ \A p \in PlacesIn(blocks') :
              p \in PlacesIn(blocks) \/ \E j \in 1..(n + 1) : p = <<h, j>>
        /\ \A p \in PlacesIn(blocks) : TxAt(blocks', p).id = TxAt(blocks, p).id
        /\ TxAt(blocks', <<h, 1>>).id = cb.id
        /\ n = 1 => TxAt(blocks', <<h, 2>>).id = pending[1].id
    <2>1. n = 1 => blocks'[h][1 + 1].id = pending[1].id
      BY <1>3 DEF OneMore
    <2> QED BY <1>3, <2>1 DEF OneMore, TxAt
  <1>8. ASSUME n = 1
        PROVE  /\ 1 \in 1..Len(pending) /\ pending[1].id.label = NotCoinbase
               /\ \A p \in PlacesIn(blocks) : TxAt(blocks, p).id # pending[1].id
               /\ pending[1].id # cb.id
    <2>1. 1 \in 1..Len(pending)
      BY <1>5, <1>8
    <2>2. SoundPayment(pending[1])
      BY <1>4, <2>1
    <2>3. pending[1].id.label = NotCoinbase
      BY <2>2 DEF SoundPayment
    <2>4. \A p \in PlacesIn(blocks) : TxAt(blocks, p).id # pending[1].id
      BY <2>1, NotConfirmed
    <2> QED BY <1>5, <1>6, <2>1, <2>3, <2>4 DEF NotCoinbase
  <1> HIDE DEF h
  <1>9. ASSUME NEW p \in PlacesIn(blocks')
        PROVE  p \in PlacesIn(blocks) \/ p = <<h, 1>> \/ (n = 1 /\ p = <<h, 2>>)
    <2>1. CASE p \in PlacesIn(blocks)
      BY <2>1
    <2>2. CASE \E j \in 1..(n + 1) : p = <<h, j>>
      <3>1. PICK j \in 1..(n + 1) : p = <<h, j>>
        BY <2>2
      <3>2. j = 1 \/ (n = 1 /\ j = 2)
        BY <1>2
      <3> QED BY <3>1, <3>2
    <2> QED BY <1>7, <2>1, <2>2
  <1>10. ASSUME NEW p \in PlacesIn(blocks'), NEW q \in PlacesIn(blocks'),
                TxAt(blocks', p).id = TxAt(blocks', q).id
         PROVE  p = q
    <2>1. CASE p \in PlacesIn(blocks)
      <3>1. CASE q \in PlacesIn(blocks)
        BY <1>4, <1>7, <1>10, <2>1, <3>1 DEF SoundChain
      <3>2. CASE q = <<h, 1>>
        BY <1>2, <1>7, <1>10, <2>1, <3>2
      <3>3. CASE n = 1 /\ q = <<h, 2>>
        BY <1>7, <1>8, <1>10, <2>1, <3>3
      <3> QED BY <1>9, <3>1, <3>2, <3>3
    <2>2. CASE p = <<h, 1>>
      <3>1. CASE q \in PlacesIn(blocks)
        BY <1>2, <1>7, <1>10, <2>2, <3>1
      <3>2. CASE n = 1 /\ q = <<h, 2>>
        BY <1>7, <1>8, <1>10, <2>2, <3>2
      <3> QED BY <1>9, <2>2, <3>1, <3>2
    <2>3. CASE n = 1 /\ p = <<h, 2>>
      <3>1. CASE q \in PlacesIn(blocks)
        BY <1>7, <1>8, <1>10, <2>3, <3>1
      <3>2. CASE q = <<h, 1>>
        BY <1>7, <1>8, <1>10, <2>3, <3>2
      <3> QED BY <1>9, <2>3, <3>1, <3>2
    <2> QED BY <1>9, <2>1, <2>2, <2>3
  <1>11. ASSUME NEW p \in PlacesIn(blocks') PROVE TxAt(blocks', p).id.label < Len(blocks')
    <2>1. Len(blocks') = Len(blocks) + 1
      BY <1>7 DEF h
    <2>2. CASE p \in PlacesIn(blocks)
      <3>1. TxAt(blocks, p).id.label < Len(blocks)
        BY <1>4, <2>2 DEF SoundChain
      <3>2. TxAt(blocks, p).id.label \in Labels
        BY <1>5, <2>2, ChainFacts, TxFacts
      <3>3. TxAt(blocks, p).id.label \in Int
        BY <3>2 DEF Labels, NotCoinbase
      <3> QED BY <1>5, <1>7, <2>1, <2>2, <3>1, <3>3
    <2>3. CASE p = <<h, 1>>
      <3>1. TxAt(blocks', p).id.label = Len(blocks)
        BY <1>6, <1>7, <2>3
      <3> QED BY <1>5, <2>1, <3>1
    <2>4. CASE n = 1 /\ p = <<h, 2>>
      <3>1. TxAt(blocks', p).id.label = -1
        BY <1>7, <1>8, <2>4 DEF NotCoinbase
      <3> QED BY <1>5, <2>1, <3>1
    <2> QED BY <1>9, <2>2, <2>3, <2>4
  <1>12. ASSUME NEW in, Names(blocks, in)
         PROVE  /\ Names(blocks', in)
                /\ ~StillHolds(utxo, in) => ~StillHolds(utxo', in)
    <2>1. Names(blocks', in)
      BY <1>7, <1>12, NamesKept
    <2>2. PICK p \in PlacesIn(blocks) : TxAt(blocks, p).id = in.tx
      BY <1>12 DEF Names
    <2>3. in.tx # cb.id /\ (n = 1 => in.tx # pending[1].id)
      BY <1>2, <1>8, <2>2
    <2>4. StillHolds(utxo', in) => StillHolds(utxo, in)
      <3>1. CASE n = 0
        BY <1>1, <1>2, <2>3, <3>1 DEF MinedEmpty
      <3>2. CASE n = 1
        BY <1>1, <1>2, <2>3, <3>2 DEF MinedOne
      <3> QED BY <1>2, <3>1, <3>2
    <2> QED BY <2>1, <2>4
  <1>13. ASSUME NEW p \in PlacesIn(blocks'), NEW k \in 1..Len(TxAt(blocks', p).id.ins)
         PROVE  /\ Names(blocks', TxAt(blocks', p).id.ins[k])
                /\ ~StillHolds(utxo', TxAt(blocks', p).id.ins[k])
    <2>1. CASE p \in PlacesIn(blocks)
      <3>1. TxAt(blocks', p).id = TxAt(blocks, p).id
        BY <1>7, <2>1
      <3>2. /\ Names(blocks, TxAt(blocks, p).id.ins[k])
            /\ ~StillHolds(utxo, TxAt(blocks, p).id.ins[k])
        BY <1>4, <2>1, <3>1 DEF SoundChain
      <3> QED BY <1>12, <3>1, <3>2
    <2>2. CASE p = <<h, 1>>
      BY <1>6, <1>7, <2>2
    <2>3. CASE n = 1 /\ p = <<h, 2>>
      <3>1. TxAt(blocks', p).id = pending[1].id
        BY <1>7, <2>3
      <3>2. Names(blocks, pending[1].id.ins[k])
        BY <1>5, <1>8, <2>3, <3>1
      <3>3. ~StillHolds(utxo', pending[1].id.ins[k])
        BY <1>1, <1>2, <2>3, <3>1 DEF MinedOne
      <3> QED BY <1>12, <3>1, <3>2, <3>3
    <2> QED BY <1>9, <2>1, <2>2, <2>3
  <1>14. SoundChain(blocks', utxo')
    BY <1>10, <1>11, <1>13 DEF SoundChain
  <1>15. SoundSet(utxo')
    BY <1>1, <1>2 DEF MinedEmpty, MinedOne
  <1>16. /\ Len(pending') = Len(pending) - n
         /\ \A k \in 1..Len(pending') : pending'[k] = pending[n + k]
    <2>1. /\ HandOver(n) /\ PlacesIn(blocks) \subseteq PlacesIn(blocks')
          /\ \A p \in PlacesIn(blocks) : TxAt(blocks', p).id = TxAt(blocks, p).id
      BY <1>1, <1>7
    <2> QED BY <2>1, HandedOver
  <1>17. ASSUME NEW k \in 1..Len(pending') PROVE SoundPayment(pending[k])'
    <2>1. n = 0 /\ k \in 1..Len(pending) /\ pending'[k] = pending[k]
      BY <1>2, <1>4, <1>5, <1>16
    <2> DEFINE t == pending[k]
    <2>2. SoundPayment(t)
      BY <1>4, <2>1
    <2>3. SpendsAll(utxo', t.id.ins) /\ Spent(utxo', t.id.ins) = Spent(utxo, t.id.ins)
      <3>1. \A id \in DOMAIN utxo : id \in DOMAIN utxo' /\ utxo'[id] = utxo[id]
        BY <1>1, <1>2, <2>1 DEF MinedEmpty
      <3>2. SpendsAll(utxo, t.id.ins)
        BY <2>2 DEF SoundPayment
      <3> HIDE DEF t
      <3> QED BY <3>1, <3>2, SpendsKept
    <2>4. /\ Len(t.id.ins) >= 1 /\ t.id.label = NotCoinbase
          /\ t.outs = t.id.outs /\ Distinct(t.outs)
          /\ SpendsAll(utxo', t.id.ins)
          /\ \A j \in 1..Len(t.id.ins) : t.signed[j].covers = t.id.ins[j].key
          /\ Worth(t.outs, Addr) = SumFunction(Spent(utxo', t.id.ins))
      BY <2>2, <2>3 DEF SoundPayment
    <2>5. pending'[k] = t
      BY <2>1
    <2> HIDE DEF t
    <2> QED BY <2>4, <2>5 DEF SoundPayment
  <1>18. Len(pending') <= 1
    BY <1>2, <1>4, <1>5, <1>16
  <1> QED BY <1>14, <1>15, <1>17, <1>18 DEF Steady

(* The genesis block alone is steady.                                      *)
LEMMA InitSteady ==
    ASSUME LedgerAssumption, Init
    PROVE  Steady
  <1>1. PICK m \in Miners :
           LET t == Coinbase(m, 0)
           IN  /\ blocks = <<<<t>>>> /\ pending = <<>>
               /\ DOMAIN utxo = {t.id}
               /\ utxo[t.id].outs = t.outs /\ utxo[t.id].home = <<1, 1>>
    BY InitFacts
  <1> DEFINE t == Coinbase(m, 0)
  <1>2. /\ t.id.ins = <<>> /\ t.id.label = 0 /\ t.outs = <<[value |-> Reward, owner |-> m]>>
    BY DEF Coinbase, NewTx, Hash
  <1>3. /\ blocks = <<<<t>>>> /\ pending = <<>> /\ DOMAIN utxo = {t.id}
        /\ utxo[t.id].outs = t.outs /\ utxo[t.id].home = <<1, 1>>
    BY <1>1
  <1> HIDE DEF t
  <1>4. Len(blocks) = 1 /\ \A p \in PlacesIn(blocks) : p = <<1, 1>> /\ TxAt(blocks, p) = t
    <2>1. Len(blocks) = 1 /\ blocks[1] = <<t>> /\ Len(blocks[1]) = 1 /\ blocks[1][1] = t
      BY <1>3
    <2>2. ASSUME NEW p \in PlacesIn(blocks) PROVE p = <<1, 1>> /\ TxAt(blocks, p) = t
      <3>1. p = <<p[1], p[2]>> /\ p[1] \in 1..Len(blocks) /\ p[2] \in 1..Len(blocks[p[1]])
        BY DEF PlacesIn
      <3>2. p[1] = 1
        BY <2>1, <3>1
      <3>3. p[2] = 1
        BY <2>1, <3>1, <3>2
      <3> QED BY <2>1, <3>1, <3>2, <3>3 DEF TxAt
    <2> QED BY <2>1, <2>2
  <1>5. SoundChain(blocks, utxo)
    <2>1. \A p, q \in PlacesIn(blocks) : TxAt(blocks, p).id = TxAt(blocks, q).id => p = q
      BY <1>4
    <2>2. \A p \in PlacesIn(blocks) : TxAt(blocks, p).id.label < Len(blocks)
      BY <1>2, <1>4
    <2>3. \A p \in PlacesIn(blocks) : Len(TxAt(blocks, p).id.ins) = 0
      BY <1>2, <1>4
    <2> QED BY <2>1, <2>2, <2>3 DEF SoundChain
  <1>6. SoundSet(utxo)
    <2>1. Len(t.outs) = 1
      BY <1>2
    <2>2. Distinct(t.outs)
      BY <2>1 DEF Distinct
    <2> QED BY <1>3, <2>2 DEF SoundSet, Nowhere
  <1>7. Len(pending) = 0
    BY <1>3
  <1> QED BY <1>5, <1>6, <1>7 DEF Steady

(* With sound payments only, the updates for a block never fail.           *)
LEMMA NoneFails ==
    ASSUME LedgerAssumption, NEW I, LedgerOver(I), Steady, NEW n \in 0..Len(pending),
           NEW m \in Miners
    PROVE  ~FailBlock(n, m)
  <1> SUFFICES ASSUME FailBlock(n, m) PROVE FALSE
    OBVIOUS
  <1> DEFINE cb == Coinbase(m, Len(blocks))
             w == Updated(Candidate(n, m))
  <1>1. Len(blocks) < MaxHeight /\ ~w.ok
    BY DEF FailBlock, HandOver
  <1>2. /\ n = 0 => MinedEmpty(cb, w, Addr)
        /\ n = 1 => MinedOne(cb, pending[1], w, Addr)
        /\ n \in {0, 1}
    BY <1>1, MinedFacts
  <1> HIDE DEF cb, w
  <1> QED BY <1>1, <1>2 DEF MinedEmpty, MinedOne

(* AddBlock refuses the payment that waits, over its signatures, and the   *)
(* caller has handed it over.                                              *)
Refuses ==
    /\ Len(pending) = 1 /\ pending' = <<>> /\ ~Divided(pending[1])
    /\ UNCHANGED <<blocks, utxo>>

(* That is the only reason for which AddBlock refuses a block.             *)
LEMMA OnlyRefuses ==
    ASSUME NEW I, LedgerOver(I), Steady, NEW n \in 0..Len(pending), RejectBlock(n)
    PROVE  Refuses
  <1>1. PICK i \in 1..n : ~Divided(pending[i])
    BY AlwaysVerifies DEF RejectBlock
  <1>2. pending \in Seq(TxsOver(I)) /\ Len(pending) \in Nat /\ Len(pending) <= 1
    BY DEF LedgerOver, Steady
  <1>3. Len(pending) = 1 /\ n = 1 /\ i = 1
    <2>1. ASSUME NEW L \in Nat, L <= 1, n \in 0..L, i \in 1..n
          PROVE  L = 1 /\ n = 1 /\ i = 1
      BY ONLY <2>1
    <2> QED BY <1>2, <2>1
  <1>4. pending' = SubSeq(pending, n + 1, Len(pending)) /\ UNCHANGED <<blocks, utxo>>
    BY DEF RejectBlock, HandOver
  <1>5. pending' = <<>>
    BY <1>2, <1>3, <1>4
  <1> QED BY <1>1, <1>3, <1>4, <1>5 DEF Refuses

(* So a step creates a payment, mines a block or refuses a payment, or     *)
(* nothing happens.                                                        *)
LEMMA SteadySteps ==
    ASSUME LedgerAssumption, NEW I, LedgerOver(I), Steady, [Next]_vars
    PROVE  \/ \E pair \in Transfers, amount \in Amounts :
                 CreateTransaction(pair[1], pair[2], amount)
           \/ \E n \in 0..Len(pending), m \in Miners : AddBlock(n, m)
           \/ Refuses
           \/ UNCHANGED vars
  BY NoneFails, OnlyRefuses DEF Next

(* Every step keeps the ledger steady.                                     *)
LEMMA NextSteady ==
    ASSUME LedgerAssumption, OneAtATime, LedgerOK, Steady, [Next]_vars
    PROVE  Steady'
  <1>1. PICK I : LedgerOver(I)
    BY DEF LedgerOK
  <1>2. CASE \E pair \in Transfers, amount \in Amounts :
                CreateTransaction(pair[1], pair[2], amount)
    BY <1>1, <1>2, CreateSteady
  <1>3. CASE \E n \in 0..Len(pending), m \in Miners : AddBlock(n, m)
    BY <1>1, <1>3, MineSteady
  <1>4. CASE Refuses
    <2>1. Len(pending') = 0 /\ UNCHANGED <<blocks, utxo>>
      BY <1>4 DEF Refuses
    <2>2. SoundChain(blocks', utxo') /\ SoundSet(utxo')
      BY <2>1 DEF Steady
    <2> QED BY <2>1, <2>2 DEF Steady
  <1>5. CASE UNCHANGED vars
    BY <1>5 DEF vars, Steady, SoundPayment
  <1> QED BY <1>1, <1>2, <1>3, <1>4, <1>5, SteadySteps

(* The inductive invariant of a ledger that mines each payment before the  *)
(* next (cmd/node): CreateTransaction and AddBlock keep it steady.         *)
THEOREM AlwaysSteady == ASSUME OneAtATime PROVE Spec => [](LedgerOK /\ Steady)
  <1> DEFINE Inv == LedgerOK /\ Steady
  <1>1. Init => Inv
    BY LedgerAssumption, InitOK, InitSteady
  <1>2. Inv /\ [Next]_vars => Inv'
    BY LedgerAssumption, NextOK, NextSteady
  <1> QED BY <1>1, <1>2, PTL DEF Spec

-----------------------------------------------------------------------------
(* A reward is worth Reward to its miner.                                  *)
LEMMA RewardWorth ==
    ASSUME LedgerAssumption, NEW m \in Addr, NEW label, NEW who
    PROVE  /\ Worth(Coinbase(m, label).outs, who) = IF m \in who THEN Reward ELSE 0
           /\ Coinbase(m, label).outs = Coinbase(m, label).id.outs
           /\ Coinbase(m, label).id.label = label /\ Coinbase(m, label).id.ins = <<>>
           /\ Coinbase(m, label).outs \in Seq(Output)
  <1> DEFINE o == [value |-> Reward, owner |-> m]
             outs == <<o>>
  <1>1. /\ Coinbase(m, label).outs = outs /\ Coinbase(m, label).id.outs = outs
        /\ Coinbase(m, label).id.label = label /\ Coinbase(m, label).id.ins = <<>>
    BY DEF Coinbase, NewTx, Hash
  <1>2. o \in Output /\ Share(o, who) = IF m \in who THEN Reward ELSE 0
    BY DEF LedgerAssumption, Output, Share
  <1> HIDE DEF o
  <1>3. outs \in Seq(Output) /\ Len(outs) = 1 /\ outs[1] = o
    BY <1>2
  <1> HIDE DEF outs
  <1>4. /\ SharesOf(outs, who) \in [1..1 -> Int]
        /\ Worth(outs, who) = SumFunction(SharesOf(outs, who))
    BY <1>3, WorthFacts
  <1>5. SharesOf(outs, who)[1] = Share(o, who)
    BY <1>3 DEF SharesOf
  <1>6. SumFunction(SharesOf(outs, who)) = SharesOf(outs, who)[1]
    BY <1>4, SumOfFew
  <1> QED BY <1>1, <1>2, <1>3, <1>4, <1>5, <1>6

(* A sound payment takes from its payer what it pays out.                  *)
LEMMA PaymentTakes ==
    ASSUME NEW I, LedgerOver(I), Steady, NEW i \in 1..Len(pending), NEW who
    PROVE  LET t == pending[i]
               key == t.id.ins[1].key
           IN  /\ Taken(utxo, t.id.ins, Len(t.id.ins), who) =
                     IF key \in who THEN Worth(t.outs, Addr) ELSE 0
               /\ key \in Addr /\ Head(t.id.ins) = t.id.ins[1]
               /\ t.id.label = NotCoinbase /\ t.outs = t.id.outs
               /\ t = [id |-> t.id, outs |-> t.id.outs, signed |-> t.signed]
               /\ t.outs \in Seq(Output)
  <1> DEFINE t == pending[i]
             ins == t.id.ins
             l == Len(ins)
             f == Spent(utxo, ins)
  <1>1. SoundPayment(t)
    BY DEF Steady
  <1>2. t \in TxsOver(I) /\ I \subseteq IdsOver(I)
    <2>1. pending \in Seq(TxsOver(I)) /\ I \subseteq IdsOver(I)
      BY DEF LedgerOver
    <2> QED BY <2>1, ElementIn
  <1> HIDE DEF t
  <1>3. /\ t = [id |-> t.id, outs |-> t.outs, signed |-> t.signed]
        /\ ins \in Seq(InputsOver(I)) /\ t.outs \in Seq(Output)
    BY <1>2, TxFacts
  <1>4. l >= 1 /\ t.id.label = NotCoinbase /\ t.outs = t.id.outs /\ Worth(t.outs, Addr) = SumFunction(f)
    BY <1>1 DEF SoundPayment
  <1>5. ins[1].key \in Addr /\ Head(ins) = ins[1]
    <2>1. l \in Nat /\ 1 \in 1..l
      BY <1>3, <1>4
    <2>2. ins[1] \in InputsOver(I)
      BY <1>3, <2>1, ElementIn
    <2>3. ins # <<>>
      BY <1>4
    <2> QED BY <1>3, <2>2, <2>3, TailFacts DEF InputsOver
  <1>6. Partial(f, l) = SumFunction(f)
    <2>1. [k \in 1..l |-> f[k]] = f
      BY DEF Spent
    <2> QED BY <2>1 DEF Partial
  <1>7. Taken(utxo, ins, l, who) = IF ins[1].key \in who THEN Worth(t.outs, Addr) ELSE 0
    BY <1>4, <1>6 DEF Taken
  <1> QED BY <1>3, <1>4, <1>5, <1>7 DEF t

(* The ledger as a world with nothing under update.                        *)
LEMMA LedgerWorld ==
    ASSUME NEW I, LedgerOver(I)
    PROVE  [ok |-> TRUE, utxo |-> utxo, chain |-> blocks] \in WorldsOver(I, blocks)
  <1>1. /\ blocks \in ChainsOver(I) /\ utxo \in SetsOver(I) /\ EntriesFit(utxo)
        /\ Shares(utxo, blocks)
    BY DEF LedgerOver
  <1>2. DOMAIN utxo \in SUBSET I /\ utxo \in [DOMAIN utxo -> Entries]
    BY <1>1, SetFacts
  <1>3. SameShape(blocks, blocks)
    BY DEF SameShape
  <1> QED BY <1>1, <1>2, <1>3, WorldIs

(* Holdings of the set as it is between two calls.                         *)
LEMMA LedgerHoldings ==
    ASSUME NEW I, LedgerOver(I), NEW who
    PROVE  /\ IsFiniteSet(DOMAIN utxo) /\ Worths(utxo, who) \in [DOMAIN utxo -> Int]
           /\ Holdings(utxo, who) = SumFunction(Worths(utxo, who))
           /\ Holdings(utxo, who) \in Int
  <1> DEFINE w == [ok |-> TRUE, utxo |-> utxo, chain |-> blocks]
  <1>1. w \in WorldsOver(I, blocks) /\ w.utxo = utxo
    BY LedgerWorld
  <1> HIDE DEF w
  <1>2. /\ IsFiniteSet(DOMAIN w.utxo) /\ Worths(w.utxo, who) \in [DOMAIN w.utxo -> Int]
        /\ Holdings(w.utxo, who) = SumFunction(Worths(w.utxo, who))
        /\ Holdings(w.utxo, who) \in Int
    BY <1>1, HoldingsFacts
  <1> QED BY <1>1, <1>2

(* The genesis block holds one reward.                                     *)
LEMMA InitSupply ==
    ASSUME LedgerAssumption, Init
    PROVE  SupplyConserved
  <1>1. PICK m \in Miners :
           LET t == Coinbase(m, 0)
           IN  /\ blocks = <<<<t>>>> /\ DOMAIN utxo = {t.id}
               /\ utxo[t.id].outs = t.outs
    BY InitFacts
  <1> DEFINE t == Coinbase(m, 0)
             D == DOMAIN utxo
             f == Worths(utxo, Addr)
             rest == [y \in D \ {t.id} |-> f[y]]
  <1>2. Worth(t.outs, Addr) = Reward
    <2>1. m \in Addr
      BY DEF LedgerAssumption
    <2> QED BY <2>1, RewardWorth
  <1>3. /\ Len(blocks) = 1 /\ D = {t.id} /\ utxo[t.id].outs = t.outs
    BY <1>1
  <1> HIDE DEF t
  <1>4. PICK I : LedgerOver(I)
    BY InitOK DEF LedgerOK
  <1>5. IsFiniteSet(D) /\ f \in [D -> Int] /\ Holdings(utxo, Addr) = SumFunction(f)
    BY <1>4, LedgerHoldings
  <1>6. f[t.id] = Reward /\ t.id \in D
    BY <1>2, <1>3 DEF Worths
  <1> HIDE DEF D, f
  <1>7. SumFunction(f) = f[t.id] + SumFunction(rest)
    <2>1. \A x \in D : SumFunction(f) = f[x] + SumFunction([y \in D \ {x} |-> f[y]])
      BY <1>5, SumFacts
    <2> QED BY <1>6, <2>1
  <1>8. SumFunction(rest) = 0
    <2> DEFINE E == D \ {t.id}
    <2>1. E = {} /\ IsFiniteSet(E) /\ rest \in [E -> Int]
      <3>1. E = {}
        BY <1>3
      <3>2. IsFiniteSet(E)
        BY <3>1, FS_EmptySet
      <3>3. rest \in [E -> Int]
        BY <3>1
      <3> QED BY <3>1, <3>2, <3>3
    <2> HIDE DEF E, rest
    <2> QED BY <2>1, SumFacts
  <1>9. Reward \in Nat
    BY DEF LedgerAssumption
  <1> HIDE DEF rest
  <1>10. SumFunction(f) = Reward
    BY <1>6, <1>7, <1>8, <1>9
  <1>11. Reward * Len(blocks) = Reward
    BY <1>3, <1>9
  <1> QED BY <1>5, <1>10, <1>11 DEF SupplyConserved

(* A block adds one reward: its payment takes what it pays out.            *)
LEMMA NextSupply ==
    ASSUME LedgerAssumption, LedgerOK, Steady, SupplyConserved, [Next]_vars
    PROVE  SupplyConserved'
  <1>1. PICK I : LedgerOver(I)
    BY DEF LedgerOK
  <1>2. CASE \E pair \in Transfers, amount \in Amounts :
                CreateTransaction(pair[1], pair[2], amount)
    <2>1. UNCHANGED <<blocks, utxo>>
      BY <1>2 DEF CreateTransaction
    <2> QED BY <2>1 DEF SupplyConserved
  <1>3. ASSUME NEW n \in 0..Len(pending), NEW m \in Miners, AddBlock(n, m)
        PROVE  SupplyConserved'
    <2> DEFINE cb == Coinbase(m, Len(blocks))
               w == Updated(Candidate(n, m))
    <2>1. Len(blocks) < MaxHeight /\ utxo' = w.utxo
      BY <1>3 DEF AddBlock, HandOver
    <2>2. /\ n = 0 => MinedEmpty(cb, w, Addr)
          /\ n = 1 => MinedOne(cb, pending[1], w, Addr)
          /\ n \in {0, 1}
      BY <1>1, <2>1, MinedFacts
    <2>3. Worth(cb.outs, Addr) = Reward
      <3>1. m \in Addr
        BY DEF LedgerAssumption
      <3> QED BY <3>1, RewardWorth
    <2>4. OneMore(n, cb)
      BY <1>1, <1>3, OneMoreBlock
    <2>5. Len(blocks') = Len(blocks) + 1 /\ Len(blocks) \in Nat
      BY <2>4 DEF OneMore
    <2>6. Holdings(utxo, Addr) = Reward * Len(blocks) /\ Holdings(utxo, Addr) \in Int /\ Reward \in Int
      BY <1>1, LedgerHoldings DEF SupplyConserved, LedgerAssumption
    <2> HIDE DEF cb, w
    <2>7. Holdings(utxo', Addr) = Holdings(utxo, Addr) + Reward
      <3>1. CASE n = 0
        BY <2>1, <2>2, <2>3, <3>1 DEF MinedEmpty
      <3>2. CASE n = 1
        <4> DEFINE t == pending[1]
                   W == Worth(t.outs, Addr)
                   T == Taken(utxo, t.id.ins, Len(t.id.ins), Addr)
        <4>1. W \in Int /\ T \in Int /\ Holdings(w.utxo, Addr) = Holdings(utxo, Addr) + Reward + W - T
          BY <2>2, <2>3, <3>2 DEF MinedOne
        <4>2. 1 \in 1..Len(pending)
          <5>1. Len(pending) \in Nat
            BY <1>1 DEF LedgerOver
          <5> QED BY <3>2, <5>1
        <4>3. T = W
          BY <1>1, <4>2, PaymentTakes
        <4> HIDE DEF W, T
        <4> QED BY <2>1, <2>6, <4>1, <4>3
      <3> QED BY <2>2, <3>1, <3>2
    <2>8. Reward * (Len(blocks) + 1) = Reward * Len(blocks) + Reward
      BY <2>5, <2>6
    <2> QED BY <2>5, <2>6, <2>7, <2>8 DEF SupplyConserved
  <1>4. CASE Refuses
    BY <1>4 DEF Refuses, SupplyConserved
  <1>5. CASE UNCHANGED vars
    BY <1>5 DEF vars, SupplyConserved
  <1> QED BY <1>1, <1>2, <1>3, <1>4, <1>5, SteadySteps

(* Money is neither made nor lost: the UTXO set holds one reward for each  *)
(* block, through the spending, the change and the index shifting of any   *)
(* number of payments (UTXOSet.Update, utxo.go:124).                       *)
THEOREM SupplyIsConserved == ASSUME OneAtATime PROVE Spec => []SupplyConserved
  <1> DEFINE Inv == LedgerOK /\ Steady /\ SupplyConserved
  <1>1. Init => Inv
    BY LedgerAssumption, InitOK, InitSteady, InitSupply
  <1>2. Inv /\ [Next]_vars => Inv'
    BY LedgerAssumption, NextOK, NextSteady, NextSupply
  <1>3. Inv => SupplyConserved
    OBVIOUS
  <1> QED BY <1>1, <1>2, <1>3, PTL DEF Spec

(* A transaction that CreateTransaction has just made is rejected by       *)
(* AddBlock only for a signature that is divided in the wrong place, and   *)
(* never dropped by it: all others end up in the block.                    *)
THEOREM NothingIsDropped == ASSUME OneAtATime PROVE Spec => NothingDropped
  <1> DEFINE InBlock == Head(pending) \in {AsCreated(t) : t \in Range(Last(blocks'))}
             Wrong == \E signature \in Range(Head(pending).signed) : ~signature.splits
             Drop == Len(pending') < Len(pending) => InBlock \/ Wrong
  <1>1. ASSUME LedgerOK, Steady, [Next]_vars, Len(pending') < Len(pending)
        PROVE  InBlock \/ Wrong
    <2> SUFFICES ASSUME ~Wrong PROVE InBlock
      OBVIOUS
    <2>1. PICK I : LedgerOver(I)
      BY <1>1 DEF LedgerOK
    <2>2. Len(pending) \in Nat /\ pending \in Seq(TxsOver(I))
      BY <2>1 DEF LedgerOver
    <2>3. ASSUME NEW pair \in Transfers, NEW amount \in Amounts,
                 CreateTransaction(pair[1], pair[2], amount)
          PROVE  FALSE
      <3>1. PICK found \in FindSpendableOutputs(pair[1], amount) :
               \E ins, splits : Creates(I, found, ins, splits, pair[1], pair[2], amount)
        BY LedgerAssumption, <2>1, <2>3, CreateFacts
      <3>2. \E t : pending' = Append(pending, t)
        BY <3>1 DEF Creates
      <3>3. Len(pending') = Len(pending) + 1
        BY <2>2, <3>2
      <3> QED BY <1>1, <2>2, <3>3
    <2>4. ~UNCHANGED vars
      BY <1>1, <2>2 DEF vars
    <2>14. ~Refuses
      <3> SUFFICES ASSUME Refuses PROVE FALSE
        OBVIOUS
      <3>1. pending # <<>> /\ Head(pending) = pending[1]
        BY <2>2 DEF Refuses
      <3> QED BY <3>1 DEF Refuses, Divided
    <2>5. PICK n \in 0..Len(pending), m \in Miners : AddBlock(n, m)
      BY LedgerAssumption, <1>1, <2>1, <2>3, <2>4, <2>14, SteadySteps
    <2> DEFINE cb == Coinbase(m, Len(blocks))
               b == Last(blocks')
               x == b[2]
               t == pending[1]
    <2>6. OneMore(n, cb)
      BY LedgerAssumption, <2>1, <2>5, OneMoreBlock
    <2>7. n = 1
      <3>1. Len(pending') = Len(pending) - n
        <4>1. HandOver(n)
          BY <2>5 DEF AddBlock
        <4>2. /\ PlacesIn(blocks) \subseteq PlacesIn(blocks')
              /\ \A p \in PlacesIn(blocks) : TxAt(blocks', p).id = TxAt(blocks, p).id
          BY <2>6 DEF OneMore
        <4> QED BY LedgerAssumption, <2>1, <4>1, <4>2, HandedOver
      <3>2. n \in {0, 1}
        <4>1. Len(blocks) < MaxHeight
          BY <2>5 DEF AddBlock, HandOver
        <4> QED BY LedgerAssumption, <1>1, <2>1, <4>1, MinedFacts
      <3> QED BY <1>1, <2>2, <3>1, <3>2
    <2>8. 1 \in 1..Len(pending) /\ Head(pending) = t
      <3>1. 1 \in 1..Len(pending) /\ pending # <<>>
        BY <2>2, <2>7
      <3> QED BY <2>2, <3>1, TailFacts
    <2>9. t = [id |-> t.id, outs |-> t.id.outs, signed |-> t.signed]
      BY <1>1, <2>1, <2>8, PaymentTakes
    <2>10. b = blocks'[Len(blocks) + 1]
      BY <2>6 DEF OneMore, Last
    <2> HIDE DEF b, cb, t
    <2>11. /\ b \in Seq(Range(b)) /\ Len(b) = 2 /\ x.id = t.id /\ x.signed = t.signed
           /\ \E K : x \in TxsOver(K)
      <3>1. /\ blocks'[Len(blocks) + 1][1 + 1].id = pending[1].id
            /\ blocks'[Len(blocks) + 1][1 + 1].signed = pending[1].signed
        BY <2>6, <2>7 DEF OneMore
      <3>2. 2 \in 1..(n + 1)
        BY <2>7
      <3>3. \E K : blocks'[Len(blocks) + 1][2] \in TxsOver(K)
        BY <2>6, <3>2 DEF OneMore
      <3>4. /\ blocks'[Len(blocks) + 1] \in Seq(Range(blocks'[Len(blocks) + 1]))
            /\ Len(blocks'[Len(blocks) + 1]) = n + 1
        BY <2>6 DEF OneMore
      <3> QED BY <2>7, <2>10, <3>1, <3>3, <3>4 DEF t
    <2>12. x \in Range(b)
      <3>1. b \in Seq(Range(b)) /\ 2 \in 1..Len(b)
        BY <2>11
      <3>2. b[2] \in Range(b)
        BY <3>1, ElementIn
      <3> QED BY <3>2
    <2> HIDE DEF x
    <2>13. AsCreated(x) = t
      <3>1. PICK K : x \in TxsOver(K)
        BY <2>11
      <3>2. x = [id |-> x.id, outs |-> x.outs, signed |-> x.signed]
        BY <3>1 DEF TxsOver
      <3> QED BY <2>9, <2>11, <3>2 DEF AsCreated
    <2> QED BY <2>8, <2>12, <2>13 DEF b
  <1>2. LedgerOK /\ Steady /\ [Next]_vars => Drop
    BY <1>1
  <1> QED BY <1>2, AlwaysSteady, PTL DEF Spec, NothingDropped

(* What a block of a reward and n payments gives to a and takes from a.    *)
LEMMA BlockMoves ==
    ASSUME NEW X, NEW b \in Seq(X), NEW n \in {0, 1}, Len(b) = n + 1, NEW a,
           IsCoinbase(b[1]), Worth(b[1].id.outs, {a}) \in Int,
           n = 1 => /\ ~IsCoinbase(b[2])
                    /\ Worth(b[2].id.outs, {a}) \in Int /\ Worth(b[2].id.outs, Addr) \in Int
    PROVE  /\ Received(b, a) = Worth(b[1].id.outs, {a})
                                + (IF n = 1 THEN Worth(b[2].id.outs, {a}) ELSE 0)
           /\ Given(b, a) = IF n = 1 /\ Head(b[2].id.ins).key = a
                            THEN Worth(b[2].id.outs, Addr) ELSE 0
  <1> DEFINE f == [j \in DOMAIN b |-> Worth(b[j].id.outs, {a})]
             pays(t) == ~IsCoinbase(t) /\ Head(t.id.ins).key = a
             g == [j \in DOMAIN b |-> IF pays(b[j]) THEN Worth(b[j].id.outs, Addr) ELSE 0]
             l == n + 1
  <1>1. DOMAIN b = 1..l /\ l \in {1, 2}
    BY PlacesOfSeq
  <1>2. Received(b, a) = SumFunction(f) /\ Given(b, a) = SumFunction(g)
    BY DEF Received, Given
  <1>3. \A j \in 1..l : j = 1 \/ (j = 2 /\ n = 1)
    OBVIOUS
  <1>4. /\ f[1] = Worth(b[1].id.outs, {a})
        /\ n = 1 => f[2] = Worth(b[2].id.outs, {a})
    BY <1>1
  <1>5. /\ g[1] = 0
        /\ n = 1 => g[2] = IF Head(b[2].id.ins).key = a THEN Worth(b[2].id.outs, Addr) ELSE 0
    BY <1>1
  <1>6. f \in [1..l -> Int]
    <2>1. \A j \in 1..l : Worth(b[j].id.outs, {a}) \in Int
      BY <1>3
    <2> QED BY <1>1, <2>1
  <1>7. g \in [1..l -> Int]
    <2>1. \A j \in 1..l : (IF pays(b[j]) THEN Worth(b[j].id.outs, Addr) ELSE 0) \in Int
      BY <1>3
    <2> HIDE DEF pays
    <2> QED BY <1>1, <2>1
  <1> HIDE DEF f, g
  <1>8. /\ l = 1 => SumFunction(f) = f[1] /\ SumFunction(g) = g[1]
        /\ l = 2 => SumFunction(f) = f[1] + f[2] /\ SumFunction(g) = g[1] + g[2]
    BY <1>1, <1>6, <1>7, SumOfFew
  <1>9. CASE n = 0
    BY <1>2, <1>4, <1>5, <1>8, <1>9
  <1>10. CASE n = 1
    <2>1. SumFunction(f) = f[1] + f[2] /\ SumFunction(g) = g[1] + g[2]
      BY <1>8, <1>10
    <2>2. g[2] \in Int
      BY <1>7, <1>10
    <2> QED BY <1>2, <1>4, <1>5, <1>10, <2>1, <2>2
  <1> QED BY <1>9, <1>10

(* A block moves exactly what its transactions say.                        *)
LEMMA MinePays ==
    ASSUME LedgerAssumption, NEW I, LedgerOver(I), Steady, NEW n \in 0..Len(pending),
           NEW m \in Miners, AddBlock(n, m), NEW a \in Addr
    PROVE  GetBalance(utxo', a) = GetBalance(utxo, a)
              + Received(Last(blocks'), a) - Given(Last(blocks'), a)
  <1> DEFINE cb == Coinbase(m, Len(blocks))
             w == Updated(Candidate(n, m))
             b == Last(blocks')
             t == pending[1]
             key == t.id.ins[1].key
  <1>1. Len(blocks) < MaxHeight /\ utxo' = w.utxo
    BY DEF AddBlock, HandOver
  <1>2. /\ n = 0 => MinedEmpty(cb, w, {a})
        /\ n = 1 => MinedOne(cb, t, w, {a})
        /\ n \in {0, 1}
    BY <1>1, MinedFacts
  <1>3. OneMore(n, cb)
    BY OneMoreBlock
  <1>4. cb.outs = cb.id.outs /\ cb.id.label = Len(blocks)
    <2>1. m \in Addr
      BY DEF LedgerAssumption
    <2> QED BY <2>1, RewardWorth
  <1> HIDE DEF w, cb
  <1>5. b = blocks'[Len(blocks) + 1] /\ Len(blocks) \in Nat
    BY <1>3 DEF OneMore, Last
  <1> HIDE DEF b
  <1>6. /\ b \in Seq(Range(b)) /\ Len(b) = n + 1 /\ b[1].id = cb.id
        /\ n = 1 => b[2].id = t.id
    <2>1. n = 1 => blocks'[Len(blocks) + 1][1 + 1].id = pending[1].id
      BY <1>3 DEF OneMore
    <2> QED BY <1>3, <1>5, <2>1 DEF OneMore
  <1>7. ASSUME n = 1
        PROVE  /\ Taken(utxo, t.id.ins, Len(t.id.ins), {a}) = IF key = a THEN Worth(t.outs, Addr) ELSE 0
               /\ Head(t.id.ins).key = key /\ t.id.label = NotCoinbase /\ t.outs = t.id.outs
               /\ Worth(t.outs, Addr) \in Int
    <2>1. 1 \in 1..Len(pending)
      <3>1. Len(pending) \in Nat
        BY DEF LedgerOver
      <3> QED BY <1>7, <3>1
    <2>2. /\ Taken(utxo, t.id.ins, Len(t.id.ins), {a}) = IF key \in {a} THEN Worth(t.outs, Addr) ELSE 0
          /\ Head(t.id.ins) = t.id.ins[1] /\ t.id.label = NotCoinbase /\ t.outs = t.id.outs
          /\ t.outs \in Seq(Output)
      BY <2>1, PaymentTakes
    <2> HIDE DEF t
    <2>3. Worth(t.outs, Addr) \in Int
      BY <2>2, WorthFacts
    <2> QED BY <2>2, <2>3
  <1>8. Worth(cb.outs, {a}) \in Int /\ (n = 1 => Worth(t.outs, {a}) \in Int)
    BY <1>2 DEF MinedEmpty, MinedOne
  <1>9. IsCoinbase(b[1]) /\ (n = 1 => ~IsCoinbase(b[2]))
    BY <1>4, <1>5, <1>6, <1>7 DEF IsCoinbase, NotCoinbase
  <1>10. Holdings(utxo, {a}) \in Int
    BY LedgerHoldings
  <1> HIDE DEF t
  <1>11. /\ Received(b, a) = Worth(cb.outs, {a}) + (IF n = 1 THEN Worth(t.outs, {a}) ELSE 0)
         /\ Given(b, a) = IF n = 1 /\ key = a THEN Worth(t.outs, Addr) ELSE 0
    <2>1. /\ b \in Seq(Range(b)) /\ n \in {0, 1} /\ Len(b) = n + 1
          /\ IsCoinbase(b[1]) /\ Worth(b[1].id.outs, {a}) \in Int
          /\ n = 1 => /\ ~IsCoinbase(b[2])
                      /\ Worth(b[2].id.outs, {a}) \in Int /\ Worth(b[2].id.outs, Addr) \in Int
      BY <1>2, <1>4, <1>6, <1>7, <1>8, <1>9
    <2>2. /\ Received(b, a) = Worth(b[1].id.outs, {a})
                                + (IF n = 1 THEN Worth(b[2].id.outs, {a}) ELSE 0)
          /\ Given(b, a) = IF n = 1 /\ Head(b[2].id.ins).key = a
                           THEN Worth(b[2].id.outs, Addr) ELSE 0
      BY <2>1, BlockMoves
    <2> QED BY <1>4, <1>6, <1>7, <2>2
  <1>12. CASE n = 0
    <2>1. Holdings(utxo', {a}) = Holdings(utxo, {a}) + Worth(cb.outs, {a})
      BY <1>1, <1>2, <1>12 DEF MinedEmpty
    <2>2. Received(b, a) = Worth(cb.outs, {a}) /\ Given(b, a) = 0
      BY <1>8, <1>11, <1>12
    <2> QED BY <1>8, <1>10, <2>1, <2>2 DEF GetBalance, b
  <1>13. CASE n = 1
    <2> DEFINE C == Worth(cb.outs, {a})
               W == Worth(t.outs, {a})
               T == Taken(utxo, t.id.ins, Len(t.id.ins), {a})
    <2>1. /\ Holdings(utxo', {a}) = Holdings(utxo, {a}) + C + W - T
          /\ C \in Int /\ W \in Int /\ T \in Int
      BY <1>1, <1>2, <1>13 DEF MinedOne
    <2>2. Received(b, a) = C + W /\ Given(b, a) = T
      BY <1>7, <1>11, <1>13
    <2> HIDE DEF C, W, T
    <2> QED BY <1>10, <2>1, <2>2 DEF GetBalance, b
  <1> QED BY <1>2, <1>12, <1>13

(* A block changes every balance by what it pays the address less what the *)
(* address signed away: Update never takes another's output.               *)
THEOREM PaysExactlyAlways == ASSUME OneAtATime PROVE Spec => PaysExactly
  <1> DEFINE Pays == Len(blocks') > Len(blocks) =>
                        \A a \in Addr :
                           GetBalance(utxo', a) = GetBalance(utxo, a)
                              + Received(Last(blocks'), a) - Given(Last(blocks'), a)
  <1>1. ASSUME LedgerOK, Steady, [Next]_vars, Len(blocks') > Len(blocks), NEW a \in Addr
        PROVE  GetBalance(utxo', a) = GetBalance(utxo, a)
                  + Received(Last(blocks'), a) - Given(Last(blocks'), a)
    <2>1. PICK I : LedgerOver(I)
      BY <1>1 DEF LedgerOK
    <2>2. Len(blocks) \in Nat
      BY <2>1 DEF LedgerOver
    <2>3. PICK n \in 0..Len(pending), m \in Miners : AddBlock(n, m)
      <3>1. blocks' # blocks
        BY <1>1, <2>2
      <3>2. ASSUME NEW pair \in Transfers, NEW amount \in Amounts,
                   CreateTransaction(pair[1], pair[2], amount)
            PROVE  FALSE
        BY <3>1, <3>2 DEF CreateTransaction
      <3> QED BY LedgerAssumption, <1>1, <2>1, <3>1, <3>2, SteadySteps DEF vars, Refuses
    <2> QED BY LedgerAssumption, <1>1, <2>1, <2>3, MinePays
  <1>2. LedgerOK /\ Steady /\ [Next]_vars => Pays
    BY <1>1
  <1> QED BY <1>2, AlwaysSteady, PTL DEF Spec, PaysExactly

-----------------------------------------------------------------------------
(* A restart. *)

(* The bodies of loadBlockchain's loops, over a block and over the chain.  *)
ReplayNext(w, at) == [Update(w, at) EXCEPT !.ok = TRUE]

ReplayBlock(w, h) ==
    FoldLeft(LAMBDA x, i : ReplayNext(x, <<h, i>>), w, [i \in DOMAIN w.chain[h] |-> i])

Replayed(w, c) == FoldLeft(LAMBDA x, h : ReplayBlock(x, h), w, [h \in DOMAIN c |-> h])

(* The chain c as it was saved.                                            *)
StoredOf(c) == [h \in DOMAIN c |-> [i \in DOMAIN c[h] |-> AsCreated(c[h][i])]]

(* Reloaded is the replay of the stored chain.                             *)
LEMMA ReloadIs == Reloaded = Replayed(World(<<>>, StoredOf(blocks)), blocks)
  BY Zenon DEF Reloaded, Replayed, ReplayBlock, ReplayNext, StoredChain, StoredOf

(* ... and so in the next state.                                           *)
LEMMA ReloadIsNext == Reloaded' = Replayed(World(<<>>, StoredOf(blocks')), blocks')
  <1>1. (Reloaded = Replayed(World(<<>>, StoredOf(blocks)), blocks))'
    BY ReloadIs, PTL
  <1> QED BY <1>1

(* The ledgers, all in V, that replaying block h goes through.             *)
Replays(f, w, h, n, V) ==
    /\ f \in [0..n -> V] /\ f[0] = w
    /\ \A k \in 1..n : f[k] = ReplayNext(f[k - 1], <<h, k>>)

ReplaysWithin(V, h, n) == \A v \in V : \A k \in 1..n : ReplayNext(v, <<h, k>>) \in V

(* What the replay of block h goes through.                                *)
LEMMA ReplayAll ==
    ASSUME NEW V, NEW w \in V, NEW h, NEW n \in Nat, DOMAIN w.chain[h] = 1..n,
           ReplaysWithin(V, h, n)
    PROVE  \E f : Replays(f, w, h, n, V) /\ ReplayBlock(w, h) = f[n]
  <1> DEFINE q == [i \in DOMAIN w.chain[h] |-> i]
             step == [p \in V \X (1..n) |-> ReplayNext(p[1], <<h, p[2]>>)]
             ch == [T \in SUBSET (1..n) |-> Max(T)]
             Folds(g) == g = [T \in SUBSET DOMAIN q |->
                               IF T = {} THEN w
                               ELSE ReplayNext(g[T \ {Max(T)}], <<h, q[Max(T)]>>)]
             iter == CHOOSE g : Folds(g)
  <1>1. DOMAIN q = 1..n /\ \A T \in SUBSET (1..n) : T # {} => q[Max(T)] = Max(T)
    <2>1. DOMAIN q = 1..n /\ \A k \in 1..n : q[k] = k
      OBVIOUS
    <2> QED BY <2>1, MaxIn DEF MaxGives
  <1>2. step \in [V \X (1..n) -> V]
    BY DEF ReplaysWithin
  <1>3. IsFiniteSet(1..n) /\ \A T \in SUBSET (1..n) : T # {} => ch[T] \in T
    BY MaxIn, FirstNumbers DEF MaxGives
  <1>4. PICK g : IsFold(g, V, w, step, ch, 1..n)
    <2> HIDE DEF step, ch
    <2> QED BY <1>2, <1>3, FoldExists
  <1>5. Folds(g)
    <2>1. /\ g \in [SUBSET (1..n) -> V]
          /\ \A T \in SUBSET (1..n) :
                g[T] = IF T = {} THEN w ELSE step[<<g[T \ {ch[T]}], ch[T]>>]
      <3> HIDE DEF step, ch
      <3> QED BY <1>4 DEF IsFold
    <2>2. ASSUME NEW T \in SUBSET (1..n)
          PROVE  g[T] = IF T = {} THEN w ELSE ReplayNext(g[T \ {Max(T)}], <<h, Max(T)>>)
      <3>1. CASE T = {}
        BY <2>1, <3>1
      <3>2. CASE T # {}
        <4>1. ch[T] = Max(T) /\ Max(T) \in 1..n /\ g[T \ {Max(T)}] \in V
          BY <1>3, <2>1, <3>2
        <4>2. g[T] = step[<<g[T \ {Max(T)}], Max(T)>>]
          <5> HIDE DEF step, ch
          <5> QED BY <2>1, <3>2, <4>1
        <4>3. step[<<g[T \ {Max(T)}], Max(T)>>] = ReplayNext(g[T \ {Max(T)}], <<h, Max(T)>>)
          BY <4>1
        <4> QED BY <3>2, <4>2, <4>3
      <3> QED BY <3>1, <3>2
    <2>3. g = [T \in SUBSET (1..n) |-> g[T]]
      BY <2>1
    <2>4. g = [T \in SUBSET (1..n) |->
                IF T = {} THEN w ELSE ReplayNext(g[T \ {Max(T)}], <<h, q[Max(T)]>>)]
      <3> HIDE DEF q
      <3>1. \A T \in SUBSET (1..n) :
               g[T] = IF T = {} THEN w ELSE ReplayNext(g[T \ {Max(T)}], <<h, q[Max(T)]>>)
        BY <1>1, <2>2
      <3> QED BY <2>3, <3>1
    <2> HIDE DEF q
    <2> QED BY <1>1, <2>4
  <1>6. Folds(iter)
    BY ZenonT(60), <1>5
  <1>7. ReplayBlock(w, h) = iter[1..n]
    <2>1. ReplayBlock(w, h) = iter[DOMAIN q]
      BY DEF ReplayBlock, ReplayNext, FoldLeft, MapThenFoldSet
    <2> HIDE DEF iter, q
    <2> QED BY <1>1, <2>1
  <1> HIDE DEF iter
  <1>8. \A T \in SUBSET (1..n) :
           iter[T] = IF T = {} THEN w ELSE ReplayNext(iter[T \ {Max(T)}], <<h, Max(T)>>)
    <2> HIDE DEF q
    <2> QED BY <1>1, <1>6
  <1>9. iter[1..0] = w
    BY <1>8, FirstNumbers
  <1>10. ASSUME NEW k \in 1..n PROVE iter[1..k] = ReplayNext(iter[1..(k - 1)], <<h, k>>)
    <2>1. /\ 1..k \in SUBSET (1..n) /\ 1..k # {}
          /\ Max(1..k) = k /\ (1..k) \ {k} = 1..(k - 1)
      BY FirstNumbers
    <2>2. iter[1..k] = ReplayNext(iter[(1..k) \ {Max(1..k)}], <<h, Max(1..k)>>)
      BY <1>8, <2>1
    <2> QED BY <2>1, <2>2
  <1> DEFINE S == {k \in Nat : k <= n => iter[1..k] \in V}
  <1>11. 0 \in S
    BY <1>9
  <1>12. ASSUME NEW k \in Nat, k \in S PROVE k + 1 \in S
    <2> SUFFICES ASSUME k + 1 <= n PROVE iter[1..(k + 1)] \in V
      OBVIOUS
    <2>1. k + 1 \in 1..n /\ (k + 1) - 1 = k /\ iter[1..k] \in V
      BY <1>12
    <2> QED BY <1>10, <2>1 DEF ReplaysWithin
  <1> HIDE DEF S
  <1>13. \A k \in Nat : k \in S
    BY <1>11, <1>12, Induction
  <1>14. \A k \in 0..n : iter[1..k] \in V
    BY <1>13 DEF S
  <1> DEFINE f == [k \in 0..n |-> iter[1..k]]
  <1>15. f \in [0..n -> V] /\ f[0] = w /\ f[n] = iter[1..n]
    BY <1>9, <1>14
  <1>16. ASSUME NEW k \in 1..n PROVE f[k] = ReplayNext(f[k - 1], <<h, k>>)
    <2>1. f[k] = iter[1..k] /\ f[k - 1] = iter[1..(k - 1)]
      OBVIOUS
    <2> QED BY <1>10, <2>1
  <1> HIDE DEF f
  <1> QED BY <1>7, <1>15, <1>16 DEF Replays

(* The ledgers, all in V, that the replay of the chain goes through.       *)
BlocksReplay(f, w, n, V) ==
    /\ f \in [0..n -> V] /\ f[0] = w
    /\ \A k \in 1..n : f[k] = ReplayBlock(f[k - 1], k)

ReplayWithin(V, n) == \A v \in V : \A k \in 1..n : ReplayBlock(v, k) \in V

(* What the replay of the chain goes through.                              *)
LEMMA BlockReplays ==
    ASSUME NEW V, NEW w \in V, NEW c, NEW n \in Nat, DOMAIN c = 1..n,
           ReplayWithin(V, n)
    PROVE  \E f : BlocksReplay(f, w, n, V) /\ Replayed(w, c) = f[n]
  <1> DEFINE q == [i \in DOMAIN c |-> i]
             step == [p \in V \X (1..n) |-> ReplayBlock(p[1], p[2])]
             ch == [T \in SUBSET (1..n) |-> Max(T)]
             Folds(g) == g = [T \in SUBSET DOMAIN q |->
                               IF T = {} THEN w
                               ELSE ReplayBlock(g[T \ {Max(T)}], q[Max(T)])]
             iter == CHOOSE g : Folds(g)
  <1>1. DOMAIN q = 1..n /\ \A T \in SUBSET (1..n) : T # {} => q[Max(T)] = Max(T)
    <2>1. DOMAIN q = 1..n /\ \A k \in 1..n : q[k] = k
      OBVIOUS
    <2> QED BY <2>1, MaxIn DEF MaxGives
  <1>2. step \in [V \X (1..n) -> V]
    BY DEF ReplayWithin
  <1>3. IsFiniteSet(1..n) /\ \A T \in SUBSET (1..n) : T # {} => ch[T] \in T
    BY MaxIn, FirstNumbers DEF MaxGives
  <1>4. PICK g : IsFold(g, V, w, step, ch, 1..n)
    <2> HIDE DEF step, ch
    <2> QED BY <1>2, <1>3, FoldExists
  <1>5. Folds(g)
    <2>1. /\ g \in [SUBSET (1..n) -> V]
          /\ \A T \in SUBSET (1..n) :
                g[T] = IF T = {} THEN w ELSE step[<<g[T \ {ch[T]}], ch[T]>>]
      <3> HIDE DEF step, ch
      <3> QED BY <1>4 DEF IsFold
    <2>2. ASSUME NEW T \in SUBSET (1..n)
          PROVE  g[T] = IF T = {} THEN w ELSE ReplayBlock(g[T \ {Max(T)}], Max(T))
      <3>1. CASE T = {}
        BY <2>1, <3>1
      <3>2. CASE T # {}
        <4>1. ch[T] = Max(T) /\ Max(T) \in 1..n /\ g[T \ {Max(T)}] \in V
          BY <1>3, <2>1, <3>2
        <4>2. g[T] = step[<<g[T \ {Max(T)}], Max(T)>>]
          <5> HIDE DEF step, ch
          <5> QED BY <2>1, <3>2, <4>1
        <4>3. step[<<g[T \ {Max(T)}], Max(T)>>] = ReplayBlock(g[T \ {Max(T)}], Max(T))
          BY <4>1
        <4> QED BY <3>2, <4>2, <4>3
      <3> QED BY <3>1, <3>2
    <2>3. g = [T \in SUBSET (1..n) |-> g[T]]
      BY <2>1
    <2>4. g = [T \in SUBSET (1..n) |->
                IF T = {} THEN w ELSE ReplayBlock(g[T \ {Max(T)}], q[Max(T)])]
      <3> HIDE DEF q
      <3>1. \A T \in SUBSET (1..n) :
               g[T] = IF T = {} THEN w ELSE ReplayBlock(g[T \ {Max(T)}], q[Max(T)])
        BY <1>1, <2>2
      <3> QED BY <2>3, <3>1
    <2> HIDE DEF q
    <2> QED BY <1>1, <2>4
  <1>6. Folds(iter)
    BY ZenonT(60), <1>5
  <1>7. Replayed(w, c) = iter[1..n]
    <2>1. Replayed(w, c) = iter[DOMAIN q]
      BY DEF Replayed, FoldLeft, MapThenFoldSet
    <2> HIDE DEF iter, q
    <2> QED BY <1>1, <2>1
  <1> HIDE DEF iter
  <1>8. \A T \in SUBSET (1..n) :
           iter[T] = IF T = {} THEN w ELSE ReplayBlock(iter[T \ {Max(T)}], Max(T))
    <2> HIDE DEF q
    <2> QED BY <1>1, <1>6
  <1>9. iter[1..0] = w
    BY <1>8, FirstNumbers
  <1>10. ASSUME NEW k \in 1..n PROVE iter[1..k] = ReplayBlock(iter[1..(k - 1)], k)
    <2>1. /\ 1..k \in SUBSET (1..n) /\ 1..k # {}
          /\ Max(1..k) = k /\ (1..k) \ {k} = 1..(k - 1)
      BY FirstNumbers
    <2>2. iter[1..k] = ReplayBlock(iter[(1..k) \ {Max(1..k)}], Max(1..k))
      BY <1>8, <2>1
    <2> QED BY <2>1, <2>2
  <1> DEFINE S == {k \in Nat : k <= n => iter[1..k] \in V}
  <1>11. 0 \in S
    BY <1>9
  <1>12. ASSUME NEW k \in Nat, k \in S PROVE k + 1 \in S
    <2> SUFFICES ASSUME k + 1 <= n PROVE iter[1..(k + 1)] \in V
      OBVIOUS
    <2>1. k + 1 \in 1..n /\ (k + 1) - 1 = k /\ iter[1..k] \in V
      BY <1>12
    <2> QED BY <1>10, <2>1 DEF ReplayWithin
  <1> HIDE DEF S
  <1>13. \A k \in Nat : k \in S
    BY <1>11, <1>12, Induction
  <1>14. \A k \in 0..n : iter[1..k] \in V
    BY <1>13 DEF S
  <1> DEFINE f == [k \in 0..n |-> iter[1..k]]
  <1>15. f \in [0..n -> V] /\ f[0] = w /\ f[n] = iter[1..n]
    BY <1>9, <1>14
  <1>16. ASSUME NEW k \in 1..n PROVE f[k] = ReplayBlock(f[k - 1], k)
    <2>1. f[k] = iter[1..k] /\ f[k - 1] = iter[1..(k - 1)]
      OBVIOUS
    <2> QED BY <1>10, <2>1
  <1> HIDE DEF f
  <1> QED BY <1>7, <1>15, <1>16 DEF BlocksReplay

(* The world w with a block b more in its chain.                           *)
More(w, b) == [w EXCEPT !.chain = Append(w.chain, b)]

(* A chain with a block more.                                              *)
LEMMA MoreChain ==
    ASSUME NEW I, NEW c \in ChainsOver(I), NEW b \in Seq(TxsOver(I))
    PROVE  /\ Append(c, b) \in ChainsOver(I) /\ Len(Append(c, b)) = Len(c) + 1
           /\ Append(c, b)[Len(c) + 1] = b
           /\ \A h \in 1..Len(c) : Append(c, b)[h] = c[h]
           /\ PlacesIn(c) \subseteq PlacesIn(Append(c, b))
           /\ \A p \in PlacesIn(c) : TxAt(Append(c, b), p) = TxAt(c, p)
  <1> DEFINE d == Append(c, b)
  <1>1. /\ d \in ChainsOver(I) /\ Len(d) = Len(c) + 1 /\ d[Len(c) + 1] = b
        /\ \A h \in 1..Len(c) : d[h] = c[h]
    BY AppendFacts DEF ChainsOver
  <1>2. Len(c) \in Nat
    BY DEF ChainsOver
  <1> HIDE DEF d
  <1>3. PlacesIn(c) \subseteq PlacesIn(d)
    BY <1>1, <1>2 DEF PlacesIn
  <1>4. \A p \in PlacesIn(c) : TxAt(d, p) = TxAt(c, p)
    BY <1>1 DEF PlacesIn, TxAt
  <1> QED BY <1>1, <1>3, <1>4 DEF d

(* A world with another flag or another chain.                             *)
LEMMA WorldEdits ==
    ASSUME NEW w, w = [ok |-> w.ok, utxo |-> w.utxo, chain |-> w.chain], NEW x
    PROVE  /\ [w EXCEPT !.ok = x] = [ok |-> x, utxo |-> w.utxo, chain |-> w.chain]
           /\ [w EXCEPT !.chain = x] = [ok |-> w.ok, utxo |-> w.utxo, chain |-> x]
           /\ [w EXCEPT !.utxo = x] = [ok |-> w.ok, utxo |-> x, chain |-> w.chain]
  <1> DEFINE a == w.ok
             u == w.utxo
             c == w.chain
             r == [ok |-> a, utxo |-> u, chain |-> c]
  <1> HIDE DEF a, u, c
  <1>1. /\ [r EXCEPT !.ok = x] = [ok |-> x, utxo |-> u, chain |-> c]
        /\ [r EXCEPT !.chain = x] = [ok |-> a, utxo |-> u, chain |-> x]
        /\ [r EXCEPT !.utxo = x] = [ok |-> a, utxo |-> x, chain |-> c]
    OBVIOUS
  <1>2. w = r
    BY DEF a, u, c
  <1> HIDE DEF r
  <1> QED BY <1>1, <1>2 DEF a, u, c

(* A world with a block more is a world.                                   *)
LEMMA MoreWorld ==
    ASSUME NEW I, NEW c \in ChainsOver(I), NEW w \in WorldsOver(I, c), NEW b \in Seq(TxsOver(I))
    PROVE  /\ More(w, b) \in WorldsOver(I, Append(c, b))
           /\ More(w, b).ok = w.ok /\ More(w, b).utxo = w.utxo
           /\ More(w, b).chain = Append(w.chain, b)
           /\ More(w, b) = [ok |-> w.ok, utxo |-> w.utxo, chain |-> Append(w.chain, b)]
  <1> DEFINE d == Append(w.chain, b)
  <1>1. /\ w = [ok |-> w.ok, utxo |-> w.utxo, chain |-> w.chain] /\ w.ok \in BOOLEAN
        /\ DOMAIN w.utxo \in SUBSET I /\ w.utxo \in [DOMAIN w.utxo -> Entries]
        /\ w.chain \in ChainsOver(I)
        /\ Shares(w.utxo, w.chain) /\ SameShape(w.chain, c) /\ EntriesFit(w.utxo)
    BY WorldFacts DEF WorldsOver
  <1>2. More(w, b) = [ok |-> w.ok, utxo |-> w.utxo, chain |-> d]
    BY <1>1, WorldEdits DEF More
  <1>3. /\ d \in ChainsOver(I) /\ Len(d) = Len(w.chain) + 1 /\ d[Len(w.chain) + 1] = b
        /\ \A h \in 1..Len(w.chain) : d[h] = w.chain[h]
        /\ PlacesIn(w.chain) \subseteq PlacesIn(d)
        /\ \A p \in PlacesIn(w.chain) : TxAt(d, p) = TxAt(w.chain, p)
    BY <1>1, MoreChain
  <1>4. SameShape(d, Append(c, b))
    <2> DEFINE e == Append(c, b)
    <2>1. Len(c) = Len(w.chain) /\ Len(c) \in Nat
      BY <1>1, ChainFacts DEF SameShape
    <2>2. /\ Len(e) = Len(c) + 1 /\ e[Len(c) + 1] = b
          /\ \A h \in 1..Len(c) : e[h] = c[h]
      BY MoreChain
    <2> HIDE DEF d, e
    <2>3. ASSUME NEW h \in 1..Len(e)
          PROVE  /\ Len(d[h]) = Len(e[h])
                 /\ \A i \in 1..Len(e[h]) : d[h][i].id = e[h][i].id /\ d[h][i].signed = e[h][i].signed
      <3>1. CASE h = Len(c) + 1
        BY <1>3, <2>1, <2>2, <3>1
      <3>2. CASE h # Len(c) + 1
        <4>1. h \in 1..Len(c)
          BY <2>1, <2>2, <3>2
        <4>2. d[h] = w.chain[h] /\ e[h] = c[h]
          BY <1>3, <2>1, <2>2, <4>1
        <4> QED BY <1>1, <4>1, <4>2 DEF SameShape
      <3> QED BY <3>1, <3>2
    <2>4. Len(d) = Len(e)
      BY <1>3, <2>1, <2>2
    <2> QED BY <2>3, <2>4 DEF SameShape, e
  <1> HIDE DEF d
  <1>5. Shares(w.utxo, d)
    BY <1>1, <1>3 DEF Shares
  <1>6. [ok |-> w.ok, utxo |-> w.utxo, chain |-> d] \in WorldsOver(I, Append(c, b))
    BY <1>1, <1>3, <1>4, <1>5, WorldIs
  <1> QED BY <1>2, <1>6 DEF d

(* Other outputs at a place of a chain, with or without a block more.      *)
ShownAt(c, p, outs) == [c EXCEPT ![p[1]][p[2]].outs = outs]

(* They are the same outputs.                                              *)
LEMMA MoreReplaced ==
    ASSUME NEW I, NEW c \in ChainsOver(I), NEW b \in Seq(TxsOver(I)),
           NEW p \in PlacesIn(c), NEW outs
    PROVE  ShownAt(Append(c, b), p, outs) = Append(ShownAt(c, p, outs), b)
  <1> DEFINE h == p[1]
             x == [c[h] EXCEPT ![p[2]].outs = outs]
             d == Append(c, b)
             e == [c EXCEPT ![h] = x]
  <1>1. h \in 1..Len(c) /\ c \in Seq(Seq(TxsOver(I))) /\ Len(c) \in Nat /\ d[h] = c[h]
    BY MoreChain DEF PlacesIn, ChainsOver
  <1>2. [Append(c, b) EXCEPT ![p[1]][p[2]].outs = outs] = [d EXCEPT ![h] = x]
    BY <1>1
  <1>3. [c EXCEPT ![p[1]][p[2]].outs = outs] = e
    OBVIOUS
  <1>4. [d EXCEPT ![h] = x] = Append(e, b)
    <2> HIDE DEF x, h
    <2> DEFINE S == Seq(TxsOver(I)) \cup {x}
    <2>1. c \in Seq(S) /\ b \in S /\ x \in S
      <3>1. Seq(TxsOver(I)) \subseteq S
        OBVIOUS
      <3> HIDE DEF S
      <3> QED BY <1>1, <3>1, SeqOfMore DEF S
    <2> HIDE DEF S
    <2>2. /\ d \in Seq(S) /\ Len(d) = Len(c) + 1 /\ d[Len(c) + 1] = b
          /\ \A k \in 1..Len(c) : d[k] = c[k]
      BY <2>1, AppendFacts
    <2>3. /\ e \in Seq(S) /\ Len(e) = Len(c) /\ e[h] = x
          /\ \A k \in 1..Len(c) : k # h => e[k] = c[k]
      BY <1>1, <2>1, ReplaceFacts
    <2> HIDE DEF d, e
    <2> DEFINE l == [d EXCEPT ![h] = x]
               r == Append(e, b)
    <2>4. /\ l \in Seq(S) /\ Len(l) = Len(d) /\ l[h] = x
          /\ \A k \in 1..Len(d) : k # h => l[k] = d[k]
      <3>1. h \in 1..Len(d)
        BY <1>1, <2>2
      <3> QED BY <2>1, <2>2, <3>1, ReplaceFacts
    <2>5. /\ r \in Seq(S) /\ Len(r) = Len(e) + 1 /\ r[Len(e) + 1] = b
          /\ \A k \in 1..Len(e) : r[k] = e[k]
      BY <2>1, <2>3, AppendFacts
    <2> HIDE DEF l, r
    <2>6. ASSUME NEW k \in 1..Len(l) PROVE l[k] = r[k]
      <3>1. CASE k = h
        BY <1>1, <2>3, <2>4, <2>5, <3>1
      <3>2. CASE k = Len(c) + 1
        BY <1>1, <2>2, <2>3, <2>4, <2>5, <3>2
      <3>3. CASE k # h /\ k # Len(c) + 1
        <4>1. Len(l) = Len(c) + 1 /\ Len(c) \in Nat
          BY <1>1, <2>2, <2>4
        <4>2. k \in 1..Len(c)
          BY <3>3, <4>1
        <4> QED BY <2>2, <2>3, <2>4, <2>5, <3>3, <4>1, <4>2
      <3> QED BY <3>1, <3>2, <3>3
    <2>7. Len(l) = Len(r)
      BY <2>2, <2>3, <2>4, <2>5
    <2>8. l = r
      BY <2>4, <2>5, <2>6, <2>7, SameSeq
    <2> QED BY <2>8 DEF l, r
  <1> HIDE DEF d, e
  <1>5. [c EXCEPT ![p[1]][p[2]].outs = outs] = e
    BY <1>3
  <1> QED BY <1>2, <1>4, <1>5 DEF d, ShownAt

(* RemoveUTXO does the same with or without a block more.                  *)
LEMMA MoreRemoved ==
    ASSUME NEW I, NEW c \in ChainsOver(I), NEW w \in WorldsOver(I, c),
           NEW b \in Seq(TxsOver(I)), NEW in, in.idx \in Nat \ {0}
    PROVE  RemoveUTXO(More(w, b), in) = More(RemoveUTXO(w, in), b)
  <1>1. /\ More(w, b).ok = w.ok /\ More(w, b).utxo = w.utxo
        /\ More(w, b).chain = Append(w.chain, b)
        /\ More(w, b) = [ok |-> w.ok, utxo |-> w.utxo, chain |-> Append(w.chain, b)]
    BY MoreWorld
  <1>2. CASE ~w.ok \/ ~HasOutput(w.utxo, in)
    <2>1. RemoveUTXO(w, in) = [w EXCEPT !.ok = FALSE]
      BY <1>2 DEF RemoveUTXO
    <2>2. RemoveUTXO(More(w, b), in) = [More(w, b) EXCEPT !.ok = FALSE]
      BY <1>1, <1>2 DEF RemoveUTXO
    <2> DEFINE r == [ok |-> FALSE, utxo |-> w.utxo, chain |-> w.chain]
    <2>3. w = [ok |-> w.ok, utxo |-> w.utxo, chain |-> w.chain]
      BY WorldFacts
    <2>4. RemoveUTXO(w, in) = r /\ r = [ok |-> r.ok, utxo |-> r.utxo, chain |-> r.chain]
      BY <2>1, <2>3, WorldEdits
    <2>5. More(r, b) = [ok |-> FALSE, utxo |-> w.utxo, chain |-> Append(w.chain, b)]
      BY <2>4, WorldEdits DEF More
    <2> HIDE DEF r
    <2>6. [More(w, b) EXCEPT !.ok = FALSE] =
             [ok |-> FALSE, utxo |-> w.utxo, chain |-> Append(w.chain, b)]
      <3> DEFINE m == More(w, b)
      <3>1. m = [ok |-> m.ok, utxo |-> m.utxo, chain |-> m.chain]
        BY <1>1
      <3> HIDE DEF m
      <3>2. [m EXCEPT !.ok = FALSE] = [ok |-> FALSE, utxo |-> m.utxo, chain |-> m.chain]
        BY <3>1, WorldEdits
      <3> QED BY <1>1, <3>2 DEF m
    <2> QED BY <2>2, <2>4, <2>5, <2>6
  <1>3. CASE w.ok /\ HasOutput(w.utxo, in)
    <2> DEFINE home == w.utxo[in.tx].home
               kept == Kept(w.utxo[in.tx].outs, in)
               old == TxAt(w.chain, home).outs
               new == Overwrite(old, kept)
               v == SetEntry(w.utxo, in.tx, kept)
               Put(ch) == IF home = Nowhere THEN ch
                          ELSE ShownAt(ch, home, new)
    <2>1. home # Nowhere => home \in PlacesIn(w.chain)
      BY <1>3, WorldFacts DEF HasOutput, Shares
    <2>2. w.chain \in ChainsOver(I)
      BY WorldFacts
    <2>3. home # Nowhere => TxAt(Append(w.chain, b), home) = TxAt(w.chain, home)
      BY <2>1, <2>2, MoreChain
    <2>4. RemoveUTXO(w, in) = [ok |-> TRUE, utxo |-> v, chain |-> Put(w.chain)]
      <3>1. ~(~w.ok \/ ~HasOutput(w.utxo, in))
        BY <1>3
      <3> QED BY <3>1 DEF RemoveUTXO, TxAt, ShownAt
    <2>5. RemoveUTXO(More(w, b), in) = [ok |-> TRUE, utxo |-> v, chain |-> Put(Append(w.chain, b))]
      <3>1. ~(~More(w, b).ok \/ ~HasOutput(More(w, b).utxo, in))
        BY <1>1, <1>3
      <3>2. RemoveUTXO(More(w, b), in) =
              [ok |-> TRUE, utxo |-> v,
               chain |-> IF home = Nowhere THEN Append(w.chain, b)
                         ELSE [Append(w.chain, b) EXCEPT ![home[1]][home[2]].outs =
                                 Overwrite(TxAt(Append(w.chain, b), home).outs, kept)]]
        BY <1>1, <3>1 DEF RemoveUTXO, TxAt
      <3> QED BY <2>3, <3>2 DEF ShownAt
    <2>6. Put(Append(w.chain, b)) = Append(Put(w.chain), b)
      <3>1. CASE home = Nowhere
        BY <3>1
      <3>2. CASE home # Nowhere
        <4> HIDE DEF home, new
        <4>1. home \in PlacesIn(w.chain)
          BY <2>1, <3>2
        <4> DEFINE ch == w.chain
        <4>2. ch \in ChainsOver(I) /\ home \in PlacesIn(ch)
          BY <2>2, <4>1
        <4> HIDE DEF ch
        <4>3. ShownAt(Append(ch, b), home, new) = Append(ShownAt(ch, home, new), b)
          BY <4>2, MoreReplaced
        <4>4. Put(Append(ch, b)) = Append(Put(ch), b)
          BY <3>2, <4>3
        <4> HIDE DEF Put
        <4> QED BY <4>4 DEF ch
      <3> QED BY <3>1, <3>2
    <2> DEFINE r == [ok |-> TRUE, utxo |-> v, chain |-> Put(w.chain)]
    <2> HIDE DEF Put, v
    <2>7. /\ r = [ok |-> r.ok, utxo |-> r.utxo, chain |-> r.chain]
          /\ r.ok = TRUE /\ r.utxo = v /\ r.chain = Put(w.chain)
      OBVIOUS
    <2>8. More(r, b) = [ok |-> TRUE, utxo |-> v, chain |-> Append(Put(w.chain), b)]
      <3> HIDE DEF r
      <3>1. [r EXCEPT !.chain = Append(r.chain, b)] =
               [ok |-> r.ok, utxo |-> r.utxo, chain |-> Append(r.chain, b)]
        BY <2>7, WorldEdits
      <3> QED BY <2>7, <3>1 DEF More
    <2> HIDE DEF r
    <2>9. RemoveUTXO(w, in) = r
      BY <2>4 DEF r
    <2> QED BY <2>5, <2>6, <2>8, <2>9
  <1> QED BY <1>2, <1>3

(* Removing the inputs of a transaction does the same with a block more.   *)
LEMMA MoreSpent ==
    ASSUME NEW I, NEW c \in ChainsOver(I), NEW w \in WorldsOver(I, c),
           NEW b \in Seq(TxsOver(I)), NEW ins \in Seq(InputsOver(I))
    PROVE  FoldLeft(RemoveUTXO, More(w, b), ins) = More(FoldLeft(RemoveUTXO, w, ins), b)
  <1> DEFINE V == WorldsOver(I, c)
             W == WorldsOver(I, Append(c, b))
             n == Len(ins)
  <1>1. n \in Nat /\ DOMAIN ins = 1..n /\ \A k \in 1..n : ins[k].idx \in Nat \ {0}
    <2>1. \A k \in 1..n : ins[k] \in InputsOver(I)
      BY ElementIn
    <2> QED BY <2>1 DEF InputsOver
  <1>2. RemovesWithin(V, ins, n) /\ RemovesWithin(W, ins, n)
    BY <1>1, RemoveUTXOFacts DEF RemovesWithin
  <1>3. w \in V /\ More(w, b) \in W
    BY MoreWorld
  <1>4. \A v \in V : \A k \in 1..n : RemoveUTXO(More(v, b), ins[k]) = More(RemoveUTXO(v, ins[k]), b)
    BY <1>1, MoreRemoved
  <1> HIDE DEF V, W, n
  <1>5. PICK f : Removals(f, w, ins, n, V) /\ FoldLeft(RemoveUTXO, w, ins) = f[n]
    BY <1>1, <1>2, <1>3, RemoveAll
  <1>6. PICK g : Removals(g, More(w, b), ins, n, W) /\ FoldLeft(RemoveUTXO, More(w, b), ins) = g[n]
    BY <1>1, <1>2, <1>3, RemoveAll
  <1> DEFINE Good(k) == g[k] = More(f[k], b)
             S == {k \in Nat : k <= n => Good(k)}
  <1>7. Good(0)
    BY <1>5, <1>6 DEF Removals
  <1>8. ASSUME NEW k \in Nat, k + 1 <= n, Good(k) PROVE Good(k + 1)
    <2>1. k + 1 \in 1..n /\ (k + 1) - 1 = k /\ k \in 0..n
      BY <1>1, <1>8
    <2>2. f[k + 1] = RemoveUTXO(f[k], ins[k + 1]) /\ f[k] \in V
      BY <1>5, <2>1 DEF Removals
    <2>3. g[k + 1] = RemoveUTXO(g[k], ins[k + 1])
      BY <1>6, <2>1 DEF Removals
    <2> QED BY <1>4, <1>8, <2>1, <2>2, <2>3
  <1> HIDE DEF Good
  <1>9. 0 \in S /\ \A k \in Nat : k \in S => k + 1 \in S
    <2>1. 0 \in S
      BY <1>7
    <2>2. ASSUME NEW k \in Nat, k \in S PROVE k + 1 \in S
      <3>1. k + 1 <= n => k <= n
        BY <1>1
      <3> QED BY <1>8, <2>2, <3>1
    <2> QED BY <2>1, <2>2
  <1> HIDE DEF S
  <1>10. n \in S
    BY <1>1, <1>9, Induction
  <1>11. Good(n)
    BY <1>1, <1>10 DEF S
  <1> QED BY <1>5, <1>6, <1>11 DEF Good

(* The removals of a transaction's inputs are within the ledgers over I.   *)
LEMMA SpentWithin ==
    ASSUME NEW I, NEW c, NEW w \in WorldsOver(I, c), NEW ins \in Seq(InputsOver(I))
    PROVE  FoldLeft(RemoveUTXO, w, ins) \in WorldsOver(I, c)
  <1> DEFINE V == WorldsOver(I, c)
             n == Len(ins)
  <1>1. n \in Nat /\ DOMAIN ins = 1..n /\ \A k \in 1..n : ins[k].idx \in Nat \ {0}
    <2>1. \A k \in 1..n : ins[k] \in InputsOver(I)
      BY ElementIn
    <2> QED BY <2>1 DEF InputsOver
  <1>2. RemovesWithin(V, ins, n)
    BY <1>1, RemoveUTXOFacts DEF RemovesWithin
  <1> HIDE DEF V, n
  <1>3. PICK f : Removals(f, w, ins, n, V) /\ FoldLeft(RemoveUTXO, w, ins) = f[n]
    <2>1. w \in V
      BY DEF V
    <2> QED BY <1>1, <1>2, <2>1, RemoveAll
  <1>4. f[n] \in V
    BY <1>1, <1>3 DEF Removals
  <1> QED BY <1>3, <1>4 DEF V

(* Update does the same with a block more.                                 *)
LEMMA MoreUpdate ==
    ASSUME NEW I, I \subseteq IdsOver(I), NEW c \in ChainsOver(I), NEW w \in WorldsOver(I, c),
           NEW b \in Seq(TxsOver(I)), NEW at \in PlacesIn(w.chain)
    PROVE  Update(More(w, b), at) = More(Update(w, at), b)
  <1> DEFINE t == TxAt(w.chain, at)
             ins == t.id.ins
             s == FoldLeft(RemoveUTXO, w, ins)
             entry == [outs |-> TxAt(s.chain, at).outs, home |-> at]
  <1>1. w.chain \in ChainsOver(I)
    BY WorldFacts
  <1>2. t \in TxsOver(I)
    BY <1>1, ChainFacts
  <1>3. ins \in Seq(InputsOver(I)) /\ t.id \in I
    <2> HIDE DEF t
    <2> QED BY <1>2, TxFacts
  <1>4. /\ More(w, b).chain = Append(w.chain, b) /\ TxAt(More(w, b).chain, at) = t
    <2>1. More(w, b).chain = Append(w.chain, b)
      BY MoreWorld
    <2>2. TxAt(Append(w.chain, b), at) = t
      BY <1>1, MoreChain
    <2> HIDE DEF t
    <2> QED BY <2>1, <2>2
  <1> HIDE DEF t, ins
  <1>5. FoldLeft(RemoveUTXO, More(w, b), ins) = More(s, b) /\ s \in WorldsOver(I, c)
    BY <1>3, MoreSpent, SpentWithin
  <1>6. Update(w, at) = IF s.ok THEN AddUTXO(s, t.id, entry) ELSE s
    BY DEF Update, TxAt, t, ins
  <1> DEFINE z == FoldLeft(RemoveUTXO, More(w, b), ins)
  <1>7. Update(More(w, b), at) =
           IF z.ok THEN AddUTXO(z, t.id, [outs |-> TxAt(z.chain, at).outs, home |-> at]) ELSE z
    BY <1>4 DEF Update, TxAt, t, ins
  <1> HIDE DEF z
  <1>8. z = More(s, b)
    BY <1>5 DEF z
  <1> HIDE DEF s
  <1>9. /\ More(s, b).ok = s.ok /\ More(s, b).utxo = s.utxo
        /\ More(s, b).chain = Append(s.chain, b)
        /\ More(s, b) = [ok |-> s.ok, utxo |-> s.utxo, chain |-> Append(s.chain, b)]
        /\ s = [ok |-> s.ok, utxo |-> s.utxo, chain |-> s.chain]
    BY <1>5, MoreWorld, WorldFacts
  <1>10. TxAt(More(s, b).chain, at) = TxAt(s.chain, at)
    <2>1. s.chain \in ChainsOver(I) /\ SameShape(s.chain, c) /\ SameShape(w.chain, c)
      BY <1>5, WorldFacts
    <2>2. at \in PlacesIn(s.chain)
      BY <2>1, ShapeFacts
    <2> QED BY <1>9, <2>1, <2>2, MoreChain
  <1>11. Update(More(w, b), at) = IF s.ok THEN AddUTXO(More(s, b), t.id, entry) ELSE More(s, b)
    BY <1>7, <1>8, <1>9, <1>10
  <1>12. AddUTXO(More(s, b), t.id, entry) = More(AddUTXO(s, t.id, entry), b)
    <2> HIDE DEF entry
    <2> DEFINE A(u) == [k \in DOMAIN u \cup {t.id} |-> IF k = t.id THEN entry ELSE u[k]]
               m == More(s, b)
    <2>1. AddUTXO(s, t.id, entry) = [ok |-> s.ok, utxo |-> A(s.utxo), chain |-> s.chain]
      <3> HIDE DEF A
      <3>1. [s EXCEPT !.utxo = A(s.utxo)] = [ok |-> s.ok, utxo |-> A(s.utxo), chain |-> s.chain]
        BY <1>9, WorldEdits
      <3> QED BY <3>1 DEF AddUTXO, A
    <2>2. AddUTXO(m, t.id, entry) = [ok |-> m.ok, utxo |-> A(m.utxo), chain |-> m.chain]
      <3>1. m = [ok |-> m.ok, utxo |-> m.utxo, chain |-> m.chain]
        BY <1>9
      <3> HIDE DEF A, m
      <3>2. [m EXCEPT !.utxo = A(m.utxo)] = [ok |-> m.ok, utxo |-> A(m.utxo), chain |-> m.chain]
        BY <3>1, WorldEdits
      <3> QED BY <3>2 DEF AddUTXO, A
    <2> DEFINE r == [ok |-> s.ok, utxo |-> A(s.utxo), chain |-> s.chain]
    <2> HIDE DEF A
    <2>3. /\ r = [ok |-> r.ok, utxo |-> r.utxo, chain |-> r.chain]
          /\ r.ok = s.ok /\ r.utxo = A(s.utxo) /\ r.chain = s.chain
      OBVIOUS
    <2> HIDE DEF r
    <2>4. More(r, b) = [ok |-> s.ok, utxo |-> A(s.utxo), chain |-> Append(s.chain, b)]
      <3>1. [r EXCEPT !.chain = Append(r.chain, b)] =
               [ok |-> r.ok, utxo |-> r.utxo, chain |-> Append(r.chain, b)]
        BY <2>3, WorldEdits
      <3> QED BY <2>3, <3>1 DEF More
    <2>5. AddUTXO(s, t.id, entry) = r
      BY <2>1 DEF r
    <2> QED BY <1>9, <2>2, <2>4, <2>5
  <1> QED BY <1>6, <1>11, <1>12

(* ReplayNext stays within the ledgers over I ...                          *)
LEMMA NextWithin ==
    ASSUME NEW I, I \subseteq IdsOver(I), NEW c, NEW w \in WorldsOver(I, c),
           NEW at \in PlacesIn(w.chain)
    PROVE  ReplayNext(w, at) \in WorldsOver(I, c)
  <1> DEFINE r == Update(w, at)
  <1>1. r \in WorldsOver(I, c)
    BY UpdateFacts
  <1> HIDE DEF r
  <1>2. [r EXCEPT !.ok = TRUE] = [ok |-> TRUE, utxo |-> r.utxo, chain |-> r.chain]
    <2>1. r = [ok |-> r.ok, utxo |-> r.utxo, chain |-> r.chain]
      BY <1>1, WorldFacts
    <2> QED BY <2>1, WorldEdits
  <1>3. [ok |-> TRUE, utxo |-> r.utxo, chain |-> r.chain] \in WorldsOver(I, c)
    BY <1>1 DEF WorldsOver
  <1> QED BY <1>2, <1>3 DEF ReplayNext, r

(* ... and does the same with a block more.                                *)
LEMMA MoreNext ==
    ASSUME NEW I, I \subseteq IdsOver(I), NEW c \in ChainsOver(I), NEW w \in WorldsOver(I, c),
           NEW b \in Seq(TxsOver(I)), NEW at \in PlacesIn(w.chain)
    PROVE  ReplayNext(More(w, b), at) = More(ReplayNext(w, at), b)
  <1> DEFINE r == Update(w, at)
  <1>1. r \in WorldsOver(I, c)
    BY UpdateFacts
  <1>2. Update(More(w, b), at) = More(r, b)
    BY MoreUpdate
  <1> HIDE DEF r
  <1>3. r = [ok |-> r.ok, utxo |-> r.utxo, chain |-> r.chain]
    BY <1>1, WorldFacts
  <1> DEFINE m == More(r, b)
             s == [ok |-> TRUE, utxo |-> r.utxo, chain |-> r.chain]
  <1>4. m = [ok |-> r.ok, utxo |-> r.utxo, chain |-> Append(r.chain, b)]
    BY <1>1, MoreWorld
  <1>5. [r EXCEPT !.ok = TRUE] = s
    BY <1>3, WorldEdits
  <1>6. [m EXCEPT !.ok = TRUE] = [ok |-> TRUE, utxo |-> r.utxo, chain |-> Append(r.chain, b)]
    <2>1. /\ m = [ok |-> m.ok, utxo |-> m.utxo, chain |-> m.chain]
          /\ m.utxo = r.utxo /\ m.chain = Append(r.chain, b)
      BY <1>4
    <2> HIDE DEF m
    <2>2. [m EXCEPT !.ok = TRUE] = [ok |-> TRUE, utxo |-> m.utxo, chain |-> m.chain]
      BY <2>1, WorldEdits
    <2> QED BY <2>1, <2>2
  <1>7. More(s, b) = [ok |-> TRUE, utxo |-> r.utxo, chain |-> Append(r.chain, b)]
    <2>1. /\ s = [ok |-> s.ok, utxo |-> s.utxo, chain |-> s.chain]
          /\ s.ok = TRUE /\ s.utxo = r.utxo /\ s.chain = r.chain
      OBVIOUS
    <2> HIDE DEF s
    <2>2. [s EXCEPT !.chain = Append(s.chain, b)] =
             [ok |-> s.ok, utxo |-> s.utxo, chain |-> Append(s.chain, b)]
      BY <2>1, WorldEdits
    <2> QED BY <2>1, <2>2 DEF More
  <1> HIDE DEF m, s
  <1>8. ReplayNext(w, at) = s
    BY <1>5 DEF ReplayNext, r
  <1>9. ReplayNext(More(w, b), at) = [m EXCEPT !.ok = TRUE]
    BY <1>2 DEF ReplayNext, m
  <1> QED BY <1>6, <1>7, <1>8, <1>9

(* The replay of a block is a sequence of updates within the ledgers.      *)
GoesAlong(I, c, w, h) ==
    /\ Len(c[h]) \in Nat /\ \A k \in 1..Len(c[h]) : <<h, k>> \in PlacesIn(c)
    /\ ReplayBlock(w, h) \in WorldsOver(I, c)
    /\ \E f : /\ Replays(f, w, h, Len(c[h]), WorldsOver(I, c))
              /\ ReplayBlock(w, h) = f[Len(c[h])]

(* So it is for every block.                                               *)
LEMMA ReplayBlockFacts ==
    ASSUME NEW I, I \subseteq IdsOver(I), NEW c, NEW w \in WorldsOver(I, c), NEW h \in 1..Len(c)
    PROVE  GoesAlong(I, c, w, h)
  <1> DEFINE V == WorldsOver(I, c)
             n == Len(c[h])
  <1>1. w.chain \in ChainsOver(I) /\ SameShape(w.chain, c)
    BY WorldFacts
  <1>2. Len(w.chain) = Len(c) /\ n \in Nat /\ DOMAIN w.chain[h] = 1..n /\ Len(w.chain[h]) = n
    <2>1. h \in 1..Len(w.chain) /\ Len(w.chain) = Len(c) /\ Len(w.chain[h]) = n
      BY <1>1 DEF SameShape
    <2>2. w.chain[h] \in Seq(TxsOver(I))
      BY <1>1, <2>1, ChainFacts
    <2> QED BY <2>1, <2>2, PlacesOfSeq
  <1>3. \A k \in 1..n : <<h, k>> \in PlacesIn(c)
    <2>1. Len(c) \in Nat
      BY <1>1, <1>2, ChainFacts
    <2> QED BY <1>2, <2>1 DEF PlacesIn
  <1>4. ASSUME NEW v \in V, NEW k \in 1..n PROVE ReplayNext(v, <<h, k>>) \in V
    <2>1. SameShape(v.chain, c)
      BY WorldFacts
    <2>2. <<h, k>> \in PlacesIn(v.chain)
      BY <1>3, <2>1, ShapeFacts
    <2> QED BY <2>2, NextWithin
  <1> HIDE DEF V, n
  <1>5. w \in V
    BY DEF V
  <1>6. PICK f : Replays(f, w, h, n, V) /\ ReplayBlock(w, h) = f[n]
    <2>1. ReplaysWithin(V, h, n)
      BY <1>4 DEF ReplaysWithin
    <2> QED BY <1>2, <1>5, <2>1, ReplayAll
  <1>7. ReplayBlock(w, h) \in V
    BY <1>2, <1>6 DEF Replays
  <1> QED BY <1>2, <1>3, <1>6, <1>7 DEF V, n, GoesAlong

(* The replay of a block does the same with a block more.                  *)
LEMMA MoreBlock ==
    ASSUME NEW I, I \subseteq IdsOver(I), NEW c \in ChainsOver(I), NEW w \in WorldsOver(I, c),
           NEW b \in Seq(TxsOver(I)), NEW h \in 1..Len(c)
    PROVE  ReplayBlock(More(w, b), h) = More(ReplayBlock(w, h), b)
  <1> DEFINE V == WorldsOver(I, c)
             d == Append(c, b)
             W == WorldsOver(I, d)
             n == Len(c[h])
  <1>1. More(w, b) \in W /\ w \in V
    BY MoreWorld
  <1>2. h \in 1..Len(d) /\ d[h] = c[h]
    <2>1. Len(c) \in Nat
      BY ChainFacts
    <2> QED BY <2>1, MoreChain
  <1>3. /\ n \in Nat /\ \A k \in 1..n : <<h, k>> \in PlacesIn(c)
        /\ \E f : Replays(f, w, h, n, V) /\ ReplayBlock(w, h) = f[n]
    <2>1. GoesAlong(I, c, w, h)
      BY ReplayBlockFacts
    <2> QED BY <2>1 DEF GoesAlong
  <1>4. ASSUME NEW v \in V, NEW k \in 1..n
        PROVE  ReplayNext(More(v, b), <<h, k>>) = More(ReplayNext(v, <<h, k>>), b)
    <2>1. SameShape(v.chain, c)
      BY WorldFacts
    <2>2. <<h, k>> \in PlacesIn(v.chain)
      BY <1>3, <2>1, ShapeFacts
    <2> QED BY <2>2, MoreNext
  <1>5. PICK f : Replays(f, w, h, n, V) /\ ReplayBlock(w, h) = f[n]
    BY <1>3
  <1> HIDE DEF V, n, d
  <1>6. PICK g : Replays(g, More(w, b), h, n, W) /\ ReplayBlock(More(w, b), h) = g[n]
    <2>1. GoesAlong(I, d, More(w, b), h)
      BY <1>1, <1>2, ReplayBlockFacts
    <2>2. \E g : /\ Replays(g, More(w, b), h, Len(d[h]), W)
                 /\ ReplayBlock(More(w, b), h) = g[Len(d[h])]
      BY <2>1 DEF GoesAlong
    <2> HIDE DEF W
    <2> QED BY <1>2, <2>2 DEF n
  <1> HIDE DEF W
  <1> DEFINE Good(k) == g[k] = More(f[k], b)
             S == {k \in Nat : k <= n => Good(k)}
  <1>7. Good(0)
    BY <1>5, <1>6 DEF Replays
  <1>8. ASSUME NEW k \in Nat, k + 1 <= n, Good(k) PROVE Good(k + 1)
    <2>1. k + 1 \in 1..n /\ (k + 1) - 1 = k /\ k \in 0..n
      BY <1>3, <1>8
    <2>2. f[k + 1] = ReplayNext(f[k], <<h, k + 1>>) /\ f[k] \in V
      BY <1>5, <2>1 DEF Replays
    <2>3. g[k + 1] = ReplayNext(g[k], <<h, k + 1>>)
      BY <1>6, <2>1 DEF Replays
    <2> QED BY <1>4, <1>8, <2>1, <2>2, <2>3
  <1> HIDE DEF Good
  <1>9. 0 \in S /\ \A k \in Nat : k \in S => k + 1 \in S
    <2>1. 0 \in S
      BY <1>7
    <2>2. ASSUME NEW k \in Nat, k \in S PROVE k + 1 \in S
      <3>1. k + 1 <= n => k <= n
        BY <1>3
      <3> QED BY <1>8, <2>2, <3>1
    <2> QED BY <2>1, <2>2
  <1> HIDE DEF S
  <1>10. n \in S
    BY <1>3, <1>9, Induction
  <1>11. Good(n)
    BY <1>3, <1>10 DEF S
  <1> QED BY <1>5, <1>6, <1>11 DEF Good

(* A ledger over I is one over more ids, and along any chain of its shape. *)
LEMMA WorldsMore ==
    ASSUME NEW I, NEW J, I \subseteq J, NEW c, NEW d, SameShape(c, d), NEW w \in WorldsOver(I, c)
    PROVE  w \in WorldsOver(J, d)
  <1>1. ChainsOver(I) \subseteq ChainsOver(J) /\ SetsOver(I) \subseteq SetsOver(J)
    BY MoreIds
  <1>2. SameShape(w.chain, d)
    BY WorldFacts, ShapeFacts
  <1>3. /\ w \in [ok : BOOLEAN, utxo : SetsOver(I), chain : ChainsOver(I)]
        /\ EntriesFit(w.utxo) /\ Shares(w.utxo, w.chain)
    BY DEF WorldsOver
  <1>4. w \in [ok : BOOLEAN, utxo : SetsOver(J), chain : ChainsOver(J)]
    BY <1>1, <1>3
  <1> QED BY <1>2, <1>3, <1>4 DEF WorldsOver

(* The replay of a chain is a sequence of replays of its blocks.           *)
LEMMA ReplayedFacts ==
    ASSUME NEW I, I \subseteq IdsOver(I), NEW c \in ChainsOver(I), NEW w \in WorldsOver(I, c)
    PROVE  /\ Len(c) \in Nat /\ Replayed(w, c) \in WorldsOver(I, c)
           /\ \E f : /\ BlocksReplay(f, w, Len(c), WorldsOver(I, c))
                     /\ Replayed(w, c) = f[Len(c)]
  <1> DEFINE V == WorldsOver(I, c)
             n == Len(c)
  <1>1. n \in Nat /\ DOMAIN c = 1..n
    BY ChainFacts, PlacesOfSeq DEF ChainsOver
  <1>2. \A v \in V : \A k \in 1..n : ReplayBlock(v, k) \in V
    <2> SUFFICES ASSUME NEW v \in V, NEW k \in 1..n PROVE ReplayBlock(v, k) \in V
      OBVIOUS
    <2>1. GoesAlong(I, c, v, k)
      BY ReplayBlockFacts
    <2> QED BY <2>1 DEF GoesAlong
  <1> HIDE DEF V, n
  <1>3. PICK f : BlocksReplay(f, w, n, V) /\ Replayed(w, c) = f[n]
    <2>1. w \in V /\ ReplayWithin(V, n)
      BY <1>2 DEF ReplayWithin, V
    <2> QED BY <1>1, <2>1, BlockReplays
  <1>4. Replayed(w, c) \in V
    BY <1>1, <1>3 DEF BlocksReplay
  <1> QED BY <1>1, <1>3, <1>4 DEF V, n

(* The replay of a chain with a block more is that of the chain and then   *)
(* that of the block.                                                      *)
LEMMA MoreReplay ==
    ASSUME NEW I, I \subseteq IdsOver(I), NEW c \in ChainsOver(I), NEW w \in WorldsOver(I, c),
           NEW b \in Seq(TxsOver(I)), NEW d \in ChainsOver(I), SameShape(Append(c, b), d)
    PROVE  Replayed(More(w, b), d) = ReplayBlock(More(Replayed(w, c), b), Len(c) + 1)
  <1> DEFINE V == WorldsOver(I, c)
             W == WorldsOver(I, d)
             n == Len(c)
             m == More(w, b)
  <1>1. m \in W
    <2>1. m \in WorldsOver(I, Append(c, b)) /\ I \subseteq I
      BY MoreWorld
    <2> HIDE DEF m
    <2> QED BY <2>1, WorldsMore
  <1>2. n \in Nat /\ Len(d) = n + 1
    <2>1. n \in Nat /\ Len(Append(c, b)) = n + 1
      BY ChainFacts, MoreChain
    <2> QED BY <2>1 DEF SameShape
  <1>3. \A v \in V : \A k \in 1..n : ReplayBlock(More(v, b), k) = More(ReplayBlock(v, k), b)
    BY MoreBlock
  <1>4. PICK f : BlocksReplay(f, w, n, V) /\ Replayed(w, c) = f[n]
    BY ReplayedFacts
  <1>5. PICK g : BlocksReplay(g, m, n + 1, W) /\ Replayed(m, d) = g[n + 1]
    <2> HIDE DEF m, n
    <2>1. \E g : BlocksReplay(g, m, Len(d), WorldsOver(I, d)) /\ Replayed(m, d) = g[Len(d)]
      BY <1>1, ReplayedFacts
    <2> QED BY <1>2, <2>1
  <1> HIDE DEF V, W, n
  <1> DEFINE Good(k) == g[k] = More(f[k], b)
             S == {k \in Nat : k <= n => Good(k)}
  <1>6. Good(0)
    BY <1>4, <1>5 DEF BlocksReplay
  <1>7. ASSUME NEW k \in Nat, k + 1 <= n, Good(k) PROVE Good(k + 1)
    <2>1. k + 1 \in 1..n /\ k + 1 \in 1..(n + 1) /\ (k + 1) - 1 = k /\ k \in 0..n
      BY <1>2, <1>7
    <2>2. f[k + 1] = ReplayBlock(f[k], k + 1) /\ f[k] \in V
      BY <1>4, <2>1 DEF BlocksReplay
    <2>3. g[k + 1] = ReplayBlock(g[k], k + 1)
      BY <1>5, <2>1 DEF BlocksReplay
    <2> QED BY <1>3, <1>7, <2>1, <2>2, <2>3
  <1> HIDE DEF Good
  <1>8. 0 \in S /\ \A k \in Nat : k \in S => k + 1 \in S
    <2>1. 0 \in S
      BY <1>6
    <2>2. ASSUME NEW k \in Nat, k \in S PROVE k + 1 \in S
      <3>1. k + 1 <= n => k <= n
        BY <1>2
      <3> QED BY <1>7, <2>2, <3>1
    <2> QED BY <2>1, <2>2
  <1> HIDE DEF S
  <1>9. n \in S
    BY <1>2, <1>8, Induction
  <1>10. Good(n)
    BY <1>2, <1>9 DEF S
  <1>11. g[n + 1] = ReplayBlock(g[n], n + 1)
    <2>1. n + 1 \in 1..(n + 1) /\ (n + 1) - 1 = n
      BY <1>2
    <2> QED BY <1>5, <2>1 DEF BlocksReplay
  <1> QED BY <1>4, <1>5, <1>10, <1>11 DEF Good, n

(* Where no update fails the replay does what AddBlock did.                *)
LEMMA ReplayIsUpdate ==
    ASSUME NEW I, I \subseteq IdsOver(I), NEW c, NEW w \in WorldsOver(I, c), NEW h \in 1..Len(c),
           UpdateBlock(w, h).ok = TRUE
    PROVE  ReplayBlock(w, h) = UpdateBlock(w, h)
  <1> DEFINE V == WorldsOver(I, c)
             n == Len(c[h])
  <1>1. n \in Nat /\ \E g : Replays(g, w, h, n, V) /\ ReplayBlock(w, h) = g[n]
    <2>1. GoesAlong(I, c, w, h)
      BY ReplayBlockFacts
    <2> QED BY <2>1 DEF GoesAlong
  <1>2. Len(w.chain[h]) = n
    BY WorldFacts DEF SameShape
  <1> HIDE DEF n
  <1>3. PICK f : Updates(f, w, h, n, V) /\ UpdateBlock(w, h) = f[n]
    <2>1. \E f : /\ Updates(f, w, h, Len(w.chain[h]), V)
                 /\ UpdateBlock(w, h) = f[Len(w.chain[h])]
      BY UpdateBlockFacts
    <2> QED BY <1>2, <2>1
  <1>4. PICK g : Replays(g, w, h, n, V) /\ ReplayBlock(w, h) = g[n]
    BY <1>1
  <1> DEFINE Good(k) == f[k].ok => g[k] = f[k]
             S == {k \in Nat : k <= n => Good(k)}
  <1>5. \A k \in 0..n : f[k] \in V /\ f[k].ok \in BOOLEAN
    <2>1. \A k \in 0..n : f[k] \in V
      BY <1>3 DEF Updates
    <2> QED BY <2>1, WorldFacts
  <1> HIDE DEF V
  <1>6. Good(0)
    BY <1>3, <1>4 DEF Updates, Replays
  <1>7. ASSUME NEW k \in Nat, k + 1 <= n, Good(k) PROVE Good(k + 1)
    <2> SUFFICES ASSUME f[k + 1].ok PROVE g[k + 1] = f[k + 1]
      OBVIOUS
    <2> DEFINE at == <<h, k + 1>>
    <2>1. k + 1 \in 1..n /\ (k + 1) - 1 = k /\ k \in 0..n /\ k + 1 \in 0..n
      BY <1>1, <1>7
    <2>2. f[k + 1] = UpdateNext(f[k], at) /\ g[k + 1] = ReplayNext(g[k], at)
      BY <1>3, <1>4, <2>1 DEF Updates, Replays
    <2>3. f[k].ok
      <3> SUFFICES ASSUME ~f[k].ok PROVE FALSE
        OBVIOUS
      <3>1. f[k + 1] = f[k]
        BY <2>2 DEF UpdateNext
      <3> QED BY <3>1
    <2>4. f[k + 1] = Update(f[k], at) /\ g[k] = f[k]
      BY <1>7, <2>2, <2>3 DEF UpdateNext
    <2> DEFINE r == f[k + 1]
    <2>5. r.ok = TRUE /\ r = [ok |-> r.ok, utxo |-> r.utxo, chain |-> r.chain]
      BY <1>5, <2>1, WorldFacts DEF V
    <2>6. g[k + 1] = [r EXCEPT !.ok = TRUE]
      BY <2>2, <2>4 DEF ReplayNext
    <2> HIDE DEF r
    <2>7. [r EXCEPT !.ok = TRUE] = r
      BY <2>5, WorldEdits
    <2> QED BY <2>6, <2>7 DEF r
  <1> HIDE DEF Good
  <1>8. 0 \in S /\ \A k \in Nat : k \in S => k + 1 \in S
    <2>1. 0 \in S
      BY <1>6
    <2>2. ASSUME NEW k \in Nat, k \in S PROVE k + 1 \in S
      <3>1. k + 1 <= n => k <= n
        BY <1>1
      <3> QED BY <1>7, <2>2, <3>1
    <2> QED BY <2>1, <2>2
  <1> HIDE DEF S
  <1>9. n \in S
    BY <1>1, <1>8, Induction
  <1>10. Good(n)
    BY <1>1, <1>9 DEF S
  <1> QED BY <1>3, <1>4, <1>10 DEF Good

(* What is stored of a transaction.                                        *)
LEMMA AsCreatedFacts ==
    ASSUME NEW I, I \subseteq IdsOver(I), NEW t \in TxsOver(I)
    PROVE  /\ AsCreated(t) \in TxsOver(I)
           /\ AsCreated(t) = [id |-> t.id, outs |-> t.id.outs, signed |-> t.signed]
           /\ AsCreated(t).id = t.id /\ AsCreated(t).signed = t.signed
           /\ t.outs = t.id.outs => AsCreated(t) = t
  <1>1. /\ t = [id |-> t.id, outs |-> t.outs, signed |-> t.signed] /\ t.id \in I
        /\ t.id.outs \in Seq(Output) /\ t.signed \in Seq(Signature)
        /\ Len(t.signed) = Len(t.id.ins)
    BY TxFacts
  <1> DEFINE id == t.id
             outs == t.outs
             signed == t.signed
             x == t.id.outs
             r == [id |-> id, outs |-> outs, signed |-> signed]
             s == [id |-> id, outs |-> x, signed |-> signed]
  <1>2. t = r /\ x = id.outs
    BY <1>1
  <1>3. AsCreated(t) = s
    <2>1. [r EXCEPT !.outs = x] = s
      <3> HIDE DEF id, outs, signed, x
      <3> QED OBVIOUS
    <2>2. AsCreated(t) = [t EXCEPT !.outs = x]
      BY DEF AsCreated
    <2> HIDE DEF r, s, x
    <2> QED BY <1>2, <2>1, <2>2
  <1>4. s \in TxsOver(I) /\ s.id = id /\ s.signed = signed
    BY <1>1 DEF TxsOver
  <1>5. t.outs = t.id.outs => s = t
    BY <1>2
  <1> HIDE DEF s, r
  <1> QED BY <1>3, <1>4, <1>5 DEF s

(* What is stored of a chain.                                              *)
LEMMA StoredFacts ==
    ASSUME NEW I, I \subseteq IdsOver(I), NEW c \in ChainsOver(I)
    PROVE  /\ StoredOf(c) \in ChainsOver(I) /\ SameShape(StoredOf(c), c)
           /\ \A h \in 1..Len(c) : \A i \in 1..Len(c[h]) : StoredOf(c)[h][i] = AsCreated(c[h][i])
  <1> DEFINE d == StoredOf(c)
             B(h) == [i \in DOMAIN c[h] |-> AsCreated(c[h][i])]
  <1>1. /\ Len(c) \in Nat /\ DOMAIN c = 1..Len(c)
        /\ \A h \in 1..Len(c) : c[h] \in Seq(TxsOver(I)) /\ Len(c[h]) \in Nat
        /\ \A h \in 1..Len(c) : \A i \in 1..Len(c[h]) : c[h][i] \in TxsOver(I)
    BY ChainFacts, PlacesOfSeq DEF ChainsOver
  <1>2. ASSUME NEW h \in 1..Len(c)
        PROVE  /\ B(h) \in Seq(TxsOver(I)) /\ Len(B(h)) = Len(c[h])
               /\ \A i \in 1..Len(c[h]) : B(h)[i] = AsCreated(c[h][i])
    <2>1. DOMAIN c[h] = 1..Len(c[h]) /\ Len(c[h]) \in Nat
      BY <1>1, PlacesOfSeq
    <2>2. \A i \in 1..Len(c[h]) : AsCreated(c[h][i]) \in TxsOver(I)
      BY <1>1, AsCreatedFacts
    <2> QED BY <2>1, <2>2
  <1>3. d = [h \in 1..Len(c) |-> B(h)]
    BY <1>1 DEF StoredOf
  <1> HIDE DEF B
  <1>4. d \in ChainsOver(I) /\ Len(d) = Len(c) /\ \A h \in 1..Len(c) : d[h] = B(h)
    BY <1>1, <1>2, <1>3 DEF ChainsOver
  <1> HIDE DEF d
  <1>5. \A h \in 1..Len(c) : \A i \in 1..Len(c[h]) : d[h][i] = AsCreated(c[h][i])
    BY <1>2, <1>4
  <1>6. SameShape(d, c)
    <2>1. ASSUME NEW h \in 1..Len(c), NEW i \in 1..Len(c[h])
          PROVE  d[h][i].id = c[h][i].id /\ d[h][i].signed = c[h][i].signed
      <3>1. c[h][i] \in TxsOver(I)
        BY <1>1
      <3> QED BY <1>5, <3>1, AsCreatedFacts
    <2> QED BY <1>2, <1>4, <2>1 DEF SameShape
  <1> QED BY <1>4, <1>5, <1>6 DEF d

(* A restart begins with a ledger that has no outputs.                     *)
LEMMA EmptyWorld ==
    ASSUME NEW I, I \subseteq IdsOver(I), NEW c \in ChainsOver(I), NEW d, SameShape(c, d)
    PROVE  World(<<>>, c) \in WorldsOver(I, d)
  <1> DEFINE u == <<>>
  <1>1. DOMAIN u = {} /\ u \in [DOMAIN u -> Entries]
    OBVIOUS
  <1>2. EntriesFit(u) /\ Shares(u, c) /\ DOMAIN u \in SUBSET I
    BY <1>1, FS_EmptySet DEF EntriesFit, Shares
  <1> HIDE DEF u
  <1>3. [ok |-> TRUE, utxo |-> u, chain |-> c] \in WorldsOver(I, d)
    BY <1>1, <1>2, WorldIs
  <1> QED BY <1>3 DEF u, World

(* Storing a chain of c's shape with the block b, as created, more.        *)
LEMMA StoredMore ==
    ASSUME NEW I, I \subseteq IdsOver(I), NEW c \in ChainsOver(I), NEW b \in Seq(TxsOver(I)),
           \A i \in 1..Len(b) : b[i].outs = b[i].id.outs,
           NEW d \in ChainsOver(I), SameShape(d, Append(c, b))
    PROVE  StoredOf(d) = Append(StoredOf(c), b)
  <1> DEFINE l == StoredOf(d)
             k == StoredOf(c)
             r == Append(k, b)
  <1>1. /\ l \in ChainsOver(I) /\ SameShape(l, d) /\ Len(d) \in Nat
        /\ \A h \in 1..Len(d) : \A i \in 1..Len(d[h]) : l[h][i] = AsCreated(d[h][i])
    BY StoredFacts, ChainFacts
  <1>2. /\ k \in ChainsOver(I) /\ SameShape(k, c) /\ Len(c) \in Nat
        /\ \A h \in 1..Len(c) : \A i \in 1..Len(c[h]) : k[h][i] = AsCreated(c[h][i])
    BY StoredFacts, ChainFacts
  <1> DEFINE e == Append(c, b)
  <1>3. /\ e \in ChainsOver(I) /\ Len(e) = Len(c) + 1 /\ e[Len(c) + 1] = b
        /\ \A h \in 1..Len(c) : e[h] = c[h]
    BY MoreChain
  <1> HIDE DEF k
  <1>4. /\ r \in ChainsOver(I) /\ Len(r) = Len(k) + 1 /\ r[Len(k) + 1] = b
        /\ \A h \in 1..Len(k) : r[h] = k[h]
    BY <1>2, MoreChain
  <1> HIDE DEF l, r, e
  <1>5. Len(k) = Len(c) /\ Len(d) = Len(e) /\ Len(l) = Len(d)
    BY <1>1, <1>2 DEF SameShape, e
  <1>6. ASSUME NEW h \in 1..Len(l) PROVE l[h] = r[h]
    <2>1. h \in 1..Len(d) /\ h \in 1..Len(e) /\ h \in 1..Len(r)
      BY <1>3, <1>4, <1>5
    <2>2. /\ Len(l[h]) = Len(d[h]) /\ Len(d[h]) = Len(e[h])
          /\ \A i \in 1..Len(e[h]) : d[h][i].id = e[h][i].id /\ d[h][i].signed = e[h][i].signed
      BY <1>1, <2>1 DEF SameShape, e
    <2>3. ASSUME NEW i \in 1..Len(e[h])
          PROVE  l[h][i] = [id |-> e[h][i].id, outs |-> e[h][i].id.outs, signed |-> e[h][i].signed]
      <3>1. d[h][i] \in TxsOver(I) /\ l[h][i] = AsCreated(d[h][i])
        BY <1>1, <2>1, <2>2, ChainFacts
      <3>2. AsCreated(d[h][i]) =
               [id |-> d[h][i].id, outs |-> d[h][i].id.outs, signed |-> d[h][i].signed]
        BY <3>1, AsCreatedFacts
      <3> QED BY <2>2, <3>1, <3>2
    <2>4. l[h] \in Seq(TxsOver(I)) /\ r[h] \in Seq(TxsOver(I))
      BY <1>1, <1>4, <2>1, ElementIn DEF ChainsOver
    <2>5. CASE h = Len(c) + 1
      <3>1. e[h] = b /\ r[h] = b
        BY <1>3, <1>4, <1>5, <2>5
      <3>2. ASSUME NEW i \in 1..Len(b) PROVE l[h][i] = b[i]
        <4>1. b[i] \in TxsOver(I) /\ b[i].outs = b[i].id.outs
          BY ElementIn
        <4>2. b[i] = [id |-> b[i].id, outs |-> b[i].outs, signed |-> b[i].signed]
          BY <4>1, TxFacts
        <4> QED BY <2>3, <3>1, <4>1, <4>2
      <3>3. Len(l[h]) = Len(r[h]) /\ \A i \in 1..Len(l[h]) : l[h][i] = r[h][i]
        BY <2>2, <3>1, <3>2
      <3> QED BY <2>4, <3>3, SameSeq
    <2>6. CASE h # Len(c) + 1
      <3>1. h \in 1..Len(c) /\ e[h] = c[h] /\ r[h] = k[h]
        BY <1>2, <1>3, <1>4, <1>5, <2>1, <2>6
      <3>2. ASSUME NEW i \in 1..Len(c[h]) PROVE l[h][i] = k[h][i]
        <4>1. c[h][i] \in TxsOver(I) /\ k[h][i] = AsCreated(c[h][i])
          BY <1>2, <3>1, ChainFacts
        <4>2. AsCreated(c[h][i]) =
                 [id |-> c[h][i].id, outs |-> c[h][i].id.outs, signed |-> c[h][i].signed]
          BY <4>1, AsCreatedFacts
        <4> QED BY <2>3, <3>1, <4>1, <4>2
      <3>3. Len(k[h]) = Len(c[h])
        BY <1>2, <3>1 DEF SameShape
      <3>4. Len(l[h]) = Len(r[h]) /\ \A i \in 1..Len(l[h]) : l[h][i] = r[h][i]
        BY <2>2, <3>1, <3>2, <3>3
      <3> QED BY <2>4, <3>4, SameSeq
    <2> QED BY <2>5, <2>6
  <1>7. Len(l) = Len(r)
    BY <1>3, <1>4, <1>5
  <1>8. l = r
    BY <1>1, <1>4, <1>6, <1>7, SameSeq DEF ChainsOver
  <1> QED BY <1>8 DEF l, r, k

(* The replay of the saved chain gives the ledger the node holds.          *)
Agrees == Reloaded = World(utxo, blocks)

(* It does so for the genesis block.                                       *)
LEMMA InitAgrees == ASSUME LedgerAssumption, Init PROVE Agrees
  <1>1. PICK m \in Miners :
           LET t == Coinbase(m, 0)
           IN  /\ blocks = <<<<t>>>>
               /\ {t.id} \subseteq IdsOver({t.id}) /\ blocks \in ChainsOver({t.id})
               /\ UpdateBlock(World(<<>>, blocks), 1) = World(utxo, blocks)
    BY InitFacts
  <1> DEFINE t == Coinbase(m, 0)
             I == {t.id}
             e == World(<<>>, blocks)
  <1>2. /\ blocks = <<<<t>>>> /\ I \subseteq IdsOver(I) /\ blocks \in ChainsOver(I)
        /\ UpdateBlock(e, 1) = World(utxo, blocks)
    BY <1>1
  <1>3. t.outs = t.id.outs /\ t \in TxsOver(I)
    <2>1. m \in Addr /\ 0 \in 0..(MaxHeight - 1) /\ t.id \in I
      BY DEF LedgerAssumption
    <2> HIDE DEF I
    <2> QED BY <2>1, CoinbaseFacts
  <1> HIDE DEF t, I
  <1>4. Len(blocks) = 1 /\ Len(blocks[1]) = 1 /\ blocks[1][1] = t
    BY <1>2
  <1>5. StoredOf(blocks) = blocks
    <2> DEFINE d == StoredOf(blocks)
    <2>1. /\ d \in ChainsOver(I) /\ SameShape(d, blocks)
          /\ \A h \in 1..Len(blocks) : \A i \in 1..Len(blocks[h]) : d[h][i] = AsCreated(blocks[h][i])
      BY <1>2, StoredFacts
    <2>2. AsCreated(t) = t
      BY <1>2, <1>3, AsCreatedFacts
    <2> HIDE DEF d
    <2>3. Len(d) = 1 /\ Len(d[1]) = 1 /\ d[1][1] = t
      BY <1>4, <2>1, <2>2 DEF SameShape
    <2>4. d[1] \in Seq(TxsOver(I)) /\ blocks[1] \in Seq(TxsOver(I))
      BY <1>2, <1>4, <2>1, <2>3, ElementIn DEF ChainsOver
    <2>5. d[1] = blocks[1]
      <3>1. Len(d[1]) = Len(blocks[1]) /\ \A i \in 1..Len(d[1]) : d[1][i] = blocks[1][i]
        BY <1>4, <2>3
      <3> QED BY <2>4, <3>1, SameSeq
    <2>6. Len(d) = Len(blocks) /\ \A h \in 1..Len(d) : d[h] = blocks[h]
      BY <1>4, <2>3, <2>5
    <2>7. d = blocks
      BY <1>2, <2>1, <2>6, SameSeq DEF ChainsOver
    <2> QED BY <2>7 DEF d
  <1>6. e \in WorldsOver(I, blocks)
    <2>1. SameShape(blocks, blocks)
      BY DEF SameShape
    <2> QED BY <1>2, <2>1, EmptyWorld
  <1> HIDE DEF e
  <1>7. Replayed(e, blocks) = ReplayBlock(e, 1)
    <2>1. PICK f : /\ BlocksReplay(f, e, Len(blocks), WorldsOver(I, blocks))
                   /\ Replayed(e, blocks) = f[Len(blocks)]
      BY <1>2, <1>6, ReplayedFacts
    <2>2. f[0] = e /\ f[1] = ReplayBlock(f[1 - 1], 1) /\ 1 - 1 = 0
      BY <1>4, <2>1 DEF BlocksReplay
    <2> QED BY <1>4, <2>1, <2>2
  <1>8. UpdateBlock(e, 1).ok = TRUE
    BY <1>2 DEF World
  <1>9. ReplayBlock(e, 1) = UpdateBlock(e, 1)
    <2>1. PICK h \in 1..Len(blocks) : h = 1
      BY <1>4
    <2>2. /\ I \subseteq IdsOver(I) /\ e \in WorldsOver(I, blocks) /\ h \in 1..Len(blocks)
          /\ UpdateBlock(e, h).ok = TRUE
      BY <1>2, <1>6, <1>8, <2>1
    <2>3. ReplayBlock(e, h) = UpdateBlock(e, h)
      BY Zenon, <2>2, ReplayIsUpdate
    <2> QED BY <2>1, <2>3
  <1>10. Reloaded = Replayed(World(<<>>, blocks), blocks)
    BY <1>5, ReloadIs
  <1> QED BY <1>2, <1>7, <1>9, <1>10 DEF Agrees, e

(* A new block is stored as it was handed over.                            *)
LEMMA BlockAsCreated ==
    ASSUME LedgerAssumption, NEW I, LedgerOver(I), Steady, NEW n \in 0..Len(pending),
           NEW miner \in Miners, Len(blocks) < MaxHeight
    PROVE  LET J == I \cup {Coinbase(miner, Len(blocks)).id}
               b == Candidate(n, miner)
           IN  /\ I \subseteq J /\ J \subseteq IdsOver(J) /\ b \in Seq(TxsOver(J))
               /\ \A i \in 1..Len(b) : b[i].outs = b[i].id.outs
  <1> DEFINE cb == Coinbase(miner, Len(blocks))
             J == I \cup {cb.id}
             b == Candidate(n, miner)
             c == Append(blocks, b)
             h == Len(blocks) + 1
  <1>1. Extended(J, c, n, miner) /\ I \subseteq J
    BY CandidateFacts
  <1>2. Len(blocks) \in 1..MaxHeight /\ blocks \in ChainsOver(I) /\ n \in Nat
    BY DEF LedgerOver
  <1>3. c[h] = b
    <2> HIDE DEF b
    <2> QED BY <1>2, AppendFacts DEF ChainsOver
  <1>4. cb.outs = cb.id.outs
    <2>1. miner \in Addr /\ Len(blocks) \in 0..(MaxHeight - 1) /\ cb.id \in J
      BY <1>2 DEF LedgerAssumption
    <2> HIDE DEF J
    <2> QED BY <2>1, CoinbaseFacts
  <1> HIDE DEF J, c, b
  <1>5. /\ J \subseteq IdsOver(J) /\ c \in ChainsOver(J) /\ Len(c) = h /\ Len(b) = n + 1
        /\ b[1] = cb /\ \A i \in 1..n : b[i + 1] = pending[i]
    <2>1. /\ J \subseteq IdsOver(J) /\ c \in ChainsOver(J) /\ Len(c) = h
          /\ Len(c[h]) = n + 1 /\ c[h][1] = cb /\ \A i \in 1..n : c[h][i + 1] = pending[i]
      BY <1>1 DEF Extended
    <2> QED BY <1>3, <2>1
  <1>6. b \in Seq(TxsOver(J))
    <2>1. h \in 1..Len(c)
      BY <1>2, <1>5
    <2> QED BY <1>3, <1>5, <2>1, ElementIn DEF ChainsOver
  <1> HIDE DEF cb
  <1>7. ASSUME NEW i \in 1..Len(b) PROVE b[i].outs = b[i].id.outs
    <2>1. CASE i = 1
      BY <1>4, <1>5, <2>1
    <2>2. CASE i # 1
      <3>1. i - 1 \in 1..n /\ (i - 1) + 1 = i /\ i - 1 \in 1..Len(pending)
        BY <1>2, <1>5, <2>2
      <3>2. b[i] = pending[i - 1]
        BY <1>5, <3>1
      <3>3. pending[i - 1].outs = pending[i - 1].id.outs
        BY <3>1 DEF Steady, SoundPayment
      <3> QED BY <3>2, <3>3
    <2> QED BY <2>1, <2>2
  <1> QED BY <1>1, <1>5, <1>6, <1>7 DEF J, b, cb

(* The block AddBlock adds replays as it was added.                        *)
LEMMA MineAgrees ==
    ASSUME LedgerAssumption, NEW I, LedgerOver(I), Steady, Agrees, NEW n \in 0..Len(pending),
           NEW miner \in Miners, AddBlock(n, miner)
    PROVE  Agrees'
  <1> DEFINE J == I \cup {Coinbase(miner, Len(blocks)).id}
             b == Candidate(n, miner)
             c == Append(blocks, b)
             w == Updated(b)
             s == Start(n, miner)
             h == Len(blocks) + 1
             e == World(<<>>, StoredOf(blocks))
  <1>1. Len(blocks) < MaxHeight /\ w.ok /\ utxo' = w.utxo /\ blocks' = w.chain
    BY DEF AddBlock, HandOver
  <1>2. Extended(J, c, n, miner) /\ s \in WorldsOver(J, c) /\ w \in WorldsOver(J, c)
    BY <1>1, UpdatedFacts
  <1>3. /\ I \subseteq J /\ J \subseteq IdsOver(J) /\ b \in Seq(TxsOver(J))
        /\ \A i \in 1..Len(b) : b[i].outs = b[i].id.outs
    BY <1>1, BlockAsCreated
  <1>4. w = UpdateBlock(s, h) /\ s = [ok |-> TRUE, utxo |-> utxo, chain |-> c]
    BY DEF Updated, Start, World
  <1>5. Len(blocks) \in Nat /\ blocks \in ChainsOver(I)
    BY DEF LedgerOver
  <1> HIDE DEF J, b, w, s
  <1>6. blocks \in ChainsOver(J)
    BY <1>3, <1>5, MoreIds
  <1>7. Len(c) = h /\ h \in 1..Len(c)
    BY <1>2, <1>5 DEF Extended
  <1> HIDE DEF c
  <1>8. blocks' \in ChainsOver(J) /\ SameShape(blocks', c) /\ SameShape(c, blocks')
    <2>1. w.chain \in ChainsOver(J) /\ SameShape(w.chain, c)
      BY <1>2, WorldFacts
    <2>2. SameShape(c, w.chain)
      BY <2>1 DEF SameShape
    <2> QED BY <1>1, <2>1, <2>2
  <1> DEFINE d == blocks'
  <1>9. StoredOf(d) = Append(StoredOf(blocks), b)
    <2> HIDE DEF d
    <2>1. d \in ChainsOver(J) /\ SameShape(d, Append(blocks, b))
      BY <1>8 DEF c, d
    <2> QED BY <1>3, <1>6, <2>1, StoredMore
  <1>10. /\ e \in WorldsOver(J, blocks)
         /\ More(e, b) = World(<<>>, Append(StoredOf(blocks), b))
    <2>1. StoredOf(blocks) \in ChainsOver(J) /\ SameShape(StoredOf(blocks), blocks)
      BY <1>3, <1>6, StoredFacts
    <2>2. e \in WorldsOver(J, blocks)
      BY <1>3, <2>1, EmptyWorld
    <2>3. e.ok = TRUE /\ e.utxo = <<>> /\ e.chain = StoredOf(blocks)
      BY DEF World
    <2> HIDE DEF e
    <2>4. More(e, b) = [ok |-> e.ok, utxo |-> e.utxo, chain |-> Append(e.chain, b)]
      BY <1>3, <1>6, <2>2, MoreWorld
    <2> QED BY <2>2, <2>3, <2>4 DEF World
  <1>11. Replayed(e, blocks) = World(utxo, blocks)
    BY ReloadIs DEF Agrees
  <1> HIDE DEF e
  <1>12. Replayed(More(e, b), d) = ReplayBlock(More(Replayed(e, blocks), b), Len(blocks) + 1)
    <2> HIDE DEF d
    <2>1. d \in ChainsOver(J) /\ SameShape(Append(blocks, b), d)
      BY <1>8 DEF c, d
    <2> QED BY <1>3, <1>6, <1>10, <2>1, MoreReplay
  <1>13. More(World(utxo, blocks), b) = s
    <2> DEFINE l == World(utxo, blocks)
    <2>1. l = [ok |-> TRUE, utxo |-> utxo, chain |-> blocks]
      BY DEF World
    <2>2. l.ok = TRUE /\ l.utxo = utxo /\ l.chain = blocks
      BY <2>1
    <2>3. l = [ok |-> l.ok, utxo |-> l.utxo, chain |-> l.chain]
      BY <2>1, <2>2
    <2> HIDE DEF l
    <2>4. [l EXCEPT !.chain = Append(blocks, b)] =
             [ok |-> l.ok, utxo |-> l.utxo, chain |-> Append(blocks, b)]
      BY <2>3, WorldEdits
    <2> QED BY <1>4, <2>2, <2>4 DEF More, c, l
  <1>14. ReplayBlock(s, h) = w
    <2>1. UpdateBlock(s, h).ok = TRUE
      <3>1. w.ok \in BOOLEAN
        BY <1>2, WorldFacts
      <3> QED BY <1>1, <1>4, <3>1
    <2> HIDE DEF h
    <2>2. ReplayBlock(s, h) = UpdateBlock(s, h)
      BY <1>2, <1>3, <1>7, <2>1, ReplayIsUpdate
    <2> QED BY <1>4, <2>2
  <1>15. w = World(utxo', blocks')
    <2>1. w = [ok |-> w.ok, utxo |-> w.utxo, chain |-> w.chain] /\ w.ok \in BOOLEAN
      BY <1>2, WorldFacts
    <2> QED BY <1>1, <2>1 DEF World
  <1>16. Reloaded' = Replayed(World(<<>>, StoredOf(blocks')), blocks')
    BY ReloadIsNext
  <1>17. Reloaded' = w
    BY <1>9, <1>10, <1>11, <1>12, <1>13, <1>14, <1>16
  <1> QED BY <1>15, <1>17 DEF Agrees

(* Every step keeps the two alike.                                         *)
LEMMA NextAgrees ==
    ASSUME LedgerAssumption, LedgerOK, Steady, Agrees, [Next]_vars
    PROVE  Agrees'
  <1>1. PICK I : LedgerOver(I)
    BY DEF LedgerOK
  <1>2. ASSUME UNCHANGED <<blocks, utxo>> PROVE Agrees'
    BY <1>2, ReloadIs, ReloadIsNext DEF Agrees
  <1>3. CASE \E pair \in Transfers, amount \in Amounts :
                CreateTransaction(pair[1], pair[2], amount)
    <2>1. UNCHANGED <<blocks, utxo>>
      BY <1>3 DEF CreateTransaction
    <2> QED BY <1>2, <2>1
  <1>4. CASE \E n \in 0..Len(pending), m \in Miners : AddBlock(n, m)
    BY <1>1, <1>4, MineAgrees
  <1>5. CASE Refuses
    BY <1>2, <1>5 DEF Refuses
  <1>6. CASE UNCHANGED vars
    BY <1>2, <1>6 DEF vars
  <1> QED BY <1>1, <1>3, <1>4, <1>5, <1>6, SteadySteps

(* A restart cannot be noticed: replaying the saved blocks, with errors    *)
(* ignored (loadBlockchain, blockchain.go:98), gives the UTXO set that the *)
(* node held when it was stopped and the outputs its blocks showed.        *)
THEOREM ReloadAlwaysAgrees == ASSUME OneAtATime PROVE Spec => []ReloadAgrees
  <1> DEFINE Inv == LedgerOK /\ Steady /\ Agrees
  <1>1. Init => Inv
    BY LedgerAssumption, InitOK, InitSteady, InitAgrees
  <1>2. Inv /\ [Next]_vars => Inv'
    BY LedgerAssumption, NextOK, NextSteady, NextAgrees
  <1>3. Inv => ReloadAgrees
    BY DEF Agrees, ReloadAgrees, World
  <1> QED BY <1>1, <1>2, <1>3, PTL DEF Spec

-----------------------------------------------------------------------------
(* Ids that are taken once. *)

(* Nothing that id spends is among the entries D of a UTXO set.            *)
Gone(D, id) == \A k \in 1..Len(id.ins) : id.ins[k].tx \notin D

(* What the ids in S spend has ids in S, and no other outputs beside it.   *)
Alone(S) ==
    \A id \in S :
        /\ id.label = NotCoinbase => 1 \in 1..Len(id.ins)
        /\ \A k \in 1..Len(id.ins) : id.ins[k].tx \in S /\ Len(id.ins[k].tx.outs) = 1

(* An input that spends one of the entries D, and leaves E; the outputs    *)
(* named last are the entry's, so an entry of one output goes.             *)
TakesFrom(D, E, in) == in.tx \in D /\ (Len(in.tx.outs) = 1 => in.tx \notin E)

(* The update for the transaction id: its entry comes, what it spends goes.*)
Puts(D, E, id) ==
    /\ E \subseteq D \cup {id}
    /\ \A k \in 1..Len(id.ins) : TakesFrom(D, E \ {id}, id.ins[k])

(* The ledger with the entries D before that update: all the ids there have *)
(* been so far are in X, the confirmed ones in C, and what those in S spend *)
(* is spent.                                                               *)
OnceBefore(S, C, X, D, new) ==
    /\ C \subseteq X /\ D \subseteq X
    /\ \A id \in X \cup {new} : \A k \in 1..Len(id.ins) : id.ins[k].tx \in C
    /\ \A id \in S : id \in X => Gone(D, id)
    /\ new \in C /\ new \in S => 1 \in 1..Len(new.ins)

(* The update for new takes what it spends from all there is: nothing that *)
(* has spent it before can have been seen, and the rest stays spent.       *)
LEMMA PutsOnce ==
    ASSUME NEW S, Alone(S), NEW C, NEW X, NEW D, NEW E, NEW new,
           OnceBefore(S, C, X, D, new), Puts(D, E, new)
    PROVE  /\ \A id \in S : id \in X \cup {new} => Gone(E, id)
           /\ new \in S /\ 1 \in 1..Len(new.ins) => new \notin X
  <1>1. ASSUME new \in S, 1 \in 1..Len(new.ins) PROVE new \notin X
    <2>1. new.ins[1].tx \in D
      BY <1>1 DEF Puts, TakesFrom
    <2> QED BY <1>1, <2>1 DEF Gone, OnceBefore
  <1>2. ASSUME NEW id \in S, id \in X \cup {new}, NEW k \in 1..Len(id.ins)
        PROVE  id.ins[k].tx \notin E
    <2> DEFINE y == id.ins[k].tx
    <2>1. y \in C /\ y \in S /\ Len(y.outs) = 1
      BY <1>2 DEF Alone, OnceBefore
    <2>2. y # new
      BY <1>1, <2>1 DEF OnceBefore
    <2>3. CASE id = new
      <3>1. y \notin E \ {new}
        BY <2>1, <2>3 DEF Puts, TakesFrom
      <3> QED BY <2>2, <3>1
    <2>4. CASE id # new
      <3>1. y \notin D
        BY <1>2, <2>4 DEF Gone, OnceBefore
      <3> QED BY <2>2, <3>1 DEF Puts
    <2> QED BY <2>3, <2>4
  <1> QED BY <1>1, <1>2 DEF Gone

(* RemoveUTXO adds no entry, and where it succeeds it takes the output.    *)
LEMMA RemovalTakes ==
    ASSUME NEW I, NEW c, NEW w \in WorldsOver(I, c), NEW in, in.idx \in Nat \ {0}
    PROVE  LET r == RemoveUTXO(w, in)
           IN  /\ DOMAIN r.utxo \subseteq DOMAIN w.utxo
               /\ r.ok => w.ok /\ TakesFrom(DOMAIN w.utxo, DOMAIN r.utxo, in)
  <1> DEFINE r == RemoveUTXO(w, in)
  <1>1. /\ ~w.ok \/ ~HasOutput(w.utxo, in) => r = [w EXCEPT !.ok = FALSE]
        /\ w.ok /\ HasOutput(w.utxo, in) => Removed(w, r, in)
    BY RemoveUTXOFacts
  <1> HIDE DEF r
  <1>2. CASE ~w.ok \/ ~HasOutput(w.utxo, in)
    <2>1. w = [ok |-> w.ok, utxo |-> w.utxo, chain |-> w.chain]
      BY WorldFacts
    <2>2. r.ok = FALSE /\ r.utxo = w.utxo
      BY <1>1, <1>2, <2>1
    <2> QED BY <2>2 DEF r
  <1>3. CASE w.ok /\ HasOutput(w.utxo, in)
    <2> DEFINE outs == w.utxo[in.tx].outs
               kept == RemoveAt(outs, in.idx)
    <2>1. /\ in.tx \in DOMAIN w.utxo /\ outs \in Seq(Output) /\ Len(outs) \in Nat
          /\ Len(outs) <= Len(in.tx.outs) /\ in.idx \in 1..Len(outs)
      <3>1. in.tx \in DOMAIN w.utxo /\ in.idx <= Len(outs)
        BY <1>3 DEF HasOutput
      <3>2. /\ outs \in Seq(Output) /\ Len(outs) \in Nat
            /\ Len(outs) <= Len(in.tx.outs)
        BY <3>1, WorldFacts
      <3> QED BY <3>1, <3>2
    <2>2. DOMAIN r.utxo = IF kept = <<>> THEN DOMAIN w.utxo \ {in.tx} ELSE DOMAIN w.utxo
      BY <1>1, <1>3 DEF Removed
    <2>3. Len(in.tx.outs) = 1 => kept = <<>>
      <3> HIDE DEF outs
      <3>1. kept \in Seq(Output) /\ Len(kept) = Len(outs) - 1
        BY <2>1, RemoveAtFacts
      <3> HIDE DEF kept
      <3> QED BY <2>1, <3>1
    <2> HIDE DEF kept
    <2> QED BY <1>3, <2>1, <2>2, <2>3 DEF TakesFrom, r
  <1> QED BY <1>2, <1>3

(* So it is for all the inputs of a transaction.                           *)
LEMMA RemovalsTake ==
    ASSUME NEW I, NEW c, NEW w, NEW n \in Nat, NEW ins,
           \A k \in 1..n : ins[k].idx \in Nat \ {0},
           NEW g, Removals(g, w, ins, n, WorldsOver(I, c))
    PROVE  /\ DOMAIN g[n].utxo \subseteq DOMAIN w.utxo
           /\ g[n].ok => \A k \in 1..n : TakesFrom(DOMAIN w.utxo, DOMAIN g[n].utxo, ins[k])
  <1> DEFINE V == WorldsOver(I, c)
             D(m) == DOMAIN g[m].utxo
             Good(m) == /\ D(m) \subseteq DOMAIN w.utxo
                        /\ g[m].ok => \A k \in 1..m : TakesFrom(DOMAIN w.utxo, D(m), ins[k])
             S == {m \in Nat : m <= n => Good(m)}
  <1>1. /\ g \in [0..n -> V] /\ g[0] = w
        /\ \A k \in 1..n : g[k] = RemoveUTXO(g[k - 1], ins[k])
    BY DEF Removals
  <1>2. Good(0)
    BY <1>1
  <1>3. ASSUME NEW m \in Nat, m + 1 <= n, Good(m) PROVE Good(m + 1)
    <2>1. m + 1 \in 1..n /\ (m + 1) - 1 = m /\ m \in 0..n
      BY <1>3
    <2>2. g[m] \in V /\ g[m + 1] = RemoveUTXO(g[m], ins[m + 1]) /\ ins[m + 1].idx \in Nat \ {0}
      <3> HIDE DEF V
      <3> QED BY <1>1, <2>1
    <2>3. /\ D(m + 1) \subseteq D(m)
          /\ g[m + 1].ok => g[m].ok /\ TakesFrom(D(m), D(m + 1), ins[m + 1])
      BY <2>2, RemovalTakes
    <2> HIDE DEF D, V
    <2>4. ASSUME g[m + 1].ok, NEW k \in 1..(m + 1)
          PROVE  TakesFrom(DOMAIN w.utxo, D(m + 1), ins[k])
      <3>1. CASE k = m + 1
        BY <1>3, <2>3, <2>4, <3>1 DEF TakesFrom
      <3>2. CASE k # m + 1
        <4>1. k \in 1..m
          BY <3>2
        <4> QED BY <1>3, <2>3, <2>4, <4>1 DEF TakesFrom
      <3> QED BY <3>1, <3>2
    <2> QED BY <1>3, <2>3, <2>4
  <1> HIDE DEF Good
  <1>4. ASSUME NEW m \in Nat, m \in S PROVE m + 1 \in S
    <2>1. ASSUME m + 1 <= n PROVE Good(m + 1)
      BY <1>3, <1>4, <2>1
    <2> QED BY <2>1
  <1>5. 0 \in S
    BY <1>2
  <1> HIDE DEF S
  <1>6. n \in S
    BY <1>4, <1>5, Induction
  <1> QED BY <1>6 DEF S, Good

(* What an update does to the entries of the set: where it succeeds, the   *)
(* transaction takes what it spends; where it fails, none is new.          *)
LEMMA UpdatePuts ==
    ASSUME NEW I, I \subseteq IdsOver(I), NEW c, NEW w \in WorldsOver(I, c),
           NEW at \in PlacesIn(w.chain)
    PROVE  LET r == Update(w, at)
           IN  IF r.ok THEN Puts(DOMAIN w.utxo, DOMAIN r.utxo, TxAt(w.chain, at).id)
               ELSE DOMAIN r.utxo \subseteq DOMAIN w.utxo
  <1> DEFINE V == WorldsOver(I, c)
             r == Update(w, at)
             t == TxAt(w.chain, at)
             ins == t.id.ins
             n == Len(ins)
  <1>1. r \in V /\ UpdatedBy(w, r, at, V)
    BY UpdateFacts
  <1>2. t \in TxsOver(I)
    BY WorldFacts, ChainFacts
  <1>3. ins \in Seq(InputsOver(I))
    <2> HIDE DEF t
    <2> QED BY <1>2, TxFacts
  <1> HIDE DEF r, t
  <1>4. PICK g : /\ Removals(g, w, ins, n, V)
                 /\ IF g[n].ok THEN Added(g[n], r, at) ELSE r = g[n]
    BY <1>1 DEF UpdatedBy, t
  <1> HIDE DEF ins
  <1>5. n \in Nat /\ \A k \in 1..n : ins[k].idx \in Nat \ {0}
    <2>1. \A k \in 1..n : ins[k] \in InputsOver(I)
      BY <1>3, ElementIn
    <2> QED BY <1>3, <2>1 DEF InputsOver
  <1> HIDE DEF n
  <1>6. /\ DOMAIN g[n].utxo \subseteq DOMAIN w.utxo
        /\ g[n].ok => \A k \in 1..n : TakesFrom(DOMAIN w.utxo, DOMAIN g[n].utxo, ins[k])
    BY <1>4, <1>5, RemovalsTake
  <1>7. CASE g[n].ok
    <2>1. g[n] \in V /\ n \in 0..n
      BY <1>4, <1>5 DEF Removals
    <2>2. TxAt(g[n].chain, at).id = t.id
      <3>1. SameShape(g[n].chain, c) /\ SameShape(w.chain, c)
        BY <2>1, WorldFacts
      <3>2. /\ PlacesIn(w.chain) = PlacesIn(c) /\ TxAt(g[n].chain, at).id = TxAt(c, at).id
            /\ TxAt(w.chain, at).id = TxAt(c, at).id
        BY <3>1, ShapeFacts
      <3> QED BY <3>2 DEF t
    <2>3. r.ok = g[n].ok /\ DOMAIN r.utxo = DOMAIN g[n].utxo \cup {t.id}
      BY <1>4, <1>7, <2>2 DEF Added
    <2>4. Puts(DOMAIN w.utxo, DOMAIN r.utxo, t.id)
      BY <1>6, <1>7, <2>3 DEF Puts, TakesFrom, ins, n
    <2> QED BY <1>7, <2>3, <2>4 DEF r, t
  <1>8. CASE ~g[n].ok
    BY <1>4, <1>6, <1>8 DEF r
  <1> QED BY <1>7, <1>8

(* The ids in the chain, and with them those the set has an entry of: that *)
(* of a block that was dropped may be there alone.                         *)
ConfirmedIds == {TxAt(blocks, p).id : p \in PlacesIn(blocks)}

Known == ConfirmedIds \cup DOMAIN utxo

(* What is known spends what is confirmed, a reward tells its block, and   *)
(* what waits is no reward.                                                *)
Rooted ==
    /\ \A id \in Known : \A k \in 1..Len(id.ins) : id.ins[k].tx \in ConfirmedIds
    /\ \A id \in ConfirmedIds : id.label < Len(blocks)
    /\ \A k \in 1..Len(pending) : pending[k].id.label = NotCoinbase

(* What the ids in S spend is spent, and none of them is confirmed twice.  *)
Once(S) ==
    /\ \A id \in S : id \in Known => Gone(DOMAIN utxo, id)
    /\ \A p, q \in PlacesIn(blocks) :
          TxAt(blocks, p).id = TxAt(blocks, q).id /\ TxAt(blocks, p).id \in S => p = q

History == Rooted /\ \A S : Alone(S) => Once(S)

(* The ids of the block that AddBlock builds for a miner.                  *)
Handed(miner, i) ==
    IF i = 1 THEN Coinbase(miner, Len(blocks)).id ELSE pending[i - 1].id

Seen(miner, m) == Known \cup {Handed(miner, i) : i \in 1..m}

(* The first m of them are new, and differ, as far as they are in S.       *)
Fresh(S, miner, m) ==
    \A i \in 1..m : Handed(miner, i) \in S =>
        /\ Handed(miner, i) \notin ConfirmedIds
        /\ \A j \in 1..m : Handed(miner, i) = Handed(miner, j) => i = j

(* The ledger w that the first m updates for the block have led to.        *)
OnceAfter(S, miner, m, w) ==
    /\ DOMAIN w.utxo \subseteq Seen(miner, m)
    /\ IF w.ok
       THEN /\ \A id \in S : id \in Seen(miner, m) => Gone(DOMAIN w.utxo, id)
            /\ Fresh(S, miner, m)
       ELSE \A id \in S : id \in Known \cup DOMAIN w.utxo => Gone(DOMAIN w.utxo, id)

(* The ids of a block: the reward's is new, and the payments spend what is *)
(* confirmed.                                                              *)
LEMMA HandedFacts ==
    ASSUME LedgerAssumption, NEW I, LedgerOver(I), Rooted, NEW n \in 0..Len(pending),
           NEW miner \in Miners, Len(blocks) < MaxHeight, NEW i \in 1..(n + 1)
    PROVE  /\ \A k \in 1..Len(Handed(miner, i).ins) : Handed(miner, i).ins[k].tx \in ConfirmedIds
           /\ i # 1 => Handed(miner, i).label = NotCoinbase /\ Handed(miner, i) = pending[i - 1].id
           /\ i = 1 => Handed(miner, i) \notin ConfirmedIds
           /\ Handed(miner, i).label < Len(blocks) + 1
  <1>1. /\ Len(blocks) \in Nat /\ Len(blocks) >= 1 /\ Len(pending) \in Nat /\ n \in Nat
        /\ \A k \in 1..Len(pending) : \A j \in 1..Len(pending[k].id.ins) :
              Names(blocks, pending[k].id.ins[j])
    BY DEF LedgerOver
  <1>2. CASE i = 1
    <2> DEFINE cb == Coinbase(miner, Len(blocks)).id
    <2>1. cb.ins = <<>> /\ cb.label = Len(blocks)
      BY DEF Coinbase, NewTx, Hash
    <2> HIDE DEF cb
    <2>2. Handed(miner, i) = cb
      BY <1>2 DEF Handed, cb
    <2>3. cb \notin ConfirmedIds
      BY <1>1, <2>1 DEF Rooted
    <2>4. Len(cb.ins) = 0
      BY <2>1
    <2> QED BY <1>1, <1>2, <2>1, <2>2, <2>3, <2>4
  <1>3. CASE i # 1
    <2> DEFINE j == i - 1
               id == pending[j].id
    <2>1. j \in 1..Len(pending) /\ Handed(miner, i) = id
      BY <1>1, <1>3 DEF Handed
    <2>2. id.label = NotCoinbase /\ NotCoinbase = -1
      BY <2>1 DEF Rooted, NotCoinbase
    <2>3. ASSUME NEW k \in 1..Len(id.ins) PROVE id.ins[k].tx \in ConfirmedIds
      <3>1. Names(blocks, id.ins[k])
        BY <1>1, <2>1, <2>3
      <3> QED BY <3>1 DEF Names, ConfirmedIds
    <2> QED BY <1>1, <1>3, <2>1, <2>2, <2>3
  <1> QED BY <1>2, <1>3

(* One more update for the block.                                          *)
LEMMA OnceStep ==
    ASSUME LedgerAssumption, NEW I, LedgerOver(I), Rooted, NEW n \in 0..Len(pending),
           NEW miner \in Miners, Len(blocks) < MaxHeight,
           NEW S, Alone(S), NEW m \in 0..n,
           NEW w, w.ok, OnceAfter(S, miner, m, w), NEW r,
           IF r.ok THEN Puts(DOMAIN w.utxo, DOMAIN r.utxo, Handed(miner, m + 1))
           ELSE DOMAIN r.utxo \subseteq DOMAIN w.utxo
    PROVE  OnceAfter(S, miner, m + 1, r)
  <1> DEFINE D == DOMAIN w.utxo
             E == DOMAIN r.utxo
             new == Handed(miner, m + 1)
             X == Seen(miner, m)
             Y == Seen(miner, m + 1)
  <1>1. D \subseteq X /\ (\A id \in S : id \in X => Gone(D, id)) /\ Fresh(S, miner, m)
    BY DEF OnceAfter
  <1>2. /\ m \in Nat /\ n \in Nat /\ m + 1 \in 1..(n + 1)
        /\ \A i \in 1..(m + 1) : i \in 1..(n + 1) /\ (i \in 1..m \/ i = m + 1)
        /\ \A i \in 1..m : i \in 1..(m + 1) /\ i # m + 1
        /\ m + 1 \in 1..(m + 1)
    <2>1. Len(pending) \in Nat
      BY DEF LedgerOver
    <2> QED BY <2>1
  <1>3. Y = X \cup {new}
    BY <1>2 DEF Seen
  <1>4. \A i \in 1..(m + 1) :
           /\ \A k \in 1..Len(Handed(miner, i).ins) : Handed(miner, i).ins[k].tx \in ConfirmedIds
           /\ i # 1 => Handed(miner, i).label = NotCoinbase
           /\ i = 1 => Handed(miner, i) \notin ConfirmedIds
    BY <1>2, HandedFacts
  <1>5. ConfirmedIds \subseteq X /\ \A id \in Y : \A k \in 1..Len(id.ins) : id.ins[k].tx \in ConfirmedIds
    BY <1>4 DEF Seen, Known, Rooted
  <1> HIDE DEF Y, X, new
  <1>6. CASE ~r.ok
    <2>1. E \subseteq D
      BY <1>6
    <2>2. \A id \in S : id \in Known \cup E => Gone(E, id)
      <3>1. Known \cup E \subseteq X
        BY <1>1, <2>1 DEF X, Seen
      <3>2. \A id \in S : id \in X => Gone(E, id)
        BY <1>1, <2>1 DEF Gone
      <3> QED BY <3>1, <3>2
    <2> QED BY <1>1, <1>3, <1>6, <2>1, <2>2 DEF OnceAfter, Y
  <1>7. CASE r.ok
    <2>1. Puts(D, E, new)
      BY <1>7 DEF new
    <2>2. new \in S /\ 1 \notin 1..Len(new.ins) => m + 1 = 1
      BY <1>2, <1>4 DEF new, Alone
    <2>3. new \in ConfirmedIds /\ new \in S => 1 \in 1..Len(new.ins)
      BY <1>2, <1>4, <2>2 DEF new
    <2> HIDE DEF D, E
    <2>4. /\ \A id \in S : id \in X \cup {new} => Gone(E, id)
          /\ new \in S /\ 1 \in 1..Len(new.ins) => new \notin X
      <3>1. \A id \in X \cup {new} : \A k \in 1..Len(id.ins) : id.ins[k].tx \in ConfirmedIds
        BY <1>3, <1>5
      <3>2. ConfirmedIds \subseteq X /\ D \subseteq X
        BY <1>1, <1>5 DEF D
      <3>3. \A id \in S : id \in X => Gone(D, id)
        BY <1>1 DEF D
      <3>4. OnceBefore(S, ConfirmedIds, X, D, new)
        BY <2>3, <3>1, <3>2, <3>3 DEF OnceBefore
      <3> QED BY <2>1, <3>4, PutsOnce
    <2>5. Fresh(S, miner, m + 1)
      <3> SUFFICES ASSUME NEW i \in 1..(m + 1), Handed(miner, i) \in S
                   PROVE  /\ Handed(miner, i) \notin ConfirmedIds
                          /\ \A j \in 1..(m + 1) : Handed(miner, i) = Handed(miner, j) => i = j
        BY DEF Fresh
      <3>1. \A j \in 1..m : Handed(miner, j) \in X
        BY DEF X, Seen
      <3>2. new \in S => \A j \in 1..m : Handed(miner, j) # new
        <4>1. CASE 1 \in 1..Len(new.ins)
          BY <2>4, <3>1, <4>1
        <4>2. CASE 1 \notin 1..Len(new.ins)
          BY <1>2, <2>2, <4>2
        <4> QED BY <4>1, <4>2
      <3>3. CASE i = m + 1
        <4>1. new \in S /\ Handed(miner, i) = new
          BY <3>3 DEF new
        <4>2. new \notin ConfirmedIds
          BY <1>2, <1>4, <1>5, <2>2, <2>4, <4>1 DEF new
        <4> QED BY <1>2, <3>2, <3>3, <4>1, <4>2
      <3>4. CASE i \in 1..m
        <4>1. /\ Handed(miner, i) \notin ConfirmedIds
              /\ \A j \in 1..m : Handed(miner, i) = Handed(miner, j) => i = j
          BY <1>1, <3>4 DEF Fresh
        <4>2. Handed(miner, i) # Handed(miner, m + 1)
          BY <3>2, <3>4 DEF new
        <4> QED BY <1>2, <4>1, <4>2
      <3> QED BY <1>2, <3>3, <3>4
    <2>6. E \subseteq Y
      BY <1>1, <1>3, <2>1 DEF Puts, D
    <2> QED BY <1>3, <1>7, <2>4, <2>5, <2>6 DEF OnceAfter, Y, E
  <1> QED BY <1>6, <1>7

(* All the updates for the block.                                          *)
LEMMA BlockOnce ==
    ASSUME LedgerAssumption, NEW I, LedgerOver(I), History, NEW n \in 0..Len(pending),
           NEW miner \in Miners, Len(blocks) < MaxHeight, NEW S, Alone(S)
    PROVE  OnceAfter(S, miner, n + 1, Updated(Candidate(n, miner)))
  <1> DEFINE J == I \cup {Coinbase(miner, Len(blocks)).id}
             c == Append(blocks, Candidate(n, miner))
             s == Start(n, miner)
             h == Len(blocks) + 1
             V == WorldsOver(J, c)
  <1>1. Extended(J, c, n, miner) /\ s \in V
    BY UpdatedFacts
  <1>2. PICK f : Updates(f, s, h, n + 1, V) /\ Updated(Candidate(n, miner)) = f[n + 1]
    BY UpdatedFacts
  <1>3. s.ok = TRUE /\ s.utxo = utxo
    BY DEF Start, World
  <1> HIDE DEF J, c, s
  <1>4. /\ J \subseteq IdsOver(J) /\ Len(c) = h /\ h \in 1..Len(c) /\ Len(c[h]) = n + 1
        /\ c[h][1].id = Coinbase(miner, Len(blocks)).id
        /\ \A i \in 1..n : c[h][i + 1] = pending[i]
        /\ n \in Nat
    <2>1. Len(blocks) \in Nat /\ n \in Nat
      BY DEF LedgerOver
    <2> QED BY <1>1, <2>1 DEF Extended
  <1> HIDE DEF h, V
  <1>5. /\ f \in [0..(n + 1) -> V] /\ f[0] = s
        /\ \A m \in 1..(n + 1) : f[m] = UpdateNext(f[m - 1], <<h, m>>)
    BY <1>2 DEF Updates
  <1>6. \A m \in 1..(n + 1) : c[h][m].id = Handed(miner, m)
    <2> SUFFICES ASSUME NEW m \in 1..(n + 1) PROVE c[h][m].id = Handed(miner, m)
      OBVIOUS
    <2>1. CASE m = 1
      BY <1>4, <2>1 DEF Handed
    <2>2. CASE m # 1
      <3>1. m - 1 \in 1..n /\ (m - 1) + 1 = m
        BY <1>4, <2>2
      <3> QED BY <1>4, <2>2, <3>1 DEF Handed
    <2> QED BY <2>1, <2>2
  <1>7. Rooted /\ Once(S)
    BY DEF History
  <1> DEFINE Good(m) == OnceAfter(S, miner, m, f[m])
             T == {m \in Nat : m <= n + 1 => Good(m)}
  <1>8. Good(0)
    <2>1. Seen(miner, 0) = Known
      BY DEF Seen
    <2>2. Fresh(S, miner, 0)
      BY DEF Fresh
    <2> QED BY <1>3, <1>5, <1>7, <2>1, <2>2 DEF OnceAfter, Once, Known
  <1>9. ASSUME NEW m \in Nat, m + 1 <= n + 1, Good(m) PROVE Good(m + 1)
    <2> DEFINE w == f[m]
               r == f[m + 1]
               at == <<h, m + 1>>
    <2>1. m + 1 \in 1..(n + 1) /\ (m + 1) - 1 = m /\ m \in 0..(n + 1) /\ m \in 0..n
      BY <1>4, <1>9
    <2>2. w \in V /\ r = UpdateNext(w, at) /\ OnceAfter(S, miner, m, w)
      BY <1>5, <1>9, <2>1
    <2> HIDE DEF w, r
    <2>3. CASE ~w.ok
      <3>1. r = w
        BY <2>2, <2>3 DEF UpdateNext
      <3>2. Seen(miner, m) \subseteq Seen(miner, m + 1)
        BY <2>1 DEF Seen
      <3> QED BY <2>2, <2>3, <3>1, <3>2 DEF OnceAfter, r
    <2>4. CASE w.ok
      <3>1. r = Update(w, at)
        BY <2>2, <2>4 DEF UpdateNext
      <3>2. at \in PlacesIn(w.chain) /\ TxAt(w.chain, at).id = Handed(miner, m + 1)
        <4>1. at \in PlacesIn(c) /\ TxAt(c, at) = c[h][m + 1]
          BY <1>4, <2>1 DEF PlacesIn, TxAt
        <4>2. SameShape(w.chain, c)
          BY <2>2, WorldFacts DEF V
        <4> QED BY <1>6, <2>1, <4>1, <4>2, ShapeFacts
      <3> HIDE DEF at
      <3>3. IF r.ok THEN Puts(DOMAIN w.utxo, DOMAIN r.utxo, Handed(miner, m + 1))
            ELSE DOMAIN r.utxo \subseteq DOMAIN w.utxo
        <4>1. J \subseteq IdsOver(J) /\ w \in WorldsOver(J, c) /\ at \in PlacesIn(w.chain)
          BY <1>4, <2>2, <3>2 DEF V
        <4>2. IF Update(w, at).ok
              THEN Puts(DOMAIN w.utxo, DOMAIN Update(w, at).utxo, TxAt(w.chain, at).id)
              ELSE DOMAIN Update(w, at).utxo \subseteq DOMAIN w.utxo
          BY <4>1, UpdatePuts
        <4> QED BY <3>1, <3>2, <4>2
      <3>4. OnceAfter(S, miner, m + 1, r)
        BY <1>7, <2>1, <2>2, <2>4, <3>3, OnceStep
      <3> QED BY <3>4 DEF r
    <2> QED BY <2>3, <2>4
  <1> HIDE DEF Good
  <1>10. ASSUME NEW m \in Nat, m \in T PROVE m + 1 \in T
    <2>1. ASSUME m + 1 <= n + 1 PROVE Good(m + 1)
      BY <1>4, <1>10, <1>9, <2>1
    <2> QED BY <2>1
  <1>11. 0 \in T
    BY <1>8
  <1> HIDE DEF T
  <1>12. n + 1 \in T
    BY <1>4, <1>10, <1>11, Induction
  <1> QED BY <1>2, <1>4, <1>12 DEF T, Good

(* The history begins with the reward of the genesis block.                *)
LEMMA InitHistory == ASSUME LedgerAssumption, Init PROVE History
  <1>1. PICK m \in Miners :
           LET t == Coinbase(m, 0)
           IN  /\ blocks = <<<<t>>>> /\ pending = <<>> /\ DOMAIN utxo = {t.id}
    BY InitFacts
  <1> DEFINE t == Coinbase(m, 0)
  <1>2. t.id.ins = <<>> /\ t.id.label = 0
    BY DEF Coinbase, NewTx, Hash
  <1> HIDE DEF t
  <1>3. blocks = <<<<t>>>> /\ pending = <<>> /\ DOMAIN utxo = {t.id}
    BY <1>1 DEF t
  <1>4. PlacesIn(blocks) = {<<1, 1>>} /\ TxAt(blocks, <<1, 1>>) = t
    <2>1. Len(blocks) = 1 /\ Len(blocks[1]) = 1 /\ blocks[1][1] = t
      BY <1>3
    <2>2. \A p \in PlacesIn(blocks) : p = <<1, 1>>
      <3> SUFFICES ASSUME NEW p \in PlacesIn(blocks) PROVE p = <<1, 1>>
        OBVIOUS
      <3>1. p \in Nat \X Nat /\ p[1] = 1
        BY <2>1 DEF PlacesIn
      <3>2. p[2] \in 1..Len(blocks[1])
        BY <3>1 DEF PlacesIn
      <3>3. p[2] = 1
        BY <2>1, <3>2
      <3> QED BY <3>1, <3>3
    <2>3. <<1, 1>> \in PlacesIn(blocks)
      BY <2>1 DEF PlacesIn
    <2> QED BY <2>1, <2>2, <2>3 DEF TxAt
  <1>5. ConfirmedIds = {t.id} /\ Known = {t.id}
    BY <1>3, <1>4 DEF ConfirmedIds, Known
  <1>6. Len(t.id.ins) = 0 /\ Len(pending) = 0 /\ Len(blocks) = 1
    BY <1>2, <1>3
  <1>7. Rooted
    BY <1>2, <1>5, <1>6 DEF Rooted
  <1>8. \A S : Once(S)
    BY <1>4, <1>5, <1>6 DEF Once, Gone
  <1> QED BY <1>7, <1>8 DEF History

(* A payment is no reward, and is not known before it is mined.            *)
LEMMA CreateHistory ==
    ASSUME LedgerAssumption, NEW I, LedgerOver(I), History,
           NEW pair \in Transfers, NEW amount \in Amounts,
           CreateTransaction(pair[1], pair[2], amount)
    PROVE  History'
  <1>1. PICK found \in FindSpendableOutputs(pair[1], amount) :
           \E ins, splits : Creates(I, found, ins, splits, pair[1], pair[2], amount)
    BY CreateFacts
  <1>2. PICK ins, splits : Creates(I, found, ins, splits, pair[1], pair[2], amount)
    BY <1>1
  <1> DEFINE t == Payment(ins, splits, found, pair[1], pair[2], amount)
             J == I \cup {t.id}
  <1>3. /\ InOrder(ins, found) /\ pending' = Append(pending, t)
        /\ t.id.ins = ins /\ t.id.label = NotCoinbase /\ t \in TxsOver(J)
    BY <1>2 DEF Creates
  <1> HIDE DEF t
  <1>6. UNCHANGED <<blocks, utxo>>
    BY DEF CreateTransaction
  <1>7. /\ Len(pending') = Len(pending) + 1 /\ Len(pending) \in Nat
        /\ \A k \in 1..Len(pending) : pending'[k] = pending[k]
        /\ pending'[Len(pending) + 1] = t
    <2>1. Seq(TxsOver(I)) \subseteq Seq(TxsOver(J))
      <3>1. I \subseteq J
        OBVIOUS
      <3> HIDE DEF J
      <3> QED BY <3>1, MoreIds
    <2>2. pending \in Seq(TxsOver(J))
      BY <2>1 DEF LedgerOver
    <2> HIDE DEF J
    <2> QED BY <1>3, <2>2, AppendFacts
  <1>8. /\ ConfirmedIds' = ConfirmedIds /\ Known' = Known
        /\ \A S : Once(S)' = Once(S)
    BY <1>6 DEF ConfirmedIds, Known, Once
  <1>9. ASSUME NEW k \in 1..Len(pending')
        PROVE  pending'[k].id.label = NotCoinbase
    <2>1. CASE k \in 1..Len(pending)
      BY <1>7, <2>1 DEF History, Rooted
    <2>2. CASE k = Len(pending) + 1
      BY <1>3, <1>7, <2>2
    <2> QED BY <1>7, <2>1, <2>2
  <1>10. Rooted'
    BY <1>6, <1>8, <1>9 DEF History, Rooted
  <1>11. \A S : Alone(S) => Once(S)'
    BY <1>8 DEF History
  <1> QED BY <1>10, <1>11 DEF History

(* A rejected block has left no trace.                                     *)
LEMMA RejectHistory ==
    ASSUME LedgerAssumption, NEW I, LedgerOver(I), History,
           NEW n \in 0..Len(pending), RejectBlock(n)
    PROVE  History'
  <1>1. HandOver(n) /\ UNCHANGED <<blocks, utxo>>
    BY DEF RejectBlock
  <1>2. /\ Len(pending') = Len(pending) - n /\ Len(pending) \in Nat
        /\ \A k \in 1..Len(pending') : pending'[k] = pending[n + k]
    BY <1>1, HandedOver
  <1>3. /\ ConfirmedIds' = ConfirmedIds /\ Known' = Known
        /\ \A S : Once(S)' = Once(S)
    BY <1>1 DEF ConfirmedIds, Known, Once
  <1>4. \A k \in 1..Len(pending') : n + k \in 1..Len(pending)
    BY <1>2
  <1>5. Rooted'
    BY <1>1, <1>2, <1>3, <1>4 DEF History, Rooted
  <1>6. \A S : Alone(S) => Once(S)'
    BY <1>3 DEF History
  <1> QED BY <1>5, <1>6 DEF History

(* The ids of a block that was added were new, as far as they stand alone. *)
LEMMA AddHistory ==
    ASSUME LedgerAssumption, NEW I, LedgerOver(I), History, NEW n \in 0..Len(pending),
           NEW miner \in Miners, AddBlock(n, miner)
    PROVE  History'
  <1> DEFINE w == Updated(Candidate(n, miner))
             h == Len(blocks) + 1
  <1>1. HandOver(n) /\ Len(blocks) < MaxHeight /\ w.ok /\ utxo' = w.utxo
    BY DEF AddBlock, HandOver
  <1>2. \A S : Alone(S) => OnceAfter(S, miner, n + 1, w)
    BY <1>1, BlockOnce
  <1> HIDE DEF w
  <1>3. OneMore(n, Coinbase(miner, Len(blocks)))
    BY OneMoreBlock
  <1>4. /\ Len(blocks) \in Nat /\ n \in Nat /\ Len(blocks') = h
        /\ PlacesIn(blocks) \subseteq PlacesIn(blocks')
        /\ \A p \in PlacesIn(blocks') :
              p \in PlacesIn(blocks) \/ \E j \in 1..(n + 1) : p = <<h, j>>
        /\ \A p \in PlacesIn(blocks) : TxAt(blocks', p).id = TxAt(blocks, p).id
        /\ Len(blocks'[h]) = n + 1
    BY <1>3 DEF OneMore
  <1>5. ASSUME NEW j \in 1..(n + 1)
        PROVE  <<h, j>> \in PlacesIn(blocks') /\ TxAt(blocks', <<h, j>>).id = Handed(miner, j)
    <2>1. <<h, j>> \in PlacesIn(blocks')
      BY <1>4 DEF PlacesIn
    <2>2. CASE j = 1
      BY <1>3, <2>1, <2>2 DEF OneMore, Handed, TxAt
    <2>3. CASE j # 1
      <3>1. j - 1 \in 1..n /\ (j - 1) + 1 = j
        BY <1>4, <2>3
      <3> QED BY <1>3, <2>1, <2>3, <3>1 DEF OneMore, Handed, TxAt
    <2> QED BY <2>2, <2>3
  <1> HIDE DEF h
  <1>6. ConfirmedIds' = ConfirmedIds \cup {Handed(miner, i) : i \in 1..(n + 1)}
    <2>1. ASSUME NEW p \in PlacesIn(blocks')
          PROVE  TxAt(blocks', p).id \in ConfirmedIds \cup {Handed(miner, i) : i \in 1..(n + 1)}
      BY <1>4, <1>5 DEF ConfirmedIds
    <2>2. ASSUME NEW p \in PlacesIn(blocks) PROVE TxAt(blocks, p).id \in ConfirmedIds'
      BY <1>4 DEF ConfirmedIds
    <2>3. ASSUME NEW i \in 1..(n + 1) PROVE Handed(miner, i) \in ConfirmedIds'
      BY <1>5 DEF ConfirmedIds
    <2> QED BY <2>1, <2>2, <2>3 DEF ConfirmedIds
  <1>7. DOMAIN w.utxo \subseteq Seen(miner, n + 1) /\ Known' \subseteq Seen(miner, n + 1)
    <2>1. PICK S : S = {}
      OBVIOUS
    <2>2. Alone(S)
      BY <2>1 DEF Alone
    <2>3. DOMAIN w.utxo \subseteq Seen(miner, n + 1)
      BY <1>2, <2>2 DEF OnceAfter
    <2> QED BY <1>1, <1>6, <2>3 DEF Known, Seen
  <1>8. \A i \in 1..(n + 1) :
           /\ \A k \in 1..Len(Handed(miner, i).ins) : Handed(miner, i).ins[k].tx \in ConfirmedIds
           /\ Handed(miner, i).label < Len(blocks) + 1
    BY <1>1, HandedFacts DEF History
  <1>9. /\ Len(pending') = Len(pending) - n /\ Len(pending) \in Nat
        /\ \A k \in 1..Len(pending') : pending'[k] = pending[n + k]
    BY <1>1, <1>4, HandedOver
  <1>10. Rooted'
    <2>1. ASSUME NEW id \in Known', NEW k \in 1..Len(id.ins) PROVE id.ins[k].tx \in ConfirmedIds'
      BY <1>6, <1>7, <1>8 DEF Seen, History, Rooted
    <2>2. ASSUME NEW id \in ConfirmedIds' PROVE id.label < Len(blocks')
      <3>1. CASE id \in ConfirmedIds
        <4>1. id.label \in Int
          <5>1. PICK p \in PlacesIn(blocks) : TxAt(blocks, p).id = id
            BY <3>1 DEF ConfirmedIds
          <5>2. I \subseteq IdsOver(I) /\ TxAt(blocks, p) \in TxsOver(I)
            BY ChainFacts DEF LedgerOver
          <5>3. id.label \in Labels
            BY <5>1, <5>2, TxFacts
          <5> QED BY <5>3 DEF Labels, NotCoinbase, LedgerAssumption
        <4>2. id.label < Len(blocks)
          BY <3>1 DEF History, Rooted
        <4> QED BY <1>4, <4>1, <4>2 DEF h
      <3>2. CASE id \notin ConfirmedIds
        BY <1>4, <1>6, <1>8, <2>2, <3>2 DEF h
      <3> QED BY <3>1, <3>2
    <2>3. ASSUME NEW k \in 1..Len(pending')
          PROVE  pending'[k].id.label = NotCoinbase
      <3>1. n + k \in 1..Len(pending)
        BY <1>4, <1>9
      <3> QED BY <1>9, <3>1 DEF History, Rooted
    <2> QED BY <2>1, <2>2, <2>3 DEF Rooted
  <1>11. ASSUME NEW S, Alone(S) PROVE Once(S)'
    <2>1. /\ \A id \in S : id \in Seen(miner, n + 1) => Gone(DOMAIN w.utxo, id)
          /\ Fresh(S, miner, n + 1)
      BY <1>1, <1>2, <1>11 DEF OnceAfter
    <2>2. \A id \in S : id \in Known' => Gone(DOMAIN utxo', id)
      BY <1>1, <1>7, <2>1
    <2>3. ASSUME NEW p \in PlacesIn(blocks'), NEW q \in PlacesIn(blocks'),
                 TxAt(blocks', p).id = TxAt(blocks', q).id, TxAt(blocks', p).id \in S
          PROVE  p = q
      <3>1. ASSUME NEW x \in PlacesIn(blocks), NEW j \in 1..(n + 1),
                   TxAt(blocks, x).id = Handed(miner, j), Handed(miner, j) \in S
            PROVE  FALSE
        BY <2>1, <3>1 DEF Fresh, ConfirmedIds
      <3>2. CASE p \in PlacesIn(blocks) /\ q \in PlacesIn(blocks)
        BY <1>4, <1>11, <2>3, <3>2 DEF History, Once
      <3>3. CASE p \in PlacesIn(blocks) /\ q \notin PlacesIn(blocks)
        BY <1>4, <1>5, <2>3, <3>1, <3>3
      <3>4. CASE p \notin PlacesIn(blocks) /\ q \in PlacesIn(blocks)
        BY <1>4, <1>5, <2>3, <3>1, <3>4
      <3>5. CASE p \notin PlacesIn(blocks) /\ q \notin PlacesIn(blocks)
        <4>1. PICK i \in 1..(n + 1), j \in 1..(n + 1) : p = <<h, i>> /\ q = <<h, j>>
          BY <1>4, <3>5
        <4>2. Handed(miner, i) = Handed(miner, j) /\ Handed(miner, i) \in S
          BY <1>5, <2>3, <4>1
        <4> QED BY <2>1, <4>1, <4>2 DEF Fresh
      <3> QED BY <3>2, <3>3, <3>4, <3>5
    <2> QED BY <2>2, <2>3 DEF Once
  <1> QED BY <1>10, <1>11 DEF History

(* A block that was dropped may have left entries, of ids that were new.   *)
LEMMA FailHistory ==
    ASSUME LedgerAssumption, NEW I, LedgerOver(I), History, NEW n \in 0..Len(pending),
           NEW miner \in Miners, FailBlock(n, miner)
    PROVE  History'
  <1> DEFINE w == Updated(Candidate(n, miner))
  <1>1. HandOver(n) /\ Len(blocks) < MaxHeight /\ ~w.ok /\ DOMAIN utxo' = DOMAIN w.utxo
    BY DEF FailBlock, HandOver
  <1>2. \A S : Alone(S) => OnceAfter(S, miner, n + 1, w)
    BY <1>1, BlockOnce
  <1>3. /\ Len(blocks') = Len(blocks) /\ PlacesIn(blocks') = PlacesIn(blocks)
        /\ \A p \in PlacesIn(blocks) : TxAt(blocks', p).id = TxAt(blocks, p).id
    BY FailedFacts
  <1> HIDE DEF w
  <1>4. ConfirmedIds' = ConfirmedIds
    BY <1>3 DEF ConfirmedIds
  <1>5. DOMAIN w.utxo \subseteq Seen(miner, n + 1) /\ Known' \subseteq Seen(miner, n + 1)
        /\ Known' \subseteq Known \cup DOMAIN w.utxo
    <2>1. PICK S : S = {}
      OBVIOUS
    <2>2. Alone(S)
      BY <2>1 DEF Alone
    <2>3. DOMAIN w.utxo \subseteq Seen(miner, n + 1)
      BY <1>2, <2>2 DEF OnceAfter
    <2> QED BY <1>1, <1>4, <2>3 DEF Known, Seen
  <1>6. \A i \in 1..(n + 1) : \A k \in 1..Len(Handed(miner, i).ins) :
           Handed(miner, i).ins[k].tx \in ConfirmedIds
    BY <1>1, HandedFacts DEF History
  <1>7. /\ Len(pending') = Len(pending) - n /\ Len(pending) \in Nat
        /\ \A k \in 1..Len(pending') : pending'[k] = pending[n + k]
    BY <1>1, <1>3, HandedOver
  <1>8. Rooted'
    <2>1. ASSUME NEW id \in Known', NEW k \in 1..Len(id.ins) PROVE id.ins[k].tx \in ConfirmedIds'
      BY <1>4, <1>5, <1>6 DEF Seen, History, Rooted
    <2>2. \A k \in 1..Len(pending') : n + k \in 1..Len(pending)
      BY <1>7
    <2> QED BY <1>3, <1>4, <1>7, <2>1, <2>2 DEF History, Rooted
  <1>9. ASSUME NEW S, Alone(S) PROVE Once(S)'
    <2>1. \A id \in S : id \in Known \cup DOMAIN w.utxo => Gone(DOMAIN w.utxo, id)
      BY <1>1, <1>2, <1>9 DEF OnceAfter
    <2>2. \A id \in S : id \in Known' => Gone(DOMAIN utxo', id)
      BY <1>1, <1>5, <2>1
    <2>3. Once(S)
      BY <1>9 DEF History
    <2> QED BY <1>3, <2>2, <2>3 DEF Once
  <1> QED BY <1>8, <1>9 DEF History

(* The history is kept.                                                    *)
LEMMA NextHistory ==
    ASSUME LedgerAssumption, LedgerOK, History, [Next]_vars PROVE History'
  <1>1. PICK I : LedgerOver(I)
    BY DEF LedgerOK
  <1>2. CASE Next
    <2>1. ASSUME NEW pair \in Transfers, NEW amount \in Amounts,
                 CreateTransaction(pair[1], pair[2], amount)
          PROVE  History'
      BY <1>1, <2>1, CreateHistory
    <2>2. ASSUME NEW n \in 0..Len(pending), RejectBlock(n) PROVE History'
      BY <1>1, <2>2, RejectHistory
    <2>3. ASSUME NEW n \in 0..Len(pending), NEW m \in Miners, AddBlock(n, m) PROVE History'
      BY <1>1, <2>3, AddHistory
    <2>4. ASSUME NEW n \in 0..Len(pending), NEW m \in Miners, FailBlock(n, m) PROVE History'
      BY <1>1, <2>4, FailHistory
    <2> QED BY <1>2, <2>1, <2>2, <2>3, <2>4 DEF Next
  <1>3. CASE UNCHANGED vars
    <2>1. /\ ConfirmedIds' = ConfirmedIds /\ Known' = Known
          /\ \A S : Once(S)' = Once(S)
      BY <1>3 DEF ConfirmedIds, Known, Once, vars
    <2>2. Rooted' = Rooted
      BY <1>3, <2>1 DEF Rooted, vars
    <2> QED BY <2>1, <2>2 DEF History
  <1> QED BY <1>2, <1>3

(* What SameIdOnlyAfterShift says, it says of ids that stand alone.        *)
LEMMA HistoryTells ==
    ASSUME LedgerOK, History PROVE SameIdOnlyAfterShift
  <1>1. PICK I : LedgerOver(I)
    BY DEF LedgerOK
  <1>2. I \subseteq IdsOver(I) /\ blocks \in ChainsOver(I)
    BY <1>1 DEF LedgerOver
  <1> SUFFICES ASSUME NEW g \in DOMAIN blocks, NEW h \in DOMAIN blocks,
                      NEW i \in DOMAIN blocks[g], NEW j \in DOMAIN blocks[h],
                      blocks[h][j].id = blocks[g][i].id, <<g, i>> # <<h, j>>,
                      NEW ids \in SUBSET {t.id : t \in Confirmed},
                      blocks[g][i].id \in ids, Unshifted(ids)
               PROVE  FALSE
    BY DEF SameIdOnlyAfterShift
  <1>3. Alone(ids)
    <2> SUFFICES ASSUME NEW id \in ids
                 PROVE  /\ id.label = NotCoinbase => 1 \in 1..Len(id.ins)
                        /\ \A k \in 1..Len(id.ins) :
                              id.ins[k].tx \in ids /\ Len(id.ins[k].tx.outs) = 1
      BY DEF Alone
    <2>1. PICK t \in Confirmed : t.id = id
      OBVIOUS
    <2>2. PICK p \in PlacesIn(blocks) : TxAt(blocks, p) = t
      BY <1>2, ConfirmedFacts
    <2>3. t \in TxsOver(I)
      BY <1>2, <2>2, ChainFacts
    <2>4. id.ins \in Seq(InputsOver(I))
      BY <1>2, <2>1, <2>3, TxFacts
    <2>5. \A k \in 1..Len(id.ins) : id.ins[k] \in Range(id.ins)
      BY <2>4 DEF Range
    <2>6. id.label = NotCoinbase => 1 \in 1..Len(id.ins)
      BY <2>4 DEF Unshifted, StandsAlone
    <2> QED BY <2>5, <2>6 DEF Unshifted, StandsAlone
  <1>4. <<g, i>> \in PlacesIn(blocks) /\ <<h, j>> \in PlacesIn(blocks)
    <2>1. DOMAIN blocks = 1..Len(blocks) /\ \A x \in 1..Len(blocks) : DOMAIN blocks[x] = 1..Len(blocks[x])
      <3>1. blocks \in Seq(Seq(TxsOver(I))) /\ \A x \in 1..Len(blocks) : blocks[x] \in Seq(TxsOver(I))
        BY <1>2, ChainFacts DEF ChainsOver
      <3> QED BY <3>1, PlacesOfSeq
    <2> QED BY <1>2, <2>1, ChainFacts DEF PlacesIn
  <1>5. Once(ids)
    BY <1>3 DEF History
  <1>6. TxAt(blocks, <<g, i>>) = blocks[g][i] /\ TxAt(blocks, <<h, j>>) = blocks[h][j]
    BY DEF TxAt
  <1> QED BY <1>4, <1>5, <1>6 DEF Once

(* Among rewards and transactions that spend something, and only outputs   *)
(* with no others beside them, and descend from such, no id is ever        *)
(* confirmed twice, however often the payments overlap, fail and are made  *)
(* again, for whatever amounts (CreateTransaction, blockchain.go:527, has  *)
(* no check of them): what one of them spends cannot come back.            *)
THEOREM SameIdsOnlyAfterShift == Spec => []SameIdOnlyAfterShift
  <1>1. Init => LedgerOK /\ History
    BY LedgerAssumption, InitOK, InitHistory
  <1>2. (LedgerOK /\ History) /\ [Next]_vars => (LedgerOK /\ History)'
    BY LedgerAssumption, NextOK, NextHistory
  <1>3. LedgerOK /\ History => SameIdOnlyAfterShift
    BY HistoryTells
  <1> QED BY <1>1, <1>2, <1>3, PTL DEF Spec

=============================================================================
