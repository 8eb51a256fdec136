------------------------------- MODULE Facts -------------------------------
(***************************************************************************)
(* Facts about sequences, numbers, folds and sums that the proofs share.   *)
(***************************************************************************)
EXTENDS Integers, SequencesExt, FiniteSetTheorems, WellFoundedInduction, TLAPS

-----------------------------------------------------------------------------
(* Sequences. *)

(* What Append adds and what it leaves.                                    *)
LEMMA AppendFacts ==
    ASSUME NEW S, NEW s \in Seq(S), NEW e \in S
    PROVE  /\ Append(s, e) \in Seq(S)
           /\ Len(Append(s, e)) = Len(s) + 1 /\ Len(s) \in Nat
           /\ \A i \in 1..Len(s) : Append(s, e)[i] = s[i]
           /\ Append(s, e)[Len(s) + 1] = e
  OBVIOUS

(* What the first element and the rest of a sequence are.                  *)
LEMMA TailFacts ==
    ASSUME NEW S, NEW s \in Seq(S), s # <<>>
    PROVE  /\ Head(s) \in S /\ Head(s) = s[1] /\ Len(s) > 0
           /\ Tail(s) \in Seq(S)
           /\ Len(Tail(s)) = Len(s) - 1
           /\ \A i \in 1..(Len(s) - 1) : Tail(s)[i] = s[i + 1]
  OBVIOUS

(* What concatenation puts where.                                          *)
LEMMA ConcatFacts ==
    ASSUME NEW S, NEW s \in Seq(S), NEW t \in Seq(S)
    PROVE  /\ s \o t \in Seq(S)
           /\ Len(s \o t) = Len(s) + Len(t)
           /\ \A i \in 1..Len(s) : (s \o t)[i] = s[i]
           /\ \A i \in 1..Len(t) : (s \o t)[Len(s) + i] = t[i]
  OBVIOUS

(* What a sequence begins with.                                            *)
LEMMA FrontFacts ==
    ASSUME NEW S, NEW s \in Seq(S), NEW n \in 0..Len(s)
    PROVE  /\ SubSeq(s, 1, n) \in Seq(S)
           /\ Len(SubSeq(s, 1, n)) = n
           /\ \A i \in 1..n : SubSeq(s, 1, n)[i] = s[i]
  OBVIOUS

(* What a sequence ends with.                                              *)
LEMMA RestFacts ==
    ASSUME NEW S, NEW s \in Seq(S), NEW n \in 0..Len(s)
    PROVE  /\ SubSeq(s, n + 1, Len(s)) \in Seq(S)
           /\ Len(SubSeq(s, n + 1, Len(s))) = Len(s) - n
           /\ \A i \in 1..(Len(s) - n) : SubSeq(s, n + 1, Len(s))[i] = s[n + i]
  OBVIOUS

(* Sequences with the same elements at the same places are equal.          *)
LEMMA SameSeq ==
    ASSUME NEW S, NEW s \in Seq(S), NEW t \in Seq(S),
           Len(s) = Len(t), \A i \in 1..Len(s) : s[i] = t[i]
    PROVE  s = t
  OBVIOUS

(* An element of a sequence over S is in S.                                *)
LEMMA ElementIn ==
    ASSUME NEW S, NEW s \in Seq(S), NEW i \in 1..Len(s)
    PROVE  s[i] \in S
  OBVIOUS

(* The places of a sequence.                                               *)
LEMMA PlacesOfSeq ==
    ASSUME NEW S, NEW s \in Seq(S) PROVE DOMAIN s = 1..Len(s)
  OBVIOUS

(* A sequence over a set is one over any larger set.                       *)
LEMMA SeqOfMore ==
    ASSUME NEW S, NEW T, S \subseteq T, NEW s \in Seq(S)
    PROVE  s \in Seq(T)
  OBVIOUS

(* The empty sequence is one over any set.                                 *)
LEMMA EmptyIsSeq == ASSUME NEW S PROVE <<>> \in Seq(S)
  OBVIOUS

(* The whole of a sequence is a part of it.                                *)
LEMMA WholePart ==
    ASSUME NEW T, NEW s \in Seq(T) PROVE SubSeq(s, 1, Len(s)) = s
  <1>1. Len(s) \in 0..Len(s)
    OBVIOUS
  <1>2. /\ SubSeq(s, 1, Len(s)) \in Seq(T) /\ Len(SubSeq(s, 1, Len(s))) = Len(s)
        /\ \A i \in 1..Len(s) : SubSeq(s, 1, Len(s))[i] = s[i]
    BY <1>1, FrontFacts
  <1> QED BY <1>2, SameSeq

(* A sequence with one element replaced.                                   *)
LEMMA ReplaceFacts ==
    ASSUME NEW S, NEW s \in Seq(S), NEW i \in 1..Len(s), NEW e \in S
    PROVE  /\ [s EXCEPT ![i] = e] \in Seq(S)
           /\ Len([s EXCEPT ![i] = e]) = Len(s)
           /\ [s EXCEPT ![i] = e][i] = e
           /\ \A k \in 1..Len(s) : k # i => [s EXCEPT ![i] = e][k] = s[k]
  OBVIOUS

(* What is left without the output at one index.                           *)
LEMMA RemoveAtFacts ==
    ASSUME NEW S, NEW s \in Seq(S), NEW i \in 1..Len(s)
    PROVE  /\ RemoveAt(s, i) \in Seq(S)
           /\ Len(RemoveAt(s, i)) = Len(s) - 1
           /\ \A k \in 1..(Len(s) - 1) :
                 RemoveAt(s, i)[k] = IF k < i THEN s[k] ELSE s[k + 1]
  <1> DEFINE u == SubSeq(s, 1, i - 1)
             v == SubSeq(s, i + 1, Len(s))
  <1>1. Len(s) \in Nat /\ i \in Nat /\ 1 <= i /\ i <= Len(s)
    OBVIOUS
  <1>2. u \in Seq(S) /\ Len(u) = i - 1 /\ \A k \in 1..(i - 1) : u[k] = s[k]
    <2>1. i - 1 \in 0..Len(s)
      BY <1>1
    <2> QED BY <2>1, FrontFacts
  <1>3. v \in Seq(S) /\ Len(v) = Len(s) - i /\ \A k \in 1..(Len(s) - i) : v[k] = s[i + k]
    BY RestFacts
  <1> HIDE DEF u, v
  <1>4. /\ u \o v \in Seq(S) /\ Len(u \o v) = Len(s) - 1
        /\ \A k \in 1..(i - 1) : (u \o v)[k] = u[k]
        /\ \A k \in 1..(Len(s) - i) : (u \o v)[(i - 1) + k] = v[k]
    <2>1. /\ u \o v \in Seq(S) /\ Len(u \o v) = Len(u) + Len(v)
          /\ \A k \in 1..Len(u) : (u \o v)[k] = u[k]
          /\ \A k \in 1..Len(v) : (u \o v)[Len(u) + k] = v[k]
      <3>1. u \in Seq(S) /\ v \in Seq(S)
        BY <1>2, <1>3
      <3> QED BY <3>1, ConcatFacts
    <2> QED BY <1>1, <1>2, <1>3, <2>1
  <1>5. ASSUME NEW k \in 1..(Len(s) - 1)
        PROVE  (u \o v)[k] = IF k < i THEN s[k] ELSE s[k + 1]
    <2>1. CASE k < i
      <3>1. k \in 1..(i - 1)
        BY <1>1, <2>1
      <3> QED BY <1>2, <1>4, <2>1, <3>1
    <2>2. CASE ~(k < i)
      <3> DEFINE j == k - (i - 1)
      <3>1. j \in 1..(Len(s) - i) /\ (i - 1) + j = k /\ i + j = k + 1
        BY <1>1, <2>2
      <3> HIDE DEF j
      <3>2. (u \o v)[(i - 1) + j] = v[j] /\ v[j] = s[i + j]
        BY <1>3, <1>4, <3>1
      <3> QED BY <2>2, <3>1, <3>2
    <2> QED BY <2>1, <2>2
  <1>6. RemoveAt(s, i) = u \o v
    BY DEF RemoveAt, u, v
  <1> QED BY <1>4, <1>5, <1>6

(* A front, element by element.                                            *)
LEMMA PrefixFacts ==
    ASSUME NEW S, NEW s \in Seq(S), NEW t \in Seq(S)
    PROVE  IsPrefix(s, t) <=> Len(s) <= Len(t) /\ \A k \in 1..Len(s) : s[k] = t[k]
  <1>1. SubSeq(s, 1, Len(s)) = s
    OBVIOUS
  <1>2. CASE Len(s) <= Len(t)
    <2>1. Len(s) \in 0..Len(t) /\ Len(s) \in Nat
      BY <1>2
    <2>2. /\ SubSeq(t, 1, Len(s)) \in Seq(S) /\ Len(SubSeq(t, 1, Len(s))) = Len(s)
          /\ \A k \in 1..Len(s) : SubSeq(t, 1, Len(s))[k] = t[k]
      BY <2>1, FrontFacts
    <2> DEFINE u == SubSeq(t, 1, Len(s))
    <2> HIDE DEF u
    <2>3. u \in Seq(S) /\ Len(u) = Len(s) /\ \A k \in 1..Len(s) : u[k] = t[k]
      BY <2>2 DEF u
    <2>4. s = u <=> \A k \in 1..Len(s) : s[k] = t[k]
      <3>1. ASSUME \A k \in 1..Len(s) : s[k] = t[k] PROVE s = u
        BY <2>3, <3>1, SameSeq
      <3> QED BY <2>3, <3>1
    <2> QED BY <1>1, <1>2, <2>4 DEF IsPrefix, u
  <1>3. CASE ~(Len(s) <= Len(t))
    BY <1>3 DEF IsPrefix
  <1> QED BY <1>2, <1>3

-----------------------------------------------------------------------------
(* Induction.  The library states it for an operator, which the provers    *)
(* cannot instantiate; for a set they can.                                 *)

Below == {p \in Nat \X Nat : p[1] < p[2]}

(* There is no infinite descent in the natural numbers.                    *)
LEMMA BelowIsWellFounded == IsWellFoundedOn(Below, Nat)
  BY NatLessThanWellFounded DEF OpToRel, Below

(* A set of natural numbers that is not empty has a least element.         *)
LEMMA LeastElement ==
    ASSUME NEW T, T \subseteq Nat, T # {}
    PROVE  \E x \in T : \A y \in T : x <= y
  <1>1. PICK x \in T : \A y \in T : ~ (<<y, x>> \in Below)
    BY BelowIsWellFounded, WFMin
  <1>2. \A y \in T : ~ (y < x)
    BY <1>1 DEF Below
  <1> QED BY <1>2

(* A set that has 0, and the next of each number it has, has them all.     *)
LEMMA Induction ==
    ASSUME NEW S, 0 \in S, \A n \in Nat : n \in S => n + 1 \in S
    PROVE  \A n \in Nat : n \in S
  <1> SUFFICES ASSUME NEW m \in Nat, m \notin S PROVE FALSE
    OBVIOUS
  <1> DEFINE T == {n \in Nat : n \notin S}
  <1>1. PICK x \in T : \A y \in T : x <= y
    BY LeastElement
  <1>2. x # 0 /\ x - 1 \in Nat /\ (x - 1) + 1 = x
    BY <1>1
  <1>3. x - 1 \in S
    BY <1>1, <1>2
  <1> QED BY <1>1, <1>2, <1>3

(* A set of natural numbers below a bound has a greatest element.          *)
LEMMA GreatestElement ==
    ASSUME NEW T, NEW n \in Nat, T \subseteq 0..n, T # {}
    PROVE  \E x \in T : \A y \in T : y <= x
  <1> DEFINE U == {m \in Nat : \A y \in T : y <= m}
  <1>1. PICK x \in U : \A m \in U : x <= m
    <2>1. n \in U
      OBVIOUS
    <2> QED BY <2>1, LeastElement
  <1>2. CASE x \in T
    BY <1>1, <1>2
  <1>3. CASE x \notin T
    <2>1. PICK y \in T : TRUE
      OBVIOUS
    <2>2. y < x /\ x \in Nat
      BY <1>1, <1>3
    <2>3. x - 1 \in U
      BY <1>1, <1>3, <2>2
    <2> QED BY <1>1, <2>2, <2>3
  <1> QED BY <1>2, <1>3

(* A function on 1..n that gives its first value, and each next one from   *)
(* the last.                                                               *)
IsRecursion(f, V, b, step, n) ==
    /\ f \in [1..n -> V]
    /\ \A i \in 1..n : f[i] = IF i = 1 THEN b ELSE step[<<f[i - 1], i>>]

(* There is one, whatever the step.                                        *)
LEMMA RecursionExists ==
    ASSUME NEW V, NEW b \in V, NEW step \in [V \X Nat -> V], NEW n \in Nat
    PROVE  \E f : IsRecursion(f, V, b, step, n)
  <1> DEFINE Obeys(f, m) ==
                 \A i \in 1..m : f[i] = IF i = 1 THEN b ELSE step[<<f[i - 1], i>>]
             S == {m \in Nat : \E f \in [1..m -> V] : Obeys(f, m)}
  <1>1. 0 \in S
    <2> DEFINE f == [i \in 1..0 |-> b]
    <2>1. f \in [1..0 -> V] /\ Obeys(f, 0)
      OBVIOUS
    <2> HIDE DEF f, Obeys
    <2> QED BY <2>1
  <1>2. ASSUME NEW m \in Nat, m \in S PROVE m + 1 \in S
    <2>1. PICK f \in [1..m -> V] : Obeys(f, m)
      BY <1>2
    <2> DEFINE new == IF m = 0 THEN b ELSE step[<<f[m], m + 1>>]
               g == [i \in 1..(m + 1) |-> IF i = m + 1 THEN new ELSE f[i]]
    <2>2. new \in V
      OBVIOUS
    <2>3. g \in [1..(m + 1) -> V]
      BY <2>2
    <2>4. ASSUME NEW i \in 1..(m + 1)
          PROVE  g[i] = IF i = 1 THEN b ELSE step[<<g[i - 1], i>>]
      <3>1. CASE i = m + 1 /\ m = 0
        BY <3>1
      <3>2. CASE i = m + 1 /\ m # 0
        <4>1. g[i] = step[<<f[m], m + 1>>] /\ g[i - 1] = f[m]
          BY <3>2
        <4>2. i # 1
          BY <3>2
        <4> HIDE DEF g
        <4> QED BY <3>2, <4>1, <4>2
      <3>3. CASE i \in 1..m
        <4>1. g[i] = f[i] /\ (i # 1 => g[i - 1] = f[i - 1])
          BY <3>3
        <4> HIDE DEF g
        <4> QED BY <2>1, <3>3, <4>1
      <3> QED BY <3>1, <3>2, <3>3
    <2> HIDE DEF g
    <2> QED BY <2>3, <2>4
  <1> HIDE DEF S
  <1>3. n \in S
    BY <1>1, <1>2, Induction
  <1> QED BY <1>3 DEF S, IsRecursion

-----------------------------------------------------------------------------
(* The first numbers, which a fold over a sequence goes through. *)

(* The greatest of the first numbers.                                      *)
LEMMA MaxOfFirst == ASSUME NEW k \in Nat \ {0} PROVE Max(1..k) = k
  <1>1. k \in 1..k /\ \A y \in 1..k : k >= y
    OBVIOUS
  <1>2. \A x \in 1..k : (\A y \in 1..k : x >= y) => x = k
    OBVIOUS
  <1> QED BY <1>1, <1>2 DEF Max

(* The first numbers, one by one.                                          *)
LEMMA FirstNumbers ==
    ASSUME NEW n \in Nat
    PROVE  /\ 1..0 = {} /\ IsFiniteSet(1..n)
           /\ \A k \in 1..n : /\ 1..k \in SUBSET (1..n) /\ 1..k # {}
                              /\ Max(1..k) = k /\ (1..k) \ {k} = 1..(k - 1)
  <1>1. ASSUME NEW k \in 1..n PROVE 1..k \in SUBSET (1..n) /\ 1..k # {}
    <2>1. k \in 1..k
      OBVIOUS
    <2> QED BY <2>1
  <1>2. \A k \in 1..n : (1..k) \ {k} = 1..(k - 1)
    OBVIOUS
  <1>3. 1..0 = {}
    OBVIOUS
  <1>4. IsFiniteSet(1..n)
    BY FS_Interval
  <1> QED BY <1>1, <1>2, <1>3, <1>4, MaxOfFirst

MaxGives(n) == \A T \in SUBSET (1..n) : T # {} => Max(T) \in T

(* The largest number of a set is one of the set.                          *)
LEMMA MaxIn == ASSUME NEW n \in Nat PROVE MaxGives(n)
  <1> SUFFICES ASSUME NEW T \in SUBSET (1..n), T # {} PROVE Max(T) \in T
    BY DEF MaxGives
  <1>1. T \subseteq 0..n
    OBVIOUS
  <1>2. \E x \in T : \A y \in T : y <= x
    BY <1>1, GreatestElement
  <1>3. \E x \in T : \A y \in T : x >= y
    BY <1>2
  <1> QED BY <1>3 DEF Max

-----------------------------------------------------------------------------
(* Folds and sums over finite sets. *)

(* A function on the subsets of D that gives what a fold over each of them *)
(* gives, whose next element ch names.                                     *)
IsFold(g, V, b, step, ch, D) ==
    /\ g \in [SUBSET D -> V]
    /\ \A T \in SUBSET D :
          g[T] = IF T = {} THEN b ELSE step[<<g[T \ {ch[T]}], ch[T]>>]

(* There is one over a finite set, whatever the step and the order.        *)
LEMMA FoldExists ==
    ASSUME NEW V, NEW b \in V, NEW D, IsFiniteSet(D), NEW ch,
           \A T \in SUBSET D : T # {} => ch[T] \in T,
           NEW step \in [V \X D -> V]
    PROVE  \E g : IsFold(g, V, b, step, ch, D)
  <1> DEFINE Small(m) == {T \in SUBSET D : Cardinality(T) <= m}
             Next1(g, T) == step[<<g[T \ {ch[T]}], ch[T]>>]
             Obeys(g, m) == \A T \in Small(m) : g[T] = IF T = {} THEN b ELSE Next1(g, T)
             S == {m \in Nat : \E g \in [Small(m) -> V] : Obeys(g, m)}
  <1>1. \A T \in SUBSET D :
           /\ IsFiniteSet(T) /\ Cardinality(T) \in Nat /\ Cardinality(T) <= Cardinality(D)
           /\ Cardinality(T) = 0 <=> T = {}
           /\ T # {} => Cardinality(T \ {ch[T]}) = Cardinality(T) - 1
    <2> TAKE T \in SUBSET D
    <2>1. IsFiniteSet(T) /\ Cardinality(T) \in Nat /\ Cardinality(T) <= Cardinality(D)
      BY FS_Subset, FS_CardinalityType
    <2> QED BY <2>1, FS_EmptySet, FS_RemoveElement
  <1>2. Cardinality(D) \in Nat
    BY FS_CardinalityType
  <1>3. 0 \in S
    <2> DEFINE g == [T \in Small(0) |-> b]
    <2>1. ASSUME NEW T \in Small(0) PROVE T = {}
      <3>1. T \in SUBSET D /\ Cardinality(T) <= 0
        OBVIOUS
      <3>2. Cardinality(T) \in Nat /\ (Cardinality(T) = 0 <=> T = {})
        BY <1>1, <3>1
      <3> QED BY <3>1, <3>2
    <2>2. g \in [Small(0) -> V] /\ \A T \in Small(0) : g[T] = b
      OBVIOUS
    <2> HIDE DEF g, Small
    <2>3. Obeys(g, 0)
      BY <2>1, <2>2
    <2> QED BY <2>2, <2>3
  <1>4. ASSUME NEW m \in Nat, m \in S PROVE m + 1 \in S
    <2>1. PICK g \in [Small(m) -> V] : Obeys(g, m)
      BY <1>4
    <2> DEFINE h == [T \in Small(m + 1) |->
                       IF Cardinality(T) <= m THEN g[T] ELSE Next1(g, T)]
    <2>2. ASSUME NEW T \in Small(m + 1), T # {}
          PROVE  /\ T \ {ch[T]} \in Small(m) /\ T \ {ch[T]} \in Small(m + 1)
                 /\ ch[T] \in D /\ Cardinality(T \ {ch[T]}) <= m
      <3>1. T \in SUBSET D /\ Cardinality(T) <= m + 1 /\ ch[T] \in T
        BY <2>2
      <3>2. T \ {ch[T]} \in SUBSET D /\ ch[T] \in D
        BY <3>1
      <3>3. Cardinality(T) \in Nat /\ Cardinality(T \ {ch[T]}) = Cardinality(T) - 1
        BY <1>1, <2>2, <3>1
      <3>4. Cardinality(T \ {ch[T]}) <= m /\ Cardinality(T \ {ch[T]}) <= m + 1
        BY <3>1, <3>3
      <3> QED BY <3>2, <3>4
    <2>3. ASSUME NEW T \in Small(m + 1), ~(Cardinality(T) <= m) PROVE T # {}
      <3>1. T \in SUBSET D /\ Cardinality(T) # 0
        BY <2>3
      <3> QED BY <1>1, <3>1
    <2>4. ASSUME NEW T \in Small(m + 1), Cardinality(T) <= m PROVE T \in Small(m)
      BY <2>4
    <2>5. ASSUME NEW T \in Small(m + 1), T # {} PROVE Next1(g, T) \in V
      <3>1. g[T \ {ch[T]}] \in V /\ ch[T] \in D
        BY <2>2, <2>5
      <3> QED BY <3>1
    <2>6. h \in [Small(m + 1) -> V]
      <3>1. ASSUME NEW T \in Small(m + 1)
            PROVE  (IF Cardinality(T) <= m THEN g[T] ELSE Next1(g, T)) \in V
        <4> HIDE DEF Small, Next1
        <4> QED BY <2>3, <2>4, <2>5
      <3> HIDE DEF Small, Next1
      <3> QED BY <3>1
    <2>7. ASSUME NEW T \in Small(m + 1)
          PROVE  h[T] = IF T = {} THEN b ELSE Next1(h, T)
      <3>1. /\ Cardinality(T) <= m => h[T] = g[T]
            /\ ~(Cardinality(T) <= m) => h[T] = Next1(g, T)
        BY <2>7
      <3>2. T # {} => h[T \ {ch[T]}] = g[T \ {ch[T]}]
        BY <2>2
      <3> HIDE DEF h
      <3>3. T # {} => Next1(h, T) = Next1(g, T)
        BY <3>2
      <3>4. CASE Cardinality(T) <= m
        <4>1. g[T] = IF T = {} THEN b ELSE Next1(g, T)
          <5> HIDE DEF Next1, Small
          <5> QED BY <2>1, <2>4, <3>4
        <4> HIDE DEF Next1, Small
        <4> QED BY <3>1, <3>3, <3>4, <4>1
      <3>5. CASE ~(Cardinality(T) <= m)
        <4> HIDE DEF Next1, Small
        <4> QED BY <2>3, <3>1, <3>3, <3>5
      <3> QED BY <3>4, <3>5
    <2> HIDE DEF h, Small, Next1
    <2> QED BY <2>6, <2>7
  <1>5. Cardinality(D) \in S
    <2> HIDE DEF S
    <2> QED BY <1>2, <1>3, <1>4, Induction
  <1>6. Small(Cardinality(D)) = SUBSET D
    BY <1>1
  <1>7. PICK g \in [SUBSET D -> V] : Obeys(g, Cardinality(D))
    <2> HIDE DEF Obeys
    <2> QED BY <1>5, <1>6
  <1>8. \A T \in SUBSET D : g[T] = IF T = {} THEN b ELSE Next1(g, T)
    <2> HIDE DEF Next1, Small
    <2> QED BY <1>6, <1>7
  <1>9. IsFold(g, V, b, step, ch, D)
    BY <1>8 DEF IsFold
  <1> QED BY <1>9

(* The function behind a sum, on the subsets of its domain.                *)
Picked(T) == CHOOSE x \in T : TRUE

Sums(g, f, D) ==
    g = [T \in SUBSET D |-> IF T = {} THEN 0 ELSE f[Picked(T)] + g[T \ {Picked(T)}]]

(* SumFunction is such a function at its domain.                           *)
LEMMA SumObeys ==
    ASSUME NEW D, IsFiniteSet(D), NEW f \in [D -> Int]
    PROVE  \E g \in [SUBSET D -> Int] : Sums(g, f, D) /\ SumFunction(f) = g[D]
  <1> DEFINE step == [p \in Int \X D |-> f[p[2]] + p[1]]
             ch == [T \in SUBSET D |-> Picked(T)]
             iter == CHOOSE g : Sums(g, f, D)
  <1>1. \A T \in SUBSET D : T # {} => ch[T] = Picked(T) /\ Picked(T) \in T
    BY DEF Picked
  <1>2. step \in [Int \X D -> Int]
    OBVIOUS
  <1>3. PICK h : IsFold(h, Int, 0, step, ch, D)
    <2> HIDE DEF step, ch
    <2>1. \A T \in SUBSET D : T # {} => ch[T] \in T
      BY <1>1
    <2>2. 0 \in Int
      OBVIOUS
    <2> QED BY <1>2, <2>1, <2>2, FoldExists, Zenon
  <1>4. /\ h \in [SUBSET D -> Int]
        /\ \A T \in SUBSET D : h[T] = IF T = {} THEN 0 ELSE step[<<h[T \ {ch[T]}], ch[T]>>]
    <2> HIDE DEF step, ch
    <2> QED BY <1>3 DEF IsFold
  <1>5. ASSUME NEW T \in SUBSET D
        PROVE  h[T] = IF T = {} THEN 0 ELSE f[Picked(T)] + h[T \ {Picked(T)}]
    <2>1. CASE T = {}
      BY <1>4, <2>1
    <2>2. CASE T # {}
      <3>1. ch[T] = Picked(T) /\ Picked(T) \in D /\ h[T \ {Picked(T)}] \in Int
        <4>1. ch[T] = Picked(T) /\ Picked(T) \in T
          BY <1>1, <2>2
        <4> HIDE DEF ch, step
        <4> QED BY <1>4, <4>1
      <3>2. h[T] = step[<<h[T \ {Picked(T)}], Picked(T)>>]
        <4> HIDE DEF ch, step
        <4> QED BY <1>4, <2>2, <3>1
      <3>3. step[<<h[T \ {Picked(T)}], Picked(T)>>] = f[Picked(T)] + h[T \ {Picked(T)}]
        BY <3>1
      <3> QED BY <2>2, <3>2, <3>3
    <2> QED BY <2>1, <2>2
  <1>6. Sums(h, f, D)
    <2>1. h = [T \in SUBSET D |-> h[T]]
      BY <1>4
    <2> QED BY <1>5, <2>1 DEF Sums
  <1>7. Sums(iter, f, D)
    BY <1>6
  <1>8. SumFunction(f) = iter[D]
    BY DEF SumFunction, SumFunctionOnSet, FoldFunctionOnSet, MapThenFoldSet, Sums, Picked
  <1>9. iter \in [SUBSET D -> Int]
    <2> HIDE DEF iter
    <2>1. /\ iter = [T \in SUBSET D |-> iter[T]]
          /\ \A T \in SUBSET D :
                iter[T] = IF T = {} THEN 0 ELSE f[Picked(T)] + iter[T \ {Picked(T)}]
      BY <1>7 DEF Sums
    <2> DEFINE S == {n \in Nat : \A T \in SUBSET D : Cardinality(T) = n => iter[T] \in Int}
    <2>2. 0 \in S
      <3>1. ASSUME NEW T \in SUBSET D, Cardinality(T) = 0 PROVE iter[T] \in Int
        <4>1. IsFiniteSet(T)
          BY FS_Subset
        <4>2. T = {}
          BY <3>1, <4>1, FS_EmptySet
        <4>3. iter[T] = 0
          BY <2>1, <4>2
        <4> QED BY <4>3
      <3> QED BY <3>1
    <2>3. ASSUME NEW n \in Nat, n \in S PROVE n + 1 \in S
      <3>1. ASSUME NEW T \in SUBSET D, Cardinality(T) = n + 1 PROVE iter[T] \in Int
        <4>1. IsFiniteSet(T) /\ T # {}
          <5>1. IsFiniteSet(T) /\ IsFiniteSet({}) /\ Cardinality({}) = 0
            BY FS_Subset, FS_EmptySet
          <5> QED BY <3>1, <5>1
        <4>2. Picked(T) \in T /\ Picked(T) \in D /\ T \ {Picked(T)} \in SUBSET D
          BY <4>1 DEF Picked
        <4>3. Cardinality(T \ {Picked(T)}) = n
          <5>1. Cardinality(T \ {Picked(T)}) = Cardinality(T) - 1
            BY <4>1, <4>2, FS_RemoveElement
          <5> QED BY <3>1, <5>1
        <4>4. iter[T \ {Picked(T)}] \in Int
          BY <2>3, <4>2, <4>3
        <4>5. iter[T] = f[Picked(T)] + iter[T \ {Picked(T)}]
          BY <2>1, <4>1
        <4> QED BY <4>2, <4>4, <4>5
      <3> QED BY <3>1
    <2> HIDE DEF S
    <2>4. \A n \in Nat : n \in S
      BY <2>2, <2>3, Induction
    <2>5. ASSUME NEW T \in SUBSET D PROVE iter[T] \in Int
      <3>1. Cardinality(T) \in Nat
        BY FS_Subset, FS_CardinalityType
      <3> QED BY <2>4, <3>1 DEF S
    <2> QED BY <2>1, <2>5
  <1> QED BY <1>7, <1>8, <1>9

(* A sum may begin with any of its terms.                                  *)
AnyFirst(g, f, D) ==
    /\ g[{}] = 0
    /\ \A T \in SUBSET D : \A x \in T : g[T] = f[x] + g[T \ {x}]

(* The function behind a sum is one of these.                              *)
LEMMA SumAnyFirst ==
    ASSUME NEW D, IsFiniteSet(D), NEW f \in [D -> Int],
           NEW g \in [SUBSET D -> Int], Sums(g, f, D)
    PROVE  AnyFirst(g, f, D)
  <1> DEFINE AnyTerm(T) == \A x \in T : g[T] = f[x] + g[T \ {x}]
             S == {n \in Nat : \A T \in SUBSET D : Cardinality(T) = n => AnyTerm(T)}
  <1>1. \A T \in SUBSET D : g[T] = IF T = {} THEN 0 ELSE f[Picked(T)] + g[T \ {Picked(T)}]
    BY DEF Sums
  <1>2. ASSUME NEW T \in SUBSET D
        PROVE  /\ IsFiniteSet(T) /\ Cardinality(T) \in Nat
               /\ \A x \in T : Cardinality(T \ {x}) = Cardinality(T) - 1
    BY FS_Subset, FS_CardinalityType, FS_RemoveElement
  <1>3. 0 \in S
    <2>1. ASSUME NEW T \in SUBSET D, Cardinality(T) = 0 PROVE AnyTerm(T)
      <3>1. T = {}
        BY <1>2, <2>1, FS_EmptySet
      <3> QED BY <3>1
    <2> HIDE DEF AnyTerm
    <2> QED BY <2>1
  <1>4. ASSUME NEW n \in Nat, n \in S PROVE n + 1 \in S
    <2>1. ASSUME NEW T \in SUBSET D, Cardinality(T) = n + 1, NEW x \in T
          PROVE  g[T] = f[x] + g[T \ {x}]
      <3> DEFINE c == Picked(T)
      <3>1. c \in T /\ g[T] = f[c] + g[T \ {c}]
        BY <1>1 DEF Picked
      <3> HIDE DEF c
      <3>2. CASE c = x
        BY <3>1, <3>2
      <3>3. CASE c # x
        <4> DEFINE U == T \ {c}
                   W == T \ {x}
        <4>1. U \in SUBSET D /\ W \in SUBSET D /\ x \in U /\ c \in W
          BY <3>1, <3>3
        <4>2. Cardinality(U) = n /\ Cardinality(W) = n
          <5>1. Cardinality(U) = Cardinality(T) - 1 /\ Cardinality(W) = Cardinality(T) - 1
            BY <1>2, <3>1
          <5> QED BY <2>1, <5>1
        <4>3. U \ {x} = W \ {c} /\ W \ {c} \in SUBSET D
          OBVIOUS
        <4> HIDE DEF U, W
        <4>4. AnyTerm(U) /\ AnyTerm(W)
          <5> HIDE DEF AnyTerm
          <5> QED BY <1>4, <4>1, <4>2
        <4>5. g[U] = f[x] + g[U \ {x}] /\ g[W] = f[c] + g[W \ {c}]
          BY <4>1, <4>4
        <4>6. f[x] \in Int /\ f[c] \in Int /\ g[W \ {c}] \in Int
          BY <3>1, <4>3
        <4>7. g[T] = f[c] + g[U] /\ g[U] = f[x] + g[W \ {c}]
          BY <3>1, <4>3, <4>5 DEF U
        <4> QED BY <4>5, <4>6, <4>7 DEF W
      <3> QED BY <3>2, <3>3
    <2> QED BY <2>1
  <1> HIDE DEF S
  <1>5. \A n \in Nat : n \in S
    BY <1>3, <1>4, Induction
  <1>6. ASSUME NEW T \in SUBSET D PROVE AnyTerm(T)
    <2> HIDE DEF AnyTerm
    <2>1. Cardinality(T) \in Nat
      BY <1>2
    <2> QED BY <1>5, <2>1 DEF S
  <1>7. g[{}] = 0
    BY <1>1
  <1> QED BY <1>6, <1>7 DEF AnyFirst

(* Sums of functions that agree on a set agree there.                      *)
Summed(g, f, D) ==
    /\ IsFiniteSet(D) /\ f \in [D -> Int] /\ g \in [SUBSET D -> Int]
    /\ Sums(g, f, D)

(* The functions behind two sums agree where their terms do.               *)
LEMMA SumsAgree ==
    ASSUME NEW D, NEW f, NEW g, Summed(g, f, D),
           NEW E, NEW e, NEW h, Summed(h, e, E),
           E \subseteq D, \A x \in E : e[x] = f[x]
    PROVE  g[E] = h[E]
  <1> USE DEF Summed
  <1> DEFINE S == {n \in Nat : \A T \in SUBSET E : Cardinality(T) = n => g[T] = h[T]}
  <1>1. /\ g[{}] = 0 /\ h[{}] = 0
        /\ \A T \in SUBSET D : \A x \in T : g[T] = f[x] + g[T \ {x}]
        /\ \A T \in SUBSET E : \A x \in T : h[T] = e[x] + h[T \ {x}]
    <2>1. AnyFirst(g, f, D) /\ AnyFirst(h, e, E)
      BY SumAnyFirst
    <2> QED BY <2>1 DEF AnyFirst
  <1>2. ASSUME NEW T \in SUBSET E
        PROVE  /\ IsFiniteSet(T) /\ Cardinality(T) \in Nat
               /\ \A x \in T : Cardinality(T \ {x}) = Cardinality(T) - 1
    BY FS_Subset, FS_CardinalityType, FS_RemoveElement
  <1>3. 0 \in S
    <2>1. ASSUME NEW T \in SUBSET E, Cardinality(T) = 0 PROVE g[T] = h[T]
      <3>1. T = {}
        BY <1>2, <2>1, FS_EmptySet
      <3> QED BY <1>1, <3>1
    <2> QED BY <2>1
  <1>4. ASSUME NEW n \in Nat, n \in S PROVE n + 1 \in S
    <2>1. ASSUME NEW T \in SUBSET E, Cardinality(T) = n + 1 PROVE g[T] = h[T]
      <3>1. T # {}
        <4>1. Cardinality({}) = 0
          BY FS_EmptySet
        <4>2. CASE T = {}
          BY <2>1, <4>1, <4>2
        <4> QED BY <4>2
      <3>2. PICK x \in T : TRUE
        BY <3>1
      <3>3. Cardinality(T \ {x}) = n /\ T \ {x} \in SUBSET E /\ T \in SUBSET D
        <4>1. Cardinality(T \ {x}) = Cardinality(T) - 1
          BY <1>2
        <4> QED BY <2>1, <4>1
      <3>4. g[T \ {x}] = h[T \ {x}]
        BY <1>4, <3>3
      <3> QED BY <1>1, <3>3, <3>4
    <2> QED BY <2>1
  <1> HIDE DEF S
  <1>5. \A n \in Nat : n \in S
    BY <1>3, <1>4, Induction
  <1>6. Cardinality(E) \in Nat
    BY <1>2
  <1> QED BY <1>5, <1>6 DEF S

(* What a sum is: nothing, or any of its terms and the sum of the others.  *)
LEMMA SumFacts ==
    ASSUME NEW D, IsFiniteSet(D), NEW f \in [D -> Int]
    PROVE  /\ SumFunction(f) \in Int
           /\ D = {} => SumFunction(f) = 0
           /\ \A x \in D : SumFunction(f) = f[x] + SumFunction([y \in D \ {x} |-> f[y]])
  <1>1. PICK g \in [SUBSET D -> Int] : Sums(g, f, D) /\ SumFunction(f) = g[D]
    BY SumObeys
  <1>2. /\ g[{}] = 0
        /\ \A T \in SUBSET D : \A x \in T : g[T] = f[x] + g[T \ {x}]
    <2>1. AnyFirst(g, f, D)
      BY <1>1, SumAnyFirst
    <2> QED BY <2>1 DEF AnyFirst
  <1>3. ASSUME NEW x \in D
        PROVE  SumFunction(f) = f[x] + SumFunction([y \in D \ {x} |-> f[y]])
    <2> DEFINE E == D \ {x}
               e == [y \in E |-> f[y]]
    <2>1. IsFiniteSet(E) /\ e \in [E -> Int] /\ E \subseteq D /\ \A y \in E : e[y] = f[y]
      BY FS_Subset
    <2> HIDE DEF e, E
    <2>2. PICK h \in [SUBSET E -> Int] : Sums(h, e, E) /\ SumFunction(e) = h[E]
      BY <2>1, SumObeys
    <2>3. Summed(g, f, D) /\ Summed(h, e, E)
      BY <1>1, <2>1, <2>2 DEF Summed
    <2>5. g[E] = h[E]
      BY <2>1, <2>3, SumsAgree
    <2>4. g[D] = f[x] + g[E]
      BY <1>2 DEF E
    <2> QED BY <1>1, <2>2, <2>5, <2>4 DEF e, E
  <1> QED BY <1>1, <1>2, <1>3

-----------------------------------------------------------------------------
(* Lists, put one after the other. *)

(* What the recursion of FlattenSeq says of f.                             *)
Flattens(f, t) ==
    f = [i \in 1..Len(t) |-> IF i = 1 THEN t[i] ELSE f[i - 1] \o t[i]]

(* It has a solution, which the definition takes.                          *)
LEMMA FlattenObeys ==
    ASSUME NEW T, NEW t \in Seq(Seq(T)), t # <<>>
    PROVE  \E f \in [1..Len(t) -> Seq(T)] : Flattens(f, t) /\ FlattenSeq(t) = f[Len(t)]
  <1> DEFINE n == Len(t)
             lists == Seq(T)
             first == t[1]
             step == [p \in lists \X Nat |-> IF p[2] \in 1..n THEN p[1] \o t[p[2]] ELSE p[1]]
             f == CHOOSE f : Flattens(f, t)
  <1>1. n \in Nat /\ n >= 1 /\ \A i \in 1..n : t[i] \in Seq(T)
    <2>1. n \in Nat /\ n # 0
      OBVIOUS
    <2>2. \A i \in 1..n : t[i] \in Seq(T)
      BY ElementIn
    <2> QED BY <2>1, <2>2
  <1>2. first \in lists /\ step \in [lists \X Nat -> lists]
    <2>1. ASSUME NEW p \in lists \X Nat, p[2] \in 1..n PROVE p[1] \o t[p[2]] \in lists
      <3>1. p[1] \in Seq(T) /\ t[p[2]] \in Seq(T)
        BY <1>1, <2>1
      <3> QED BY <3>1, ConcatFacts
    <2>2. \A p \in lists \X Nat : p[1] \in lists
      OBVIOUS
    <2> QED BY <1>1, <2>1, <2>2
  <1>3. PICK g : IsRecursion(g, lists, first, step, n)
    <2> HIDE DEF first, step, lists, n
    <2> QED BY <1>1, <1>2, RecursionExists
  <1>4. /\ g \in [1..n -> lists]
        /\ \A i \in 1..n : g[i] = IF i = 1 THEN first ELSE step[<<g[i - 1], i>>]
    <2> HIDE DEF first, step, lists, n
    <2> QED BY <1>3 DEF IsRecursion
  <1>5. ASSUME NEW i \in 1..n PROVE g[i] = IF i = 1 THEN t[i] ELSE g[i - 1] \o t[i]
    <2>1. CASE i = 1
      BY <1>4, <2>1
    <2>2. CASE i # 1
      <3>1. g[i - 1] \in lists /\ i \in Nat
        <4>1. i - 1 \in 1..n /\ i \in Nat
          BY <1>1, <2>2
        <4> HIDE DEF lists, step
        <4> QED BY <1>4, <4>1
      <3>2. g[i] = step[<<g[i - 1], i>>]
        <4> HIDE DEF step
        <4> QED BY <1>4, <2>2
      <3>3. step[<<g[i - 1], i>>] = g[i - 1] \o t[i]
        BY <3>1
      <3> QED BY <2>2, <3>2, <3>3
    <2> QED BY <2>1, <2>2
  <1>6. Flattens(g, t)
    <2>1. g = [i \in 1..n |-> g[i]]
      BY <1>4
    <2>2. g = [i \in 1..n |-> IF i = 1 THEN t[i] ELSE g[i - 1] \o t[i]]
      <3> HIDE DEF n
      <3> QED BY <1>5, <2>1
    <2> QED BY <2>2 DEF Flattens
  <1>7. Flattens(f, t)
    BY <1>6
  <1>8. FlattenSeq(t) = f[n]
    BY <1>1 DEF FlattenSeq, Flattens
  <1> HIDE DEF f
  <1>9. /\ f = [i \in 1..n |-> f[i]]
        /\ \A i \in 1..n : f[i] = IF i = 1 THEN t[i] ELSE f[i - 1] \o t[i]
    BY <1>7 DEF Flattens
  <1>10. \A i \in 1..n : f[i] \in Seq(T)
    <2> DEFINE S == {k \in Nat : k + 1 \in 1..n => f[k + 1] \in Seq(T)}
    <2>1. 0 \in S
      <3>1. 1 \in 1..n /\ 0 + 1 = 1
        BY <1>1
      <3>2. f[1] = t[1] /\ t[1] \in Seq(T)
        BY <1>1, <1>9, <3>1
      <3> QED BY <3>1, <3>2
    <2>2. ASSUME NEW k \in Nat, k \in S PROVE k + 1 \in S
      <3> SUFFICES ASSUME (k + 1) + 1 \in 1..n PROVE f[(k + 1) + 1] \in Seq(T)
        OBVIOUS
      <3>1. k + 1 \in 1..n /\ (k + 1) + 1 # 1 /\ ((k + 1) + 1) - 1 = k + 1
        BY <1>1
      <3>2. f[(k + 1) + 1] = f[k + 1] \o t[(k + 1) + 1]
        BY <1>9, <3>1
      <3>3. f[k + 1] \in Seq(T) /\ t[(k + 1) + 1] \in Seq(T)
        BY <1>1, <2>2, <3>1
      <3>4. f[k + 1] \o t[(k + 1) + 1] \in Seq(T)
        BY <3>3, ConcatFacts
      <3> QED BY <3>2, <3>4
    <2> HIDE DEF S
    <2>3. \A k \in Nat : k \in S
      BY <2>1, <2>2, Induction
    <2>4. ASSUME NEW i \in 1..n PROVE f[i] \in Seq(T)
      <3>1. i - 1 \in S /\ (i - 1) + 1 = i
        BY <1>1, <2>3
      <3> QED BY <3>1 DEF S
    <2> QED BY <2>4
  <1>11. f \in [1..n -> Seq(T)]
    BY <1>9, <1>10
  <1> QED BY <1>7, <1>8, <1>11

(* No blocks have no transactions, and a block more has its own.           *)
LEMMA FlattenFacts ==
    ASSUME NEW T, NEW s \in Seq(Seq(T))
    PROVE  /\ FlattenSeq(SubSeq(s, 1, 0)) = <<>>
           /\ \A n \in 0..(Len(s) - 1) :
                 FlattenSeq(SubSeq(s, 1, n + 1)) = FlattenSeq(SubSeq(s, 1, n)) \o s[n + 1]
  <1>1. FlattenSeq(SubSeq(s, 1, 0)) = <<>>
    <2>1. SubSeq(s, 1, 0) = <<>> /\ Len(<<>>) = 0
      OBVIOUS
    <2> QED BY <2>1 DEF FlattenSeq
  <1>2. ASSUME NEW n \in 0..(Len(s) - 1)
        PROVE  FlattenSeq(SubSeq(s, 1, n + 1)) = FlattenSeq(SubSeq(s, 1, n)) \o s[n + 1]
    <2> DEFINE t == SubSeq(s, 1, n + 1)
               u == SubSeq(s, 1, n)
    <2>1. Len(s) \in Nat /\ n \in Nat /\ n + 1 \in 1..Len(s)
          /\ n \in 0..Len(s) /\ n + 1 \in 0..Len(s)
      OBVIOUS
    <2>2. /\ t \in Seq(Seq(T)) /\ Len(t) = n + 1
          /\ \A i \in 1..(n + 1) : t[i] = s[i]
      BY <2>1, FrontFacts
    <2>3. u \in Seq(Seq(T)) /\ Len(u) = n /\ \A i \in 1..n : u[i] = s[i]
      BY <2>1, FrontFacts
    <2>4. s[n + 1] \in Seq(T)
      BY <2>1, ElementIn
    <2> HIDE DEF t, u
    <2>5. PICK f \in [1..(n + 1) -> Seq(T)] : Flattens(f, t) /\ FlattenSeq(t) = f[n + 1]
      <3>1. t # <<>>
        BY <2>1, <2>2
      <3> QED BY <2>2, <3>1, FlattenObeys
    <2>6. \A i \in 1..(n + 1) : f[i] = IF i = 1 THEN s[i] ELSE f[i - 1] \o s[i]
      BY <2>2, <2>5 DEF Flattens
    <2>7. CASE n = 0
      <3>1. FlattenSeq(u) = <<>>
        BY <1>1, <2>7 DEF u
      <3>2. f[n + 1] = s[n + 1]
        BY <2>1, <2>6, <2>7
      <3>3. <<>> \o s[n + 1] = s[n + 1]
        BY <2>4
      <3> QED BY <2>5, <3>1, <3>2, <3>3 DEF t, u
    <2>8. CASE n # 0
      <3>1. PICK g \in [1..n -> Seq(T)] : Flattens(g, u) /\ FlattenSeq(u) = g[n]
        <4>1. u # <<>>
          BY <2>1, <2>3, <2>8
        <4> QED BY <2>3, <4>1, FlattenObeys
      <3>2. \A i \in 1..n : g[i] = IF i = 1 THEN s[i] ELSE g[i - 1] \o s[i]
        BY <2>3, <3>1 DEF Flattens
      <3> DEFINE S == {k \in Nat : k + 1 \in 1..n => g[k + 1] = f[k + 1]}
      <3>3. 0 \in S
        <4>1. 1 \in 1..n /\ 1 \in 1..(n + 1)
          BY <2>1, <2>8
        <4>2. g[1] = s[1] /\ f[1] = s[1]
          BY <2>6, <3>2, <4>1
        <4> QED BY <4>2
      <3>4. ASSUME NEW k \in Nat, k \in S PROVE k + 1 \in S
        <4> SUFFICES ASSUME (k + 1) + 1 \in 1..n PROVE g[(k + 1) + 1] = f[(k + 1) + 1]
          OBVIOUS
        <4>1. /\ k + 1 \in 1..n /\ (k + 1) + 1 \in 1..(n + 1)
              /\ (k + 1) + 1 # 1 /\ ((k + 1) + 1) - 1 = k + 1
          BY <2>1
        <4>2. g[(k + 1) + 1] = g[k + 1] \o s[(k + 1) + 1]
          BY <3>2, <4>1
        <4>3. f[(k + 1) + 1] = f[k + 1] \o s[(k + 1) + 1]
          BY <2>6, <4>1
        <4>4. g[k + 1] = f[k + 1]
          BY <3>4, <4>1
        <4> QED BY <4>2, <4>3, <4>4
      <3> HIDE DEF S
      <3>5. \A k \in Nat : k \in S
        BY <3>3, <3>4, Induction
      <3>6. g[n] = f[n]
        <4>1. n - 1 \in S /\ (n - 1) + 1 = n /\ n \in 1..n
          BY <2>1, <2>8, <3>5
        <4> QED BY <4>1 DEF S
      <3>7. f[n + 1] = f[n] \o s[n + 1]
        <4>1. n + 1 \in 1..(n + 1) /\ n + 1 # 1 /\ (n + 1) - 1 = n
          BY <2>1, <2>8
        <4> QED BY <2>6, <4>1
      <3> QED BY <2>5, <3>1, <3>6, <3>7 DEF t, u
    <2> QED BY <2>7, <2>8
  <1> QED BY <1>1, <1>2

(* A longer part of a chain has the transactions of a shorter one, in the  *)
(* same places, and maybe more behind them.                                *)
LEMMA FlattenGrows ==
    ASSUME NEW T, NEW s \in Seq(Seq(T)), NEW m \in 0..Len(s), NEW n \in m..Len(s)
    PROVE  LET shorter == FlattenSeq(SubSeq(s, 1, m))
               longer == FlattenSeq(SubSeq(s, 1, n))
           IN  /\ shorter \in Seq(T) /\ longer \in Seq(T)
               /\ Len(shorter) <= Len(longer)
               /\ \A i \in 1..Len(shorter) : longer[i] = shorter[i]
  <1> DEFINE flat(k) == FlattenSeq(SubSeq(s, 1, k))
             Fits(k) == /\ flat(m + k) \in Seq(T)
                        /\ Len(flat(m)) <= Len(flat(m + k))
                        /\ \A i \in 1..Len(flat(m)) : flat(m + k)[i] = flat(m)[i]
             U == {k \in Nat : m + k <= Len(s) => Fits(k)}
             V == {k \in Nat : k <= Len(s) => flat(k) \in Seq(T)}
  <1>1. Len(s) \in Nat /\ m \in Nat /\ m <= Len(s) /\ n \in Nat /\ m <= n /\ n <= Len(s)
    OBVIOUS
  <1>2. /\ flat(0) = <<>>
        /\ \A k \in 0..(Len(s) - 1) : flat(k + 1) = flat(k) \o s[k + 1]
    BY FlattenFacts
  <1>3. \A k \in 0..(Len(s) - 1) : s[k + 1] \in Seq(T)
    <2>1. ASSUME NEW k \in 0..(Len(s) - 1) PROVE s[k + 1] \in Seq(T)
      <3>1. k + 1 \in 1..Len(s)
        BY <1>1
      <3> QED BY <3>1, ElementIn
    <2> QED BY <2>1
  <1> HIDE DEF flat
  <1>4. m \in V
    <2>1. 0 \in V
      BY <1>2, EmptyIsSeq
    <2>2. ASSUME NEW k \in Nat, k \in V PROVE k + 1 \in V
      <3> SUFFICES ASSUME k + 1 <= Len(s) PROVE flat(k + 1) \in Seq(T)
        OBVIOUS
      <3>1. k \in 0..(Len(s) - 1) /\ flat(k) \in Seq(T)
        BY <1>1, <2>2
      <3>2. flat(k) \o s[k + 1] \in Seq(T)
        BY <1>3, <3>1, ConcatFacts
      <3> QED BY <1>2, <3>1, <3>2
    <2> HIDE DEF V
    <2>3. \A k \in Nat : k \in V
      BY <2>1, <2>2, Induction
    <2> QED BY <1>1, <2>3
  <1>5. flat(m) \in Seq(T)
    BY <1>1, <1>4
  <1>6. n - m \in U
    <2>1. 0 \in U
      <3>1. m + 0 = m /\ Len(flat(m)) \in Nat
        BY <1>1, <1>5
      <3> QED BY <1>5, <3>1
    <2>2. ASSUME NEW k \in Nat, k \in U PROVE k + 1 \in U
      <3> SUFFICES ASSUME m + (k + 1) <= Len(s) PROVE Fits(k + 1)
        OBVIOUS
      <3> DEFINE old == flat(m + k)
                 block == s[(m + k) + 1]
      <3>1. m + k \in 0..(Len(s) - 1) /\ (m + k) + 1 = m + (k + 1)
        BY <1>1
      <3>2. /\ old \in Seq(T) /\ Len(flat(m)) <= Len(old)
            /\ \A i \in 1..Len(flat(m)) : old[i] = flat(m)[i]
        BY <1>1, <2>2, <3>1
      <3>3. block \in Seq(T)
        BY <1>3, <3>1
      <3>4. flat((m + k) + 1) = old \o block
        BY <1>2, <3>1
      <3> HIDE DEF old, block
      <3>5. /\ old \o block \in Seq(T) /\ Len(old \o block) = Len(old) + Len(block)
            /\ \A i \in 1..Len(old) : (old \o block)[i] = old[i]
        BY <3>2, <3>3, ConcatFacts
      <3>6. Len(old) \in Nat /\ Len(block) \in Nat /\ Len(flat(m)) \in Nat
        BY <1>5, <3>2, <3>3
      <3>7. flat(m + (k + 1)) = old \o block
        BY <3>1, <3>4
      <3>8. Len(flat(m)) <= Len(old \o block)
        BY <3>2, <3>5, <3>6
      <3>9. \A i \in 1..Len(flat(m)) : (old \o block)[i] = flat(m)[i]
        BY <3>2, <3>5, <3>6
      <3> QED BY <3>5, <3>7, <3>8, <3>9
    <2> HIDE DEF U
    <2>3. \A k \in Nat : k \in U
      BY <2>1, <2>2, Induction
    <2> QED BY <1>1, <2>3
  <1>7. Fits(n - m) /\ m + (n - m) = n
    BY <1>1, <1>6
  <1> QED BY <1>5, <1>7 DEF flat

(* The places of the elements of lists in a list, and what is there.       *)
PlacesIn(s) == {p \in Nat \X Nat : p[1] \in 1..Len(s) /\ p[2] \in 1..Len(s[p[1]])}

(* Each element of the lists comes once: pos says where.                   *)
Flattened(pos, s) ==
    /\ pos \in [PlacesIn(s) -> 1..Len(FlattenSeq(s))]
    /\ \A p \in PlacesIn(s) : FlattenSeq(s)[pos[p]] = s[p[1]][p[2]]
    /\ \A p, q \in PlacesIn(s) : pos[p] = pos[q] => p = q
    /\ \A k \in 1..Len(FlattenSeq(s)) : \E p \in PlacesIn(s) : pos[p] = k

(* FlattenSeq keeps each element at a place of its own.                    *)
LEMMA FlattenPlaces ==
    ASSUME NEW T, NEW s \in Seq(Seq(T))
    PROVE  FlattenSeq(s) \in Seq(T) /\ \E pos : Flattened(pos, s)
  <1> DEFINE flat(k) == FlattenSeq(SubSeq(s, 1, k))
             at(p) == Len(flat(p[1] - 1)) + p[2]
             n == Len(s)
  <1>1. n \in Nat /\ SubSeq(s, 1, n) = s /\ flat(n) = FlattenSeq(s)
    <2>1. SubSeq(s, 1, n) = s
      BY WholePart
    <2>2. n \in Nat
      OBVIOUS
    <2>3. flat(n) = FlattenSeq(s)
      <3> HIDE DEF n
      <3> QED BY <2>1
    <2> QED BY <2>1, <2>2, <2>3
  <1>2. flat(0) = <<>> /\ \A k \in 0..(n - 1) : flat(k + 1) = flat(k) \o s[k + 1]
    BY FlattenFacts
  <1>3. ASSUME NEW m \in 0..n, NEW k \in m..n
        PROVE  /\ flat(m) \in Seq(T) /\ flat(k) \in Seq(T) /\ Len(flat(m)) <= Len(flat(k))
               /\ \A i \in 1..Len(flat(m)) : flat(k)[i] = flat(m)[i]
    BY FlattenGrows
  <1> HIDE DEF flat
  <1>4. \A k \in 0..n : flat(k) \in Seq(T) /\ Len(flat(k)) \in Nat
    <2>1. ASSUME NEW k \in 0..n PROVE flat(k) \in Seq(T)
      <3>1. k \in k..n
        BY <1>1
      <3> QED BY <1>3, <3>1
    <2> QED BY <2>1
  <1>5. \A h \in 1..n : s[h] \in Seq(T) /\ Len(s[h]) \in Nat
    <2>1. \A h \in 1..n : s[h] \in Seq(T)
      BY ElementIn
    <2> QED BY <2>1
  <1>6. ASSUME NEW h \in 1..n
        PROVE  /\ Len(flat(h)) = Len(flat(h - 1)) + Len(s[h])
               /\ \A j \in 1..Len(s[h]) : flat(h)[Len(flat(h - 1)) + j] = s[h][j]
    <2>1. h - 1 \in 0..n /\ h - 1 \in 0..(n - 1) /\ (h - 1) + 1 = h
      BY <1>1
    <2>2. flat(h) = flat(h - 1) \o s[h]
      BY <1>2, <2>1
    <2>3. flat(h - 1) \in Seq(T) /\ s[h] \in Seq(T)
      BY <1>4, <1>5, <2>1
    <2> DEFINE u == flat(h - 1)
               v == s[h]
    <2>4. Len(u \o v) = Len(u) + Len(v) /\ \A j \in 1..Len(v) : (u \o v)[Len(u) + j] = v[j]
      <3> HIDE DEF u, v
      <3>1. u \in Seq(T) /\ v \in Seq(T)
        BY <2>3 DEF u, v
      <3> QED BY <3>1, ConcatFacts
    <2> QED BY <2>2, <2>4
  <1>7. ASSUME NEW p \in PlacesIn(s)
        PROVE  /\ at(p) \in 1..Len(flat(p[1])) /\ at(p) \in 1..Len(flat(n)) /\ at(p) \in Nat
               /\ flat(n)[at(p)] = s[p[1]][p[2]]
               /\ Len(flat(p[1] - 1)) < at(p)
    <2>1. p[1] \in 1..n /\ p[2] \in 1..Len(s[p[1]]) /\ p[1] \in 0..n /\ p[1] - 1 \in 0..n
          /\ n \in p[1]..n
      BY <1>1 DEF PlacesIn
    <2>2. /\ Len(flat(p[1])) = Len(flat(p[1] - 1)) + Len(s[p[1]])
          /\ flat(p[1])[at(p)] = s[p[1]][p[2]]
      BY <1>6, <2>1
    <2>3. /\ Len(flat(p[1])) \in Nat /\ Len(flat(p[1] - 1)) \in Nat /\ Len(flat(n)) \in Nat
          /\ Len(s[p[1]]) \in Nat /\ p[2] \in Nat /\ 1 <= p[2] /\ p[2] <= Len(s[p[1]])
      BY <1>1, <1>4, <1>5, <2>1
    <2>4. at(p) \in 1..Len(flat(p[1])) /\ Len(flat(p[1] - 1)) < at(p)
      <3> DEFINE low == Len(flat(p[1] - 1))
                 high == Len(flat(p[1]))
                 size == Len(s[p[1]])
                 j == p[2]
      <3>1. low \in Nat /\ high = low + size /\ size \in Nat /\ j \in Nat /\ 1 <= j /\ j <= size
        BY <2>2, <2>3
      <3>2. at(p) = low + j
        OBVIOUS
      <3> HIDE DEF low, high, size, j, at
      <3>3. at(p) \in 1..high /\ low < at(p)
        BY <3>1, <3>2
      <3> QED BY <3>3 DEF low, high
    <2>5. /\ Len(flat(p[1])) <= Len(flat(n))
          /\ \A i \in 1..Len(flat(p[1])) : flat(n)[i] = flat(p[1])[i]
      BY <1>3, <2>1
    <2> HIDE DEF at
    <2>6. at(p) \in Nat /\ at(p) \in 1..Len(flat(n))
      BY <2>3, <2>4, <2>5
    <2>7. flat(n)[at(p)] = s[p[1]][p[2]]
      BY <2>2, <2>4, <2>5
    <2> QED BY <2>4, <2>6, <2>7
  <1> DEFINE pos == [p \in PlacesIn(s) |-> at(p)]
  <1>8. pos \in [PlacesIn(s) -> 1..Len(flat(n))]
    <2> HIDE DEF at
    <2> QED BY <1>7
  <1>9. \A p \in PlacesIn(s) : flat(n)[pos[p]] = s[p[1]][p[2]]
    <2> HIDE DEF at
    <2> QED BY <1>7
  <1>10. ASSUME NEW p \in PlacesIn(s), NEW q \in PlacesIn(s), pos[p] = pos[q] PROVE p = q
    <2>1. /\ p[1] \in 1..n /\ q[1] \in 1..n /\ p[2] \in Nat /\ q[2] \in Nat
          /\ p = <<p[1], p[2]>> /\ q = <<q[1], q[2]>>
      BY DEF PlacesIn
    <2>2. at(p) = at(q)
      BY <1>10
    <2>3. ASSUME NEW x \in PlacesIn(s), NEW y \in PlacesIn(s), x[1] < y[1] PROVE at(x) < at(y)
      <3>1. x[1] \in 1..n /\ y[1] \in 1..n
        BY DEF PlacesIn
      <3>2. x[1] \in 0..n /\ y[1] - 1 \in x[1]..n /\ y[1] - 1 \in 0..n
        BY <1>1, <2>3, <3>1
      <3>3. Len(flat(x[1])) <= Len(flat(y[1] - 1))
        BY <1>3, <3>2
      <3>4. Len(flat(x[1])) \in Nat /\ Len(flat(y[1] - 1)) \in Nat
        BY <1>4, <3>2
      <3>5. at(x) \in 1..Len(flat(x[1])) /\ Len(flat(y[1] - 1)) < at(y) /\ at(y) \in Nat
        BY <1>7
      <3> HIDE DEF at
      <3> QED BY <3>3, <3>4, <3>5
    <2>4. at(p) \in Nat /\ at(q) \in Nat
      BY <1>7
    <2>5. p[1] = q[1]
      <3> HIDE DEF at
      <3>1. ~(p[1] < q[1]) /\ ~(q[1] < p[1])
        BY <2>2, <2>3, <2>4
      <3> QED BY <2>1, <3>1
    <2>6. Len(flat(p[1] - 1)) \in Nat
      <3>1. p[1] - 1 \in 0..n
        BY <1>1, <2>1
      <3> QED BY <1>4, <3>1
    <2>7. p[2] = q[2]
      BY <2>1, <2>2, <2>5, <2>6
    <2> QED BY <2>1, <2>5, <2>7
  <1>11. ASSUME NEW i \in 1..Len(flat(n)) PROVE \E p \in PlacesIn(s) : pos[p] = i
    <2> DEFINE Met(k) == \A x \in 1..Len(flat(k)) : \E p \in PlacesIn(s) : at(p) = x
               S == {k \in Nat : k <= n => Met(k)}
    <2>1. 0 \in S
      BY <1>2
    <2>2. ASSUME NEW k \in Nat, k \in S PROVE k + 1 \in S
      <3> SUFFICES ASSUME k + 1 <= n, NEW x \in 1..Len(flat(k + 1))
                   PROVE  \E p \in PlacesIn(s) : at(p) = x
        OBVIOUS
      <3>1. k + 1 \in 1..n /\ (k + 1) - 1 = k /\ k \in 0..n /\ k + 1 \in 0..n
        BY <1>1
      <3>2. Len(flat(k + 1)) = Len(flat(k)) + Len(s[k + 1])
        BY <1>6, <3>1
      <3>3. Len(flat(k)) \in Nat /\ Len(s[k + 1]) \in Nat /\ Len(flat(k + 1)) \in Nat
        BY <1>4, <1>5, <3>1
      <3>4. CASE x <= Len(flat(k))
        <4>1. x \in 1..Len(flat(k)) /\ Met(k)
          <5> HIDE DEF Met
          <5> QED BY <2>2, <3>1, <3>3, <3>4
        <4> QED BY <4>1
      <3>5. CASE ~(x <= Len(flat(k)))
        <4> DEFINE j == x - Len(flat(k))
                   p == <<k + 1, j>>
        <4>1. j \in 1..Len(s[k + 1]) /\ Len(flat(k)) + j = x /\ j \in Nat
          BY <3>2, <3>3, <3>5
        <4> HIDE DEF j
        <4>2. p \in PlacesIn(s)
          BY <3>1, <4>1 DEF PlacesIn
        <4>3. at(p) = x
          BY <3>1, <4>1
        <4> QED BY <4>2, <4>3
      <3> QED BY <3>4, <3>5
    <2> HIDE DEF S
    <2>3. n \in S
      BY <1>1, <2>1, <2>2, Induction
    <2>4. \E p \in PlacesIn(s) : at(p) = i
      BY <1>1, <2>3 DEF S
    <2> QED BY <2>4
  <1> HIDE DEF pos
  <1>12. Flattened(pos, s)
    BY <1>1, <1>8, <1>9, <1>10, <1>11 DEF Flattened
  <1>13. FlattenSeq(s) \in Seq(T)
    <2>1. n \in 0..n
      BY <1>1
    <2> QED BY <1>1, <1>4, <2>1
  <1> QED BY <1>12, <1>13

-----------------------------------------------------------------------------
(* Sums, term by term. *)

(* The term a sum has for x, if any.                                       *)
TermAt(f, x) == IF x \in DOMAIN f THEN f[x] ELSE 0

(* A sum is its term for x and the sum of the others.                      *)
SplitsAt(f, D, x) ==
    LET rest == SumFunction([y \in D \ {x} |-> f[y]])
    IN  /\ rest \in Int /\ SumFunction(f) \in Int /\ TermAt(f, x) \in Int
        /\ SumFunction(f) = TermAt(f, x) + rest

(* So it is for any x and any sum of integers.                             *)
LEMMA SumSplit ==
    ASSUME NEW D, IsFiniteSet(D), NEW f \in [D -> Int], NEW x
    PROVE  SplitsAt(f, D, x)
  <1> USE DEF SplitsAt
  <1> DEFINE E == D \ {x}
             e == [y \in E |-> f[y]]
  <1>1. IsFiniteSet(E) /\ e \in [E -> Int]
    BY FS_Subset
  <1>2. SumFunction(e) \in Int /\ SumFunction(f) \in Int /\ DOMAIN f = D
    <2> HIDE DEF e, E
    <2> QED BY <1>1, SumFacts
  <1>3. CASE x \in D
    <2>1. SumFunction(f) = f[x] + SumFunction(e)
      BY <1>3, SumFacts
    <2>2. TermAt(f, x) = f[x] /\ f[x] \in Int
      BY <1>2, <1>3 DEF TermAt
    <2> QED BY <1>2, <2>1, <2>2
  <1>4. CASE x \notin D
    <2>1. E = D /\ e = f
      BY <1>4
    <2>2. TermAt(f, x) = 0
      BY <1>2, <1>4 DEF TermAt
    <2> HIDE DEF e, E
    <2>3. SumFunction(f) = TermAt(f, x) + SumFunction(e)
      BY <1>2, <2>1, <2>2
    <2> QED BY <1>2, <2>2, <2>3 DEF e, E
  <1> QED BY <1>3, <1>4

(* Sums that differ in one term.                                           *)
LEMMA SumsDiffer ==
    ASSUME NEW D, IsFiniteSet(D), NEW f \in [D -> Int],
           NEW E, IsFiniteSet(E), NEW g \in [E -> Int],
           NEW x, D \ {x} = E \ {x}, \A y \in D \ {x} : f[y] = g[y]
    PROVE  SumFunction(g) = SumFunction(f) - TermAt(f, x) + TermAt(g, x)
  <1> DEFINE rf == [y \in D \ {x} |-> f[y]]
             rg == [y \in E \ {x} |-> g[y]]
  <1>1. rf = rg
    OBVIOUS
  <1>2. /\ SumFunction(rf) \in Int /\ SumFunction(f) \in Int /\ TermAt(f, x) \in Int
        /\ SumFunction(f) = TermAt(f, x) + SumFunction(rf)
    <2>1. SplitsAt(f, D, x)
      BY SumSplit
    <2> QED BY <2>1 DEF SplitsAt
  <1>3. /\ SumFunction(rg) \in Int /\ SumFunction(g) \in Int /\ TermAt(g, x) \in Int
        /\ SumFunction(g) = TermAt(g, x) + SumFunction(rg)
    <2>1. SplitsAt(g, E, x)
      BY SumSplit
    <2> QED BY <2>1 DEF SplitsAt
  <1> HIDE DEF rf, rg
  <1> QED BY <1>1, <1>2, <1>3

(* The sum of the first n terms.                                           *)
Partial(f, n) == SumFunction([k \in 1..n |-> f[k]])

(* It grows term by term.                                                  *)
LEMMA PartialSums ==
    ASSUME NEW l \in Nat, NEW f \in [1..l -> Int]
    PROVE  /\ Partial(f, 0) = 0 /\ Partial(f, l) = SumFunction(f)
           /\ \A n \in 0..l : Partial(f, n) \in Int
           /\ \A n \in 1..l : Partial(f, n) = Partial(f, n - 1) + f[n]
  <1>1. ASSUME NEW n \in 0..l
        PROVE  /\ IsFiniteSet(1..n) /\ [k \in 1..n |-> f[k]] \in [1..n -> Int]
               /\ Partial(f, n) \in Int
    <2> DEFINE D == 1..n
               g == [k \in D |-> f[k]]
    <2>1. IsFiniteSet(D)
      BY FS_Interval
    <2>2. g \in [D -> Int]
      OBVIOUS
    <2> HIDE DEF g, D
    <2>3. SumFunction(g) \in Int
      BY <2>1, <2>2, SumFacts
    <2> QED BY <2>1, <2>2, <2>3 DEF g, D, Partial
  <1>2. Partial(f, 0) = 0
    <2> DEFINE D == 1..0
               g == [k \in D |-> f[k]]
    <2>1. D = {} /\ IsFiniteSet(D) /\ g \in [D -> Int]
      BY <1>1
    <2> HIDE DEF g, D
    <2>2. SumFunction(g) = 0
      BY <2>1, SumFacts
    <2> QED BY <2>2 DEF g, D, Partial
  <1>3. [k \in 1..l |-> f[k]] = f
    OBVIOUS
  <1>4. ASSUME NEW n \in 1..l PROVE Partial(f, n) = Partial(f, n - 1) + f[n]
    <2> DEFINE D == 1..n
               g == [k \in D |-> f[k]]
               less == [k \in D \ {n} |-> g[k]]
    <2>1. n \in 0..l /\ n - 1 \in 0..l /\ n \in D /\ D \ {n} = 1..(n - 1)
      OBVIOUS
    <2>2. IsFiniteSet(D) /\ g \in [D -> Int]
      BY <1>1, <2>1
    <2>3. less = [k \in 1..(n - 1) |-> f[k]]
      BY <2>1
    <2>4. g[n] = f[n] /\ f[n] \in Int
      BY <2>1
    <2> HIDE DEF g, D
    <2>5. SumFunction(g) = g[n] + SumFunction(less)
      <3>1. \A x \in D : SumFunction(g) = g[x] + SumFunction([y \in D \ {x} |-> g[y]])
        BY <2>2, SumFacts
      <3> QED BY <2>1, <3>1
    <2>6. SumFunction(less) = Partial(f, n - 1) /\ SumFunction(g) = Partial(f, n)
      BY <2>3 DEF Partial, g, D
    <2>7. Partial(f, n - 1) \in Int
      BY <1>1, <2>1
    <2> QED BY <2>4, <2>5, <2>6, <2>7
  <1> QED BY <1>1, <1>2, <1>3, <1>4 DEF Partial

(* Sums of one and of two terms.                                           *)
LEMMA SumOfFew ==
    ASSUME NEW l \in {1, 2}, NEW f \in [1..l -> Int]
    PROVE  /\ l = 1 => SumFunction(f) = f[1]
           /\ l = 2 => SumFunction(f) = f[1] + f[2]
  <1>1. /\ Partial(f, 0) = 0 /\ Partial(f, l) = SumFunction(f)
        /\ \A n \in 1..l : Partial(f, n) = Partial(f, n - 1) + f[n]
    BY PartialSums
  <1>2. Partial(f, 1) = f[1]
    <2>1. 1 \in 1..l /\ f[1] \in Int
      OBVIOUS
    <2>2. Partial(f, 1) = Partial(f, 1 - 1) + f[1]
      BY <1>1, <2>1
    <2> QED BY <1>1, <2>1, <2>2
  <1>3. CASE l = 1
    BY <1>1, <1>2, <1>3
  <1>4. CASE l = 2
    <2>1. Partial(f, 2) = Partial(f, 2 - 1) + f[2]
      BY <1>1, <1>4
    <2> QED BY <1>1, <1>2, <1>4, <2>1
  <1> QED BY <1>3, <1>4

=============================================================================
