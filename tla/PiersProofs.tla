---------------------------- MODULE PiersProofs ----------------------------
(***************************************************************************)
(* Theorems about Piers, for any ships, handlers and bounds.               *)
(***************************************************************************)
EXTENDS Piers, SequenceTheorems, FiniteSetTheorems, WellFoundedInduction, TLAPS

-----------------------------------------------------------------------------
(* Numbers and arrays *)

\* A set of naturals that is not empty has a least member.
LEMMA LeastOf ==
  ASSUME NEW S, S \subseteq Nat, S # {}
  PROVE  \E t \in S : \A u \in S : t <= u
<1>1. PICK t \in S : \A u \in S : ~(<<u, t>> \in OpToRel(<, Nat))
  BY NatLessThanWellFounded, WFMin
<1>2. ASSUME NEW u \in S PROVE t <= u
  <2>1. u \in Nat /\ t \in Nat
    BY <1>2
  <2>2. <<u, t>> \in Nat \X Nat /\ <<u, t>>[1] = u /\ <<u, t>>[2] = t
    BY <2>1
  <2>3. ~(<<u, t>>[1] < <<u, t>>[2])
    BY <1>1, <2>2 DEF OpToRel
  <2> QED
    BY <2>1, <2>2, <2>3
<1> QED
  BY <1>2

\* Max of a set of naturals with a bound.
LEMMA MaxOf ==
  ASSUME NEW S, NEW b \in Nat, S \subseteq 0..b, S # {}
  PROVE  Max(S) \in S /\ \A y \in S : Max(S) >= y
<1> DEFINE T == {k \in 0..b : b - k \in S}
<1>1. T \subseteq Nat /\ T # {}
  <2>1. PICK x \in S : TRUE
    OBVIOUS
  <2>2. b - x \in 0..b /\ b - (b - x) = x
    OBVIOUS
  <2>3. b - x \in T
    BY <2>1, <2>2
  <2> QED
    BY <2>3
<1> HIDE DEF T
<1>2. PICK t \in T : \A u \in T : t <= u
  BY <1>1, LeastOf
<1>3. t \in 0..b /\ b - t \in S
  BY <1>2 DEF T
<1>4. ASSUME NEW y \in S PROVE b - t >= y
  <2>1. b - y \in 0..b /\ b - (b - y) = y
    OBVIOUS
  <2>2. b - y \in T
    BY <2>1 DEF T
  <2> QED
    BY <1>2, <1>3, <2>2
<1> QED
  BY <1>3, <1>4 DEF Max

\* A grown array is large enough.
LEMMA GrownFits ==
  ASSUME NEW cap, NEW n \in Nat
  PROVE  Grown(cap, n) \in Nat /\ n <= Grown(cap, n)
<1> DEFINE c == IF cap = 0 THEN 1 ELSE cap
           S == {d \in n..(2 * n) : d = 2 * n \/ \E k \in 0..n : d = c * 2^k}
<1>1. S \subseteq n..(2 * n) /\ 2 * n \in S
  OBVIOUS
<1>2. Grown(cap, n) = Min(S)
  BY DEF Grown
<1> HIDE DEF S
<1>3. S \subseteq Nat /\ S # {}
  BY <1>1
<1>4. PICK t \in S : \A u \in S : t <= u
  BY <1>3, LeastOf
<1>5. Min(S) \in S
  BY <1>4 DEF Min
<1>6. Min(S) \in n..(2 * n)
  BY <1>1, <1>5
<1>7. Min(S) \in Nat /\ n <= Min(S)
  BY <1>6
<1> QED
  BY <1>2, <1>7

LEMMA ArraysFinite ==
  /\ Cardinality(Handlers) \in Nat
  /\ IsFiniteSet(Arrays) /\ Cardinality(Arrays) = Cardinality(Handlers) + 3
  /\ Nil \in Arrays /\ 1 \in Arrays
<1>1. Cardinality(Handlers) \in Nat
  BY PiersAssumption, FS_CardinalityType
<1> QED
  BY <1>1, FS_Interval DEF Arrays, Nil

\* There are more arrays than slices.
LEMMA ArrayFree ==
  ASSUME NEW g, NEW f
  PROVE  \E a \in Arrays : a \notin Live(g, f)
<1> DEFINE used == {f[h].slice.arr : h \in Handlers}
           arrOf == [h \in Handlers |-> f[h].slice.arr]
<1>1. arrOf \in Surjection(Handlers, used)
  BY DEF Surjection
<1>2. IsFiniteSet(used) /\ Cardinality(used) <= Cardinality(Handlers)
  BY <1>1, FS_Surjection, PiersAssumption
<1>5. Live(g, f) = (used \cup {Nil}) \cup {g.arr}
  BY DEF Live
<1> HIDE DEF used
<1>3. /\ IsFiniteSet(used \cup {Nil}) /\ Cardinality(used \cup {Nil}) \in Nat
      /\ Cardinality(used \cup {Nil}) <= Cardinality(Handlers) + 1
  <2>1. Cardinality(used) \in Nat
    BY <1>2, FS_CardinalityType
  <2>2. /\ IsFiniteSet(used \cup {Nil})
        /\ \/ Cardinality(used \cup {Nil}) = Cardinality(used)
           \/ Cardinality(used \cup {Nil}) = Cardinality(used) + 1
    BY <1>2, FS_AddElement
  <2> QED
    BY <1>2, <2>1, <2>2, ArraysFinite
<1>4. /\ IsFiniteSet((used \cup {Nil}) \cup {g.arr})
      /\ Cardinality((used \cup {Nil}) \cup {g.arr}) <= Cardinality(Handlers) + 2
  <2> DEFINE held == used \cup {Nil}
  <2> HIDE DEF held
  <2>1. /\ IsFiniteSet(held \cup {g.arr})
        /\ \/ Cardinality(held \cup {g.arr}) = Cardinality(held)
           \/ Cardinality(held \cup {g.arr}) = Cardinality(held) + 1
    BY <1>3, FS_AddElement DEF held
  <2> QED
    BY <1>3, <2>1, ArraysFinite DEF held
<1>6. ASSUME Arrays \subseteq Live(g, f) PROVE FALSE
  <2>1. Cardinality(Arrays) <= Cardinality(Live(g, f))
    BY <1>4, <1>5, <1>6, FS_Subset
  <2>2. Cardinality(Live(g, f)) \in Nat
    BY <1>4, <1>5, FS_CardinalityType
  <2> QED
    BY <1>4, <1>5, <2>1, <2>2, ArraysFinite
<1> QED
  BY <1>6

LEMMA FreshFree == Fresh \in Arrays /\ Fresh \notin Live(piers, hs)
BY ArrayFree DEF Fresh

-----------------------------------------------------------------------------
(* Slices                                                                  *)

Names == Patps \cup {NoPatp}
Heaps == [Arrays -> Seq(Names)]

\* A slice lies inside its array and shows ships.
Fits(hp, s) ==
  /\ s \in Slice /\ s.len <= Len(hp[s.arr])
  /\ \A i \in 1..s.len : hp[s.arr][i] \in Patps

LEMMA ViewOf ==
  ASSUME NEW hp \in Heaps, NEW s, Fits(hp, s)
  PROVE  /\ View(hp, s) \in Seq(Patps) /\ Len(View(hp, s)) = s.len
         /\ \A i \in 1..s.len : View(hp, s)[i] = hp[s.arr][i]
<1>1. s.len \in Nat /\ \A i \in 1..s.len : hp[s.arr][i] \in Patps
  BY DEF Fits, Slice
<1> QED
  BY <1>1, SubSeqProperties DEF View

LEMMA SameView ==
  ASSUME NEW hp, NEW hp2, NEW s, Fits(hp, s), hp2[s.arr] = hp[s.arr]
  PROVE  Fits(hp2, s) /\ View(hp2, s) = View(hp, s)
BY DEF Fits, View

LEMMA NilFits ==
  ASSUME NEW hp \in Heaps
  PROVE  Fits(hp, NilSlice) /\ View(hp, NilSlice) = <<>>
<1>1. NilSlice \in Slice /\ NilSlice.len = 0 /\ NilSlice.arr = Nil
  BY ArraysFinite DEF NilSlice, Slice
<1>2. Len(hp[Nil]) \in Nat
  BY ArraysFinite DEF Heaps
<1>3. SubSeq(hp[Nil], 1, 0) = <<>>
  BY SubSeqEmpty
<1> QED
  BY <1>1, <1>2, <1>3 DEF Fits, View

\* A list in an array with room to spare.
LEMMA FilledOf ==
  ASSUME NEW v \in Seq(Patps), NEW cap \in Nat, Len(v) <= cap
  PROVE  /\ Filled(v, cap) \in Seq(Names) /\ Len(Filled(v, cap)) = cap
         /\ \A i \in 1..Len(v) : Filled(v, cap)[i] = v[i]
<1> DEFINE rest == [i \in 1..(cap - Len(v)) |-> NoPatp]
<1>1. v \in Seq(Names) /\ Len(v) \in Nat
  BY DEF Names
<1>2. rest \in Seq(Names) /\ Len(rest) = cap - Len(v)
  BY <1>1 DEF Names
<1>3. Filled(v, cap) = v \o rest
  BY DEF Filled
<1> HIDE DEF rest
<1>4. /\ v \o rest \in Seq(Names) /\ Len(v \o rest) = Len(v) + Len(rest)
      /\ \A i \in 1..Len(v) + Len(rest) :
           (v \o rest)[i] = IF i <= Len(v) THEN v[i] ELSE rest[i - Len(v)]
  BY <1>1, <1>2, ConcatProperties
<1> QED
  BY <1>1, <1>2, <1>3, <1>4

\* The beginning of an array is written over.
LEMMA WrittenOver ==
  ASSUME NEW q \in Seq(Names), NEW v \in Seq(Names), Len(v) <= Len(q)
  PROVE  LET over == v \o SubSeq(q, Len(v) + 1, Len(q))
         IN  /\ over \in Seq(Names) /\ Len(over) = Len(q)
             /\ \A i \in 1..Len(q) : over[i] = IF i <= Len(v) THEN v[i] ELSE q[i]
<1> DEFINE rest == SubSeq(q, Len(v) + 1, Len(q))
<1>1. /\ Len(v) \in Nat /\ Len(q) \in Nat
      /\ \A i \in (Len(v) + 1)..Len(q) : q[i] \in Names
  OBVIOUS
<1>2. /\ rest \in Seq(Names)
      /\ Len(rest) = IF Len(v) + 1 <= Len(q) THEN Len(q) - (Len(v) + 1) + 1 ELSE 0
      /\ \A i \in 1..(Len(q) - (Len(v) + 1) + 1) : rest[i] = q[(Len(v) + 1) + i - 1]
  BY <1>1, SubSeqProperties
<1>3. Len(rest) = Len(q) - Len(v)
  BY <1>1, <1>2
<1>4. \A i \in (Len(v) + 1)..Len(q) : rest[i - Len(v)] = q[i]
  <2>1. ASSUME NEW i \in (Len(v) + 1)..Len(q) PROVE rest[i - Len(v)] = q[i]
    <3>1. i - Len(v) \in 1..(Len(q) - (Len(v) + 1) + 1)
          /\ (Len(v) + 1) + (i - Len(v)) - 1 = i
      BY <1>1
    <3> HIDE DEF rest
    <3> QED
      BY <1>2, <3>1
  <2> QED
    BY <2>1
<1> HIDE DEF rest
<1>5. /\ v \o rest \in Seq(Names) /\ Len(v \o rest) = Len(v) + Len(rest)
      /\ \A i \in 1..Len(v) + Len(rest) :
           (v \o rest)[i] = IF i <= Len(v) THEN v[i] ELSE rest[i - Len(v)]
  BY <1>2, ConcatProperties
<1>6. Len(v \o rest) = Len(q)
  BY <1>1, <1>3, <1>5
<1>7. \A i \in 1..Len(q) : (v \o rest)[i] = IF i <= Len(v) THEN v[i] ELSE q[i]
  BY <1>1, <1>3, <1>4, <1>5
<1> QED
  BY <1>5, <1>6, <1>7 DEF rest

LEMMA CollectedOf ==
  ASSUME NEW hp \in Heaps, NEW g, NEW f
  PROVE  /\ Collect(hp, g, f) \in Heaps
         /\ \A a \in Arrays : a \in Live(g, f) => Collect(hp, g, f)[a] = hp[a]
<1>1. <<>> \in Seq(Names)
  BY EmptySeq
<1> QED
  BY <1>1 DEF Collect, Heaps

\* What json.Unmarshal leaves: the global slice shows v, and the slices of the
\* handlers, which it may write over, still show ships.
LEMMA DecodedOf ==
  ASSUME heap \in Heaps, Fits(heap, piers), NEW v \in Seq(Patps)
  PROVE  /\ Decoded(v).heap \in Heaps
         /\ Fits(Decoded(v).heap, Decoded(v).piers)
         /\ View(Decoded(v).heap, Decoded(v).piers) = v
         /\ \A s : Fits(heap, s) /\ s.arr # Fresh => Fits(Decoded(v).heap, s)
<1> DEFINE a == piers.arr
           cap == Len(heap[a])
<1>1. a \in Arrays /\ heap[a] \in Seq(Names) /\ cap \in Nat /\ Len(v) \in Nat
      /\ v \in Seq(Names)
  BY DEF Fits, Slice, Heaps, Names
<1>2. CASE v = <<>>
  <2>1. Decoded(v).piers = NilSlice /\ Decoded(v).heap = heap
    BY <1>2 DEF Decoded
  <2> QED
    BY <1>2, <2>1, NilFits
<1>3. CASE v # <<>> /\ Len(v) <= cap
  <2> DEFINE over == v \o SubSeq(heap[a], Len(v) + 1, cap)
             s2 == [arr |-> a, len |-> Len(v)]
             h2 == [heap EXCEPT ![a] = over]
  <2>1. Decoded(v).piers = s2 /\ Decoded(v).heap = h2
    BY <1>3 DEF Decoded
  <2>2. /\ over \in Seq(Names) /\ Len(over) = cap
        /\ \A i \in 1..cap : over[i] = IF i <= Len(v) THEN v[i] ELSE heap[a][i]
    BY <1>1, <1>3, WrittenOver
  <2> HIDE DEF over
  <2>3. h2 \in Heaps /\ h2[a] = over /\ \A b \in Arrays : b # a => h2[b] = heap[b]
    BY <1>1, <2>2 DEF Heaps
  <2>4. s2 \in Slice /\ s2.arr = a /\ s2.len = Len(v)
    BY <1>1 DEF Slice
  <2> HIDE DEF h2, s2
  <2>5. Fits(h2, s2)
    BY <1>1, <1>3, <2>2, <2>3, <2>4 DEF Fits
  <2>6. View(h2, s2) = v
    <3>1. /\ View(h2, s2) \in Seq(Patps) /\ Len(View(h2, s2)) = Len(v)
          /\ \A i \in 1..Len(v) : View(h2, s2)[i] = over[i]
      BY <2>3, <2>4, <2>5, ViewOf
    <3>2. \A i \in 1..Len(v) : over[i] = v[i]
      BY <1>1, <1>3, <2>2
    <3> QED
      BY <3>1, <3>2, SeqEqual
  <2>7. ASSUME NEW s, Fits(heap, s)
        PROVE  Fits(h2, s)
    <3>1. CASE s.arr # a
      BY <2>3, <2>7, <3>1, SameView DEF Fits, Slice
    <3>2. CASE s.arr = a
      <4>1. \A i \in 1..s.len : over[i] \in Patps
        BY <1>1, <2>2, <2>7, <3>2 DEF Fits, Slice
      <4> QED
        BY <2>2, <2>3, <2>7, <3>2, <4>1 DEF Fits
    <3> QED
      BY <3>1, <3>2
  <2> QED
    BY <2>1, <2>3, <2>5, <2>6, <2>7
<1>4. CASE v # <<>> /\ ~(Len(v) <= cap)
  <2> DEFINE first == SubSeq(v, 1, cap)
             large == Filled(v, Grown(cap, Len(v)))
             s2 == [arr |-> Fresh, len |-> Len(v)]
             h2 == [heap EXCEPT ![a] = first, ![Fresh] = large]
  <2>1. Decoded(v).piers = s2 /\ Decoded(v).heap = h2
    BY <1>4 DEF Decoded
  <2>2. Fresh \in Arrays /\ Fresh # a
    BY FreshFree DEF Live
  <2>3. /\ first \in Seq(Names) /\ Len(first) = cap
        /\ \A i \in 1..cap : first[i] = v[i]
    <3>1. \A i \in 1..cap : v[i] \in Names
      BY <1>1, <1>4
    <3> QED
      BY <1>1, <3>1, SubSeqProperties
  <2>4. /\ large \in Seq(Names) /\ Len(large) >= Len(v)
        /\ \A i \in 1..Len(v) : large[i] = v[i]
    <3> DEFINE k == Grown(cap, Len(v))
    <3>1. k \in Nat /\ Len(v) <= k
      BY <1>1, GrownFits
    <3> HIDE DEF k
    <3>2. /\ Filled(v, k) \in Seq(Names) /\ Len(Filled(v, k)) = k
          /\ \A i \in 1..Len(v) : Filled(v, k)[i] = v[i]
      BY <3>1, FilledOf
    <3> QED
      BY <3>1, <3>2 DEF k
  <2> HIDE DEF first, large
  <2>5. /\ h2 \in Heaps /\ h2[a] = first /\ h2[Fresh] = large
        /\ \A b \in Arrays : b # a /\ b # Fresh => h2[b] = heap[b]
    BY <1>1, <2>2, <2>3, <2>4 DEF Heaps
  <2>6. s2 \in Slice /\ s2.arr = Fresh /\ s2.len = Len(v)
    BY <1>1, <2>2 DEF Slice
  <2> HIDE DEF h2, s2
  <2>7. Fits(h2, s2)
    BY <1>1, <2>4, <2>5, <2>6 DEF Fits
  <2>8. View(h2, s2) = v
    <3>1. /\ View(h2, s2) \in Seq(Patps) /\ Len(View(h2, s2)) = Len(v)
          /\ \A i \in 1..Len(v) : View(h2, s2)[i] = large[i]
      BY <2>5, <2>6, <2>7, ViewOf
    <3> QED
      BY <2>4, <3>1, SeqEqual
  <2>9. ASSUME NEW s, Fits(heap, s), s.arr # Fresh
        PROVE  Fits(h2, s)
    <3>1. CASE s.arr # a
      BY <2>5, <2>9, <3>1, SameView DEF Fits, Slice
    <3>2. CASE s.arr = a
      <4>1. \A i \in 1..s.len : first[i] \in Patps
        BY <1>1, <1>4, <2>3, <2>9, <3>2 DEF Fits, Slice
      <4> QED
        BY <2>3, <2>5, <2>9, <3>2, <4>1 DEF Fits
    <3> QED
      BY <3>1, <3>2
  <2> QED
    BY <2>1, <2>5, <2>7, <2>8, <2>9
<1> QED
  BY <1>2, <1>3, <1>4

-----------------------------------------------------------------------------
(* Lists                                                                   *)

\* The loop of Others over the first n ships of v.
Keeps(kept, v, p, n) ==
  kept = [m \in 0..n |->
            IF m = 0 THEN <<>>
            ELSE IF v[m] = p THEN kept[m - 1] ELSE Append(kept[m - 1], v[m])]

\* The loop is defined: no n is the least for which it is not.
LEMMA KeptDefined ==
  ASSUME NEW v, NEW p, NEW n \in Nat
  PROVE  \E kept : Keeps(kept, v, p, n)
<1> USE DEF Keeps
<1> DEFINE Is(G, k) == Keeps(G, v, p, k)
           Bad == {k \in Nat : ~\E G : Is(G, k)}
<1>1. ASSUME Bad # {} PROVE FALSE
  <2>1. Bad \subseteq Nat
    OBVIOUS
  <2> HIDE DEF Bad
  <2>2. PICK t \in Bad : \A u \in Bad : t <= u
    BY <1>1, <2>1, LeastOf
  <2>3. t \in Nat /\ ~\E G : Is(G, t)
    BY <2>2 DEF Bad
  <2>4. CASE t = 0
    <3>1. Is([m \in 0..0 |-> <<>>], 0)
      OBVIOUS
    <3> QED
      BY <2>3, <2>4, <3>1
  <2>5. CASE t # 0
    <3>1. t - 1 \in Nat /\ t - 1 \notin Bad
      BY <2>2, <2>3, <2>5
    <3>2. PICK G : Is(G, t - 1)
      BY <3>1 DEF Bad
    <3> DEFINE last == IF v[t] = p THEN G[t - 1] ELSE Append(G[t - 1], v[t])
               H == [m \in 0..t |-> IF m = t THEN last ELSE G[m]]
    <3>3. Is(H, t)
      <4>1. ASSUME NEW m \in 0..t
            PROVE  H[m] = IF m = 0 THEN <<>>
                          ELSE IF v[m] = p THEN H[m - 1] ELSE Append(H[m - 1], v[m])
        <5>1. CASE m = 0
          BY <2>5, <3>1, <3>2, <5>1
        <5>2. CASE m = t
          <6>1. H[m - 1] = G[t - 1] /\ H[m] = last
            BY <2>3, <2>5, <5>2
          <6> QED
            BY <2>5, <5>2, <6>1
        <5>3. CASE m \in 1..(t - 1)
          <6>1. H[m] = G[m] /\ H[m - 1] = G[m - 1]
            BY <2>3, <5>3
          <6>2. m \in 0..(t - 1) /\ m # 0
            BY <2>3, <5>3
          <6>3. G[m] = IF m = 0 THEN <<>>
                       ELSE IF v[m] = p THEN G[m - 1] ELSE Append(G[m - 1], v[m])
            BY <3>2, <6>2, Zenon
          <6> HIDE DEF H
          <6> QED
            BY <6>1, <6>2, <6>3
        <5> QED
          BY <2>3, <5>1, <5>2, <5>3
      <4>2. H = [m \in 0..t |-> H[m]]
        OBVIOUS
      <4> HIDE DEF H
      <4> QED
        BY <4>1, <4>2
    <3> QED
      BY <2>3, <3>3
  <2> QED
    BY <2>4, <2>5
<1> QED
  BY <1>1

\* Others drops every occurrence of the ship, and keeps the rest once each if
\* it was there once.
LEMMA OthersOf ==
  ASSUME heap \in Heaps, NEW s, Fits(heap, s), NEW p
  PROVE  /\ Others(s, p) \in Seq(Patps)
         /\ Range(Others(s, p)) = Range(Contents(s)) \ {p}
         /\ IsInjective(Contents(s)) => IsInjective(Others(s, p))
<1> DEFINE v == Contents(s)
           kept == CHOOSE G : Keeps(G, v, p, Len(v))
           seen(m) == {v[i] : i \in 1..m} \ {p}
           Good(m) == /\ kept[m] \in Seq(Patps)
                      /\ Range(kept[m]) = seen(m)
                      /\ IsInjective(v) => IsInjective(kept[m])
           Bad == {m \in 0..Len(v) : ~Good(m)}
<1>1. v \in Seq(Patps) /\ Len(v) \in Nat
  BY ViewOf DEF Contents
<1>2. Others(s, p) = kept[Len(v)]
  BY DEF Others, Keeps
<1>3. \A m \in 0..Len(v) :
        kept[m] = IF m = 0 THEN <<>>
                  ELSE IF v[m] = p THEN kept[m - 1] ELSE Append(kept[m - 1], v[m])
  <2> HIDE DEF v
  <2>1. \E G : Keeps(G, v, p, Len(v))
    BY <1>1, KeptDefined
  <2>2. Keeps(kept, v, p, Len(v))
    BY <2>1, Zenon
  <2> HIDE DEF kept
  <2> QED
    BY <2>2, Zenon DEF Keeps
<1>4. Range(v) \ {p} = seen(Len(v))
  BY <1>1, RangeEquality
<1> HIDE DEF v, kept
<1>5. ASSUME Bad # {} PROVE FALSE
  <2>1. Bad \subseteq Nat
    BY <1>1
  <2>2. PICK t \in Bad : \A u \in Bad : t <= u
    <3> HIDE DEF Bad
    <3> QED
      BY <1>5, <2>1, LeastOf
  <2>3. t \in 0..Len(v) /\ ~Good(t)
    BY <2>2
  <2>4. t # 0
    <3>1. kept[0] = <<>>
      BY <1>1, <1>3
    <3>2. <<>> \in Seq(Patps) /\ Range(<<>>) = {} /\ IsInjective(<<>>)
      BY EmptySeq DEF Range, IsInjective
    <3>3. seen(0) = {}
      OBVIOUS
    <3> QED
      BY <2>3, <3>1, <3>2, <3>3
  <2>5. t \in 1..Len(v) /\ t - 1 \in 0..Len(v)
    BY <1>1, <2>3, <2>4
  <2>6. Good(t - 1)
    <3>1. t - 1 \notin Bad
      <4> HIDE DEF Bad
      <4> QED
        BY <2>2, <2>3, <2>5
    <3> HIDE DEF Good
    <3> QED
      BY <2>5, <3>1
  <2>7. kept[t] = IF v[t] = p THEN kept[t - 1] ELSE Append(kept[t - 1], v[t])
    BY <1>3, <2>3, <2>4
  <2>8. v[t] \in Patps /\ \A i \in 1..(t - 1) : i \in 1..Len(v)
    BY <1>1, <2>5
  <2>9. \A i \in 1..t : i = t \/ i \in 1..(t - 1)
    BY <2>5
  <2>10. CASE v[t] = p
    <3>1. seen(t) = seen(t - 1)
      BY <2>5, <2>9, <2>10
    <3> QED
      BY <2>3, <2>6, <2>7, <2>10, <3>1
  <2>11. CASE v[t] # p
    <3> DEFINE k == kept[t - 1]
               k2 == Append(k, v[t])
    <3>1. kept[t] = k2 /\ k \in Seq(Patps)
      BY <2>6, <2>7, <2>11
    <3>2. seen(t) = seen(t - 1) \cup {v[t]}
      BY <2>5, <2>9, <2>11
    <3>3. /\ k2 \in Seq(Patps) /\ Len(k2) = Len(k) + 1 /\ Len(k) \in Nat
          /\ \A i \in 1..Len(k) : k2[i] = k[i]
          /\ k2[Len(k) + 1] = v[t]
      BY <2>8, <3>1, AppendProperties
    <3>4. Range(k) = {k[i] : i \in 1..Len(k)} /\ Range(k2) = {k2[i] : i \in 1..Len(k2)}
      BY <3>1, <3>3, RangeEquality
    <3>5. Range(k2) = Range(k) \cup {v[t]}
      <4> HIDE DEF k, k2
      <4>1. \A i \in 1..Len(k2) : i = Len(k) + 1 \/ i \in 1..Len(k)
        BY <3>3
      <4>2. \A i \in 1..Len(k) : i \in 1..Len(k2)
        BY <3>3
      <4>3. Len(k) + 1 \in 1..Len(k2)
        BY <3>3
      <4> QED
        BY <3>3, <3>4, <4>1, <4>2, <4>3
    <3>6. ASSUME IsInjective(v) PROVE IsInjective(k2)
      <4>1. IsInjective(k)
        BY <2>6, <3>6
      <4>2. v[t] \notin seen(t - 1)
        <5>1. DOMAIN v = 1..Len(v)
          BY <1>1
        <5>2. ASSUME NEW i \in 1..(t - 1), v[i] = v[t] PROVE FALSE
          BY <2>5, <2>8, <3>6, <5>1, <5>2 DEF IsInjective
        <5> QED
          BY <5>2
      <4>3. v[t] \notin Range(k)
        BY <2>6, <4>2
      <4>4. DOMAIN k2 = 1..Len(k2) /\ DOMAIN k = 1..Len(k)
        BY <3>1, <3>3
      <4> HIDE DEF k, k2
      <4>5. ASSUME NEW i \in 1..Len(k2), NEW j \in 1..Len(k2), k2[i] = k2[j]
            PROVE  i = j
        <5>1. CASE i \in 1..Len(k) /\ j \in 1..Len(k)
          BY <3>3, <4>1, <4>4, <4>5, <5>1 DEF IsInjective
        <5>2. CASE i = Len(k) + 1 /\ j \in 1..Len(k)
          BY <3>3, <3>4, <4>3, <4>5, <5>2
        <5>3. CASE j = Len(k) + 1 /\ i \in 1..Len(k)
          BY <3>3, <3>4, <4>3, <4>5, <5>3
        <5> QED
          BY <3>3, <5>1, <5>2, <5>3
      <4> QED
        BY <4>4, <4>5 DEF IsInjective
    <3> QED
      BY <2>3, <2>6, <3>1, <3>2, <3>3, <3>5, <3>6
  <2> QED
    BY <2>10, <2>11
<1>6. Good(Len(v))
  <2>1. Len(v) \notin Bad /\ Len(v) \in 0..Len(v)
    <3> HIDE DEF Bad
    <3> QED
      BY <1>1, <1>5
  <2> HIDE DEF Good
  <2> QED
    BY <2>1
<1> QED
  BY <1>2, <1>4, <1>6 DEF v

LEMMA RemovedAt ==
  ASSUME NEW v \in Seq(Patps), NEW i \in 1..Len(v)
  PROVE  /\ RemoveAt(v, i) \in Seq(Patps) /\ Len(RemoveAt(v, i)) = Len(v) - 1
         /\ \A k \in 1..(Len(v) - 1) :
              RemoveAt(v, i)[k] = IF k < i THEN v[k] ELSE v[k + 1]
         /\ IsInjective(v) => /\ IsInjective(RemoveAt(v, i))
                              /\ Range(RemoveAt(v, i)) = Range(v) \ {v[i]}
<1> DEFINE r == RemoveAt(v, i)
           s1 == SubSeq(v, 1, i - 1)
           s2 == SubSeq(v, i + 1, Len(v))
<1>1. Len(v) \in Nat /\ i \in Nat /\ 1 <= i /\ i <= Len(v)
  OBVIOUS
<1>2. /\ s1 \in Seq(Patps) /\ Len(s1) = i - 1
      /\ \A k \in 1..(i - 1) : s1[k] = v[k]
  <2>1. \A k \in 1..(i - 1) : v[k] \in Patps
    BY <1>1
  <2> QED
    BY <1>1, <2>1, SubSeqProperties
<1>3. /\ s2 \in Seq(Patps) /\ Len(s2) = Len(v) - i
      /\ \A k \in 1..(Len(v) - i) : s2[k] = v[i + k]
  <2>1. \A k \in (i + 1)..Len(v) : v[k] \in Patps
    BY <1>1
  <2> QED
    BY <1>1, <2>1, SubSeqProperties
<1>4. r = s1 \o s2
  BY DEF RemoveAt
<1> HIDE DEF s1, s2, r
<1>5. /\ r \in Seq(Patps) /\ Len(r) = Len(s1) + Len(s2)
      /\ \A k \in 1..(Len(s1) + Len(s2)) :
           r[k] = IF k <= Len(s1) THEN s1[k] ELSE s2[k - Len(s1)]
  BY <1>2, <1>3, <1>4, ConcatProperties
<1>6. Len(r) = Len(v) - 1
  BY <1>1, <1>2, <1>3, <1>5
<1>7. \A k \in 1..(Len(v) - 1) : r[k] = IF k < i THEN v[k] ELSE v[k + 1]
  <2>0. \A k \in 1..(Len(v) - 1) : r[k] = IF k <= i - 1 THEN s1[k] ELSE s2[k - (i - 1)]
    <3>1. Len(s1) + Len(s2) = Len(v) - 1
      BY <1>1, <1>2, <1>3
    <3>2. \A k \in 1..(Len(v) - 1) : r[k] = IF k <= Len(s1) THEN s1[k] ELSE s2[k - Len(s1)]
      BY <1>5, <3>1
    <3> QED
      BY <1>2, <3>2
  <2>1. ASSUME NEW k \in 1..(Len(v) - 1), k < i PROVE r[k] = v[k]
    <3>1. k \in 1..(i - 1) /\ k <= i - 1
      BY <1>1, <2>1
    <3> QED
      BY <1>2, <2>0, <3>1
  <2>2. ASSUME NEW k \in 1..(Len(v) - 1), ~(k < i) PROVE r[k] = v[k + 1]
    <3>1. k - (i - 1) \in 1..(Len(v) - i) /\ ~(k <= i - 1)
      BY <1>1, <2>2
    <3>2. i + (k - (i - 1)) = k + 1
      BY <1>1
    <3> QED
      BY <1>3, <2>0, <3>1, <3>2
  <2> QED
    BY <2>1, <2>2
<1>8. DOMAIN v = 1..Len(v) /\ DOMAIN r = 1..Len(r)
  BY <1>5
<1>9. ASSUME IsInjective(v)
      PROVE  IsInjective(r) /\ Range(r) = Range(v) \ {v[i]}
  <2> DEFINE from(k) == IF k < i THEN k ELSE k + 1
  <2>1. \A k \in 1..(Len(v) - 1) : from(k) \in 1..Len(v) /\ from(k) # i /\ r[k] = v[from(k)]
    BY <1>1, <1>7
  <2>2. \A k, l \in 1..(Len(v) - 1) : from(k) = from(l) => k = l
    BY <1>1
  <2>3. ASSUME NEW j \in 1..Len(v), j # i
        PROVE  \E k \in 1..(Len(v) - 1) : j = from(k)
    <3>1. CASE j < i
      BY <1>1, <3>1
    <3>2. CASE ~(j < i)
      <4>1. j - 1 \in 1..(Len(v) - 1) /\ from(j - 1) = j
        BY <1>1, <2>3, <3>2
      <4> QED
        BY <4>1
    <3> QED
      BY <3>1, <3>2
  <2> HIDE DEF from
  <2>4. IsInjective(r)
    BY <1>6, <1>8, <1>9, <2>1, <2>2 DEF IsInjective
  <2>5. \A j, k \in 1..Len(v) : v[j] = v[k] => j = k
    BY <1>8, <1>9 DEF IsInjective
  <2>6. Range(r) = {r[k] : k \in 1..(Len(v) - 1)} /\ Range(v) = {v[k] : k \in 1..Len(v)}
    BY <1>5, <1>6, RangeEquality
  <2>7. ASSUME NEW x \in Range(r) PROVE x \in Range(v) \ {v[i]}
    BY <2>1, <2>5, <2>6
  <2>8. ASSUME NEW x \in Range(v), x # v[i] PROVE x \in Range(r)
    <3>1. PICK j \in 1..Len(v) : x = v[j]
      BY <2>6
    <3>2. PICK k \in 1..(Len(v) - 1) : j = from(k)
      BY <2>3, <2>8, <3>1
    <3> QED
      BY <2>1, <2>6, <3>1, <3>2
  <2> QED
    BY <2>4, <2>7, <2>8
<1> QED
  BY <1>5, <1>6, <1>7, <1>9 DEF r

\* One more ship at the end.
LEMMA AppendedTo ==
  ASSUME NEW v \in Seq(Patps), NEW p \in Patps
  PROVE  /\ Append(v, p) \in Seq(Patps) /\ Len(Append(v, p)) = Len(v) + 1
         /\ Range(Append(v, p)) = Range(v) \cup {p}
         /\ IsInjective(v) /\ p \notin Range(v) => IsInjective(Append(v, p))
<1> DEFINE r == Append(v, p)
<1>1. /\ r \in Seq(Patps) /\ Len(r) = Len(v) + 1 /\ Len(v) \in Nat
      /\ \A i \in 1..Len(v) : r[i] = v[i]
      /\ r[Len(v) + 1] = p
  BY AppendProperties
<1>2. Range(r) = {r[k] : k \in 1..Len(r)} /\ Range(v) = {v[k] : k \in 1..Len(v)}
  BY <1>1, RangeEquality
<1>3. DOMAIN v = 1..Len(v) /\ DOMAIN r = 1..Len(r)
  BY <1>1
<1> HIDE DEF r
<1>4. /\ \A i \in 1..Len(r) : i = Len(v) + 1 \/ i \in 1..Len(v)
      /\ \A i \in 1..Len(v) : i \in 1..Len(r)
      /\ Len(v) + 1 \in 1..Len(r)
  BY <1>1
<1>5. Range(r) = Range(v) \cup {p}
  BY <1>1, <1>2, <1>4
<1>6. ASSUME IsInjective(v), p \notin Range(v) PROVE IsInjective(r)
  <2>1. ASSUME NEW i \in 1..Len(r), NEW j \in 1..Len(r), r[i] = r[j]
        PROVE  i = j
    <3>1. CASE i \in 1..Len(v) /\ j \in 1..Len(v)
      BY <1>1, <1>3, <1>6, <2>1, <3>1 DEF IsInjective
    <3>2. CASE i = Len(v) + 1 /\ j \in 1..Len(v)
      BY <1>1, <1>2, <1>6, <2>1, <3>2
    <3>3. CASE j = Len(v) + 1 /\ i \in 1..Len(v)
      BY <1>1, <1>2, <1>6, <2>1, <3>3
    <3> QED
      BY <1>4, <3>1, <3>2, <3>3
  <2> QED
    BY <1>3, <2>1 DEF IsInjective
<1> QED
  BY <1>1, <1>5, <1>6 DEF r

-----------------------------------------------------------------------------
(* Types                                                                   *)

\* All slices fit their arrays.
AllFit(hp, g, f) ==
  /\ hp \in Heaps /\ Fits(hp, g) /\ \A h \in Handlers : Fits(hp, f[h].slice)
\* Handlers at work have a ship.
Works(f) ==
  /\ f \in [Handlers -> Handler]
  /\ \A h \in Handlers : IF f[h].pc = "idle" THEN f[h] = Idle ELSE f[h].patp \in Patps
Ports0 == [Patps -> 0..MaxPort]
DockTypes == cont \in [Patps -> {"none", "created", "started"}] /\ vols \subseteq Patps
             /\ killed \subseteq Patps

LEMMA TypeParts ==
  TypeOK <=> /\ AllFit(heap, piers, hs) /\ Works(hs) /\ disk \in Seq(Patps)
             /\ unsaved \in BOOLEAN /\ urb \in Ports0 /\ files \in Ports0 /\ DockTypes
<1>1. ASSUME TypeOK
      PROVE  AllFit(heap, piers, hs) /\ Works(hs)
  <2>1. /\ heap \in Heaps /\ piers \in Slice /\ hs \in [Handlers -> Handler]
        /\ \A s \in {piers} \cup {hs[h].slice : h \in Handlers} :
             s.len <= Len(heap[s.arr]) /\ \A i \in 1..s.len : heap[s.arr][i] # NoPatp
        /\ \A h \in Handlers : IF hs[h].pc = "idle" THEN hs[h] = Idle
                               ELSE hs[h].patp # NoPatp
    BY <1>1 DEF TypeOK, Heaps, Names, At
  <2>2. ASSUME NEW s \in Slice, s.len <= Len(heap[s.arr]),
               \A i \in 1..s.len : heap[s.arr][i] # NoPatp
        PROVE  Fits(heap, s)
    <3>1. heap[s.arr] \in Seq(Names) /\ s.len \in Nat
      BY <2>1 DEF Slice, Heaps
    <3>2. \A i \in 1..s.len : heap[s.arr][i] \in Names
      BY <2>2, <3>1
    <3> QED
      BY <2>2, <3>2 DEF Fits, Names
  <2>3. \A h \in Handlers : hs[h].slice \in Slice /\ hs[h].patp \in Names
    BY <2>1 DEF Handler, Names
  <2>4. AllFit(heap, piers, hs)
    BY <2>1, <2>2, <2>3 DEF AllFit
  <2> QED
    BY <2>1, <2>3, <2>4 DEF Works, Names
<1>2. ASSUME AllFit(heap, piers, hs), Works(hs)
      PROVE  /\ heap \in [Arrays -> Seq(Patps \cup {NoPatp})] /\ piers \in Slice
             /\ hs \in [Handlers -> Handler]
             /\ \A s \in {piers} \cup {hs[h].slice : h \in Handlers} :
                  s.len <= Len(heap[s.arr]) /\ \A i \in 1..s.len : heap[s.arr][i] # NoPatp
             /\ \A h \in Handlers : IF At(h, "idle") THEN hs[h] = Idle
                                    ELSE hs[h].patp # NoPatp
  BY <1>2, PiersAssumption DEF AllFit, Works, Fits, Heaps, Names, At
<1> QED
  BY <1>1, <1>2 DEF TypeOK, Ports0, DockTypes

LEMMA IdleWorks == Idle \in Handler /\ Idle.pc = "idle" /\ Idle.slice = NilSlice
                   /\ NilSlice \in Slice /\ Idle.patp = NoPatp
<1>1. NilSlice \in Slice
  BY ArraysFinite DEF NilSlice, Slice
<1> QED
  BY <1>1, PiersAssumption DEF Idle, Handler, Labels

\* The moves of a handler at work.
LEMMA HoldOf ==
  ASSUME Works(hs), NEW h \in Handlers, hs[h].pc # "idle", NEW slice \in Slice,
         NEW label \in Labels \ {"idle"}, Hold(h, slice, label)
  PROVE  /\ Works(hs') /\ \A g \in Handlers : g # h => hs'[g] = hs[g]
         /\ hs'[h].pc = label /\ hs'[h].slice = slice
         /\ hs'[h].patp = hs[h].patp /\ hs'[h].port = hs[h].port
<1> DEFINE r == [hs[h] EXCEPT !.slice = slice, !.pc = label]
<1>1. hs[h] \in Handler /\ hs[h].patp \in Patps
  BY DEF Works
<1>2. /\ r \in Handler /\ r.pc = label /\ r.slice = slice
      /\ r.patp = hs[h].patp /\ r.port = hs[h].port
  BY <1>1 DEF Handler
<1>3. hs' = [hs EXCEPT ![h] = r]
  BY DEF Hold
<1> HIDE DEF r
<1>4. hs'[h] = r /\ \A g \in Handlers : g # h => hs'[g] = hs[g]
  BY <1>3 DEF Works
<1>5. Works(hs')
  BY <1>1, <1>2, <1>3, <1>4 DEF Works
<1> QED
  BY <1>2, <1>4, <1>5

LEMMA MoveOf ==
  ASSUME Works(hs), NEW h \in Handlers, hs[h].pc # "idle",
         NEW label \in Labels \ {"idle"}, Move(h, label)
  PROVE  /\ Works(hs') /\ \A g \in Handlers : g # h => hs'[g] = hs[g]
         /\ hs'[h].pc = label /\ hs'[h].slice = hs[h].slice
         /\ hs'[h].patp = hs[h].patp /\ hs'[h].port = hs[h].port
<1> DEFINE r == [hs[h] EXCEPT !.pc = label]
<1>1. hs[h] \in Handler /\ hs[h].patp \in Patps
  BY DEF Works
<1>2. /\ r \in Handler /\ r.pc = label /\ r.slice = hs[h].slice
      /\ r.patp = hs[h].patp /\ r.port = hs[h].port
  BY <1>1 DEF Handler
<1>3. hs' = [hs EXCEPT ![h] = r]
  BY DEF Move
<1> HIDE DEF r
<1>4. hs'[h] = r /\ \A g \in Handlers : g # h => hs'[g] = hs[g]
  BY <1>3 DEF Works
<1>5. Works(hs')
  BY <1>1, <1>2, <1>3, <1>4 DEF Works
<1> QED
  BY <1>2, <1>4, <1>5

LEMMA FinishOf ==
  ASSUME Works(hs), NEW h \in Handlers, Finish(h)
  PROVE  /\ Works(hs') /\ \A g \in Handlers : g # h => hs'[g] = hs[g]
         /\ hs'[h] = Idle
BY IdleWorks DEF Works, Finish

\* A step that leaves the arrays alone and gives no handler a new slice.
LEMMA StillFit ==
  ASSUME AllFit(heap, piers, hs), UNCHANGED <<heap, piers>>,
         \A h \in Handlers : hs'[h].slice \in {hs[h].slice, NilSlice, piers}
  PROVE  AllFit(heap', piers', hs')
BY NilFits DEF AllFit

-----------------------------------------------------------------------------
(* Steps that change the arrays                                            *)

LEMMA SlicesLive ==
  ASSUME NEW g, NEW f, NEW h \in Handlers
  PROVE  g.arr \in Live(g, f) /\ f[h].slice.arr \in Live(g, f)
BY DEF Live

\* Collect keeps what the slices show.
LEMMA CollectFits ==
  ASSUME NEW hp \in Heaps, NEW g, NEW f, AllFit(hp, g, f)
  PROVE  /\ AllFit(Collect(hp, g, f), g, f)
         /\ View(Collect(hp, g, f), g) = View(hp, g)
         /\ \A h \in Handlers : View(Collect(hp, g, f), f[h].slice) = View(hp, f[h].slice)
<1> DEFINE hp2 == Collect(hp, g, f)
<1>1. hp2 \in Heaps /\ \A a \in Arrays : a \in Live(g, f) => hp2[a] = hp[a]
  BY CollectedOf
<1> HIDE DEF hp2
<1>2. Fits(hp2, g) /\ View(hp2, g) = View(hp, g)
  <2>1. Fits(hp, g) /\ g.arr \in Arrays /\ g.arr \in Live(g, f)
    BY DEF AllFit, Fits, Slice, Live
  <2> QED
    BY <1>1, <2>1, SameView
<1>3. ASSUME NEW h \in Handlers
      PROVE  Fits(hp2, f[h].slice) /\ View(hp2, f[h].slice) = View(hp, f[h].slice)
  <2>1. Fits(hp, f[h].slice) /\ f[h].slice.arr \in Arrays /\ f[h].slice.arr \in Live(g, f)
    BY SlicesLive DEF AllFit, Fits, Slice
  <2> QED
    BY <1>1, <2>1, SameView
<1> QED
  BY <1>1, <1>2, <1>3 DEF AllFit, hp2

\* After a decoding of v the list in memory is v.
LEMMA OverwriteOf ==
  ASSUME TypeOK, NEW v \in Seq(Patps), Overwrite(v),
         \A g \in Handlers : hs'[g].slice \in {hs[g].slice, NilSlice}
  PROVE  AllFit(heap', piers', hs') /\ View(heap', piers') = v
<1> DEFINE d == Decoded(v)
<1>1. AllFit(heap, piers, hs)
  BY TypeParts
<1>2. piers' = d.piers /\ heap' = Collect(d.heap, d.piers, hs')
  BY DEF Overwrite
<1>3. /\ d.heap \in Heaps /\ Fits(d.heap, d.piers) /\ View(d.heap, d.piers) = v
      /\ \A s : Fits(heap, s) /\ s.arr # Fresh => Fits(d.heap, s)
  BY <1>1, DecodedOf DEF AllFit
<1>4. ASSUME NEW g \in Handlers PROVE Fits(d.heap, hs'[g].slice)
  <2>1. CASE hs'[g].slice = NilSlice
    BY <1>3, <2>1, NilFits
  <2>2. CASE hs'[g].slice = hs[g].slice
    <3>1. Fits(heap, hs[g].slice) /\ hs[g].slice.arr # Fresh
      BY <1>1, SlicesLive, FreshFree DEF AllFit
    <3> QED
      BY <1>3, <2>2, <3>1
  <2> QED
    BY <2>1, <2>2
<1>5. AllFit(d.heap, d.piers, hs')
  BY <1>3, <1>4 DEF AllFit
<1> HIDE DEF d
<1>6. /\ AllFit(Collect(d.heap, d.piers, hs'), d.piers, hs')
      /\ View(Collect(d.heap, d.piers, hs'), d.piers) = View(d.heap, d.piers)
  BY <1>3, <1>5, CollectFits
<1> QED
  BY <1>2, <1>3, <1>6

\* After UpdateConf the list on disk is the one saved, too.
LEMMA UpdateOf ==
  ASSUME TypeOK, NEW v \in Seq(Patps), UpdateConf(v),
         \A g \in Handlers : hs'[g].slice \in {hs[g].slice, NilSlice}
  PROVE  /\ AllFit(heap', piers', hs') /\ disk' = v /\ unsaved' = FALSE
         /\ View(heap', piers') = v
BY OverwriteOf DEF UpdateConf

\* When the file could not be written the list in memory is the one that was
\* to be saved.
LEMMA WriteOf ==
  ASSUME TypeOK, NEW v \in Seq(Patps), WriteFails(v),
         \A g \in Handlers : hs'[g].slice \in {hs[g].slice, NilSlice}
  PROVE  /\ AllFit(heap', piers', hs') /\ UNCHANGED disk
         /\ View(heap', piers') = v /\ unsaved' = (v # disk)
BY OverwriteOf DEF WriteFails

LEMMA PersistOf ==
  ASSUME TypeOK, NEW h \in Handlers, hs[h].pc # "idle", NEW next \in Labels \ {"idle"},
         Persist(h, next)
  PROVE  /\ Works(hs') /\ AllFit(heap', piers', hs') /\ unsaved' = FALSE
         /\ disk' = Contents(hs[h].slice) /\ disk' \in Seq(Patps)
         /\ View(heap', piers') = disk'
         /\ \A g \in Handlers : g # h => hs'[g] = hs[g]
         /\ hs'[h].pc = next /\ hs'[h].patp = hs[h].patp /\ hs'[h].slice = NilSlice
<1>1. Works(hs) /\ Hold(h, NilSlice, next) /\ NilSlice \in Slice
  BY TypeParts, IdleWorks DEF Persist, Hold
<1>2. /\ Works(hs') /\ \A g \in Handlers : g # h => hs'[g] = hs[g]
      /\ hs'[h].pc = next /\ hs'[h].slice = NilSlice /\ hs'[h].patp = hs[h].patp
  BY <1>1, HoldOf
<1>3. Contents(hs[h].slice) \in Seq(Patps)
  BY ViewOf, TypeParts DEF AllFit, Contents
<1>4. UpdateConf(Contents(hs[h].slice))
  BY DEF Persist
<1>5. \A g \in Handlers : hs'[g].slice \in {hs[g].slice, NilSlice}
  BY <1>2
<1>6. /\ AllFit(heap', piers', hs') /\ disk' = Contents(hs[h].slice) /\ unsaved' = FALSE
      /\ View(heap', piers') = Contents(hs[h].slice)
  BY <1>3, <1>4, <1>5, UpdateOf
<1> QED
  BY <1>2, <1>3, <1>6

\* After a failed UpdateConf memory is as it was, or has the list that was to
\* be saved.
LEMMA FailOf ==
  ASSUME TypeOK, NEW h \in Handlers, hs[h].pc # "idle", NEW next \in Labels \ {"idle"},
         UpdateConfFails(h, next)
  PROVE  /\ Works(hs') /\ AllFit(heap', piers', hs') /\ UNCHANGED disk
         /\ \/ /\ unsaved' = (unsaved \/ hs[h].pc \in {"persist", "dpersist"})
               /\ View(heap', piers') = Contents(piers)
            \/ unsaved' = (View(heap', piers') # disk)
         /\ \A g \in Handlers : g # h => hs'[g] = hs[g]
<1>1. Works(hs) /\ Hold(h, NilSlice, next) /\ NilSlice \in Slice
  BY TypeParts, IdleWorks DEF UpdateConfFails, Hold
<1>2. /\ Works(hs') /\ \A g \in Handlers : g # h => hs'[g] = hs[g]
      /\ hs'[h].slice = NilSlice
  BY <1>1, HoldOf
<1>3. CASE ReadFails(h)
  <2>1. heap' = Collect(heap, piers, hs') /\ UNCHANGED <<piers, disk>>
        /\ unsaved' = (unsaved \/ hs[h].pc \in {"persist", "dpersist"})
    BY <1>3 DEF ReadFails
  <2>2. heap \in Heaps /\ AllFit(heap, piers, hs')
    BY <1>2, NilFits, TypeParts DEF AllFit
  <2>3. /\ AllFit(Collect(heap, piers, hs'), piers, hs')
        /\ View(Collect(heap, piers, hs'), piers) = View(heap, piers)
    BY <2>2, CollectFits
  <2> QED
    BY <1>2, <2>1, <2>3 DEF Contents
<1>4. CASE WriteFails(Contents(hs[h].slice))
  <2>1. Contents(hs[h].slice) \in Seq(Patps)
    BY ViewOf, TypeParts DEF AllFit, Contents
  <2>2. \A g \in Handlers : hs'[g].slice \in {hs[g].slice, NilSlice}
    BY <1>2
  <2>3. /\ AllFit(heap', piers', hs') /\ UNCHANGED disk
        /\ unsaved' = (View(heap', piers') # disk)
    BY <1>4, <2>1, <2>2, WriteOf
  <2> QED
    BY <1>2, <2>3
<1> QED
  BY <1>2, <1>3, <1>4 DEF UpdateConfFails

\* An array nobody refers to takes a new list.
LEMMA NewArray ==
  ASSUME TypeOK, NEW q \in Seq(Names)
  PROVE  LET hp == [heap EXCEPT ![Fresh] = q]
         IN  /\ hp \in Heaps /\ hp[Fresh] = q
             /\ Fits(hp, piers) /\ View(hp, piers) = Contents(piers)
             /\ \A g \in Handlers : Fits(hp, hs[g].slice)
<1> DEFINE hp == [heap EXCEPT ![Fresh] = q]
<1>1. AllFit(heap, piers, hs)
  BY TypeParts
<1>2. hp \in Heaps /\ hp[Fresh] = q /\ \A a \in Arrays : a # Fresh => hp[a] = heap[a]
  BY <1>1, FreshFree DEF AllFit, Heaps
<1> HIDE DEF hp
<1>3. Fits(hp, piers) /\ View(hp, piers) = Contents(piers)
  <2>1. Fits(heap, piers) /\ piers.arr \in Arrays /\ piers.arr # Fresh
    BY <1>1, FreshFree DEF AllFit, Fits, Slice, Live
  <2> QED
    BY <1>2, <2>1, SameView DEF Contents
<1>4. ASSUME NEW g \in Handlers PROVE Fits(hp, hs[g].slice)
  <2>1. /\ Fits(heap, hs[g].slice) /\ hs[g].slice.arr \in Arrays
        /\ hs[g].slice.arr # Fresh
    BY <1>1, FreshFree, SlicesLive DEF AllFit, Fits, Slice
  <2> QED
    BY <1>2, <2>1, SameView
<1> QED
  BY <1>2, <1>3, <1>4 DEF hp

LEMMA CollectOthersOf ==
  ASSUME TypeOK, NEW h \in Handlers, CollectOthers(h)
  PROVE  /\ Works(hs') /\ AllFit(heap', piers', hs')
         /\ View(heap', piers') = Contents(piers)
         /\ View(heap', hs'[h].slice) = Others(piers, hs[h].patp)
         /\ \A g \in Handlers : g # h => hs'[g] = hs[g]
         /\ hs'[h].pc = "cpersist" /\ hs'[h].patp = hs[h].patp
<1> DEFINE v == Others(piers, hs[h].patp)
<1>1. AllFit(heap, piers, hs) /\ Works(hs) /\ hs[h].pc = "cread"
  BY TypeParts DEF CollectOthers, At
<1>2. v \in Seq(Patps)
  BY <1>1, OthersOf DEF AllFit
<1>3. UNCHANGED piers
  BY DEF CollectOthers
<1>4. CASE v = <<>>
  <2>1. Hold(h, NilSlice, "cpersist") /\ UNCHANGED heap /\ "cpersist" \in Labels \ {"idle"}
    BY <1>4 DEF CollectOthers, Labels
  <2>2. /\ Works(hs') /\ \A g \in Handlers : g # h => hs'[g] = hs[g]
        /\ hs'[h].pc = "cpersist" /\ hs'[h].slice = NilSlice /\ hs'[h].patp = hs[h].patp
    BY <1>1, <2>1, HoldOf, IdleWorks
  <2>3. AllFit(heap', piers', hs')
    BY <1>1, <1>3, <2>1, <2>2, StillFit
  <2> QED
    BY <1>1, <1>3, <1>4, <2>1, <2>2, <2>3, NilFits DEF AllFit, Contents
<1>5. CASE v # <<>>
  <2> DEFINE s2 == [arr |-> Fresh, len |-> Len(v)]
             hp == [heap EXCEPT ![Fresh] = v]
  <2>1. Hold(h, s2, "cpersist") /\ heap' = hp /\ "cpersist" \in Labels \ {"idle"}
    BY <1>5 DEF CollectOthers, Labels
  <2>2. s2 \in Slice /\ s2.arr = Fresh /\ s2.len = Len(v)
    BY <1>2, FreshFree DEF Slice
  <2> HIDE DEF s2
  <2>3. /\ Works(hs') /\ \A g \in Handlers : g # h => hs'[g] = hs[g]
        /\ hs'[h].pc = "cpersist" /\ hs'[h].slice = s2 /\ hs'[h].patp = hs[h].patp
    BY <1>1, <2>1, <2>2, HoldOf
  <2>4. v \in Seq(Names)
    BY <1>2 DEF Names
  <2>5. /\ hp \in Heaps /\ hp[Fresh] = v
        /\ Fits(hp, piers) /\ View(hp, piers) = Contents(piers)
        /\ \A g \in Handlers : Fits(hp, hs[g].slice)
    BY <2>4, NewArray
  <2> HIDE DEF hp, v
  <2>6. Fits(hp, s2)
    BY <1>2, <2>2, <2>5 DEF Fits
  <2>7. View(hp, s2) = v
    <3>1. /\ View(hp, s2) \in Seq(Patps) /\ Len(View(hp, s2)) = Len(v)
          /\ \A i \in 1..Len(v) : View(hp, s2)[i] = v[i]
      BY <2>2, <2>5, <2>6, ViewOf
    <3> QED
      BY <1>2, <3>1, SeqEqual
  <2>8. AllFit(hp, piers, hs')
    BY <2>3, <2>5, <2>6 DEF AllFit
  <2> QED
    BY <1>3, <2>1, <2>3, <2>5, <2>7, <2>8 DEF v
<1> QED
  BY <1>4, <1>5

LEMMA AppendPierOf ==
  ASSUME TypeOK, NEW h \in Handlers, AppendPier(h)
  PROVE  /\ Works(hs') /\ AllFit(heap', piers', hs')
         /\ \/ /\ hs[h].patp \in Range(Contents(hs[h].slice))
               /\ View(heap', hs'[h].slice) = Contents(hs[h].slice)
            \/ /\ hs[h].patp \notin Range(Contents(hs[h].slice))
               /\ View(heap', hs'[h].slice) = Append(Contents(hs[h].slice), hs[h].patp)
         /\ \A g \in Handlers : g # h => hs'[g] = hs[g]
         /\ hs'[h].pc = "persist" /\ hs'[h].patp = hs[h].patp
<1> DEFINE s == hs[h].slice
           p == hs[h].patp
           v == Contents(s)
           longer == Append(v, p)
<1>1. /\ AllFit(heap, piers, hs) /\ Works(hs) /\ hs[h].pc = "append" /\ p \in Patps
      /\ Fits(heap, s) /\ heap \in Heaps /\ UNCHANGED piers
  BY TypeParts DEF AppendPier, At, Works, AllFit
<1>2. /\ v \in Seq(Patps) /\ Len(v) = s.len /\ s.len \in Nat /\ s.arr \in Arrays
      /\ \A i \in 1..s.len : v[i] = heap[s.arr][i]
      /\ heap[s.arr] \in Seq(Names) /\ Len(heap[s.arr]) \in Nat
  BY <1>1, ViewOf DEF Contents, Fits, Slice, Heaps
<1>3. /\ longer \in Seq(Patps) /\ Len(longer) = s.len + 1
      /\ \A i \in 1..s.len : longer[i] = v[i]
      /\ longer[s.len + 1] = p
  BY <1>1, <1>2, AppendProperties
<1>4. "persist" \in Labels \ {"idle"}
  BY DEF Labels
<1>5. CASE Listed(s, p)
  <2>1. Move(h, "persist") /\ UNCHANGED heap
    BY <1>5 DEF AppendPier
  <2>2. /\ Works(hs') /\ \A g \in Handlers : g # h => hs'[g] = hs[g]
        /\ hs'[h].pc = "persist" /\ hs'[h].slice = s /\ hs'[h].patp = p
    BY <1>1, <1>4, <2>1, MoveOf
  <2>3. AllFit(heap', piers', hs')
    BY <1>1, <2>1, <2>2, StillFit
  <2> QED
    BY <1>5, <2>1, <2>2, <2>3 DEF Listed, Contents
<1>6. CASE ~Listed(s, p) /\ s.len < Len(heap[s.arr])
  <2> DEFINE s2 == [s EXCEPT !.len = @ + 1]
             q2 == [heap[s.arr] EXCEPT ![s.len + 1] = p]
             hp == [heap EXCEPT ![s.arr] = q2]
  <2>1. Hold(h, s2, "persist") /\ heap' = hp
    BY <1>6 DEF AppendPier
  <2>2. s2 \in Slice /\ s2.arr = s.arr /\ s2.len = s.len + 1
    BY <1>1, <1>2 DEF Fits, Slice
  <2> HIDE DEF s2
  <2>3. /\ Works(hs') /\ \A g \in Handlers : g # h => hs'[g] = hs[g]
        /\ hs'[h].pc = "persist" /\ hs'[h].slice = s2 /\ hs'[h].patp = p
    BY <1>1, <1>4, <2>1, <2>2, HoldOf
  <2>4. /\ q2 \in Seq(Names) /\ Len(q2) = Len(heap[s.arr])
        /\ \A i \in 1..Len(heap[s.arr]) : q2[i] = IF i = s.len + 1 THEN p ELSE heap[s.arr][i]
    <3>1. s.len + 1 \in 1..Len(heap[s.arr]) /\ p \in Names
      BY <1>1, <1>2, <1>6 DEF Names
    <3> QED
      BY <1>2, <3>1, ExceptSeq
  <2> HIDE DEF q2
  <2>5. hp \in Heaps /\ hp[s.arr] = q2 /\ \A a \in Arrays : a # s.arr => hp[a] = heap[a]
    BY <1>1, <1>2, <2>4 DEF Heaps
  <2> HIDE DEF hp
  <2>6. ASSUME NEW t, Fits(heap, t)
        PROVE  Fits(hp, t)
    <3>1. CASE t.arr # s.arr
      BY <2>5, <2>6, <3>1, SameView DEF Fits, Slice
    <3>2. CASE t.arr = s.arr
      <4>1. \A i \in 1..t.len : i \in 1..Len(heap[s.arr]) /\ heap[s.arr][i] \in Patps
        BY <1>2, <2>6, <3>2 DEF Fits, Slice
      <4>2. \A i \in 1..t.len : q2[i] \in Patps
        BY <1>1, <2>4, <4>1
      <4> QED
        BY <2>4, <2>5, <2>6, <3>2, <4>2 DEF Fits
    <3> QED
      BY <3>1, <3>2
  <2>7. \A i \in 1..(s.len + 1) : q2[i] = longer[i]
    <3>1. \A i \in 1..(s.len + 1) : i \in 1..Len(heap[s.arr]) /\ (i = s.len + 1 \/ i \in 1..s.len)
      BY <1>2, <1>6
    <3> HIDE DEF longer, v
    <3>2. ASSUME NEW i \in 1..s.len PROVE q2[i] = longer[i]
      <4>1. i # s.len + 1 /\ i \in 1..Len(heap[s.arr])
        BY <1>2, <1>6
      <4> QED
        BY <1>2, <1>3, <2>4, <4>1
    <3>3. q2[s.len + 1] = longer[s.len + 1]
      BY <1>2, <1>3, <1>6, <2>4
    <3> QED
      BY <3>1, <3>2, <3>3
  <2>8. Fits(hp, s2)
    <3>1. \A i \in 1..(s.len + 1) : longer[i] \in Patps
      BY <1>3
    <3>2. s.len + 1 <= Len(q2)
      BY <1>2, <1>6, <2>4
    <3> HIDE DEF longer
    <3> QED
      BY <2>2, <2>5, <2>7, <3>1, <3>2 DEF Fits
  <2>9. View(hp, s2) = longer
    <3>1. /\ View(hp, s2) \in Seq(Patps) /\ Len(View(hp, s2)) = s.len + 1
          /\ \A i \in 1..(s.len + 1) : View(hp, s2)[i] = q2[i]
      BY <2>2, <2>5, <2>8, ViewOf
    <3> HIDE DEF longer
    <3>2. \A i \in 1..Len(View(hp, s2)) : View(hp, s2)[i] = longer[i]
      BY <2>7, <3>1
    <3> QED
      BY <1>3, <3>1, <3>2, SeqEqual
  <2>10. AllFit(hp, piers, hs')
    BY <1>1, <2>3, <2>5, <2>6, <2>8 DEF AllFit
  <2> QED
    BY <1>1, <1>6, <2>1, <2>3, <2>9, <2>10 DEF Listed
<1>7. CASE ~Listed(s, p) /\ ~(s.len < Len(heap[s.arr]))
  <2> DEFINE s2 == [arr |-> Fresh, len |-> s.len + 1]
             k == Grown(s.len, s.len + 1)
             q == Filled(longer, k)
             hp == [heap EXCEPT ![Fresh] = q]
  <2>1. Hold(h, s2, "persist") /\ heap' = Collect(hp, piers, hs')
    BY <1>7 DEF AppendPier
  <2>2. s2 \in Slice /\ s2.arr = Fresh /\ s2.len = s.len + 1
    BY <1>2, FreshFree DEF Slice
  <2> HIDE DEF s2
  <2>3. /\ Works(hs') /\ \A g \in Handlers : g # h => hs'[g] = hs[g]
        /\ hs'[h].pc = "persist" /\ hs'[h].slice = s2 /\ hs'[h].patp = p
    BY <1>1, <1>4, <2>1, <2>2, HoldOf
  <2>4. k \in Nat /\ s.len + 1 <= k
    BY <1>2, GrownFits
  <2> HIDE DEF k
  <2>5. /\ q \in Seq(Names) /\ Len(q) = k
        /\ \A i \in 1..(s.len + 1) : q[i] = longer[i]
    BY <1>3, <2>4, FilledOf
  <2> HIDE DEF q
  <2>6. /\ hp \in Heaps /\ hp[Fresh] = q
        /\ Fits(hp, piers) /\ View(hp, piers) = Contents(piers)
        /\ \A g \in Handlers : Fits(hp, hs[g].slice)
    BY <2>5, NewArray
  <2> HIDE DEF hp
  <2>7. Fits(hp, s2)
    <3>1. \A i \in 1..(s.len + 1) : longer[i] \in Patps
      BY <1>3
    <3> HIDE DEF longer
    <3> QED
      BY <2>2, <2>4, <2>5, <2>6, <3>1 DEF Fits
  <2>8. View(hp, s2) = longer
    <3>1. /\ View(hp, s2) \in Seq(Patps) /\ Len(View(hp, s2)) = s.len + 1
          /\ \A i \in 1..(s.len + 1) : View(hp, s2)[i] = q[i]
      BY <2>2, <2>6, <2>7, ViewOf
    <3> HIDE DEF longer
    <3>2. \A i \in 1..Len(View(hp, s2)) : View(hp, s2)[i] = longer[i]
      BY <2>5, <3>1
    <3> QED
      BY <1>3, <3>1, <3>2, SeqEqual
  <2>9. AllFit(hp, piers, hs')
    BY <2>3, <2>6, <2>7 DEF AllFit
  <2>10. /\ AllFit(Collect(hp, piers, hs'), piers, hs')
         /\ View(Collect(hp, piers, hs'), hs'[h].slice) = View(hp, hs'[h].slice)
    BY <2>6, <2>9, CollectFits
  <2> QED
    BY <1>1, <1>7, <2>1, <2>3, <2>8, <2>10 DEF Listed
<1> QED
  BY <1>5, <1>6, <1>7

\* The place that cutSlice cuts.
FirstAt(s, p) == CHOOSE j \in 1..s.len : /\ heap[s.arr][j] = p
                                         /\ \A k \in 1..(j - 1) : heap[s.arr][k] # p

LEMMA CutAt ==
  ASSUME NEW s, NEW p, heap \in Heaps, Fits(heap, s), Listed(s, p)
  PROVE  FirstAt(s, p) \in 1..s.len /\ heap[s.arr][FirstAt(s, p)] = p
<1> DEFINE S == {j \in 1..s.len : heap[s.arr][j] = p}
<1>1. /\ Contents(s) \in Seq(Patps) /\ Len(Contents(s)) = s.len /\ s.len \in Nat
      /\ \A i \in 1..s.len : Contents(s)[i] = heap[s.arr][i]
  BY ViewOf DEF Contents, Fits, Slice
<1>2. S \subseteq Nat /\ S # {}
  <2>1. p \in {Contents(s)[i] : i \in 1..s.len}
    BY <1>1, RangeEquality DEF Listed
  <2> QED
    BY <1>1, <2>1
<1> HIDE DEF S
<1>3. PICK t \in S : \A u \in S : t <= u
  BY <1>2, LeastOf
<1>4. t \in 1..s.len /\ heap[s.arr][t] = p
  BY <1>3 DEF S
<1>5. ASSUME NEW k \in 1..(t - 1), heap[s.arr][k] = p PROVE FALSE
  <2>1. k \in S
    BY <1>1, <1>4, <1>5 DEF S
  <2> QED
    BY <1>1, <1>3, <1>4, <2>1
<1> QED
  BY <1>4, <1>5 DEF FirstAt

LEMMA CutOf ==
  ASSUME TypeOK, NEW h \in Handlers, Cut(h)
  PROVE  /\ Works(hs') /\ AllFit(heap', piers', hs')
         /\ \/ /\ hs[h].patp \notin Range(Contents(hs[h].slice))
               /\ View(heap', hs'[h].slice) = Contents(hs[h].slice)
            \/ \E i \in 1..Len(Contents(hs[h].slice)) :
                 /\ Contents(hs[h].slice)[i] = hs[h].patp
                 /\ View(heap', hs'[h].slice) = RemoveAt(Contents(hs[h].slice), i)
         /\ \A g \in Handlers : g # h => hs'[g] = hs[g]
         /\ hs'[h].pc = "dpersist" /\ hs'[h].patp = hs[h].patp
<1> DEFINE s == hs[h].slice
           p == hs[h].patp
           v == Contents(s)
           c == CutSlice(s, p)
<1>1. /\ AllFit(heap, piers, hs) /\ Works(hs) /\ hs[h].pc = "cut" /\ p \in Patps
      /\ Fits(heap, s) /\ heap \in Heaps /\ UNCHANGED piers
      /\ Hold(h, c.slice, "dpersist") /\ heap' = c.heap
  BY TypeParts DEF Cut, At, Works, AllFit
<1>2. /\ v \in Seq(Patps) /\ Len(v) = s.len /\ s.len \in Nat /\ s.arr \in Arrays
      /\ s \in Slice
      /\ \A i \in 1..s.len : v[i] = heap[s.arr][i]
      /\ heap[s.arr] \in Seq(Names) /\ Len(heap[s.arr]) \in Nat /\ s.len <= Len(heap[s.arr])
  <2>1. s \in Slice /\ s.len \in Nat /\ s.arr \in Arrays /\ s.len <= Len(heap[s.arr])
    BY <1>1 DEF Fits, Slice
  <2>2. heap[s.arr] \in Seq(Names)
    BY <1>1, <2>1 DEF Heaps
  <2>3. v \in Seq(Patps) /\ Len(v) = s.len /\ \A i \in 1..s.len : v[i] = heap[s.arr][i]
    BY <1>1, ViewOf DEF Contents
  <2> QED
    BY <2>1, <2>2, <2>3
<1>3. "dpersist" \in Labels \ {"idle"}
  BY DEF Labels
<1>4. CASE ~Listed(s, p)
  <2>1. c.slice = s /\ c.heap = heap
    BY <1>4 DEF CutSlice
  <2>2. /\ Works(hs') /\ \A g \in Handlers : g # h => hs'[g] = hs[g]
        /\ hs'[h].pc = "dpersist" /\ hs'[h].slice = s /\ hs'[h].patp = p
    BY <1>1, <1>2, <1>3, <2>1, HoldOf
  <2>3. AllFit(heap', piers', hs')
    BY <1>1, <2>1, <2>2, StillFit
  <2> QED
    BY <1>1, <1>4, <2>1, <2>2, <2>3 DEF Listed, Contents
<1>5. CASE Listed(s, p)
  <2> DEFINE i == FirstAt(s, p)
             r == RemoveAt(View(heap, s), i)
             q2 == r \o SubSeq(heap[s.arr], s.len, Len(heap[s.arr]))
             s2 == [s EXCEPT !.len = @ - 1]
             hp == [heap EXCEPT ![s.arr] = q2]
  <2>1. c.slice = s2 /\ c.heap = hp
    BY <1>5 DEF CutSlice, FirstAt
  <2>2. i \in 1..s.len /\ v[i] = p
    <3>1. i \in 1..s.len /\ heap[s.arr][i] = p
      BY <1>1, <1>5, CutAt
    <3> HIDE DEF i
    <3> QED
      BY <1>2, <3>1
  <2> HIDE DEF i
  <2>3. s2 \in Slice /\ s2.arr = s.arr /\ s2.len = s.len - 1
    BY <1>2, <2>2 DEF Slice
  <2> HIDE DEF s2
  <2>4. /\ Works(hs') /\ \A g \in Handlers : g # h => hs'[g] = hs[g]
        /\ hs'[h].pc = "dpersist" /\ hs'[h].slice = s2 /\ hs'[h].patp = p
    BY <1>1, <1>3, <2>1, <2>3, HoldOf
  <2>5. r = RemoveAt(v, i) /\ r \in Seq(Patps) /\ Len(r) = s.len - 1
    BY <1>2, <2>2, RemovedAt DEF Contents
  <2> HIDE DEF r
  <2>6. /\ q2 \in Seq(Names) /\ Len(q2) = Len(heap[s.arr])
        /\ \A k \in 1..Len(heap[s.arr]) : q2[k] = IF k <= s.len - 1 THEN r[k] ELSE heap[s.arr][k]
    <3>1. r \in Seq(Names) /\ Len(r) <= Len(heap[s.arr]) /\ Len(r) + 1 = s.len
      <4>1. r \in Seq(Names)
        BY <2>5, SeqMonotonic DEF Names
      <4> QED
        BY <1>2, <2>2, <2>5, <4>1
    <3>2. LET over == r \o SubSeq(heap[s.arr], Len(r) + 1, Len(heap[s.arr]))
          IN  /\ over \in Seq(Names) /\ Len(over) = Len(heap[s.arr])
              /\ \A k \in 1..Len(heap[s.arr]) :
                   over[k] = IF k <= Len(r) THEN r[k] ELSE heap[s.arr][k]
      BY <1>2, <3>1, WrittenOver
    <3> QED
      BY <2>5, <3>1, <3>2
  <2> HIDE DEF q2
  <2>7. hp \in Heaps /\ hp[s.arr] = q2 /\ \A a \in Arrays : a # s.arr => hp[a] = heap[a]
    BY <1>1, <1>2, <2>6 DEF Heaps
  <2> HIDE DEF hp
  <2>8. ASSUME NEW t, Fits(heap, t)
        PROVE  Fits(hp, t)
    <3>1. CASE t.arr # s.arr
      BY <2>7, <2>8, <3>1, SameView DEF Fits, Slice
    <3>2. CASE t.arr = s.arr
      <4>1. \A k \in 1..t.len : k \in 1..Len(heap[s.arr]) /\ heap[s.arr][k] \in Patps
        BY <1>2, <2>8, <3>2 DEF Fits, Slice
      <4>2. \A k \in 1..(s.len - 1) : r[k] \in Patps
        BY <1>2, <2>2, <2>5
      <4>3. \A k \in 1..t.len : q2[k] \in Patps
        <5>1. ASSUME NEW k \in 1..t.len PROVE q2[k] \in Patps
          <6>1. CASE k <= s.len - 1
            <7>1. k \in 1..(s.len - 1)
              BY <1>2, <2>2, <6>1
            <7> QED
              BY <2>6, <4>1, <4>2, <6>1, <7>1
          <6>2. CASE ~(k <= s.len - 1)
            BY <2>6, <4>1, <6>2
          <6> QED
            BY <6>1, <6>2
        <5> QED
          BY <5>1
      <4> QED
        BY <2>6, <2>7, <2>8, <3>2, <4>3 DEF Fits
    <3> QED
      BY <3>1, <3>2
  <2>9. Fits(hp, s2)
    <3>1. Fits(hp, s)
      BY <1>1, <2>8
    <3> QED
      BY <1>2, <2>2, <2>3, <3>1 DEF Fits
  <2>10. View(hp, s2) = r
    <3>1. /\ View(hp, s2) \in Seq(Patps) /\ Len(View(hp, s2)) = s.len - 1
          /\ \A k \in 1..(s.len - 1) : View(hp, s2)[k] = q2[k]
      BY <2>3, <2>7, <2>9, ViewOf
    <3>2. \A k \in 1..(s.len - 1) : q2[k] = r[k]
      BY <1>2, <2>2, <2>6
    <3>3. \A k \in 1..Len(View(hp, s2)) : View(hp, s2)[k] = r[k]
      BY <3>1, <3>2
    <3> QED
      BY <2>5, <3>1, <3>3, SeqEqual
  <2>11. AllFit(hp, piers, hs')
    BY <1>1, <2>4, <2>7, <2>8, <2>9 DEF AllFit
  <2>12. i \in 1..Len(v)
    BY <1>2, <2>2
  <2> QED
    BY <1>1, <2>1, <2>2, <2>4, <2>5, <2>10, <2>11, <2>12
<1> QED
  BY <1>4, <1>5

\* A list that is read into an empty configuration.
LEMMA LoadedOf ==
  ASSUME NEW v \in Seq(Patps), NEW hp, NEW g,
         g = IF v = <<>> THEN NilSlice ELSE [arr |-> 1, len |-> Len(v)],
         hp = [a \in Arrays |-> IF a = 1 /\ v # <<>>
                                THEN Filled(v, Grown(0, Len(v))) ELSE <<>>]
  PROVE  /\ AllFit(hp, g, [h \in Handlers |-> Idle])
         /\ View(hp, g) = v
<1> DEFINE q == Filled(v, Grown(0, Len(v)))
<1>1. <<>> \in Seq(Names) /\ Len(v) \in Nat /\ 1 \in Arrays
  BY EmptySeq, ArraysFinite
<1>2. /\ q \in Seq(Names) /\ Len(q) >= Len(v) /\ \A i \in 1..Len(v) : q[i] = v[i]
  <2> DEFINE k == Grown(0, Len(v))
  <2>1. k \in Nat /\ Len(v) <= k
    BY <1>1, GrownFits
  <2> HIDE DEF k
  <2>2. /\ Filled(v, k) \in Seq(Names) /\ Len(Filled(v, k)) = k
        /\ \A i \in 1..Len(v) : Filled(v, k)[i] = v[i]
    BY <2>1, FilledOf
  <2> QED
    BY <2>1, <2>2 DEF k
<1> HIDE DEF q
<1>3. hp \in Heaps /\ (v # <<>> => hp[1] = q)
  BY <1>1, <1>2 DEF Heaps, q
<1>4. Fits(hp, g) /\ View(hp, g) = v
  <2>1. CASE v = <<>>
    BY <1>3, <2>1, NilFits
  <2>2. CASE v # <<>>
    <3>1. g \in Slice /\ g.arr = 1 /\ g.len = Len(v)
      BY <1>1, <2>2 DEF Slice
    <3>2. \A i \in 1..Len(v) : v[i] \in Patps
      OBVIOUS
    <3>3. Fits(hp, g)
      BY <1>1, <1>2, <1>3, <2>2, <3>1, <3>2 DEF Fits
    <3>4. /\ View(hp, g) \in Seq(Patps) /\ Len(View(hp, g)) = Len(v)
          /\ \A i \in 1..Len(v) : View(hp, g)[i] = v[i]
      <4>1. /\ View(hp, g) \in Seq(Patps) /\ Len(View(hp, g)) = g.len
            /\ \A i \in 1..g.len : View(hp, g)[i] = hp[g.arr][i]
        BY <1>3, <3>3, ViewOf
      <4>2. Len(View(hp, g)) = Len(v) /\ hp[g.arr] = q
        BY <1>3, <2>2, <3>1, <4>1
      <4>3. \A i \in 1..Len(v) : View(hp, g)[i] = q[i]
        BY <3>1, <4>1, <4>2
      <4> QED
        BY <1>2, <4>1, <4>2, <4>3
    <3> QED
      BY <3>3, <3>4, SeqEqual
  <2> QED
    BY <2>1, <2>2
<1>5. \A h \in Handlers : Fits(hp, [h2 \in Handlers |-> Idle][h].slice)
  BY <1>3, IdleWorks, NilFits
<1> QED
  BY <1>3, <1>4, <1>5 DEF AllFit

LEMMA RestartOf ==
  ASSUME TypeOK, Restart
  PROVE  /\ Works(hs') /\ AllFit(heap', piers', hs')
         /\ View(heap', piers') = disk /\ UNCHANGED disk /\ unsaved' = FALSE
<1>1. disk \in Seq(Patps)
  BY TypeParts
<1>2. hs' = [h \in Handlers |-> Idle] /\ UNCHANGED disk /\ unsaved' = FALSE
  BY DEF Restart
<1>3. piers' = IF disk = <<>> THEN NilSlice ELSE [arr |-> 1, len |-> Len(disk)]
  BY DEF Restart
<1>4. heap' = [a \in Arrays |-> IF a = 1 /\ disk # <<>>
                                THEN Filled(disk, Grown(0, Len(disk))) ELSE <<>>]
  <2>1. CASE disk = <<>>
    BY <2>1 DEF Restart
  <2>2. CASE disk # <<>>
    BY <2>2 DEF Restart
  <2> QED
    BY <2>1, <2>2
<1>5. AllFit(heap', piers', [h \in Handlers |-> Idle]) /\ View(heap', piers') = disk
  BY <1>1, <1>3, <1>4, LoadedOf
<1>6. Works(hs')
  BY <1>2, IdleWorks DEF Works
<1> QED
  BY <1>2, <1>5, <1>6
-----------------------------------------------------------------------------
(* Steps that leave the arrays alone                                       *)

LEMMA ShipsOf ==
  ASSUME NEW v \in Seq(Patps)
  PROVE  Range(v) \subseteq Patps
BY RangeEquality

\* The parts of TypeOK after a step.
LEMMA Typed ==
  ASSUME AllFit(heap', piers', hs'), Works(hs'), disk' \in Seq(Patps),
         unsaved' \in BOOLEAN, urb' \in Ports0, files' \in Ports0, DockTypes'
  PROVE  TypeOK'
<1>1. /\ heap' \in [Arrays -> Seq(Patps \cup {NoPatp})] /\ piers' \in Slice
      /\ hs' \in [Handlers -> Handler]
      /\ \A s \in {piers'} \cup {hs'[h].slice : h \in Handlers} :
           s.len <= Len(heap'[s.arr]) /\ \A i \in 1..s.len : heap'[s.arr][i] # NoPatp
      /\ \A h \in Handlers : IF hs'[h].pc = "idle" THEN hs'[h] = Idle
                             ELSE hs'[h].patp # NoPatp
  BY PiersAssumption DEF AllFit, Works, Fits, Heaps, Names
<1> QED
  BY <1>1 DEF TypeOK, Ports0, DockTypes, At

LEMMA SetPortOf ==
  ASSUME Works(hs), NEW h \in Handlers, hs[h].pc # "idle", NEW n \in 0..MaxPort,
         NEW label \in Labels \ {"idle"},
         hs' = [hs EXCEPT ![h].port = n, ![h].pc = label]
  PROVE  /\ Works(hs') /\ \A g \in Handlers : g # h => hs'[g] = hs[g]
         /\ hs'[h].pc = label /\ hs'[h].slice = hs[h].slice
         /\ hs'[h].patp = hs[h].patp /\ hs'[h].port = n
<1> DEFINE r == [hs[h] EXCEPT !.port = n, !.pc = label]
<1>1. hs[h] \in Handler /\ hs[h].patp \in Patps
  BY DEF Works
<1>2. /\ r \in Handler /\ r.pc = label /\ r.slice = hs[h].slice
      /\ r.patp = hs[h].patp /\ r.port = n
  BY <1>1 DEF Handler
<1>3. hs' = [hs EXCEPT ![h] = r]
  OBVIOUS
<1> HIDE DEF r
<1>4. hs'[h] = r /\ \A g \in Handlers : g # h => hs'[g] = hs[g]
  BY <1>3 DEF Works
<1>5. Works(hs')
  BY <1>1, <1>2, <1>3, <1>4 DEF Works
<1> QED
  BY <1>2, <1>4, <1>5

LEMMA BeginOf ==
  ASSUME Works(hs), NEW h \in Handlers, Begin(h)
  PROVE  /\ Works(hs') /\ \A g \in Handlers : g # h => hs'[g] = hs[g]
         /\ hs[h] = Idle /\ hs'[h].patp \in Patps
         /\ hs'[h].pc \in {"ports", "delete"} /\ hs'[h].slice = NilSlice
<1>1. hs[h] = Idle /\ hs \in [Handlers -> Handler]
  BY DEF Begin, At, Works
<1>2. PICK p \in Patps, label \in {"ports", "delete"} :
        hs' = [hs EXCEPT ![h] = [Idle EXCEPT !.patp = p, !.pc = label]]
  BY DEF Begin
<1> DEFINE r == [Idle EXCEPT !.patp = p, !.pc = label]
<1>3. r.patp = p /\ r.pc = label /\ r.slice = NilSlice /\ r \in Handler
  BY IdleWorks DEF Handler, Labels, Idle
<1> HIDE DEF r
<1>4. hs' = [hs EXCEPT ![h] = r]
  BY <1>2 DEF r
<1>5. hs'[h] = r /\ \A g \in Handlers : g # h => hs'[g] = hs[g]
  BY <1>1, <1>4
<1>6. Works(hs')
  BY <1>1, <1>3, <1>4, <1>5 DEF Works
<1> QED
  BY <1>1, <1>3, <1>5, <1>6

\* The port of a new ship is above those of the listed ships.
LEMMA OpenPortOf ==
  ASSUME TypeOK
  PROVE  /\ OpenPort \in Nat \ {0}
         /\ \A q \in Range(Contents(piers)) : urb[q] < OpenPort
<1> DEFINE S == {urb[p] : p \in Range(Contents(piers))} \cup {0}
<1>1. Contents(piers) \in Seq(Patps) /\ urb \in Ports0 /\ MaxPort \in Nat
  BY ViewOf, TypeParts, PiersAssumption DEF AllFit, Contents
<1>2. Range(Contents(piers)) \subseteq Patps
  BY <1>1, ShipsOf
<1>3. S \subseteq 0..MaxPort /\ S # {} /\ \A q \in Range(Contents(piers)) : urb[q] \in S
  BY <1>1, <1>2 DEF Ports0
<1>4. OpenPort = 1 + Max(S)
  BY DEF OpenPort
<1> HIDE DEF S
<1>5. Max(S) \in S /\ \A y \in S : Max(S) >= y
  BY <1>1, <1>3, MaxOf
<1>6. Max(S) \in Nat /\ \A y \in S : y \in Nat
  <2>1. S \subseteq Nat
    BY <1>1, <1>3
  <2> QED
    BY <1>5, <2>1
<1>7. OpenPort \in Nat \ {0} /\ \A y \in S : y < OpenPort
  BY <1>4, <1>5, <1>6
<1> QED
  BY <1>3, <1>7

LEMMA PortsOf ==
  ASSUME TypeOK, NEW h \in Handlers, Ports(h)
  PROVE  /\ Works(hs') /\ \A g \in Handlers : g # h => hs'[g] = hs[g]
         /\ hs'[h].pc = "config" /\ hs'[h].slice = hs[h].slice
         /\ hs'[h].patp = hs[h].patp /\ hs'[h].port = OpenPort
<1>1. OpenPort \in 0..MaxPort
  BY OpenPortOf, PiersAssumption DEF Ports
<1>2. /\ Works(hs) /\ hs[h].pc # "idle" /\ "config" \in Labels \ {"idle"}
      /\ hs' = [hs EXCEPT ![h].port = OpenPort, ![h].pc = "config"]
  BY TypeParts DEF Ports, At, Labels
<1> QED
  BY <1>1, <1>2, SetPortOf

LEMMA StoreConfigOf ==
  ASSUME TypeOK, NEW h \in Handlers, StoreConfig(h)
  PROVE  /\ Works(hs') /\ \A g \in Handlers : g # h => hs'[g] = hs[g]
         /\ hs'[h].slice = hs[h].slice /\ hs'[h].patp = hs[h].patp
         /\ urb' \in Ports0 /\ files' \in Ports0
         /\ \A p \in Patps : urb'[p] = IF p = hs[h].patp THEN hs[h].port ELSE urb[p]
         /\ "store" \notin Faults =>
              /\ hs'[h].pc = "read"
              /\ \A p \in Patps : files'[p] = IF urb'[p] # 0 THEN urb'[p] ELSE files[p]
<1>1. /\ Works(hs) /\ hs[h].pc # "idle" /\ {"read", "cleanup"} \subseteq Labels \ {"idle"}
      /\ 0 \in 0..MaxPort /\ urb \in Ports0 /\ files \in Ports0
  BY TypeParts, PiersAssumption DEF StoreConfig, At, Labels
<1>2. hs[h].port \in 0..MaxPort /\ hs[h].patp \in Patps
  BY <1>1 DEF Works, Handler
<1>3. urb' = [urb EXCEPT ![hs[h].patp] = hs[h].port]
  BY DEF StoreConfig
<1>4. urb' \in Ports0 /\ \A p \in Patps :
        urb'[p] = IF p = hs[h].patp THEN hs[h].port ELSE urb[p]
  BY <1>1, <1>2, <1>3 DEF Ports0
<1>5. StoreFiles(urb') \in Ports0
  BY <1>1, <1>4 DEF Ports0, StoreFiles
<1>6. PICK label \in {"read", "cleanup"} :
        /\ hs' = [hs EXCEPT ![h].port = 0, ![h].pc = label]
        /\ \/ label = "read" /\ files' = StoreFiles(urb')
           \/ "store" \in Faults /\ StoreFails(urb')
  BY DEF StoreConfig
<1>7. /\ Works(hs') /\ \A g \in Handlers : g # h => hs'[g] = hs[g]
      /\ hs'[h].pc = label /\ hs'[h].slice = hs[h].slice /\ hs'[h].patp = hs[h].patp
  <2>1. /\ Works(hs) /\ hs[h].pc # "idle" /\ 0 \in 0..MaxPort
        /\ label \in Labels \ {"idle"}
    BY <1>1
  <2>2. hs' = [hs EXCEPT ![h].port = 0, ![h].pc = label]
    BY <1>6
  <2> DEFINE r == [hs[h] EXCEPT !.port = 0, !.pc = label]
  <2>3. hs[h] \in Handler /\ hs[h].patp \in Patps
    BY <2>1 DEF Works
  <2>4. r \in Handler /\ r.pc = label /\ r.slice = hs[h].slice /\ r.patp = hs[h].patp
    BY <2>1, <2>3 DEF Handler
  <2>5. hs' = [hs EXCEPT ![h] = r]
    BY <2>2
  <2> HIDE DEF r
  <2>6. hs'[h] = r /\ \A g \in Handlers : g # h => hs'[g] = hs[g]
    BY <2>1, <2>5 DEF Works
  <2>7. Works(hs')
    BY <2>1, <2>3, <2>4, <2>5, <2>6 DEF Works
  <2> QED
    BY <2>4, <2>6, <2>7
<1>8. ASSUME StoreFails(urb') PROVE files' \in Ports0
  <2>6. PICK q \in Patps, done \in SUBSET Patps : \E n \in {0, files[q]} :
          files' = [p \in Patps |-> IF p = q THEN n
                     ELSE IF p \in done THEN StoreFiles(urb')[p] ELSE files[p]]
    BY <1>8 DEF StoreFails
  <2>1. PICK n \in {0, files[q]} :
          files' = [p \in Patps |-> IF p = q THEN n
                     ELSE IF p \in done THEN StoreFiles(urb')[p] ELSE files[p]]
    BY <2>6
  <2> DEFINE f == StoreFiles(urb')
  <2>2. f \in Ports0
    BY <1>5
  <2> HIDE DEF f
  <2>3. \A p \in Patps : files[p] \in 0..MaxPort /\ f[p] \in 0..MaxPort
    BY <1>1, <2>2 DEF Ports0
  <2>4. n \in 0..MaxPort
    BY <1>1, <2>3
  <2>5. files' = [p \in Patps |-> IF p = q THEN n ELSE IF p \in done THEN f[p] ELSE files[p]]
    BY <2>1 DEF f
  <2> QED
    BY <2>3, <2>4, <2>5 DEF Ports0
<1>9. files' \in Ports0
  BY <1>5, <1>6, <1>8
<1>10. ASSUME "store" \notin Faults
       PROVE  /\ label = "read"
              /\ \A p \in Patps : files'[p] = IF urb'[p] # 0 THEN urb'[p] ELSE files[p]
  BY <1>6, <1>10 DEF StoreFiles
<1> QED
  BY <1>4, <1>7, <1>9, <1>10

\* A handler that neither changes a list nor saves one.
LEMMA QuietStep ==
  ASSUME TypeOK, NEW h \in Handlers, hs[h].pc \notin {"persist", "dpersist"},
         UNCHANGED confVars, Works(hs'), \A g \in Handlers : g # h => hs'[g] = hs[g],
         hs'[h].slice \in {hs[h].slice, NilSlice, piers},
         urb' \in Ports0, files' \in Ports0, DockTypes'
  PROVE  TypeOK' /\ (MemoryMatchesDisk => MemoryMatchesDisk')
<1>1. /\ AllFit(heap, piers, hs) /\ disk \in Seq(Patps) /\ unsaved \in BOOLEAN
      /\ UNCHANGED <<heap, piers, disk, unsaved>>
  BY TypeParts DEF confVars
<1>2. \A g \in Handlers : hs'[g].slice \in {hs[g].slice, NilSlice, piers}
  OBVIOUS
<1>3. AllFit(heap', piers', hs')
  BY <1>1, <1>2, StillFit
<1>4. TypeOK'
  BY <1>1, <1>3, Typed
<1>5. MemoryMatchesDisk => MemoryMatchesDisk'
  BY <1>1 DEF MemoryMatchesDisk, Contents
<1> QED
  BY <1>4, <1>5

LEMMA SavedStep ==
  ASSUME TypeOK, NEW h \in Handlers,
         Works(hs'), AllFit(heap', piers', hs'), View(heap', piers') = disk',
         disk' \in Seq(Patps), unsaved' = FALSE,
         urb' \in Ports0, files' \in Ports0, DockTypes'
  PROVE  TypeOK' /\ MemoryMatchesDisk'
BY Typed DEF MemoryMatchesDisk, Contents

\* A handler has changed a list, and has it to save.
LEMMA PendingStep ==
  ASSUME TypeOK, NEW h \in Handlers, hs'[h].pc \in {"persist", "dpersist"},
         Works(hs'), AllFit(heap', piers', hs'), UNCHANGED <<disk, unsaved>>,
         UNCHANGED pierVars, UNCHANGED dockVars
  PROVE  TypeOK' /\ MemoryMatchesDisk'
<1>1. /\ disk' \in Seq(Patps) /\ unsaved' \in BOOLEAN
      /\ urb' \in Ports0 /\ files' \in Ports0 /\ DockTypes'
  BY TypeParts DEF pierVars, dockVars, DockTypes
<1>2. TypeOK'
  BY <1>1, Typed
<1> QED
  BY <1>2 DEF MemoryMatchesDisk

\* system.json could not be read or written: "unsaved" says when memory and
\* file part.
LEMMA FailStep ==
  ASSUME TypeOK, NEW h \in Handlers, hs[h].pc # "idle", NEW next \in Labels \ {"idle"},
         UpdateConfFails(h, next), UNCHANGED pierVars, UNCHANGED dockVars
  PROVE  TypeOK' /\ (MemoryMatchesDisk => MemoryMatchesDisk')
<1>1. /\ Works(hs') /\ AllFit(heap', piers', hs') /\ UNCHANGED disk
      /\ \/ /\ unsaved' = (unsaved \/ hs[h].pc \in {"persist", "dpersist"})
            /\ View(heap', piers') = Contents(piers)
         \/ unsaved' = (View(heap', piers') # disk)
      /\ \A g \in Handlers : g # h => hs'[g] = hs[g]
  BY FailOf
<1>2. /\ disk' \in Seq(Patps) /\ unsaved' \in BOOLEAN
      /\ urb' \in Ports0 /\ files' \in Ports0 /\ DockTypes'
  <2>1. unsaved \in BOOLEAN /\ disk \in Seq(Patps)
        /\ urb \in Ports0 /\ files \in Ports0 /\ DockTypes
    BY TypeParts
  <2>2. unsaved' \in BOOLEAN
    BY <1>1, <2>1
  <2> QED
    BY <1>1, <2>1, <2>2 DEF pierVars, dockVars, DockTypes
<1>3. TypeOK'
  BY <1>1, <1>2, Typed
<1>4. ASSUME MemoryMatchesDisk, ~unsaved',
             \A g \in Handlers : hs'[g].pc \notin {"persist", "dpersist"}
      PROVE  View(heap', piers') = disk'
  <2>1. CASE unsaved' = (View(heap', piers') # disk)
    BY <1>1, <1>4, <2>1
  <2>2. CASE /\ unsaved' = (unsaved \/ hs[h].pc \in {"persist", "dpersist"})
             /\ View(heap', piers') = Contents(piers)
    <3>1. ~unsaved /\ hs[h].pc \notin {"persist", "dpersist"}
      BY <1>4, <2>2
    <3>2. \A g \in Handlers : hs[g].pc \notin {"persist", "dpersist"}
      BY <1>1, <1>4, <3>1
    <3> QED
      BY <1>1, <1>4, <2>2, <3>1, <3>2 DEF MemoryMatchesDisk
  <2> QED
    BY <1>1, <2>1, <2>2
<1> QED
  BY <1>3, <1>4 DEF MemoryMatchesDisk, Contents

LEMMA PersistStep ==
  ASSUME TypeOK, NEW h \in Handlers, hs[h].pc # "idle", NEW next \in Labels \ {"idle"},
         Persist(h, next), UNCHANGED pierVars, UNCHANGED dockVars
  PROVE  TypeOK' /\ MemoryMatchesDisk'
<1>1. /\ Works(hs') /\ AllFit(heap', piers', hs') /\ unsaved' = FALSE
      /\ disk' \in Seq(Patps) /\ View(heap', piers') = disk'
  BY PersistOf
<1>2. urb' \in Ports0 /\ files' \in Ports0 /\ DockTypes'
  BY TypeParts DEF pierVars, dockVars, DockTypes
<1> QED
  BY <1>1, <1>2, SavedStep

Kept == TypeOK' /\ (MemoryMatchesDisk => MemoryMatchesDisk')

LEMMA BeginKept ==
  ASSUME TypeOK, NEW h \in Handlers, Begin(h)
  PROVE  Kept
<1>1. /\ Works(hs') /\ \A g \in Handlers : g # h => hs'[g] = hs[g]
      /\ hs[h] = Idle /\ hs'[h].slice = NilSlice
  BY BeginOf, TypeParts
<1>2. /\ UNCHANGED confVars /\ urb' \in Ports0 /\ files' \in Ports0 /\ DockTypes'
  BY TypeParts DEF Begin, pierVars, dockVars, DockTypes
<1>3. hs[h].pc \notin {"persist", "dpersist"}
  BY <1>1, IdleWorks
<1> QED
  BY <1>1, <1>2, <1>3, QuietStep DEF Kept

LEMMA ConfigKept ==
  ASSUME TypeOK, NEW h \in Handlers, Ports(h) \/ StoreConfig(h) \/ ReadPiers(h) \/ ReadToCut(h)
  PROVE  Kept
<1>1. Works(hs) /\ urb \in Ports0 /\ files \in Ports0 /\ DockTypes
  BY TypeParts
<1>2. CASE Ports(h)
  <2>1. /\ Works(hs') /\ \A g \in Handlers : g # h => hs'[g] = hs[g]
        /\ hs'[h].slice = hs[h].slice
    BY <1>2, PortsOf
  <2>2. /\ UNCHANGED confVars /\ urb' \in Ports0 /\ files' \in Ports0 /\ DockTypes'
        /\ hs[h].pc \notin {"persist", "dpersist"}
    BY <1>1, <1>2 DEF Ports, At, pierVars, dockVars, DockTypes
  <2> QED
    BY <2>1, <2>2, QuietStep DEF Kept
<1>3. CASE StoreConfig(h)
  <2>1. /\ Works(hs') /\ \A g \in Handlers : g # h => hs'[g] = hs[g]
        /\ hs'[h].slice = hs[h].slice /\ urb' \in Ports0 /\ files' \in Ports0
    BY <1>3, StoreConfigOf
  <2>2. /\ UNCHANGED confVars /\ DockTypes' /\ hs[h].pc \notin {"persist", "dpersist"}
    BY <1>1, <1>3 DEF StoreConfig, At, dockVars, DockTypes
  <2> QED
    BY <2>1, <2>2, QuietStep DEF Kept
<1>4. CASE ReadPiers(h) \/ ReadToCut(h)
  <2>1. PICK label \in {"append", "cut"} : Hold(h, piers, label)
    BY <1>4 DEF ReadPiers, ReadToCut
  <2>2. /\ UNCHANGED confVars /\ urb' \in Ports0 /\ files' \in Ports0 /\ DockTypes'
        /\ hs[h].pc \in {"read", "dread"}
    BY <1>1, <1>4 DEF ReadPiers, ReadToCut, At, pierVars, dockVars, DockTypes
  <2>3. piers \in Slice /\ label \in Labels \ {"idle"}
    BY <2>1, TypeParts DEF AllFit, Fits, Labels
  <2>4. /\ Works(hs') /\ \A g \in Handlers : g # h => hs'[g] = hs[g]
        /\ hs'[h].slice = piers
    BY <1>1, <2>1, <2>2, <2>3, HoldOf
  <2> QED
    BY <2>2, <2>4, QuietStep DEF Kept
<1> QED
  BY <1>2, <1>3, <1>4

LEMMA ListKept ==
  ASSUME TypeOK, NEW h \in Handlers, AppendPier(h) \/ CollectOthers(h) \/ Cut(h)
  PROVE  Kept
<1>1. CASE AppendPier(h)
  <2>1. Works(hs') /\ AllFit(heap', piers', hs') /\ hs'[h].pc = "persist"
    BY <1>1, AppendPierOf
  <2>2. UNCHANGED <<disk, unsaved>> /\ UNCHANGED pierVars /\ UNCHANGED dockVars
    BY <1>1 DEF AppendPier
  <2> QED
    BY <2>1, <2>2, PendingStep DEF Kept
<1>2. CASE CollectOthers(h)
  <2>1. /\ Works(hs') /\ AllFit(heap', piers', hs') /\ View(heap', piers') = Contents(piers)
        /\ \A g \in Handlers : g # h => hs'[g] = hs[g]
    BY <1>2, CollectOthersOf
  <2>2. UNCHANGED <<disk, unsaved>> /\ UNCHANGED pierVars /\ UNCHANGED dockVars
        /\ hs[h].pc = "cread"
    BY <1>2 DEF CollectOthers, At
  <2>3. /\ disk' \in Seq(Patps) /\ unsaved' \in BOOLEAN
        /\ urb' \in Ports0 /\ files' \in Ports0 /\ DockTypes'
    BY <2>2, TypeParts DEF pierVars, dockVars, DockTypes
  <2>4. TypeOK'
    BY <2>1, <2>3, Typed
  <2>5. MemoryMatchesDisk => MemoryMatchesDisk'
    <3>1. (\A g \in Handlers : hs'[g].pc \notin {"persist", "dpersist"})
            => \A g \in Handlers : hs[g].pc \notin {"persist", "dpersist"}
      BY <2>1, <2>2
    <3> QED
      BY <2>1, <2>2, <3>1 DEF MemoryMatchesDisk, Contents
  <2> QED
    BY <2>4, <2>5 DEF Kept
<1>3. CASE Cut(h)
  <2>1. Works(hs') /\ AllFit(heap', piers', hs') /\ hs'[h].pc = "dpersist"
    BY <1>3, CutOf
  <2>2. UNCHANGED <<disk, unsaved>> /\ UNCHANGED pierVars /\ UNCHANGED dockVars
    BY <1>3 DEF Cut
  <2> QED
    BY <2>1, <2>2, PendingStep DEF Kept
<1> QED
  BY <1>1, <1>2, <1>3

LEMMA SaveKept ==
  ASSUME TypeOK, NEW h \in Handlers, PersistPier(h) \/ PersistOthers(h) \/ PersistCut(h)
  PROVE  Kept
<1>1. PICK next \in {"prepare", "cleanup", "cvolume", "dvolume"} :
        Persist(h, next) \/ UpdateConfFails(h, next)
  BY DEF PersistPier, PersistOthers, PersistCut
<1>2. UNCHANGED pierVars /\ UNCHANGED dockVars /\ hs[h].pc # "idle"
  BY DEF PersistPier, PersistOthers, PersistCut, At
<1>3. next \in Labels \ {"idle"}
  BY DEF Labels
<1>4. CASE Persist(h, next)
  BY <1>2, <1>3, <1>4, PersistStep DEF Kept
<1>5. CASE UpdateConfFails(h, next)
  BY <1>2, <1>3, <1>5, FailStep DEF Kept
<1> QED
  BY <1>1, <1>4, <1>5

LEMMA TurnKept ==
  ASSUME TypeOK, NEW h \in Handlers, hs[h].pc \notin {"idle", "persist", "dpersist"},
         NEW label \in Labels \ {"idle"}, Move(h, label) \/ Finish(h),
         UNCHANGED confVars, urb' \in Ports0, files' \in Ports0, DockTypes'
  PROVE  Kept
<1>1. Works(hs)
  BY TypeParts
<1>2. /\ Works(hs') /\ \A g \in Handlers : g # h => hs'[g] = hs[g]
      /\ hs'[h].slice \in {hs[h].slice, NilSlice}
  <2>1. CASE Move(h, label)
    BY <1>1, <2>1, MoveOf
  <2>2. CASE Finish(h)
    BY <1>1, <2>2, FinishOf, IdleWorks
  <2> QED
    BY <2>1, <2>2
<1> QED
  BY <1>2, QuietStep DEF Kept

LEMMA ShipKept ==
  ASSUME TypeOK, NEW h \in Handlers,
         \/ Prepare(h) \/ Fill(h) \/ Start(h) \/ Ready(h) \/ GoRemote(h)
         \/ StartRemote(h)
  PROVE  Kept
<1> DEFINE p == hs[h].patp
<1>1. Works(hs) /\ urb \in Ports0 /\ files \in Ports0 /\ DockTypes
  BY TypeParts
<1>2. hs[h].pc \in {"prepare", "fill", "start", "wait", "remote", "restart"}
      /\ UNCHANGED confVars
  BY DEF Prepare, Fill, Start, Ready, GoRemote, StartRemote, At
<1>3. p \in Patps
  BY <1>1, <1>2 DEF Works
<1>4. CASE Prepare(h)
  <2>1. PICK label \in {"fill", "cleanup"} : Move(h, label)
    BY <1>4 DEF Prepare
  <2>2. label \in Labels \ {"idle"}
    BY DEF Labels
  <2>3. /\ UNCHANGED pierVars /\ cont' = [cont EXCEPT ![p] = "none"]
        /\ vols' \in {DeleteVolume(p) \cup {p}, DeleteVolume(p)}
        /\ killed' = killed \ {p}
    BY <1>4 DEF Prepare
  <2>4. DeleteVolume(p) \subseteq Patps
    BY <1>1 DEF DeleteVolume, DockTypes
  <2>5. urb' \in Ports0 /\ files' \in Ports0 /\ DockTypes'
    BY <1>1, <1>3, <2>3, <2>4 DEF pierVars, DockTypes
  <2> QED
    BY <1>2, <2>1, <2>2, <2>5, TurnKept
<1>5. CASE Fill(h)
  <2>1. PICK label \in {"start", "cleanup"} : Move(h, label)
    BY <1>5 DEF Fill
  <2>2. label \in Labels \ {"idle"}
    BY DEF Labels
  <2>3. urb' \in Ports0 /\ files' \in Ports0 /\ DockTypes'
    BY <1>1, <1>5 DEF Fill, pierVars, dockVars, DockTypes
  <2> QED
    BY <1>2, <2>1, <2>2, <2>3, TurnKept
<1>6. CASE Start(h) \/ StartRemote(h)
  <2>1. PICK label \in {"wait", "cleanup"} : Move(h, label) \/ Finish(h)
    BY <1>6 DEF Start, StartRemote
  <2>2. label \in Labels \ {"idle"}
    BY DEF Labels
  <2>3. /\ UNCHANGED <<pierVars, vols, killed>>
        /\ cont' \in {cont, [cont EXCEPT ![p] = "started"], [cont EXCEPT ![p] = "created"]}
    BY <1>6 DEF Start, StartRemote, Created, NotCreated
  <2>4. cont' \in [Patps -> {"none", "created", "started"}]
    BY <1>1, <1>3, <2>3 DEF DockTypes
  <2>5. urb' \in Ports0 /\ files' \in Ports0 /\ DockTypes'
    BY <1>1, <2>3, <2>4 DEF pierVars, DockTypes
  <2> QED
    BY <1>2, <2>1, <2>2, <2>5, TurnKept
<1>7. CASE Ready(h)
  <2>1. PICK label \in {"remote", "cleanup"} : Move(h, label) \/ Finish(h)
    BY <1>7 DEF Ready
  <2>2. label \in Labels \ {"idle"} /\ 0 \in 0..MaxPort
    BY PiersAssumption DEF Labels
  <2>3. /\ UNCHANGED dockVars /\ urb' = urb
        /\ files' \in {files, [files EXCEPT ![p] = urb[p]], [files EXCEPT ![p] = 0]}
    BY <1>7 DEF Ready
  <2>4. urb' \in Ports0 /\ files' \in Ports0 /\ DockTypes'
    BY <1>1, <1>3, <2>2, <2>3 DEF dockVars, DockTypes, Ports0
  <2> QED
    BY <1>2, <2>1, <2>2, <2>4, TurnKept
<1>8. CASE GoRemote(h)
  <2>1. "restart" \in Labels \ {"idle"} /\ Move(h, "restart")
    BY <1>8 DEF GoRemote, Labels
  <2>2. UNCHANGED <<pierVars, vols, killed>> /\ cont' = [cont EXCEPT ![p] = "none"]
    BY <1>8 DEF GoRemote
  <2>3. cont' \in [Patps -> {"none", "created", "started"}]
    BY <1>1, <1>3, <2>2 DEF DockTypes
  <2>4. urb' \in Ports0 /\ files' \in Ports0 /\ DockTypes'
    BY <1>1, <2>2, <2>3 DEF pierVars, DockTypes
  <2> QED
    BY <1>2, <2>1, <2>4, TurnKept
<1> QED
  BY <1>4, <1>5, <1>6, <1>7, <1>8

LEMMA RemoveKept ==
  ASSUME TypeOK, NEW h \in Handlers, RemoveConfig(h) \/ RemoveVolume(h) \/ RemoveContainer(h)
  PROVE  Kept
<1> DEFINE p == hs[h].patp
<1>1. Works(hs) /\ urb \in Ports0 /\ files \in Ports0 /\ DockTypes
  BY TypeParts
<1>2. /\ hs[h].pc \in {"cleanup", "dconfig", "cvolume", "dvolume", "delete"}
      /\ UNCHANGED confVars
  BY DEF RemoveConfig, RemoveVolume, RemoveContainer, At
<1>3. p \in Patps
  BY <1>1, <1>2 DEF Works
<1>4. CASE RemoveConfig(h)
  <2>1. PICK label \in {"cread", "dread"} : Move(h, label)
    BY <1>4 DEF RemoveConfig
  <2>2. label \in Labels \ {"idle"}
    BY DEF Labels
  <2>3. /\ urb' = [urb EXCEPT ![p] = 0] /\ files' = [files EXCEPT ![p] = 0]
        /\ UNCHANGED dockVars
    BY <1>4 DEF RemoveConfig, Removed
  <2>4. 0 \in 0..MaxPort
    BY PiersAssumption
  <2>5. urb' \in Ports0 /\ files' \in Ports0 /\ DockTypes'
    BY <1>1, <2>3, <2>4 DEF dockVars, DockTypes, Ports0
  <2> QED
    BY <1>2, <2>1, <2>2, <2>5, TurnKept
<1>5. CASE RemoveVolume(h)
  <2>1. Finish(h) /\ UNCHANGED <<pierVars, killed, cont>> /\ vols' = DeleteVolume(p)
    BY <1>5 DEF RemoveVolume
  <2>2. DeleteVolume(p) \subseteq Patps
    BY <1>1 DEF DeleteVolume, DockTypes
  <2>3. /\ urb' \in Ports0 /\ files' \in Ports0 /\ DockTypes'
        /\ "cread" \in Labels \ {"idle"}
    BY <1>1, <2>1, <2>2 DEF pierVars, DockTypes, Labels
  <2> QED
    BY <1>2, <2>1, <2>3, TurnKept
<1>6. CASE RemoveContainer(h)
  <2>1. (Finish(h) \/ Move(h, "dconfig")) /\ "dconfig" \in Labels \ {"idle"}
    BY <1>6 DEF RemoveContainer, Labels
  <2>2. UNCHANGED <<pierVars, vols, killed>> /\ cont' \in {cont, [cont EXCEPT ![p] = "none"]}
    BY <1>6 DEF RemoveContainer
  <2>3. cont' \in [Patps -> {"none", "created", "started"}]
    BY <1>1, <1>3, <2>2 DEF DockTypes
  <2>4. urb' \in Ports0 /\ files' \in Ports0 /\ DockTypes'
    BY <1>1, <2>2, <2>3 DEF pierVars, DockTypes
  <2> QED
    BY <1>2, <2>1, <2>4, TurnKept
<1> QED
  BY <1>4, <1>5, <1>6

LEMMA OtherKept ==
  ASSUME TypeOK, UpdateOther
  PROVE  Kept
<1>1. /\ hs' = hs /\ (UpdateConf(disk) \/ WriteFails(disk))
      /\ UNCHANGED pierVars /\ UNCHANGED dockVars /\ disk \in Seq(Patps)
  BY TypeParts DEF UpdateOther
<1>2. \A g \in Handlers : hs'[g].slice \in {hs[g].slice, NilSlice}
  BY <1>1
<1>3. /\ AllFit(heap', piers', hs') /\ disk' = disk /\ unsaved' = FALSE
      /\ View(heap', piers') = disk
  BY <1>1, <1>2, UpdateOf, WriteOf
<1>4. Works(hs') /\ urb' \in Ports0 /\ files' \in Ports0 /\ DockTypes'
  BY <1>1, TypeParts DEF pierVars, dockVars, DockTypes
<1>5. TypeOK'
  BY <1>1, <1>3, <1>4, Typed
<1> QED
  BY <1>3, <1>5 DEF Kept, MemoryMatchesDisk, Contents

LEMMA RestartKept ==
  ASSUME TypeOK, Restart
  PROVE  Kept
<1>1. /\ Works(hs') /\ AllFit(heap', piers', hs')
      /\ View(heap', piers') = disk /\ UNCHANGED disk /\ unsaved' = FALSE
  BY RestartOf
<1>2. Works(hs) /\ disk \in Seq(Patps) /\ files \in Ports0 /\ DockTypes
  BY TypeParts
<1>3. urb' \in Ports0 /\ UNCHANGED files
  BY <1>2, PiersAssumption DEF Restart, Ports0
<1>4. killed' \subseteq Patps
  <2>1. \A h \in Handlers : hs[h].patp \in Patps \cup {NoPatp}
    BY <1>2 DEF Works, Handler
  <2> QED
    BY <1>2, <2>1 DEF Restart, DockTypes
<1>5. DockTypes'
  <2>1. PICK up \in SUBSET {p \in Range(disk) : files[p] # 0} :
          /\ cont' = [p \in Patps |-> IF p \in up THEN "started" ELSE cont[p]]
          /\ vols' = vols \cup up
    BY DEF Restart
  <2>2. up \subseteq Patps
    BY <1>2, ShipsOf
  <2> QED
    BY <1>2, <1>4, <2>1, <2>2 DEF DockTypes
<1>6. TypeOK'
  BY <1>1, <1>2, <1>3, <1>5, Typed
<1> QED
  BY <1>1, <1>6 DEF Kept, MemoryMatchesDisk, Contents

LEMMA NextKept ==
  ASSUME TypeOK, [Next]_vars
  PROVE  Kept
<1>1. ASSUME NEW h \in Handlers, Begin(h) \/ Work(h) PROVE Kept
  BY <1>1, BeginKept, ConfigKept, ListKept, SaveKept, ShipKept, RemoveKept DEF Work
<1>2. CASE UNCHANGED vars
  BY <1>2 DEF vars, Kept, TypeOK, MemoryMatchesDisk, At, Contents
<1> QED
  BY <1>1, <1>2, OtherKept, RestartKept DEF Next

-----------------------------------------------------------------------------
(* The first household                                                     *)

LEMMA HouseholdOf ==
  ASSUME NEW v \in SetToAllKPermutations(Patps)
  PROVE  v \in Seq(Patps) /\ IsInjective(v)
<1>1. PICK s \in SUBSET Patps : v \in SetToSeqs(s)
  BY DEF SetToAllKPermutations
<1>2. Cardinality(s) \in Nat
  <2>1. IsFiniteSet(s)
    BY PiersAssumption, FS_Subset
  <2> QED
    BY <2>1, FS_CardinalityType
<1>3. v \in [1..Cardinality(s) -> s] /\ \A i, j \in 1..Cardinality(s) : i # j => v[i] # v[j]
  BY <1>1 DEF SetToSeqs
<1>4. v \in Seq(s) /\ Len(v) = Cardinality(s)
  BY <1>2, <1>3
<1>5. v \in Seq(Patps)
  BY <1>4, SeqMonotonic
<1>6. IsInjective(v)
  BY <1>3 DEF IsInjective
<1> QED
  BY <1>5, <1>6

\* The port of a ship of the first household is its place in the list.
LEMMA InitOf ==
  ASSUME Init
  PROVE  /\ TypeOK /\ MemoryMatchesDisk /\ IsInjective(disk) /\ unsaved = FALSE
         /\ hs = [h \in Handlers |-> Idle] /\ vols = Range(disk) /\ files = urb
         /\ cont = [p \in Patps |-> IF p \in Range(disk) THEN "started" ELSE "none"]
         /\ \A p \in Range(disk) : urb[p] \in 1..Len(disk) /\ disk[urb[p]] = p
<1>1. PICK v \in SetToAllKPermutations(Patps) :
        /\ Len(v) < MaxPort
        /\ disk = v
        /\ piers = IF v = <<>> THEN NilSlice ELSE [arr |-> 1, len |-> Len(v)]
        /\ heap = [a \in Arrays |-> IF a = 1 /\ v # <<>>
                     THEN Filled(v, Grown(0, Len(v))) ELSE <<>>]
        /\ urb = [p \in Patps |->
                    IF p \in Range(v) THEN CHOOSE i \in DOMAIN v : v[i] = p ELSE 0]
        /\ files = urb
        /\ cont = [p \in Patps |-> IF p \in Range(v) THEN "started" ELSE "none"]
        /\ vols = Range(v)
        /\ hs = [h \in Handlers |-> Idle]
        /\ unsaved = FALSE
        /\ killed = {}
  BY DEF Init
<1>2. v \in Seq(Patps) /\ IsInjective(v) /\ Range(v) \subseteq Patps /\ Len(v) \in Nat
  BY HouseholdOf, ShipsOf
<1>3. AllFit(heap, piers, [h \in Handlers |-> Idle]) /\ View(heap, piers) = v
  BY <1>1, <1>2, LoadedOf
<1>4. Works(hs)
  BY <1>1, IdleWorks DEF Works
<1>5. ASSUME NEW p \in Range(v) PROVE urb[p] \in 1..Len(v) /\ v[urb[p]] = p
  <2>1. urb[p] = CHOOSE i \in DOMAIN v : v[i] = p
    BY <1>1, <1>2
  <2>2. \E i \in 1..Len(v) : v[i] = p
    BY <1>2, RangeEquality
  <2>3. DOMAIN v = 1..Len(v)
    BY <1>2
  <2> QED
    BY <2>1, <2>2, <2>3
<1>6. urb \in Ports0
  <2>1. ASSUME NEW p \in Patps PROVE urb[p] \in 0..MaxPort
    <3>1. CASE p \in Range(v)
      <4>1. urb[p] \in 1..Len(v)
        BY <1>5, <3>1
      <4>2. Len(v) \in Nat /\ MaxPort \in Nat /\ Len(v) < MaxPort
        BY <1>1, <1>2, PiersAssumption
      <4> QED
        BY <4>1, <4>2
    <3>2. CASE p \notin Range(v)
      <4>1. urb[p] = 0
        BY <1>1, <3>2
      <4> QED
        BY <4>1, PiersAssumption
    <3> QED
      BY <3>1, <3>2
  <2>2. urb = [p \in Patps |-> urb[p]]
    BY <1>1
  <2> QED
    BY <2>1, <2>2 DEF Ports0
<1>7. DockTypes
  BY <1>1, <1>2 DEF DockTypes
<1>8. TypeOK
  BY <1>1, <1>2, <1>3, <1>4, <1>6, <1>7, TypeParts
<1>9. MemoryMatchesDisk
  BY <1>1, <1>3 DEF MemoryMatchesDisk, Contents
<1> QED
  BY <1>1, <1>2, <1>5, <1>8, <1>9

\* Slices stay inside their arrays, whatever the handlers do at the same time:
\* every variable keeps its type.
THEOREM TypeCorrect == Spec => []TypeOK
<1>1. Init => TypeOK
  BY InitOf
<1>2. TypeOK /\ [Next]_vars => TypeOK'
  BY NextKept DEF Kept
<1> QED
  BY <1>1, <1>2, PTL DEF Spec

\* Once no handler is between a change in place and its UpdateConf, the list
\* in memory is the one in system.json: any number of handlers that create,
\* import and delete ships at once, updates of other settings, failing reads
\* of system.json and restarts.
THEOREM MemoryMatchesDiskHolds == Spec => []MemoryMatchesDisk
<1>1. Init => MemoryMatchesDisk
  BY InitOf
<1>2. TypeOK /\ MemoryMatchesDisk /\ [Next]_vars => MemoryMatchesDisk'
  BY NextKept DEF Kept
<1> QED
  BY <1>1, <1>2, TypeCorrect, PTL DEF Spec

-----------------------------------------------------------------------------
(* One action at a time                                                    *)

\* The user waits for one action before the next, nothing else saves the
\* configuration meanwhile, no new ship goes remote, and the faults are the
\* ones that errorCleanup can undo: it leaves a container that was created and
\* not started, or that ran before its pier file could not be stored, and a
\* list that is not saved.
Alone == /\ Serial /\ ~OtherUpdates /\ TRUE \notin Remotes
         /\ Faults \subseteq {"volume", "fill", "start"}

Rests(h) == hs[h].pc \in {"idle", "wait"}
Solo == \A g, h \in Handlers : ~Rests(g) /\ ~Rests(h) => g = h

\* ships whose ports are given out, and that are not listed yet
Entering(f) == {f[h].patp : h \in {g \in Handlers : f[g].pc \in {"read", "append", "persist"}}}
\* ships that are not listed any more, and that may have a volume
Leaving(f) == {f[h].patp : h \in {g \in Handlers : f[g].pc \in {"cvolume", "dvolume"}}}

\* the list that a handler has to change or to save
ListOk(h) ==
  /\ hs[h].pc \in {"append", "cut"} => hs[h].slice = piers
  /\ hs[h].pc \in {"persist", "cpersist", "dpersist"} => IsInjective(Contents(hs[h].slice))
  /\ At(h, "persist") => Range(Contents(hs[h].slice)) = Range(disk) \cup {hs[h].patp}
  /\ hs[h].pc \in {"cpersist", "dpersist"} =>
       Range(Contents(hs[h].slice)) = Range(disk) \ {hs[h].patp}
\* the ship that a handler is at work on
ShipOk(h) ==
  /\ hs[h].pc \notin {"remote", "restart"}
  /\ hs[h].pc \in {"prepare", "fill", "start"} => hs[h].patp \in Range(disk)
  /\ hs[h].pc \in {"fill", "start", "cleanup", "cread", "cpersist", "cvolume",
                   "dconfig", "dread", "cut", "dpersist", "dvolume"} =>
       cont[hs[h].patp] = "none"
  /\ hs[h].pc \in {"cvolume", "dvolume"} => hs[h].patp \notin Range(disk)
  /\ At(h, "config") => hs[h].port # 0 /\ \A q \in Range(disk) : urb[q] < hs[h].port
HandlerOk(h) == ListOk(h) /\ ShipOk(h)

ContainersOk == \A p \in Patps : cont[p] = "none" \/ (cont[p] = "started" /\ p \in Range(disk))
VolumesOk == vols \ killed \subseteq Range(disk) \cup Leaving(hs)
PortsOk ==
  /\ \A p \in Patps : urb[p] = files[p] \/ (urb[p] = 0 /\ p \notin Range(disk) \cup Entering(hs))
  /\ \A p, q \in Range(disk) \cup Entering(hs) : p # q /\ files[p] # 0 => files[p] # files[q]
Household == ~unsaved /\ IsInjective(disk) /\ ContainersOk /\ VolumesOk /\ PortsOk

SerialInv == /\ TypeOK /\ MemoryMatchesDisk /\ Solo /\ Household
             /\ \A h \in Handlers : HandlerOk(h)

\* It implies the properties.
LEMMA SerialImplies ==
  ASSUME SerialInv
  PROVE  ListedOnce /\ PortsDistinct /\ NoLeftovers
<1>1. \A p \in Leaving(hs) : Busy(p)
  BY DEF Leaving, Busy
<1>2. vols \subseteq Patps
  BY TypeParts DEF SerialInv, DockTypes
<1> QED
  BY <1>1, <1>2 DEF SerialInv, Household, ContainersOk, VolumesOk, PortsOk,
                    ListedOnce, PortsDistinct, NoLeftovers

LEMMA OneEnters ==
  ASSUME NEW f, NEW h \in Handlers,
         \A g \in Handlers : g # h => f[g].pc \in {"idle", "wait"}
  PROVE  /\ f[h].pc \in {"read", "append", "persist"} => Entering(f) = {f[h].patp}
         /\ f[h].pc \notin {"read", "append", "persist"} => Entering(f) = {}
         /\ f[h].pc \in {"cvolume", "dvolume"} => Leaving(f) = {f[h].patp}
         /\ f[h].pc \notin {"cvolume", "dvolume"} => Leaving(f) = {}
BY DEF Entering, Leaving

\* A step of the only handler at work.
LEMMA SoloStep ==
  ASSUME SerialInv, Next, NEW h \in Handlers, \A g \in Handlers : g # h => Rests(g),
         \A g \in Handlers : g # h => hs'[g] = hs[g],
         Household', HandlerOk(h)'
  PROVE  SerialInv'
<1>1. TypeOK' /\ MemoryMatchesDisk'
  BY NextKept DEF SerialInv, Kept
<1>2. \A g \in Handlers : g # h => hs'[g].pc \in {"idle", "wait"}
  BY DEF Rests
<1>3. Solo'
  BY <1>2 DEF Solo, Rests
<1>4. ASSUME NEW g \in Handlers, g # h PROVE HandlerOk(g)'
  BY <1>2, <1>4 DEF HandlerOk, ListOk, ShipOk, At
<1> QED
  BY <1>1, <1>3, <1>4 DEF SerialInv

\* What the only handler at work knows.
LEMMA SoloFacts ==
  ASSUME SerialInv, NEW h \in Handlers, \A g \in Handlers : g # h => Rests(g)
  PROVE  /\ Works(hs) /\ AllFit(heap, piers, hs) /\ disk \in Seq(Patps)
         /\ Range(disk) \subseteq Patps /\ IsInjective(disk) /\ ~unsaved
         /\ urb \in Ports0 /\ files \in Ports0 /\ DockTypes
         /\ hs[h].pc # "idle" => hs[h].patp \in Patps
         /\ hs[h].pc \notin {"persist", "dpersist"} => Contents(piers) = disk
<1>1. /\ Works(hs) /\ AllFit(heap, piers, hs) /\ disk \in Seq(Patps)
      /\ urb \in Ports0 /\ files \in Ports0 /\ DockTypes
  BY TypeParts DEF SerialInv
<1>2. Range(disk) \subseteq Patps
  BY <1>1, ShipsOf
<1>3. IsInjective(disk) /\ ~unsaved /\ MemoryMatchesDisk
  BY DEF SerialInv, Household
<1>4. \A g \in Handlers : g # h => hs[g].pc \notin {"persist", "dpersist"}
  BY DEF Rests
<1>5. hs[h].pc \notin {"persist", "dpersist"} => Contents(piers) = disk
  BY <1>3, <1>4 DEF MemoryMatchesDisk
<1>6. hs[h].pc # "idle" => hs[h].patp \in Patps
  BY <1>1 DEF Works
<1> QED
  BY <1>1, <1>2, <1>3, <1>5, <1>6

\* A step that changes no ship and no port.
LEMMA HouseholdSame ==
  ASSUME Household, UNCHANGED <<disk, urb, files, cont, vols, killed, unsaved>>,
         Entering(hs') = Entering(hs), Leaving(hs') = Leaving(hs)
  PROVE  Household'
BY DEF Household, ContainersOk, VolumesOk, PortsOk

LEMMA BeginSerial ==
  ASSUME Alone, SerialInv, NEW h \in Handlers, Begin(h)
  PROVE  SerialInv'
<1>1. \A g \in Handlers : g # h => Rests(g)
  BY DEF Begin, Alone, Rests
<1>2. Works(hs)
  BY <1>1, SoloFacts
<1>3. /\ \A g \in Handlers : g # h => hs'[g] = hs[g]
      /\ hs[h].pc = "idle" /\ hs'[h].pc \in {"ports", "delete"}
  BY <1>2, BeginOf, IdleWorks
<1>4. UNCHANGED <<disk, urb, files, cont, vols, killed, unsaved>>
  BY DEF Begin, confVars, pierVars, dockVars
<1>5. Entering(hs') = {} /\ Leaving(hs') = {}
  <2>1. \A g \in Handlers : g # h => hs'[g].pc \in {"idle", "wait"}
    BY <1>1, <1>3 DEF Rests
  <2>2. hs'[h].pc \notin {"read", "append", "persist"} /\ hs'[h].pc \notin {"cvolume", "dvolume"}
    BY <1>3
  <2> QED
    BY <2>1, <2>2, OneEnters
<1>6. Entering(hs) = {} /\ Leaving(hs) = {}
  <2>1. \A g \in Handlers : g # h => hs[g].pc \in {"idle", "wait"}
    BY <1>1 DEF Rests
  <2> QED
    BY <1>3, <2>1, OneEnters
<1>7. Household'
  BY <1>4, <1>5, <1>6, HouseholdSame DEF SerialInv
<1>8. HandlerOk(h)'
  BY <1>3 DEF HandlerOk, ListOk, ShipOk, At
<1>9. Next
  BY DEF Next
<1> QED
  BY <1>1, <1>3, <1>7, <1>8, <1>9, SoloStep

\* The handlers but h rest, and h is at work on p: a step of h to the label
\* next leaves the sets of the ships on their way as they say.
LEMMA SetsOf ==
  ASSUME NEW h \in Handlers, \A g \in Handlers : g # h => Rests(g),
         \A g \in Handlers : g # h => hs'[g] = hs[g]
  PROVE  /\ hs[h].pc \in {"read", "append", "persist"} => Entering(hs) = {hs[h].patp}
         /\ hs[h].pc \notin {"read", "append", "persist"} => Entering(hs) = {}
         /\ hs[h].pc \in {"cvolume", "dvolume"} => Leaving(hs) = {hs[h].patp}
         /\ hs[h].pc \notin {"cvolume", "dvolume"} => Leaving(hs) = {}
         /\ hs'[h].pc \in {"read", "append", "persist"} => Entering(hs') = {hs'[h].patp}
         /\ hs'[h].pc \notin {"read", "append", "persist"} => Entering(hs') = {}
         /\ hs'[h].pc \in {"cvolume", "dvolume"} => Leaving(hs') = {hs'[h].patp}
         /\ hs'[h].pc \notin {"cvolume", "dvolume"} => Leaving(hs') = {}
<1>1. \A g \in Handlers : g # h => hs[g].pc \in {"idle", "wait"}
  BY DEF Rests
<1>2. \A g \in Handlers : g # h => hs'[g].pc \in {"idle", "wait"}
  BY <1>1
<1>3. /\ hs[h].pc \in {"read", "append", "persist"} => Entering(hs) = {hs[h].patp}
      /\ hs[h].pc \notin {"read", "append", "persist"} => Entering(hs) = {}
      /\ hs[h].pc \in {"cvolume", "dvolume"} => Leaving(hs) = {hs[h].patp}
      /\ hs[h].pc \notin {"cvolume", "dvolume"} => Leaving(hs) = {}
  BY <1>1, OneEnters
<1>4. /\ hs'[h].pc \in {"read", "append", "persist"} => Entering(hs') = {hs'[h].patp}
      /\ hs'[h].pc \notin {"read", "append", "persist"} => Entering(hs') = {}
      /\ hs'[h].pc \in {"cvolume", "dvolume"} => Leaving(hs') = {hs'[h].patp}
      /\ hs'[h].pc \notin {"cvolume", "dvolume"} => Leaving(hs') = {}
  BY <1>2, OneEnters
<1> QED
  BY <1>3, <1>4

LEMMA PortsSerial ==
  ASSUME SerialInv, NEW h \in Handlers, \A g \in Handlers : g # h => Rests(g), Ports(h)
  PROVE  SerialInv'
<1>1. /\ \A g \in Handlers : g # h => hs'[g] = hs[g]
      /\ hs[h].pc = "ports" /\ hs'[h].pc = "config" /\ hs'[h].port = OpenPort
  BY PortsOf DEF SerialInv, Ports, At
<1>2. Contents(piers) = disk
  BY <1>1, SoloFacts
<1>3. UNCHANGED <<disk, urb, files, cont, vols, killed, unsaved>>
  BY DEF Ports, confVars, pierVars, dockVars
<1>4. Entering(hs') = Entering(hs) /\ Leaving(hs') = Leaving(hs)
  BY <1>1, SetsOf
<1>5. Household'
  BY <1>3, <1>4, HouseholdSame DEF SerialInv
<1>6. OpenPort # 0 /\ \A q \in Range(disk) : urb[q] < OpenPort
  BY <1>2, OpenPortOf DEF SerialInv
<1>7. HandlerOk(h)'
  BY <1>1, <1>3, <1>6 DEF HandlerOk, ListOk, ShipOk, At
<1>8. Next
  BY DEF Next, Work
<1> QED
  BY <1>1, <1>5, <1>7, <1>8, SoloStep

LEMMA StoreConfigSerial ==
  ASSUME Alone, SerialInv, NEW h \in Handlers, \A g \in Handlers : g # h => Rests(g),
         StoreConfig(h)
  PROVE  SerialInv'
<1> DEFINE p == hs[h].patp
           n == hs[h].port
<1>1. /\ \A g \in Handlers : g # h => hs'[g] = hs[g]
      /\ hs[h].pc = "config" /\ hs'[h].pc = "read" /\ hs'[h].patp = p
      /\ \A q \in Patps : /\ urb'[q] = IF q = p THEN n ELSE urb[q]
                          /\ files'[q] = IF urb'[q] # 0 THEN urb'[q] ELSE files[q]
  <2>1. "store" \notin Faults /\ TypeOK /\ hs[h].pc = "config"
    BY DEF Alone, SerialInv, StoreConfig, At
  <2> QED
    BY <2>1, StoreConfigOf
<1>2. Entering(hs) = {} /\ Leaving(hs) = {} /\ Entering(hs') = {p} /\ Leaving(hs') = {}
  BY <1>1, SetsOf
<1>3. UNCHANGED <<disk, cont, vols, killed, unsaved>>
  BY DEF StoreConfig, confVars, dockVars
<1>4. /\ p \in Patps /\ Range(disk) \subseteq Patps /\ urb \in Ports0 /\ files \in Ports0
      /\ n \in Nat /\ MaxPort \in Nat
  <2>1. hs[h] \in Handler
    BY SoloFacts DEF Works
  <2> QED
    BY <1>1, <2>1, SoloFacts, PiersAssumption DEF Handler
<1>5. /\ \A q \in Patps : urb[q] = files[q] \/ (urb[q] = 0 /\ q \notin Range(disk))
      /\ \A q, r \in Range(disk) : q # r /\ files[q] # 0 => files[q] # files[r]
  BY <1>2 DEF SerialInv, Household, PortsOk
<1>6. n # 0 /\ \A q \in Range(disk) : urb[q] < n /\ urb[q] = files[q]
  BY <1>1, <1>4, <1>5 DEF SerialInv, HandlerOk, ShipOk, At
<1>7. \A q \in Patps : q # p => files'[q] = files[q] /\ urb'[q] = urb[q]
  BY <1>1, <1>5
<1>8. files'[p] = n /\ urb'[p] = n
  BY <1>1, <1>4, <1>6
<1>9. ASSUME NEW q \in Patps
      PROVE  urb'[q] = files'[q] \/ (urb'[q] = 0 /\ q \notin Range(disk) \cup {p})
  <2>1. CASE q # p
    BY <1>5, <1>7, <2>1
  <2>2. CASE q = p
    BY <1>8, <2>2
  <2> QED
    BY <2>1, <2>2
<1>10. ASSUME NEW q \in Range(disk) \cup {p}, NEW r \in Range(disk) \cup {p},
              q # r, files'[q] # 0
       PROVE  files'[q] # files'[r]
  <2>1. \A t \in Range(disk) : files[t] \in Nat /\ files[t] < n
    BY <1>4, <1>6 DEF Ports0
  <2>2. CASE q # p /\ r # p
    BY <1>4, <1>5, <1>7, <1>10, <2>2
  <2>3. CASE q = p /\ r # p
    <3>1. files'[q] = n /\ files'[r] = files[r] /\ r \in Range(disk)
      BY <1>4, <1>7, <1>8, <2>3
    <3> QED
      BY <1>4, <2>1, <3>1
  <2>4. CASE q # p /\ r = p
    <3>1. files'[r] = n /\ files'[q] = files[q] /\ q \in Range(disk)
      BY <1>4, <1>7, <1>8, <2>4
    <3> QED
      BY <1>4, <2>1, <3>1
  <2> QED
    BY <1>10, <2>2, <2>3, <2>4
<1>11. PortsOk'
  <2>1. Range(disk)' \cup Entering(hs)' = Range(disk) \cup {p}
    BY <1>2, <1>3
  <2> QED
    BY <1>9, <1>10, <2>1 DEF PortsOk
<1>12. Household'
  BY <1>2, <1>3, <1>11 DEF SerialInv, Household, ContainersOk, VolumesOk
<1>13. HandlerOk(h)'
  BY <1>1 DEF HandlerOk, ListOk, ShipOk, At
<1>14. Next
  BY DEF Next, Work
<1> QED
  BY <1>1, <1>12, <1>13, <1>14, SoloStep

LEMMA ReadSerial ==
  ASSUME SerialInv, NEW h \in Handlers, \A g \in Handlers : g # h => Rests(g),
         ReadPiers(h) \/ ReadToCut(h)
  PROVE  SerialInv'
<1>1. Works(hs) /\ piers \in Slice
  BY SoloFacts DEF AllFit, Fits
<1>2. UNCHANGED <<piers, disk, urb, files, cont, vols, killed, unsaved>>
  BY DEF ReadPiers, ReadToCut, confVars, pierVars, dockVars
<1>3. CASE ReadPiers(h)
  <2>1. hs[h].pc = "read" /\ Hold(h, piers, "append") /\ "append" \in Labels \ {"idle"}
    BY <1>3 DEF ReadPiers, At, Labels
  <2>2. /\ \A g \in Handlers : g # h => hs'[g] = hs[g]
        /\ hs'[h].pc = "append" /\ hs'[h].slice = piers /\ hs'[h].patp = hs[h].patp
    BY <1>1, <2>1, HoldOf
  <2>3. Entering(hs') = Entering(hs) /\ Leaving(hs') = Leaving(hs)
    BY <2>1, <2>2, SetsOf
  <2>4. Household'
    BY <1>2, <2>3, HouseholdSame DEF SerialInv
  <2>5. HandlerOk(h)'
    BY <1>2, <2>2 DEF HandlerOk, ListOk, ShipOk, At
  <2>6. Next
    BY <1>3 DEF Next, Work
  <2> QED
    BY <2>2, <2>4, <2>5, <2>6, SoloStep
<1>4. CASE ReadToCut(h)
  <2>1. hs[h].pc = "dread" /\ Hold(h, piers, "cut") /\ "cut" \in Labels \ {"idle"}
    BY <1>4 DEF ReadToCut, At, Labels
  <2>2. /\ \A g \in Handlers : g # h => hs'[g] = hs[g]
        /\ hs'[h].pc = "cut" /\ hs'[h].slice = piers /\ hs'[h].patp = hs[h].patp
    BY <1>1, <2>1, HoldOf
  <2>3. Entering(hs') = Entering(hs) /\ Leaving(hs') = Leaving(hs)
    BY <2>1, <2>2, SetsOf
  <2>4. Household'
    BY <1>2, <2>3, HouseholdSame DEF SerialInv
  <2>5. cont[hs[h].patp] = "none"
    BY <2>1 DEF SerialInv, HandlerOk, ShipOk
  <2>6. HandlerOk(h)'
    BY <1>2, <2>2, <2>5 DEF HandlerOk, ListOk, ShipOk, At
  <2>7. Next
    BY <1>4 DEF Next, Work
  <2> QED
    BY <2>2, <2>4, <2>6, <2>7, SoloStep
<1> QED
  BY <1>3, <1>4

LEMMA AppendSerial ==
  ASSUME SerialInv, NEW h \in Handlers, \A g \in Handlers : g # h => Rests(g), AppendPier(h)
  PROVE  SerialInv'
<1> DEFINE p == hs[h].patp
           v == View(heap', hs'[h].slice)
<1>1. /\ \A g \in Handlers : g # h => hs'[g] = hs[g]
      /\ hs[h].pc = "append" /\ hs'[h].pc = "persist" /\ hs'[h].patp = p
      /\ \/ p \in Range(Contents(hs[h].slice)) /\ v = Contents(hs[h].slice)
         \/ p \notin Range(Contents(hs[h].slice)) /\ v = Append(Contents(hs[h].slice), p)
  BY AppendPierOf DEF SerialInv, AppendPier, At
<1>2. UNCHANGED <<disk, urb, files, cont, vols, killed, unsaved>>
  BY DEF AppendPier, pierVars, dockVars
<1>3. /\ disk \in Seq(Patps) /\ p \in Patps /\ IsInjective(disk)
      /\ Contents(hs[h].slice) = disk
  <2>1. hs[h].slice = piers
    BY <1>1 DEF SerialInv, HandlerOk, ListOk
  <2> QED
    BY <1>1, <2>1, SoloFacts
<1> HIDE DEF v
<1>4. IsInjective(v) /\ Range(v) = Range(disk) \cup {p}
  <2>1. CASE p \in Range(disk)
    BY <1>1, <1>3, <2>1
  <2>2. CASE p \notin Range(disk)
    BY <1>1, <1>3, <2>2, AppendedTo
  <2> QED
    BY <2>1, <2>2
<1>5. Entering(hs') = Entering(hs) /\ Leaving(hs') = Leaving(hs)
  BY <1>1, SetsOf
<1>6. Household'
  BY <1>2, <1>5, HouseholdSame DEF SerialInv
<1>7. HandlerOk(h)'
  BY <1>1, <1>2, <1>4 DEF HandlerOk, ListOk, ShipOk, At, Contents, v
<1>8. Next
  BY DEF Next, Work
<1> QED
  BY <1>1, <1>6, <1>7, <1>8, SoloStep

LEMMA CollectSerial ==
  ASSUME SerialInv, NEW h \in Handlers, \A g \in Handlers : g # h => Rests(g), CollectOthers(h)
  PROVE  SerialInv'
<1> DEFINE p == hs[h].patp
           v == View(heap', hs'[h].slice)
<1>1. /\ \A g \in Handlers : g # h => hs'[g] = hs[g]
      /\ hs[h].pc = "cread" /\ hs'[h].pc = "cpersist" /\ hs'[h].patp = p
      /\ v = Others(piers, p)
  BY CollectOthersOf DEF SerialInv, CollectOthers, At
<1>2. UNCHANGED <<disk, urb, files, cont, vols, killed, unsaved>>
  BY DEF CollectOthers, pierVars, dockVars
<1>3. IsInjective(disk) /\ Contents(piers) = disk /\ heap \in Heaps /\ Fits(heap, piers)
  BY <1>1, SoloFacts DEF AllFit
<1> HIDE DEF v
<1>4. IsInjective(v) /\ Range(v) = Range(disk) \ {p}
  BY <1>1, <1>3, OthersOf
<1>5. Entering(hs') = Entering(hs) /\ Leaving(hs') = Leaving(hs)
  BY <1>1, SetsOf
<1>6. Household'
  BY <1>2, <1>5, HouseholdSame DEF SerialInv
<1>7. cont[p] = "none"
  BY <1>1 DEF SerialInv, HandlerOk, ShipOk
<1>8. HandlerOk(h)'
  BY <1>1, <1>2, <1>4, <1>7 DEF HandlerOk, ListOk, ShipOk, At, Contents, v
<1>9. Next
  BY DEF Next, Work
<1> QED
  BY <1>1, <1>6, <1>8, <1>9, SoloStep

LEMMA CutSerial ==
  ASSUME SerialInv, NEW h \in Handlers, \A g \in Handlers : g # h => Rests(g), Cut(h)
  PROVE  SerialInv'
<1> DEFINE p == hs[h].patp
           v == View(heap', hs'[h].slice)
           w == Contents(hs[h].slice)
<1>1. /\ \A g \in Handlers : g # h => hs'[g] = hs[g]
      /\ hs[h].pc = "cut" /\ hs'[h].pc = "dpersist" /\ hs'[h].patp = p
      /\ \/ p \notin Range(w) /\ v = w
         \/ \E i \in 1..Len(w) : w[i] = p /\ v = RemoveAt(w, i)
  BY CutOf DEF SerialInv, Cut, At
<1>2. UNCHANGED <<disk, urb, files, cont, vols, killed, unsaved>>
  BY DEF Cut, pierVars, dockVars
<1>3. disk \in Seq(Patps) /\ IsInjective(disk) /\ w = disk
  <2>1. hs[h].slice = piers
    BY <1>1 DEF SerialInv, HandlerOk, ListOk
  <2> QED
    BY <1>1, <2>1, SoloFacts
<1> HIDE DEF v, w
<1>4. IsInjective(v) /\ Range(v) = Range(disk) \ {p}
  <2>1. CASE p \notin Range(disk) /\ v = disk
    BY <1>3, <2>1
  <2>2. CASE \E i \in 1..Len(disk) : disk[i] = p /\ v = RemoveAt(disk, i)
    BY <1>3, <2>2, RemovedAt
  <2> QED
    BY <1>1, <1>3, <2>1, <2>2
<1>5. Entering(hs') = Entering(hs) /\ Leaving(hs') = Leaving(hs)
  BY <1>1, SetsOf
<1>6. Household'
  BY <1>2, <1>5, HouseholdSame DEF SerialInv
<1>7. cont[p] = "none"
  BY <1>1 DEF SerialInv, HandlerOk, ShipOk
<1>8. HandlerOk(h)'
  BY <1>1, <1>2, <1>4, <1>7 DEF HandlerOk, ListOk, ShipOk, At, Contents, v
<1>9. Next
  BY DEF Next, Work
<1> QED
  BY <1>1, <1>6, <1>8, <1>9, SoloStep

LEMMA AddSerial ==
  ASSUME Alone, SerialInv, NEW h \in Handlers, \A g \in Handlers : g # h => Rests(g),
         PersistPier(h)
  PROVE  /\ SerialInv' /\ Range(disk') = Range(disk) \cup {hs[h].patp}
         /\ \A g \in Handlers : hs'[g].patp = hs[g].patp
<1> DEFINE p == hs[h].patp
<1>1. /\ hs[h].pc = "persist" /\ Persist(h, "prepare") /\ "prepare" \in Labels \ {"idle"}
  BY DEF PersistPier, At, Alone, UpdateConfFails, ReadFails, WriteFails, Labels
<1>2. /\ \A g \in Handlers : g # h => hs'[g] = hs[g]
      /\ hs'[h].pc = "prepare" /\ hs'[h].patp = p
      /\ unsaved' = FALSE /\ disk' = Contents(hs[h].slice)
  BY <1>1, PersistOf DEF SerialInv
<1>3. IsInjective(disk') /\ Range(disk') = Range(disk) \cup {p}
  BY <1>1, <1>2 DEF SerialInv, HandlerOk, ListOk, At
<1>4. Entering(hs) = {p} /\ Leaving(hs) = {} /\ Entering(hs') = {} /\ Leaving(hs') = {}
  BY <1>1, <1>2, SetsOf
<1>5. UNCHANGED <<urb, files, cont, vols, killed>>
  BY DEF PersistPier, pierVars, dockVars
<1>6. Household'
  <2>1. Household
    BY DEF SerialInv
  <2>2. ContainersOk' /\ VolumesOk'
    BY <1>3, <1>4, <1>5, <2>1 DEF Household, ContainersOk, VolumesOk
  <2>3. Range(disk') \cup Entering(hs') = Range(disk) \cup Entering(hs)
    BY <1>3, <1>4
  <2>4. PortsOk'
    BY <1>5, <2>1, <2>3 DEF Household, PortsOk
  <2> QED
    BY <1>2, <1>3, <2>2, <2>4 DEF Household
<1>7. HandlerOk(h)'
  BY <1>2, <1>3 DEF HandlerOk, ListOk, ShipOk, At
<1>8. Next
  BY DEF Next, Work
<1> QED
  BY <1>2, <1>3, <1>6, <1>7, <1>8, SoloStep

LEMMA DropSerial ==
  ASSUME Alone, SerialInv, NEW h \in Handlers, \A g \in Handlers : g # h => Rests(g),
         PersistOthers(h) \/ PersistCut(h)
  PROVE  /\ SerialInv' /\ Range(disk') = Range(disk) \ {hs[h].patp}
         /\ \A g \in Handlers : hs'[g].patp = hs[g].patp
<1> DEFINE p == hs[h].patp
<1>1. PICK next \in {"cvolume", "dvolume"} : Persist(h, next)
  BY DEF PersistOthers, PersistCut, Alone, UpdateConfFails, ReadFails, WriteFails
<1>2. hs[h].pc \in {"cpersist", "dpersist"} /\ next \in Labels \ {"idle"}
  BY DEF PersistOthers, PersistCut, At, Labels
<1>3. /\ \A g \in Handlers : g # h => hs'[g] = hs[g]
      /\ hs'[h].pc = next /\ hs'[h].patp = p
      /\ unsaved' = FALSE /\ disk' = Contents(hs[h].slice)
  BY <1>1, <1>2, PersistOf DEF SerialInv
<1>4. /\ IsInjective(disk') /\ Range(disk') = Range(disk) \ {p}
      /\ cont[p] = "none"
  BY <1>2, <1>3 DEF SerialInv, HandlerOk, ListOk, ShipOk, At
<1>5. Entering(hs) = {} /\ Leaving(hs) = {} /\ Entering(hs') = {} /\ Leaving(hs') = {p}
  BY <1>2, <1>3, SetsOf
<1>6. UNCHANGED <<urb, files, cont, vols, killed>>
  BY DEF PersistOthers, PersistCut, pierVars, dockVars
<1>7. Household'
  <2>1. Household
    BY DEF SerialInv
  <2>2. ContainersOk' /\ VolumesOk'
    BY <1>4, <1>5, <1>6, <2>1 DEF Household, ContainersOk, VolumesOk
  <2>3. Range(disk') \cup Entering(hs') \subseteq Range(disk) \cup Entering(hs)
    BY <1>4, <1>5
  <2>4. PortsOk'
    BY <1>6, <2>1, <2>3 DEF Household, PortsOk
  <2> QED
    BY <1>3, <1>4, <2>2, <2>4 DEF Household
<1>8. HandlerOk(h)'
  BY <1>3, <1>4, <1>6 DEF HandlerOk, ListOk, ShipOk, At
<1>9. Next
  BY DEF Next, Work
<1> QED
  BY <1>3, <1>4, <1>7, <1>8, <1>9, SoloStep

LEMMA PrepareSerial ==
  ASSUME SerialInv, NEW h \in Handlers, \A g \in Handlers : g # h => Rests(g), Prepare(h)
  PROVE  SerialInv'
<1> DEFINE p == hs[h].patp
<1>1. PICK next \in {"fill", "cleanup"} : Move(h, next)
  BY DEF Prepare
<1>2. hs[h].pc = "prepare" /\ next \in Labels \ {"idle"} /\ Works(hs) /\ DockTypes
  BY SoloFacts DEF Prepare, At, Labels
<1>3. /\ \A g \in Handlers : g # h => hs'[g] = hs[g]
      /\ hs'[h].pc = next /\ hs'[h].patp = p /\ p \in Patps
  BY <1>1, <1>2, MoveOf, SoloFacts
<1>4. Entering(hs) = {} /\ Leaving(hs) = {} /\ Entering(hs') = {} /\ Leaving(hs') = {}
  BY <1>2, <1>3, SetsOf
<1>5. p \in Range(disk)
  BY <1>2 DEF SerialInv, HandlerOk, ShipOk
<1>6. UNCHANGED <<disk, unsaved, urb, files>> /\ killed' = killed \ {p}
  BY DEF Prepare, confVars, pierVars
<1>7. cont'[p] = "none" /\ \A q \in Patps : q # p => cont'[q] = cont[q]
  BY <1>2, <1>3 DEF Prepare, DockTypes
<1>8. vols' \subseteq vols \cup {p}
  BY DEF Prepare, DeleteVolume
<1>9. Household'
  <2>1. Household
    BY DEF SerialInv
  <2>2. ContainersOk' /\ VolumesOk'
    BY <1>4, <1>5, <1>6, <1>7, <1>8, <2>1 DEF Household, ContainersOk, VolumesOk
  <2>3. PortsOk'
    BY <1>4, <1>6, <2>1 DEF Household, PortsOk
  <2> QED
    BY <1>6, <2>1, <2>2, <2>3 DEF Household
<1>10. HandlerOk(h)'
  BY <1>3, <1>5, <1>6, <1>7 DEF HandlerOk, ListOk, ShipOk, At
<1>11. Next
  BY DEF Next, Work
<1> QED
  BY <1>3, <1>9, <1>10, <1>11, SoloStep

LEMMA FillSerial ==
  ASSUME SerialInv, NEW h \in Handlers, \A g \in Handlers : g # h => Rests(g), Fill(h)
  PROVE  SerialInv'
<1> DEFINE p == hs[h].patp
<1>1. PICK next \in {"start", "cleanup"} : Move(h, next)
  BY DEF Fill
<1>2. hs[h].pc = "fill" /\ next \in Labels \ {"idle"} /\ Works(hs)
  BY SoloFacts DEF Fill, At, Labels
<1>3. /\ \A g \in Handlers : g # h => hs'[g] = hs[g]
      /\ hs'[h].pc = next /\ hs'[h].patp = p
  BY <1>1, <1>2, MoveOf
<1>4. Entering(hs') = Entering(hs) /\ Leaving(hs') = Leaving(hs)
  BY <1>2, <1>3, SetsOf
<1>5. UNCHANGED <<disk, urb, files, cont, vols, killed, unsaved>>
  BY DEF Fill, confVars, pierVars, dockVars
<1>6. Household'
  BY <1>4, <1>5, HouseholdSame DEF SerialInv
<1>7. p \in Range(disk) /\ cont[p] = "none"
  BY <1>2 DEF SerialInv, HandlerOk, ShipOk
<1>8. HandlerOk(h)'
  BY <1>3, <1>5, <1>7 DEF HandlerOk, ListOk, ShipOk, At
<1>9. Next
  BY DEF Next, Work
<1> QED
  BY <1>3, <1>6, <1>8, <1>9, SoloStep

LEMMA StartSerial ==
  ASSUME Alone, SerialInv, NEW h \in Handlers, \A g \in Handlers : g # h => Rests(g), Start(h)
  PROVE  SerialInv'
<1> DEFINE p == hs[h].patp
<1>1. hs[h].pc = "start" /\ Works(hs) /\ DockTypes /\ {"wait", "cleanup"} \subseteq Labels \ {"idle"}
  BY SoloFacts DEF Start, At, Labels
<1>2. p \in Range(disk) /\ cont[p] = "none" /\ p \in Patps
  BY <1>1, SoloFacts DEF SerialInv, HandlerOk, ShipOk
<1>3. \/ Move(h, "wait") /\ cont' = [cont EXCEPT ![p] = "started"]
      \/ Move(h, "cleanup") /\ UNCHANGED cont
  BY DEF Start, Created, NotCreated, Alone
<1>4. UNCHANGED <<disk, unsaved, urb, files, vols, killed>>
  BY DEF Start, confVars, pierVars
<1>5. /\ \A g \in Handlers : g # h => hs'[g] = hs[g]
      /\ hs'[h].patp = p
      /\ \/ hs'[h].pc = "wait" /\ cont' = [cont EXCEPT ![p] = "started"]
         \/ hs'[h].pc = "cleanup" /\ UNCHANGED cont
  BY <1>1, <1>3, MoveOf
<1>6. Entering(hs) = {} /\ Leaving(hs) = {} /\ Entering(hs') = {} /\ Leaving(hs') = {}
  BY <1>1, <1>5, SetsOf
<1>7. \A q \in Patps : cont'[q] = cont[q] \/ (q = p /\ cont'[q] = "started")
  BY <1>1, <1>5 DEF DockTypes
<1>8. Household'
  <2>1. Household
    BY DEF SerialInv
  <2>2. ContainersOk'
    BY <1>2, <1>4, <1>7, <2>1 DEF Household, ContainersOk
  <2>3. VolumesOk' /\ PortsOk'
    BY <1>4, <1>6, <2>1 DEF Household, VolumesOk, PortsOk
  <2> QED
    BY <1>4, <2>1, <2>2, <2>3 DEF Household
<1>9. HandlerOk(h)'
  BY <1>2, <1>5 DEF HandlerOk, ListOk, ShipOk, At
<1>10. Next
  BY DEF Next, Work
<1> QED
  BY <1>5, <1>8, <1>9, <1>10, SoloStep

\* A ship that is ready asks nothing of the others.
LEMMA ReadySerial ==
  ASSUME Alone, SerialInv, NEW h \in Handlers, Ready(h)
  PROVE  SerialInv'
<1>1. hs[h].pc = "wait" /\ Finish(h) /\ Works(hs)
  BY TypeParts DEF Ready, At, Alone, SerialInv
<1>2. (\A g \in Handlers : g # h => hs'[g] = hs[g]) /\ hs'[h] = Idle /\ hs'[h].pc = "idle"
  BY <1>1, FinishOf, IdleWorks
<1>3. UNCHANGED <<heap, piers, disk, urb, files, cont, vols, killed, unsaved>>
  BY DEF Ready, Alone, confVars, pierVars, dockVars
<1>4. Entering(hs') = Entering(hs) /\ Leaving(hs') = Leaving(hs)
  BY <1>1, <1>2 DEF Entering, Leaving
<1>5. Household'
  BY <1>3, <1>4, HouseholdSame DEF SerialInv
<1>6. Solo'
  BY <1>2 DEF SerialInv, Solo, Rests
<1>7. ASSUME NEW g \in Handlers PROVE HandlerOk(g)'
  <2>1. CASE g = h
    BY <1>2, <2>1 DEF HandlerOk, ListOk, ShipOk, At
  <2>2. CASE g # h
    <3>1. HandlerOk(g) /\ hs'[g] = hs[g]
      BY <1>2, <2>2 DEF SerialInv
    <3> QED
      BY <1>3, <3>1 DEF HandlerOk, ListOk, ShipOk, At, Contents
  <2> QED
    BY <2>1, <2>2
<1>8. TypeOK' /\ MemoryMatchesDisk'
  BY NextKept DEF Next, Work, SerialInv, Kept
<1> QED
  BY <1>5, <1>6, <1>7, <1>8 DEF SerialInv

LEMMA RemoveConfigSerial ==
  ASSUME SerialInv, NEW h \in Handlers, \A g \in Handlers : g # h => Rests(g), RemoveConfig(h)
  PROVE  SerialInv'
<1> DEFINE p == hs[h].patp
<1>1. PICK next \in {"cread", "dread"} : Move(h, next)
  BY DEF RemoveConfig
<1>2. hs[h].pc \in {"cleanup", "dconfig"} /\ next \in Labels \ {"idle"} /\ Works(hs)
      /\ urb \in Ports0 /\ files \in Ports0
  BY SoloFacts DEF RemoveConfig, At, Labels
<1>3. /\ \A g \in Handlers : g # h => hs'[g] = hs[g]
      /\ hs'[h].pc = next /\ hs'[h].patp = p /\ p \in Patps
  BY <1>1, <1>2, MoveOf, SoloFacts
<1>4. Entering(hs) = {} /\ Leaving(hs) = {} /\ Entering(hs') = {} /\ Leaving(hs') = {}
  BY <1>2, <1>3, SetsOf
<1>5. UNCHANGED <<disk, unsaved, cont, vols, killed>>
  BY DEF RemoveConfig, confVars, dockVars
<1>6. /\ urb'[p] = 0 /\ files'[p] = 0
      /\ \A q \in Patps : q # p => urb'[q] = urb[q] /\ files'[q] = files[q]
  BY <1>2, <1>3 DEF RemoveConfig, Removed, Ports0
<1>7. Household'
  <2>1. Household /\ Range(disk) \subseteq Patps
    BY SoloFacts DEF SerialInv
  <2>2. ContainersOk' /\ VolumesOk'
    BY <1>4, <1>5, <2>1 DEF Household, ContainersOk, VolumesOk
  <2>3. PortsOk'
    <3>1. ASSUME NEW q \in Patps
          PROVE  urb'[q] = files'[q] \/ (urb'[q] = 0 /\ q \notin Range(disk))
      BY <1>4, <1>6, <2>1 DEF Household, PortsOk
    <3>2. ASSUME NEW q \in Range(disk), NEW r \in Range(disk), q # r, files'[q] # 0
          PROVE  files'[q] # files'[r]
      <4>1. q # p /\ files'[q] = files[q] /\ files[q] # files[r]
        BY <1>4, <1>6, <2>1, <3>2 DEF Household, PortsOk
      <4> QED
        BY <1>6, <2>1, <3>2, <4>1
    <3> QED
      BY <1>4, <1>5, <3>1, <3>2 DEF PortsOk
  <2> QED
    BY <1>5, <2>1, <2>2, <2>3 DEF Household
<1>8. cont[p] = "none"
  BY <1>2 DEF SerialInv, HandlerOk, ShipOk
<1>9. HandlerOk(h)'
  BY <1>3, <1>5, <1>8 DEF HandlerOk, ListOk, ShipOk, At
<1>10. Next
  BY DEF Next, Work
<1> QED
  BY <1>3, <1>7, <1>9, <1>10, SoloStep

LEMMA RemoveVolumeSerial ==
  ASSUME SerialInv, NEW h \in Handlers, \A g \in Handlers : g # h => Rests(g), RemoveVolume(h)
  PROVE  SerialInv'
<1> DEFINE p == hs[h].patp
<1>1. hs[h].pc \in {"cvolume", "dvolume"} /\ Works(hs) /\ Finish(h)
  BY SoloFacts DEF RemoveVolume, At
<1>2. (\A g \in Handlers : g # h => hs'[g] = hs[g]) /\ hs'[h].pc = "idle"
  BY <1>1, FinishOf, IdleWorks
<1>3. Entering(hs) = {} /\ Leaving(hs) = {p} /\ Entering(hs') = {} /\ Leaving(hs') = {}
  BY <1>1, <1>2, SetsOf
<1>4. UNCHANGED <<disk, unsaved, urb, files, cont, killed>> /\ vols' = vols \ {p}
  BY <1>1 DEF RemoveVolume, confVars, pierVars, DeleteVolume, SerialInv, HandlerOk, ShipOk
<1>5. Household'
  BY <1>3, <1>4 DEF SerialInv, Household, ContainersOk, VolumesOk, PortsOk
<1>6. HandlerOk(h)'
  BY <1>2 DEF HandlerOk, ListOk, ShipOk, At
<1>7. Next
  BY DEF Next, Work
<1> QED
  BY <1>2, <1>5, <1>6, <1>7, SoloStep

LEMMA RemoveContainerSerial ==
  ASSUME SerialInv, NEW h \in Handlers, \A g \in Handlers : g # h => Rests(g),
         RemoveContainer(h)
  PROVE  SerialInv'
<1> DEFINE p == hs[h].patp
<1>1. hs[h].pc = "delete" /\ Works(hs) /\ DockTypes /\ p \in Patps
      /\ "dconfig" \in Labels \ {"idle"}
  BY SoloFacts DEF RemoveContainer, At, Labels
<1>2. UNCHANGED <<disk, unsaved, urb, files, vols, killed>>
  BY DEF RemoveContainer, confVars, pierVars
<1>3. \/ Finish(h) /\ UNCHANGED cont
      \/ Move(h, "dconfig") /\ cont' = [cont EXCEPT ![p] = "none"]
  BY DEF RemoveContainer
<1>4. /\ \A g \in Handlers : g # h => hs'[g] = hs[g]
      /\ \/ hs'[h].pc = "idle" /\ UNCHANGED cont
         \/ hs'[h].pc = "dconfig" /\ hs'[h].patp = p /\ cont' = [cont EXCEPT ![p] = "none"]
  BY <1>1, <1>3, MoveOf, FinishOf, IdleWorks
<1>5. Entering(hs) = {} /\ Leaving(hs) = {} /\ Entering(hs') = {} /\ Leaving(hs') = {}
  BY <1>1, <1>4, SetsOf
<1>6. \A q \in Patps : cont'[q] = cont[q] \/ cont'[q] = "none"
  BY <1>1, <1>4 DEF DockTypes
<1>7. Household'
  <2>1. Household
    BY DEF SerialInv
  <2>2. ContainersOk'
    BY <1>2, <1>6, <2>1 DEF Household, ContainersOk
  <2>3. VolumesOk' /\ PortsOk'
    BY <1>2, <1>5, <2>1 DEF Household, VolumesOk, PortsOk
  <2> QED
    BY <1>2, <2>1, <2>2, <2>3 DEF Household
<1>8. hs'[h].pc = "dconfig" => cont'[hs'[h].patp] = "none"
  BY <1>1, <1>4 DEF DockTypes
<1>9. HandlerOk(h)'
  <2>1. CASE hs'[h].pc = "idle"
    BY <2>1 DEF HandlerOk, ListOk, ShipOk, At
  <2>2. CASE hs'[h].pc = "dconfig"
    BY <1>8, <2>2 DEF HandlerOk, ListOk, ShipOk, At
  <2> QED
    BY <1>4, <2>1, <2>2
<1>10. Next
  BY DEF Next, Work
<1> QED
  BY <1>4, <1>7, <1>9, <1>10, SoloStep

LEMMA RestartSerial ==
  ASSUME SerialInv, Restart
  PROVE  SerialInv'
<1>1. \A g \in Handlers : hs'[g].pc = "idle"
  BY IdleWorks DEF Restart
<1>2. Entering(hs') = {} /\ Leaving(hs') = {}
  BY <1>1 DEF Entering, Leaving
<1>3. UNCHANGED <<disk, files>> /\ unsaved' = FALSE
  BY DEF Restart
<1>4. Household /\ Works(hs) /\ disk \in Seq(Patps)
  BY TypeParts DEF SerialInv
<1>10. PICK up \in SUBSET Range(disk) :
         /\ cont' = [p \in Patps |-> IF p \in up THEN "started" ELSE cont[p]]
         /\ vols' = vols \cup up
  BY DEF Restart
<1>5. VolumesOk'
  <2>1. ASSUME NEW p \in Leaving(hs) PROVE p \in killed'
    <3>1. PICK g \in Handlers : p = hs[g].patp /\ hs[g].pc \in {"cvolume", "dvolume"}
      BY DEF Leaving
    <3>2. p \in Patps /\ p # NoPatp
      BY <1>4, <3>1, PiersAssumption DEF Works
    <3> QED
      BY <3>1, <3>2 DEF Restart
  <2>2. killed \subseteq killed'
    BY DEF Restart
  <2> QED
    BY <1>3, <1>4, <1>10, <2>1, <2>2 DEF Household, VolumesOk
<1>6. PortsOk'
  <2>1. \A p \in Patps : urb'[p] = IF p \in Range(disk) THEN files[p] ELSE 0
    BY DEF Restart
  <2>2. \A p \in Patps : urb'[p] = files[p] \/ (urb'[p] = 0 /\ p \notin Range(disk))
    BY <2>1
  <2> QED
    BY <1>2, <1>3, <1>4, <2>2 DEF Household, PortsOk
<1>7. Household'
  <2>1. ContainersOk'
    BY <1>3, <1>4, <1>10 DEF Household, ContainersOk
  <2> QED
    BY <1>3, <1>4, <1>5, <1>6, <2>1 DEF Household
<1>8. Solo' /\ \A g \in Handlers : HandlerOk(g)'
  BY <1>1 DEF Solo, Rests, HandlerOk, ListOk, ShipOk, At
<1>9. TypeOK' /\ MemoryMatchesDisk'
  BY NextKept DEF Next, SerialInv, Kept
<1> QED
  BY <1>7, <1>8, <1>9 DEF SerialInv

LEMMA InitSerial ==
  ASSUME Init
  PROVE  SerialInv
<1>1. /\ TypeOK /\ MemoryMatchesDisk /\ IsInjective(disk) /\ unsaved = FALSE
      /\ hs = [h \in Handlers |-> Idle] /\ vols = Range(disk) /\ files = urb
      /\ cont = [p \in Patps |-> IF p \in Range(disk) THEN "started" ELSE "none"]
      /\ \A p \in Range(disk) : urb[p] \in 1..Len(disk) /\ disk[urb[p]] = p
  BY InitOf
<1>2. \A g \in Handlers : hs[g].pc = "idle"
  BY <1>1, IdleWorks
<1>3. Entering(hs) = {} /\ Leaving(hs) = {}
  BY <1>2 DEF Entering, Leaving
<1>4. PortsOk
  BY <1>1, <1>3 DEF PortsOk
<1>5. Household
  BY <1>1, <1>4 DEF Household, ContainersOk, VolumesOk
<1>6. Solo /\ \A g \in Handlers : HandlerOk(g)
  BY <1>2 DEF Solo, Rests, HandlerOk, ListOk, ShipOk, At
<1> QED
  BY <1>1, <1>5, <1>6 DEF SerialInv

LEMMA NextSerial ==
  ASSUME Alone, SerialInv, [Next]_vars
  PROVE  SerialInv'
<1>1. ASSUME NEW h \in Handlers, Work(h), ~Ready(h) PROVE SerialInv'
  <2>1. ~Rests(h)
    BY <1>1 DEF Rests, At, Work, Ports, StoreConfig, ReadPiers, AppendPier, PersistPier,
                Prepare, Fill, Start, GoRemote, StartRemote, RemoveConfig, CollectOthers,
                PersistOthers, RemoveVolume, RemoveContainer, ReadToCut, Cut, PersistCut
  <2>2. \A g \in Handlers : g # h => Rests(g)
    BY <2>1 DEF SerialInv, Solo
  <2>3. ~GoRemote(h) /\ ~StartRemote(h)
    BY DEF SerialInv, HandlerOk, ShipOk, GoRemote, StartRemote, At
  <2> QED
    BY <1>1, <2>2, <2>3, PortsSerial, StoreConfigSerial, ReadSerial, AppendSerial,
       CollectSerial, CutSerial, AddSerial, DropSerial, PrepareSerial, FillSerial,
       StartSerial, RemoveConfigSerial, RemoveVolumeSerial, RemoveContainerSerial DEF Work
<1>2. CASE UNCHANGED vars
  BY <1>2 DEF vars, SerialInv, TypeOK, MemoryMatchesDisk, Solo, Rests, Household, ContainersOk,
              VolumesOk, PortsOk, Entering, Leaving, HandlerOk, ListOk, ShipOk, At, Contents
<1>3. ~UpdateOther
  BY DEF Alone, UpdateOther
<1> QED
  BY <1>1, <1>2, <1>3, BeginSerial, ReadySerial, RestartSerial DEF Next

\* The user works with one ship at a time: the list names each ship once, and
\* every ship that runs, but for the ones that a handler is at work on.
THEOREM ListedOnceHolds == ASSUME Alone PROVE Spec => []ListedOnce
<1>1. Init => SerialInv
  BY InitSerial
<1>2. SerialInv /\ [Next]_vars => SerialInv'
  BY NextSerial
<1>3. SerialInv => ListedOnce
  BY SerialImplies
<1> QED
  BY <1>1, <1>2, <1>3, PTL DEF Spec

\* ... no two listed ships have a port in common
THEOREM PortsDistinctHolds == ASSUME Alone PROVE Spec => []PortsDistinct
<1>1. Init => SerialInv
  BY InitSerial
<1>2. SerialInv /\ [Next]_vars => SerialInv'
  BY NextSerial
<1>3. SerialInv => PortsDistinct
  BY SerialImplies
<1> QED
  BY <1>1, <1>2, <1>3, PTL DEF Spec

\* ... and a ship that is not listed has no container and no volume, unless
\* the daemon was killed while a handler was at work on it.
THEOREM NoLeftoversHolds == ASSUME Alone PROVE Spec => []NoLeftovers
<1>1. Init => SerialInv
  BY InitSerial
<1>2. SerialInv /\ [Next]_vars => SerialInv'
  BY NextSerial
<1>3. SerialInv => NoLeftovers
  BY SerialImplies
<1> QED
  BY <1>1, <1>2, <1>3, PTL DEF Spec

-----------------------------------------------------------------------------
(* The registry                                                            *)

Asked(f) == [h \in Handlers |-> {f[h].patp} \ {NoPatp}]

\* A handler that does not save the list leaves system.json alone, and works
\* for the ship it was asked for until it ends.
LEMMA TurnOf ==
  ASSUME TypeOK, NEW h \in Handlers, Work(h),
         ~PersistPier(h), ~PersistOthers(h), ~PersistCut(h)
  PROVE  /\ UNCHANGED disk
         /\ \/ \A g \in Handlers : hs'[g].patp = hs[g].patp
            \/ Finish(h)
<1>1. Works(hs) /\ piers \in Slice
  BY TypeParts DEF AllFit, Fits
<1>2. CASE Ports(h) \/ StoreConfig(h) \/ AppendPier(h) \/ CollectOthers(h) \/ Cut(h)
  <2>1. \A g \in Handlers : hs'[g].patp = hs[g].patp
    BY <1>2, PortsOf, StoreConfigOf, AppendPierOf, CollectOthersOf, CutOf
  <2>2. UNCHANGED disk
    BY <1>2 DEF Ports, StoreConfig, AppendPier, CollectOthers, Cut, confVars
  <2> QED
    BY <2>1, <2>2
<1>3. CASE ReadPiers(h) \/ ReadToCut(h)
  <2>1. PICK label \in {"append", "cut"} : Hold(h, piers, label)
    BY <1>3 DEF ReadPiers, ReadToCut
  <2>2. UNCHANGED disk /\ hs[h].pc # "idle" /\ label \in Labels \ {"idle"}
    BY <1>3 DEF ReadPiers, ReadToCut, confVars, At, Labels
  <2> QED
    BY <1>1, <2>1, <2>2, HoldOf
<1>4. CASE \/ Prepare(h) \/ Fill(h) \/ Start(h) \/ Ready(h) \/ GoRemote(h)
           \/ StartRemote(h) \/ RemoveConfig(h) \/ RemoveVolume(h) \/ RemoveContainer(h)
  <2>1. UNCHANGED disk /\ hs[h].pc # "idle"
    BY <1>4 DEF Prepare, Fill, Start, Ready, GoRemote, StartRemote, RemoveConfig,
                RemoveVolume, RemoveContainer, confVars, At
  <2>2. \/ Finish(h)
        \/ \E label \in {"fill", "cleanup", "start", "wait", "remote", "restart", "cread",
                         "dread", "dconfig"} : Move(h, label)
    BY <1>4 DEF Prepare, Fill, Start, Ready, GoRemote, StartRemote, RemoveConfig,
                RemoveVolume, RemoveContainer
  <2>3. ASSUME NEW label \in {"fill", "cleanup", "start", "wait", "remote", "restart",
                              "cread", "dread", "dconfig"}, Move(h, label)
        PROVE  \A g \in Handlers : hs'[g].patp = hs[g].patp
    <3>1. label \in Labels \ {"idle"}
      BY DEF Labels
    <3> QED
      BY <1>1, <2>1, <2>3, <3>1, MoveOf
  <2> QED
    BY <2>1, <2>2, <2>3
<1> QED
  BY <1>2, <1>3, <1>4 DEF Work

\* Every step is one of the registry, or changes nothing there.
LEMMA RegistryStep ==
  ASSUME Alone, SerialInv, [Next]_vars
  PROVE  [Registry!Next]_(Registry!vars)
<1>1. TypeOK /\ Works(hs)
  BY TypeParts DEF SerialInv
<1>2. ASSUME NEW h \in Handlers, Begin(h) PROVE Registry!Ask(h)
  <2>1. /\ \A g \in Handlers : g # h => hs'[g] = hs[g]
        /\ hs[h] = Idle /\ hs'[h].patp \in Patps
    BY <1>1, <1>2, BeginOf
  <2>2. UNCHANGED disk
    BY <1>2 DEF Begin, confVars
  <2>3. Asked(hs)[h] = {} /\ Asked(hs') = [Asked(hs) EXCEPT ![h] = {hs'[h].patp}]
    BY <2>1, IdleWorks, PiersAssumption DEF Asked
  <2> QED
    BY <2>1, <2>2, <2>3 DEF Registry!Ask, Asked
<1>3. ASSUME NEW h \in Handlers, hs[h].pc # "idle", \A g \in Handlers : hs'[g].patp = hs[g].patp
      PROVE  Asked(hs') = Asked(hs) /\ Asked(hs)[h] = {hs[h].patp}
  BY <1>1, <1>3, PiersAssumption DEF Asked, Works
<1>4. ASSUME NEW h \in Handlers, PersistPier(h) \/ PersistOthers(h) \/ PersistCut(h)
      PROVE  Registry!Add(h) \/ Registry!Drop(h)
  <2>1. hs[h].pc \in {"persist", "cpersist", "dpersist"}
    BY <1>4 DEF PersistPier, PersistOthers, PersistCut, At
  <2>2. \A g \in Handlers : g # h => Rests(g)
    BY <2>1 DEF SerialInv, Solo, Rests
  <2>3. /\ \A g \in Handlers : hs'[g].patp = hs[g].patp
        /\ \/ Range(disk') = Range(disk) \cup {hs[h].patp}
           \/ Range(disk') = Range(disk) \ {hs[h].patp}
    BY <1>4, <2>2, AddSerial, DropSerial
  <2>4. Asked(hs') = Asked(hs) /\ Asked(hs)[h] = {hs[h].patp}
    BY <1>3, <2>1, <2>3
  <2> QED
    BY <2>3, <2>4 DEF Registry!Add, Registry!Drop, Asked
<1>5. ASSUME NEW h \in Handlers, Work(h),
             ~PersistPier(h), ~PersistOthers(h), ~PersistCut(h)
      PROVE  UNCHANGED Registry!vars \/ Registry!Finish({h})
  <2>1. CASE UNCHANGED disk /\ \A g \in Handlers : hs'[g].patp = hs[g].patp
    BY <2>1 DEF Registry!vars
  <2>2. CASE UNCHANGED disk /\ Finish(h)
    <3>1. (\A g \in Handlers : g # h => hs'[g] = hs[g]) /\ hs'[h] = Idle
      BY <1>1, <2>2, FinishOf
    <3>2. Asked(hs') = [g \in Handlers |-> IF g \in {h} THEN {} ELSE Asked(hs)[g]]
      BY <3>1, IdleWorks DEF Asked
    <3> QED
      BY <2>2, <3>2 DEF Registry!Finish, Asked
  <2> QED
    BY <1>1, <1>5, <2>1, <2>2, TurnOf
<1>6. CASE Restart
  <2>1. Asked(hs') = [g \in Handlers |-> IF g \in Handlers THEN {} ELSE Asked(hs)[g]]
    BY <1>6, IdleWorks DEF Asked, Restart
  <2>2. UNCHANGED disk
    BY <1>6 DEF Restart
  <2>3. Registry!Finish(Handlers)
    BY <2>1, <2>2 DEF Registry!Finish, Asked
  <2> QED
    BY <2>3 DEF Registry!Next
<1>7. CASE UNCHANGED vars
  BY <1>7 DEF vars, Registry!vars
<1>8. ~UpdateOther
  BY DEF Alone, UpdateOther
<1>9. ASSUME NEW h \in Handlers, Begin(h) \/ Work(h)
      PROVE  [Registry!Next]_(Registry!vars)
  <2>1. \/ Registry!Ask(h) \/ Registry!Add(h) \/ Registry!Drop(h)
        \/ UNCHANGED Registry!vars \/ Registry!Finish({h})
    BY <1>2, <1>4, <1>5, <1>9
  <2> QED
    BY <2>1 DEF Registry!Next
<1> QED
  BY <1>6, <1>7, <1>8, <1>9 DEF Next

\* The registry is implemented: each change of the list in system.json adds or
\* drops the ship of one request.
THEOREM OnlyTheAskedHolds == ASSUME Alone PROVE Spec => OnlyTheAsked
<1>1. Init => SerialInv
  BY InitSerial
<1>2. SerialInv /\ [Next]_vars => SerialInv'
  BY NextSerial
<1>3. Init => Registry!Init
  <2>1. ASSUME Init PROVE Range(disk) \subseteq Patps /\ \A h \in Handlers : hs[h] = Idle
    <3>1. SerialInv /\ disk \in Seq(Patps)
      BY <2>1, InitSerial, TypeParts DEF SerialInv
    <3> QED
      BY <2>1, <3>1, InitOf, ShipsOf
  <2> QED
    BY <2>1, IdleWorks DEF Registry!Init
<1>4. SerialInv /\ [Next]_vars => [Registry!Next]_(Registry!vars)
  BY RegistryStep
<1> QED
  BY <1>1, <1>2, <1>3, <1>4, PTL DEF Spec, OnlyTheAsked, Registry!Spec

=============================================================================
