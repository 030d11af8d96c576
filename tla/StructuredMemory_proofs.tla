------------------------ MODULE StructuredMemory_proofs ------------------------
(* Proofs about the memory reducer, for any identifiers, rows and receipts,   *)
(* any number of observations in a call, any policy and any evictions.        *)
EXTENDS StructuredMemory, FiniteSetTheorems, SequenceTheorems, TLAPS

USE MaxCentsAssumption, NoneAssumption, NoRowAssumption, RowsAssumption, ReceiptsAssumption,
    WeightsAssumption, IngestAssumption, FiniteAssumption

-----------------------------------------------------------------------------
(* The elements of a list that are in a set, in the order of the list *)

Joined(one, kept) == kept \o one
Latest(S) == CHOOSE x \in S : \A y \in S : x >= y
Filter == INSTANCE FoldLemmas WITH op <- Joined, pick <- Latest

Single(s, S) == [i \in DOMAIN s |-> IF s[i] \in S THEN <<s[i]>> ELSE <<>>]
Kept(s, S, k) == Filter!Fold(Single(s, S), <<>>, 1..k)

Filters(s, S) ==
  /\ Kept(s, S, 0) = <<>>
  /\ \A k \in 1..Len(s) : Kept(s, S, k)
       = IF s[k] \in S THEN Kept(s, S, k - 1) \o <<s[k]>> ELSE Kept(s, S, k - 1) \o <<>>
  /\ Among(s, S) = Kept(s, S, Len(s))

LEMMA AmongChain ==
  ASSUME NEW X, NEW s \in Seq(X), NEW S
  PROVE  Filters(s, S)
<1> DEFINE n == Len(s)
           f == Single(s, S)
<1>1. n \in Nat /\ DOMAIN s = 1..n /\ DOMAIN f = 1..n
  BY DEF Single
<1>2. \A t \in SUBSET (1..n) : Latest(t) = CHOOSE x \in t : \A y \in t : x >= y
  BY DEF Latest
<1>3. \A k \in 1..n : f[k] = IF s[k] \in S THEN <<s[k]>> ELSE <<>>
  BY <1>1 DEF Single
<1>4. Among(s, S) = Filter!Fold(f, <<>>, DOMAIN f)
  BY DEF Among, FoldLeft, MapThenFoldSet, Filter!Fold, Filter!Solves, Filter!Step, Joined,
         Latest, Max, Single
<1> HIDE DEF n, f
<1>5. Filter!IsChain(f, <<>>, n)
  BY <1>1, <1>2, Filter!FoldChain
<1>6. /\ Filter!Fold(f, <<>>, 1..0) = <<>>
      /\ \A k \in 1..n : Filter!Fold(f, <<>>, 1..k)
                           = Joined(f[k], Filter!Fold(f, <<>>, 1..(k - 1)))
  BY <1>5 DEF Filter!IsChain
<1>7. \A k : Kept(s, S, k) = Filter!Fold(f, <<>>, 1..k)
  BY DEF Kept, f
<1> QED  BY <1>1, <1>3, <1>4, <1>6, <1>7 DEF Filters, Joined, n

\* r lists the elements of S among the first k of s; h says where they were.
Picked(r, s, S, k, h) ==
  /\ h \in [1..Len(r) -> 1..k]
  /\ \A i, j \in 1..Len(r) : i < j => h[i] < h[j]
  /\ \A i \in 1..Len(r) : r[i] = s[h[i]] /\ s[h[i]] \in S
  /\ \A i \in 1..k : s[i] \in S => \E j \in 1..Len(r) : h[j] = i

LEMMA AmongPicks ==
  ASSUME NEW X, NEW s \in Seq(X), NEW S
  PROVE  Among(s, S) \in Seq(X) /\ \E h : Picked(Among(s, S), s, S, Len(s), h)
<1> DEFINE Good == {k \in 0..Len(s) : /\ Kept(s, S, k) \in Seq(X)
                                      /\ \E h : Picked(Kept(s, S, k), s, S, k, h)}
<1>1. 0 \in Good
  <2> DEFINE r == Kept(s, S, 0)
             h == [i \in 1..0 |-> 0]
  <2>1. r = <<>>
    BY AmongChain DEF Filters
  <2> HIDE DEF r
  <2>2. Picked(r, s, S, 0, h) /\ r \in Seq(X)
    BY <2>1 DEF Picked
  <2> HIDE DEF h
  <2> QED  BY <2>2 DEF r
<1>2. ASSUME NEW k \in 1..Len(s), k - 1 \in Good
      PROVE  k \in Good
  <2> DEFINE q == Kept(s, S, k - 1)
             r == Kept(s, S, k)
  <2>1. q \in Seq(X) /\ \E h : Picked(q, s, S, k - 1, h)
    BY <1>2
  <2>2. r = IF s[k] \in S THEN q \o <<s[k]>> ELSE q \o <<>>
    <3>1. Filters(s, S)
      BY AmongChain
    <3> QED  BY <3>1 DEF Filters
  <2>3. s[k] \in X
    OBVIOUS
  <2> HIDE DEF q, r
  <2>4. PICK h : Picked(q, s, S, k - 1, h)
    BY <2>1
  <2>5. CASE s[k] \notin S
    <3>1. r = q
      BY <2>1, <2>2, <2>5
    <3>2. h \in [1..Len(q) -> 1..k]
      BY <2>4 DEF Picked
    <3>3. Picked(q, s, S, k, h)
      BY <2>4, <2>5, <3>2 DEF Picked
    <3> QED  BY <2>1, <3>1, <3>3 DEF r
  <2>6. CASE s[k] \in S
    <3> DEFINE g == [i \in 1..(Len(q) + 1) |-> IF i = Len(q) + 1 THEN k ELSE h[i]]
    <3>1. /\ r \in Seq(X) /\ Len(r) = Len(q) + 1 /\ r[Len(q) + 1] = s[k]
          /\ \A i \in 1..Len(q) : r[i] = q[i]
      BY <2>1, <2>2, <2>3, <2>6
    <3>2. Len(q) \in Nat
      BY <2>1
    <3>3. \A i \in 1..Len(q) : h[i] \in 1..(k - 1)
      BY <2>4 DEF Picked
    <3>4. g \in [1..Len(r) -> 1..k]
      BY <3>1, <3>2, <3>3
    <3>5. ASSUME NEW i \in 1..Len(r), NEW j \in 1..Len(r), i < j  PROVE g[i] < g[j]
      <4>1. i \in 1..Len(q) /\ g[i] = h[i]
        BY <3>1, <3>2, <3>5
      <4>2. CASE j = Len(q) + 1
        BY <3>1, <3>3, <4>1, <4>2
      <4>3. CASE j # Len(q) + 1
        <5>1. j \in 1..Len(q) /\ g[j] = h[j]
          BY <3>1, <3>2, <4>3
        <5> QED  BY <2>4, <3>5, <4>1, <5>1 DEF Picked
      <4> QED  BY <4>2, <4>3
    <3>6. ASSUME NEW i \in 1..Len(r)  PROVE r[i] = s[g[i]] /\ s[g[i]] \in S
      <4>1. CASE i = Len(q) + 1
        BY <2>6, <3>1, <3>2, <4>1
      <4>2. CASE i # Len(q) + 1
        <5>1. i \in 1..Len(q) /\ g[i] = h[i]
          BY <3>1, <3>2, <4>2
        <5> QED  BY <2>4, <3>1, <5>1 DEF Picked
      <4> QED  BY <4>1, <4>2
    <3>7. ASSUME NEW i \in 1..k, s[i] \in S  PROVE \E j \in 1..Len(r) : g[j] = i
      <4>1. CASE i = k
        BY <3>1, <3>2, <4>1
      <4>2. CASE i # k
        <5>1. i \in 1..(k - 1)
          BY <4>2
        <5>2. PICK j \in 1..Len(q) : h[j] = i
          BY <2>4, <3>7, <5>1 DEF Picked
        <5>3. j \in 1..Len(r) /\ g[j] = h[j]
          BY <3>1, <3>2
        <5> QED  BY <5>2, <5>3
      <4> QED  BY <4>1, <4>2
    <3> HIDE DEF g
    <3>8. Picked(r, s, S, k, g)
      BY <3>4, <3>5, <3>6, <3>7 DEF Picked
    <3> QED  BY <3>1, <3>8 DEF r
  <2> QED  BY <2>5, <2>6
<1>3. \A k \in 0..Len(s) : k \in Good
  <2> HIDE DEF Good
  <2>1. Len(s) \in Nat
    OBVIOUS
  <2> QED  BY <1>1, <1>2, <2>1, Filter!StepsInduction
<1>4. Len(s) \in Good
  BY <1>3
<1> QED  BY <1>4, AmongChain DEF Filters

LEMMA AmongRange ==
  ASSUME NEW X, NEW s \in Seq(X), NEW S
  PROVE  Range(Among(s, S)) = Range(s) \cap S
<1> DEFINE r == Among(s, S)
<1>1. PICK h : Picked(r, s, S, Len(s), h)
  BY AmongPicks
<1>2. r \in Seq(X)
  BY AmongPicks
<1> HIDE DEF r
<1>3. ASSUME NEW x \in Range(r)  PROVE x \in Range(s) /\ x \in S
  <2>1. PICK i \in 1..Len(r) : r[i] = x
    BY <1>2 DEF Range
  <2>2. h[i] \in DOMAIN s /\ r[i] = s[h[i]] /\ s[h[i]] \in S
    BY <1>1 DEF Picked
  <2> QED  BY <2>1, <2>2 DEF Range
<1>4. ASSUME NEW x \in Range(s), x \in S  PROVE x \in Range(r)
  <2>1. PICK i \in 1..Len(s) : s[i] = x
    BY DEF Range
  <2>2. PICK j \in 1..Len(r) : h[j] = i
    BY <1>1, <1>4, <2>1 DEF Picked
  <2> QED  BY <1>1, <1>2, <2>1, <2>2 DEF Picked, Range
<1> QED  BY <1>3, <1>4 DEF r

LEMMA AmongInjective ==
  ASSUME NEW X, NEW s \in Seq(X), NEW S, IsInjective(s)
  PROVE  IsInjective(Among(s, S))
<1> DEFINE r == Among(s, S)
<1>1. PICK h : Picked(r, s, S, Len(s), h)
  BY AmongPicks
<1>2. r \in Seq(X)
  BY AmongPicks
<1> HIDE DEF r
<1>3. ASSUME NEW i \in 1..Len(r), NEW j \in 1..Len(r), r[i] = r[j]  PROVE i = j
  <2>1. h[i] = h[j]
    BY <1>1, <1>3 DEF Picked, IsInjective
  <2>2. ~(i < j) /\ ~(j < i)
    BY <1>1, <2>1 DEF Picked
  <2> QED  BY <2>2
<1>4. IsInjective(r)
  BY <1>2, <1>3 DEF IsInjective
<1> QED  BY <1>4 DEF r

\* What is in T comes after what is not.
Behind(s, T) == \A i, j \in DOMAIN s : i < j /\ s[i] \in T => s[j] \in T

LEMMA AmongBehind ==
  ASSUME NEW X, NEW s \in Seq(X), NEW S, NEW T, Behind(s, T)
  PROVE  Behind(Among(s, S), T)
<1> DEFINE r == Among(s, S)
<1>1. PICK h : Picked(r, s, S, Len(s), h)
  BY AmongPicks
<1>2. r \in Seq(X)
  BY AmongPicks
<1> HIDE DEF r
<1>3. ASSUME NEW i \in 1..Len(r), NEW j \in 1..Len(r), i < j, r[i] \in T  PROVE r[j] \in T
  <2>1. h[i] < h[j] /\ r[i] = s[h[i]] /\ r[j] = s[h[j]]
    BY <1>1, <1>3 DEF Picked
  <2>2. h[i] \in DOMAIN s /\ h[j] \in DOMAIN s
    <3>1. h \in [1..Len(r) -> 1..Len(s)]
      BY <1>1 DEF Picked
    <3> QED  BY <3>1
  <2> QED  BY <1>3, <2>1, <2>2 DEF Behind
<1>4. Behind(r, T)
  BY <1>2, <1>3 DEF Behind
<1> QED  BY <1>4 DEF r

\* Where the elements of S are all the last ones they are a piece of the list.
LEMMA AmongLast ==
  ASSUME NEW X, NEW s \in Seq(X), NEW S, NEW d \in 0..Len(s),
         \A i \in 1..d : s[i] \notin S, \A i \in (d + 1)..Len(s) : s[i] \in S
  PROVE  Among(s, S) = SubSeq(s, d + 1, Len(s))
<1> DEFINE Good == {k \in 0..Len(s) : Kept(s, S, k) = IF k <= d THEN <<>>
                                                      ELSE SubSeq(s, d + 1, k)}
<1>1. Filters(s, S)
  BY AmongChain
<1>2. 0 \in Good
  BY <1>1 DEF Filters
<1>3. ASSUME NEW k \in 1..Len(s), k - 1 \in Good
      PROVE  k \in Good
  <2>1. Kept(s, S, k) = IF s[k] \in S THEN Kept(s, S, k - 1) \o <<s[k]>>
                        ELSE Kept(s, S, k - 1) \o <<>>
    BY <1>1 DEF Filters
  <2>2. Kept(s, S, k - 1) = IF k - 1 <= d THEN <<>> ELSE SubSeq(s, d + 1, k - 1)
    BY <1>3
  <2>3. CASE k <= d
    BY <2>1, <2>2, <2>3
  <2>4. CASE d < k
    <3>1. Kept(s, S, k - 1) = SubSeq(s, d + 1, k - 1)
      <4>1. k - 1 <= d => SubSeq(s, d + 1, k - 1) = <<>>
        BY SubSeqEmpty
      <4> QED  BY <2>2, <4>1, Zenon
    <3>2. s[k] \in S
      BY <2>4
    <3>3. SubSeq(s, d + 1, k) = SubSeq(s, d + 1, k - 1) \o <<s[k]>>
      <4>1. d + 1 \in 1..Len(s) /\ k \in (d + 1)..Len(s)
        BY <2>4
      <4> QED  BY <4>1, SubSeqRecursiveSecond
    <3>4. Kept(s, S, k) = SubSeq(s, d + 1, k)
      BY <2>1, <3>1, <3>2, <3>3
    <3> QED  BY <2>4, <3>4
  <2> QED  BY <2>3, <2>4
<1>4. \A k \in 0..Len(s) : k \in Good
  <2> HIDE DEF Good
  <2>1. Len(s) \in Nat
    OBVIOUS
  <2> QED  BY <1>2, <1>3, <2>1, Filter!StepsInduction
<1>5. Len(s) \in Good
  BY <1>4
<1>6. Len(s) <= d => SubSeq(s, d + 1, Len(s)) = <<>>
  BY SubSeqEmpty
<1>7. Kept(s, S, Len(s)) = SubSeq(s, d + 1, Len(s))
  BY <1>5, <1>6
<1> QED  BY <1>1, <1>7, Zenon DEF Filters

LEMMA AmongAll ==
  ASSUME NEW X, NEW s \in Seq(X), NEW S, Range(s) \subseteq S
  PROVE  Among(s, S) = s
<1>1. \A i \in 1..Len(s) : s[i] \in S
  BY DEF Range
<1>2. Among(s, S) = SubSeq(s, 0 + 1, Len(s))
  <2>1. 0 \in 0..Len(s) /\ \A i \in 1..0 : s[i] \notin S
    OBVIOUS
  <2> QED  BY <1>1, <2>1, AmongLast
<1> QED  BY <1>2, SubSeqFull

LEMMA AmongRest ==
  ASSUME NEW X, NEW s \in Seq(X), NEW g \in X, NEW S, g \notin S, Range(s) \subseteq S
  PROVE  Among(<<g>> \o s, S) = s
<1> DEFINE r == <<g>> \o s
<1>1. /\ r \in Seq(X) /\ Len(r) = Len(s) + 1 /\ r[1] = g
      /\ \A i \in 1..Len(s) : r[i + 1] = s[i]
  OBVIOUS
<1>2. \A i \in 1..Len(s) : s[i] \in S
  BY DEF Range
<1> HIDE DEF r
<1>3. \A i \in (1 + 1)..Len(r) : r[i] \in S
  <2> SUFFICES ASSUME NEW i \in (1 + 1)..Len(r)  PROVE r[i] \in S
    OBVIOUS
  <2>1. i - 1 \in 1..Len(s) /\ i = (i - 1) + 1
    BY <1>1
  <2> QED  BY <1>1, <1>2, <2>1
<1>4. Among(r, S) = SubSeq(r, 1 + 1, Len(r))
  <2>1. \A i \in 1..1 : r[i] \notin S
    BY <1>1
  <2>2. 1 \in 0..Len(r)
    BY <1>1
  <2> QED  BY <1>1, <1>3, <2>1, <2>2, AmongLast
<1>5. SubSeq(r, 1 + 1, Len(r)) = s
  <2>1. CASE s = <<>>
    <3>1. SubSeq(r, 2, Len(r)) = <<>>
      BY <1>1, <2>1, SubSeqEmpty
    <3> QED  BY <2>1, <3>1
  <2>2. CASE s # <<>>
    <3>1. <<g>> \in Seq(X) /\ Len(<<g>>) = 1 /\ Len(s) >= 1
      BY <2>2
    <3>2. SubSeq(<<g>> \o s, 2, Len(s) + 1) = SubSeq(s, 2 - 1, Len(s) + 1 - 1)
      <4>1. 2 \in (1 + 1)..(1 + Len(s)) /\ Len(s) + 1 \in (1 + 1)..(1 + Len(s))
        BY <3>1
      <4> QED  BY <3>1, <4>1, SubSeqOfConcat2
    <3>3. SubSeq(s, 1, Len(s)) = s
      BY SubSeqFull
    <3> QED  BY <1>1, <3>2, <3>3 DEF r
  <2> QED  BY <2>1, <2>2
<1> QED  BY <1>4, <1>5 DEF r

\* Moving the first component to the front changes nothing.
LEMMA AmongTail ==
  ASSUME NEW X, NEW s \in Seq(X), s # <<>>, IsInjective(s)
  PROVE  <<Head(s)>> \o Among(s, X \ {Head(s)}) = s
<1>1. Len(s) >= 1 /\ Head(s) = s[1]
  OBVIOUS
<1>2. \A i \in (1 + 1)..Len(s) : s[i] \in X \ {Head(s)}
  BY <1>1 DEF IsInjective
<1>3. Among(s, X \ {Head(s)}) = SubSeq(s, 1 + 1, Len(s))
  <2>1. \A i \in 1..1 : s[i] \notin X \ {Head(s)}
    BY <1>1
  <2> QED  BY <1>1, <1>2, <2>1, AmongLast
<1>4. SubSeq(s, 1, Len(s)) = <<s[1]>> \o SubSeq(s, 1 + 1, Len(s))
  BY <1>1, SubSeqRecursiveFirst
<1>5. SubSeq(s, 1, Len(s)) = s
  BY SubSeqFull
<1> QED  BY <1>1, <1>3, <1>4, <1>5, Zenon

LEMMA JoinInjective ==
  ASSUME NEW X, NEW s \in Seq(X), NEW t \in Seq(X), IsInjective(s), IsInjective(t),
         Range(s) \cap Range(t) = {}
  PROVE  IsInjective(s \o t)
<1> DEFINE r == s \o t
<1>1. /\ r \in Seq(X) /\ Len(r) = Len(s) + Len(t)
      /\ \A i \in 1..(Len(s) + Len(t)) : r[i] = IF i <= Len(s) THEN s[i] ELSE t[i - Len(s)]
  BY ConcatProperties
<1>2. Len(s) \in Nat /\ Len(t) \in Nat
  OBVIOUS
<1>3. \A i \in 1..Len(s), j \in 1..Len(t) : s[i] # t[j]
  BY DEF Range
<1> HIDE DEF r
<1>4. ASSUME NEW i \in 1..Len(r), NEW j \in 1..Len(r), r[i] = r[j]  PROVE i = j
  <2>1. CASE i <= Len(s) /\ j <= Len(s)
    <3>1. i \in DOMAIN s /\ j \in DOMAIN s /\ s[i] = s[j]
      BY <1>1, <1>2, <1>4, <2>1
    <3> QED  BY <3>1 DEF IsInjective
  <2>2. CASE i > Len(s) /\ j > Len(s)
    <3>1. i - Len(s) \in DOMAIN t /\ j - Len(s) \in DOMAIN t /\ t[i - Len(s)] = t[j - Len(s)]
      BY <1>1, <1>2, <1>4, <2>2
    <3>2. i - Len(s) = j - Len(s)
      BY <3>1 DEF IsInjective
    <3> QED  BY <1>1, <1>2, <3>2
  <2>3. CASE i <= Len(s) /\ j > Len(s)
    <3>1. i \in 1..Len(s) /\ j - Len(s) \in 1..Len(t) /\ s[i] = t[j - Len(s)]
      BY <1>1, <1>2, <1>4, <2>3
    <3> QED  BY <1>3, <3>1
  <2>4. CASE i > Len(s) /\ j <= Len(s)
    <3>1. j \in 1..Len(s) /\ i - Len(s) \in 1..Len(t) /\ s[j] = t[i - Len(s)]
      BY <1>1, <1>2, <1>4, <2>4
    <3> QED  BY <1>3, <3>1
  <2> QED  BY <1>1, <1>2, <2>1, <2>2, <2>3, <2>4
<1>5. IsInjective(r)
  BY <1>1, <1>4 DEF IsInjective
<1> QED  BY <1>5 DEF r

LEMMA JoinBehind ==
  ASSUME NEW X, NEW s \in Seq(X), NEW t \in Seq(X), NEW T, Behind(s, T), Behind(t, T),
         Range(s) \cap T = {} \/ Range(t) \subseteq T
  PROVE  Behind(s \o t, T)
<1> DEFINE r == s \o t
<1>1. /\ r \in Seq(X) /\ Len(r) = Len(s) + Len(t)
      /\ \A i \in 1..(Len(s) + Len(t)) : r[i] = IF i <= Len(s) THEN s[i] ELSE t[i - Len(s)]
  BY ConcatProperties
<1>2. Len(s) \in Nat /\ Len(t) \in Nat
  OBVIOUS
<1>3. (\A i \in 1..Len(s) : s[i] \notin T) \/ (\A j \in 1..Len(t) : t[j] \in T)
  BY DEF Range
<1> HIDE DEF r
<1>4. ASSUME NEW i \in 1..Len(r), NEW j \in 1..Len(r), i < j, r[i] \in T  PROVE r[j] \in T
  <2>1. CASE j <= Len(s)
    <3>1. i \in DOMAIN s /\ j \in DOMAIN s /\ r[i] = s[i] /\ r[j] = s[j]
      BY <1>1, <1>2, <1>4, <2>1
    <3> QED  BY <1>4, <3>1 DEF Behind
  <2>2. CASE i > Len(s)
    <3>1. /\ i - Len(s) \in DOMAIN t /\ j - Len(s) \in DOMAIN t /\ i - Len(s) < j - Len(s)
          /\ r[i] = t[i - Len(s)] /\ r[j] = t[j - Len(s)]
      BY <1>1, <1>2, <1>4, <2>2
    <3> QED  BY <1>4, <3>1 DEF Behind
  <2>3. CASE i <= Len(s) /\ j > Len(s)
    <3>1. i \in 1..Len(s) /\ j - Len(s) \in 1..Len(t) /\ r[i] = s[i] /\ r[j] = t[j - Len(s)]
      BY <1>1, <1>2, <2>3
    <3> QED  BY <1>3, <1>4, <3>1
  <2> QED  BY <1>1, <1>2, <2>1, <2>2, <2>3
<1>5. Behind(r, T)
  BY <1>1, <1>4 DEF Behind
<1> QED  BY <1>5 DEF r

LEMMA SetToSeqLists ==
  ASSUME NEW S, IsFiniteSet(S)
  PROVE  SetToSeq(S) \in Seq(S) /\ IsInjective(SetToSeq(S)) /\ Range(SetToSeq(S)) = S
<1> DEFINE n == Cardinality(S)
           f == SetToSeq(S)
<1>1. n \in Nat /\ ExistsBijection(1..n, S)
  BY FS_CardinalityType
<1>2. \E g \in [1..n -> S] : IsInjective(g)
  BY <1>1 DEF ExistsBijection, Bijection, Injection
<1>3. f \in [1..n -> S] /\ IsInjective(f)
  BY <1>2, Zenon DEF SetToSeq
<1> HIDE DEF f
<1>4. f \in Injection(1..n, S)
  BY <1>3 DEF Injection
<1>5. IsFiniteSet(1..n) /\ Cardinality(1..n) = n
  BY <1>1, FS_Interval
<1>6. f \in Surjection(1..n, S)
  BY <1>4, <1>5, FS_Injection
<1>7. Range(f) = S
  BY <1>3, <1>6 DEF Range, Surjection
<1>8. f \in Seq(S)
  BY <1>1, <1>3
<1> QED  BY <1>3, <1>7, <1>8 DEF f

-----------------------------------------------------------------------------
(* Memories *)

Tools == {"read_invoice", "read_account", "read_payment", "read_return"}

Ids(tool) == CASE tool = "read_account" -> Accounts
               [] tool = "read_return" -> Orders
               [] OTHER -> Cases

\* What the memory stores of a source: a status of an account is explicit.
Stored(tool) == CASE tool = "read_invoice" -> InvoiceRow \cup {None}
                  [] tool = "read_account" -> {r \in AccountRow : r.status # None} \cup {None}
                  [] tool = "read_payment" -> PaymentStatus
                  [] tool = "read_return" -> ReturnStatus

IsRows(q) ==
  /\ q = [tool \in Tools |-> q[tool]]
  /\ \A tool \in Tools : q[tool] = [id \in Ids(tool) |-> q[tool][id]]

Facts(rows, booked) ==
  /\ IsRows(rows)
  /\ \A tool \in Tools : \A id \in Ids(tool) : rows[tool][id] \in Stored(tool)
  /\ booked \in [Keys -> 0..MaxCents]

IsMemory(m) ==
  /\ m = [order |-> m.order, rows |-> m.rows, booked |-> m.booked]
  /\ Facts(m.rows, m.booked)
  /\ m.order \in Seq(Components) /\ IsInjective(m.order)

\* Every component is in the order, and nothing else.
Ordered(m) == IsMemory(m) /\ Range(m.order) = Groups(m)

LEMMA ReplaceIs ==
  ASSUME NEW q, IsRows(q), NEW tool \in Tools, NEW id \in Ids(tool), NEW row
  PROVE  /\ IsRows(Replace(q, tool, id, row))
         /\ \A u \in Tools : \A x \in Ids(u) :
              Replace(q, tool, id, row)[u][x] = IF u = tool /\ x = id THEN row ELSE q[u][x]
<1> DEFINE r == [q EXCEPT ![tool][id] = row]
<1>1. r = [u \in Tools |-> IF u = tool THEN [q[tool] EXCEPT ![id] = row] ELSE q[u]]
  BY DEF IsRows
<1>2. [q[tool] EXCEPT ![id] = row]
        = [x \in Ids(tool) |-> IF x = id THEN row ELSE q[tool][x]]
  BY DEF IsRows
<1>3. ASSUME NEW u \in Tools
      PROVE  r[u] = [x \in Ids(u) |-> IF u = tool /\ x = id THEN row ELSE q[u][x]]
  <2> HIDE DEF r
  <2>1. CASE u = tool
    BY <1>1, <1>2, <2>1
  <2>2. CASE u # tool
    BY <1>1, <2>2 DEF IsRows
  <2> QED  BY <2>1, <2>2
<1>4. r = [u \in Tools |-> r[u]]
  BY <1>1
<1> HIDE DEF r
<1>5. IsRows(r)
  BY <1>3, <1>4 DEF IsRows
<1>6. Replace(q, tool, id, row) = r
  BY DEF r, Replace
<1> QED  BY <1>3, <1>5, <1>6


LEMMA GroupsTyped ==
  ASSUME NEW m
  PROVE  Groups(m) \subseteq Components /\ IsFiniteSet(Groups(m))
<1>1. Groups(m) \subseteq Components
  BY DEF Groups, Components
<1>2. IsFiniteSet({"invoice"}) /\ IsFiniteSet({"account"}) /\ IsFiniteSet({"return"})
  BY FS_Singleton
<1>3. /\ IsFiniteSet({"invoice"} \X Cases) /\ IsFiniteSet({"account"} \X Accounts)
      /\ IsFiniteSet({"return"} \X Orders)
  BY <1>2, FS_Product
<1>4. IsFiniteSet(({"invoice"} \X Cases) \cup ({"account"} \X Accounts))
  BY <1>3, FS_Union
<1>5. IsFiniteSet(Components)
  BY <1>3, <1>4, FS_Union DEF Components
<1> QED  BY <1>1, <1>5, FS_Subset

LEMMA SameGroups ==
  ASSUME NEW m, NEW n, m.rows = n.rows, m.booked = n.booked
  PROVE  Groups(m) = Groups(n)
BY DEF Groups, Anchored

SameFacts(m, n) == n.rows = m.rows /\ n.booked = m.booked

LEMMA ReorderIs ==
  ASSUME NEW m, IsMemory(m), NEW order
  PROVE  /\ [m EXCEPT !.order = order] = [order |-> order, rows |-> m.rows, booked |-> m.booked]
         /\ [m EXCEPT !.order = order].order = order
         /\ SameFacts(m, [m EXCEPT !.order = order])
         /\ order \in Seq(Components) /\ IsInjective(order) => IsMemory([m EXCEPT !.order = order])
<1> DEFINE n == [m EXCEPT !.order = order]
<1>1. n = [order |-> order, rows |-> m.rows, booked |-> m.booked]
  BY DEF IsMemory
<1> HIDE DEF n
<1>2. n.order = order /\ n.rows = m.rows /\ n.booked = m.booked
  BY <1>1
<1>3. order \in Seq(Components) /\ IsInjective(order) => IsMemory(n)
  BY <1>1, <1>2 DEF IsMemory
<1> QED  BY <1>1, <1>2, <1>3 DEF n, SameFacts

-----------------------------------------------------------------------------
(* What appears comes first, and what was touched goes last. *)

Appeared(m, kind) == SetToSeq({g \in Groups(m) : g[1] = kind /\ ~Contains(m.order, g)})

Newcomers(m) == Appeared(m, "account") \o Appeared(m, "invoice") \o Appeared(m, "return")

LEMMA AppearedIs ==
  ASSUME NEW m, IsMemory(m), NEW kind
  PROVE  /\ Appeared(m, kind) \in Seq(Components) /\ IsInjective(Appeared(m, kind))
         /\ Range(Appeared(m, kind)) = {g \in Groups(m) \ Range(m.order) : g[1] = kind}
<1> DEFINE S == {g \in Groups(m) : g[1] = kind /\ ~Contains(m.order, g)}
<1>1. \A g : Contains(m.order, g) <=> g \in Range(m.order)
  BY DEF IsMemory, Contains, Range
<1>2. S = {g \in Groups(m) \ Range(m.order) : g[1] = kind}
  BY <1>1
<1>3. S \subseteq Components /\ IsFiniteSet(S)
  BY GroupsTyped, FS_Subset
<1> HIDE DEF S
<1>4. SetToSeq(S) \in Seq(S) /\ IsInjective(SetToSeq(S)) /\ Range(SetToSeq(S)) = S
  BY <1>3, SetToSeqLists
<1>5. SetToSeq(S) \in Seq(Components)
  BY <1>3, <1>4, SeqMonotonic
<1> QED  BY <1>2, <1>4, <1>5 DEF S, Appeared

LEMMA NewcomersAre ==
  ASSUME NEW m, IsMemory(m)
  PROVE  /\ Newcomers(m) \in Seq(Components) /\ IsInjective(Newcomers(m))
         /\ Range(Newcomers(m)) = Groups(m) \ Range(m.order)
<1> DEFINE a == Appeared(m, "account")
           i == Appeared(m, "invoice")
           r == Appeared(m, "return")
           New == Groups(m) \ Range(m.order)
<1>1. /\ a \in Seq(Components) /\ IsInjective(a) /\ Range(a) = {g \in New : g[1] = "account"}
      /\ i \in Seq(Components) /\ IsInjective(i) /\ Range(i) = {g \in New : g[1] = "invoice"}
      /\ r \in Seq(Components) /\ IsInjective(r) /\ Range(r) = {g \in New : g[1] = "return"}
  BY AppearedIs
<1>2. \A g \in New : g[1] \in {"account", "invoice", "return"}
  BY GroupsTyped DEF Components
<1> HIDE DEF a, i, r, New
<1>3. a \o i \in Seq(Components) /\ Range(a \o i) = Range(a) \cup Range(i)
  BY <1>1, ConcatProperties, RangeConcatenation
<1>4. IsInjective(a \o i)
  <2>1. Range(a) \cap Range(i) = {}
    BY <1>1
  <2> QED  BY <1>1, <2>1, JoinInjective
<1>5. (a \o i) \o r \in Seq(Components) /\ Range((a \o i) \o r) = Range(a \o i) \cup Range(r)
  <2> DEFINE b == a \o i
  <2>1. b \in Seq(Components)
    BY <1>3
  <2> HIDE DEF b
  <2>2. b \o r \in Seq(Components) /\ Range(b \o r) = Range(b) \cup Range(r)
    BY <1>1, <2>1, ConcatProperties, RangeConcatenation
  <2> QED  BY <2>2 DEF b
<1>6. IsInjective((a \o i) \o r)
  <2>1. Range(a \o i) \cap Range(r) = {}
    BY <1>1, <1>3
  <2> QED  BY <1>1, <1>3, <1>4, <2>1, JoinInjective
<1>7. Range(a) \cup Range(i) \cup Range(r) = New
  BY <1>1, <1>2
<1>8. Newcomers(m) = (a \o i) \o r
  BY DEF Newcomers, a, i, r
<1> QED  BY <1>3, <1>5, <1>6, <1>7, <1>8 DEF New

LEMMA SyncIs ==
  ASSUME NEW m, IsMemory(m)
  PROVE  /\ SyncOrder(m) = [m EXCEPT !.order = Newcomers(m) \o Among(m.order, Groups(m))]
         /\ Ordered(SyncOrder(m)) /\ SameFacts(m, SyncOrder(m))
<1> DEFINE kept == Among(m.order, Groups(m))
           order == Newcomers(m) \o kept
           n == SyncOrder(m)
<1>1. n = [m EXCEPT !.order = order]
  BY Zenon DEF SyncOrder, Newcomers, Appeared
<1>2. m.order \in Seq(Components) /\ IsInjective(m.order)
  BY DEF IsMemory
<1>3. kept \in Seq(Components) /\ Range(kept) = Range(m.order) \cap Groups(m) /\ IsInjective(kept)
  BY <1>2, AmongPicks, AmongRange, AmongInjective
<1> HIDE DEF kept, n
<1>4. order \in Seq(Components) /\ Range(order) = Range(Newcomers(m)) \cup Range(kept)
  BY <1>3, NewcomersAre, ConcatProperties, RangeConcatenation
<1>5. IsInjective(order)
  <2>1. Range(Newcomers(m)) \cap Range(kept) = {}
    BY <1>3, NewcomersAre
  <2> QED  BY <1>3, <2>1, NewcomersAre, JoinInjective
<1>6. Range(order) = Groups(m)
  BY <1>3, <1>4, NewcomersAre
<1> HIDE DEF order
<1>7. IsMemory(n) /\ n.order = order /\ SameFacts(m, n)
  BY <1>1, <1>4, <1>5, ReorderIs
<1>8. Groups(n) = Groups(m)
  BY <1>7, SameGroups DEF SameFacts
<1>9. Ordered(n)
  BY <1>6, <1>7, <1>8 DEF Ordered
<1> QED  BY <1>1, <1>7, <1>9 DEF n, order, kept

LEMMA MoveIs ==
  ASSUME NEW m, Ordered(m), NEW T
  PROVE  /\ MoveToBack(m, T).order
               = Among(m.order, Components \ T) \o Among(m.order, T)
         /\ Ordered(MoveToBack(m, T)) /\ SameFacts(m, MoveToBack(m, T))
<1> DEFINE s == Among(m.order, Components \ T)
           t == Among(m.order, T)
           order == s \o t
           n == MoveToBack(m, T)
<1>1. n = [m EXCEPT !.order = order]
  BY Zenon DEF MoveToBack
<1>2. m.order \in Seq(Components) /\ IsInjective(m.order) /\ IsMemory(m)
  BY DEF IsMemory, Ordered
<1>3. /\ s \in Seq(Components) /\ Range(s) = Range(m.order) \cap (Components \ T)
      /\ t \in Seq(Components) /\ Range(t) = Range(m.order) \cap T
      /\ IsInjective(s) /\ IsInjective(t)
  BY <1>2, AmongPicks, AmongRange, AmongInjective
<1> HIDE DEF s, t, n
<1>4. order \in Seq(Components) /\ Range(order) = Range(s) \cup Range(t)
  BY <1>3, ConcatProperties, RangeConcatenation
<1>5. IsInjective(order)
  <2>1. Range(s) \cap Range(t) = {}
    BY <1>3
  <2> QED  BY <1>3, <2>1, JoinInjective
<1>6. Range(order) = Range(m.order)
  <2>1. Range(m.order) \subseteq Components
    BY <1>2, RangeOfSeq
  <2> QED  BY <1>3, <1>4, <2>1
<1> HIDE DEF order
<1>7. IsMemory(n) /\ n.order = order /\ SameFacts(m, n)
  BY <1>1, <1>2, <1>4, <1>5, ReorderIs
<1>8. Groups(n) = Groups(m)
  BY <1>7, SameGroups DEF SameFacts
<1>9. Ordered(n)
  BY <1>6, <1>7, <1>8 DEF Ordered
<1> QED  BY <1>7, <1>9 DEF n, order, s, t

\* A step of the reducer keeps what this call observed behind the rest.
LEMMA RenewIs ==
  ASSUME NEW m, Ordered(m), NEW n, IsMemory(n), n.order = m.order,
         NEW T, NEW U, U \subseteq Groups(m), Behind(m.order, U)
  PROVE  LET r == MoveToBack(SyncOrder(n), T)
         IN Ordered(r) /\ SameFacts(n, r) /\ Behind(r.order, U \cup T)
<1> DEFINE new == Newcomers(n)
           kept == Among(n.order, Groups(n))
           synced == SyncOrder(n)
           s == Among(synced.order, Components \ T)
           t == Among(synced.order, T)
           r == MoveToBack(synced, T)
<1>1. m.order \in Seq(Components) /\ U \subseteq Range(m.order)
  BY DEF Ordered, IsMemory
<1>2. Ordered(synced) /\ SameFacts(n, synced) /\ synced.order = new \o kept
  <2>1. SyncOrder(n) = [n EXCEPT !.order = Newcomers(n) \o Among(n.order, Groups(n))]
    BY SyncIs
  <2>2. [n EXCEPT !.order = Newcomers(n) \o Among(n.order, Groups(n))].order
          = Newcomers(n) \o Among(n.order, Groups(n))
    BY ReorderIs
  <2>3. Ordered(synced) /\ SameFacts(n, synced)
    BY SyncIs
  <2> QED  BY <2>1, <2>2, <2>3, Zenon
<1>3. new \in Seq(Components) /\ Range(new) \cap U = {}
  BY <1>1, NewcomersAre
<1>4. kept \in Seq(Components) /\ Behind(kept, U)
  BY <1>1, AmongPicks, AmongBehind
<1>5. Behind(new, U)
  BY <1>3 DEF Behind, Range
<1> HIDE DEF new, kept, synced
<1>6. Behind(synced.order, U) /\ synced.order \in Seq(Components)
  BY <1>2, <1>3, <1>4, <1>5, JoinBehind, ConcatProperties
<1>7. /\ s \in Seq(Components) /\ Range(s) \cap T = {} /\ Behind(s, U)
      /\ t \in Seq(Components) /\ Range(t) \subseteq T
  BY <1>6, AmongPicks, AmongRange, AmongBehind
<1>8. Ordered(r) /\ SameFacts(synced, r) /\ r.order = s \o t
  BY <1>2, MoveIs
<1> HIDE DEF s, t, r
<1>9. Behind(s, U \cup T) /\ Behind(t, U \cup T) /\ Range(t) \subseteq U \cup T
  BY <1>7 DEF Behind, Range
<1>10. Behind(r.order, U \cup T)
  BY <1>7, <1>8, <1>9, JoinBehind
<1>11. SameFacts(n, r)
  BY <1>2, <1>8 DEF SameFacts
<1> QED  BY <1>8, <1>10, <1>11 DEF r, synced

-----------------------------------------------------------------------------
(* Ingestion *)

LEMMA ExplicitIsStored ==
  /\ \A row \in InvoiceRows : ExplicitRow("read_invoice", row) \in Stored("read_invoice") \ {None}
  /\ \A row \in AccountRows : ExplicitRow("read_account", row) \in Stored("read_account") \ {None}
  /\ \A row \in PaymentRows : ExplicitRow("read_payment", row) \in Stored("read_payment") \ {None}
  /\ \A row \in ReturnRows : ExplicitRow("read_return", row) \in Stored("read_return") \ {None}
<1>1. \A row \in InvoiceRows : ExplicitRow("read_invoice", row) \in Stored("read_invoice") \ {None}
  BY DEF ExplicitRow, Stored
<1>2. ASSUME NEW row \in AccountRows
      PROVE  ExplicitRow("read_account", row) \in Stored("read_account") \ {None}
  <2>1. row \in AccountRow
    OBVIOUS
  <2>2. [row EXCEPT !.status = "unknown"] \in AccountRow
        /\ [row EXCEPT !.status = "unknown"].status = "unknown"
    BY <2>1 DEF AccountRow, AccountStatus
  <2>3. ExplicitRow("read_account", row) \in AccountRow
        /\ ExplicitRow("read_account", row).status # None
    BY <2>1, <2>2 DEF ExplicitRow
  <2> QED  BY <2>3 DEF Stored
<1>3. \A row \in PaymentRows : ExplicitRow("read_payment", row) \in Stored("read_payment") \ {None}
  BY DEF ExplicitRow, Stored, PaymentStatus
<1>4. \A row \in ReturnRows : ExplicitRow("read_return", row) \in Stored("read_return") \ {None}
  BY DEF ExplicitRow, Stored, ReturnStatus
<1> QED  BY <1>1, <1>2, <1>3, <1>4

LEMMA PutRowIs ==
  ASSUME NEW m, Ordered(m), NEW tool \in Tools, NEW id \in Ids(tool), NEW row,
         ExplicitRow(tool, row) \in Stored(tool),
         NEW U, U \subseteq Groups(m), Behind(m.order, U)
  PROVE  LET r == PutRow(m, tool, id, row)
         IN /\ Ordered(r) /\ r.booked = m.booked
            /\ r.rows = Replace(m.rows, tool, id, ExplicitRow(tool, row))
            /\ Behind(r.order, U \cup Touched(r.rows, tool, id))
<1> DEFINE rows == Replace(m.rows, tool, id, ExplicitRow(tool, row))
           put == [m EXCEPT !.rows = rows]
           synced == SyncOrder(put)
           T == Touched(synced.rows, tool, id)
           r == MoveToBack(synced, T)
<1>1. IsMemory(m)
  BY DEF Ordered
<1>2. Facts(rows, m.booked)
  <2>1. IsRows(m.rows) /\ \A u \in Tools : \A x \in Ids(u) : m.rows[u][x] \in Stored(u)
    BY <1>1 DEF IsMemory, Facts
  <2>2. /\ IsRows(rows)
        /\ \A u \in Tools : \A x \in Ids(u) :
             rows[u][x] = IF u = tool /\ x = id THEN ExplicitRow(tool, row) ELSE m.rows[u][x]
    BY <2>1, ReplaceIs
  <2> HIDE DEF rows
  <2> QED  BY <1>1, <2>1, <2>2 DEF Facts, IsMemory
<1> HIDE DEF rows
<1>3. put = [order |-> m.order, rows |-> rows, booked |-> m.booked]
  BY <1>1 DEF IsMemory
<1> HIDE DEF put
<1>4. put.order = m.order /\ put.rows = rows /\ put.booked = m.booked
  BY <1>3
<1>5. IsMemory(put)
  BY <1>1, <1>2, <1>3, <1>4 DEF IsMemory
<1>6. SameFacts(put, synced)
  BY <1>5, SyncIs
<1>7. Ordered(r) /\ SameFacts(put, r) /\ Behind(r.order, U \cup T)
  <2> HIDE DEF T
  <2> QED  BY <1>4, <1>5, RenewIs
<1>8. PutRow(m, tool, id, row) = r
  BY Zenon DEF PutRow, put, rows
<1>9. T = Touched(r.rows, tool, id)
  BY <1>6, <1>7 DEF SameFacts
<1> HIDE DEF r, T
<1> QED  BY <1>4, <1>7, <1>8, <1>9 DEF SameFacts, rows

LEMMA PutBookingIs ==
  ASSUME NEW m, Ordered(m), NEW key \in Keys, NEW amount \in 1..MaxCents,
         NEW U, U \subseteq Groups(m), Behind(m.order, U)
  PROVE  LET r == PutBooking(m, key, amount)
         IN /\ Ordered(r) /\ r.rows = m.rows /\ r.booked = [m.booked EXCEPT ![key] = amount]
            /\ Behind(r.order, U \cup {<<"invoice", key[1]>>})
<1> DEFINE booking == [m.booked EXCEPT ![key] = amount]
           put == [m EXCEPT !.booked[key] = amount]
           synced == SyncOrder(put)
           r == MoveToBack(synced, {<<"invoice", key[1]>>})
<1>1. IsMemory(m)
  BY DEF Ordered
<1>2. Facts(m.rows, booking)
  <2>1. m.booked \in [Keys -> 0..MaxCents] /\ amount \in 0..MaxCents
    BY <1>1 DEF IsMemory, Facts
  <2>2. booking \in [Keys -> 0..MaxCents]
    BY <2>1
  <2> HIDE DEF booking
  <2> QED  BY <1>1, <2>2 DEF Facts, IsMemory
<1>3. put = [order |-> m.order, rows |-> m.rows, booked |-> booking]
  BY <1>1 DEF IsMemory
<1> HIDE DEF put, booking
<1>4. put.order = m.order /\ put.rows = m.rows /\ put.booked = booking
  BY <1>3
<1>5. IsMemory(put)
  BY <1>1, <1>2, <1>3, <1>4 DEF IsMemory
<1>6. Ordered(r) /\ SameFacts(put, r) /\ Behind(r.order, U \cup {<<"invoice", key[1]>>})
  BY <1>4, <1>5, RenewIs
<1>7. PutBooking(m, key, amount) = r
  BY Zenon DEF PutBooking, put
<1> HIDE DEF r
<1> QED  BY <1>4, <1>6, <1>7 DEF SameFacts, booking

-----------------------------------------------------------------------------
(* Eviction of one component *)

\* The invoice is the only one that links to this account or return.
Sole(rows, field, c, id) ==
  rows.read_invoice[c] # None /\ rows.read_invoice[c][field] = id
  /\ Linked(rows, field, id) \subseteq {c}

InvoiceGone(m, c, e) ==
  /\ e = [order |-> m.order, rows |-> e.rows, booked |-> e.booked]
  /\ IsRows(e.rows)
  /\ \A d \in Cases : e.rows.read_invoice[d] = IF d = c THEN None ELSE m.rows.read_invoice[d]
  /\ \A d \in Cases : e.rows.read_payment[d] = IF d = c THEN None ELSE m.rows.read_payment[d]
  /\ \A a \in Accounts : e.rows.read_account[a] = IF Sole(m.rows, "account_id", c, a) THEN None
                                                   ELSE m.rows.read_account[a]
  /\ \A o \in Orders : e.rows.read_return[o] = IF Sole(m.rows, "order_id", c, o) THEN None
                                                ELSE m.rows.read_return[o]
  /\ e.booked = [k \in Keys |-> IF k[1] = c THEN 0 ELSE m.booked[k]]

LEMMA EvictInvoiceIs ==
  ASSUME NEW m, IsMemory(m), NEW c \in Cases
  PROVE  InvoiceGone(m, c, EvictInvoice(m, c))
<1> DEFINE invoice == m.rows.read_invoice[c]
           rest == [m.rows EXCEPT !.read_invoice[c] = None, !.read_payment[c] = None]
           dropped(field, id) == invoice # None /\ invoice[field] = id
                                 /\ LastLink(rest, field, id)
           booking == [k \in Keys |-> IF k[1] = c THEN 0 ELSE m.booked[k]]
           accounts == [a \in Accounts |-> IF dropped("account_id", a) THEN None
                                           ELSE rest.read_account[a]]
           returns == [o \in Orders |-> IF dropped("order_id", o) THEN None
                                        ELSE rest.read_return[o]]
           rows == [rest EXCEPT !.read_account = accounts, !.read_return = returns]
           e == EvictInvoice(m, c)
<1>1. e = [m EXCEPT !.booked = booking, !.rows = rows]
  BY DEF EvictInvoice
<1> HIDE DEF dropped, e
<1>2. m.rows = [read_invoice |-> m.rows.read_invoice, read_account |-> m.rows.read_account,
                read_payment |-> m.rows.read_payment, read_return |-> m.rows.read_return]
  BY DEF IsMemory, Facts, IsRows, Tools
<1>3. rest = [read_invoice |-> [m.rows.read_invoice EXCEPT ![c] = None],
              read_account |-> m.rows.read_account,
              read_payment |-> [m.rows.read_payment EXCEPT ![c] = None],
              read_return |-> m.rows.read_return]
  <2> DEFINE a == [m.rows EXCEPT !.read_invoice[c] = None]
  <2>1. a = [read_invoice |-> [m.rows.read_invoice EXCEPT ![c] = None],
             read_account |-> m.rows.read_account, read_payment |-> m.rows.read_payment,
             read_return |-> m.rows.read_return]
    BY ONLY <1>2
  <2>2. rest = [a EXCEPT !.read_payment[c] = None]
    OBVIOUS
  <2> HIDE DEF a, rest
  <2> QED  BY ONLY <2>1, <2>2
<1> HIDE DEF rest
<1>4. rows = [read_invoice |-> [m.rows.read_invoice EXCEPT ![c] = None],
              read_account |-> accounts,
              read_payment |-> [m.rows.read_payment EXCEPT ![c] = None],
              read_return |-> returns]
  <2> DEFINE a == [rest EXCEPT !.read_account = accounts]
  <2>1. a = [read_invoice |-> [m.rows.read_invoice EXCEPT ![c] = None],
             read_account |-> accounts,
             read_payment |-> [m.rows.read_payment EXCEPT ![c] = None],
             read_return |-> m.rows.read_return]
    <3> HIDE DEF accounts
    <3> QED  BY ONLY <1>3
  <2>2. rows = [a EXCEPT !.read_return = returns]
    OBVIOUS
  <2> HIDE DEF a, rows, accounts, returns
  <2> QED  BY ONLY <2>1, <2>2
<1>5. /\ m.rows.read_invoice = [x \in Cases |-> m.rows.read_invoice[x]]
      /\ m.rows.read_payment = [x \in Cases |-> m.rows.read_payment[x]]
  BY DEF IsMemory, Facts, IsRows, Tools, Ids
<1>6. ASSUME NEW field, NEW id
      PROVE  dropped(field, id) <=> Sole(m.rows, field, c, id)
  <2>1. \A d \in Cases : rest.read_invoice[d] = IF d = c THEN None ELSE m.rows.read_invoice[d]
    BY <1>3, <1>5
  <2>2. Linked(rest, field, id) = Linked(m.rows, field, id) \ {c}
    BY <2>1 DEF Linked
  <2> QED  BY <2>2 DEF dropped, Sole, LastLink
<1>7. /\ \A a \in Accounts : accounts[a] = IF Sole(m.rows, "account_id", c, a) THEN None
                                            ELSE m.rows.read_account[a]
      /\ \A o \in Orders : returns[o] = IF Sole(m.rows, "order_id", c, o) THEN None
                                         ELSE m.rows.read_return[o]
      /\ accounts = [a \in Accounts |-> accounts[a]]
      /\ returns = [o \in Orders |-> returns[o]]
  BY <1>3, <1>6
<1> HIDE DEF accounts, returns, rows
<1>8. /\ rows.read_invoice = [m.rows.read_invoice EXCEPT ![c] = None]
      /\ rows.read_account = accounts
      /\ rows.read_payment = [m.rows.read_payment EXCEPT ![c] = None]
      /\ rows.read_return = returns
      /\ rows = [u \in Tools |-> rows[u]]
  BY ONLY <1>4 DEF Tools
<1>9. IsRows(rows)
  <2>1. ASSUME NEW u \in Tools  PROVE rows[u] = [x \in Ids(u) |-> rows[u][x]]
    <3>1. CASE u \in {"read_invoice", "read_payment"}
      BY <1>5, <1>8, <3>1 DEF Ids
    <3>2. CASE u = "read_account"
      BY <1>7, <1>8, <3>2 DEF Ids
    <3>3. CASE u = "read_return"
      BY <1>7, <1>8, <3>3 DEF Ids
    <3> QED  BY <3>1, <3>2, <3>3 DEF Tools
  <2> QED  BY <1>8, <2>1 DEF IsRows
<1>10. e = [order |-> m.order, rows |-> rows, booked |-> booking]
  <2> DEFINE a == [m EXCEPT !.booked = booking]
  <2>1. a = [order |-> m.order, rows |-> m.rows, booked |-> booking]
    <3> HIDE DEF booking
    <3> QED  BY DEF IsMemory
  <2>2. e = [a EXCEPT !.rows = rows]
    BY <1>1
  <2> HIDE DEF a, booking
  <2> QED  BY <2>1, <2>2
<1> HIDE DEF booking
<1>11. e.order = m.order /\ e.rows = rows /\ e.booked = booking
  BY <1>10
<1>12. \A d \in Cases :
         /\ rows.read_invoice[d] = IF d = c THEN None ELSE m.rows.read_invoice[d]
         /\ rows.read_payment[d] = IF d = c THEN None ELSE m.rows.read_payment[d]
  BY <1>5, <1>8
<1>13. InvoiceGone(m, c, e)
  BY <1>7, <1>8, <1>9, <1>10, <1>11, <1>12 DEF InvoiceGone, booking
<1> QED  BY <1>13 DEF e

\* What is left of the facts.
Fewer(m, e) ==
  /\ \A tool \in Tools : \A id \in Ids(tool) : e.rows[tool][id] \in {None, m.rows[tool][id]}
  /\ \A k \in Keys : e.booked[k] \in {0, m.booked[k]}

\* One component is gone: no other one appears, and all others look the same.
Gone(m, g, e) ==
  /\ IsMemory(e) /\ e.order = m.order
  /\ Fewer(m, e)
  /\ Groups(e) = Groups(m) \ {g}
  /\ \A h \in Groups(e) : Record(e, h) = Record(m, h)

-----------------------------------------------------------------------------
(* What one component shows *)

InvoiceShown(m, g) == IF g[1] = "invoice" THEN m.rows.read_invoice[g[2]] ELSE None

AccountShown(m, g) ==
  CASE g[1] = "account" -> m.rows.read_account[g[2]]
    [] InvoiceShown(m, g) # None /\ InvoiceShown(m, g).account_id # None ->
         m.rows.read_account[InvoiceShown(m, g).account_id]
    [] OTHER -> None

ReturnShown(m, g) ==
  CASE g[1] = "return" -> m.rows.read_return[g[2]]
    [] InvoiceShown(m, g) # None /\ InvoiceShown(m, g).order_id # None ->
         m.rows.read_return[InvoiceShown(m, g).order_id]
    [] OTHER -> None

PaymentShown(m, g) == IF g[1] = "invoice" THEN m.rows.read_payment[g[2]] ELSE None

BookedShown(m, g) ==
  [operation \in Operations |-> IF g[1] = "invoice" THEN m.booked[<<g[2], operation>>] ELSE 0]

OwnershipOf(invoice, account) ==
  IF invoice = None \/ account = None THEN "unknown"
  ELSE IF None \in {invoice.merchant_id, account.holder} THEN "unknown"
  ELSE IF invoice.merchant_id = account.holder THEN "yes" ELSE "no"

LEMMA RecordIs ==
  ASSUME NEW m, NEW g
  PROVE  Record(m, g) = [component |-> g, invoice |-> InvoiceShown(m, g),
                         account |-> AccountShown(m, g),
                         ownership_match |-> OwnershipOf(InvoiceShown(m, g), AccountShown(m, g)),
                         returned |-> ReturnShown(m, g), payment |-> PaymentShown(m, g),
                         booked |-> BookedShown(m, g)]
BY Zenon DEF Record, InvoiceShown, AccountShown, ReturnShown, PaymentShown, BookedShown, OwnershipOf

\* The rows and bookings that a component shows are the same in both.
Alike(m, n, g) ==
  /\ g[1] = "invoice" =>
       /\ n.rows.read_invoice[g[2]] = m.rows.read_invoice[g[2]]
       /\ n.rows.read_payment[g[2]] = m.rows.read_payment[g[2]]
       /\ \A operation \in Operations :
            n.booked[<<g[2], operation>>] = m.booked[<<g[2], operation>>]
       /\ m.rows.read_invoice[g[2]] # None =>
            /\ m.rows.read_invoice[g[2]].account_id # None =>
                 n.rows.read_account[m.rows.read_invoice[g[2]].account_id]
                   = m.rows.read_account[m.rows.read_invoice[g[2]].account_id]
            /\ m.rows.read_invoice[g[2]].order_id # None =>
                 n.rows.read_return[m.rows.read_invoice[g[2]].order_id]
                   = m.rows.read_return[m.rows.read_invoice[g[2]].order_id]
  /\ g[1] = "account" => n.rows.read_account[g[2]] = m.rows.read_account[g[2]]
  /\ g[1] = "return" => n.rows.read_return[g[2]] = m.rows.read_return[g[2]]

LEMMA RecordSame ==
  ASSUME NEW m, NEW n, NEW g \in Components, Alike(m, n, g)
  PROVE  Record(n, g) = Record(m, g)
<1>0. g[1] \in {"invoice", "account", "return"}
  BY DEF Components
<1>1. InvoiceShown(n, g) = InvoiceShown(m, g) /\ PaymentShown(n, g) = PaymentShown(m, g)
  BY DEF Alike, InvoiceShown, PaymentShown
<1>2. BookedShown(n, g) = BookedShown(m, g)
  BY DEF Alike, BookedShown
<1>3. AccountShown(n, g) = AccountShown(m, g)
  <2>1. CASE g[1] = "account"
    BY <2>1 DEF Alike, AccountShown, InvoiceShown
  <2>2. CASE g[1] = "return"
    BY <2>2 DEF AccountShown, InvoiceShown
  <2>3. CASE g[1] = "invoice"
    BY <1>1, <2>3 DEF Alike, AccountShown, InvoiceShown
  <2> QED  BY <1>0, <2>1, <2>2, <2>3
<1>4. ReturnShown(n, g) = ReturnShown(m, g)
  <2>1. CASE g[1] = "account"
    BY <2>1 DEF ReturnShown, InvoiceShown
  <2>2. CASE g[1] = "return"
    BY <2>2 DEF Alike, ReturnShown, InvoiceShown
  <2>3. CASE g[1] = "invoice"
    BY <1>1, <2>3 DEF Alike, ReturnShown, InvoiceShown
  <2> QED  BY <1>0, <2>1, <2>2, <2>3
<1> QED  BY <1>1, <1>2, <1>3, <1>4, RecordIs, Zenon

\* The identifiers an invoice links to.
LEMMA LinksTyped ==
  ASSUME NEW m, IsMemory(m), NEW c \in Cases, m.rows.read_invoice[c] # None
  PROVE  /\ m.rows.read_invoice[c].account_id \in Accounts \cup {None}
         /\ m.rows.read_invoice[c].order_id \in Orders \cup {None}
<1>1. m.rows.read_invoice[c] \in Stored("read_invoice")
  BY DEF IsMemory, Facts, Tools, Ids
<1> QED  BY <1>1 DEF Stored, InvoiceRow

LEMMA AnchorsAre ==
  ASSUME NEW m
  PROVE  /\ \A c : <<"invoice", c>> \in Groups(m) <=> c \in Cases /\ Anchored(m, c)
         /\ \A a : <<"account", a>> \in Groups(m)
                     <=> /\ a \in Accounts /\ m.rows.read_account[a] # None
                         /\ Linked(m.rows, "account_id", a) = {}
         /\ \A o : <<"return", o>> \in Groups(m)
                     <=> /\ o \in Orders /\ m.rows.read_return[o] # None
                         /\ Linked(m.rows, "order_id", o) = {}
BY DEF Groups

\* Fewer rows and bookings make a memory of the same order.
LEMMA FewerIsMemory ==
  ASSUME NEW m, IsMemory(m), NEW e, e = [order |-> m.order, rows |-> e.rows, booked |-> e.booked],
         IsRows(e.rows), e.booked = [k \in Keys |-> e.booked[k]], Fewer(m, e)
  PROVE  IsMemory(e) /\ e.order = m.order
<1>1. e.order = m.order
  OBVIOUS
<1>2. ASSUME NEW tool \in Tools, NEW id \in Ids(tool)  PROVE e.rows[tool][id] \in Stored(tool)
  <2>1. m.rows[tool][id] \in Stored(tool)
    BY DEF IsMemory, Facts
  <2>2. None \in Stored(tool)
    BY DEF Stored, Tools, PaymentStatus, ReturnStatus
  <2> QED  BY <2>1, <2>2 DEF Fewer
<1>3. \A k \in Keys : e.booked[k] \in 0..MaxCents
  BY DEF IsMemory, Facts, Fewer
<1>4. Facts(e.rows, e.booked)
  BY <1>2, <1>3 DEF Facts
<1> QED  BY <1>1, <1>4 DEF IsMemory

LEMMA InvoiceIsGone ==
  ASSUME NEW m, IsMemory(m), NEW c \in Cases, NEW e, InvoiceGone(m, c, e)
  PROVE  Gone(m, <<"invoice", c>>, e)
<1>1. /\ \A d \in Cases : /\ e.rows.read_invoice[d] = IF d = c THEN None
                                                      ELSE m.rows.read_invoice[d]
                          /\ e.rows.read_payment[d] = IF d = c THEN None
                                                      ELSE m.rows.read_payment[d]
      /\ \A a \in Accounts : e.rows.read_account[a] = IF Sole(m.rows, "account_id", c, a) THEN None
                                                      ELSE m.rows.read_account[a]
      /\ \A o \in Orders : e.rows.read_return[o] = IF Sole(m.rows, "order_id", c, o) THEN None
                                                    ELSE m.rows.read_return[o]
      /\ \A d \in Cases, operation \in Operations :
           e.booked[<<d, operation>>] = IF d = c THEN 0 ELSE m.booked[<<d, operation>>]
  BY DEF InvoiceGone, Keys
<1>2. \A field, id : Linked(e.rows, field, id) = Linked(m.rows, field, id) \ {c}
  BY <1>1 DEF Linked
<1>3. \A field, id : Sole(m.rows, field, c, id)
                       <=> c \in Linked(m.rows, field, id) /\ Linked(e.rows, field, id) = {}
  <2>1. \A field, id : c \in Linked(m.rows, field, id)
          <=> m.rows.read_invoice[c] # None /\ m.rows.read_invoice[c][field] = id
    BY DEF Linked
  <2> QED  BY <1>2, <2>1 DEF Sole
<1>4. Fewer(m, e)
  <2>1. ASSUME NEW tool \in Tools, NEW id \in Ids(tool)
        PROVE  e.rows[tool][id] \in {None, m.rows[tool][id]}
    BY <1>1 DEF Tools, Ids
  <2>2. ASSUME NEW k \in Keys  PROVE e.booked[k] \in {0, m.booked[k]}
    BY DEF InvoiceGone
  <2> QED  BY <2>1, <2>2 DEF Fewer
<1>5. IsMemory(e) /\ e.order = m.order
  BY <1>4, FewerIsMemory DEF InvoiceGone
<1>6. ASSUME NEW d \in Cases  PROVE Anchored(e, d) <=> Anchored(m, d) /\ d # c
  <2>1. CASE d = c
    <3>1. e.rows.read_invoice[d] = None /\ e.rows.read_payment[d] = None
      BY <1>1, <2>1
    <3>2. \A operation \in Operations : ~(e.booked[<<d, operation>>] > 0)
      BY <1>1, <2>1
    <3> QED  BY <2>1, <3>1, <3>2 DEF Anchored
  <2>2. CASE d # c
    <3>1. /\ e.rows.read_invoice[d] = m.rows.read_invoice[d]
          /\ e.rows.read_payment[d] = m.rows.read_payment[d]
          /\ \A operation \in Operations :
               e.booked[<<d, operation>>] = m.booked[<<d, operation>>]
      BY <1>1, <2>2
    <3> QED  BY <2>2, <3>1 DEF Anchored
  <2> QED  BY <2>1, <2>2
<1>7. \A a \in Accounts :
        (e.rows.read_account[a] # None /\ Linked(e.rows, "account_id", a) = {})
        <=> (m.rows.read_account[a] # None /\ Linked(m.rows, "account_id", a) = {})
  BY <1>1, <1>2, <1>3
<1>8. \A o \in Orders :
        (e.rows.read_return[o] # None /\ Linked(e.rows, "order_id", o) = {})
        <=> (m.rows.read_return[o] # None /\ Linked(m.rows, "order_id", o) = {})
  BY <1>1, <1>2, <1>3
<1>9. Groups(e) = Groups(m) \ {<<"invoice", c>>}
  <2>1. \A d : <<"invoice", d>> \in Groups(e) <=> <<"invoice", d>> \in Groups(m) /\ d # c
    BY <1>6, AnchorsAre
  <2>2. \A a : <<"account", a>> \in Groups(e) <=> <<"account", a>> \in Groups(m)
    BY <1>7, AnchorsAre
  <2>3. \A o : <<"return", o>> \in Groups(e) <=> <<"return", o>> \in Groups(m)
    BY <1>8, AnchorsAre
  <2>4. \A h \in Groups(e) \cup Groups(m) :
          \E x : h \in {<<"invoice", x>>, <<"account", x>>, <<"return", x>>}
    BY DEF Groups
  <2> QED  BY <2>1, <2>2, <2>3, <2>4
<1>10. ASSUME NEW h \in Groups(e)  PROVE Record(e, h) = Record(m, h)
  <2>0. h \in Components
    BY GroupsTyped
  <2>1. CASE h \in {"invoice"} \X Cases
    <3>1. PICK d \in Cases : h = <<"invoice", d>>
      BY <2>1
    <3>2. d # c
      BY <1>9, <3>1
    <3>3. \A field, id : d \in Linked(m.rows, field, id) => ~Sole(m.rows, field, c, id)
      BY <3>2 DEF Sole
    <3>4. ASSUME m.rows.read_invoice[d] # None, m.rows.read_invoice[d].account_id # None
          PROVE  e.rows.read_account[m.rows.read_invoice[d].account_id]
                   = m.rows.read_account[m.rows.read_invoice[d].account_id]
      <4>1. m.rows.read_invoice[d].account_id \in Accounts
        BY <3>4, LinksTyped
      <4>2. d \in Linked(m.rows, "account_id", m.rows.read_invoice[d].account_id)
        BY <3>4 DEF Linked
      <4> QED  BY <1>1, <3>3, <4>1, <4>2
    <3>5. ASSUME m.rows.read_invoice[d] # None, m.rows.read_invoice[d].order_id # None
          PROVE  e.rows.read_return[m.rows.read_invoice[d].order_id]
                   = m.rows.read_return[m.rows.read_invoice[d].order_id]
      <4>1. m.rows.read_invoice[d].order_id \in Orders
        BY <3>5, LinksTyped
      <4>2. d \in Linked(m.rows, "order_id", m.rows.read_invoice[d].order_id)
        BY <3>5 DEF Linked
      <4> QED  BY <1>1, <3>3, <4>1, <4>2
    <3>6. h[1] = "invoice" /\ h[2] = d
      BY <3>1
    <3>7. Alike(m, e, h)
      BY <1>1, <3>2, <3>4, <3>5, <3>6 DEF Alike
    <3> QED  BY <2>0, <3>7, RecordSame
  <2>2. CASE h \in {"account"} \X Accounts
    <3>1. PICK a \in Accounts : h = <<"account", a>>
      BY <2>2
    <3>2. e.rows.read_account[a] # None
      BY <1>10, <3>1, AnchorsAre
    <3>3. h[1] = "account" /\ h[2] = a /\ e.rows.read_account[a] = m.rows.read_account[a]
      BY <1>1, <3>1, <3>2
    <3>4. Alike(m, e, h)
      BY <3>3 DEF Alike
    <3> QED  BY <2>0, <3>4, RecordSame
  <2>3. CASE h \in {"return"} \X Orders
    <3>1. PICK o \in Orders : h = <<"return", o>>
      BY <2>3
    <3>2. e.rows.read_return[o] # None
      BY <1>10, <3>1, AnchorsAre
    <3>3. h[1] = "return" /\ h[2] = o /\ e.rows.read_return[o] = m.rows.read_return[o]
      BY <1>1, <3>1, <3>2
    <3>4. Alike(m, e, h)
      BY <3>3 DEF Alike
    <3> QED  BY <2>0, <3>4, RecordSame
  <2> QED  BY <2>0, <2>1, <2>2, <2>3 DEF Components
<1> QED  BY <1>4, <1>5, <1>9, <1>10 DEF Gone

\* The row of an account or return that no invoice links to.
Loose(m, tool, id) ==
  \/ /\ tool = "read_account" /\ id \in Accounts
     /\ Linked(m.rows, "account_id", id) = {}
  \/ /\ tool = "read_return" /\ id \in Orders
     /\ Linked(m.rows, "order_id", id) = {}

KindOf(tool) == IF tool = "read_account" THEN "account" ELSE "return"

LEMMA RowIsGone ==
  ASSUME NEW m, IsMemory(m), NEW tool, NEW id, Loose(m, tool, id)
  PROVE  Gone(m, <<KindOf(tool), id>>, [m EXCEPT !.rows = Replace(@, tool, id, None)])
<1> DEFINE g == <<KindOf(tool), id>>
           rows == Replace(m.rows, tool, id, None)
           e == [m EXCEPT !.rows = Replace(@, tool, id, None)]
<1>0. tool \in {"read_account", "read_return"} /\ tool \in Tools /\ id \in Ids(tool)
  BY DEF Loose, Tools, Ids
<1>1. IsRows(rows) /\ \A u \in Tools : \A x \in Ids(u) :
        rows[u][x] = IF u = tool /\ x = id THEN None ELSE m.rows[u][x]
  <2> DEFINE q == m.rows
  <2>1. IsRows(q)
    BY DEF IsMemory, Facts
  <2> HIDE DEF q
  <2>2. /\ IsRows(Replace(q, tool, id, None))
        /\ \A u \in Tools : \A x \in Ids(u) : Replace(q, tool, id, None)[u][x]
             = IF u = tool /\ x = id THEN None ELSE q[u][x]
    BY <1>0, <2>1, ReplaceIs
  <2> QED  BY <2>2 DEF q
<1> HIDE DEF rows
<1>2. e = [order |-> m.order, rows |-> rows, booked |-> m.booked]
  BY DEF IsMemory, rows
<1> HIDE DEF e
<1>3. e.order = m.order /\ e.rows = rows /\ e.booked = m.booked
  BY <1>2
<1>4. Fewer(m, e)
  BY <1>1, <1>3 DEF Fewer
<1>5. IsMemory(e) /\ e.order = m.order
  <2>1. m.booked = [k \in Keys |-> m.booked[k]]
    BY DEF IsMemory, Facts
  <2>2. e = [order |-> m.order, rows |-> e.rows, booked |-> e.booked]
    BY <1>2, <1>3
  <2>3. IsRows(e.rows) /\ e.booked = [k \in Keys |-> e.booked[k]]
    BY <1>1, <1>3, <2>1
  <2> QED  BY <1>4, <2>2, <2>3, FewerIsMemory
<1>6. /\ \A d \in Cases : /\ e.rows.read_invoice[d] = m.rows.read_invoice[d]
                          /\ e.rows.read_payment[d] = m.rows.read_payment[d]
      /\ \A a \in Accounts : e.rows.read_account[a]
           = IF tool = "read_account" /\ a = id THEN None ELSE m.rows.read_account[a]
      /\ \A o \in Orders : e.rows.read_return[o]
           = IF tool = "read_return" /\ o = id THEN None ELSE m.rows.read_return[o]
  BY <1>0, <1>1, <1>3 DEF Tools, Ids
<1>7. \A field, x : Linked(e.rows, field, x) = Linked(m.rows, field, x)
  BY <1>6 DEF Linked
<1>8. \A d \in Cases : Anchored(e, d) <=> Anchored(m, d)
  BY <1>3, <1>6 DEF Anchored
<1>9. Groups(e) = Groups(m) \ {g}
  <2>1. \A d : <<"invoice", d>> \in Groups(e) <=> <<"invoice", d>> \in Groups(m)
    BY <1>8, AnchorsAre
  <2>2. \A a : <<"account", a>> \in Groups(e)
                 <=> <<"account", a>> \in Groups(m) /\ ~(tool = "read_account" /\ a = id)
    <3>1. \A a \in Accounts :
            (e.rows.read_account[a] # None /\ Linked(e.rows, "account_id", a) = {})
            <=> /\ m.rows.read_account[a] # None /\ Linked(m.rows, "account_id", a) = {}
                /\ ~(tool = "read_account" /\ a = id)
      BY <1>6, <1>7
    <3> QED  BY <3>1, AnchorsAre
  <2>3. \A o : <<"return", o>> \in Groups(e)
                 <=> <<"return", o>> \in Groups(m) /\ ~(tool = "read_return" /\ o = id)
    <3>1. \A o \in Orders :
            (e.rows.read_return[o] # None /\ Linked(e.rows, "order_id", o) = {})
            <=> /\ m.rows.read_return[o] # None /\ Linked(m.rows, "order_id", o) = {}
                /\ ~(tool = "read_return" /\ o = id)
      BY <1>6, <1>7
    <3> QED  BY <3>1, AnchorsAre
  <2>4. \A h \in Groups(e) \cup Groups(m) :
          \E x : h \in {<<"invoice", x>>, <<"account", x>>, <<"return", x>>}
    BY DEF Groups
  <2>5. /\ \A d : <<"invoice", d>> # g
        /\ \A a : <<"account", a>> = g <=> tool = "read_account" /\ a = id
        /\ \A o : <<"return", o>> = g <=> tool = "read_return" /\ o = id
    BY <1>0 DEF KindOf
  <2> HIDE DEF g
  <2> QED  BY <2>1, <2>2, <2>3, <2>4, <2>5
<1>10. ASSUME NEW h \in Groups(e)  PROVE Record(e, h) = Record(m, h)
  <2>0. h \in Components
    BY GroupsTyped
  <2>1. CASE h \in {"invoice"} \X Cases
    <3>1. PICK d \in Cases : h = <<"invoice", d>>
      BY <2>1
    <3>2. ASSUME m.rows.read_invoice[d] # None, m.rows.read_invoice[d].account_id # None
          PROVE  e.rows.read_account[m.rows.read_invoice[d].account_id]
                   = m.rows.read_account[m.rows.read_invoice[d].account_id]
      <4>1. m.rows.read_invoice[d].account_id \in Accounts
        BY <3>2, LinksTyped
      <4>2. d \in Linked(m.rows, "account_id", m.rows.read_invoice[d].account_id)
        BY <3>2 DEF Linked
      <4>3. ~(tool = "read_account" /\ m.rows.read_invoice[d].account_id = id)
        BY <4>2 DEF Loose
      <4> QED  BY <1>6, <4>1, <4>3
    <3>3. ASSUME m.rows.read_invoice[d] # None, m.rows.read_invoice[d].order_id # None
          PROVE  e.rows.read_return[m.rows.read_invoice[d].order_id]
                   = m.rows.read_return[m.rows.read_invoice[d].order_id]
      <4>1. m.rows.read_invoice[d].order_id \in Orders
        BY <3>3, LinksTyped
      <4>2. d \in Linked(m.rows, "order_id", m.rows.read_invoice[d].order_id)
        BY <3>3 DEF Linked
      <4>3. ~(tool = "read_return" /\ m.rows.read_invoice[d].order_id = id)
        BY <4>2 DEF Loose
      <4> QED  BY <1>6, <4>1, <4>3
    <3>4. h[1] = "invoice" /\ h[2] = d
      BY <3>1
    <3>5. Alike(m, e, h)
      BY <1>3, <1>6, <3>2, <3>3, <3>4 DEF Alike
    <3> QED  BY <2>0, <3>5, RecordSame
  <2>2. CASE h \in {"account"} \X Accounts
    <3>1. PICK a \in Accounts : h = <<"account", a>>
      BY <2>2
    <3>2. e.rows.read_account[a] # None
      BY <1>10, <3>1, AnchorsAre
    <3>3. h[1] = "account" /\ h[2] = a /\ e.rows.read_account[a] = m.rows.read_account[a]
      BY <1>6, <3>1, <3>2
    <3>4. Alike(m, e, h)
      BY <3>3 DEF Alike
    <3> QED  BY <2>0, <3>4, RecordSame
  <2>3. CASE h \in {"return"} \X Orders
    <3>1. PICK o \in Orders : h = <<"return", o>>
      BY <2>3
    <3>2. e.rows.read_return[o] # None
      BY <1>10, <3>1, AnchorsAre
    <3>3. h[1] = "return" /\ h[2] = o /\ e.rows.read_return[o] = m.rows.read_return[o]
      BY <1>6, <3>1, <3>2
    <3>4. Alike(m, e, h)
      BY <3>3 DEF Alike
    <3> QED  BY <2>0, <3>4, RecordSame
  <2> QED  BY <2>0, <2>1, <2>2, <2>3 DEF Components
<1>11. Gone(m, g, e)
  <2> HIDE DEF g
  <2> QED  BY <1>4, <1>5, <1>9, <1>10 DEF Gone
<1> QED  BY <1>11 DEF e

\* Evicting the oldest component takes it from the front and leaves the rest.
LEMMA EvictIs ==
  ASSUME NEW m, Ordered(m), m.order # <<>>
  PROVE  LET g == Head(m.order)
             e == EvictOldest(m)
         IN /\ Ordered(e) /\ e.order = Tail(m.order)
            /\ Fewer(m, e)
            /\ \A h \in Groups(e) : Record(e, h) = Record(m, h)
<1> DEFINE g == Head(m.order)
<1>1. /\ m.order \in Seq(Components) /\ IsInjective(m.order)
      /\ g \in Groups(m) /\ g \in Components /\ m.order[1] = g /\ Len(m.order) >= 1
  <2>1. m.order \in Seq(Components) /\ IsInjective(m.order) /\ Range(m.order) = Groups(m)
    BY DEF Ordered, IsMemory
  <2>2. Len(m.order) >= 1 /\ m.order[1] = g /\ g \in Components
    BY <2>1
  <2>3. g \in Range(m.order)
    BY <2>1, <2>2 DEF Range
  <2> QED  BY <2>1, <2>2, <2>3
<1> HIDE DEF g
<1>2. ASSUME NEW e, Gone(m, g, e), EvictOldest(m) = SyncOrder(e)
      PROVE  /\ Ordered(EvictOldest(m)) /\ EvictOldest(m).order = Tail(m.order)
             /\ Fewer(m, EvictOldest(m))
             /\ \A h \in Groups(EvictOldest(m)) : Record(EvictOldest(m), h) = Record(m, h)
  <2> DEFINE n == SyncOrder(e)
  <2>1. IsMemory(e) /\ e.order = m.order /\ Groups(e) = Groups(m) \ {g}
    BY <1>2 DEF Gone
  <2>2. Ordered(n) /\ SameFacts(e, n)
    BY <2>1, SyncIs
  <2>3. n.order = Newcomers(e) \o Among(m.order, Groups(e))
    <3>1. SyncOrder(e) = [e EXCEPT !.order = Newcomers(e) \o Among(e.order, Groups(e))]
      BY <2>1, SyncIs
    <3>2. [e EXCEPT !.order = Newcomers(e) \o Among(e.order, Groups(e))].order
            = Newcomers(e) \o Among(e.order, Groups(e))
      BY <2>1, ReorderIs
    <3> QED  BY <2>1, <3>1, <3>2, Zenon
  <2> HIDE DEF n
  <2>4. Newcomers(e) = <<>>
    <3> DEFINE new == Newcomers(e)
    <3>1. new \in Seq(Components) /\ Range(new) = {}
      BY <2>1, NewcomersAre DEF Ordered
    <3> HIDE DEF new
    <3>2. \A i \in 1..Len(new) : new[i] \in Range(new)
      BY <3>1 DEF Range
    <3>3. Len(new) = 0
      BY <3>1, <3>2
    <3> QED  BY <3>1, <3>3 DEF new
  <2>5. Among(m.order, Groups(e)) = Tail(m.order)
    <3>1. \A i \in 1..1 : m.order[i] \notin Groups(e)
      BY <1>1, <2>1
    <3>2. \A i \in (1 + 1)..Len(m.order) : m.order[i] \in Groups(e)
      <4> SUFFICES ASSUME NEW i \in (1 + 1)..Len(m.order)  PROVE m.order[i] \in Groups(e)
        OBVIOUS
      <4>1. m.order[i] # g
        BY <1>1 DEF IsInjective
      <4>2. m.order[i] \in Range(m.order)
        BY <1>1 DEF Range
      <4> QED  BY <2>1, <4>1, <4>2 DEF Ordered
    <3>3. Among(m.order, Groups(e)) = SubSeq(m.order, 1 + 1, Len(m.order))
      BY <1>1, <3>1, <3>2, AmongLast
    <3> QED  BY <1>1, <3>3
  <2>6. n.order = Tail(m.order)
    BY <1>1, <2>3, <2>4, <2>5
  <2>7. Fewer(m, n)
    BY <1>2, <2>2 DEF Gone, Fewer, SameFacts
  <2>8. ASSUME NEW h \in Groups(n)  PROVE Record(n, h) = Record(m, h)
    <3>1. h \in Groups(e) /\ h \in Components
      BY <2>2, SameGroups, GroupsTyped DEF SameFacts
    <3>2. Alike(e, n, h)
      BY <2>2 DEF SameFacts, Alike
    <3>3. Record(n, h) = Record(e, h)
      BY <3>1, <3>2, RecordSame
    <3> QED  BY <1>2, <3>1, <3>3 DEF Gone
  <2> QED  BY <1>2, <2>2, <2>6, <2>7, <2>8 DEF n
<1>3. CASE g \in {"invoice"} \X Cases
  <2>1. PICK c \in Cases : g = <<"invoice", c>>
    BY <1>3
  <2>2. EvictOldest(m) = SyncOrder(EvictInvoice(m, c))
    <3>1. g[1] = "invoice" /\ g[2] = c
      BY <2>1
    <3> QED  BY <3>1, Zenon DEF EvictOldest, g
  <2>3. Gone(m, g, EvictInvoice(m, c))
    BY <2>1, EvictInvoiceIs, InvoiceIsGone DEF Ordered
  <2> QED  BY <1>2, <2>2, <2>3 DEF g
<1>4. CASE g \in {"account"} \X Accounts
  <2>1. PICK a \in Accounts : g = <<"account", a>>
    BY <1>4
  <2>2. g[1] = "account" /\ g[2] = a
    BY <2>1
  <2>3. EvictOldest(m) = SyncOrder([m EXCEPT !.rows.read_account[a] = None])
    BY <2>2 DEF EvictOldest, g
  <2>4. [m EXCEPT !.rows.read_account[a] = None]
          = [m EXCEPT !.rows = Replace(@, "read_account", a, None)]
    BY DEF Replace
  <2>5. Gone(m, g, [m EXCEPT !.rows = Replace(@, "read_account", a, None)])
    <3>1. Loose(m, "read_account", a) /\ g = <<KindOf("read_account"), a>>
      BY <1>1, <2>1, AnchorsAre DEF Loose, KindOf
    <3>2. Gone(m, <<KindOf("read_account"), a>>,
               [m EXCEPT !.rows = Replace(@, "read_account", a, None)])
      BY <3>1, RowIsGone DEF Ordered
    <3> QED  BY <3>1, <3>2, Zenon
  <2>6. Gone(m, g, [m EXCEPT !.rows.read_account[a] = None])
    BY <2>4, <2>5, Zenon
  <2> QED  BY <1>2, <2>3, <2>6 DEF g
<1>5. CASE g \in {"return"} \X Orders
  <2>1. PICK o \in Orders : g = <<"return", o>>
    BY <1>5
  <2>2. g[1] = "return" /\ g[2] = o
    BY <2>1
  <2>3. EvictOldest(m) = SyncOrder([m EXCEPT !.rows.read_return[o] = None])
    BY <2>2 DEF EvictOldest, g
  <2>4. [m EXCEPT !.rows.read_return[o] = None]
          = [m EXCEPT !.rows = Replace(@, "read_return", o, None)]
    BY DEF Replace
  <2>5. Gone(m, g, [m EXCEPT !.rows = Replace(@, "read_return", o, None)])
    <3>1. Loose(m, "read_return", o) /\ g = <<KindOf("read_return"), o>>
      BY <1>1, <2>1, AnchorsAre DEF Loose, KindOf
    <3>2. Gone(m, <<KindOf("read_return"), o>>,
               [m EXCEPT !.rows = Replace(@, "read_return", o, None)])
      BY <3>1, RowIsGone DEF Ordered
    <3> QED  BY <3>1, <3>2, Zenon
  <2>6. Gone(m, g, [m EXCEPT !.rows.read_return[o] = None])
    BY <2>4, <2>5, Zenon
  <2> QED  BY <1>2, <2>3, <2>6 DEF g
<1> QED  BY <1>1, <1>3, <1>4, <1>5 DEF Components, g

\* Any component may be moved to the front.
LEMMA PromotedIs ==
  ASSUME NEW m, Ordered(m), NEW g \in Groups(m)
  PROVE  LET n == Promoted(m, g)
         IN /\ Ordered(n) /\ SameFacts(m, n)
            /\ n.order = <<g>> \o Among(m.order, Components \ {g})
            /\ n.order # <<>> /\ Tail(n.order) = Among(m.order, Components \ {g})
<1> DEFINE rest == Among(m.order, Components \ {g})
           order == <<g>> \o rest
           n == Promoted(m, g)
<1>1. n = [m EXCEPT !.order = order]
  BY Zenon DEF Promoted
<1>2. /\ IsMemory(m) /\ m.order \in Seq(Components) /\ IsInjective(m.order)
      /\ Range(m.order) = Groups(m) /\ g \in Components
  BY GroupsTyped DEF Ordered, IsMemory
<1>3. rest \in Seq(Components) /\ Range(rest) = Groups(m) \ {g} /\ IsInjective(rest)
  <2>1. Groups(m) \cap (Components \ {g}) = Groups(m) \ {g}
    BY GroupsTyped
  <2> QED  BY <1>2, <2>1, AmongPicks, AmongRange, AmongInjective
<1> HIDE DEF rest, n
<1>4. /\ <<g>> \in Seq(Components) /\ IsInjective(<<g>>) /\ Range(<<g>>) = {g}
  BY <1>2 DEF IsInjective, Range
<1>5. order \in Seq(Components) /\ Range(order) = {g} \cup Range(rest)
  <2> DEFINE one == <<g>>
  <2>1. one \in Seq(Components) /\ Range(one) = {g}
    BY <1>4
  <2> HIDE DEF one
  <2>2. one \o rest \in Seq(Components) /\ Range(one \o rest) = Range(one) \cup Range(rest)
    BY <1>3, <2>1, ConcatProperties, RangeConcatenation
  <2> QED  BY <2>1, <2>2 DEF one
<1>6. IsInjective(order)
  <2>1. Range(<<g>>) \cap Range(rest) = {}
    BY <1>3, <1>4
  <2> QED  BY <1>3, <1>4, <2>1, JoinInjective
<1>7. Range(order) = Groups(m) /\ order # <<>> /\ Tail(order) = rest
  <2>1. Range(order) = Groups(m)
    BY <1>3, <1>5
  <2>2. Len(order) = 1 + Len(rest) /\ \A i \in 1..Len(rest) : order[i + 1] = rest[i]
    BY <1>3, <1>4
  <2>3. order # <<>>
    BY <1>3, <2>2
  <2>4. Tail(order) = rest
    BY <1>3, <1>5, <2>2
  <2> QED  BY <2>1, <2>3, <2>4
<1> HIDE DEF order
<1>8. IsMemory(n) /\ n.order = order /\ SameFacts(m, n)
  BY <1>1, <1>2, <1>5, <1>6, ReorderIs
<1>9. Groups(n) = Groups(m)
  BY <1>8, SameGroups DEF SameFacts
<1>10. Ordered(n)
  BY <1>7, <1>8, <1>9 DEF Ordered
<1> QED  BY <1>7, <1>8, <1>10 DEF n, order, rest

LEMMA OrderedEvicts ==
  ASSUME NEW m, Ordered(m), NEW g \in Groups(m)
  PROVE  LET after == EvictOldest(Promoted(m, g))
         IN /\ Ordered(after) /\ Fewer(m, after)
            /\ after.order = Among(m.order, Components \ {g})
            /\ \A h \in Groups(after) : Record(after, h) = Record(m, h)
<1> DEFINE n == Promoted(m, g)
           after == EvictOldest(n)
<1>1. /\ Ordered(n) /\ SameFacts(m, n) /\ n.order # <<>>
      /\ Tail(n.order) = Among(m.order, Components \ {g})
  BY PromotedIs
<1> HIDE DEF n
<1>2. /\ Ordered(after) /\ after.order = Tail(n.order) /\ Fewer(n, after)
      /\ \A h \in Groups(after) : Record(after, h) = Record(n, h)
  BY <1>1, EvictIs
<1> HIDE DEF after
<1>3. Fewer(m, after)
  BY <1>1, <1>2 DEF Fewer, SameFacts
<1>4. ASSUME NEW h \in Groups(after)  PROVE Record(after, h) = Record(m, h)
  <2>1. h \in Components
    BY GroupsTyped
  <2>2. Alike(m, n, h)
    BY <1>1 DEF SameFacts, Alike
  <2>3. Record(n, h) = Record(m, h)
    BY <2>1, <2>2, RecordSame
  <2> QED  BY <1>2, <1>4, <2>3
<1> QED  BY <1>1, <1>2, <1>3, <1>4 DEF after, n

-----------------------------------------------------------------------------
(* The default policy *)

Plus(a, b) == a + b
AnyOf(S) == CHOOSE x \in S : TRUE
Sums == INSTANCE FoldLemmas WITH op <- Plus, pick <- AnyOf

LEMMA FeaturesFinite ==
  IsFiniteSet(Features)
<1>1. \A T, f : IsFiniteSet(T) => IsFiniteSet(T \cup {f})
  BY FS_AddElement
<1>2. IsFiniteSet((({"invoice"} \cup {"account"}) \cup {"payment"}) \cup {"return"})
  BY <1>1, FS_Singleton
<1>3. IsFiniteSet((((({"invoice"} \cup {"account"}) \cup {"payment"}) \cup {"return"})
                  \cup {"booked"}) \cup {"incomplete"})
  BY <1>1, <1>2
<1>4. Features = (((({"invoice"} \cup {"account"}) \cup {"payment"}) \cup {"return"})
                 \cup {"booked"}) \cup {"incomplete"}
  BY DEF Features
<1> QED  BY <1>3, <1>4

\* Without weights every component has the same score.
LEMMA ZeroScore ==
  ASSUME NEW m, NEW g
  PROVE  Score(m, ZeroWeights, g) = 0
<1> DEFINE S == {f \in Features : FeaturesOf(m, g)[f]}
<1>1. S \subseteq Features /\ IsFiniteSet(Features)
  BY FeaturesFinite
<1>2. IsFiniteSet(S) /\ Sums!Picks(S)
  BY <1>1, FS_Subset DEF Sums!Picks, AnyOf
<1>3. Score(m, ZeroWeights, g) = Sums!Fold(ZeroWeights, 0, S)
  BY DEF Score, FoldFunctionOnSet, MapThenFoldSet, Sums!Fold, Sums!Solves, Sums!Step, Plus, AnyOf
<1> HIDE DEF S
<1>4. \A f \in S : ZeroWeights[f] \in {0}
  BY <1>1 DEF ZeroWeights
<1>5. \A a \in {0}, b \in {0} : Plus(a, b) \in {0}
  BY DEF Plus
<1>6. Sums!Fold(ZeroWeights, 0, S) \in {0}
  <2>1. Sums!IsFiniteSet(S)
    BY <1>2 DEF Sums!IsFiniteSet, IsFiniteSet
  <2>2. 0 \in {0}
    OBVIOUS
  <2> DEFINE Zero == {0}
  <2> HIDE DEF Zero
  <2> QED  BY <1>2, <1>4, <1>5, <2>1, <2>2, Sums!FoldTyped DEF Zero
<1> QED  BY <1>3, <1>6

LEMMA ZeroVictim ==
  ASSUME NEW m, IsMemory(m), m.order # <<>>
  PROVE  Victim(m, ZeroWeights) = Head(m.order)
<1> DEFINE n == Len(m.order)
           score == [i \in DOMAIN m.order |-> Score(m, ZeroWeights, m.order[i])]
           I == {j \in 1..Len(score) : \A i \in DOMAIN score : score[j] <= score[i]}
<1>1. m.order \in Seq(Components) /\ n \in Nat /\ n >= 1 /\ DOMAIN m.order = 1..n
  BY DEF IsMemory
<1>2. score = [i \in 1..n |-> 0]
  <2> HIDE DEF n
  <2> QED  BY <1>1, ZeroScore
<1>3. Victim(m, ZeroWeights) = m.order[IF I # {} THEN Min(I) ELSE 0]
  BY Zenon DEF Victim, SelectInSeq
<1> HIDE DEF score, n
<1>4. Len(score) = n /\ DOMAIN score = 1..n /\ \A i \in 1..n : score[i] = 0
  BY <1>1, <1>2
<1>5. I = 1..n
  BY <1>1, <1>4
<1> HIDE DEF I
<1>6. 1 \in I /\ \A y \in I : 1 <= y
  BY <1>1, <1>5
<1>7. \A x \in I : (\A y \in I : x <= y) => x = 1
  BY <1>1, <1>5
<1>8. Min(I) = 1
  BY <1>6, <1>7 DEF Min
<1> QED  BY <1>1, <1>3, <1>6, <1>8

LEMMA ZeroIsOldest ==
  ASSUME NEW m, IsMemory(m), m.order # <<>>
  PROVE  EvictRanked(m, ZeroWeights) = EvictOldest(m)
<1>1. m.order \in Seq(Components) /\ IsInjective(m.order)
  BY DEF IsMemory
<1>2. <<Head(m.order)>> \o Among(m.order, Components \ {Head(m.order)}) = m.order
  BY <1>1, AmongTail
<1>3. Promoted(m, Head(m.order)) = [m EXCEPT !.order = m.order]
  BY <1>2, Zenon DEF Promoted
<1>4. [m EXCEPT !.order = m.order] = m
  BY DEF IsMemory
<1>5. Promoted(m, Victim(m, ZeroWeights)) = m
  BY <1>3, <1>4, ZeroVictim, Zenon
<1> QED  BY <1>5, Zenon DEF EvictRanked

-----------------------------------------------------------------------------
(* Reading a text back *)

LEMMA RecordFields ==
  ASSUME NEW m, NEW g
  PROVE  LET r == Record(m, g)
         IN /\ r.component = g /\ r.invoice = InvoiceShown(m, g)
            /\ r.account = AccountShown(m, g) /\ r.returned = ReturnShown(m, g)
            /\ r.payment = PaymentShown(m, g) /\ r.booked = BookedShown(m, g)
BY RecordIs

LEMMA DumpRange ==
  ASSUME NEW m, Ordered(m)
  PROVE  Range(DumpRecords(m)) = {Record(m, g) : g \in Groups(m)}
<1>1. DOMAIN DumpRecords(m) = DOMAIN m.order
      /\ \A i \in DOMAIN m.order : DumpRecords(m)[i] = Record(m, m.order[i])
  BY DEF DumpRecords
<1>2. Groups(m) = {m.order[i] : i \in DOMAIN m.order}
  BY DEF Ordered, Range
<1> QED  BY <1>1, <1>2 DEF Range

RecordsOf(records, c) == {r \in Range(records) : r.component = <<"invoice", c>>}

LEMMA RecordsOfIs ==
  ASSUME NEW m, Ordered(m), NEW c \in Cases
  PROVE  RecordsOf(DumpRecords(m), c)
           = IF Anchored(m, c) THEN {Record(m, <<"invoice", c>>)} ELSE {}
<1> DEFINE g == <<"invoice", c>>
<1>1. g \in Groups(m) <=> Anchored(m, c)
  BY AnchorsAre
<1>2. \A h : Record(m, h).component = h
  BY RecordFields
<1> HIDE DEF g
<1>3. \A r : r \in RecordsOf(DumpRecords(m), c) <=> r = Record(m, g) /\ g \in Groups(m)
  BY <1>2, DumpRange DEF RecordsOf, g
<1> QED  BY <1>1, <1>3 DEF g

\* What the records of a case tell is what the memory has of it.
LEMMA CaseIsTold ==
  ASSUME NEW m, Ordered(m), NEW c \in Cases
  PROVE  LET S == RecordsOf(DumpRecords(m), c)
         IN /\ TheOne({r.invoice : r \in S}, None) = m.rows.read_invoice[c]
            /\ TheOne({r.payment : r \in S}, None) = m.rows.read_payment[c]
            /\ \A operation \in Operations :
                 TheOne({r.booked[operation] : r \in S}, 0) = m.booked[<<c, operation>>]
<1> DEFINE g == <<"invoice", c>>
           S == RecordsOf(DumpRecords(m), c)
<1>1. /\ Record(m, g).invoice = m.rows.read_invoice[c]
      /\ Record(m, g).payment = m.rows.read_payment[c]
      /\ \A operation \in Operations :
           Record(m, g).booked[operation] = m.booked[<<c, operation>>]
  <2>1. g[1] = "invoice" /\ g[2] = c
    OBVIOUS
  <2> HIDE DEF g
  <2>2. /\ Record(m, g).invoice = InvoiceShown(m, g) /\ Record(m, g).payment = PaymentShown(m, g)
        /\ Record(m, g).booked = BookedShown(m, g)
    BY RecordFields
  <2>3. /\ InvoiceShown(m, g) = m.rows.read_invoice[c]
        /\ PaymentShown(m, g) = m.rows.read_payment[c]
        /\ \A operation \in Operations :
             BookedShown(m, g)[operation] = m.booked[<<c, operation>>]
    BY <2>1 DEF InvoiceShown, PaymentShown, BookedShown
  <2> QED  BY <2>2, <2>3
<1>2. S = IF Anchored(m, c) THEN {Record(m, g)} ELSE {}
  BY RecordsOfIs
<1>3. \A x, d : TheOne({x}, d) = x /\ TheOne({}, d) = d
  BY DEF TheOne
<1> HIDE DEF g, S
<1>4. CASE Anchored(m, c)
  <2>1. /\ {r.invoice : r \in S} = {m.rows.read_invoice[c]}
        /\ {r.payment : r \in S} = {m.rows.read_payment[c]}
        /\ \A operation \in Operations :
             {r.booked[operation] : r \in S} = {m.booked[<<c, operation>>]}
    BY <1>1, <1>2, <1>4
  <2> QED  BY <1>3, <2>1 DEF S
<1>5. CASE ~Anchored(m, c)
  <2>1. /\ {r.invoice : r \in S} = {} /\ {r.payment : r \in S} = {}
        /\ \A operation \in Operations : {r.booked[operation] : r \in S} = {}
    BY <1>2, <1>5
  <2>2. m.rows.read_invoice[c] = None /\ m.rows.read_payment[c] = None
    BY <1>5 DEF Anchored
  <2>3. \A operation \in Operations : m.booked[<<c, operation>>] = 0
    <3>1. \A k \in Keys : m.booked[k] \in 0..MaxCents
      BY DEF Ordered, IsMemory, Facts
    <3>2. \A operation \in Operations : ~(m.booked[<<c, operation>>] > 0)
      BY <1>5 DEF Anchored
    <3> QED  BY <3>1, <3>2 DEF Keys
  <2> QED  BY <1>3, <2>1, <2>2, <2>3 DEF S
<1> QED  BY <1>4, <1>5

AccountsTold(records, a) ==
  {r.account : r \in Showing(records, "account", "account_id", a)} \ {None}
ReturnsTold(records, o) ==
  {r.returned : r \in Showing(records, "return", "order_id", o)} \ {None}

\* A row that is shared is told by every invoice that links to it, the same.
LEMMA AccountIsTold ==
  ASSUME NEW m, Ordered(m), NEW a \in Accounts
  PROVE  AccountsTold(DumpRecords(m), a) = {m.rows.read_account[a]} \ {None}
<1> DEFINE records == DumpRecords(m)
           row == m.rows.read_account[a]
           Tellers == Showing(records, "account", "account_id", a)
<1>1. \A r : r \in Range(records) <=> \E g \in Groups(m) : r = Record(m, g)
  BY DumpRange
<1>2. \A r : r \in Tellers <=>
        \E g \in Groups(m) : r = Record(m, g) /\
          \/ g = <<"account", a>>
          \/ g[1] = "invoice" /\ InvoiceShown(m, g) # None /\ InvoiceShown(m, g).account_id = a
  <2>1. \A g : Record(m, g).component = g /\ Record(m, g).invoice = InvoiceShown(m, g)
    BY RecordFields
  <2> HIDE DEF records
  <2>2. \A r : r \in Tellers <=> r \in Range(records) /\
          \/ r.component = <<"account", a>>
          \/ r.component[1] = "invoice" /\ r.invoice # None /\ r.invoice.account_id = a
    BY Zenon DEF Showing
  <2> HIDE DEF Tellers
  <2>3. ASSUME NEW r, NEW g \in Groups(m), r = Record(m, g)
        PROVE  r \in Tellers <=>
          \/ g = <<"account", a>>
          \/ g[1] = "invoice" /\ InvoiceShown(m, g) # None /\ InvoiceShown(m, g).account_id = a
    <3>1. r \in Range(records) /\ r.component = g /\ r.invoice = InvoiceShown(m, g)
      BY <1>1, <2>1, <2>3
    <3> QED  BY <2>2, <3>1, Zenon
  <2>4. \A r \in Tellers : \E g \in Groups(m) : r = Record(m, g)
    BY <1>1, <2>2, Zenon
  <2> QED  BY <2>3, <2>4, Zenon
<1> HIDE DEF Tellers
<1>3. ASSUME NEW r \in Tellers  PROVE r.account = row
  <2>1. PICK g \in Groups(m) : r = Record(m, g) /\
          \/ g = <<"account", a>>
          \/ g[1] = "invoice" /\ InvoiceShown(m, g) # None /\ InvoiceShown(m, g).account_id = a
    BY <1>2
  <2>2. r.account = AccountShown(m, g)
    BY <2>1, RecordFields
  <2>3. CASE g = <<"account", a>>
    <3>1. g[1] = "account" /\ g[2] = a
      BY <2>3
    <3>2. InvoiceShown(m, g) = None
      BY <3>1 DEF InvoiceShown
    <3> QED  BY <2>2, <3>1, <3>2 DEF AccountShown
  <2>4. CASE g[1] = "invoice" /\ InvoiceShown(m, g) # None /\ InvoiceShown(m, g).account_id = a
    <3>1. a # None
      OBVIOUS
    <3> QED  BY <2>2, <2>4, <3>1 DEF AccountShown
  <2> QED  BY <2>1, <2>3, <2>4
<1>4. ASSUME row # None  PROVE Tellers # {}
  <2>1. CASE Linked(m.rows, "account_id", a) = {}
    <3>1. <<"account", a>> \in Groups(m)
      BY <1>4, <2>1, AnchorsAre
    <3> QED  BY <1>2, <3>1
  <2>2. CASE Linked(m.rows, "account_id", a) # {}
    <3>1. PICK c \in Cases : m.rows.read_invoice[c] # None
                             /\ m.rows.read_invoice[c].account_id = a
      BY <2>2 DEF Linked
    <3> DEFINE g == <<"invoice", c>>
    <3>2. g \in Groups(m)
      BY <3>1, AnchorsAre DEF Anchored
    <3>3. g[1] = "invoice" /\ InvoiceShown(m, g) = m.rows.read_invoice[c]
      BY DEF InvoiceShown
    <3> HIDE DEF g
    <3>4. Record(m, g) \in Tellers
      BY <1>2, <3>1, <3>2, <3>3
    <3> QED  BY <3>4
  <2> QED  BY <2>1, <2>2
<1>5. {r.account : r \in Tellers} \ {None} = {row} \ {None}
  <2>1. CASE row = None
    BY <1>3, <2>1
  <2>2. CASE row # None
    <3>1. PICK r \in Tellers : TRUE
      BY <1>4, <2>2
    <3>2. {q.account : q \in Tellers} = {row}
      BY <1>3, <3>1
    <3> QED  BY <3>2
  <2> QED  BY <2>1, <2>2
<1> QED  BY <1>5 DEF AccountsTold, Tellers

LEMMA ReturnIsTold ==
  ASSUME NEW m, Ordered(m), NEW o \in Orders
  PROVE  ReturnsTold(DumpRecords(m), o) = {m.rows.read_return[o]} \ {None}
<1> DEFINE records == DumpRecords(m)
           row == m.rows.read_return[o]
           Tellers == Showing(records, "return", "order_id", o)
<1>1. \A r : r \in Range(records) <=> \E g \in Groups(m) : r = Record(m, g)
  BY DumpRange
<1>2. \A r : r \in Tellers <=>
        \E g \in Groups(m) : r = Record(m, g) /\
          \/ g = <<"return", o>>
          \/ g[1] = "invoice" /\ InvoiceShown(m, g) # None /\ InvoiceShown(m, g).order_id = o
  <2>1. \A g : Record(m, g).component = g /\ Record(m, g).invoice = InvoiceShown(m, g)
    BY RecordFields
  <2> HIDE DEF records
  <2>2. \A r : r \in Tellers <=> r \in Range(records) /\
          \/ r.component = <<"return", o>>
          \/ r.component[1] = "invoice" /\ r.invoice # None /\ r.invoice.order_id = o
    BY Zenon DEF Showing
  <2> HIDE DEF Tellers
  <2>3. ASSUME NEW r, NEW g \in Groups(m), r = Record(m, g)
        PROVE  r \in Tellers <=>
          \/ g = <<"return", o>>
          \/ g[1] = "invoice" /\ InvoiceShown(m, g) # None /\ InvoiceShown(m, g).order_id = o
    <3>1. r \in Range(records) /\ r.component = g /\ r.invoice = InvoiceShown(m, g)
      BY <1>1, <2>1, <2>3
    <3> QED  BY <2>2, <3>1, Zenon
  <2>4. \A r \in Tellers : \E g \in Groups(m) : r = Record(m, g)
    BY <1>1, <2>2, Zenon
  <2> QED  BY <2>3, <2>4, Zenon
<1> HIDE DEF Tellers
<1>3. ASSUME NEW r \in Tellers  PROVE r.returned = row
  <2>1. PICK g \in Groups(m) : r = Record(m, g) /\
          \/ g = <<"return", o>>
          \/ g[1] = "invoice" /\ InvoiceShown(m, g) # None /\ InvoiceShown(m, g).order_id = o
    BY <1>2
  <2>2. r.returned = ReturnShown(m, g)
    BY <2>1, RecordFields
  <2>3. CASE g = <<"return", o>>
    <3>1. g[1] = "return" /\ g[2] = o
      BY <2>3
    <3>2. InvoiceShown(m, g) = None
      BY <3>1 DEF InvoiceShown
    <3> QED  BY <2>2, <3>1, <3>2 DEF ReturnShown
  <2>4. CASE g[1] = "invoice" /\ InvoiceShown(m, g) # None /\ InvoiceShown(m, g).order_id = o
    <3>1. o # None
      OBVIOUS
    <3> QED  BY <2>2, <2>4, <3>1 DEF ReturnShown
  <2> QED  BY <2>1, <2>3, <2>4
<1>4. ASSUME row # None  PROVE Tellers # {}
  <2>1. CASE Linked(m.rows, "order_id", o) = {}
    <3>1. <<"return", o>> \in Groups(m)
      BY <1>4, <2>1, AnchorsAre
    <3> QED  BY <1>2, <3>1
  <2>2. CASE Linked(m.rows, "order_id", o) # {}
    <3>1. PICK c \in Cases : m.rows.read_invoice[c] # None
                             /\ m.rows.read_invoice[c].order_id = o
      BY <2>2 DEF Linked
    <3> DEFINE g == <<"invoice", c>>
    <3>2. g \in Groups(m)
      BY <3>1, AnchorsAre DEF Anchored
    <3>3. g[1] = "invoice" /\ InvoiceShown(m, g) = m.rows.read_invoice[c]
      BY DEF InvoiceShown
    <3> HIDE DEF g
    <3>4. Record(m, g) \in Tellers
      BY <1>2, <3>1, <3>2, <3>3
    <3> QED  BY <3>4
  <2> QED  BY <2>1, <2>2
<1>5. {r.returned : r \in Tellers} \ {None} = {row} \ {None}
  <2>1. CASE row = None
    BY <1>3, <2>1
  <2>2. CASE row # None
    <3>1. PICK r \in Tellers : TRUE
      BY <1>4, <2>2
    <3>2. {q.returned : q \in Tellers} = {row}
      BY <1>3, <3>1
    <3> QED  BY <3>2
  <2> QED  BY <2>1, <2>2
<1> QED  BY <1>5 DEF ReturnsTold, Tellers

LEMMA OneRow ==
  ASSUME NEW x
  PROVE  Cardinality({x} \ {None}) <= 1 /\ TheOne({x} \ {None}, None) = x
<1>1. CASE x = None
  <2>1. {x} \ {None} = {}
    BY <1>1
  <2> QED  BY <1>1, <2>1, FS_EmptySet DEF TheOne
<1>2. CASE x # None
  <2>1. {x} \ {None} = {x}
    BY <1>2
  <2>2. Cardinality({x}) = 1
    BY FS_Singleton
  <2>3. TheOne({x}, None) = x
    BY DEF TheOne
  <2>4. Cardinality({x} \ {None}) = 1 /\ TheOne({x} \ {None}, None) = x
    BY <2>1, <2>2, <2>3, Zenon
  <2> QED  BY <2>4
<1> QED  BY <1>1, <1>2

\* The memory that is read, before it is compared with the text.
ReadBack(records) ==
  [order |-> [i \in DOMAIN records |-> records[i].component],
   rows |-> [read_invoice |-> [c \in Cases |->
               TheOne({r.invoice : r \in RecordsOf(records, c)}, None)],
             read_account |-> [a \in Accounts |-> TheOne(AccountsTold(records, a), None)],
             read_payment |-> [c \in Cases |->
               TheOne({r.payment : r \in RecordsOf(records, c)}, None)],
             read_return |-> [o \in Orders |-> TheOne(ReturnsTold(records, o), None)]],
   booked |-> [k \in Keys |-> TheOne({r.booked[k[2]] : r \in RecordsOf(records, k[1])}, 0)]]

LEMMA LoadIs ==
  ASSUME NEW records
  PROVE  Load(records)
           = IF /\ \A a \in Accounts : Cardinality(AccountsTold(records, a)) <= 1
                /\ \A o \in Orders : Cardinality(ReturnsTold(records, o)) <= 1
                /\ IsInjective(ReadBack(records).order)
                /\ Range(ReadBack(records).order) = Groups(ReadBack(records))
                /\ DumpRecords(ReadBack(records)) = records
             THEN ReadBack(records) ELSE "raises"
BY Zenon DEF Load, ReadBack, RecordsOf, AccountsTold, ReturnsTold

LEMMA ReadsBack ==
  ASSUME NEW m, Ordered(m)
  PROVE  Load(DumpRecords(m)) = m
<1> DEFINE records == DumpRecords(m)
           invoices == [c \in Cases |-> TheOne({r.invoice : r \in RecordsOf(records, c)}, None)]
           accounts == [a \in Accounts |-> TheOne(AccountsTold(records, a), None)]
           payments == [c \in Cases |-> TheOne({r.payment : r \in RecordsOf(records, c)}, None)]
           returns == [o \in Orders |-> TheOne(ReturnsTold(records, o), None)]
           booking == [k \in Keys |->
                         TheOne({r.booked[k[2]] : r \in RecordsOf(records, k[1])}, 0)]
           order == [i \in DOMAIN records |-> records[i].component]
<1>1. IsMemory(m) /\ IsRows(m.rows)
  BY DEF Ordered, IsMemory, Facts
<1>2. invoices = m.rows.read_invoice /\ payments = m.rows.read_payment
  <2>1. /\ m.rows.read_invoice = [c \in Cases |-> m.rows.read_invoice[c]]
        /\ m.rows.read_payment = [c \in Cases |-> m.rows.read_payment[c]]
    BY <1>1 DEF IsRows, Tools, Ids
  <2>2. \A c \in Cases : /\ TheOne({r.invoice : r \in RecordsOf(records, c)}, None)
                              = m.rows.read_invoice[c]
                         /\ TheOne({r.payment : r \in RecordsOf(records, c)}, None)
                              = m.rows.read_payment[c]
    BY CaseIsTold
  <2> HIDE DEF records
  <2> QED  BY <2>1, <2>2
<1>3. accounts = m.rows.read_account /\ returns = m.rows.read_return
  <2>1. /\ m.rows.read_account = [a \in Accounts |-> m.rows.read_account[a]]
        /\ m.rows.read_return = [o \in Orders |-> m.rows.read_return[o]]
    BY <1>1 DEF IsRows, Tools, Ids
  <2>2. \A a \in Accounts : TheOne(AccountsTold(records, a), None) = m.rows.read_account[a]
    BY AccountIsTold, OneRow
  <2>3. \A o \in Orders : TheOne(ReturnsTold(records, o), None) = m.rows.read_return[o]
    BY ReturnIsTold, OneRow
  <2> HIDE DEF records
  <2> QED  BY <2>1, <2>2, <2>3
<1>4. booking = m.booked
  <2>1. m.booked = [k \in Keys |-> m.booked[k]]
    BY <1>1 DEF IsMemory, Facts
  <2>2. ASSUME NEW k \in Keys
        PROVE  TheOne({r.booked[k[2]] : r \in RecordsOf(records, k[1])}, 0) = m.booked[k]
    <3>1. k[1] \in Cases /\ k[2] \in Operations /\ k = <<k[1], k[2]>>
      BY DEF Keys
    <3>2. \A c \in Cases : \A operation \in Operations :
            TheOne({r.booked[operation] : r \in RecordsOf(records, c)}, 0)
              = m.booked[<<c, operation>>]
      BY CaseIsTold
    <3> HIDE DEF records
    <3>3. TheOne({r.booked[k[2]] : r \in RecordsOf(records, k[1])}, 0)
            = m.booked[<<k[1], k[2]>>]
      BY <3>1, <3>2
    <3> QED  BY <3>1, <3>3, Zenon
  <2> HIDE DEF records
  <2> QED  BY <2>1, <2>2
<1>5. order = m.order
  <2>1. m.order = [i \in DOMAIN m.order |-> m.order[i]]
    BY <1>1 DEF IsMemory
  <2>2. DOMAIN records = DOMAIN m.order
        /\ \A i \in DOMAIN m.order : records[i] = Record(m, m.order[i])
    BY DEF DumpRecords
  <2>3. \A i \in DOMAIN m.order : records[i].component = m.order[i]
    BY <2>2, RecordFields
  <2> HIDE DEF records
  <2> QED  BY <2>1, <2>2, <2>3
<1>6. m.rows = [read_invoice |-> m.rows.read_invoice, read_account |-> m.rows.read_account,
                read_payment |-> m.rows.read_payment, read_return |-> m.rows.read_return]
  BY <1>1 DEF IsRows, Tools
<1>7. ReadBack(records)
        = [order |-> order,
           rows |-> [read_invoice |-> invoices, read_account |-> accounts,
                     read_payment |-> payments, read_return |-> returns],
           booked |-> booking]
  BY Zenon DEF ReadBack
<1> HIDE DEF records, order, invoices, accounts, payments, returns, booking
<1>8. ReadBack(records) = m
  <2>1. ReadBack(records) = [order |-> m.order, rows |-> m.rows, booked |-> m.booked]
    BY <1>2, <1>3, <1>4, <1>5, <1>6, <1>7, Zenon
  <2> QED  BY <1>1, <2>1 DEF IsMemory
<1>9. /\ \A a \in Accounts : Cardinality(AccountsTold(records, a)) <= 1
      /\ \A o \in Orders : Cardinality(ReturnsTold(records, o)) <= 1
  <2>1. \A a \in Accounts : AccountsTold(records, a) = {m.rows.read_account[a]} \ {None}
    BY AccountIsTold DEF records
  <2>2. \A o \in Orders : ReturnsTold(records, o) = {m.rows.read_return[o]} \ {None}
    BY ReturnIsTold DEF records
  <2>3. \A x : Cardinality({x} \ {None}) <= 1
    BY OneRow
  <2> QED  BY <2>1, <2>2, <2>3, Zenon
<1>10. IsInjective(m.order) /\ Range(m.order) = Groups(m) /\ DumpRecords(m) = records
  BY DEF Ordered, IsMemory, records
<1>11. Load(records) = m
  BY <1>8, <1>9, <1>10, LoadIs, Zenon
<1> QED  BY <1>11 DEF records

-----------------------------------------------------------------------------
(* The ranked victim *)

LEMMA ScoreTyped ==
  ASSUME NEW m, NEW w \in WeightSets, NEW g
  PROVE  Score(m, w, g) \in Int
<1> DEFINE S == {f \in Features : FeaturesOf(m, g)[f]}
<1>1. S \subseteq Features /\ IsFiniteSet(Features)
  BY FeaturesFinite
<1>2. IsFiniteSet(S) /\ Sums!Picks(S)
  BY <1>1, FS_Subset DEF Sums!Picks, AnyOf
<1>3. Score(m, w, g) = Sums!Fold(w, 0, S)
  BY DEF Score, FoldFunctionOnSet, MapThenFoldSet, Sums!Fold, Sums!Solves, Sums!Step, Plus, AnyOf
<1> HIDE DEF S
<1>4. \A f \in S : w[f] \in Int
  BY <1>1
<1>5. \A a \in Int, b \in Int : Plus(a, b) \in Int
  BY DEF Plus
<1>6. Sums!IsFiniteSet(S)
  BY <1>2 DEF Sums!IsFiniteSet, IsFiniteSet
<1>7. 0 \in Int
  OBVIOUS
<1>8. Sums!Fold(w, 0, S) \in Int
  BY <1>2, <1>4, <1>5, <1>6, <1>7, Sums!FoldTyped
<1> QED  BY <1>3, <1>8

\* A list of integers has a lowest one.
LEMMA LowestOf ==
  ASSUME NEW n \in Nat, n >= 1, NEW score, \A i \in 1..n : score[i] \in Int
  PROVE  \E j \in 1..n : \A i \in 1..n : score[j] <= score[i]
<1> DEFINE Good == {k \in 0..n : k = 0 \/ \E j \in 1..k : \A i \in 1..k : score[j] <= score[i]}
<1>1. 0 \in Good
  OBVIOUS
<1>2. ASSUME NEW k \in 1..n, k - 1 \in Good
      PROVE  k \in Good
  <2>1. CASE k = 1
    <3>1. 1 \in 1..k /\ \A i \in 1..k : score[1] <= score[i]
      BY <2>1
    <3> QED  BY <3>1
  <2>2. CASE k # 1
    <3>1. PICK j \in 1..(k - 1) : \A i \in 1..(k - 1) : score[j] <= score[i]
      BY <1>2, <2>2
    <3>2. \A i \in 1..k : i \in 1..(k - 1) \/ i = k
      OBVIOUS
    <3>3. CASE score[j] <= score[k]
      <4>1. j \in 1..k /\ \A i \in 1..k : score[j] <= score[i]
        BY <3>1, <3>2, <3>3
      <4> QED  BY <4>1
    <3>4. CASE ~(score[j] <= score[k])
      <4>1. score[j] \in Int /\ score[k] \in Int
        OBVIOUS
      <4>2. \A i \in 1..(k - 1) : score[k] <= score[i]
        BY <3>1, <3>4, <4>1
      <4>3. k \in 1..k /\ \A i \in 1..k : score[k] <= score[i]
        BY <3>2, <4>1, <4>2
      <4> QED  BY <4>3
    <3> QED  BY <3>3, <3>4
  <2> QED  BY <2>1, <2>2
<1>3. \A k \in 0..n : k \in Good
  <2> HIDE DEF Good
  <2> QED  BY <1>1, <1>2, Filter!StepsInduction
<1>4. n \in Good
  BY <1>3
<1> QED  BY <1>4

LEMMA VictimIs ==
  ASSUME NEW m, Ordered(m), m.order # <<>>, NEW w \in WeightSets
  PROVE  Victim(m, w) \in Groups(m)
<1> DEFINE n == Len(m.order)
           score == [i \in DOMAIN m.order |-> Score(m, w, m.order[i])]
           I == {j \in 1..Len(score) : \A i \in DOMAIN score : score[j] <= score[i]}
<1>1. m.order \in Seq(Components) /\ n \in Nat /\ n >= 1 /\ DOMAIN m.order = 1..n
  BY DEF Ordered, IsMemory
<1>2. \A i \in 1..n : score[i] \in Int
  BY <1>1, ScoreTyped
<1>3. Victim(m, w) = m.order[IF I # {} THEN Min(I) ELSE 0]
  BY Zenon DEF Victim, SelectInSeq
<1>4. Len(score) = n /\ DOMAIN score = 1..n
  BY <1>1
<1> HIDE DEF score, n
<1>5. I # {} /\ I \in SUBSET Nat /\ I \subseteq 1..n
  <2>1. PICK j \in 1..n : \A i \in 1..n : score[j] <= score[i]
    BY <1>1, <1>2, LowestOf
  <2>2. j \in I
    BY <1>4, <2>1
  <2>3. I \subseteq 1..n
    BY <1>4
  <2> HIDE DEF I
  <2> QED  BY <1>1, <2>2, <2>3
<1> HIDE DEF I
<1>6. Min(I) \in I
  <2>1. \E x \in I : \A y \in I : x <= y
    BY <1>5, Filter!LeastOfNaturals
  <2> QED  BY <2>1 DEF Min
<1>7. Victim(m, w) = m.order[Min(I)] /\ Min(I) \in DOMAIN m.order
  BY <1>1, <1>3, <1>5, <1>6
<1> QED  BY <1>7 DEF Ordered, Range

-----------------------------------------------------------------------------
(* The inductive invariant.  Every component of the memory is in its order     *)
(* once, which is all that reading it back needs; what this call observed is   *)
(* behind the rest; and between calls it is the text that holds the memory.    *)

CallTypes ==
  /\ call \in {"none", "ingesting", "fitting"} /\ ingested \in 0..MaxIngest
  /\ weights \in WeightSets

\* What a memory has of an identifier is the newest row and booking of it.
Told(m, known) ==
  /\ \A tool \in Tools : \A id \in Ids(tool) : m.rows[tool][id] \in {None, known.rows[tool][id]}
  /\ \A k \in Keys : m.booked[k] \in {0, known.booked[k]}

IsKnown(known) ==
  /\ known = [rows |-> known.rows, booked |-> known.booked]
  /\ IsRows(known.rows) /\ known.booked = [k \in Keys |-> known.booked[k]]

StateTold == Ordered(state) /\ IsKnown(newest) /\ Told(state, newest)

\* Between calls only the text tells, and it can be read.
TextTold ==
  call = "none" =>
    /\ state = EmptyMemory /\ touched = {}
    /\ Ordered(Load(text)) /\ Told(Load(text), newest)

ObservedBehind ==
  /\ touched \subseteq Components /\ Behind(state.order, touched)
  /\ call = "ingesting" => touched \subseteq Groups(state)

MemoryInv == CallTypes /\ StateTold /\ TextTold /\ ObservedBehind

LEMMA EmptyIsOrdered ==
  /\ Ordered(EmptyMemory) /\ EmptyMemory.order = <<>>
  /\ EmptyMemory.rows = NoRecords /\ EmptyMemory.booked = NoBookings
  /\ IsRows(NoRecords) /\ \A tool \in Tools : \A id \in Ids(tool) : NoRecords[tool][id] = None
<1>1. /\ EmptyMemory.order = <<>>
      /\ EmptyMemory.rows = NoRecords /\ EmptyMemory.booked = NoBookings
      /\ EmptyMemory = [order |-> EmptyMemory.order, rows |-> EmptyMemory.rows,
                        booked |-> EmptyMemory.booked]
  BY DEF EmptyMemory
<1>2. IsRows(NoRecords) /\ \A tool \in Tools : \A id \in Ids(tool) : NoRecords[tool][id] = None
  <2>1. NoRecords = [tool \in Tools |-> NoRecords[tool]]
    BY DEF NoRecords, Tools
  <2>2. ASSUME NEW tool \in Tools  PROVE NoRecords[tool] = [id \in Ids(tool) |-> None]
    BY DEF NoRecords, Tools, Ids
  <2> HIDE DEF NoRecords
  <2>3. ASSUME NEW tool \in Tools
        PROVE  /\ NoRecords[tool] = [id \in Ids(tool) |-> NoRecords[tool][id]]
               /\ \A id \in Ids(tool) : NoRecords[tool][id] = None
    BY <2>2
  <2> QED  BY <2>1, <2>3 DEF IsRows
<1>3. \A tool \in Tools : None \in Stored(tool)
  BY DEF Stored, Tools, PaymentStatus, ReturnStatus
<1>4. NoBookings \in [Keys -> 0..MaxCents] /\ \A k \in Keys : NoBookings[k] = 0
  BY DEF NoBookings
<1>5. Facts(NoRecords, NoBookings)
  BY <1>2, <1>3, <1>4 DEF Facts
<1>6. <<>> \in Seq(Components) /\ IsInjective(<<>>) /\ Range(<<>>) = {}
  BY DEF IsInjective, Range
<1>7. IsMemory(EmptyMemory)
  BY <1>1, <1>5, <1>6 DEF IsMemory
<1>8. Groups(EmptyMemory) = {}
  <2>1. \A c \in Cases : ~Anchored(EmptyMemory, c)
    <3>1. \A c \in Cases : NoRecords.read_invoice[c] = None /\ NoRecords.read_payment[c] = None
      BY DEF NoRecords
    <3>2. \A c \in Cases : \A operation \in Operations : ~(NoBookings[<<c, operation>>] > 0)
      BY <1>4 DEF Keys
    <3> QED  BY <1>1, <3>1, <3>2 DEF Anchored
  <2>2. \A a \in Accounts : EmptyMemory.rows.read_account[a] = None
    BY <1>1 DEF NoRecords
  <2>3. \A o \in Orders : EmptyMemory.rows.read_return[o] = None
    BY <1>1 DEF NoRecords
  <2> QED  BY <2>1, <2>2, <2>3 DEF Groups
<1> QED  BY <1>1, <1>2, <1>6, <1>7, <1>8 DEF Ordered

LEMMA MemoryInit == Init => MemoryInv
<1> SUFFICES ASSUME Init  PROVE MemoryInv
  OBVIOUS
<1>1. CallTypes
  BY DEF Init, CallTypes
<1>2. newest.rows = NoRecords /\ newest.booked = NoBookings /\ IsKnown(newest)
  <2>1. newest = [rows |-> NoRecords, booked |-> NoBookings]
    BY DEF Init
  <2>2. newest.rows = NoRecords /\ newest.booked = NoBookings
    BY <2>1
  <2>3. NoBookings = [k \in Keys |-> NoBookings[k]]
    BY DEF NoBookings
  <2> QED  BY <2>1, <2>2, <2>3, EmptyIsOrdered DEF IsKnown
<1>3. state = EmptyMemory /\ text = <<>> /\ call = "none" /\ touched = {}
  BY DEF Init
<1>4. Told(EmptyMemory, newest)
  <2>1. \A k \in Keys : NoBookings[k] = 0
    BY DEF NoBookings
  <2> QED  BY <2>1, EmptyIsOrdered DEF Told
<1>5. Load(text) = EmptyMemory
  <2>1. DumpRecords(EmptyMemory) = <<>>
    BY EmptyIsOrdered DEF DumpRecords
  <2>2. Load(DumpRecords(EmptyMemory)) = EmptyMemory
    BY EmptyIsOrdered, ReadsBack
  <2> QED  BY <1>3, <2>1, <2>2, Zenon
<1>6. Behind(state.order, touched)
  BY <1>3, EmptyIsOrdered DEF Behind
<1>7. StateTold /\ TextTold
  BY <1>2, <1>3, <1>4, <1>5, EmptyIsOrdered DEF StateTold, TextTold
<1>8. ObservedBehind
  BY <1>3, <1>6 DEF ObservedBehind
<1> QED  BY <1>1, <1>7, <1>8 DEF MemoryInv

\* A smaller set of what is behind is behind too where the order is in it.
LEMMA BehindWithin ==
  ASSUME NEW s, NEW T, NEW G, Behind(s, T), Range(s) = G
  PROVE  Behind(s, T \cap G)
BY DEF Behind, Range

LEMMA IngestRowStep ==
  ASSUME MemoryInv, NEW tool \in Tools, NEW id \in Ids(tool), NEW row,
         ExplicitRow(tool, row) \in Stored(tool), IngestRow(tool, id, row)
  PROVE  MemoryInv'
<1> DEFINE known == ExplicitRow(tool, row)
<1>1. /\ Ordered(state) /\ IsKnown(newest) /\ Told(state, newest)
      /\ touched \subseteq Groups(state) /\ Behind(state.order, touched)
  BY DEF MemoryInv, StateTold, ObservedBehind, IngestRow
<1>2. /\ Ordered(state') /\ state'.booked = state.booked
      /\ state'.rows = Replace(state.rows, tool, id, known)
      /\ Behind(state'.order, touched \cup Touched(state'.rows, tool, id))
  <2>1. state' = PutRow(state, tool, id, row)
    BY DEF IngestRow
  <2>2. LET r == PutRow(state, tool, id, row)
        IN /\ Ordered(r) /\ r.booked = state.booked
           /\ r.rows = Replace(state.rows, tool, id, ExplicitRow(tool, row))
           /\ Behind(r.order, touched \cup Touched(r.rows, tool, id))
    BY <1>1, PutRowIs
  <2> QED  BY <2>1, <2>2, Zenon
<1> HIDE DEF known
<1>3. CallTypes'
  BY DEF MemoryInv, CallTypes, IngestRow
<1>4. newest' = [rows |-> Replace(newest.rows, tool, id, known), booked |-> newest.booked]
  <2>1. newest' = [newest EXCEPT !.rows = Replace(@, tool, id, known)]
    BY DEF IngestRow, known
  <2> QED  BY <1>1, <2>1 DEF IsKnown
<1>5. newest'.rows = Replace(newest.rows, tool, id, known) /\ newest'.booked = newest.booked
  BY <1>4
<1>6. /\ IsRows(newest'.rows) /\ \A u \in Tools : \A x \in Ids(u) :
           newest'.rows[u][x] = IF u = tool /\ x = id THEN known ELSE newest.rows[u][x]
      /\ \A u \in Tools : \A x \in Ids(u) :
           state'.rows[u][x] = IF u = tool /\ x = id THEN known ELSE state.rows[u][x]
  <2>1. IsRows(newest.rows) /\ IsRows(state.rows)
    BY <1>1 DEF IsKnown, Ordered, IsMemory, Facts
  <2> QED  BY <1>2, <1>5, <2>1, ReplaceIs
<1>7. IsKnown(newest')
  BY <1>1, <1>4, <1>5, <1>6 DEF IsKnown
<1>8. Told(state', newest')
  BY <1>1, <1>2, <1>5, <1>6 DEF Told
<1>9. TextTold'
  BY DEF TextTold, IngestRow
<1>10. ObservedBehind'
  <2>1. touched' = (touched \cup Touched(state'.rows, tool, id)) \cap Groups(state')
    BY DEF IngestRow
  <2>2. Range(state'.order) = Groups(state')
    BY <1>2 DEF Ordered
  <2>3. Behind(state'.order, touched')
    BY <1>2, <2>1, <2>2, BehindWithin
  <2>4. Groups(state') \subseteq Components
    BY GroupsTyped
  <2>5. touched' \subseteq Components /\ touched' \subseteq Groups(state')
    BY <2>1, <2>4
  <2> QED  BY <2>3, <2>5 DEF ObservedBehind
<1> QED  BY <1>2, <1>3, <1>7, <1>8, <1>9, <1>10 DEF MemoryInv, StateTold

LEMMA IngestStep == MemoryInv /\ Ingest => MemoryInv'
<1> SUFFICES ASSUME MemoryInv, Ingest  PROVE MemoryInv'
  OBVIOUS
<1>1. ASSUME NEW c \in Cases, NEW row \in InvoiceRows, IngestRow("read_invoice", c, row)
      PROVE  MemoryInv'
  <2>1. "read_invoice" \in Tools /\ c \in Ids("read_invoice")
    BY DEF Tools, Ids
  <2> QED  BY <1>1, <2>1, ExplicitIsStored, IngestRowStep
<1>2. ASSUME NEW a \in Accounts, NEW row \in AccountRows, IngestRow("read_account", a, row)
      PROVE  MemoryInv'
  <2>1. "read_account" \in Tools /\ a \in Ids("read_account")
    BY DEF Tools, Ids
  <2> QED  BY <1>2, <2>1, ExplicitIsStored, IngestRowStep
<1>3. ASSUME NEW c \in Cases, NEW row \in PaymentRows, IngestRow("read_payment", c, row)
      PROVE  MemoryInv'
  <2>1. "read_payment" \in Tools /\ c \in Ids("read_payment")
    BY DEF Tools, Ids
  <2> QED  BY <1>3, <2>1, ExplicitIsStored, IngestRowStep
<1>4. ASSUME NEW o \in Orders, NEW row \in ReturnRows, IngestRow("read_return", o, row)
      PROVE  MemoryInv'
  <2>1. "read_return" \in Tools /\ o \in Ids("read_return")
    BY DEF Tools, Ids
  <2> QED  BY <1>4, <2>1, ExplicitIsStored, IngestRowStep
<1> QED  BY <1>1, <1>2, <1>3, <1>4 DEF Ingest

LEMMA IngestReceiptStep ==
  ASSUME MemoryInv, NEW receipt \in Receipts, IngestReceipt(receipt[1], receipt[2])
  PROVE  MemoryInv'
<1> DEFINE key == receipt[1]
           amount == receipt[2]
           g == <<"invoice", key[1]>>
<1>0. key \in Keys /\ amount \in 1..MaxCents
  OBVIOUS
<1>1. /\ Ordered(state) /\ IsKnown(newest) /\ Told(state, newest)
      /\ touched \subseteq Groups(state) /\ Behind(state.order, touched)
      /\ touched \subseteq Components
  BY DEF MemoryInv, StateTold, ObservedBehind, IngestReceipt
<1>2. /\ call' = "fitting" /\ state' = PutBooking(state, key, amount)
      /\ touched' = touched \cup {g} /\ newest' = [newest EXCEPT !.booked[key] = amount]
      /\ UNCHANGED <<text, ingested, weights>>
  BY DEF IngestReceipt
<1> HIDE DEF key, amount
<1>3. /\ Ordered(state') /\ state'.rows = state.rows
      /\ state'.booked = [state.booked EXCEPT ![key] = amount]
      /\ Behind(state'.order, touched \cup {g})
  <2>1. LET r == PutBooking(state, key, amount)
        IN /\ Ordered(r) /\ r.rows = state.rows /\ r.booked = [state.booked EXCEPT ![key] = amount]
           /\ Behind(r.order, touched \cup {<<"invoice", key[1]>>})
    BY <1>0, <1>1, PutBookingIs
  <2> QED  BY <1>2, <2>1, Zenon
<1>4. g \in Components
  BY <1>0 DEF Keys, Components
<1> HIDE DEF g
<1>5. newest' = [rows |-> newest.rows, booked |-> [newest.booked EXCEPT ![key] = amount]]
  BY <1>1, <1>2 DEF IsKnown
<1>6. newest'.rows = newest.rows /\ newest'.booked = [newest.booked EXCEPT ![key] = amount]
  BY <1>5
<1>7. IsKnown(newest')
  <2>1. newest.booked = [k \in Keys |-> newest.booked[k]]
    BY <1>1 DEF IsKnown
  <2>2. newest'.booked = [k \in Keys |-> newest'.booked[k]]
    BY <1>6, <2>1
  <2> QED  BY <1>1, <1>5, <1>6, <2>2 DEF IsKnown
<1>8. Told(state', newest')
  <2>1. /\ newest.booked = [k \in Keys |-> newest.booked[k]]
        /\ state.booked = [k \in Keys |-> state.booked[k]]
    BY <1>1 DEF IsKnown, Ordered, IsMemory, Facts
  <2>2. ASSUME NEW k \in Keys  PROVE state'.booked[k] \in {0, newest'.booked[k]}
    <3>1. CASE k = key
      BY <1>0, <1>3, <1>6, <2>1, <3>1
    <3>2. CASE k # key
      <4>1. state'.booked[k] = state.booked[k] /\ newest'.booked[k] = newest.booked[k]
        BY <1>3, <1>6, <2>1, <3>2
      <4> QED  BY <1>1, <4>1 DEF Told
    <3> QED  BY <3>1, <3>2
  <2> QED  BY <1>1, <1>3, <1>6, <2>2 DEF Told
<1>9. CallTypes' /\ TextTold'
  BY <1>2 DEF MemoryInv, CallTypes, TextTold
<1>10. ObservedBehind'
  BY <1>1, <1>2, <1>3, <1>4 DEF ObservedBehind
<1> QED  BY <1>3, <1>7, <1>8, <1>9, <1>10 DEF MemoryInv, StateTold

\* Evicting one component, whichever the policy ranks first.
LEMMA RankedIs ==
  ASSUME MemoryInv, TooLarge
  PROVE  \E g \in Groups(state) :
           /\ Ordered(state') /\ Fewer(state, state')
           /\ state'.order = Among(state.order, Components \ {g})
           /\ weights = ZeroWeights => state'.order = Tail(state.order)
<1>1. Ordered(state) /\ state.order # <<>> /\ weights \in WeightSets
      /\ state' = EvictRanked(state, weights)
  BY DEF MemoryInv, StateTold, CallTypes, TooLarge
<1> DEFINE g == Victim(state, weights)
<1>2. g \in Groups(state)
  BY <1>1, VictimIs
<1>3. state' = EvictOldest(Promoted(state, g))
  BY <1>1, Zenon DEF EvictRanked
<1> HIDE DEF g
<1>4. /\ Ordered(state') /\ Fewer(state, state')
      /\ state'.order = Among(state.order, Components \ {g})
  <2>1. LET after == EvictOldest(Promoted(state, g))
        IN /\ Ordered(after) /\ Fewer(state, after)
           /\ after.order = Among(state.order, Components \ {g})
    BY <1>1, <1>2, OrderedEvicts
  <2> QED  BY <1>3, <2>1, Zenon
<1>5. ASSUME weights = ZeroWeights  PROVE state'.order = Tail(state.order)
  <2>1. EvictRanked(state, ZeroWeights) = EvictOldest(state)
    BY <1>1, ZeroIsOldest DEF Ordered
  <2>2. EvictOldest(state).order = Tail(state.order)
    BY <1>1, EvictIs
  <2> QED  BY <1>1, <1>5, <2>1, <2>2, Zenon
<1> QED  BY <1>2, <1>4, <1>5

LEMMA TooLargeStep == MemoryInv /\ TooLarge => MemoryInv'
<1> SUFFICES ASSUME MemoryInv, TooLarge  PROVE MemoryInv'
  OBVIOUS
<1>1. call = "fitting" /\ UNCHANGED <<text, call, ingested, weights, touched, newest>>
  BY DEF TooLarge
<1>2. PICK g \in Groups(state) :
           /\ Ordered(state') /\ Fewer(state, state')
           /\ state'.order = Among(state.order, Components \ {g})
  BY RankedIs
<1>3. /\ Ordered(state) /\ IsKnown(newest) /\ Told(state, newest)
      /\ touched \subseteq Components /\ Behind(state.order, touched)
  BY DEF MemoryInv, StateTold, ObservedBehind
<1>4. Told(state', newest)
  BY <1>2, <1>3 DEF Told, Fewer
<1>5. Behind(state'.order, touched)
  BY <1>2, <1>3, AmongBehind DEF Ordered, IsMemory
<1>6. CallTypes' /\ TextTold'
  BY <1>1 DEF MemoryInv, CallTypes, TextTold
<1>7. StateTold'
  BY <1>1, <1>2, <1>3, <1>4 DEF StateTold
<1>8. ObservedBehind'
  BY <1>1, <1>3, <1>5 DEF ObservedBehind
<1> QED  BY <1>6, <1>7, <1>8 DEF MemoryInv

LEMMA RowsDomain ==
  ASSUME NEW q, IsRows(q)
  PROVE  DOMAIN q = Tools /\ \A tool \in Tools : DOMAIN q[tool] = Ids(tool)
<1>1. DOMAIN q = Tools
  BY DEF IsRows
<1>2. ASSUME NEW tool \in Tools  PROVE DOMAIN q[tool] = Ids(tool)
  <2>1. q[tool] = [id \in Ids(tool) |-> q[tool][id]]
    BY DEF IsRows
  <2>2. DOMAIN [id \in Ids(tool) |-> q[tool][id]] = Ids(tool)
    OBVIOUS
  <2> QED  BY <2>1, <2>2, Zenon
<1> QED  BY <1>1, <1>2

LEMMA FitsStep == MemoryInv /\ Fits => MemoryInv'
<1> SUFFICES ASSUME MemoryInv, Fits  PROVE MemoryInv'
  OBVIOUS
<1>1. /\ call' = "none" /\ text' = DumpRecords(state) /\ Load(DumpRecords(state)) = state
      /\ state' = EmptyMemory /\ ingested' = 0 /\ touched' = {}
      /\ newest' = Retained(newest) /\ weights' = weights
  BY DEF Fits
<1>2. Ordered(state) /\ IsKnown(newest) /\ Told(state, newest)
  BY DEF MemoryInv, StateTold
<1>3. Load(text') = state
  BY <1>1, Zenon
<1> DEFINE rows == [tool \in DOMAIN newest.rows |-> [id \in DOMAIN newest.rows[tool] |->
                      IF state.rows[tool][id] = None THEN None ELSE newest.rows[tool][id]]]
           booking == [k \in Keys |-> IF state.booked[k] = 0 THEN 0 ELSE newest.booked[k]]
<1>4. newest' = [rows |-> rows, booked |-> booking]
  BY <1>1 DEF Retained
<1>5. /\ IsRows(rows) /\ booking = [k \in Keys |-> booking[k]]
      /\ \A tool \in Tools : \A id \in Ids(tool) :
           rows[tool][id] = IF state.rows[tool][id] = None THEN None ELSE newest.rows[tool][id]
  <2>1. DOMAIN newest.rows = Tools /\ \A tool \in Tools : DOMAIN newest.rows[tool] = Ids(tool)
    <3>1. IsRows(newest.rows)
      BY <1>2 DEF IsKnown
    <3> QED  BY <3>1, RowsDomain
  <2>2. rows = [tool \in Tools |-> rows[tool]]
    BY <2>1
  <2>3. \A tool \in Tools : rows[tool] = [id \in Ids(tool) |->
          IF state.rows[tool][id] = None THEN None ELSE newest.rows[tool][id]]
    BY <2>1
  <2> HIDE DEF rows
  <2>4. \A tool \in Tools :
          /\ rows[tool] = [id \in Ids(tool) |-> rows[tool][id]]
          /\ \A id \in Ids(tool) : rows[tool][id]
               = IF state.rows[tool][id] = None THEN None ELSE newest.rows[tool][id]
    BY <2>3
  <2>5. booking = [k \in Keys |-> booking[k]]
    OBVIOUS
  <2> HIDE DEF booking
  <2> QED  BY <2>2, <2>4, <2>5 DEF IsRows
<1>6. \A k \in Keys : booking[k] = IF state.booked[k] = 0 THEN 0 ELSE newest.booked[k]
  OBVIOUS
<1> HIDE DEF rows, booking
<1>7. newest'.rows = rows /\ newest'.booked = booking
  BY <1>4
<1>8. IsKnown(newest')
  BY <1>4, <1>5, <1>7 DEF IsKnown
<1>9. Told(state, newest')
  BY <1>2, <1>5, <1>6, <1>7 DEF Told
<1>10. Told(EmptyMemory, newest')
  <2>1. \A k \in Keys : NoBookings[k] = 0
    BY DEF NoBookings
  <2> QED  BY <2>1, EmptyIsOrdered DEF Told
<1>11. StateTold' /\ TextTold'
  BY <1>1, <1>2, <1>3, <1>8, <1>9, <1>10, EmptyIsOrdered DEF StateTold, TextTold
<1>12. CallTypes'
  BY <1>1 DEF MemoryInv, CallTypes
<1>13. ObservedBehind'
  BY <1>1, EmptyIsOrdered DEF ObservedBehind, Behind
<1> QED  BY <1>11, <1>12, <1>13 DEF MemoryInv

LEMMA MemoryStep == MemoryInv /\ [Next]_vars => MemoryInv'
<1> SUFFICES ASSUME MemoryInv, [Next]_vars  PROVE MemoryInv'
  OBVIOUS
<1>1. CASE UNCHANGED vars
  BY <1>1 DEF vars, MemoryInv, CallTypes, StateTold, TextTold, ObservedBehind
<1>2. CASE Begin
  <2>1. /\ Ordered(Load(text)) /\ Told(Load(text), newest) /\ touched = {} /\ state' = Load(text)
        /\ IsKnown(newest)
    BY <1>2 DEF Begin, MemoryInv, TextTold, StateTold
  <2>2. CallTypes' /\ TextTold'
    BY <1>2 DEF Begin, MemoryInv, CallTypes, TextTold
  <2>3. StateTold'
    BY <1>2, <2>1 DEF Begin, StateTold
  <2>4. ObservedBehind'
    BY <1>2, <2>1 DEF Begin, ObservedBehind, Behind
  <2> QED  BY <2>2, <2>3, <2>4 DEF MemoryInv
<1>3. CASE NoReceipt
  BY <1>3 DEF NoReceipt, MemoryInv, CallTypes, StateTold, TextTold, ObservedBehind
<1> QED  BY <1>1, <1>2, <1>3, IngestStep, IngestReceiptStep, TooLargeStep, FitsStep DEF Next

-----------------------------------------------------------------------------
(* The theorems *)

LEMMA MemoryAlways == Spec => []MemoryInv
BY MemoryInit, MemoryStep, PTL DEF Spec

LEMMA MemoryTyped == MemoryInv => TypeOK
<1> SUFFICES ASSUME MemoryInv  PROVE TypeOK
  OBVIOUS
<1>1. IsMemory(state) /\ Facts(state.rows, state.booked) /\ IsRows(state.rows)
  BY DEF MemoryInv, StateTold, Ordered, IsMemory, Facts
<1>2. \A tool \in Tools : \A id \in Ids(tool) : state.rows[tool][id] \in Stored(tool)
  BY <1>1 DEF Facts
<1>3. /\ state.rows = [read_invoice |-> state.rows.read_invoice,
                       read_account |-> state.rows.read_account,
                       read_payment |-> state.rows.read_payment,
                       read_return |-> state.rows.read_return]
      /\ state.rows.read_invoice = [c \in Cases |-> state.rows.read_invoice[c]]
      /\ state.rows.read_account = [a \in Accounts |-> state.rows.read_account[a]]
      /\ state.rows.read_payment = [c \in Cases |-> state.rows.read_payment[c]]
      /\ state.rows.read_return = [o \in Orders |-> state.rows.read_return[o]]
  BY <1>1 DEF IsRows, Tools, Ids
<1>4. /\ \A c \in Cases : /\ state.rows.read_invoice[c] \in InvoiceRow \cup {None}
                          /\ state.rows.read_payment[c] \in PaymentStatus
      /\ \A a \in Accounts : state.rows.read_account[a]
                               \in {r \in AccountRow : r.status # None} \cup {None}
      /\ \A o \in Orders : state.rows.read_return[o] \in ReturnStatus
  BY <1>2 DEF Tools, Ids, Stored
<1>5. /\ state.rows.read_invoice \in [Cases -> InvoiceRow \cup {None}]
      /\ state.rows.read_account \in [Accounts -> AccountRow \cup {None}]
      /\ state.rows.read_payment \in [Cases -> PaymentStatus]
      /\ state.rows.read_return \in [Orders -> ReturnStatus]
  BY <1>3, <1>4
<1>6. state.rows \in Records
  BY <1>3, <1>5, Zenon DEF Records
<1>7. \A a \in Accounts : state.rows.read_account[a] # None
                          => state.rows.read_account[a].status # None
  BY <1>4
<1>8. Range(state.order) \subseteq Components
  BY GroupsTyped DEF MemoryInv, StateTold, Ordered
<1> QED  BY <1>1, <1>6, <1>7, <1>8
         DEF Facts, TypeOK, MemoryInv, CallTypes, ObservedBehind

(* Whatever was ingested and evicted, rows keep their types and every stored  *)
(* status of an account is explicit (rcwt_memory_v3.py, _normalize_account).  *)
THEOREM MemoryTypeCorrect == Spec => []TypeOK
<1>1. MemoryInv => TypeOK
  BY MemoryTyped
<1> QED  BY <1>1, MemoryAlways, PTL

(* No history of observations, receipts and evictions makes the reducer raise *)
(* on the text it wrote itself: joined records carry all that was known, the  *)
(* copies of a shared row agree, and no component is missing or repeated.     *)
THEOREM MemoryRoundTrip == Spec => []RoundTrip
<1>1. MemoryInv => RoundTrip
  BY ReadsBack DEF MemoryInv, StateTold, RoundTrip
<1> QED  BY <1>1, MemoryAlways, PTL

(* What is remembered of an identifier is what was observed last of it: no    *)
(* older row comes back through eviction, sharing, detaching or reloading.    *)
THEOREM MemoryRemembersNewest == Spec => []RemembersNewest
<1>1. MemoryInv => RemembersNewest
  <2> SUFFICES ASSUME MemoryInv  PROVE RemembersNewest
    OBVIOUS
  <2>1. IsRows(state.rows) /\ Told(state, newest)
    BY DEF MemoryInv, StateTold, Ordered, IsMemory, Facts
  <2>2. DOMAIN state.rows = Tools /\ \A tool \in Tools : DOMAIN state.rows[tool] = Ids(tool)
    BY <2>1, RowsDomain
  <2> QED  BY <2>1, <2>2 DEF Told, RemembersNewest
<1> QED  BY <1>1, MemoryAlways, PTL

(* Evicting any component loses that component only: the order of the others  *)
(* and every fact they show stay, those of shared rows included.              *)
THEOREM MemoryEvictsOneComponent == Spec => []EvictsOneComponent
<1>1. MemoryInv => EvictsOneComponent
  BY OrderedEvicts DEF MemoryInv, StateTold, EvictsOneComponent
<1> QED  BY <1>1, MemoryAlways, PTL

(* The ranked eviction of the learned policy is the default eviction when all *)
(* weights are zero (rcwt_policy_r2.py, compact_policy against evict_oldest). *)
THEOREM MemoryDefaultIsOldest == Spec => []DefaultIsOldest
<1>1. MemoryInv => DefaultIsOldest
  BY ZeroIsOldest DEF MemoryInv, StateTold, Ordered, DefaultIsOldest
<1> QED  BY <1>1, MemoryAlways, PTL

(* With the default policy no component that this call observed is evicted    *)
(* while one that it did not observe remains.                                 *)
THEOREM MemoryObservedOutlive == Spec => ObservedOutlive
<1>1. MemoryInv /\ [Next]_vars =>
        [/\ call = "fitting" /\ weights = ZeroWeights
         /\ (Range(state.order) \ Range(state'.order)) \cap touched # {}
         => Range(state'.order) \subseteq touched]_state
  <2> SUFFICES ASSUME MemoryInv, [Next]_vars, state' # state,
                      call = "fitting", weights = ZeroWeights,
                      NEW g \in (Range(state.order) \ Range(state'.order)) \cap touched,
                      NEW h \in Range(state'.order)
               PROVE  h \in touched
    OBVIOUS
  <2>1. CASE TooLarge
    <3>1. /\ Ordered(state) /\ state.order # <<>> /\ Behind(state.order, touched)
          /\ state.order \in Seq(Components)
      BY <2>1 DEF MemoryInv, StateTold, ObservedBehind, TooLarge, Ordered, IsMemory
    <3>2. state'.order = Tail(state.order)
      BY <2>1, RankedIs
    <3>3. /\ Len(state.order) >= 1 /\ Len(state'.order) = Len(state.order) - 1
          /\ state'.order \in Seq(Components)
          /\ \A i \in 1..Len(state'.order) : state'.order[i] = state.order[i + 1]
      BY <3>1, <3>2
    <3>4. PICK i \in 1..Len(state.order) : state.order[i] = g
      BY <3>1 DEF Range
    <3>5. i = 1
      <4>1. CASE i # 1
        <5>1. i - 1 \in 1..Len(state'.order) /\ (i - 1) + 1 = i
          BY <3>3, <4>1
        <5>2. state'.order[i - 1] = g
          BY <3>3, <3>4, <5>1
        <5>3. g \in Range(state'.order)
          BY <3>3, <5>1, <5>2 DEF Range
        <5> QED  BY <5>3
      <4> QED  BY <4>1
    <3>6. PICK j \in 1..Len(state'.order) : state'.order[j] = h
      BY <3>3 DEF Range
    <3>7. j + 1 \in 1..Len(state.order) /\ state.order[j + 1] = h /\ 1 < j + 1
      BY <3>3, <3>6
    <3> QED  BY <3>1, <3>4, <3>5, <3>7 DEF Behind
  <2>2. CASE ~TooLarge
    <3>1. Fits
      BY <2>2 DEF Next, vars, Begin, Ingest, IngestRow, IngestReceipt, NoReceipt
    <3>2. Range(state'.order) = {}
      BY <3>1, EmptyIsOrdered DEF Fits, Range
    <3> QED  BY <3>2
  <2> QED  BY <2>1, <2>2
<1> QED  BY <1>1, MemoryAlways, PTL DEF Spec, ObservedOutlive
=============================================================================
