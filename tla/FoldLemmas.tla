------------------------------ MODULE FoldLemmas ------------------------------
(***************************************************************************)
(* What the folds of the community modules compute, for any operation and  *)
(* any way of picking the next element.  The two are constants of this     *)
(* module, so that an INSTANCE of it has its lemmas for one fold: the      *)
(* induction theorems of the library take an operator, which no backend    *)
(* instantiates.  Sums pick any element, the folds of sequences the last.  *)
(***************************************************************************)
EXTENDS Integers, FiniteSetTheorems, WellFoundedInduction, TLAPS

CONSTANTS op(_, _),  \* the element and what was folded before it
          pick(_)    \* the element of a set that is folded last

-----------------------------------------------------------------------------
(* Induction without an operator: the argument is a set. *)

(* The least-number principle, for a set of natural numbers. *)
LEMMA LeastOfNaturals ==
  ASSUME NEW T \in SUBSET Nat, T # {}
  PROVE  \E t \in T : \A u \in T : t <= u
<1>1. IsWellFoundedOn(OpToRel(<, Nat), Nat)
  BY NatLessThanWellFounded
<1>2. PICK t \in T : \A u \in T : ~(<<u, t>> \in OpToRel(<, Nat))
  BY <1>1, WFMin, Zenon
<1>3. \A u \in T : ~(u < t)
  BY <1>2 DEF OpToRel
<1> QED  BY <1>3

(* Among any subsets of a finite set there is a smallest one. *)
LEMMA SmallestSubset ==
  ASSUME NEW S, IsFiniteSet(S), NEW B, B \subseteq SUBSET S, B # {}
  PROVE  \E T \in B : \A U \in B : ~(U \subseteq T /\ U # T)
<1>1. IsWellFoundedOn(StrictSubsetOrdering(S), SUBSET S)
  BY FS_StrictSubsetOrderingWellFounded, FS_FiniteSubsetsOfFinite
<1>2. PICK T \in B : \A U \in B : ~(<<U, T>> \in StrictSubsetOrdering(S))
  BY <1>1, WFMin, Zenon
<1>3. \A U \in B : ~(U \subseteq T /\ U # T)
  BY <1>2 DEF StrictSubsetOrdering
<1> QED  BY <1>3

(* Induction over the subsets of a finite set: Good is what holds of them. *)
LEMMA SubsetInduction ==
  ASSUME NEW S, IsFiniteSet(S), NEW Good,
         \A T \in SUBSET S : (\A U \in SUBSET T : U # T => U \in Good) => T \in Good
  PROVE  SUBSET S \subseteq Good
<1> DEFINE Bad == (SUBSET S) \ Good
<1>1. Bad \subseteq SUBSET S
  OBVIOUS
<1>2. CASE Bad # {}
  <2>1. \E T \in Bad : \A U \in Bad : ~(U \subseteq T /\ U # T)
    <3> HIDE DEF Bad
    <3> QED  BY <1>1, <1>2, SmallestSubset
  <2>2. PICK T \in Bad : \A U \in Bad : ~(U \subseteq T /\ U # T)
    BY <2>1
  <2>3. ASSUME NEW U \in SUBSET T, U # T  PROVE U \in Good
    BY <2>2, <2>3
  <2> QED  BY <2>2, <2>3
<1> QED  BY <1>2

-----------------------------------------------------------------------------
(* A fold over the subsets of S, the way MapThenFoldSet computes it. *)

Step(f, base, s, g) == IF s = {} THEN base ELSE op(f[pick(s)], g[s \ {pick(s)}])

Solves(f, base, S, g) == g = [s \in SUBSET S |-> Step(f, base, s, g)]

Fold(f, base, S) == (CHOOSE g : Solves(f, base, S, g))[S]

Picks(S) == \A s \in SUBSET S : s # {} => pick(s) \in s

(* The recursive equation has a solution: one that is right up to n elements *)
(* is extended to n + 1, and at the size of S it is right everywhere.        *)
LEMMA FoldExists ==
  ASSUME NEW S, IsFiniteSet(S), Picks(S), NEW f, NEW base
  PROVE  \E g : Solves(f, base, S, g)
<1> DEFINE RightAt(g, s) == g[s] = Step(f, base, s, g)
           RightTo(n) == \E g : /\ g = [s \in SUBSET S |-> g[s]]
                                /\ \A s \in SUBSET S : Cardinality(s) < n => RightAt(g, s)
           Wrong == {n \in Nat : ~RightTo(n)}
<1>1. \A s \in SUBSET S : IsFiniteSet(s) /\ Cardinality(s) \in Nat
                          /\ Cardinality(s) <= Cardinality(S)
  BY FS_Subset, FS_CardinalityType
<1>2. \A s \in SUBSET S : s # {} => /\ s \ {pick(s)} \in SUBSET S
                                    /\ Cardinality(s \ {pick(s)}) = Cardinality(s) - 1
  <2> SUFFICES ASSUME NEW s \in SUBSET S, s # {}
               PROVE  Cardinality(s \ {pick(s)}) = Cardinality(s) - 1
    OBVIOUS
  <2>1. pick(s) \in s
    BY DEF Picks
  <2> QED  BY <1>1, <2>1, FS_RemoveElement
<1>3. RightTo(0)
  <2> DEFINE g == [s \in SUBSET S |-> 0]
  <2>1. g = [s \in SUBSET S |-> g[s]]
    OBVIOUS
  <2>2. \A s \in SUBSET S : ~(Cardinality(s) < 0)
    BY <1>1
  <2> QED  BY <2>1, <2>2
<1>4. ASSUME NEW n \in Nat, RightTo(n)  PROVE RightTo(n + 1)
  <2>1. PICK g : /\ g = [s \in SUBSET S |-> g[s]]
                 /\ \A s \in SUBSET S : Cardinality(s) < n => RightAt(g, s)
    BY <1>4
  <2> DEFINE h == [s \in SUBSET S |-> IF Cardinality(s) < n THEN g[s] ELSE Step(f, base, s, g)]
  <2>2. h = [s \in SUBSET S |-> h[s]]
    OBVIOUS
  <2>3. ASSUME NEW s \in SUBSET S, Cardinality(s) < n + 1
        PROVE  h[s] = Step(f, base, s, h)
    <3>1. h[s] = Step(f, base, s, g)
      BY <2>1
    <3>2. CASE s = {}
      BY <3>1, <3>2 DEF Step
    <3>3. CASE s # {}
      <4>1. s \ {pick(s)} \in SUBSET S /\ Cardinality(s \ {pick(s)}) < n
        BY <1>1, <1>2, <2>3, <3>3
      <4>2. h[s \ {pick(s)}] = g[s \ {pick(s)}]
        BY <4>1
      <4> QED  BY <3>1, <3>3, <4>2 DEF Step
    <3> QED  BY <3>2, <3>3
  <2> HIDE DEF h
  <2> QED  BY <2>2, <2>3
<1>5. Wrong = {}
  <2>1. SUFFICES ASSUME Wrong # {}  PROVE FALSE
    OBVIOUS
  <2> HIDE DEF RightTo
  <2>2. PICK n \in Wrong : \A m \in Wrong : n <= m
    BY <2>1, LeastOfNaturals, Wrong \in SUBSET Nat
  <2>3. n # 0
    BY <1>3, <2>2
  <2>4. n - 1 \in Nat /\ n - 1 \notin Wrong
    BY <2>2, <2>3
  <2>5. RightTo(n - 1 + 1)
    BY <1>4, <2>4
  <2> QED  BY <2>2, <2>5
<1>6. Cardinality(S) + 1 \in Nat
  BY <1>1
<1>7. RightTo(Cardinality(S) + 1)
  <2> HIDE DEF RightTo
  <2> QED  BY <1>5, <1>6
<1>8. PICK g : /\ g = [s \in SUBSET S |-> g[s]]
               /\ \A s \in SUBSET S : Cardinality(s) < Cardinality(S) + 1 => RightAt(g, s)
  BY <1>7
<1>9. ASSUME NEW s \in SUBSET S  PROVE g[s] = Step(f, base, s, g)
  <2>1. Cardinality(s) < Cardinality(S) + 1
    BY <1>1, S \in SUBSET S
  <2> QED  BY <1>8, <2>1
<1>10. [s \in SUBSET S |-> g[s]] = [s \in SUBSET S |-> Step(f, base, s, g)]
  BY <1>9
<1> QED  BY <1>8, <1>10 DEF Solves

(* Two solutions for functions that agree on T agree on T. *)
LEMMA FoldsAgree ==
  ASSUME NEW base, NEW S, NEW f, NEW g, Solves(f, base, S, g),
         NEW R, NEW e, NEW h, Solves(e, base, R, h),
         NEW T, IsFiniteSet(T), Picks(T), T \subseteq S, T \subseteq R,
         \A x \in T : f[x] = e[x]
  PROVE  g[T] = h[T]
<1> DEFINE Good == {U \in SUBSET T : g[U] = h[U]}
<1>1. \A U \in SUBSET T : g[U] = Step(f, base, U, g) /\ h[U] = Step(e, base, U, h)
  <2> SUFFICES ASSUME NEW U \in SUBSET T
               PROVE  g[U] = Step(f, base, U, g) /\ h[U] = Step(e, base, U, h)
    OBVIOUS
  <2>1. U \in SUBSET S /\ U \in SUBSET R
    OBVIOUS
  <2>2. [s \in SUBSET S |-> Step(f, base, s, g)][U] = Step(f, base, U, g)
    BY <2>1
  <2>3. [s \in SUBSET R |-> Step(e, base, s, h)][U] = Step(e, base, U, h)
    BY <2>1
  <2> QED  BY <2>2, <2>3, Zenon DEF Solves
<1>2. ASSUME NEW U \in SUBSET T, \A V \in SUBSET U : V # U => V \in Good
      PROVE  U \in Good
  <2>1. CASE U = {}
    BY <1>1, <2>1 DEF Step
  <2>2. CASE U # {}
    <3>1. pick(U) \in U
      BY <2>2 DEF Picks
    <3>2. g[U \ {pick(U)}] = h[U \ {pick(U)}]
      BY <1>2, <3>1
    <3> QED  BY <1>1, <2>2, <3>1, <3>2 DEF Step
  <2> QED  BY <2>1, <2>2
<1>3. SUBSET T \subseteq Good
  <2> HIDE DEF Good
  <2> QED  BY <1>2, SubsetInduction
<1> QED  BY <1>3

(* A fold depends on the elements alone. *)
LEMMA FoldSame ==
  ASSUME NEW base, NEW S, IsFiniteSet(S), Picks(S), NEW f, NEW e, \A x \in S : f[x] = e[x]
  PROVE  Fold(f, base, S) = Fold(e, base, S)
<1>1. /\ Solves(f, base, S, CHOOSE g : Solves(f, base, S, g))
      /\ Solves(e, base, S, CHOOSE g : Solves(e, base, S, g))
  BY FoldExists
<1> QED  BY <1>1, FoldsAgree DEF Fold

(* A fold over a subset is computed by a solution for the whole set. *)
LEMMA FoldInside ==
  ASSUME NEW base, NEW S, IsFiniteSet(S), Picks(S), NEW f, NEW g, Solves(f, base, S, g),
         NEW T \in SUBSET S
  PROVE  g[T] = Fold(f, base, T)
<1>1. IsFiniteSet(T) /\ Picks(T)
  BY FS_Subset DEF Picks
<1>2. Solves(f, base, T, CHOOSE h : Solves(f, base, T, h))
  BY <1>1, FoldExists
<1> QED  BY <1>1, <1>2, FoldsAgree DEF Fold

LEMMA FoldEquation ==
  ASSUME NEW base, NEW S, IsFiniteSet(S), Picks(S), NEW f
  PROVE  Fold(f, base, S) = IF S = {} THEN base
                            ELSE op(f[pick(S)], Fold(f, base, S \ {pick(S)}))
<1>1. PICK g : Solves(f, base, S, g)
  BY FoldExists
<1>2. g[S] = Fold(f, base, S) /\ g[S \ {pick(S)}] = Fold(f, base, S \ {pick(S)})
  BY <1>1, FoldInside
<1>3. [s \in SUBSET S |-> Step(f, base, s, g)][S] = Step(f, base, S, g)
  OBVIOUS
<1>4. g[S] = Step(f, base, S, g)
  BY <1>1, <1>3, Zenon DEF Solves
<1> QED  BY <1>2, <1>4 DEF Step

LEMMA FoldOfNone ==
  ASSUME NEW base, NEW f
  PROVE  Fold(f, base, {}) = base
BY FS_EmptySet, FoldEquation DEF Picks

(* A set that the operation does not leave has every fold. *)
LEMMA FoldTyped ==
  ASSUME NEW S, IsFiniteSet(S), Picks(S), NEW A, NEW f, \A x \in S : f[x] \in A,
         NEW B, NEW base \in B, \A a \in A, b \in B : op(a, b) \in B
  PROVE  Fold(f, base, S) \in B
<1> DEFINE Good == {T \in SUBSET S : Fold(f, base, T) \in B}
<1>1. ASSUME NEW T \in SUBSET S, \A U \in SUBSET T : U # T => U \in Good
      PROVE  T \in Good
  <2>1. IsFiniteSet(T) /\ Picks(T)
    BY FS_Subset DEF Picks
  <2>2. CASE T = {}
    BY <2>2, FoldOfNone
  <2>3. CASE T # {}
    <3>1. pick(T) \in T /\ T \ {pick(T)} \in Good
      BY <1>1, <2>3 DEF Picks
    <3>2. Fold(f, base, T) = op(f[pick(T)], Fold(f, base, T \ {pick(T)}))
      BY <2>1, <2>3, FoldEquation
    <3> QED  BY <3>1, <3>2
  <2> QED  BY <2>2, <2>3
<1>2. SUBSET S \subseteq Good
  <2> HIDE DEF Good
  <2> QED  BY <1>1, SubsetInduction
<1> QED  BY <1>2

(* Where the order does not matter, any element may be taken last. *)
Commutes(B) ==
  /\ \A a, b \in B : op(a, b) \in B
  /\ \A a, b, c \in B : op(a, op(b, c)) = op(b, op(a, c))

LEMMA FoldRemove ==
  ASSUME NEW S, IsFiniteSet(S), Picks(S), NEW B, Commutes(B),
         NEW f, \A x \in S : f[x] \in B, NEW base \in B, NEW x \in S
  PROVE  Fold(f, base, S) = op(f[x], Fold(f, base, S \ {x}))
<1> DEFINE Good == {T \in SUBSET S : \A y \in T :
                      Fold(f, base, T) = op(f[y], Fold(f, base, T \ {y}))}
<1>1. ASSUME NEW T \in SUBSET S, \A U \in SUBSET T : U # T => U \in Good, NEW y \in T
      PROVE  Fold(f, base, T) = op(f[y], Fold(f, base, T \ {y}))
  <2> DEFINE p == pick(T)
  <2>1. /\ p \in T
        /\ Fold(f, base, T) = op(f[p], Fold(f, base, T \ {p}))
    BY FS_Subset, FoldEquation DEF Picks
  <2>2. CASE y = p
    BY <2>1, <2>2
  <2>3. CASE y # p
    <3>1. T \ {p} \in Good /\ T \ {y} \in Good
      BY <1>1, <2>1
    <3>2. Fold(f, base, T \ {p}) = op(f[y], Fold(f, base, (T \ {p}) \ {y}))
      BY <2>1, <2>3, <3>1
    <3>3. Fold(f, base, T \ {y}) = op(f[p], Fold(f, base, (T \ {y}) \ {p}))
      BY <2>1, <2>3, <3>1
    <3>4. (T \ {p}) \ {y} = (T \ {y}) \ {p}
      OBVIOUS
    <3>5. IsFiniteSet((T \ {y}) \ {p}) /\ Picks((T \ {y}) \ {p})
      BY FS_Subset DEF Picks
    <3>6. Fold(f, base, (T \ {y}) \ {p}) \in B
      <4>1. \A z \in (T \ {y}) \ {p} : f[z] \in B
        OBVIOUS
      <4>2. \A a, b \in B : op(a, b) \in B
        BY DEF Commutes
      <4> HIDE DEF p
      <4> QED  BY <3>5, <4>1, <4>2, FoldTyped
    <3>7. f[p] \in B /\ f[y] \in B
      BY <2>1
    <3> DEFINE r == Fold(f, base, (T \ {y}) \ {p})
    <3>8. op(f[p], op(f[y], r)) = op(f[y], op(f[p], r))
      <4> HIDE DEF p, r
      <4> QED  BY <3>6, <3>7, Zenon DEF r, Commutes
    <3> HIDE DEF p
    <3> QED  BY <2>1, <3>2, <3>3, <3>4, <3>8, Zenon
  <2> QED  BY <2>2, <2>3
<1>2. SUBSET S \subseteq Good
  <2>1. ASSUME NEW T \in SUBSET S, \A U \in SUBSET T : U # T => U \in Good
        PROVE  T \in Good
    BY <1>1, <2>1
  <2> HIDE DEF Good
  <2> QED  BY <2>1, SubsetInduction
<1> QED  BY <1>2

-----------------------------------------------------------------------------
(* Folds over a sequence take its last element last. *)

(* Induction over the first n steps: T is the set of those that are good. *)
LEMMA StepsInduction ==
  ASSUME NEW n \in Nat, NEW T, 0 \in T, \A m \in 1..n : m - 1 \in T => m \in T
  PROVE  \A m \in 0..n : m \in T
<1> DEFINE Bad == {m \in 0..n : m \notin T}
<1>1. CASE Bad # {}
  <2>1. PICK m \in Bad : \A k \in Bad : m <= k
    <3>1. Bad \in SUBSET Nat
      OBVIOUS
    <3> HIDE DEF Bad
    <3> QED  BY <1>1, <3>1, LeastOfNaturals
  <2>2. m # 0 /\ m \in 1..n
    BY <2>1
  <2>3. m - 1 \in T
    BY <2>1, <2>2
  <2> QED  BY <2>1, <2>2, <2>3
<1> QED  BY <1>1

(* The greatest element of some indices of a sequence is one of them. *)
LEMMA LastPicks ==
  ASSUME NEW n \in Nat,
         \A s \in SUBSET (1..n) : pick(s) = CHOOSE x \in s : \A y \in s : x >= y
  PROVE  /\ IsFiniteSet(1..n) /\ Picks(1..n)
         /\ \A m \in 1..n : pick(1..m) = m
<1>1. ASSUME NEW s \in SUBSET (1..n), s # {}
      PROVE  \E x \in s : \A y \in s : x >= y
  <2> DEFINE T == {n - x : x \in s}
  <2>1. T \in SUBSET Nat /\ T # {}
    <3>1. \A x \in s : x \in 1..n
      OBVIOUS
    <3>2. \A x \in 1..n : n - x \in Nat
      OBVIOUS
    <3> QED  BY <1>1, <3>1, <3>2
  <2>2. PICK t \in T : \A u \in T : t <= u
    <3> HIDE DEF T
    <3> QED  BY <2>1, LeastOfNaturals
  <2>3. PICK x \in s : t = n - x
    BY <2>2
  <2>4. ASSUME NEW y \in s  PROVE x >= y
    <3>1. n - x <= n - y
      BY <2>2, <2>3
    <3>2. x \in Int /\ y \in Int
      OBVIOUS
    <3> QED  BY <3>1, <3>2
  <2> QED  BY <2>4
<1>2. ASSUME NEW s \in SUBSET (1..n), s # {}
      PROVE  pick(s) \in s /\ \A y \in s : pick(s) >= y
  <2>1. \E x \in s : \A y \in s : x >= y
    BY <1>1, <1>2
  <2>2. pick(s) = CHOOSE x \in s : \A y \in s : x >= y
    OBVIOUS
  <2> QED  BY <2>1, <2>2, Zenon
<1>3. \A m \in 1..n : pick(1..m) = m
  <2> SUFFICES ASSUME NEW m \in 1..n  PROVE pick(1..m) = m
    OBVIOUS
  <2>1. (1..m) \in SUBSET (1..n) /\ m \in 1..m
    OBVIOUS
  <2>2. pick(1..m) \in 1..m /\ pick(1..m) >= m
    BY <1>2, <2>1
  <2> QED  BY <2>2
<1>4. IsFiniteSet(1..n)
  BY FS_Interval
<1> QED  BY <1>2, <1>3, <1>4 DEF Picks

(* A fold over a sequence is a chain: each element acts on what came before. *)
IsChain(f, base, n) ==
  /\ Fold(f, base, 1..0) = base
  /\ \A m \in 1..n : Fold(f, base, 1..m) = op(f[m], Fold(f, base, 1..(m - 1)))

LEMMA FoldChain ==
  ASSUME NEW n \in Nat, NEW f, NEW base,
         \A s \in SUBSET (1..n) : pick(s) = CHOOSE x \in s : \A y \in s : x >= y
  PROVE  IsChain(f, base, n)
<1>0. IsFiniteSet(1..n) /\ Picks(1..n) /\ \A m \in 1..n : pick(1..m) = m
  BY LastPicks
<1>1. 1..0 = {}
  OBVIOUS
<1>2. ASSUME NEW m \in 1..n
      PROVE  Fold(f, base, 1..m) = op(f[m], Fold(f, base, 1..(m - 1)))
  <2>1. /\ 1..m \subseteq 1..n /\ 1..m # {}
        /\ (1..m) \ {m} = 1..(m - 1)
    OBVIOUS
  <2>2. IsFiniteSet(1..m) /\ Picks(1..m)
    BY <1>0, <2>1, FS_Subset DEF Picks
  <2>3. pick(1..m) = m
    BY <1>0
  <2>4. Fold(f, base, 1..m) = op(f[pick(1..m)], Fold(f, base, (1..m) \ {pick(1..m)}))
    <3> DEFINE s == 1..m
    <3>1. s # {} /\ IsFiniteSet(s) /\ Picks(s)
      BY <2>1, <2>2
    <3> HIDE DEF s
    <3>2. Fold(f, base, s) = op(f[pick(s)], Fold(f, base, s \ {pick(s)}))
      BY <3>1, FoldEquation
    <3> QED  BY <3>2 DEF s
  <2> QED  BY <2>1, <2>3, <2>4, Zenon
<1> QED  BY <1>1, <1>2, FoldOfNone DEF IsChain
=============================================================================
