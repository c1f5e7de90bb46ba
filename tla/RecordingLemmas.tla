--------------------------- MODULE RecordingLemmas --------------------------
(***************************************************************************)
(* What the operators of Thresholds and Recording compute: sums, bags,     *)
(* filtered sequences, tags, the updates of a call and selectors.  Sum and *)
(* Only are recursive functions, so they come with the lemma that such a   *)
(* function exists.                                                        *)
(***************************************************************************)
EXTENDS Recording, FiniteSetTheorems, NaturalsInduction, WellFoundedInduction, TLAPS

-----------------------------------------------------------------------------
(* Induction over numbers and over finite sets, stated for sets. *)

LEMMA Minimal ==
    ASSUME NEW rel, IsWellFoundedOn(rel, Nat), NEW S \in SUBSET Nat, S # {}
    PROVE  \E n \in S : \A m \in S : ~(<<m, n>> \in rel)
BY WFMin

LEMMA LeastIn ==
    ASSUME NEW rel, IsWellFoundedOn(rel, Nat), \A m, n \in Nat : m < n => <<m, n>> \in rel,
           NEW S \in SUBSET Nat, S # {}
    PROVE  \E n \in S : \A m \in S : n <= m
<1>1. S \subseteq Nat
  OBVIOUS
<1>2. PICK n \in S : \A m \in S : ~(<<m, n>> \in rel)
  BY Minimal, Zenon
<1>3. \A m \in S : ~(m < n)
  BY <1>1, <1>2, Zenon
<1>4. \A m \in S : n <= m
  BY <1>1, <1>3
<1> QED
  BY <1>4

LEMMA LeastNumber ==
    ASSUME NEW S \in SUBSET Nat, S # {}
    PROVE  \E n \in S : \A m \in S : n <= m
<1>1. IsWellFoundedOn(OpToRel(<, Nat), Nat)
  BY NatLessThanWellFounded
<1>2. \A m, n \in Nat : m < n => <<m, n>> \in OpToRel(<, Nat)
  BY DEF OpToRel
<1> QED
  BY <1>1, <1>2, LeastIn, Zenon

LEMMA Induction ==
    ASSUME NEW S \in SUBSET Nat, 0 \in S, \A n \in S : n + 1 \in S
    PROVE  S = Nat
<1> SUFFICES ASSUME Nat \ S # {} PROVE FALSE
  OBVIOUS
<1>1. PICK n \in Nat \ S : \A m \in Nat \ S : n <= m
  BY LeastNumber
<1>2. n - 1 \in Nat /\ n - 1 \notin Nat \ S
  BY <1>1
<1>3. (n - 1) + 1 \in S
  BY <1>2
<1> QED
  BY <1>1, <1>3

\* A collection of subsets of a finite set with the empty one and, with every member,
\* that member and one element more, has all of them.
LEMMA SetInduction ==
    ASSUME NEW D, IsFiniteSet(D), NEW C, {} \in C,
           \A T \in SUBSET D, x \in D : T \in C /\ x \notin T => T \union {x} \in C
    PROVE  SUBSET D \subseteq C
<1> DEFINE S == {k \in Nat : \A T \in SUBSET D : Cardinality(T) = k => T \in C}
<1>1. \A T \in SUBSET D : IsFiniteSet(T) /\ Cardinality(T) \in Nat
  BY FS_Subset, FS_CardinalityType
<1>2. 0 \in S
  BY <1>1, FS_EmptySet
<1>3. ASSUME NEW k \in S PROVE k + 1 \in S
  <2>1. k \in Nat /\ \A T \in SUBSET D : Cardinality(T) = k => T \in C
    OBVIOUS
  <2>2. ASSUME NEW T \in SUBSET D, Cardinality(T) = k + 1 PROVE T \in C
    <3>1. T # {}
      BY <2>1, <2>2, FS_EmptySet
    <3>2. PICK x \in T : TRUE
      BY <3>1
    <3>3. Cardinality(T \ {x}) = k
      <4>1. IsFiniteSet(T)
        BY <1>1
      <4>2. Cardinality(T \ {x}) = Cardinality(T) - 1
        BY <3>2, <4>1, FS_RemoveElement
      <4> QED
        BY <2>1, <2>2, <4>2
    <3>4. T \ {x} \in SUBSET D /\ x \in D /\ x \notin T \ {x} /\ (T \ {x}) \union {x} = T
      BY <3>2
    <3>5. T \ {x} \in C
      BY <2>1, <3>3, <3>4
    <3> QED
      BY <3>4, <3>5
  <2> QED
    BY <2>1, <2>2
<1>4. S = Nat
  <2>1. S \in SUBSET Nat
    OBVIOUS
  <2> HIDE DEF S
  <2> QED
    BY <1>2, <1>3, <2>1, Induction
<1> QED
  BY <1>1, <1>4

-----------------------------------------------------------------------------
(* Sums. *)

AddOne(f, over, S) ==
    IF S = {} THEN 0 ELSE LET x == CHOOSE x \in S : TRUE IN f[x] + over[S \ {x}]

\* The subsets of D with at most k elements.
UpTo(D, k) == {S \in SUBSET D : Cardinality(S) <= k}

LEMMA AddOneLocal ==
    ASSUME NEW f, NEW g, NEW h, NEW S, \A x \in S : g[S \ {x}] = h[S \ {x}]
    PROVE  AddOne(f, g, S) = AddOne(f, h, S)
<1>1. CASE S = {}
  BY <1>1 DEF AddOne
<1>2. CASE S # {}
  <2> DEFINE x == CHOOSE x \in S : TRUE
  <2>1. x \in S
    BY <1>2
  <2>2. g[S \ {x}] = h[S \ {x}]
    BY <2>1
  <2> QED
    BY <1>2, <2>2 DEF AddOne
<1> QED
  BY <1>1, <1>2

LEMMA SumUpTo ==
    ASSUME NEW f, NEW D, IsFiniteSet(D), NEW n \in Nat
    PROVE  \E g : g = [S \in UpTo(D, n) |-> AddOne(f, g, S)]
<1> DEFINE K == {k \in Nat : \E g : g = [S \in UpTo(D, k) |-> AddOne(f, g, S)]}
<1>1. \A T \in SUBSET D : IsFiniteSet(T) /\ Cardinality(T) \in Nat
  BY FS_Subset, FS_CardinalityType
<1>2. \A T \in SUBSET D : \A x \in T : /\ T \ {x} \in SUBSET D
                                       /\ Cardinality(T \ {x}) = Cardinality(T) - 1
  BY <1>1, FS_RemoveElement
<1>3. 0 \in K
  <2> DEFINE g == [S \in UpTo(D, 0) |-> 0]
  <2>1. ASSUME NEW S \in UpTo(D, 0) PROVE AddOne(f, g, S) = 0
    <3>1. S = {}
      BY <1>1, FS_EmptySet DEF UpTo
    <3> QED
      BY <3>1 DEF AddOne
  <2>2. g = [S \in UpTo(D, 0) |-> AddOne(f, g, S)]
    BY <2>1
  <2> HIDE DEF g
  <2> QED
    BY <2>2
<1>4. ASSUME NEW k \in K PROVE k + 1 \in K
  <2>1. k \in Nat /\ k + 1 \in Nat
    OBVIOUS
  <2>2. PICK g : g = [S \in UpTo(D, k) |-> AddOne(f, g, S)]
    OBVIOUS
  <2> DEFINE h == [S \in UpTo(D, k + 1) |-> AddOne(f, g, S)]
  <2>3. ASSUME NEW S \in UpTo(D, k) PROVE h[S] = g[S]
    <3>1. S \in UpTo(D, k + 1)
      BY <1>1, <2>1 DEF UpTo
    <3> QED
      BY <2>2, <3>1
  <2>4. ASSUME NEW S \in UpTo(D, k + 1) PROVE h[S] = AddOne(f, h, S)
    <3>1. \A x \in S : S \ {x} \in UpTo(D, k)
      BY <1>1, <1>2, <2>1 DEF UpTo
    <3>2. \A x \in S : g[S \ {x}] = h[S \ {x}]
      BY <2>3, <3>1
    <3>3. h[S] = AddOne(f, g, S)
      OBVIOUS
    <3> HIDE DEF h
    <3> QED
      BY <3>2, <3>3, AddOneLocal
  <2>5. h = [S \in UpTo(D, k + 1) |-> h[S]]
    OBVIOUS
  <2> HIDE DEF h
  <2>6. h = [S \in UpTo(D, k + 1) |-> AddOne(f, h, S)]
    BY <2>4, <2>5
  <2> QED
    BY <2>1, <2>6
<1>5. K = Nat
  <2>1. K \in SUBSET Nat
    OBVIOUS
  <2> HIDE DEF K
  <2> QED
    BY <1>3, <1>4, <2>1, Induction
<1> QED
  BY <1>5

\* The function behind Sum.
LEMMA SumExists ==
    ASSUME NEW f, NEW D, IsFiniteSet(D)
    PROVE  \E g : g = [S \in SUBSET D |-> AddOne(f, g, S)]
<1>1. Cardinality(D) \in Nat
  BY FS_CardinalityType
<1>2. UpTo(D, Cardinality(D)) = SUBSET D
  BY FS_Subset DEF UpTo
<1>3. \E g : g = [S \in UpTo(D, Cardinality(D)) |-> AddOne(f, g, S)]
  BY <1>1, SumUpTo
<1> QED
  BY <1>2, <1>3, Zenon

\* g has the sums of f over the subsets of D.
Adds(g, f, D) == g = [S \in SUBSET D |-> AddOne(f, g, S)]

\* Whichever element is taken out first.
LEMMA SumOrder ==
    ASSUME NEW D, IsFiniteSet(D), NEW f \in [D -> Int], NEW g, Adds(g, f, D)
    PROVE  \A S \in SUBSET D : g[S] \in Int /\ \A x \in S : g[S] = f[x] + g[S \ {x}]
<1> DEFINE P(S) == g[S] \in Int /\ \A x \in S : g[S] = f[x] + g[S \ {x}]
           K == {k \in Nat : \A S \in SUBSET D : Cardinality(S) <= k => P(S)}
<1>1. \A S \in SUBSET D : IsFiniteSet(S) /\ Cardinality(S) \in Nat
  BY FS_Subset, FS_CardinalityType
<1>2. \A S \in SUBSET D : \A x \in S : /\ S \ {x} \in SUBSET D
                                       /\ Cardinality(S \ {x}) = Cardinality(S) - 1
  BY <1>1, FS_RemoveElement
<1>3. \A S \in SUBSET D : g[S] = AddOne(f, g, S)
  BY DEF Adds
<1>4. 0 \in K
  <2>1. ASSUME NEW S \in SUBSET D, Cardinality(S) <= 0 PROVE P(S)
    <3>1. S = {}
      BY <1>1, <2>1, FS_EmptySet
    <3>2. g[S] = 0
      BY <1>3, <3>1 DEF AddOne
    <3> QED
      BY <3>1, <3>2
  <2> QED
    BY <2>1
<1>5. ASSUME NEW k \in K PROVE k + 1 \in K
  <2>1. k \in Nat /\ \A S \in SUBSET D : Cardinality(S) <= k => P(S)
    OBVIOUS
  <2>2. ASSUME NEW S \in SUBSET D, Cardinality(S) <= k + 1, S # {} PROVE P(S)
    <3> DEFINE c == CHOOSE x \in S : TRUE
    <3>1. S # {}
      BY <2>2
    <3>2. c \in S /\ c \in D
      BY <3>1
    <3>3. g[S] = f[c] + g[S \ {c}]
      BY <1>3, <3>1 DEF AddOne
    <3>4. \A x \in S : S \ {x} \in SUBSET D /\ Cardinality(S \ {x}) <= k
      BY <1>1, <1>2, <2>1, <2>2
    <3>5. \A x \in S : P(S \ {x})
      <4> HIDE DEF P
      <4> QED
        BY <2>1, <3>4
    <3> HIDE DEF c
    <3>6. f[c] \in Int /\ g[S \ {c}] \in Int
      BY <3>2, <3>5
    <3>7. ASSUME NEW y \in S, y # c PROVE g[S] = f[y] + g[S \ {y}]
      <4>1. y \in S \ {c} /\ c \in S \ {y}
        BY <3>2, <3>7
      <4>2. g[S \ {c}] = f[y] + g[(S \ {c}) \ {y}]
        BY <3>2, <3>5, <4>1
      <4>3. g[S \ {y}] = f[c] + g[(S \ {y}) \ {c}]
        BY <3>5, <4>1
      <4>4. (S \ {y}) \ {c} = (S \ {c}) \ {y}
        OBVIOUS
      <4>5. (S \ {c}) \ {y} \in SUBSET D /\ Cardinality((S \ {c}) \ {y}) <= k
        <5> DEFINE T == S \ {c}
        <5>1. T \in SUBSET D /\ Cardinality(T) <= k /\ y \in T
          BY <3>2, <3>4, <4>1
        <5>2. T \ {y} \in SUBSET D /\ Cardinality(T \ {y}) = Cardinality(T) - 1
          BY <1>2, <5>1
        <5>3. Cardinality(T) \in Nat
          BY <1>1, <5>1
        <5> QED
          BY <2>1, <5>1, <5>2, <5>3
      <4>6. f[y] \in Int /\ g[(S \ {c}) \ {y}] \in Int
        BY <2>1, <4>5
      <4>7. g[S \ {y}] = f[c] + g[(S \ {c}) \ {y}]
        BY <4>3, <4>4, Zenon
      <4> QED
        BY <3>3, <3>6, <4>2, <4>6, <4>7
    <3>8. g[S] \in Int
      BY <3>3, <3>6
    <3>9. \A x \in S : g[S] = f[x] + g[S \ {x}]
      BY <3>3, <3>7, Zenon
    <3> QED
      BY <3>8, <3>9, Zenon
  <2>3. P({})
    BY <1>3 DEF AddOne
  <2> HIDE DEF P
  <2>4. \A S \in SUBSET D : Cardinality(S) <= k + 1 => P(S)
    BY <2>2, <2>3, Zenon
  <2> QED
    BY <2>1, <2>4
<1>6. K = Nat
  <2>1. K \in SUBSET Nat
    OBVIOUS
  <2> HIDE DEF K
  <2> QED
    BY <1>4, <1>5, <2>1, Induction
<1> QED
  <2>1. ASSUME NEW S \in SUBSET D PROVE P(S)
    <3>1. Cardinality(S) \in K /\ Cardinality(S) <= Cardinality(S)
      <4> HIDE DEF K
      <4> QED
        BY <1>1, <1>6
    <3> HIDE DEF P
    <3> QED
      BY <3>1
  <2> QED
    BY <2>1, Zenon

LEMMA SumUnfolds ==
    ASSUME NEW D, IsFiniteSet(D), NEW f \in [D -> Int]
    PROVE  \E g : Adds(g, f, D) /\ Sum(f) = g[D]
<1> DEFINE g == CHOOSE g : g = [S \in SUBSET D |-> AddOne(f, g, S)]
<1>1. DOMAIN f = D
  OBVIOUS
<1>2. \E h : h = [S \in SUBSET D |-> AddOne(f, h, S)]
  BY SumExists
<1>3. g = [S \in SUBSET D |-> AddOne(f, g, S)]
  BY <1>2, Zenon
<1>4. Sum(f) = g[D]
  BY <1>1 DEF Sum, AddOne
<1> HIDE DEF g
<1> QED
  BY <1>3, <1>4 DEF Adds

\* Sums of functions that agree agree.
LEMMA SumAgree ==
    ASSUME NEW D, IsFiniteSet(D), NEW f \in [D -> Int],
           NEW g, Adds(g, f, D),
           NEW E \in SUBSET D, NEW e \in [E -> Int], \A x \in E : e[x] = f[x]
    PROVE  Sum(e) = g[E]
<1>1. IsFiniteSet(E)
  BY FS_Subset
<1>2. PICK h : Adds(h, e, E) /\ Sum(e) = h[E]
  BY <1>1, SumUnfolds
<1>3. \A S \in SUBSET D : g[S] \in Int /\ \A x \in S : g[S] = f[x] + g[S \ {x}]
  BY SumOrder
<1>4. \A S \in SUBSET E : h[S] \in Int /\ \A x \in S : h[S] = e[x] + h[S \ {x}]
  <2>1. Adds(h, e, E)
    BY <1>2
  <2> QED
    BY <1>1, <2>1, SumOrder
<1> DEFINE C == {S \in SUBSET E : g[S] = h[S]}
<1>5. {} \in C
  <2>1. g[{}] = AddOne(f, g, {}) /\ h[{}] = AddOne(e, h, {})
    BY <1>2 DEF Adds
  <2> QED
    BY <2>1 DEF AddOne
<1>6. ASSUME NEW T \in SUBSET E, NEW x \in E, T \in C, x \notin T PROVE T \union {x} \in C
  <2>1. (T \union {x}) \ {x} = T /\ T \union {x} \in SUBSET D /\ T \union {x} \in SUBSET E
    BY <1>6
  <2>2. g[T \union {x}] = f[x] + g[T]
    BY <1>3, <2>1
  <2>3. h[T \union {x}] = e[x] + h[T]
    BY <1>4, <2>1
  <2> QED
    BY <1>6, <2>1, <2>2, <2>3
<1>7. SUBSET E \subseteq C
  <2> HIDE DEF C
  <2> QED
    BY <1>1, <1>5, <1>6, SetInduction
<1> QED
  BY <1>2, <1>7

LEMMA SumEmpty == ASSUME NEW f, DOMAIN f = {} PROVE Sum(f) = 0
<1> DEFINE h == CHOOSE h : h = [S \in SUBSET DOMAIN f |-> AddOne(f, h, S)]
<1>2. IsFiniteSet(DOMAIN f)
  BY FS_EmptySet
<1>3. \E k : k = [S \in SUBSET DOMAIN f |-> AddOne(f, k, S)]
  BY <1>2, SumExists
<1>4. h = [S \in SUBSET DOMAIN f |-> AddOne(f, h, S)]
  BY <1>3, Zenon
<1>5. Sum(f) = h[DOMAIN f]
  BY DEF Sum, AddOne
<1> HIDE DEF h
<1>6. h[{}] = AddOne(f, h, {})
  BY <1>4
<1> QED
  BY <1>5, <1>6 DEF AddOne

LEMMA SumInt ==
    ASSUME NEW D, IsFiniteSet(D), NEW f \in [D -> Int]
    PROVE  Sum(f) \in Int
<1>1. PICK g : Adds(g, f, D) /\ Sum(f) = g[D]
  BY SumUnfolds
<1>2. \A S \in SUBSET D : g[S] \in Int
  BY <1>1, SumOrder
<1> QED
  BY <1>1, <1>2

\* A summand can be taken out.
LEMMA SumTake ==
    ASSUME NEW D, IsFiniteSet(D), NEW f \in [D -> Int], NEW x \in D,
           NEW e \in [D \ {x} -> Int], \A y \in D \ {x} : e[y] = f[y]
    PROVE  Sum(f) = f[x] + Sum(e)
<1>1. PICK g : Adds(g, f, D) /\ Sum(f) = g[D]
  BY SumUnfolds
<1>2. \A S \in SUBSET D : g[S] \in Int /\ \A y \in S : g[S] = f[y] + g[S \ {y}]
  BY <1>1, SumOrder
<1>3. Sum(e) = g[D \ {x}]
  BY <1>1, SumAgree
<1>4. g[D] = f[x] + g[D \ {x}]
  BY <1>2
<1> QED
  BY <1>1, <1>3, <1>4

LEMMA RestrictIs ==
    ASSUME NEW D, NEW R, NEW f \in [D -> R], NEW T \in SUBSET D
    PROVE  /\ Restrict(f, T) \in [T -> R]
           /\ \A x \in T : Restrict(f, T)[x] = f[x]
           /\ Restrict(f, D) = f
BY DEF Restrict

LEMMA SumGrow ==
    ASSUME NEW D, IsFiniteSet(D), NEW f \in [D -> Int], NEW T \in SUBSET D, NEW x \in D, x \notin T
    PROVE  Sum(Restrict(f, T \union {x})) = f[x] + Sum(Restrict(f, T))
<1> DEFINE U == T \union {x}
           r == Restrict(f, U)
           e == Restrict(f, T)
<1>1. U \in SUBSET D /\ IsFiniteSet(U) /\ U \ {x} = T
  BY FS_Subset
<1>2. r \in [U -> Int] /\ e \in [U \ {x} -> Int] /\ r[x] = f[x] /\ \A y \in U \ {x} : e[y] = r[y]
  BY <1>1 DEF Restrict
<1>3. x \in U
  OBVIOUS
<1> HIDE DEF U, r, e
<1>4. Sum(r) = r[x] + Sum(e)
  BY <1>1, <1>2, <1>3, SumTake
<1> QED
  BY <1>2, <1>4 DEF U, r, e

LEMMA SumNone ==
    ASSUME NEW D, NEW f \in [D -> Int]
    PROVE  Sum(Restrict(f, {})) = 0
<1>1. DOMAIN Restrict(f, {}) = {}
  BY DEF Restrict
<1> QED
  BY <1>1, SumEmpty

LEMMA SumPart ==
    ASSUME NEW D, IsFiniteSet(D), NEW f \in [D -> Int], NEW T \in SUBSET D
    PROVE  IsFiniteSet(T) /\ Restrict(f, T) \in [T -> Int] /\ Sum(Restrict(f, T)) \in Int
BY FS_Subset, RestrictIs, SumInt

LEMMA SumMono ==
    ASSUME NEW D, IsFiniteSet(D), NEW f \in [D -> Int], NEW g \in [D -> Int],
           \A x \in D : f[x] <= g[x]
    PROVE  Sum(f) <= Sum(g)
<1> DEFINE C == {T \in SUBSET D : Sum(Restrict(f, T)) <= Sum(Restrict(g, T))}
<1>1. {} \in C
  BY SumNone
<1>2. ASSUME NEW T \in SUBSET D, NEW x \in D, T \in C, x \notin T PROVE T \union {x} \in C
  <2>1. /\ Sum(Restrict(f, T \union {x})) = f[x] + Sum(Restrict(f, T))
        /\ Sum(Restrict(g, T \union {x})) = g[x] + Sum(Restrict(g, T))
    BY <1>2, SumGrow
  <2>2. Sum(Restrict(f, T)) \in Int /\ Sum(Restrict(g, T)) \in Int
    BY SumPart
  <2>3. Sum(Restrict(f, T)) <= Sum(Restrict(g, T)) /\ f[x] <= g[x] /\ f[x] \in Int /\ g[x] \in Int
    BY <1>2
  <2>4. Sum(Restrict(f, T \union {x})) <= Sum(Restrict(g, T \union {x}))
    BY <2>1, <2>2, <2>3
  <2> QED
    BY <2>4
<1>3. D \in C
  <2>1. SUBSET D \subseteq C
    <3> HIDE DEF C
    <3> QED
      BY <1>1, <1>2, SetInduction
  <2> QED
    BY <2>1
<1> QED
  BY <1>3, RestrictIs

\* Zeros add nothing.
LEMMA SumZero ==
    ASSUME NEW D, IsFiniteSet(D), NEW f \in [D -> Int], \A x \in D : f[x] = 0
    PROVE  Sum(f) = 0
<1> DEFINE C == {T \in SUBSET D : Sum(Restrict(f, T)) = 0}
<1>1. {} \in C
  BY SumNone
<1>2. ASSUME NEW T \in SUBSET D, NEW x \in D, T \in C, x \notin T PROVE T \union {x} \in C
  <2>1. Sum(Restrict(f, T \union {x})) = f[x] + Sum(Restrict(f, T))
    BY <1>2, SumGrow
  <2>2. Sum(Restrict(f, T \union {x})) = 0
    BY <1>2, <2>1
  <2> QED
    BY <2>2
<1>3. D \in C
  <2>1. SUBSET D \subseteq C
    <3> HIDE DEF C
    <3> QED
      BY <1>1, <1>2, SetInduction
  <2> QED
    BY <2>1
<1> QED
  BY <1>3, RestrictIs

LEMMA SumNat ==
    ASSUME NEW D, IsFiniteSet(D), NEW f \in [D -> Nat]
    PROVE  Sum(f) \in Nat
<1> DEFINE z == [x \in D |-> 0]
<1>1. f \in [D -> Int] /\ z \in [D -> Int] /\ \A x \in D : z[x] = 0 /\ z[x] <= f[x]
  OBVIOUS
<1> HIDE DEF z
<1>2. Sum(z) = 0 /\ Sum(z) <= Sum(f) /\ Sum(f) \in Int
  BY <1>1, SumZero, SumMono, SumInt
<1> QED
  BY <1>2

\* The sum over two parts.
LEMMA SumSplit ==
    ASSUME NEW D, IsFiniteSet(D), NEW f \in [D -> Int], NEW A \in SUBSET D
    PROVE  Sum(f) = Sum(Restrict(f, A)) + Sum(Restrict(f, D \ A))
<1> DEFINE B == D \ A
           C == {T \in SUBSET B : Sum(Restrict(f, A \union T)) =
                                     Sum(Restrict(f, A)) + Sum(Restrict(f, T))}
<1>1. {} \in C
  <2>1. A \union {} = A
    OBVIOUS
  <2> QED
    BY <2>1, SumNone, SumPart
<1>2. ASSUME NEW T \in SUBSET B, NEW x \in B, T \in C, x \notin T PROVE T \union {x} \in C
  <2>1. /\ T \in SUBSET D /\ x \in D /\ A \union T \in SUBSET D /\ x \notin A \union T
        /\ (A \union T) \union {x} = A \union (T \union {x})
    BY <1>2
  <2>2. Sum(Restrict(f, A \union (T \union {x}))) = f[x] + Sum(Restrict(f, A \union T))
    <3> DEFINE V == A \union T
               W == A \union (T \union {x})
    <3>1. V \in SUBSET D /\ x \notin V /\ V \union {x} = W
      BY <2>1
    <3> HIDE DEF V, W
    <3>2. Sum(Restrict(f, V \union {x})) = f[x] + Sum(Restrict(f, V))
      BY <2>1, <3>1, SumGrow
    <3>3. Sum(Restrict(f, W)) = f[x] + Sum(Restrict(f, V))
      BY <3>1, <3>2
    <3> QED
      BY <3>3 DEF V, W
  <2>3. Sum(Restrict(f, T \union {x})) = f[x] + Sum(Restrict(f, T))
    BY <1>2, <2>1, SumGrow
  <2>4. Sum(Restrict(f, A)) \in Int /\ Sum(Restrict(f, T)) \in Int /\ f[x] \in Int
    BY <2>1, SumPart
  <2>5. Sum(Restrict(f, A \union T)) = Sum(Restrict(f, A)) + Sum(Restrict(f, T))
    BY <1>2
  <2>6. Sum(Restrict(f, A \union (T \union {x}))) =
            Sum(Restrict(f, A)) + Sum(Restrict(f, T \union {x}))
    BY <2>2, <2>3, <2>4, <2>5
  <2> QED
    BY <2>6
<1>3. B \in C
  <2>1. IsFiniteSet(B)
    BY FS_Subset
  <2>2. SUBSET B \subseteq C
    <3> HIDE DEF B, C
    <3> QED
      BY <1>1, <1>2, <2>1, SetInduction
  <2> QED
    BY <2>2
<1>4. A \union B = D
  OBVIOUS
<1>5. Sum(Restrict(f, A \union B)) = Sum(Restrict(f, A)) + Sum(Restrict(f, B))
  BY <1>3
<1>6. Restrict(f, D) = f
  BY RestrictIs
<1> QED
  BY <1>4, <1>5, <1>6, Zenon

\* A function with one other value.
LEMMA SumBump ==
    ASSUME NEW D, IsFiniteSet(D), NEW f \in [D -> Int], NEW h \in [D -> Int], NEW x \in D,
           \A y \in D \ {x} : h[y] = f[y]
    PROVE  Sum(h) = Sum(f) - f[x] + h[x]
<1> DEFINE e == Restrict(f, D \ {x})
<1>1. e \in [D \ {x} -> Int] /\ \A y \in D \ {x} : e[y] = f[y] /\ e[y] = h[y]
  BY DEF Restrict
<1>2. IsFiniteSet(D \ {x})
  BY FS_RemoveElement
<1> HIDE DEF e
<1>3. Sum(f) = f[x] + Sum(e) /\ Sum(h) = h[x] + Sum(e)
  BY <1>1, SumTake
<1>4. Sum(e) \in Int /\ f[x] \in Int /\ h[x] \in Int
  BY <1>1, <1>2, SumInt
<1> QED
  BY <1>3, <1>4

\* A function with one argument more.
LEMMA SumMore ==
    ASSUME NEW D, IsFiniteSet(D), NEW f \in [D -> Int], NEW x, x \notin D,
           NEW h \in [D \union {x} -> Int], \A y \in D : h[y] = f[y]
    PROVE  Sum(h) = Sum(f) + h[x]
<1> DEFINE U == D \union {x}
<1>1. IsFiniteSet(U) /\ U \ {x} = D /\ x \in U
  BY FS_AddElement
<1>2. h \in [U -> Int] /\ f \in [U \ {x} -> Int] /\ \A y \in U \ {x} : f[y] = h[y]
  BY <1>1
<1> HIDE DEF U
<1>3. Sum(h) = h[x] + Sum(f)
  BY <1>1, <1>2, SumTake
<1>4. Sum(f) \in Int /\ h[x] \in Int
  BY <1>1, <1>2, SumInt
<1> QED
  BY <1>3, <1>4

\* Sums are additive.
LEMMA SumAdd ==
    ASSUME NEW D, IsFiniteSet(D), NEW f \in [D -> Int], NEW g \in [D -> Int],
           NEW h \in [D -> Int], \A x \in D : h[x] = f[x] + g[x]
    PROVE  Sum(h) = Sum(f) + Sum(g)
<1> DEFINE C == {T \in SUBSET D :
                   Sum(Restrict(h, T)) = Sum(Restrict(f, T)) + Sum(Restrict(g, T))}
<1>1. {} \in C
  BY SumNone
<1>2. ASSUME NEW T \in SUBSET D, NEW x \in D, T \in C, x \notin T PROVE T \union {x} \in C
  <2>1. /\ Sum(Restrict(f, T \union {x})) = f[x] + Sum(Restrict(f, T))
        /\ Sum(Restrict(g, T \union {x})) = g[x] + Sum(Restrict(g, T))
        /\ Sum(Restrict(h, T \union {x})) = h[x] + Sum(Restrict(h, T))
    BY <1>2, SumGrow
  <2>2. Sum(Restrict(f, T)) \in Int /\ Sum(Restrict(g, T)) \in Int
    BY SumPart
  <2>3. /\ Sum(Restrict(h, T)) = Sum(Restrict(f, T)) + Sum(Restrict(g, T))
        /\ h[x] = f[x] + g[x] /\ f[x] \in Int /\ g[x] \in Int
    BY <1>2
  <2>4. Sum(Restrict(h, T \union {x})) =
            Sum(Restrict(f, T \union {x})) + Sum(Restrict(g, T \union {x}))
    BY <2>1, <2>2, <2>3
  <2> QED
    BY <2>4
<1>3. D \in C
  <2>1. SUBSET D \subseteq C
    <3> HIDE DEF C
    <3> QED
      BY <1>1, <1>2, SetInduction
  <2> QED
    BY <2>1
<1> QED
  BY <1>3, RestrictIs

\* Summands may be renamed.
LEMMA SumRename ==
    ASSUME NEW D, IsFiniteSet(D), NEW E, NEW f \in [E -> Int], NEW b \in [D -> E],
           \A x, y \in D : b[x] = b[y] => x = y, \A y \in E : \E x \in D : b[x] = y,
           NEW h \in [D -> Int], \A x \in D : h[x] = f[b[x]]
    PROVE  Sum(h) = Sum(f)
<1> DEFINE Im(T) == {b[x] : x \in T}
           C == {T \in SUBSET D : Sum(Restrict(h, T)) = Sum(Restrict(f, Im(T)))}
<1>1. IsFiniteSet(E)
  <2>1. b \in Surjection(D, E)
    BY DEF Surjection
  <2> QED
    BY <2>1, FS_Surjection
<1>2. {} \in C
  <2>1. Im({}) = {}
    OBVIOUS
  <2>2. Sum(Restrict(h, {})) = 0 /\ Sum(Restrict(f, {})) = 0
    BY SumNone
  <2> QED
    BY <2>1, <2>2
<1>3. ASSUME NEW T \in SUBSET D, NEW x \in D, T \in C, x \notin T PROVE T \union {x} \in C
  <2>1. Im(T) \in SUBSET E /\ b[x] \in E /\ b[x] \notin Im(T) /\ Im(T \union {x}) = Im(T) \union {b[x]}
    BY <1>3
  <2>2. Sum(Restrict(h, T \union {x})) = h[x] + Sum(Restrict(h, T))
    BY <1>3, SumGrow
  <2>3. Sum(Restrict(h, T)) = Sum(Restrict(f, Im(T)))
    BY <1>3
  <2>4. Sum(Restrict(h, T \union {x})) = Sum(Restrict(f, Im(T \union {x})))
    <3> HIDE DEF Im
    <3>1. Sum(Restrict(f, Im(T) \union {b[x]})) = f[b[x]] + Sum(Restrict(f, Im(T)))
      BY <1>1, <2>1, SumGrow
    <3>2. h[x] = f[b[x]]
      OBVIOUS
    <3>3. Sum(Restrict(f, Im(T \union {x}))) = h[x] + Sum(Restrict(f, Im(T)))
      BY <2>1, <3>1, <3>2
    <3> QED
      BY <2>2, <2>3, <3>3
  <2> QED
    BY <2>4
<1>4. D \in C
  <2>1. SUBSET D \subseteq C
    <3> HIDE DEF C
    <3> QED
      BY <1>2, <1>3, SetInduction
  <2> QED
    BY <2>1
<1>5. Im(D) = E
  OBVIOUS
<1>6. Restrict(h, D) = h
  BY DEF Restrict
<1>7. Restrict(f, E) = f
  BY DEF Restrict
<1>8. Sum(Restrict(h, D)) = Sum(Restrict(f, Im(D)))
  BY <1>4
<1> HIDE DEF Im
<1> QED
  BY <1>5, <1>6, <1>7, <1>8

LEMMA ImageFinite ==
    ASSUME NEW D, IsFiniteSet(D), NEW f
    PROVE  IsFiniteSet({f[x] : x \in D})
<1> DEFINE T == {f[x] : x \in D}
           g == [x \in D |-> f[x]]
<1>1. g \in Surjection(D, T)
  BY DEF Surjection
<1> QED
  BY <1>1, FS_Surjection

\* A sum is the sum of the sums of its parts.
LEMMA SumBy ==
    ASSUME NEW D, IsFiniteSet(D), NEW f \in [D -> Int],
           NEW E, IsFiniteSet(E), NEW b \in [D -> E]
    PROVE  /\ [y \in E |-> Sum(Restrict(f, {x \in D : b[x] = y}))] \in [E -> Int]
           /\ Sum(f) = Sum([y \in E |-> Sum(Restrict(f, {x \in D : b[x] = y}))])
<1> DEFINE Part(T) == [y \in E |-> Sum(Restrict(f, {x \in T : b[x] = y}))]
           C == {T \in SUBSET D : Sum(Restrict(f, T)) = Sum(Part(T))}
<1>1. ASSUME NEW T \in SUBSET D PROVE Part(T) \in [E -> Int]
  <2>1. ASSUME NEW y \in E PROVE Sum(Restrict(f, {x \in T : b[x] = y})) \in Int
    <3>1. {x \in T : b[x] = y} \in SUBSET D
      OBVIOUS
    <3> QED
      BY <3>1, SumPart
  <2> QED
    BY <2>1
<1>2. {} \in C
  <2>1. ASSUME NEW y \in E PROVE Part({})[y] = 0
    <3>1. {x \in {} : b[x] = y} = {}
      OBVIOUS
    <3>2. Part({})[y] = Sum(Restrict(f, {}))
      BY <3>1
    <3> QED
      BY <3>2, SumNone
  <2>2. Part({}) \in [E -> Int]
    BY <1>1
  <2>3. Sum(Part({})) = 0
    <3> HIDE DEF Part
    <3> QED
      BY <2>1, <2>2, SumZero
  <2> QED
    BY <2>3, SumNone
<1>3. ASSUME NEW T \in SUBSET D, NEW z \in D, T \in C, z \notin T PROVE T \union {z} \in C
  <2> DEFINE F == Part(T)
             G == Part(T \union {z})
             y == b[z]
  <2>1. F \in [E -> Int] /\ G \in [E -> Int] /\ y \in E
    BY <1>1
  <2>2. \A v \in E \ {y} : G[v] = F[v]
    <3>1. ASSUME NEW v \in E \ {y} PROVE {x \in T \union {z} : b[x] = v} = {x \in T : b[x] = v}
      OBVIOUS
    <3> QED
      BY <3>1
  <2>3. G[y] = f[z] + F[y]
    <3> DEFINE S == {x \in T : b[x] = y}
    <3>1. {x \in T \union {z} : b[x] = y} = S \union {z} /\ S \in SUBSET D /\ z \notin S
      BY <1>3
    <3>2. G[y] = Sum(Restrict(f, S \union {z})) /\ F[y] = Sum(Restrict(f, S))
      BY <2>1, <3>1
    <3> HIDE DEF S
    <3>3. Sum(Restrict(f, S \union {z})) = f[z] + Sum(Restrict(f, S))
      BY <3>1, SumGrow
    <3> QED
      BY <3>2, <3>3
  <2>4. Sum(Restrict(f, T \union {z})) = f[z] + Sum(Restrict(f, T))
    BY <1>3, SumGrow
  <2>5. Sum(Restrict(f, T)) = Sum(F)
    BY <1>3
  <2> HIDE DEF F, G, y
  <2>6. Sum(G) = Sum(F) - F[y] + G[y]
    BY <2>1, <2>2, SumBump
  <2>7. Sum(F) \in Int /\ F[y] \in Int /\ f[z] \in Int
    BY <2>1, SumInt
  <2>8. Sum(Restrict(f, T \union {z})) = Sum(G)
    BY <2>3, <2>4, <2>5, <2>6, <2>7
  <2> QED
    BY <2>8 DEF G
<1>4. D \in C
  <2>1. SUBSET D \subseteq C
    <3> HIDE DEF C
    <3> QED
      BY <1>2, <1>3, SetInduction
  <2> QED
    BY <2>1
<1>5. Sum(f) = Sum(Part(D))
  BY <1>4, RestrictIs
<1> QED
  BY <1>1, <1>5

\* A larger sum.
LEMMA SumWithin ==
    ASSUME NEW B, IsFiniteSet(B), NEW A \in SUBSET B, NEW f \in [A -> Int], NEW g \in [B -> Int],
           \A x \in A : f[x] <= g[x], \A x \in B \ A : 0 <= g[x]
    PROVE  Sum(f) <= Sum(g)
<1>1. Sum(g) = Sum(Restrict(g, A)) + Sum(Restrict(g, B \ A))
  BY SumSplit
<1>2. IsFiniteSet(A) /\ Restrict(g, A) \in [A -> Int] /\ Sum(Restrict(g, A)) \in Int
  BY SumPart
<1>3. \A x \in A : Restrict(g, A)[x] = g[x]
  BY RestrictIs
<1>4. Sum(f) <= Sum(Restrict(g, A))
  BY <1>2, <1>3, SumMono
<1>5. Sum(Restrict(g, B \ A)) \in Nat
  <2>1. B \ A \in SUBSET B
    OBVIOUS
  <2>2. IsFiniteSet(B \ A) /\ Restrict(g, B \ A) \in [B \ A -> Int]
    BY <2>1, SumPart
  <2>3. \A x \in B \ A : Restrict(g, B \ A)[x] = g[x]
    BY DEF Restrict
  <2>4. Restrict(g, B \ A) \in [B \ A -> Nat]
    BY <2>2, <2>3
  <2> QED
    BY <2>2, <2>4, SumNat
<1>6. Sum(f) \in Int
  BY <1>2, SumInt
<1> QED
  BY <1>1, <1>2, <1>4, <1>5, <1>6

LEMMA SumScale ==
    ASSUME NEW D, IsFiniteSet(D), NEW f \in [D -> Int], NEW n \in Int,
           NEW h \in [D -> Int], \A x \in D : h[x] = n * f[x]
    PROVE  Sum(h) = n * Sum(f)
<1> DEFINE C == {T \in SUBSET D : Sum(Restrict(h, T)) = n * Sum(Restrict(f, T))}
<1>1. {} \in C
  BY SumNone
<1>2. ASSUME NEW T \in SUBSET D, NEW x \in D, T \in C, x \notin T PROVE T \union {x} \in C
  <2>1. /\ Sum(Restrict(f, T \union {x})) = f[x] + Sum(Restrict(f, T))
        /\ Sum(Restrict(h, T \union {x})) = h[x] + Sum(Restrict(h, T))
    BY <1>2, SumGrow
  <2>2. Sum(Restrict(f, T)) \in Int
    BY SumPart
  <2>3. Sum(Restrict(h, T)) = n * Sum(Restrict(f, T)) /\ h[x] = n * f[x] /\ f[x] \in Int
    BY <1>2
  <2>4. n * f[x] + n * Sum(Restrict(f, T)) = n * (f[x] + Sum(Restrict(f, T)))
    BY <2>2, <2>3
  <2>5. Sum(Restrict(h, T \union {x})) = n * Sum(Restrict(f, T \union {x}))
    BY <2>1, <2>3, <2>4
  <2> QED
    BY <2>5
<1>3. D \in C
  <2>1. SUBSET D \subseteq C
    <3> HIDE DEF C
    <3> QED
      BY <1>1, <1>2, SetInduction
  <2> QED
    BY <2>1
<1> QED
  BY <1>3, RestrictIs

\* One summand, and zeros.
LEMMA SumOnly ==
    ASSUME NEW D, IsFiniteSet(D), NEW f \in [D -> Int], NEW x \in D, \A y \in D \ {x} : f[y] = 0
    PROVE  Sum(f) = f[x]
<1> DEFINE z == [y \in D |-> 0]
<1>1. z \in [D -> Int] /\ \A y \in D : z[y] = 0
  OBVIOUS
<1> HIDE DEF z
<1>2. Sum(z) = 0
  BY <1>1, SumZero
<1>3. Sum(f) = Sum(z) - z[x] + f[x]
  BY <1>1, SumBump
<1> QED
  BY <1>1, <1>2, <1>3

LEMMA SumPositive ==
    ASSUME NEW D, IsFiniteSet(D), NEW f \in [D -> Nat \ {0}], D # {}
    PROVE  Sum(f) \in Nat \ {0}
<1>1. PICK x \in D : TRUE
  OBVIOUS
<1> DEFINE h == [y \in D |-> IF y = x THEN f[x] ELSE 0]
<1>2. h \in [D -> Int] /\ h[x] = f[x] /\ (\A y \in D \ {x} : h[y] = 0) /\ \A y \in D : h[y] <= f[y]
  OBVIOUS
<1> HIDE DEF h
<1>3. Sum(h) = f[x]
  BY <1>2, SumOnly
<1>4. f \in [D -> Int] /\ f \in [D -> Nat] /\ f[x] \in Nat \ {0}
  OBVIOUS
<1>5. Sum(h) <= Sum(f)
  BY <1>2, <1>4, SumMono
<1>6. Sum(f) \in Nat
  BY <1>4, SumNat
<1> QED
  BY <1>3, <1>4, <1>5, <1>6

LEMMA SumOfSome ==
    ASSUME NEW D, IsFiniteSet(D), NEW f \in [D -> Nat], NEW x \in D, f[x] # 0
    PROVE  Sum(f) \in Nat \ {0}
<1>1. PICK r : r = Restrict(f, D \ {x})
  OBVIOUS
<1>2. /\ r \in [D \ {x} -> Nat] /\ r \in [D \ {x} -> Int] /\ \A y \in D \ {x} : r[y] = f[y]
  BY <1>1 DEF Restrict
<1>3. IsFiniteSet(D \ {x})
  BY FS_RemoveElement
<1>4. f \in [D -> Int]
  OBVIOUS
<1>5. Sum(f) = f[x] + Sum(r)
  BY <1>2, <1>4, SumTake
<1>6. Sum(r) \in Nat
  BY <1>2, <1>3, SumNat
<1> QED
  BY <1>5, <1>6

\* Weights of values that are counted: value by value, or one by one.
OneByOne(D, a, c, w) == [x \in D |-> w[a[x]] * c[x]]
ByValue(D, a, c, w) ==
    Sum([n \in {a[x] : x \in D} |-> w[n] * Sum([x \in {y \in D : a[y] = n} |-> c[x]])])

LEMMA SumByValue ==
    ASSUME NEW D, IsFiniteSet(D), NEW a \in [D -> Int], NEW c \in [D -> Int], NEW w \in [Int -> Int]
    PROVE  /\ OneByOne(D, a, c, w) \in [D -> Int]
           /\ ByValue(D, a, c, w) = Sum(OneByOne(D, a, c, w))
<1> DEFINE N == {a[x] : x \in D}
           f == [x \in D |-> w[a[x]] * c[x]]
           At(n) == {y \in D : a[y] = n}
           G == [n \in N |-> Sum(Restrict(f, At(n)))]
           H == [n \in N |-> w[n] * Sum([x \in At(n) |-> c[x]])]
<1>1. f \in [D -> Int]
  <2>1. ASSUME NEW x \in D PROVE w[a[x]] * c[x] \in Int
    <3>1. w[a[x]] \in Int /\ c[x] \in Int
      OBVIOUS
    <3> QED
      BY <3>1
  <2> QED
    BY <2>1
<1>2. IsFiniteSet(N) /\ a \in [D -> N] /\ N \subseteq Int
  BY ImageFinite
<1>3. Sum(f) = Sum(G)
  BY <1>1, <1>2, SumBy
<1>4. ASSUME NEW n \in N PROVE Sum(Restrict(f, At(n))) = w[n] * Sum([x \in At(n) |-> c[x]])
  <2>1. At(n) \in SUBSET D
    OBVIOUS
  <2>2. IsFiniteSet(At(n)) /\ Restrict(f, At(n)) \in [At(n) -> Int]
    BY <1>1, <2>1, SumPart
  <2>3. [x \in At(n) |-> c[x]] \in [At(n) -> Int]
    OBVIOUS
  <2>4. \A x \in At(n) : Restrict(f, At(n))[x] = w[n] * [z \in At(n) |-> c[z]][x]
    <3>1. ASSUME NEW x \in At(n) PROVE f[x] = w[n] * c[x]
      OBVIOUS
    <3> QED
      BY <3>1 DEF Restrict
  <2>5. w[n] \in Int
    BY <1>2
  <2>6. PICK A, g, h : A = At(n) /\ g = [x \in At(n) |-> c[x]] /\ h = Restrict(f, At(n))
    OBVIOUS
  <2>7. Sum(h) = w[n] * Sum(g)
    <3>1. IsFiniteSet(A) /\ g \in [A -> Int] /\ h \in [A -> Int] /\ \A x \in A : h[x] = w[n] * g[x]
      BY <2>2, <2>3, <2>4, <2>6
    <3> QED
      BY <2>5, <3>1, SumScale
  <2> QED
    BY <2>6, <2>7
<1>5. G = H
  BY <1>4
<1> QED
  BY <1>1, <1>3, <1>5 DEF OneByOne, ByValue

-----------------------------------------------------------------------------
(* Filtered sequences. *)

\* One element more.
KeepOne(s, S, kept, i) ==
    IF i = 0 THEN <<>>
    ELSE IF s[i] \in S THEN Append(kept[i - 1], s[i]) ELSE kept[i - 1]

LEMMA KeepExists ==
    ASSUME NEW s, NEW S, NEW n \in Nat
    PROVE  \E g : g = [i \in 0 .. n |-> KeepOne(s, S, g, i)]
<1> DEFINE N == {k \in Nat : \E g : g = [i \in 0 .. k |-> KeepOne(s, S, g, i)]}
<1>1. 0 \in N
  <2>1. [i \in 0 .. 0 |-> <<>>] = [i \in 0 .. 0 |-> KeepOne(s, S, [j \in 0 .. 0 |-> <<>>], i)]
    BY DEF KeepOne
  <2> QED
    BY <2>1
<1>2. ASSUME NEW k \in N PROVE k + 1 \in N
  <2>1. PICK g : g = [i \in 0 .. k |-> KeepOne(s, S, g, i)]
    OBVIOUS
  <2> DEFINE h == [i \in 0 .. k + 1 |-> IF i <= k THEN g[i] ELSE KeepOne(s, S, g, i)]
  <2>2. ASSUME NEW i \in 0 .. k + 1 PROVE h[i] = KeepOne(s, S, h, i)
    <3>1. h[i] = KeepOne(s, S, g, i)
      BY <2>1
    <3>2. i = 0 \/ h[i - 1] = g[i - 1]
      OBVIOUS
    <3> HIDE DEF h
    <3> QED
      BY <3>1, <3>2 DEF KeepOne
  <2>3. h = [i \in 0 .. k + 1 |-> h[i]]
    OBVIOUS
  <2> HIDE DEF h
  <2>4. h = [i \in 0 .. k + 1 |-> KeepOne(s, S, h, i)]
    BY <2>2, <2>3
  <2>5. k + 1 \in Nat
    OBVIOUS
  <2> QED
    BY <2>4, <2>5
<1>3. N \in SUBSET Nat
  OBVIOUS
<1>4. N = Nat
  <2> HIDE DEF N
  <2> QED
    BY <1>1, <1>2, <1>3, Induction
<1> QED
  BY <1>4

\* o has the elements of s up to n that are in S, in their order; m are their places.
Places(s, S, n, o, m) ==
    /\ m \in [1 .. Len(o) -> 1 .. n]
    /\ \A i \in 1 .. Len(o) : o[i] = s[m[i]] /\ o[i] \in S
    /\ \A i, j \in 1 .. Len(o) : i < j => m[i] < m[j]
    /\ \A x \in 1 .. n : s[x] \in S => \E i \in 1 .. Len(o) : m[i] = x

LEMMA OnlyPlaces ==
    ASSUME NEW R, NEW s \in Seq(R), NEW S
    PROVE  Only(s, S) \in Seq(R) /\ \E m : Places(s, S, Len(s), Only(s, S), m)
<1> DEFINE n == Len(s)
<1>1. n \in Nat /\ \A i \in 1 .. n : s[i] \in R
  OBVIOUS
<1>2. \E g : g = [i \in 0 .. n |-> KeepOne(s, S, g, i)]
  BY <1>1, KeepExists
<1> DEFINE kept == CHOOSE g : g = [i \in 0 .. n |-> KeepOne(s, S, g, i)]
<1>3. kept = [i \in 0 .. n |-> KeepOne(s, S, kept, i)]
  BY <1>2
<1>4. Only(s, S) = kept[n]
  BY DEF Only, KeepOne
<1> HIDE DEF kept, n
<1> DEFINE N == {k \in Nat : k <= n => kept[k] \in Seq(R) /\ \E m : Places(s, S, k, kept[k], m)}
<1>5. 0 \in N
  <2>1. kept[0] = <<>>
    BY <1>1, <1>3 DEF KeepOne
  <2>2. Places(s, S, 0, kept[0], <<>>)
    BY <2>1 DEF Places
  <2>3. kept[0] \in Seq(R)
    BY <2>1
  <2>4. \E m : Places(s, S, 0, kept[0], m)
    BY <2>2
  <2> QED
    BY <2>3, <2>4
<1>6. ASSUME NEW k \in N PROVE k + 1 \in N
  <2>1. k \in Nat /\ k + 1 \in Nat
    OBVIOUS
  <2>2. ASSUME k + 1 <= n
        PROVE  kept[k + 1] \in Seq(R) /\ \E m : Places(s, S, k + 1, kept[k + 1], m)
    <3>1. k + 1 \in 0 .. n /\ k + 1 \in 1 .. n /\ k + 1 # 0 /\ (k + 1) - 1 = k /\ k <= n
      BY <1>1, <2>1, <2>2
    <3>2. kept[k] \in Seq(R) /\ \E m : Places(s, S, k, kept[k], m)
      BY <3>1
    <3>3. PICK m : Places(s, S, k, kept[k], m)
      BY <3>2
    <3>4. kept[k + 1] = KeepOne(s, S, kept, k + 1)
      BY <1>3, <3>1
    <3>5. CASE s[k + 1] \in S
      <4> DEFINE o == kept[k]
                 q == kept[k + 1]
                 z == s[k + 1]
                 w == [i \in 1 .. Len(o) + 1 |-> IF i = Len(o) + 1 THEN k + 1 ELSE m[i]]
      <4>1. q = Append(o, z)
        BY <3>1, <3>4, <3>5 DEF KeepOne
      <4>2. z \in R /\ o \in Seq(R)
        BY <1>1, <3>1, <3>2
      <4>3. Places(s, S, k, o, m)
        BY <3>3
      <4> HIDE DEF o, q
      <4>4. /\ q \in Seq(R) /\ Len(q) = Len(o) + 1 /\ Len(o) \in Nat
            /\ \A i \in 1 .. Len(o) : q[i] = o[i]
            /\ q[Len(o) + 1] = z
        BY <4>1, <4>2
      <4>5. \A i \in 1 .. Len(o) : m[i] \in 1 .. k
        BY <4>3 DEF Places
      <4>6. w \in [1 .. Len(q) -> 1 .. k + 1]
        BY <2>1, <4>4, <4>5
      <4>7. \A i \in 1 .. Len(q) : q[i] = s[w[i]] /\ q[i] \in S
        BY <3>5, <4>3, <4>4 DEF Places
      <4>8. ASSUME NEW i \in 1 .. Len(q), NEW j \in 1 .. Len(q), i < j PROVE w[i] < w[j]
        <5>1. i \in 1 .. Len(o) /\ w[i] = m[i] /\ m[i] \in 1 .. k
          BY <4>4, <4>5, <4>8
        <5>2. CASE j = Len(o) + 1
          BY <2>1, <4>4, <5>1, <5>2
        <5>3. CASE j # Len(o) + 1
          <6>1. j \in 1 .. Len(o) /\ w[j] = m[j]
            BY <4>4, <5>3
          <6> QED
            BY <4>3, <4>8, <5>1, <6>1 DEF Places
        <5> QED
          BY <5>2, <5>3
      <4>9. ASSUME NEW x \in 1 .. k + 1, s[x] \in S PROVE \E i \in 1 .. Len(q) : w[i] = x
        <5>1. CASE x = k + 1
          <6>1. Len(o) + 1 \in 1 .. Len(q) /\ w[Len(o) + 1] = k + 1
            BY <4>4
          <6> QED
            BY <5>1, <6>1
        <5>2. CASE x \in 1 .. k
          <6>1. PICK i \in 1 .. Len(o) : m[i] = x
            BY <4>3, <4>9, <5>2 DEF Places
          <6>2. i \in 1 .. Len(q) /\ w[i] = m[i]
            BY <4>4
          <6> HIDE DEF w
          <6> QED
            BY <6>1, <6>2
        <5>3. x = k + 1 \/ x \in 1 .. k
          BY <2>1
        <5> QED
          BY <5>1, <5>2, <5>3
      <4>10. Places(s, S, k + 1, q, w)
        <5> HIDE DEF w
        <5> QED
          BY <4>6, <4>7, <4>8, <4>9 DEF Places
      <4> QED
        BY <4>4, <4>10 DEF q
    <3>6. CASE s[k + 1] \notin S
      <4>1. kept[k + 1] = kept[k]
        BY <3>1, <3>4, <3>6 DEF KeepOne
      <4>2. Places(s, S, k + 1, kept[k], m)
        BY <2>1, <3>3, <3>6 DEF Places
      <4> QED
        BY <3>2, <4>1, <4>2
    <3> QED
      BY <3>5, <3>6
  <2> QED
    BY <2>1, <2>2
<1>7. N = Nat
  <2>1. N \in SUBSET Nat
    OBVIOUS
  <2> HIDE DEF N
  <2> QED
    BY <1>5, <1>6, <2>1, Induction
<1>8. n \in N
  BY <1>1, <1>7
<1>9. n <= n
  BY <1>1
<1> QED
  BY <1>4, <1>8, <1>9 DEF n

LEMMA OnlyFacts ==
    ASSUME NEW R, NEW s \in Seq(R), NEW S
    PROVE  Only(s, S) \in Seq(R) /\ ToSet(Only(s, S)) = ToSet(s) \cap S
<1> DEFINE o == Only(s, S)
<1>1. o \in Seq(R) /\ \E m : Places(s, S, Len(s), o, m)
  BY OnlyPlaces
<1>2. PICK m : Places(s, S, Len(s), o, m)
  BY <1>1
<1> HIDE DEF o
<1>3. DOMAIN o = 1 .. Len(o) /\ DOMAIN s = 1 .. Len(s)
  BY <1>1
<1>4. ToSet(o) \subseteq ToSet(s) \cap S
  BY <1>2, <1>3 DEF Places, ToSet
<1>5. ToSet(s) \cap S \subseteq ToSet(o)
  BY <1>2, <1>3 DEF Places, ToSet
<1> QED
  BY <1>1, <1>4, <1>5 DEF o

-----------------------------------------------------------------------------
(* Tags. *)

\* The set of the pairs of tags.
IsTagSet(T) == \A t, u \in T : t[1] = u[1] => t = u

LEMMA SeqIn ==
    ASSUME NEW Q, NEW s \in Seq(Q), NEW R, \A i \in 1 .. Len(s) : s[i] \in R
    PROVE  s \in Seq(R)
OBVIOUS

LEMMA TagsFacts ==
    ASSUME NEW tags, IsTags(tags)
    PROVE  /\ IsTagSet(ToSet(tags))
           /\ KeysOf(tags) = {t[1] : t \in ToSet(tags)}
           /\ Len(tags) \in Nat /\ DOMAIN tags = 1 .. Len(tags)
<1>1. tags \in Seq(ToSet(tags))
  BY DEF IsTags
<1>2. Len(tags) \in Nat /\ DOMAIN tags = 1 .. Len(tags)
  BY <1>1
<1>3. IsTagSet(ToSet(tags))
  BY DEF IsTags, IsTagSet, ToSet
<1>4. KeysOf(tags) = {t[1] : t \in ToSet(tags)}
  BY DEF KeysOf, ToSet
<1> QED
  BY <1>2, <1>3, <1>4

LEMMA NoTags == IsTags(<<>>) /\ ToSet(<<>>) = {}
BY DEF IsTags, ToSet

LEMMA OneTag ==
    ASSUME NEW t
    PROVE  IsTags(<<t>>) /\ ToSet(<<t>>) = {t}
<1>1. <<t>> \in Seq({t}) /\ DOMAIN <<t>> = {1} /\ <<t>>[1] = t
  OBVIOUS
<1>2. ToSet(<<t>>) = {t}
  BY <1>1 DEF ToSet
<1>3. IsTags(<<t>>)
  BY <1>1, <1>2 DEF IsTags
<1> QED
  BY <1>2, <1>3

LEMMA OnlyTags ==
    ASSUME NEW tags, IsTags(tags), NEW S
    PROVE  IsTags(Only(tags, S)) /\ ToSet(Only(tags, S)) = ToSet(tags) \cap S
<1> DEFINE o == Only(tags, S)
           R == ToSet(tags)
<1>1. tags \in Seq(R)
  BY DEF IsTags
<1>2. o \in Seq(R) /\ ToSet(o) = ToSet(tags) \cap S /\ \E m : Places(tags, S, Len(tags), o, m)
  BY <1>1, OnlyFacts, OnlyPlaces
<1>3. PICK m : Places(tags, S, Len(tags), o, m)
  BY <1>2
<1> HIDE DEF o
<1>4. DOMAIN o = 1 .. Len(o) /\ DOMAIN tags = 1 .. Len(tags) /\ Len(o) \in Nat /\ Len(tags) \in Nat
  BY <1>1, <1>2
<1>5. ASSUME NEW i \in DOMAIN o, NEW j \in DOMAIN o, o[i][1] = o[j][1] PROVE i = j
  <2>1. m[i] \in DOMAIN tags /\ m[j] \in DOMAIN tags /\ o[i] = tags[m[i]] /\ o[j] = tags[m[j]]
    BY <1>3, <1>4 DEF Places
  <2>2. m[i] = m[j]
    BY <1>5, <2>1 DEF IsTags
  <2>3. ~(i < j) /\ ~(j < i)
    BY <1>3, <1>4, <2>1, <2>2 DEF Places
  <2> QED
    BY <1>4, <2>3
<1>6. o \in Seq(ToSet(o))
  <2>1. \A i \in 1 .. Len(o) : o[i] \in ToSet(o)
    BY <1>4 DEF ToSet
  <2> QED
    BY <1>2, <2>1, SeqIn
<1>7. IsTags(o)
  BY <1>5, <1>6 DEF IsTags
<1> QED
  BY <1>2, <1>7 DEF o

LEMMA WithoutTags ==
    ASSUME NEW tags, IsTags(tags), NEW K
    PROVE  IsTags(Without(tags, K)) /\ ToSet(Without(tags, K)) = {t \in ToSet(tags) : t[1] \notin K}
<1>1. ToSet(tags) \cap {t \in ToSet(tags) : t[1] \notin K} = {t \in ToSet(tags) : t[1] \notin K}
  OBVIOUS
<1> QED
  BY <1>1, OnlyTags DEF Without

\* Tags after tags with other keys.
LEMMA MoreTags ==
    ASSUME NEW a, NEW b, IsTags(a), IsTags(b), \A t \in ToSet(a), u \in ToSet(b) : t[1] # u[1]
    PROVE  IsTags(a \o b) /\ ToSet(a \o b) = ToSet(a) \union ToSet(b)
<1> DEFINE R == ToSet(a) \union ToSet(b)
           c == a \o b
<1>1. a \in Seq(R) /\ b \in Seq(R)
  <2>1. a \in Seq(ToSet(a)) /\ b \in Seq(ToSet(b))
    BY DEF IsTags
  <2>2. (\A i \in 1 .. Len(a) : a[i] \in R) /\ (\A i \in 1 .. Len(b) : b[i] \in R)
    BY <2>1
  <2> QED
    BY <2>1, <2>2, SeqIn
<1>2. /\ Len(a) \in Nat /\ DOMAIN a = 1 .. Len(a)
      /\ Len(b) \in Nat /\ DOMAIN b = 1 .. Len(b)
      /\ c \in Seq(R) /\ Len(c) = Len(a) + Len(b) /\ DOMAIN c = 1 .. Len(a) + Len(b)
  BY <1>1
<1>3. \A i \in DOMAIN c : c[i] = IF i <= Len(a) THEN a[i] ELSE b[i - Len(a)]
  BY <1>1, <1>2
<1> HIDE DEF c
<1>4. \A i \in DOMAIN a : i \in DOMAIN c /\ c[i] = a[i]
  BY <1>2, <1>3
<1>5. \A i \in DOMAIN b : Len(a) + i \in DOMAIN c /\ c[Len(a) + i] = b[i]
  BY <1>2, <1>3
<1>6. \A i \in DOMAIN c : \/ i \in DOMAIN a /\ c[i] = a[i]
                          \/ i \notin DOMAIN a /\ i - Len(a) \in DOMAIN b /\ c[i] = b[i - Len(a)]
  BY <1>2, <1>3
<1>7. ToSet(c) = ToSet(a) \union ToSet(b)
  <2>1. ToSet(c) \subseteq ToSet(a) \union ToSet(b)
    BY <1>6 DEF ToSet
  <2>2. ToSet(a) \subseteq ToSet(c)
    BY <1>4 DEF ToSet
  <2>3. ToSet(b) \subseteq ToSet(c)
    BY <1>5 DEF ToSet
  <2> QED
    BY <2>1, <2>2, <2>3
<1>8. ASSUME NEW i \in DOMAIN c, NEW j \in DOMAIN c, c[i][1] = c[j][1] PROVE i = j
  <2>1. CASE i \in DOMAIN a /\ j \in DOMAIN a
    BY <1>6, <1>8, <2>1 DEF IsTags
  <2>2. CASE i \notin DOMAIN a /\ j \notin DOMAIN a
    <3>1. i - Len(a) = j - Len(a)
      BY <1>6, <1>8, <2>2 DEF IsTags
    <3> QED
      BY <1>2, <3>1
  <2>3. CASE i \in DOMAIN a /\ j \notin DOMAIN a
    BY <1>6, <1>8, <2>3 DEF ToSet
  <2>4. CASE i \notin DOMAIN a /\ j \in DOMAIN a
    BY <1>6, <1>8, <2>4 DEF ToSet
  <2> QED
    BY <2>1, <2>2, <2>3, <2>4
<1>9. IsTags(c)
  BY <1>2, <1>7, <1>8 DEF IsTags
<1> QED
  BY <1>7, <1>9 DEF c

LEMMA AppendIs ==
    ASSUME NEW R, NEW a \in Seq(R), NEW z \in R
    PROVE  Append(a, z) = a \o <<z>>
OBVIOUS

LEMMA OneMoreTag ==
    ASSUME NEW a, IsTags(a), NEW k, NEW x, \A t \in ToSet(a) : t[1] # k
    PROVE  IsTags(Append(a, <<k, x>>)) /\ ToSet(Append(a, <<k, x>>)) = ToSet(a) \union {<<k, x>>}
<1> DEFINE z == <<k, x>>
<1>1. z[1] = k
  OBVIOUS
<1> HIDE DEF z
<1>2. Append(a, z) = a \o <<z>>
  <2> DEFINE R == ToSet(a) \union {z}
  <2>1. a \in Seq(ToSet(a))
    BY DEF IsTags
  <2>2. a \in Seq(R) /\ z \in R
    <3>1. \A i \in 1 .. Len(a) : a[i] \in R
      BY <2>1
    <3> QED
      BY <2>1, <3>1, SeqIn
  <2> HIDE DEF R
  <2> QED
    BY <2>2, AppendIs
<1>3. IsTags(<<z>>) /\ ToSet(<<z>>) = {z}
  BY OneTag
<1>4. \A t \in ToSet(a), u \in ToSet(<<z>>) : t[1] # u[1]
  BY <1>1, <1>3
<1>5. IsTags(a \o <<z>>) /\ ToSet(a \o <<z>>) = ToSet(a) \union ToSet(<<z>>)
  BY <1>3, <1>4, MoreTags
<1> QED
  BY <1>2, <1>3, <1>5 DEF z

\* The pairs with other keys.
Others(A, K) == {t \in A : t[1] \notin K}

LEMMA OverIn ==
    ASSUME NEW A, NEW B, NEW t
    PROVE  t \in Over(A, B) <=> t \in A \/ (t \in B /\ \A u \in A : u[1] # t[1])
BY DEF Over

LEMMA OverNothing ==
    ASSUME NEW A
    PROVE  Over(A, {}) = A /\ Over({}, A) = A
BY DEF Over

LEMMA OverAssociates ==
    ASSUME NEW A, NEW B, NEW C
    PROVE  Over(Over(A, B), C) = Over(A, Over(B, C))
<1>1. ASSUME NEW t PROVE t \in Over(Over(A, B), C) <=> t \in Over(A, Over(B, C))
  <2>1. t \in Over(Over(A, B), C)
        <=> t \in Over(A, B) \/ (t \in C /\ \A u \in Over(A, B) : u[1] # t[1])
    BY OverIn
  <2>2. t \in Over(A, Over(B, C)) <=> t \in A \/ (t \in Over(B, C) /\ \A u \in A : u[1] # t[1])
    BY OverIn
  <2>3. t \in Over(B, C) <=> t \in B \/ (t \in C /\ \A u \in B : u[1] # t[1])
    BY OverIn
  <2>4. (\A u \in A \union B : u[1] # t[1]) => \A u \in Over(A, B) : u[1] # t[1]
    BY DEF Over
  <2>5. (\A u \in Over(A, B) : u[1] # t[1]) => \A u \in A \union B : u[1] # t[1]
    <3>1. ASSUME NEW u \in A, \A w \in Over(A, B) : w[1] # t[1] PROVE u[1] # t[1]
      BY <3>1 DEF Over
    <3>2. ASSUME NEW u \in B, \A w \in Over(A, B) : w[1] # t[1] PROVE u[1] # t[1]
      <4>1. CASE u \in Over(A, B)
        BY <3>2, <4>1
      <4>2. CASE u \notin Over(A, B)
        <5>1. PICK w \in A : w[1] = u[1]
          BY <4>2, OverIn
        <5> QED
          BY <3>1, <3>2, <5>1
      <4> QED
        BY <4>1, <4>2
    <3> QED
      BY <3>1, <3>2
  <2>6. t \in Over(A, B) <=> t \in A \/ (t \in B /\ \A u \in A : u[1] # t[1])
    BY OverIn
  <2> QED
    BY <2>1, <2>2, <2>3, <2>4, <2>5, <2>6
<1> QED
  BY <1>1

LEMMA OthersOver ==
    ASSUME NEW A, NEW B, NEW K
    PROVE  Others(Over(A, B), K) = Over(Others(A, K), Others(B, K))
<1>1. ASSUME NEW t PROVE t \in Others(Over(A, B), K) <=> t \in Over(Others(A, K), Others(B, K))
  BY Zenon DEF Over, Others
<1> QED
  BY <1>1

\* The keys of the second are all in the first.
LEMMA OverCovered ==
    ASSUME NEW A, NEW B, \A t \in B : \E u \in A : u[1] = t[1]
    PROVE  Over(A, B) = A
BY DEF Over

\* No key of the second is in the first.
LEMMA OverApart ==
    ASSUME NEW A, NEW B, \A t \in A, u \in B : t[1] # u[1]
    PROVE  Over(A, B) = A \union B
BY DEF Over

-----------------------------------------------------------------------------
(* What the callers of MetricsContext make of tags. *)

LEMMA OverTags ==
    ASSUME NEW a, NEW b, IsTags(a), IsTags(b)
    PROVE  LET c == a \o Without(b, KeysOf(a))
           IN IsTags(c) /\ ToSet(c) = Over(ToSet(a), ToSet(b))
<1> DEFINE w == Without(b, KeysOf(a))
<1>1. IsTags(w) /\ ToSet(w) = {t \in ToSet(b) : t[1] \notin KeysOf(a)}
  BY WithoutTags
<1>2. KeysOf(a) = {t[1] : t \in ToSet(a)}
  BY TagsFacts
<1> HIDE DEF w
<1>3. \A t \in ToSet(a), u \in ToSet(w) : t[1] # u[1]
  BY <1>1, <1>2
<1>4. IsTags(a \o w) /\ ToSet(a \o w) = ToSet(a) \union ToSet(w)
  BY <1>1, <1>3, MoreTags
<1>5. ToSet(a) \union ToSet(w) = Over(ToSet(a), ToSet(b))
  BY <1>1, <1>2 DEF Over
<1> QED
  BY <1>4, <1>5 DEF w

LEMMA MergeScenarioFacts ==
    ASSUME NEW tags, IsTags(tags), NEW K
    PROVE  /\ IsTags(MergeScenarioTags(tags, K))
           /\ ToSet(MergeScenarioTags(tags, K)) = Over(ToSet(tags), Others(ToSet(ScenarioTags), K))
<1> DEFINE w == Without(ScenarioTags, K \union KeysOf(tags))
<1>1. IsTags(w) /\ ToSet(w) = {t \in ToSet(ScenarioTags) : t[1] \notin K \union KeysOf(tags)}
  BY WithoutTags, RecordingAssumption
<1>2. KeysOf(tags) = {t[1] : t \in ToSet(tags)}
  BY TagsFacts
<1> HIDE DEF w
<1>3. \A t \in ToSet(tags), u \in ToSet(w) : t[1] # u[1]
  BY <1>1, <1>2
<1>4. IsTags(tags \o w) /\ ToSet(tags \o w) = ToSet(tags) \union ToSet(w)
  BY <1>1, <1>3, MoreTags
<1>5. ToSet(tags) \union ToSet(w) = Over(ToSet(tags), Others(ToSet(ScenarioTags), K))
  BY <1>1, <1>2 DEF Over, Others
<1> QED
  BY <1>4, <1>5 DEF w, MergeScenarioTags

LEMMA AddMissing ==
    ASSUME NEW tags, IsTags(tags), NEW k, NEW x
    PROVE  LET c == IF Has(tags, k) THEN tags ELSE Append(tags, <<k, x>>)
           IN IsTags(c) /\ ToSet(c) = Over(ToSet(tags), {<<k, x>>})
<1> DEFINE z == <<k, x>>
<1>0. z[1] = k
  OBVIOUS
<1> HIDE DEF z
<1>1. Has(tags, k) <=> \E t \in ToSet(tags) : t[1] = k
  <2>1. KeysOf(tags) = {t[1] : t \in ToSet(tags)}
    BY TagsFacts
  <2> QED
    BY <2>1 DEF Has
<1>2. CASE Has(tags, k)
  <2>1. Over(ToSet(tags), {z}) = ToSet(tags)
    <3>1. \A t \in {z} : \E u \in ToSet(tags) : u[1] = t[1]
      BY <1>0, <1>1, <1>2
    <3> QED
      BY <3>1, OverCovered
  <2> QED
    BY <1>2, <2>1 DEF z
<1>3. CASE ~Has(tags, k)
  <2>1. \A t \in ToSet(tags) : t[1] # k
    BY <1>1, <1>3
  <2>2. /\ IsTags(Append(tags, <<k, x>>))
        /\ ToSet(Append(tags, <<k, x>>)) = ToSet(tags) \union {<<k, x>>}
    BY <2>1, OneMoreTag
  <2>3. Over(ToSet(tags), {z}) = ToSet(tags) \union {z}
    <3>1. \A t \in ToSet(tags), u \in {z} : t[1] # u[1]
      BY <1>0, <2>1
    <3> QED
      BY <3>1, OverApart
  <2> QED
    BY <1>3, <2>2, <2>3 DEF z
<1> QED
  BY <1>2, <1>3

LEMMA AddGroupFacts ==
    ASSUME NEW tags, IsTags(tags), NEW g
    PROVE  /\ IsTags(AddGroup(tags, g))
           /\ ToSet(AddGroup(tags, g)) =
                  Over(ToSet(tags), IF g = NoGroup THEN {} ELSE {<<"group", g>>})
<1>1. CASE g = NoGroup
  BY <1>1, OverNothing DEF AddGroup
<1>2. CASE g # NoGroup
  <2>1. AddGroup(tags, g) = IF Has(tags, "group") THEN tags ELSE Append(tags, <<"group", g>>)
    BY <1>2 DEF AddGroup
  <2> QED
    BY <1>2, <2>1, AddMissing
<1> QED
  BY <1>1, <1>2

LEMMA MergeBaseFacts ==
    ASSUME NEW tags, IsTags(tags), NEW s, NEW K
    PROVE  /\ IsTags(MergeBaseTags(s, tags, K))
           /\ ToSet(MergeBaseTags(s, tags, K)) =
                  Over(Over(ToSet(tags), {<<"scenario", s>>}), Others(ToSet(ScenarioTags), K))
<1> DEFINE c == IF Has(tags, "scenario") THEN tags ELSE Append(tags, <<"scenario", s>>)
<1>2. IsTags(c) /\ ToSet(c) = Over(ToSet(tags), {<<"scenario", s>>})
  BY AddMissing
<1>3. MergeBaseTags(s, tags, K) = MergeScenarioTags(c, K)
  BY DEF MergeBaseTags
<1> HIDE DEF c
<1> QED
  BY <1>2, <1>3, MergeScenarioFacts
LEMMA SetTag ==
    ASSUME NEW tags, IsTags(tags), NEW k, NEW x
    PROVE  LET c == Append(Without(tags, {k}), <<k, x>>)
           IN IsTags(c) /\ ToSet(c) = Over({<<k, x>>}, ToSet(tags))
<1> DEFINE w == Without(tags, {k})
           z == <<k, x>>
<1>1. IsTags(w) /\ ToSet(w) = {t \in ToSet(tags) : t[1] \notin {k}}
  BY WithoutTags
<1>2. z[1] = k
  OBVIOUS
<1> HIDE DEF w
<1>3. \A t \in ToSet(w) : t[1] # k
  BY <1>1
<1>4. IsTags(Append(w, z)) /\ ToSet(Append(w, z)) = ToSet(w) \union {z}
  BY <1>1, <1>3, OneMoreTag
<1> HIDE DEF z
<1>5. ToSet(w) \union {z} = Over({z}, ToSet(tags))
  BY <1>1, <1>2 DEF Over
<1> QED
  BY <1>4, <1>5 DEF w, z

\* The tags of a call that are not the runner's.
Own(e) == Over(OfHttp(e), Over(OfCall(e), Over(OfScenario, InGroup(e))))

\* A call of scenario s in group g.
Of(s, g, c) == [scenario |-> s, group |-> g, call |-> c]

GroupTag(g) == IF g = NoGroup THEN {} ELSE {<<"group", g>>}

LEMMA OfScenarioIs ==
    /\ OfScenario = Others(ToSet(ScenarioTags), {"group"})
    /\ Others(Others(ToSet(ScenarioTags), Reserved \union {"group"}), Reserved)
         = Others(OfScenario, Reserved)
BY DEF OfScenario, Others

\* The tags that go with every series of a request.
LEMMA RestOf ==
    ASSUME NEW own, IsTags(own), NEW g, NEW H, NEW C, ToSet(own) = Over(H, C)
    PROVE  LET rest == Without(AddGroup(MergeScenarioTags(own, Reserved \union {"group"}), g), Reserved)
           IN /\ IsTags(rest)
              /\ ToSet(rest) = Others(Over(H, Over(C, Over(OfScenario, GroupTag(g)))), Reserved)
<1> DEFINE K == Reserved \union {"group"}
           m == MergeScenarioTags(own, K)
           a == AddGroup(m, g)
           r == Without(a, Reserved)
           S == Others(ToSet(ScenarioTags), K)
           G == GroupTag(g)
<1>1. IsTags(m) /\ ToSet(m) = Over(Over(H, C), S)
  BY MergeScenarioFacts
<1>2. IsTags(a) /\ ToSet(a) = Over(ToSet(m), G)
  <2> HIDE DEF m
  <2> QED
    BY <1>1, AddGroupFacts DEF GroupTag
<1>3. IsTags(r) /\ ToSet(r) = Others(ToSet(a), Reserved)
  <2> HIDE DEF a
  <2> QED
    BY <1>2, WithoutTags DEF Others
<1>4. ToSet(a) = Over(H, Over(C, Over(S, G)))
  <2>1. Over(Over(Over(H, C), S), G) = Over(Over(H, C), Over(S, G))
    BY OverAssociates
  <2>2. Over(Over(H, C), Over(S, G)) = Over(H, Over(C, Over(S, G)))
    BY OverAssociates
  <2> HIDE DEF a, m, S, G
  <2> QED
    BY <1>1, <1>2, <2>1, <2>2
<1>5. ASSUME NEW X
      PROVE  Others(Over(H, Over(C, Over(X, G))), Reserved)
               = Over(Others(H, Reserved), Over(Others(C, Reserved),
                      Over(Others(X, Reserved), Others(G, Reserved))))
  <2>1. Others(Over(H, Over(C, Over(X, G))), Reserved)
          = Over(Others(H, Reserved), Others(Over(C, Over(X, G)), Reserved))
    BY OthersOver
  <2>2. Others(Over(C, Over(X, G)), Reserved)
          = Over(Others(C, Reserved), Others(Over(X, G), Reserved))
    BY OthersOver
  <2>3. Others(Over(X, G), Reserved) = Over(Others(X, Reserved), Others(G, Reserved))
    BY OthersOver
  <2> HIDE DEF G
  <2> QED
    BY <2>1, <2>2, <2>3
<1>6. Others(S, Reserved) = Others(OfScenario, Reserved)
  BY OfScenarioIs
<1> HIDE DEF S, G, a
<1>7. Others(ToSet(a), Reserved) = Others(Over(H, Over(C, Over(OfScenario, G))), Reserved)
  BY <1>4, <1>5, <1>6
<1> QED
  BY <1>3, <1>7 DEF G, a

LEMMA HttpRest ==
    ASSUME NEW s, NEW g, NEW c, IsRequest(c), c.op = "http"
    PROVE  LET rest == Without(HttpTags(c, g), Reserved)
           IN IsTags(rest) /\ ToSet(rest) = Others(Own(Of(s, g, c)), Reserved)
<1> DEFINE T == ToSet(c.tags)
           M == <<"method", "GET">>
           N == <<"name", c.name>>
           method == Append(Without(c.tags, {"method"}), M)
           named == IF c.name = "" THEN method ELSE Append(Without(method, {"name"}), N)
           H == {M} \union (IF c.name = "" THEN {} ELSE {N})
<1>1. IsTags(c.tags)
  BY DEF IsRequest
<1>2. IsTags(method) /\ ToSet(method) = Over({M}, T)
  BY <1>1, SetTag
<1>3. IsTags(named) /\ ToSet(named) = Over(H, T)
  <2> HIDE DEF method, T
  <2>1. CASE c.name = ""
    <3>1. H = {M} /\ named = method
      BY <2>1
    <3> HIDE DEF H, named
    <3> QED
      BY <1>2, <3>1
  <2>2. CASE c.name # ""
    <3>1. H = {M} \union {N} /\ named = Append(Without(method, {"name"}), N)
      BY <2>2
    <3>2. IsTags(named) /\ ToSet(named) = Over({N}, ToSet(method))
      <4>1. /\ IsTags(Append(Without(method, {"name"}), N))
            /\ ToSet(Append(Without(method, {"name"}), N)) = Over({N}, ToSet(method))
        BY <1>2, SetTag
      <4> HIDE DEF named
      <4> QED
        BY <3>1, <4>1
    <3>3. N[1] = "name" /\ M[1] = "method"
      OBVIOUS
    <3> HIDE DEF N, M, H, named
    <3>4. Over({N}, {M}) = {N} \union {M}
      <4>1. \A t \in {N}, u \in {M} : t[1] # u[1]
        BY <3>3
      <4> QED
        BY <4>1, OverApart
    <3>5. Over({N}, Over({M}, T)) = Over(Over({N}, {M}), T)
      BY OverAssociates
    <3>6. {N} \union {M} = {M} \union {N}
      OBVIOUS
    <3> QED
      BY <1>2, <3>1, <3>2, <3>4, <3>5, <3>6
  <2> QED
    BY <2>1, <2>2
<1>4. HttpTags(c, g) = AddGroup(MergeScenarioTags(named, Reserved \union {"group"}), g)
  BY DEF HttpTags
<1>5. Own(Of(s, g, c)) = Over(H, Over(T, Over(OfScenario, GroupTag(g))))
  <2>1. OfHttp(Of(s, g, c)) = H
    BY DEF OfHttp, Of
  <2>2. OfCall(Of(s, g, c)) = T
    BY DEF OfCall, Of, Requested
  <2>3. InGroup(Of(s, g, c)) = GroupTag(g)
    BY DEF InGroup, Of, GroupTag
  <2> HIDE DEF H, T
  <2> QED
    BY <2>1, <2>2, <2>3 DEF Own
<1> HIDE DEF H, T, named
<1>6. LET rest == Without(AddGroup(MergeScenarioTags(named, Reserved \union {"group"}), g), Reserved)
      IN /\ IsTags(rest)
         /\ ToSet(rest) = Others(Over(H, Over(T, Over(OfScenario, GroupTag(g)))), Reserved)
  BY <1>3, RestOf
<1> QED
  BY <1>4, <1>5, <1>6

LEMMA GrpcRest ==
    ASSUME NEW s, NEW g, NEW c, IsRequest(c), c.op = "grpc"
    PROVE  LET rest == Without(GrpcTags(c, g), Reserved)
           IN IsTags(rest) /\ ToSet(rest) = Others(Own(Of(s, g, c)), Reserved)
<1> DEFINE T == ToSet(c.tags)
<1>1. IsTags(c.tags)
  BY DEF IsRequest
<1>2. T = Over({}, T)
  BY OverNothing
<1>3. GrpcTags(c, g) = AddGroup(MergeScenarioTags(c.tags, Reserved \union {"group"}), g)
  BY DEF GrpcTags
<1>4. Own(Of(s, g, c)) = Over({}, Over(T, Over(OfScenario, GroupTag(g))))
  <2>1. OfHttp(Of(s, g, c)) = {}
    BY DEF OfHttp, Of
  <2>2. OfCall(Of(s, g, c)) = T
    BY DEF OfCall, Of, Requested
  <2>3. InGroup(Of(s, g, c)) = GroupTag(g)
    BY DEF InGroup, Of, GroupTag
  <2> HIDE DEF T
  <2> QED
    BY <2>1, <2>2, <2>3 DEF Own
<1> HIDE DEF T
<1>5. LET rest == Without(AddGroup(MergeScenarioTags(c.tags, Reserved \union {"group"}), g), Reserved)
      IN /\ IsTags(rest)
         /\ ToSet(rest) = Others(Over({}, Over(T, Over(OfScenario, GroupTag(g)))), Reserved)
  <2>1. ToSet(c.tags) = Over({}, T)
    BY <1>2 DEF T
  <2> QED
    BY <1>1, <2>1, RestOf
<1> QED
  BY <1>3, <1>4, <1>5
-----------------------------------------------------------------------------
(* The updates of a call are what the documentation says it records. *)

LEMMA TwoTags ==
    ASSUME NEW a, NEW b, a[1] # b[1]
    PROVE  IsTags(<<a, b>>) /\ ToSet(<<a, b>>) = {a, b}
<1>1. /\ <<a, b>> \in Seq({a, b}) /\ DOMAIN <<a, b>> = {1, 2}
      /\ <<a, b>>[1] = a /\ <<a, b>>[2] = b
  OBVIOUS
<1>2. ToSet(<<a, b>>) = {a, b}
  BY <1>1 DEF ToSet
<1>3. IsTags(<<a, b>>)
  BY <1>1, <1>2 DEF IsTags
<1> QED
  BY <1>2, <1>3

LEMMA ThreeTags ==
    ASSUME NEW a, NEW b, NEW c, a[1] # b[1], a[1] # c[1], b[1] # c[1]
    PROVE  IsTags(<<a, b, c>>) /\ ToSet(<<a, b, c>>) = {a, b, c}
<1> DEFINE s == <<a, b, c>>
<1>1. s \in Seq({a, b, c}) /\ DOMAIN s = {1, 2, 3} /\ s[1] = a /\ s[2] = b /\ s[3] = c
  OBVIOUS
<1> HIDE DEF s
<1>2. ToSet(s) = {a, b, c}
  BY <1>1 DEF ToSet
<1>3. IsTags(s)
  BY <1>1, <1>2 DEF IsTags
<1> QED
  BY <1>2, <1>3 DEF s

\* What an update records.
Rec(u) == [metric |-> u.metric, value |-> u.value.n, tags |-> ToSet(u.tags)]

IsUpdate(u) ==
    /\ IsTags(u.tags)
    /\ u.kind \in Kinds
    /\ u.value.n \in Int

\* An update of a metric that the runner registers itself.
OfRunner(u) ==
    /\ u.metric \in DOMAIN Builtin
    /\ u.kind = Builtin[u.metric]
    /\ u.value.t = "integer"
    /\ u.value.n \in Nat

\* The updates are what is recorded of a call, each in a series of its own.
Faithful(us, e) ==
    /\ us \in Seq(ToSet(us)) /\ us # <<>>
    /\ \A u \in ToSet(us) : IsUpdate(u)
    /\ Recorded(e) = {Rec(u) : u \in ToSet(us)}
    /\ \A i, j \in DOMAIN us : KeyOf(us[i]) = KeyOf(us[j]) => i = j

LEMMA BuiltinIs ==
    /\ DOMAIN Builtin = Counters \union Histograms
    /\ \A m \in Counters : Builtin[m] = "Counter"
    /\ \A m \in Histograms : m \notin Counters /\ Builtin[m] = "Histogram"
<1>1. \A m \in Histograms : m \notin Counters
  BY DEF Counters, Histograms
<1> QED
  BY <1>1 DEF Builtin

LEMMA IncrementIs ==
    ASSUME NEW m \in Counters, NEW tags, IsTags(tags), NEW n \in Nat
    PROVE  LET u == Increment(m, tags, n)
           IN /\ IsUpdate(u) /\ OfRunner(u)
              /\ u.metric = m /\ u.tags = tags /\ u.value.n = n
              /\ KeyOf(u) = <<m, ToSet(tags)>>
              /\ Rec(u) = [metric |-> m, value |-> n, tags |-> ToSet(tags)]
<1> DEFINE u == Increment(m, tags, n)
<1>1. /\ u.metric = m /\ u.kind = "Counter" /\ u.tags = tags
      /\ u.value.t = "integer" /\ u.value.n = n
  BY DEF Increment, Update, Int64
<1> HIDE DEF u
<1>2. OfRunner(u)
  BY <1>1, BuiltinIs DEF OfRunner
<1>3. IsUpdate(u)
  BY <1>1 DEF IsUpdate, Kinds
<1> QED
  BY <1>1, <1>2, <1>3 DEF KeyOf, Rec, u

LEMMA ObserveIs ==
    ASSUME NEW m \in Histograms, NEW tags, IsTags(tags), NEW n \in Nat
    PROVE  LET u == Observe(m, tags, n)
               k == IF n < 1 THEN 1 ELSE n
           IN /\ IsUpdate(u) /\ OfRunner(u)
              /\ u.metric = m /\ u.tags = tags /\ u.value.n = k
              /\ KeyOf(u) = <<m, ToSet(tags)>>
              /\ Rec(u) = [metric |-> m, value |-> k, tags |-> ToSet(tags)]
<1> DEFINE u == Observe(m, tags, n)
           k == IF n < 1 THEN 1 ELSE n
<1>1. /\ u.metric = m /\ u.kind = "Histogram" /\ u.tags = tags
      /\ u.value.t = "integer" /\ u.value.n = k
  BY DEF Observe, Update, Int64
<1>2. k \in Nat
  OBVIOUS
<1> HIDE DEF u, k
<1>3. OfRunner(u)
  BY <1>1, <1>2, BuiltinIs DEF OfRunner
<1>4. IsUpdate(u)
  BY <1>1, <1>2 DEF IsUpdate, Kinds
<1> QED
  BY <1>1, <1>3, <1>4 DEF KeyOf, Rec, u, k

\* The tags of a series that a call goes to.
GoesTags(e, base) == Over(base, IF Requested(e) THEN Others(Own(e), Reserved) ELSE Own(e))

LEMMA GoesIs ==
    ASSUME NEW e, NEW m, NEW base, NEW n
    PROVE  Goes(e, m, base, n) = [metric |-> m, value |-> n, tags |-> GoesTags(e, base)]
BY DEF Goes, GoesTags, Own, Others

LEMMA IncrementGoes ==
    ASSUME NEW m \in Counters, NEW tags, IsTags(tags), NEW n \in Nat, NEW e, NEW base,
           ToSet(tags) = GoesTags(e, base)
    PROVE  LET u == Increment(m, tags, n)
           IN /\ IsUpdate(u) /\ OfRunner(u) /\ u.metric = m /\ u.tags = tags
              /\ Rec(u) = Goes(e, m, base, n)
<1>1. Goes(e, m, base, n) = [metric |-> m, value |-> n, tags |-> GoesTags(e, base)]
  BY GoesIs
<1> QED
  BY <1>1, IncrementIs

LEMMA ObserveGoes ==
    ASSUME NEW m \in Histograms, NEW tags, IsTags(tags), NEW n \in Nat, NEW e, NEW base,
           ToSet(tags) = GoesTags(e, base)
    PROVE  LET u == Observe(m, tags, n)
           IN /\ IsUpdate(u) /\ OfRunner(u) /\ u.metric = m /\ u.tags = tags
              /\ Rec(u) = Goes(e, m, base, IF n < 1 THEN 1 ELSE n)
<1> DEFINE k == IF n < 1 THEN 1 ELSE n
<1>1. Goes(e, m, base, k) = [metric |-> m, value |-> k, tags |-> GoesTags(e, base)]
  BY GoesIs
<1> QED
  BY <1>1, ObserveIs

LEMMA WithRest ==
    ASSUME NEW base, IsTags(base), NEW rest, IsTags(rest), NEW O,
           \A t \in ToSet(base) : t[1] \in Reserved, ToSet(rest) = Others(O, Reserved)
    PROVE  IsTags(base \o rest) /\ ToSet(base \o rest) = Over(ToSet(base), Others(O, Reserved))
<1>1. \A t \in ToSet(base), u \in ToSet(rest) : t[1] # u[1]
  BY DEF Others
<1>2. IsTags(base \o rest) /\ ToSet(base \o rest) = ToSet(base) \union ToSet(rest)
  BY <1>1, MoreTags
<1>3. Over(ToSet(base), ToSet(rest)) = ToSet(base) \union ToSet(rest)
  BY <1>1, OverApart
<1> QED
  BY <1>2, <1>3
LEMMA Concat ==
    ASSUME NEW R, NEW x \in Seq(R), NEW y \in Seq(R)
    PROVE  x \o y \in Seq(R) /\ Len(x \o y) = Len(x) + Len(y)
OBVIOUS

LEMMA ConcatAt ==
    ASSUME NEW R, NEW x \in Seq(R), NEW y \in Seq(R)
    PROVE  /\ \A i \in 1 .. Len(x) : (x \o y)[i] = x[i]
           /\ \A i \in 1 .. Len(y) : (x \o y)[Len(x) + i] = y[i]
OBVIOUS

LEMMA FiveUpdates ==
    ASSUME NEW a, NEW b, NEW c, NEW f, NEW h
    PROVE  LET us == <<a, b, c>> \o <<>> \o <<f, h>>
           IN /\ us \in Seq({a, b, c, f, h}) /\ us # <<>> /\ DOMAIN us = 1 .. 5
              /\ us[1] = a /\ us[2] = b /\ us[3] = c /\ us[4] = f /\ us[5] = h
              /\ ToSet(us) = {a, b, c, f, h}
<1> DEFINE us == <<a, b, c>> \o <<>> \o <<f, h>>
           R == {a, b, c, f, h}
           x == <<a, b, c>>
           y == <<f, h>>
<1>1. x \in Seq(R) /\ y \in Seq(R)
  OBVIOUS
<1>2. Len(x) = 3 /\ Len(y) = 2
  OBVIOUS
<1>3. x[1] = a /\ x[2] = b /\ x[3] = c /\ y[1] = f /\ y[2] = h
  OBVIOUS
<1> HIDE DEF R, x, y
<1>4. us = x \o y
  <2>1. x \o <<>> = x
    BY <1>1
  <2> QED
    BY <2>1 DEF x, y
<1> HIDE DEF us
<1>5. us \in Seq(R) /\ Len(us) = Len(x) + Len(y)
  BY <1>1, <1>4, Concat, Zenon
<1>6. Len(us) = 3 + 2
  BY <1>2, <1>5, Zenon
<1>7. (\A i \in 1 .. Len(x) : us[i] = x[i]) /\ (\A i \in 1 .. Len(y) : us[Len(x) + i] = y[i])
  <2>1. /\ \A i \in 1 .. Len(x) : (x \o y)[i] = x[i]
        /\ \A i \in 1 .. Len(y) : (x \o y)[Len(x) + i] = y[i]
    BY <1>1
  <2> QED
    BY <1>4, <2>1, Zenon
<1>8. (\A i \in 1 .. 3 : us[i] = x[i]) /\ (\A i \in 1 .. 2 : us[3 + i] = y[i])
  BY <1>2, <1>7, Zenon
<1>9. us[1] = a /\ us[2] = b /\ us[3] = c /\ us[3 + 1] = f /\ us[3 + 2] = h
  BY <1>3, <1>8
<1>10. /\ us \in Seq(R) /\ us # <<>> /\ DOMAIN us = 1 .. 5
       /\ us[1] = a /\ us[2] = b /\ us[3] = c /\ us[4] = f /\ us[5] = h
  <2>1. DOMAIN us = 1 .. Len(us)
    BY <1>5
  <2>2. Len(us) = 5
    BY <1>6
  <2>3. DOMAIN us = 1 .. 5
    BY <2>1, <2>2, Zenon
  <2>4. us # <<>>
    BY <2>3
  <2>5. us[1] = a /\ us[2] = b /\ us[3] = c /\ us[4] = f /\ us[5] = h
    BY <1>9
  <2> QED
    BY <1>5, <2>3, <2>4, <2>5, Zenon
<1>11. ToSet(us) = {a, b, c, f, h}
  BY <1>10 DEF ToSet
<1> QED
  BY <1>10, <1>11 DEF us, R

LEMMA SevenUpdates ==
    ASSUME NEW a, NEW b, NEW c, NEW d, NEW k, NEW f, NEW h
    PROVE  LET us == <<a, b, c>> \o <<d, k>> \o <<f, h>>
           IN /\ us \in Seq({a, b, c, d, k, f, h}) /\ us # <<>> /\ DOMAIN us = 1 .. 7
              /\ us[1] = a /\ us[2] = b /\ us[3] = c /\ us[4] = d /\ us[5] = k
              /\ us[6] = f /\ us[7] = h
              /\ ToSet(us) = {a, b, c, d, k, f, h}
<1> DEFINE us == <<a, b, c>> \o <<d, k>> \o <<f, h>>
           R == {a, b, c, d, k, f, h}
           x == <<a, b, c>>
           w == <<d, k>>
           y == <<f, h>>
           z == x \o w
<1>1. x \in Seq(R) /\ w \in Seq(R) /\ y \in Seq(R)
  OBVIOUS
<1>2. Len(x) = 3 /\ Len(w) = 2 /\ Len(y) = 2
  OBVIOUS
<1>3. x[1] = a /\ x[2] = b /\ x[3] = c /\ w[1] = d /\ w[2] = k /\ y[1] = f /\ y[2] = h
  OBVIOUS
<1>4. us = z \o y
  OBVIOUS
<1> HIDE DEF R, x, w, y, us
<1>5. z \in Seq(R) /\ Len(z) = Len(x) + Len(w)
  BY <1>1, Concat, Zenon
<1>6. (\A i \in 1 .. Len(x) : z[i] = x[i]) /\ (\A i \in 1 .. Len(w) : z[Len(x) + i] = w[i])
  BY <1>1
<1> HIDE DEF z
<1>7. us \in Seq(R) /\ Len(us) = Len(z) + Len(y)
  BY <1>1, <1>4, <1>5, Concat, Zenon
<1>8. (\A i \in 1 .. Len(z) : us[i] = z[i]) /\ (\A i \in 1 .. Len(y) : us[Len(z) + i] = y[i])
  <2>1. z \in Seq(R) /\ y \in Seq(R)
    BY <1>1, <1>5
  <2>2. /\ \A i \in 1 .. Len(z) : (z \o y)[i] = z[i]
        /\ \A i \in 1 .. Len(y) : (z \o y)[Len(z) + i] = y[i]
    BY <2>1
  <2> QED
    BY <1>4, <2>2, Zenon
<1>9. Len(z) = 3 + 2
  BY <1>2, <1>5, Zenon
<1>10. Len(z) = 5
  BY <1>9
<1>11. Len(us) = 5 + 2
  BY <1>2, <1>7, <1>10, Zenon
<1>12. (\A i \in 1 .. 3 : z[i] = x[i]) /\ (\A i \in 1 .. 2 : z[3 + i] = w[i])
  BY <1>2, <1>6, Zenon
<1>13. (\A i \in 1 .. 5 : us[i] = z[i]) /\ (\A i \in 1 .. 2 : us[5 + i] = y[i])
  BY <1>2, <1>8, <1>10, Zenon
<1>14. z[1] = a /\ z[2] = b /\ z[3] = c /\ z[3 + 1] = d /\ z[3 + 2] = k
  BY <1>3, <1>12
<1>15. /\ us[1] = a /\ us[2] = b /\ us[3] = c /\ us[4] = d /\ us[5] = k
       /\ us[5 + 1] = f /\ us[5 + 2] = h
  BY <1>3, <1>13, <1>14
<1>16. /\ us \in Seq(R) /\ us # <<>> /\ DOMAIN us = 1 .. 7
       /\ us[1] = a /\ us[2] = b /\ us[3] = c /\ us[4] = d /\ us[5] = k /\ us[6] = f /\ us[7] = h
  <2>1. DOMAIN us = 1 .. Len(us)
    BY <1>7
  <2>2. Len(us) = 7
    BY <1>11
  <2>3. DOMAIN us = 1 .. 7
    BY <2>1, <2>2, Zenon
  <2>4. us # <<>>
    BY <2>3
  <2>5. /\ us[1] = a /\ us[2] = b /\ us[3] = c /\ us[4] = d /\ us[5] = k
        /\ us[6] = f /\ us[7] = h
    BY <1>15
  <2> QED
    BY <1>7, <2>3, <2>4, <2>5, Zenon
<1>17. ToSet(us) = {a, b, c, d, k, f, h}
  BY <1>16 DEF ToSet
<1> QED
  BY <1>16, <1>17 DEF us, R

LEMMA RequestFaithful ==
    ASSUME NEW s, NEW g, NEW c, IsRequest(c), NEW extra,
           IsTags(Without(extra, Reserved)),
           ToSet(Without(extra, Reserved)) = Others(Own(Of(s, g, c)), Reserved)
    PROVE  LET us == RecordRequest(s, c.op, c, extra)
           IN Faithful(us, Of(s, g, c)) /\ \A u \in ToSet(us) : OfRunner(u)
<1> DEFINE e == Of(s, g, c)
           rest == Without(extra, Reserved)
           sc == <<"scenario", s>>
           pr == <<"protocol", c.op>>
           ek == <<"error_kind", c.error>>
           overall == <<sc>> \o rest
           scoped == <<sc, pr>> \o rest
           by_kind == <<sc, pr, ek>> \o rest
           O == Others(Own(e), Reserved)
<1>1. /\ sc[1] = "scenario" /\ pr[1] = "protocol" /\ ek[1] = "error_kind"
      /\ "scenario" \in Reserved /\ "protocol" \in Reserved /\ "error_kind" \in Reserved
  BY DEF Reserved
<1>2. c.op \in {"http", "grpc"} /\ c.ok \in BOOLEAN /\ c.latency \in Nat /\ c.received \in Nat
      /\ c.sent \in Nat
  BY DEF IsRequest
<1>3. IsTags(rest) /\ ToSet(rest) = O
  OBVIOUS
<1>4. e.call = c /\ e.scenario = s /\ Requested(e)
  BY <1>2 DEF Requested, Of
<1>5. \A B : GoesTags(e, B) = Over(B, O)
  BY <1>4 DEF GoesTags
<1>6. \A t \in O : t[1] \notin Reserved
  BY DEF Others
<1>7. /\ Recorded(e) =
           {Goes(e, "requests_total", {sc} \union {pr}, 1),
            Goes(e, "bytes_received_total", {sc} \union {pr}, IF c.ok THEN c.received ELSE 0),
            Goes(e, "bytes_sent_total", {sc} \union {pr},
                 IF c.ok \/ c.op = "grpc" THEN c.sent ELSE 0),
            Goes(e, "request_latency", {sc}, IF c.latency < 1 THEN 1 ELSE c.latency),
            Goes(e, "request_latency", {sc} \union {pr}, IF c.latency < 1 THEN 1 ELSE c.latency)}
           \union (IF c.ok THEN {}
                   ELSE {Goes(e, "request_errors_total", {sc} \union {pr}, 1),
                         Goes(e, "request_errors_by_kind_total", {sc} \union {pr} \union {ek}, 1)})
  BY <1>2, <1>4 DEF Recorded
<1> HIDE DEF sc, pr, ek, rest, O, e
<1>8. IsTags(overall) /\ ToSet(overall) = GoesTags(e, {sc})
  <2>1. IsTags(<<sc>>) /\ ToSet(<<sc>>) = {sc}
    BY OneTag
  <2>2. \A t \in ToSet(<<sc>>) : t[1] \in Reserved
    BY <1>1, <2>1
  <2>3. IsTags(overall) /\ ToSet(overall) = Over(ToSet(<<sc>>), O)
    BY <1>3, <2>1, <2>2, WithRest DEF O
  <2> QED
    BY <1>5, <2>1, <2>3
<1>9. IsTags(scoped) /\ ToSet(scoped) = GoesTags(e, {sc} \union {pr})
  <2>1. IsTags(<<sc, pr>>) /\ ToSet(<<sc, pr>>) = {sc, pr}
    BY <1>1, TwoTags
  <2>2. \A t \in ToSet(<<sc, pr>>) : t[1] \in Reserved
    BY <1>1, <2>1
  <2>3. IsTags(scoped) /\ ToSet(scoped) = Over(ToSet(<<sc, pr>>), O)
    BY <1>3, <2>1, <2>2, WithRest DEF O
  <2>4. {sc, pr} = {sc} \union {pr}
    OBVIOUS
  <2> QED
    BY <1>5, <2>1, <2>3, <2>4
<1>10. IsTags(by_kind) /\ ToSet(by_kind) = GoesTags(e, {sc} \union {pr} \union {ek})
  <2>1. IsTags(<<sc, pr, ek>>) /\ ToSet(<<sc, pr, ek>>) = {sc, pr, ek}
    BY <1>1, ThreeTags
  <2>2. \A t \in ToSet(<<sc, pr, ek>>) : t[1] \in Reserved
    BY <1>1, <2>1
  <2>3. IsTags(by_kind) /\ ToSet(by_kind) = Over(ToSet(<<sc, pr, ek>>), O)
    BY <1>3, <2>1, <2>2, WithRest DEF O
  <2>4. {sc, pr, ek} = {sc} \union {pr} \union {ek}
    OBVIOUS
  <2> QED
    BY <1>5, <2>1, <2>3, <2>4
<1>11. ToSet(overall) # ToSet(scoped)
  <2>1. pr \in ToSet(scoped)
    BY <1>5, <1>9 DEF Over
  <2>2. pr \notin ToSet(overall)
    <3>1. ToSet(overall) = Over({sc}, O)
      BY <1>5, <1>8
    <3>2. pr # sc /\ pr \notin O
      BY <1>1, <1>6
    <3> QED
      BY <3>1, <3>2 DEF Over
  <2> QED
    BY <2>1, <2>2
<1> DEFINE n1 == IF c.ok THEN c.received ELSE 0
           n2 == IF c.ok \/ c.op = "grpc" THEN c.sent ELSE 0
           n3 == IF c.latency < 1 THEN 1 ELSE c.latency
           u1 == Increment("requests_total", scoped, 1)
           u2 == Increment("bytes_received_total", scoped, n1)
           u3 == Increment("bytes_sent_total", scoped, n2)
           u4 == Increment("request_errors_total", scoped, 1)
           u5 == Increment("request_errors_by_kind_total", by_kind, 1)
           u6 == Observe("request_latency", overall, c.latency)
           u7 == Observe("request_latency", scoped, c.latency)
           us == RecordRequest(s, c.op, c, extra)
<1>12. n1 \in Nat /\ n2 \in Nat /\ 1 \in Nat
  BY <1>2
<1>13. us = <<u1, u2, u3>> \o (IF c.ok THEN <<>> ELSE <<u4, u5>>) \o <<u6, u7>>
  BY DEF RecordRequest, sc, pr, ek, rest
<1>14. /\ "requests_total" \in Counters /\ "bytes_received_total" \in Counters
       /\ "bytes_sent_total" \in Counters /\ "request_errors_total" \in Counters
       /\ "request_errors_by_kind_total" \in Counters /\ "request_latency" \in Histograms
  BY DEF Counters, Histograms
<1> HIDE DEF n1, n2, overall, scoped, by_kind
<1>21. /\ IsUpdate(u1) /\ OfRunner(u1) /\ u1.metric = "requests_total"
       /\ Rec(u1) = Goes(e, "requests_total", {sc} \union {pr}, 1)
  BY <1>9, <1>12, <1>14, IncrementGoes
<1>22. /\ IsUpdate(u2) /\ OfRunner(u2) /\ u2.metric = "bytes_received_total"
       /\ Rec(u2) = Goes(e, "bytes_received_total", {sc} \union {pr}, n1)
  BY <1>9, <1>12, <1>14, IncrementGoes
<1>23. /\ IsUpdate(u3) /\ OfRunner(u3) /\ u3.metric = "bytes_sent_total"
       /\ Rec(u3) = Goes(e, "bytes_sent_total", {sc} \union {pr}, n2)
  <2>1. "bytes_sent_total" \in Counters /\ n2 \in Nat
    BY <1>12, <1>14
  <2> QED
    BY <1>9, <2>1, IncrementGoes
<1>24. /\ IsUpdate(u4) /\ OfRunner(u4) /\ u4.metric = "request_errors_total"
       /\ Rec(u4) = Goes(e, "request_errors_total", {sc} \union {pr}, 1)
  BY <1>9, <1>12, <1>14, IncrementGoes
<1>25. /\ IsUpdate(u5) /\ OfRunner(u5) /\ u5.metric = "request_errors_by_kind_total"
       /\ Rec(u5) = Goes(e, "request_errors_by_kind_total", {sc} \union {pr} \union {ek}, 1)
  BY <1>10, <1>12, <1>14, IncrementGoes
<1>26. /\ IsUpdate(u6) /\ OfRunner(u6) /\ u6.metric = "request_latency" /\ u6.tags = overall
       /\ Rec(u6) = Goes(e, "request_latency", {sc}, n3)
  BY <1>2, <1>8, <1>14, ObserveGoes
<1>27. /\ IsUpdate(u7) /\ OfRunner(u7) /\ u7.metric = "request_latency" /\ u7.tags = scoped
       /\ Rec(u7) = Goes(e, "request_latency", {sc} \union {pr}, n3)
  BY <1>2, <1>9, <1>14, ObserveGoes
<1>28. KeyOf(u6) # KeyOf(u7)
  BY <1>11, <1>26, <1>27 DEF KeyOf
<1> HIDE DEF u1, u2, u3, u4, u5, u6, u7, us, n3
<1>30. CASE c.ok
  <2>1. us = <<u1, u2, u3>> \o <<>> \o <<u6, u7>>
    BY <1>13, <1>30
  <2>2. /\ us \in Seq(ToSet(us)) /\ us # <<>> /\ DOMAIN us = 1 .. 5
        /\ us[1] = u1 /\ us[2] = u2 /\ us[3] = u3 /\ us[4] = u6 /\ us[5] = u7
        /\ ToSet(us) = {u1, u2, u3, u6, u7}
    BY <2>1, FiveUpdates
  <2>3. Recorded(e) = {Rec(u1), Rec(u2), Rec(u3), Rec(u6), Rec(u7)}
    BY <1>7, <1>30, <1>21, <1>22, <1>23, <1>26, <1>27 DEF n1, n2, n3
  <2>4. Recorded(e) = {Rec(u) : u \in ToSet(us)}
    BY <2>2, <2>3
  <2>5. ASSUME NEW i \in DOMAIN us, NEW j \in DOMAIN us, KeyOf(us[i]) = KeyOf(us[j]) PROVE i = j
    <3>1. us[i].metric = us[j].metric
      BY <2>5 DEF KeyOf
    <3>2. i \in {1, 2, 3, 4, 5} /\ j \in {1, 2, 3, 4, 5}
      BY <2>2
    <3>3. i = j \/ (i = 4 /\ j = 5) \/ (i = 5 /\ j = 4)
      BY <1>21, <1>22, <1>23, <1>26, <1>27, <2>2, <3>1, <3>2
    <3> QED
      BY <1>28, <2>2, <2>5, <3>3
  <2>6. \A u \in ToSet(us) : IsUpdate(u) /\ OfRunner(u)
    BY <1>21, <1>22, <1>23, <1>26, <1>27, <2>2
  <2> QED
    BY <2>2, <2>4, <2>5, <2>6 DEF Faithful, us, e
<1>31. CASE ~c.ok
  <2>1. us = <<u1, u2, u3>> \o <<u4, u5>> \o <<u6, u7>>
    BY <1>13, <1>31
  <2>2. /\ us \in Seq(ToSet(us)) /\ us # <<>> /\ DOMAIN us = 1 .. 7
        /\ us[1] = u1 /\ us[2] = u2 /\ us[3] = u3 /\ us[4] = u4 /\ us[5] = u5
        /\ us[6] = u6 /\ us[7] = u7
        /\ ToSet(us) = {u1, u2, u3, u4, u5, u6, u7}
    BY <2>1, SevenUpdates
  <2>3. Recorded(e) = {Rec(u1), Rec(u2), Rec(u3), Rec(u6), Rec(u7)} \union {Rec(u4), Rec(u5)}
    BY <1>7, <1>31, <1>21, <1>22, <1>23, <1>24, <1>25, <1>26, <1>27 DEF n1, n2, n3
  <2>4. Recorded(e) = {Rec(u) : u \in ToSet(us)}
    BY <2>2, <2>3
  <2>5. ASSUME NEW i \in DOMAIN us, NEW j \in DOMAIN us, KeyOf(us[i]) = KeyOf(us[j]) PROVE i = j
    <3>1. us[i].metric = us[j].metric
      BY <2>5 DEF KeyOf
    <3>2. i \in {1, 2, 3, 4, 5, 6, 7} /\ j \in {1, 2, 3, 4, 5, 6, 7}
      BY <2>2
    <3>3. i = j \/ (i = 6 /\ j = 7) \/ (i = 7 /\ j = 6)
      BY <1>21, <1>22, <1>23, <1>24, <1>25, <1>26, <1>27, <2>2, <3>1, <3>2
    <3> QED
      BY <1>28, <2>2, <2>5, <3>3
  <2>6. \A u \in ToSet(us) : IsUpdate(u) /\ OfRunner(u)
    BY <1>21, <1>22, <1>23, <1>24, <1>25, <1>26, <1>27, <2>2
  <2> QED
    BY <2>2, <2>4, <2>5, <2>6 DEF Faithful, us, e
<1> QED
  BY <1>2, <1>30, <1>31
LEMMA OneFaithful ==
    ASSUME NEW u, IsUpdate(u), NEW e, Recorded(e) = {Rec(u)}
    PROVE  Faithful(<<u>>, e) /\ ToSet(<<u>>) = {u}
<1> DEFINE us == <<u>>
<1>1. us \in Seq({u}) /\ us # <<>> /\ DOMAIN us = {1} /\ us[1] = u
  OBVIOUS
<1> HIDE DEF us
<1>2. ToSet(us) = {u}
  BY <1>1 DEF ToSet
<1>3. \A i, j \in DOMAIN us : KeyOf(us[i]) = KeyOf(us[j]) => i = j
  BY <1>1
<1>4. Recorded(e) = {Rec(w) : w \in ToSet(us)}
  BY <1>2
<1> QED
  BY <1>1, <1>2, <1>3, <1>4 DEF Faithful, us

LEMMA CheckFaithful ==
    ASSUME NEW s, NEW g, NEW c, IsCheck(c)
    PROVE  LET us == RecordCheck(s, c, g)
           IN Faithful(us, Of(s, g, c)) /\ \A u \in ToSet(us) : OfRunner(u)
<1> DEFINE e == Of(s, g, c)
           sc == <<"scenario", s>>
           nm == <<"name", c.name>>
           st == <<"status", IF c.passed THEN "pass" ELSE "fail">>
           base == {sc} \union {st} \union {nm}
           a == <<nm, st>>
           m == MergeBaseTags(s, a, {"group"})
           t == AddGroup(m, g)
           u == Increment("checks", t, 1)
           G == GroupTag(g)
<1>1. sc[1] = "scenario" /\ nm[1] = "name" /\ st[1] = "status"
  OBVIOUS
<1>2. e.call = c /\ e.scenario = s /\ ~Requested(e) /\ c.op = "check"
  BY DEF Requested, Of, IsCheck
<1>3. Recorded(e) = {Goes(e, "checks", base, 1)}
  BY <1>2 DEF Recorded
<1>4. Own(e) = Over(OfScenario, G)
  <2>1. OfHttp(e) = {} /\ OfCall(e) = {} /\ InGroup(e) = G
    BY <1>2 DEF OfHttp, OfCall, InGroup, GroupTag, Of
  <2> HIDE DEF e, G
  <2> QED
    BY <2>1, OverNothing DEF Own
<1>5. GoesTags(e, base) = Over(base, Over(OfScenario, G))
  BY <1>2, <1>4 DEF GoesTags
<1> HIDE DEF sc, nm, st, e, G
<1>6. IsTags(a) /\ ToSet(a) = {nm, st}
  BY <1>1, TwoTags
<1> HIDE DEF a
<1>7. IsTags(m) /\ ToSet(m) = Over(Over(ToSet(a), {sc}), Others(ToSet(ScenarioTags), {"group"}))
  BY <1>6, MergeBaseFacts DEF sc
<1>8. Over({nm, st}, {sc}) = base
  <2>1. \A x \in {nm, st}, y \in {sc} : x[1] # y[1]
    BY <1>1
  <2>2. Over({nm, st}, {sc}) = {nm, st} \union {sc}
    BY <2>1, OverApart
  <2> QED
    BY <2>2
<1> HIDE DEF base, m
<1>9. IsTags(t) /\ ToSet(t) = Over(ToSet(m), G)
  BY <1>7, AddGroupFacts DEF G, GroupTag
<1>10. ToSet(t) = GoesTags(e, base)
  <2>1. Over(Over(base, OfScenario), G) = Over(base, Over(OfScenario, G))
    BY OverAssociates
  <2>2. OfScenario = Others(ToSet(ScenarioTags), {"group"})
    BY OfScenarioIs
  <2> HIDE DEF t
  <2> QED
    BY <1>5, <1>6, <1>7, <1>8, <1>9, <2>1, <2>2
<1> HIDE DEF t
<1>11. "checks" \in Counters /\ 1 \in Nat
  BY DEF Counters
<1>12. IsUpdate(u) /\ OfRunner(u) /\ Rec(u) = Goes(e, "checks", base, 1)
  BY <1>9, <1>10, <1>11, IncrementGoes
<1>13. RecordCheck(s, c, g) = <<u>>
  BY DEF RecordCheck, t, m, a, nm, st
<1> HIDE DEF u
<1>14. Faithful(<<u>>, e) /\ ToSet(<<u>>) = {u}
  BY <1>3, <1>12, OneFaithful
<1> QED
  BY <1>12, <1>13, <1>14 DEF e

LEMMA IterationFaithful ==
    ASSUME NEW s, NEW g, NEW success \in BOOLEAN
    PROVE  LET us == RecordIteration(s, success, 0)
           IN /\ Faithful(us, Of(s, g, [op |-> "iteration", success |-> success]))
              /\ \A u \in ToSet(us) : OfRunner(u)
<1> DEFINE c == [op |-> "iteration", success |-> success]
           e == Of(s, g, c)
           sc == <<"scenario", s>>
           st == <<"status", IF success THEN "success" ELSE "failure">>
           base == {sc} \union {st}
           K == {"scenario", "status", "group"}
           w == Without(ScenarioTags, K)
           t == <<sc, st>> \o w
           u == Increment("iterations_total", t, 1)
           r == Observe("iteration_duration", t, 0)
<1>1. sc[1] = "scenario" /\ st[1] = "status"
  OBVIOUS
<1>2. e.call = c /\ e.scenario = s /\ ~Requested(e) /\ c.op = "iteration" /\ c.success = success
  BY DEF Requested, Of
<1>3. Recorded(e) = {Goes(e, "iterations_total", base, 1), Goes(e, "iteration_duration", base, 1)}
  BY <1>2 DEF Recorded
<1>4. Own(e) = OfScenario
  <2>1. OfHttp(e) = {} /\ OfCall(e) = {} /\ InGroup(e) = {}
    BY <1>2 DEF OfHttp, OfCall, InGroup, Of
  <2> HIDE DEF e
  <2> QED
    BY <2>1, OverNothing DEF Own
<1>5. GoesTags(e, base) = Over(base, OfScenario)
  BY <1>2, <1>4 DEF GoesTags
<1> HIDE DEF sc, st, e
<1>6. IsTags(<<sc, st>>) /\ ToSet(<<sc, st>>) = {sc, st}
  BY <1>1, TwoTags
<1>7. IsTags(w) /\ ToSet(w) = {x \in ToSet(ScenarioTags) : x[1] \notin K}
  BY WithoutTags, RecordingAssumption
<1> HIDE DEF w
<1>8. \A x \in ToSet(<<sc, st>>), y \in ToSet(w) : x[1] # y[1]
  BY <1>1, <1>6, <1>7
<1>9. IsTags(t) /\ ToSet(t) = ToSet(<<sc, st>>) \union ToSet(w)
  BY <1>6, <1>7, <1>8, MoreTags
<1>10. ToSet(t) = GoesTags(e, base)
  <2>1. \A x : x \in Over(base, OfScenario) <=> x \in base \/ (x \in OfScenario /\ x[1] \notin {"scenario", "status"})
    BY <1>1 DEF Over
  <2>2. Over(base, OfScenario) = {sc, st} \union ToSet(w)
    BY <1>7, <2>1 DEF OfScenario
  <2> QED
    BY <1>5, <1>6, <1>9, <2>2
<1> HIDE DEF t, base
<1>11. "iterations_total" \in Counters /\ "iteration_duration" \in Histograms /\ 1 \in Nat /\ 0 \in Nat
  BY DEF Counters, Histograms
<1>12. /\ IsUpdate(u) /\ OfRunner(u) /\ u.metric = "iterations_total"
       /\ Rec(u) = Goes(e, "iterations_total", base, 1)
  BY <1>9, <1>10, <1>11, IncrementGoes
<1>13. /\ IsUpdate(r) /\ OfRunner(r) /\ r.metric = "iteration_duration"
       /\ Rec(r) = Goes(e, "iteration_duration", base, 1)
  <2>1. /\ IsUpdate(r) /\ OfRunner(r) /\ r.metric = "iteration_duration"
        /\ Rec(r) = Goes(e, "iteration_duration", base, IF 0 < 1 THEN 1 ELSE 0)
    BY <1>9, <1>10, <1>11, ObserveGoes
  <2>2. (IF 0 < 1 THEN 1 ELSE 0) = 1
    OBVIOUS
  <2> QED
    BY <2>1, <2>2
<1>14. RecordIteration(s, success, 0) = <<u, r>>
  BY DEF RecordIteration, t, w, sc, st
<1> DEFINE us == <<u, r>>
<1> HIDE DEF u, r
<1>15. us \in Seq({u, r}) /\ us # <<>> /\ DOMAIN us = {1, 2} /\ us[1] = u /\ us[2] = r
  OBVIOUS
<1> HIDE DEF us
<1>16. ToSet(us) = {u, r}
  BY <1>15 DEF ToSet
<1>17. Recorded(e) = {Rec(x) : x \in ToSet(us)}
  BY <1>3, <1>12, <1>13, <1>16
<1>18. ASSUME NEW i \in DOMAIN us, NEW j \in DOMAIN us, KeyOf(us[i]) = KeyOf(us[j]) PROVE i = j
  <2>1. us[i].metric = us[j].metric
    BY <1>18 DEF KeyOf
  <2> QED
    BY <1>12, <1>13, <1>15, <2>1
<1>19. \A x \in ToSet(us) : IsUpdate(x) /\ OfRunner(x)
  BY <1>12, <1>13, <1>16
<1>20. Faithful(us, e)
  BY <1>15, <1>16, <1>17, <1>18, <1>19 DEF Faithful
<1> QED
  BY <1>14, <1>19, <1>20 DEF us, e

LEMMA AddFaithful ==
    ASSUME NEW s, NEW g, NEW c, IsAdd(c)
    PROVE  \E u : /\ AddCustom(s, c, g) = <<u>>
                  /\ u.metric = c.metric /\ u.kind = c.kind /\ u.value = c.value
                  /\ Faithful(<<u>>, Of(s, g, c))
<1> DEFINE e == Of(s, g, c)
           sc == <<"scenario", s>>
           C == ToSet(c.tags)
           base == Over(C, {sc})
           m == MergeBaseTags(s, c.tags, {"group"})
           t == AddGroup(m, g)
           u == Update(c.metric, c.kind, t, c.value)
           G == GroupTag(g)
<1>1. IsTags(c.tags) /\ c.op = "add" /\ c.kind \in Kinds /\ c.value.n \in Int
  BY DEF IsAdd
<1>2. e.call = c /\ e.scenario = s /\ ~Requested(e) /\ OfCall(e) = C
  BY <1>1 DEF Requested, Of, OfCall
<1>3. Recorded(e) = {Goes(e, c.metric, base, c.value.n)}
  BY <1>1, <1>2 DEF Recorded
<1>4. Own(e) = Over(C, Over(OfScenario, G))
  <2>1. OfHttp(e) = {} /\ InGroup(e) = G
    BY <1>1, <1>2 DEF OfHttp, InGroup, GroupTag, Of
  <2> HIDE DEF e, G, C
  <2> QED
    BY <1>2, <2>1, OverNothing DEF Own
<1>5. GoesTags(e, base) = Over(base, Own(e))
  BY <1>2 DEF GoesTags
<1>6. IsTags(m) /\ ToSet(m) = Over(base, Others(ToSet(ScenarioTags), {"group"}))
  BY <1>1, MergeBaseFacts
<1> HIDE DEF e, sc, C, m, G
<1>7. IsTags(t) /\ ToSet(t) = Over(ToSet(m), G)
  BY <1>6, AddGroupFacts DEF G, GroupTag
<1>8. Over(base, C) = base
  <2>1. C \subseteq base
    BY DEF Over
  <2>2. \A x \in C : \E y \in base : y[1] = x[1]
    BY <2>1
  <2> HIDE DEF base
  <2> QED
    BY <2>2, OverCovered
<1> HIDE DEF base
<1>9. Over(base, Own(e)) = Over(base, Over(OfScenario, G))
  <2>1. Over(base, Over(C, Over(OfScenario, G))) = Over(Over(base, C), Over(OfScenario, G))
    BY OverAssociates
  <2> QED
    BY <1>4, <1>8, <2>1
<1>10. ToSet(t) = GoesTags(e, base)
  <2>1. Over(Over(base, OfScenario), G) = Over(base, Over(OfScenario, G))
    BY OverAssociates
  <2>2. OfScenario = Others(ToSet(ScenarioTags), {"group"})
    BY OfScenarioIs
  <2> HIDE DEF t
  <2> QED
    BY <1>5, <1>6, <1>7, <1>9, <2>1, <2>2
<1> HIDE DEF t
<1>11. u.metric = c.metric /\ u.kind = c.kind /\ u.value = c.value /\ u.tags = t
  BY DEF Update
<1>12. AddCustom(s, c, g) = <<u>>
  BY DEF AddCustom, t, m
<1> HIDE DEF u
<1>13. IsUpdate(u)
  BY <1>1, <1>7, <1>11 DEF IsUpdate
<1>14. Rec(u) = Goes(e, c.metric, base, c.value.n)
  <2>1. Goes(e, c.metric, base, c.value.n)
          = [metric |-> c.metric, value |-> c.value.n, tags |-> GoesTags(e, base)]
    BY GoesIs
  <2> QED
    BY <1>10, <1>11, <2>1 DEF Rec
<1>15. Faithful(<<u>>, e)
  BY <1>3, <1>13, <1>14, OneFaithful
<1> QED
  BY <1>11, <1>12, <1>15 DEF e
LEMMA FaithfulAt ==
    ASSUME NEW us, NEW e, Faithful(us, e)
    PROVE  /\ Reached(e) = {KeyOf(u) : u \in ToSet(us)}
           /\ \A u \in ToSet(us) : ValueAt(e, KeyOf(u)) = u.value.n
<1>1. Recorded(e) = {Rec(u) : u \in ToSet(us)}
  BY DEF Faithful
<1>2. \A u : Rec(u).metric = u.metric /\ Rec(u).tags = ToSet(u.tags) /\ Rec(u).value = u.value.n
  BY DEF Rec
<1>3. \A u : <<Rec(u).metric, Rec(u).tags>> = KeyOf(u)
  BY <1>2 DEF KeyOf
<1>4. Reached(e) = {KeyOf(u) : u \in ToSet(us)}
  BY <1>1, <1>3 DEF Reached
<1>5. ASSUME NEW u \in ToSet(us) PROVE ValueAt(e, KeyOf(u)) = u.value.n
  <2> DEFINE P(r) == <<r.metric, r.tags>> = KeyOf(u)
             r == CHOOSE r \in Recorded(e) : P(r)
  <2>1. \E x \in Recorded(e) : P(x)
    BY <1>1, <1>3
  <2>2. r \in Recorded(e) /\ P(r)
    BY <2>1
  <2>3. ValueAt(e, KeyOf(u)) = r.value
    BY DEF ValueAt
  <2> HIDE DEF r
  <2>4. PICK w \in ToSet(us) : r = Rec(w)
    BY <1>1, <2>2
  <2>5. KeyOf(w) = KeyOf(u)
    BY <1>3, <2>2, <2>4
  <2>6. w = u
    BY <2>5 DEF Faithful, ToSet
  <2> QED
    BY <1>2, <2>3, <2>4, <2>6
<1> QED
  BY <1>4, <1>5

IsCall(c) == IsRequest(c) \/ IsCheck(c) \/ IsAdd(c)

LEMMA UpdatesFaithful ==
    ASSUME NEW s, NEW g, NEW c, IsCall(c)
    PROVE  LET us == Updates(s, c, g)
           IN /\ Faithful(us, Of(s, g, c))
              /\ c.op # "add" => \A u \in ToSet(us) : OfRunner(u)
              /\ c.op = "add" => \A u \in ToSet(us) : /\ u.metric = c.metric /\ u.kind = c.kind
                                                      /\ u.value = c.value
<1>1. CASE IsRequest(c) /\ c.op = "http"
  <2>1. Updates(s, c, g) = RecordRequest(s, c.op, c, HttpTags(c, g))
    BY <1>1 DEF Updates
  <2> QED
    BY <1>1, <2>1, HttpRest, RequestFaithful
<1>2. CASE IsRequest(c) /\ c.op = "grpc"
  <2>1. Updates(s, c, g) = RecordRequest(s, c.op, c, GrpcTags(c, g))
    BY <1>2 DEF Updates
  <2> QED
    BY <1>2, <2>1, GrpcRest, RequestFaithful
<1>3. CASE IsCheck(c)
  <2>1. c.op = "check"
    BY <1>3 DEF IsCheck
  <2>2. Updates(s, c, g) = RecordCheck(s, c, g)
    BY <2>1 DEF Updates
  <2> QED
    BY <1>3, <2>1, <2>2, CheckFaithful
<1>4. CASE IsAdd(c)
  <2>1. c.op = "add"
    BY <1>4 DEF IsAdd
  <2>2. Updates(s, c, g) = AddCustom(s, c, g)
    BY <2>1 DEF Updates
  <2>3. PICK u : /\ AddCustom(s, c, g) = <<u>>
                 /\ u.metric = c.metric /\ u.kind = c.kind /\ u.value = c.value
                 /\ Faithful(<<u>>, Of(s, g, c))
    BY <1>4, AddFaithful
  <2>4. ToSet(<<u>>) = {u}
    BY OneTag
  <2> QED
    BY <2>1, <2>2, <2>3, <2>4
<1>5. IsRequest(c) => c.op \in {"http", "grpc"}
  BY DEF IsRequest
<1> QED
  BY <1>1, <1>2, <1>3, <1>4, <1>5 DEF IsCall

-----------------------------------------------------------------------------
(* Ids of keys. *)

\* Ids are handed out once.
IsIds(s) ==
    /\ s \in Seq(ToSet(s))
    /\ \A i, j \in DOMAIN s : s[i] = s[j] => i = j

LEMMA InternFacts ==
    ASSUME NEW s, IsIds(s), NEW tags, IsTags(tags)
    PROVE  IsIds(InternKeys(s, tags)) /\ ToSet(InternKeys(s, tags)) = ToSet(s) \union KeysOf(tags)
<1> DEFINE new == Without(tags, ToSet(s))
           b == [i \in DOMAIN new |-> new[i][1]]
           R == ToSet(s) \union KeysOf(tags)
           c == s \o b
<1>1. IsTags(new) /\ ToSet(new) = {t \in ToSet(tags) : t[1] \notin ToSet(s)}
  BY WithoutTags
<1>2. Len(new) \in Nat /\ DOMAIN new = 1 .. Len(new)
  BY <1>1, TagsFacts
<1>3. KeysOf(tags) = {t[1] : t \in ToSet(tags)}
  BY TagsFacts
<1>4. InternKeys(s, tags) = c
  BY DEF InternKeys
<1> HIDE DEF new
<1>5. \A i \in DOMAIN new : new[i] \in ToSet(new)
  BY DEF ToSet
<1>6. b \in Seq(R) /\ Len(b) = Len(new)
  <2>1. \A i \in DOMAIN new : b[i] \in R
    BY <1>1, <1>3, <1>5
  <2> QED
    BY <1>2, <2>1
<1>7. s \in Seq(R)
  <2>1. s \in Seq(ToSet(s))
    BY DEF IsIds
  <2>2. \A i \in 1 .. Len(s) : s[i] \in R
    BY <2>1
  <2> QED
    BY <2>1, <2>2, SeqIn
<1>8. \A i \in DOMAIN new : b[i] = new[i][1]
  OBVIOUS
<1> HIDE DEF b
<1>9. /\ c \in Seq(R) /\ DOMAIN c = 1 .. Len(s) + Len(new) /\ Len(s) \in Nat
      /\ DOMAIN s = 1 .. Len(s)
  BY <1>2, <1>6, <1>7
<1>10. \A i \in DOMAIN c : c[i] = IF i <= Len(s) THEN s[i] ELSE b[i - Len(s)]
  BY <1>6, <1>7, <1>9
<1> HIDE DEF c
<1>11. \A i \in DOMAIN s : i \in DOMAIN c /\ c[i] = s[i]
  BY <1>2, <1>9, <1>10
<1>12. \A i \in DOMAIN new : Len(s) + i \in DOMAIN c /\ c[Len(s) + i] = new[i][1]
  <2>1. ASSUME NEW i \in DOMAIN new PROVE Len(s) + i \in DOMAIN c /\ c[Len(s) + i] = new[i][1]
    <3>1. Len(s) + i \in DOMAIN c /\ ~(Len(s) + i <= Len(s)) /\ (Len(s) + i) - Len(s) = i
      BY <1>2, <1>9
    <3> QED
      BY <1>8, <1>10, <3>1
  <2> QED
    BY <2>1
<1>13. \A i \in DOMAIN c :
          \/ i \in DOMAIN s /\ c[i] = s[i]
          \/ i \notin DOMAIN s /\ i - Len(s) \in DOMAIN new /\ c[i] = new[i - Len(s)][1]
  <2>1. ASSUME NEW i \in DOMAIN c, i \notin DOMAIN s
        PROVE  i - Len(s) \in DOMAIN new /\ c[i] = new[i - Len(s)][1]
    <3>1. i - Len(s) \in DOMAIN new /\ ~(i <= Len(s))
      BY <1>2, <1>9, <2>1
    <3> QED
      BY <1>8, <1>10, <3>1
  <2> QED
    BY <1>11, <2>1
<1>14. \A i \in DOMAIN new : new[i][1] \in KeysOf(tags) /\ new[i][1] \notin ToSet(s)
  BY <1>1, <1>3, <1>5
<1>15. ToSet(c) = R
  <2>1. ToSet(c) \subseteq R
    BY <1>13, <1>14 DEF ToSet
  <2>2. ToSet(s) \subseteq ToSet(c)
    BY <1>11 DEF ToSet
  <2>3. ASSUME NEW k \in KeysOf(tags), k \notin ToSet(s) PROVE k \in ToSet(c)
    <3>1. PICK t \in ToSet(tags) : t[1] = k
      BY <1>3
    <3>2. t \in ToSet(new)
      BY <1>1, <2>3, <3>1
    <3>3. PICK i \in DOMAIN new : new[i] = t
      BY <3>2 DEF ToSet
    <3> QED
      BY <1>12, <3>1, <3>3 DEF ToSet
  <2> QED
    BY <2>1, <2>2, <2>3
<1>16. ASSUME NEW i \in DOMAIN c, NEW j \in DOMAIN c, c[i] = c[j] PROVE i = j
  <2>1. CASE i \in DOMAIN s /\ j \in DOMAIN s
    BY <1>13, <1>16, <2>1 DEF IsIds
  <2>2. CASE i \notin DOMAIN s /\ j \notin DOMAIN s
    <3>1. i - Len(s) = j - Len(s)
      BY <1>1, <1>13, <1>16, <2>2 DEF IsTags
    <3> QED
      BY <1>9, <3>1
  <2>3. CASE i \in DOMAIN s /\ j \notin DOMAIN s
    BY <1>13, <1>14, <1>16, <2>3 DEF ToSet
  <2>4. CASE i \notin DOMAIN s /\ j \in DOMAIN s
    BY <1>13, <1>14, <1>16, <2>4 DEF ToSet
  <2> QED
    BY <2>1, <2>2, <2>3, <2>4
<1>17. IsIds(c)
  BY <1>9, <1>15, <1>16 DEF IsIds
<1> QED
  BY <1>4, <1>15, <1>17
-----------------------------------------------------------------------------
(* Selectors. *)

\* f lists elements of K once each, and all of them.
Once(f, n, K) == f \in [1 .. n -> K] /\ \A i, j \in 1 .. n : f[i] = f[j] => i = j
All(f, n, K)  == f \in [1 .. n -> K] /\ \A x \in K : \E i \in 1 .. n : f[i] = x

LEMMA NoFewer ==
    ASSUME NEW K, NEW n \in Nat, NEW k \in Nat, NEW f, NEW g, Once(f, n, K), All(g, k, K)
    PROVE  n <= k
<1>0. /\ f \in [1 .. n -> K] /\ \A i, j \in 1 .. n : f[i] = f[j] => i = j
      /\ g \in [1 .. k -> K] /\ \A x \in K : \E i \in 1 .. k : g[i] = x
  BY DEF Once, All
<1>1. PICK h : h = [i \in 1 .. n |-> CHOOSE j \in 1 .. k : g[j] = f[i]]
  OBVIOUS
<1>2. \A i \in 1 .. n : h[i] \in 1 .. k /\ g[h[i]] = f[i]
  <2>1. ASSUME NEW i \in 1 .. n PROVE h[i] \in 1 .. k /\ g[h[i]] = f[i]
    <3>1. \E j \in 1 .. k : g[j] = f[i]
      BY <1>0
    <3> QED
      BY <1>1, <3>1
  <2> QED
    BY <2>1
<1>3. h \in [1 .. n -> 1 .. k]
  BY <1>1, <1>2
<1>4. /\ IsFiniteSet(1 .. n) /\ Cardinality(1 .. n) = n
      /\ IsFiniteSet(1 .. k) /\ Cardinality(1 .. k) = k
  BY FS_Interval
<1>5. ASSUME k < n PROVE FALSE
  <2>1. PICK S, T : S = 1 .. n /\ T = 1 .. k
    OBVIOUS
  <2>2. /\ IsFiniteSet(S) /\ IsFiniteSet(T) /\ Cardinality(T) < Cardinality(S) /\ h \in [S -> T]
    BY <1>3, <1>4, <1>5, <2>1
  <2>3. \E x, y \in S : x # y /\ h[x] = h[y]
    BY <2>2, FS_PigeonHole
  <2> QED
    BY <1>0, <1>2, <2>1, <2>3
<1> QED
  BY <1>5

LEMMA SameLength ==
    ASSUME NEW K, NEW n \in Nat, NEW k \in Nat, NEW f, NEW g,
           Once(f, n, K), All(f, n, K), Once(g, k, K), All(g, k, K)
    PROVE  n = k
<1>1. n <= k
  BY NoFewer
<1>2. k <= n
  BY NoFewer
<1> QED
  BY <1>1, <1>2

\* Numbers that grow within 1 .. n stay where they are.
Climbs(m, n) == m \in [1 .. n -> 1 .. n] /\ \A i, j \in 1 .. n : i < j => m[i] < m[j]

LEMMA InPlace ==
    ASSUME NEW n \in Nat, NEW m, Climbs(m, n)
    PROVE  \A i \in 1 .. n : m[i] = i
<1> USE DEF Climbs
<1> DEFINE L == {k \in Nat : k \in 1 .. n => m[k] >= k}
           U == {k \in Nat : k \in 0 .. n - 1 => m[n - k] <= n - k}
<1>1. L = Nat
  <2>1. 0 \in L
    OBVIOUS
  <2>2. ASSUME NEW k \in L PROVE k + 1 \in L
    <3>1. CASE k = 0
      BY <3>1
    <3>2. CASE k # 0 /\ k + 1 \in 1 .. n
      <4>1. k \in 1 .. n /\ m[k] >= k /\ m[k] < m[k + 1]
        BY <3>2
      <4>2. m[k] \in Int /\ m[k + 1] \in Int
        BY <3>2, <4>1
      <4> QED
        BY <4>1, <4>2
    <3> QED
      BY <3>1, <3>2
  <2>3. L \in SUBSET Nat
    OBVIOUS
  <2> HIDE DEF L
  <2> QED
    BY <2>1, <2>2, <2>3, Induction
<1>2. U = Nat
  <2>1. 0 \in U
    OBVIOUS
  <2>2. ASSUME NEW k \in U PROVE k + 1 \in U
    <3>1. ASSUME k + 1 \in 0 .. n - 1 PROVE m[n - (k + 1)] <= n - (k + 1)
      <4>1. k \in 0 .. n - 1 /\ n - k \in 1 .. n /\ n - (k + 1) \in 1 .. n /\ n - (k + 1) < n - k
        BY <3>1
      <4>2. m[n - k] <= n - k /\ m[n - (k + 1)] < m[n - k]
        BY <4>1
      <4>3. m[n - k] \in Int /\ m[n - (k + 1)] \in Int
        BY <4>1
      <4> QED
        BY <4>1, <4>2, <4>3
    <3> QED
      BY <3>1
  <2>3. U \in SUBSET Nat
    OBVIOUS
  <2> HIDE DEF U
  <2> QED
    BY <2>1, <2>2, <2>3, Induction
<1>3. ASSUME NEW i \in 1 .. n PROVE m[i] = i
  <2>0. i \in Nat /\ n - i \in Nat
    OBVIOUS
  <2>1. i \in L /\ n - i \in U
    BY <1>1, <1>2, <2>0, Zenon
  <2>2. m[i] >= i
    BY <2>1
  <2>3. n - (n - i) = i /\ n - i \in 0 .. n - 1
    OBVIOUS
  <2>4. m[n - (n - i)] <= n - (n - i)
    BY <2>1, <2>3
  <2>5. m[i] \in Int
    OBVIOUS
  <2> QED
    BY <2>2, <2>3, <2>4, <2>5
<1> QED
  BY <1>3

LEMMA OnlyAll ==
    ASSUME NEW R, NEW s \in Seq(R), NEW S, \A i \in 1 .. Len(s) : s[i] \in S
    PROVE  Only(s, S) = s
<1>1. PICK o, m, n, k : /\ o = Only(s, S) /\ n = Len(s) /\ k = Len(o)
                        /\ Places(s, S, n, o, m) /\ o \in Seq(R)
  BY OnlyPlaces
<1>2. /\ n \in Nat /\ k \in Nat /\ m \in [1 .. k -> 1 .. n]
      /\ \A i \in 1 .. k : o[i] = s[m[i]]
      /\ \A i, j \in 1 .. k : i < j => m[i] < m[j]
      /\ \A x \in 1 .. n : \E i \in 1 .. k : m[i] = x
  BY <1>1 DEF Places
<1>3. \A i, j \in 1 .. k : m[i] = m[j] => i = j
  <2>1. ASSUME NEW i \in 1 .. k, NEW j \in 1 .. k, m[i] = m[j] PROVE i = j
    <3>1. m[i] \in Int /\ m[j] \in Int /\ i \in Int /\ j \in Int
      BY <1>2
    <3>2. ~(i < j) /\ ~(j < i)
      BY <1>2, <2>1, <3>1
    <3> QED
      BY <3>1, <3>2
  <2> QED
    BY <2>1
<1>4. PICK g : g = [i \in 1 .. n |-> i]
  OBVIOUS
<1>5. PICK K : K = 1 .. n
  OBVIOUS
<1>6. k = n
  <2>1. Once(m, k, K) /\ All(m, k, K)
    BY <1>2, <1>3, <1>5 DEF Once, All
  <2>2. Once(g, n, K) /\ All(g, n, K)
    BY <1>4, <1>5 DEF Once, All
  <2> QED
    BY <1>2, <2>1, <2>2, SameLength
<1>7. \A i \in 1 .. n : m[i] = i
  <2>1. Climbs(m, n)
    BY <1>2, <1>6 DEF Climbs
  <2> QED
    BY <1>2, <2>1, InPlace
<1>8. /\ Len(o) = Len(s) /\ \A i \in 1 .. Len(s) : o[i] = s[i]
  BY <1>1, <1>2, <1>6, <1>7
<1> QED
  BY <1>1, <1>8
\* The keys of s are in some order.
InOrder(s, order) ==
    \A i, j \in DOMAIN s : i < j => Before(order, s[i][1], s[j][1])

\* An order has each key once.
LEMMA BeforeIsStrict ==
    ASSUME NEW order, IsIds(order), NEW a, NEW b, Before(order, a, b)
    PROVE  a # b /\ ~Before(order, b, a)
<1>1. DOMAIN order \subseteq Int
  BY DEF IsIds
<1> QED
  BY <1>1 DEF IsIds, Before

\* Tags that are in order already are not moved by sorting.
LEMMA SortedIs ==
    ASSUME NEW sel, IsTags(sel), NEW order, IsIds(order), InOrder(sel, order)
    PROVE  Sorted(sel, order) = sel
<1>1. PICK n, T : n = Len(sel) /\ T = ToSet(sel)
  OBVIOUS
<1>2. /\ n \in Nat /\ DOMAIN sel = 1 .. n
      /\ sel \in [1 .. n -> T] /\ \A t \in T : \E i \in 1 .. n : sel[i] = t
  <2>1. sel \in Seq(T)
    BY <1>1 DEF IsTags
  <2> QED
    BY <1>1, <2>1 DEF ToSet
<1> DEFINE Ascends(s) == \A i, j \in 1 .. n : i < j => Before(order, s[i][1], s[j][1])
<1>3. Sorted(sel, order) = CHOOSE s \in [1 .. n -> T] : Ascends(s)
  BY <1>1, <1>2 DEF Sorted
<1>4. Ascends(sel)
  BY <1>2 DEF InOrder
<1>5. ASSUME NEW s \in [1 .. n -> T], Ascends(s) PROVE s = sel
  <2>1. PICK m : m = [i \in 1 .. n |-> CHOOSE j \in 1 .. n : sel[j] = s[i]]
    OBVIOUS
  <2>2. \A i \in 1 .. n : m[i] \in 1 .. n /\ sel[m[i]] = s[i]
    <3>1. ASSUME NEW i \in 1 .. n PROVE m[i] \in 1 .. n /\ sel[m[i]] = s[i]
      <4>1. \E j \in 1 .. n : sel[j] = s[i]
        BY <1>2
      <4> QED
        BY <2>1, <4>1
    <3> QED
      BY <3>1
  <2>3. ASSUME NEW i \in 1 .. n, NEW j \in 1 .. n, i < j PROVE m[i] < m[j]
    <3>1. Before(order, s[i][1], s[j][1])
      BY <1>5, <2>3
    <3>2. s[i][1] # s[j][1] /\ ~Before(order, s[j][1], s[i][1])
      BY <3>1, BeforeIsStrict
    <3>3. m[i] \in 1 .. n /\ m[j] \in 1 .. n /\ sel[m[i]] = s[i] /\ sel[m[j]] = s[j]
      BY <2>2
    <3>4. m[i] # m[j]
      BY <3>2, <3>3
    <3>5. m[j] < m[i] => Before(order, sel[m[j]][1], sel[m[i]][1])
      BY <1>4, <3>3
    <3>6. ~(m[j] < m[i])
      BY <3>2, <3>3, <3>5
    <3> QED
      BY <3>3, <3>4, <3>6
  <2>4. Climbs(m, n)
    <3>1. m \in [1 .. n -> 1 .. n]
      BY <2>1, <2>2
    <3> QED
      BY <2>3, <3>1 DEF Climbs
  <2>5. \A i \in 1 .. n : m[i] = i
    BY <1>2, <2>4, InPlace
  <2>6. \A i \in 1 .. n : s[i] = sel[i]
    BY <2>2, <2>5
  <2> QED
    BY <1>2, <2>6
<1> HIDE DEF Ascends
<1>6. sel \in [1 .. n -> T]
  BY <1>2
<1> QED
  BY <1>3, <1>4, <1>5, <1>6

\* TagSet::project finds the selector's pairs if and only if they are all there.
LEMMA ProjectIs ==
    ASSUME NEW sel, IsTags(sel), NEW T, IsTagSet(T)
    PROVE  Project(T, [i \in DOMAIN sel |-> sel[i][1]]) = sel <=> ToSet(sel) \subseteq T
<1>1. PICK n, keys, K, o :
          /\ n = Len(sel) /\ keys = [i \in DOMAIN sel |-> sel[i][1]]
          /\ K = {t[1] : t \in T} /\ o = Only(keys, K)
  OBVIOUS
<1>2. /\ n \in Nat /\ DOMAIN sel = 1 .. n /\ sel = [i \in 1 .. n |-> sel[i]]
  <2>1. sel \in Seq(ToSet(sel))
    BY DEF IsTags
  <2> QED
    BY <1>1, <2>1
<1>3. /\ keys = [i \in 1 .. n |-> sel[i][1]] /\ DOMAIN keys = 1 .. n
      /\ \A i \in 1 .. n : keys[i] = sel[i][1]
  BY <1>1, <1>2
<1>4. PICK R : R = {sel[i][1] : i \in 1 .. n}
  OBVIOUS
<1>5. keys \in Seq(R) /\ Len(keys) = n
  <2>1. \A i \in 1 .. n : sel[i][1] \in R
    BY <1>4
  <2> QED
    BY <1>2, <1>3, <2>1
<1>6. o \in Seq(R) /\ ToSet(o) = ToSet(keys) \cap K
  BY <1>1, <1>5, OnlyFacts
<1>7. Project(T, keys) = [i \in DOMAIN o |-> CHOOSE t \in T : t[1] = o[i]]
  BY <1>1 DEF Project
<1>8. ASSUME ToSet(sel) \subseteq T PROVE Project(T, keys) = sel
  <2>1. \A i \in 1 .. n : sel[i] \in T
    BY <1>2, <1>8 DEF ToSet
  <2>2. \A i \in 1 .. Len(keys) : keys[i] \in K
    BY <1>1, <1>3, <1>5, <2>1
  <2>3. o = keys
    BY <1>1, <1>5, <2>2, OnlyAll
  <2>4. ASSUME NEW i \in 1 .. n PROVE (CHOOSE t \in T : t[1] = o[i]) = sel[i]
    <3>1. sel[i] \in T /\ o[i] = sel[i][1] /\ \A t \in T : t[1] = o[i] => t = sel[i]
      BY <1>3, <2>1, <2>3 DEF IsTagSet
    <3> QED
      BY <3>1
  <2>5. Project(T, keys) = [i \in 1 .. n |-> sel[i]]
    BY <1>3, <1>7, <2>3, <2>4
  <2> QED
    BY <1>2, <2>5
<1>9. ASSUME Project(T, keys) = sel PROVE ToSet(sel) \subseteq T
  <2>1. DOMAIN o = 1 .. n
    BY <1>2, <1>7, <1>9
  <2>2. ASSUME NEW i \in 1 .. n PROVE sel[i] \in T
    <3>1. o[i] \in ToSet(o)
      BY <2>1 DEF ToSet
    <3>2. o[i] \in K
      BY <1>6, <3>1
    <3>3. \E t \in T : t[1] = o[i]
      BY <1>1, <3>2
    <3>4. sel[i] = CHOOSE t \in T : t[1] = o[i]
      BY <1>7, <1>9, <2>1
    <3> QED
      BY <3>3, <3>4
  <2> QED
    BY <1>2, <2>2 DEF ToSet
<1> QED
  BY <1>1, <1>8, <1>9

\* TagSelector::matches, for a selector whose keys have ids in the order of their names.
LEMMA MatchesIs ==
    ASSUME NEW s, IsIds(s), NEW sel, IsTags(sel), InOrder(sel, InternKeys(s, sel)),
           NEW T, IsTagSet(T)
    PROVE  Matches(s, sel, T) <=> ToSet(sel) \subseteq T
<1>1. IsIds(InternKeys(s, sel))
  BY InternFacts
<1>2. Sorted(sel, InternKeys(s, sel)) = sel
  BY <1>1, SortedIs
<1>3. sel = <<>> => ToSet(sel) = {}
  BY DEF ToSet
<1> QED
  BY <1>2, <1>3, ProjectIs DEF Matches
\* Tags with different keys, all in some order, can be sorted.
LEMMA SortGives ==
    ASSUME NEW tags, IsTags(tags), NEW order, IsIds(order), KeysOf(tags) \subseteq ToSet(order)
    PROVE  IsTags(Sorted(tags, order)) /\ ToSet(Sorted(tags, order)) \subseteq ToSet(tags)
<1>1. PICK n, T, K, o : /\ n = Len(tags) /\ T = ToSet(tags) /\ K = KeysOf(tags)
                        /\ o = Only(order, K)
  OBVIOUS
<1>2. n \in Nat /\ DOMAIN tags = 1 .. n /\ \A i \in 1 .. n : tags[i] \in T
  BY <1>1, TagsFacts DEF ToSet
<1>3. /\ order \in Seq(ToSet(order)) /\ DOMAIN order = 1 .. Len(order)
      /\ \A i, j \in DOMAIN order : order[i] = order[j] => i = j
  BY DEF IsIds
<1>4. PICK m, k : /\ k = Len(o) /\ o \in Seq(ToSet(order)) /\ Places(order, K, Len(order), o, m)
  BY <1>1, <1>3, OnlyPlaces
<1>5. /\ k \in Nat /\ DOMAIN o = 1 .. k /\ m \in [1 .. k -> 1 .. Len(order)]
      /\ \A i \in 1 .. k : o[i] = order[m[i]] /\ o[i] \in K
      /\ \A i, j \in 1 .. k : i < j => m[i] < m[j]
  BY <1>4 DEF Places
<1>6. k = n
  <2>1. PICK f : f = [i \in 1 .. n |-> tags[i][1]]
    OBVIOUS
  <2>2. Once(f, n, K) /\ All(f, n, K)
    BY <1>1, <1>2, <2>1 DEF Once, All, IsTags, KeysOf
  <2>3. Once(o, k, K)
    <3>1. o \in [1 .. k -> K]
      BY <1>4, <1>5
    <3>2. ASSUME NEW i \in 1 .. k, NEW j \in 1 .. k, o[i] = o[j] PROVE i = j
      <4>1. m[i] = m[j]
        BY <1>3, <1>5, <3>2
      <4>2. m[i] \in Int /\ m[j] \in Int /\ i \in Int /\ j \in Int
        BY <1>3, <1>5
      <4>3. ~(i < j) /\ ~(j < i)
        BY <1>5, <4>1, <4>2
      <4> QED
        BY <4>2, <4>3
    <3> QED
      BY <3>1, <3>2 DEF Once
  <2>4. All(o, k, K)
    <3>1. ToSet(o) = ToSet(order) \cap K
      BY <1>1, <1>3, OnlyFacts
    <3>2. \A x \in K : \E i \in 1 .. k : o[i] = x
      BY <1>1, <1>5, <3>1 DEF ToSet
    <3> QED
      BY <2>3, <3>2 DEF All, Once
  <2> QED
    BY <1>2, <1>5, <2>2, <2>3, <2>4, SameLength
<1>7. PICK x : x = [i \in 1 .. n |-> CHOOSE t \in T : t[1] = o[i]]
  OBVIOUS
<1>8. \A i \in 1 .. n : x[i] \in T /\ x[i][1] = o[i]
  <2>1. ASSUME NEW i \in 1 .. n PROVE x[i] \in T /\ x[i][1] = o[i]
    <3>1. o[i] \in K
      BY <1>5, <1>6
    <3>2. \E t \in T : t[1] = o[i]
      BY <1>1, <1>2, <3>1 DEF KeysOf
    <3> QED
      BY <1>7, <3>2
  <2> QED
    BY <2>1
<1>9. x \in [1 .. n -> T] /\ \A i, j \in 1 .. n : i < j => Before(order, x[i][1], x[j][1])
  <2>1. ASSUME NEW i \in 1 .. n, NEW j \in 1 .. n, i < j PROVE Before(order, x[i][1], x[j][1])
    <3>1. m[i] < m[j] /\ m[i] \in DOMAIN order /\ m[j] \in DOMAIN order
      BY <1>3, <1>5, <1>6, <2>1
    <3>2. x[i][1] = order[m[i]] /\ x[j][1] = order[m[j]]
      BY <1>5, <1>6, <1>8
    <3> QED
      BY <3>1, <3>2 DEF Before
  <2> QED
    BY <1>7, <1>8, <2>1
<1>10. PICK s : s = Sorted(tags, order)
  OBVIOUS
<1>11. s \in [1 .. n -> T] /\ \A i, j \in 1 .. n : i < j => Before(order, s[i][1], s[j][1])
  <2> DEFINE Ascends(z) == \A i, j \in 1 .. n : i < j => Before(order, z[i][1], z[j][1])
  <2>1. s = CHOOSE z \in [1 .. n -> T] : Ascends(z)
    BY <1>1, <1>2, <1>10 DEF Sorted
  <2>2. \E z \in [1 .. n -> T] : Ascends(z)
    BY <1>9
  <2> HIDE DEF Ascends
  <2>3. s \in [1 .. n -> T] /\ Ascends(s)
    BY <2>1, <2>2
  <2> QED
    BY <2>3 DEF Ascends
<1>12. s \in Seq(T) /\ DOMAIN s = 1 .. n /\ ToSet(s) \subseteq T
  BY <1>2, <1>11 DEF ToSet
<1>13. s \in Seq(ToSet(s))
  <2>1. PICK R : R = ToSet(s)
    OBVIOUS
  <2>2. \A i \in 1 .. Len(s) : s[i] \in R
    <3>1. Len(s) = n
      BY <1>2, <1>12
    <3>2. \A i \in 1 .. n : s[i] \in ToSet(s)
      BY <1>12 DEF ToSet
    <3> QED
      BY <2>1, <3>1, <3>2
  <2>3. s \in Seq(R)
    BY <1>12, <2>2, SeqIn
  <2> QED
    BY <2>1, <2>3
<1>14. ASSUME NEW i \in DOMAIN s, NEW j \in DOMAIN s, s[i][1] = s[j][1] PROVE i = j
  <2>1. i \in Int /\ j \in Int /\ i \in 1 .. n /\ j \in 1 .. n
    BY <1>12
  <2>2. ~(i < j) /\ ~(j < i)
    BY <1>11, <1>14, <2>1, BeforeIsStrict
  <2> QED
    BY <2>1, <2>2
<1> QED
  BY <1>1, <1>10, <1>12, <1>13, <1>14 DEF IsTags

\* parse_threshold_metric_key: what it accepts is a selector with different keys.
LEMMA ParseKeyIs ==
    ASSUME NEW raw \in Keys, ParseKey(raw) # Refused
    PROVE  IsTags(ParseKey(raw).tags)
<1> DEFINE B     == {p \in ToSet(raw.parts) : p.form # "blank"}
           pairs == Only(raw.parts, B)
           tags  == [i \in DOMAIN pairs |-> <<pairs[i].k, pairs[i].v>>]
<1>1. /\ B = {p \in ToSet(raw.parts) : p.form # "blank"}
      /\ pairs = Only(raw.parts, B)
      /\ tags = [i \in DOMAIN pairs |-> <<pairs[i].k, pairs[i].v>>]
  BY Zenon
<1>2. ParseKey(raw) =
        IF raw.name = "" THEN Refused
        ELSE IF ~raw.braces THEN [ok |-> TRUE, metric |-> raw.name, tags |-> <<>>]
        ELSE IF \/ ~raw.closed
                \/ \E i \in DOMAIN pairs : BadPair(pairs[i])
                \/ \E i, j \in DOMAIN tags : i # j /\ tags[i][1] = tags[j][1]
                \/ tags = <<>>
             THEN Refused
        ELSE [ok |-> TRUE, metric |-> raw.name, tags |-> Sorted(tags, Alphabet)]
  BY Zenon DEF ParseKey
<1> HIDE DEF B, pairs, tags
<1>3. CASE ParseKey(raw) = [ok |-> TRUE, metric |-> raw.name, tags |-> <<>>]
  <2>1. ParseKey(raw).tags = <<>>
    BY <1>3
  <2> QED
    BY <2>1, NoTags
<1>4. CASE /\ ~\E i \in DOMAIN pairs : BadPair(pairs[i])
           /\ ~\E i, j \in DOMAIN tags : i # j /\ tags[i][1] = tags[j][1]
           /\ ParseKey(raw) = [ok |-> TRUE, metric |-> raw.name, tags |-> Sorted(tags, Alphabet)]
  <2>1. PICK R : R = ToSet(raw.parts)
    OBVIOUS
  <2>2. raw.parts \in Seq(R)
    BY <2>1, ThresholdAssumption
  <2>3. pairs \in Seq(R) /\ ToSet(pairs) = R \cap B
    BY <1>1, <2>1, <2>2, OnlyFacts
  <2>4. PICK n : n = Len(pairs)
    OBVIOUS
  <2>5. n \in Nat /\ DOMAIN pairs = 1 .. n
    BY <2>3, <2>4
  <2>6. /\ DOMAIN tags = 1 .. n
        /\ \A i \in 1 .. n : tags[i] = <<pairs[i].k, pairs[i].v>> /\ tags[i][1] = pairs[i].k
    BY <1>1, <2>5
  <2>7. \A i \in 1 .. n : tags[i] \in ToSet(tags)
    BY <2>6 DEF ToSet
  <2>8. tags \in Seq(ToSet(tags))
    <3>1. PICK S : S = ToSet(tags)
      OBVIOUS
    <3>2. \A i \in 1 .. n : tags[i] \in S
      BY <2>7, <3>1
    <3>3. tags \in [1 .. n -> S]
      BY <1>1, <2>5, <3>2
    <3>4. tags \in Seq(S)
      BY <2>5, <3>3
    <3> QED
      BY <3>1, <3>4
  <2>9. IsTags(tags)
    BY <1>4, <2>8 DEF IsTags
  <2>10. KeysOf(tags) \subseteq ToSet(Alphabet)
    <3>1. ASSUME NEW i \in 1 .. n PROVE pairs[i].k \in ToSet(Alphabet)
      <4>1. pairs[i] \in ToSet(pairs)
        BY <2>5 DEF ToSet
      <4>2. pairs[i] \in ToSet(raw.parts) /\ pairs[i].form # "blank" /\ ~BadPair(pairs[i])
        BY <1>1, <1>4, <2>1, <2>3, <2>5, <4>1
      <4> QED
        BY <4>2, ThresholdAssumption
    <3> QED
      BY <2>6, <3>1 DEF KeysOf
  <2>11. IsIds(Alphabet)
    BY ThresholdAssumption DEF IsIds
  <2>12. IsTags(Sorted(tags, Alphabet))
    BY <2>9, <2>10, <2>11, SortGives
  <2>13. ParseKey(raw).tags = Sorted(tags, Alphabet)
    BY <1>4
  <2> QED
    BY <2>12, <2>13
<1>5. \/ ParseKey(raw) = [ok |-> TRUE, metric |-> raw.name, tags |-> <<>>]
      \/ /\ ~\E i \in DOMAIN pairs : BadPair(pairs[i])
         /\ ~\E i, j \in DOMAIN tags : i # j /\ tags[i][1] = tags[j][1]
         /\ ParseKey(raw) = [ok |-> TRUE, metric |-> raw.name, tags |-> Sorted(tags, Alphabet)]
  BY <1>2, Zenon
<1> QED
  BY <1>3, <1>4, <1>5, Zenon
=============================================================================
