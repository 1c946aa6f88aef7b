----------------------------- MODULE NumberSets -----------------------------
(***************************************************************************)
(* Sets of natural numbers, of which the models take the least and the     *)
(* greatest element; finite sets: induction over their subsets, and what   *)
(* the folds of FiniteSetsExt compute, which take their elements in an     *)
(* order that is not known; what the sequences hold that are joined from   *)
(* others or list a set; sums, least and greatest, and sorting.            *)
(***************************************************************************)
EXTENDS Integers, Ascending, FiniteSetTheorems, SequenceTheorems, WellFoundedInduction, TLAPS

\* A set of natural numbers that is not empty has a least element: what "the lowest free" and
\* "in the order of PIDs" of the models rest on.
LEMMA SmallestIn ==
  ASSUME NEW T, T \subseteq Nat, T # {}
  PROVE  \E x \in T : \A y \in T : x <= y
<1> DEFINE Less == {ss \in Nat \X Nat : ss[1] < ss[2]}
<1>1. Less = OpToRel(<, Nat)
  BY Zenon DEF OpToRel
<1>2. IsWellFoundedOn(Less, Nat)
  BY <1>1, NatLessThanWellFounded, Zenon
<1>3. PICK x \in T : \A y \in T : ~(<<y, x>> \in Less)
  BY <1>2, WFMin, Zenon
<1>4. ASSUME NEW y \in T
      PROVE  x <= y
  <2>1. ~(y < x)
    BY <1>3
  <2> QED
    BY <2>1
<1> QED
  BY <1>4

\* A finite one has a greatest: the smallest set without one would have one without any of its
\* elements.
LEMMA GreatestIn ==
  ASSUME NEW T, IsFiniteSet(T), T \subseteq Nat, T # {}
  PROVE  \E x \in T : \A y \in T : y <= x
<1> DEFINE Endless == {S \in SUBSET T : S # {} /\ ~\E x \in S : \A y \in S : y <= x}
<1> SUFFICES ASSUME Endless # {}
             PROVE  FALSE
  OBVIOUS
<1>1. IsWellFoundedOn(StrictSubsetOrdering(T), SUBSET T)
  BY FS_StrictSubsetOrderingWellFounded, FS_FiniteSubsetsOfFinite
<1>2. PICK S \in Endless : \A U \in Endless : ~(<<U, S>> \in StrictSubsetOrdering(T))
  <2>1. Endless \subseteq SUBSET T
    OBVIOUS
  <2> HIDE DEF Endless
  <2> QED
    BY <1>1, <2>1, WFMin, Zenon
<1>3. PICK x \in S : TRUE
  OBVIOUS
<1>4. S \ {x} \notin Endless
  <2>1. <<S \ {x}, S>> \in StrictSubsetOrdering(T)
    BY <1>3 DEF StrictSubsetOrdering
  <2> QED
    BY <1>2, <2>1
<1>5. CASE S \ {x} = {}
  <2>1. \A y \in S : y <= x
    BY <1>5
  <2> QED
    BY <2>1
<1>6. CASE S \ {x} # {}
  <2>1. PICK m \in S \ {x} : \A y \in S \ {x} : y <= m
    BY <1>4, <1>6
  <2>2. CASE x <= m
    BY <2>1, <2>2
  <2>3. CASE m <= x
    <3>1. \A y \in S : y <= x
      BY <2>1, <2>3
    <3> QED
      BY <3>1
  <2> QED
    BY <2>1, <2>2, <2>3
<1> QED
  BY <1>5, <1>6

-----------------------------------------------------------------------------
(* Finite sets, and folds over them. *)

\* A finite set has finitely many images.
LEMMA ImageIsFinite ==
  ASSUME NEW S, IsFiniteSet(S), NEW f
  PROVE  IsFiniteSet({f[x] : x \in S})
<1> DEFINE T == {f[x] : x \in S}
           g == [x \in S |-> f[x]]
<1>1. g \in Surjection(S, T)
  BY DEF Surjection
<1> HIDE DEF g, T
<1>2. IsFiniteSet(T)
  BY <1>1, FS_Surjection
<1> QED
  BY <1>2 DEF T

\* Finite sets are built up from the empty one: a collection that has every set whose
\* subsets with one element less it has, has all of them.
LEMMA SetInduction ==
  ASSUME NEW S, IsFiniteSet(S), NEW G,
         \A s \in SUBSET S : (\A x \in s : s \ {x} \in G) => s \in G
  PROVE  SUBSET S \subseteq G
<1> DEFINE Rest == {s \in SUBSET S : s \notin G}
<1> SUFFICES ASSUME Rest # {} PROVE FALSE
  OBVIOUS
<1>1. IsWellFoundedOn(StrictSubsetOrdering(S), SUBSET S)
  <2>1. FiniteSubsetsOf(S) = SUBSET S
    BY FS_FiniteSubsetsOfFinite, Zenon
  <2>2. IsWellFoundedOn(StrictSubsetOrdering(S), FiniteSubsetsOf(S))
    BY FS_StrictSubsetOrderingWellFounded
  <2> QED
    BY <2>1, <2>2
<1>2. PICK s \in Rest : \A t \in Rest : ~(<<t, s>> \in StrictSubsetOrdering(S))
  <2>1. Rest \subseteq SUBSET S
    OBVIOUS
  <2> HIDE DEF Rest
  <2> QED
    BY <1>1, <2>1, WFMin, Zenon
<1>3. ASSUME NEW x \in s PROVE s \ {x} \in G
  <2>1. <<s \ {x}, s>> \in StrictSubsetOrdering(S)
    BY DEF StrictSubsetOrdering
  <2> QED
    BY <1>2, <2>1
<1> QED
  BY <1>2, <1>3

\* What a fold over S with values in V is computed by.
FoldOf(S, pick, base, h, it) ==
  it = [s \in SUBSET S |-> IF s = {} THEN base ELSE h[<<s, it[s \ {pick[s]}]>>]]

LEMMA FoldExists ==
  ASSUME NEW S, IsFiniteSet(S), NEW V, NEW base \in V,
         NEW pick, \A s \in SUBSET S : s # {} => pick[s] \in s,
         NEW h \in [(SUBSET S) \X V -> V]
  PROVE  \E it \in [SUBSET S -> V] : FoldOf(S, pick, base, h, it)
<1> DEFINE Val(g, s) == IF s = {} THEN base ELSE h[<<s, g[s \ {pick[s]}]>>]
           UpTo(g, k) == \A s \in SUBSET S : Cardinality(s) <= k => g[s] = Val(g, s)
           Bad == {k \in Nat : ~\E g \in [SUBSET S -> V] : UpTo(g, k)}
<1>1. \A s \in SUBSET S : IsFiniteSet(s) /\ Cardinality(s) \in Nat
  BY FS_Subset, FS_CardinalityType
<1>2. \A s \in SUBSET S : s # {} => Cardinality(s \ {pick[s]}) = Cardinality(s) - 1
  BY <1>1, FS_RemoveElement
<1>3. ASSUME NEW g \in [SUBSET S -> V], NEW s \in SUBSET S
      PROVE  Val(g, s) \in V
  <2>1. s # {} => s \ {pick[s]} \in SUBSET S
    OBVIOUS
  <2>2. s # {} => <<s, g[s \ {pick[s]}]>> \in (SUBSET S) \X V
    BY <2>1
  <2> QED
    BY <2>2
<1>4. Bad = {}
  <2> SUFFICES ASSUME Bad # {} PROVE FALSE
    OBVIOUS
  <2>1. PICK k \in Bad : \A j \in Bad : k <= j
    <3> HIDE DEF UpTo
    <3> QED
      BY SmallestIn
  <2>2. k \in Nat
    OBVIOUS
  <2>3. CASE k = 0
    <3> DEFINE g == [s \in SUBSET S |-> base]
    <3>1. g \in [SUBSET S -> V]
      OBVIOUS
    <3>2. ASSUME NEW s \in SUBSET S, Cardinality(s) <= 0 PROVE g[s] = Val(g, s)
      <4>1. s = {}
        BY <1>1, <3>2, FS_EmptySet
      <4> QED
        BY <4>1
    <3> QED
      BY <2>3, <3>1, <3>2
  <2>4. CASE k # 0
    <3>1. k - 1 \in Nat /\ k - 1 \notin Bad
      <4> HIDE DEF Bad
      <4> QED
        BY <2>1, <2>2, <2>4
    <3>2. PICK g \in [SUBSET S -> V] : UpTo(g, k - 1)
      BY <3>1
    <3> DEFINE f == [s \in SUBSET S |-> Val(g, s)]
    <3>3. f \in [SUBSET S -> V]
      BY <1>3
    <3>4. ASSUME NEW s \in SUBSET S, Cardinality(s) <= k PROVE f[s] = Val(f, s)
      <4>1. CASE s = {}
        BY <4>1
      <4>2. CASE s # {}
        <5> DEFINE t == s \ {pick[s]}
        <5>1. t \in SUBSET S /\ Cardinality(t) <= k - 1
          BY <1>1, <1>2, <2>2, <3>4, <4>2
        <5>2. g[t] = Val(g, t)
          BY <3>2, <5>1
        <5>3. f[t] = g[t]
          BY <5>1, <5>2
        <5> QED
          BY <4>2, <5>3
      <4> QED
        BY <4>1, <4>2
    <3> QED
      BY <3>3, <3>4
  <2> QED
    BY <2>3, <2>4
<1>5. PICK g \in [SUBSET S -> V] : UpTo(g, Cardinality(S))
  BY <1>1, <1>4
<1>6. \A s \in SUBSET S : g[s] = Val(g, s)
  BY <1>1, <1>5, FS_Subset
<1> QED
  <2>1. g = [s \in SUBSET S |-> Val(g, s)]
    BY <1>6
  <2> QED
    BY <2>1 DEF FoldOf


\* it sums w over the subsets of S, as the sums of FiniteSetsExt do.
SumsOf(S, w, it) ==
  it = [s \in SUBSET S |-> IF s = {} THEN 0
                          ELSE w[CHOOSE x \in s : TRUE] + it[s \ {CHOOSE x \in s : TRUE}]]

LEMMA SumsExist ==
  ASSUME NEW S, IsFiniteSet(S), NEW w \in [S -> Int]
  PROVE  \E it \in [SUBSET S -> Int] : SumsOf(S, w, it)
<1>1. CASE S = {}
  <2> DEFINE it == [s \in SUBSET S |-> 0]
  <2>1. it \in [SUBSET S -> Int]
    OBVIOUS
  <2>2. SumsOf(S, w, it)
    BY <1>1 DEF SumsOf
  <2> QED
    BY <2>1, <2>2
<1>2. CASE S # {}
  <2> DEFINE pick == [s \in SUBSET S |-> IF s = {} THEN CHOOSE x \in S : TRUE ELSE CHOOSE x \in s : TRUE]
             h == [p \in (SUBSET S) \X Int |-> w[pick[p[1]]] + p[2]]
  <2>1. pick \in [SUBSET S -> S] /\ \A s \in SUBSET S : s # {} => pick[s] \in s
    BY <1>2
  <2>2. h \in [(SUBSET S) \X Int -> Int]
    <3> HIDE DEF pick
    <3>1. ASSUME NEW p \in (SUBSET S) \X Int PROVE w[pick[p[1]]] + p[2] \in Int
      <4>1. p[1] \in SUBSET S /\ p[2] \in Int
        OBVIOUS
      <4>2. pick[p[1]] \in S
        BY <2>1, <4>1
      <4>3. w[pick[p[1]]] \in Int
        BY <4>2
      <4> QED
        BY <4>1, <4>3
    <3> QED
      BY <3>1
  <2> HIDE DEF h
  <2>3. \A s \in SUBSET S : s # {} => pick[s] = CHOOSE x \in s : TRUE
    OBVIOUS
  <2> HIDE DEF pick
  <2>4. PICK it \in [SUBSET S -> Int] : FoldOf(S, pick, 0, h, it)
    <3>1. 0 \in Int
      OBVIOUS
    <3> QED
      BY <2>1, <2>2, <3>1, FoldExists
  <2>5. ASSUME NEW s \in SUBSET S, s # {}
        PROVE  h[<<s, it[s \ {pick[s]}]>>]
                = w[CHOOSE x \in s : TRUE] + it[s \ {CHOOSE x \in s : TRUE}]
    <3>1. it[s \ {pick[s]}] \in Int
      BY <2>1, <2>5
    <3>2. h[<<s, it[s \ {pick[s]}]>>] = w[pick[s]] + it[s \ {pick[s]}]
      BY <3>1 DEF h
    <3> QED
      BY <2>3, <2>5, <3>2
  <2> QED
    BY <2>4, <2>5 DEF FoldOf, SumsOf
<1> QED
  BY <1>1, <1>2

\* What is expected of a sum, whichever element is taken first.
AddsUp(S, w, it) ==
  /\ it \in [SUBSET S -> Int]
  /\ it[{}] = 0
  /\ \A s \in SUBSET S : \A x \in s : it[s] = w[x] + it[s \ {x}]

LEMMA SumsAdd ==
  ASSUME NEW S, IsFiniteSet(S), NEW w \in [S -> Int], NEW it, SumsOf(S, w, it)
  PROVE  AddsUp(S, w, it)
<1>3. it[{}] = 0
  BY DEF SumsOf
<1>4. ASSUME NEW s \in SUBSET S, s # {}
      PROVE  \E c \in s : it[s] = w[c] + it[s \ {c}]
  <2>1. it[s] = w[CHOOSE x \in s : TRUE] + it[s \ {CHOOSE x \in s : TRUE}]
    BY <1>4 DEF SumsOf
  <2>2. (CHOOSE x \in s : TRUE) \in s
    BY <1>4
  <2> QED
    BY <2>1, <2>2
<1> DEFINE Typed == {s \in SUBSET S : it[s] \in Int}
<1>6. ASSUME NEW s \in SUBSET S, \A x \in s : s \ {x} \in Typed
      PROVE  s \in Typed
  <2>1. CASE s = {}
    BY <1>3, <2>1
  <2>2. CASE s # {}
    <3>1. PICK c \in s : it[s] = w[c] + it[s \ {c}]
      BY <1>4, <2>2
    <3> QED
      BY <1>6, <3>1
  <2> QED
    BY <2>1, <2>2
<1>7. it \in [SUBSET S -> Int]
  <2>1. it = [s \in SUBSET S |-> it[s]]
    BY DEF SumsOf
  <2>2. SUBSET S \subseteq Typed
    <3> HIDE DEF Typed
    <3> QED
      BY <1>6, SetInduction
  <2> QED
    BY <2>1, <2>2
<1> DEFINE Good == {s \in SUBSET S : \A x \in s : it[s] = w[x] + it[s \ {x}]}
<1>5. ASSUME NEW s \in SUBSET S, \A x \in s : s \ {x} \in Good
      PROVE  s \in Good
  <2>1. CASE s = {}
    BY <1>3, <2>1
  <2>2. CASE s # {}
    <3>1. PICK c \in s : it[s] = w[c] + it[s \ {c}]
      BY <1>4, <2>2
    <3>2. s \ {c} \in Good
      BY <1>5
    <3>4. ASSUME NEW x \in s, x # c PROVE it[s] = w[x] + it[s \ {x}]
      <4> DEFINE rest == it[(s \ {c}) \ {x}]
      <4>1. s \ {x} \in Good /\ x \in s \ {c} /\ c \in s \ {x}
        BY <1>5, <3>4
      <4>2. it[s \ {c}] = w[x] + rest
        BY <3>2, <4>1
      <4>3. it[s \ {x}] = w[c] + it[(s \ {x}) \ {c}]
        BY <4>1
      <4>4. (s \ {c}) \ {x} = (s \ {x}) \ {c}
        OBVIOUS
      <4>5. it[s \ {x}] = w[c] + rest
        BY <4>3, <4>4
      <4>6. w[x] \in Int /\ w[c] \in Int /\ rest \in Int
        <5>1. w[x] \in Int /\ w[c] \in Int
          OBVIOUS
        <5>2. rest \in Int
          BY <1>7
        <5> QED
          BY <5>1, <5>2
      <4> HIDE DEF Good, rest
      <4> QED
        BY <3>1, <4>2, <4>5, <4>6
    <3> QED
      BY <3>1, <3>4
  <2> QED
    BY <2>1, <2>2
<1>8. SUBSET S \subseteq Good
  <2> HIDE DEF Good
  <2> QED
    BY <1>5, SetInduction
<1> QED
  BY <1>3, <1>7, <1>8 DEF AddsUp

\* Sums of natural numbers are natural numbers.
LEMMA SumsNat ==
  ASSUME NEW S, IsFiniteSet(S), NEW w \in [S -> Nat], NEW it, SumsOf(S, w, it)
  PROVE  it \in [SUBSET S -> Nat]
<1>1. w \in [S -> Int]
  OBVIOUS
<1>2. /\ it \in [SUBSET S -> Int] /\ it[{}] = 0
      /\ \A s \in SUBSET S : \A x \in s : it[s] = w[x] + it[s \ {x}]
  <2>1. AddsUp(S, w, it)
    BY <1>1, SumsAdd
  <2> QED
    BY <2>1 DEF AddsUp
<1> DEFINE G == {s \in SUBSET S : it[s] \in Nat}
<1>3. ASSUME NEW s \in SUBSET S, \A x \in s : s \ {x} \in G
      PROVE  s \in G
  <2>1. CASE s = {}
    BY <1>2, <2>1
  <2>2. CASE s # {}
    <3>1. PICK x \in s : TRUE
      BY <2>2
    <3>2. it[s] = w[x] + it[s \ {x}]
      BY <1>2
    <3> QED
      BY <1>3, <3>2
  <2> QED
    BY <2>1, <2>2
<1>4. SUBSET S \subseteq G
  <2> HIDE DEF G
  <2> QED
    BY <1>3, SetInduction
<1> QED
  BY <1>2, <1>4

(***************************************************************************)
(* What is computed in steps, and folds of sequences.                      *)
(***************************************************************************)

\* What is computed in n steps, the k-th from what the one before gave.
StepsOf(n, base, h, f) == f = [k \in 0 .. n |-> IF k = 0 THEN base ELSE h[<<k, f[k - 1]>>]]

LEMMA StepsExist ==
  ASSUME NEW n \in Nat, NEW V, NEW base \in V, NEW h \in [(1 .. n) \X V -> V]
  PROVE  \E f \in [0 .. n -> V] : StepsOf(n, base, h, f)
<1> DEFINE Val(g, k) == IF k = 0 THEN base ELSE h[<<k, g[k - 1]>>]
           UpTo(g, m) == \A k \in 0 .. n : k <= m => g[k] = Val(g, k)
           Bad == {m \in Nat : ~\E g \in [0 .. n -> V] : UpTo(g, m)}
<1>1. ASSUME NEW g \in [0 .. n -> V], NEW k \in 0 .. n
      PROVE  Val(g, k) \in V
  <2>1. k # 0 => k - 1 \in 0 .. n /\ k \in 1 .. n
    OBVIOUS
  <2>2. k # 0 => <<k, g[k - 1]>> \in (1 .. n) \X V
    BY <2>1
  <2> QED
    BY <2>2
<1>2. Bad = {}
  <2> SUFFICES ASSUME Bad # {} PROVE FALSE
    OBVIOUS
  <2>1. PICK m \in Bad : \A j \in Bad : m <= j
    <3> HIDE DEF UpTo
    <3> QED
      BY SmallestIn
  <2>2. m \in Nat
    OBVIOUS
  <2>3. CASE m = 0
    <3> DEFINE g == [k \in 0 .. n |-> base]
    <3>1. g \in [0 .. n -> V] /\ UpTo(g, m)
      BY <2>3
    <3> QED
      BY <3>1
  <2>4. CASE m # 0
    <3>1. m - 1 \in Nat /\ m - 1 \notin Bad
      <4> HIDE DEF Bad
      <4> QED
        BY <2>1, <2>2, <2>4
    <3>2. PICK g \in [0 .. n -> V] : UpTo(g, m - 1)
      BY <3>1
    <3> DEFINE f == [k \in 0 .. n |-> Val(g, k)]
    <3>3. f \in [0 .. n -> V]
      BY <1>1
    <3>4. ASSUME NEW k \in 0 .. n, k <= m PROVE f[k] = Val(f, k)
      <4>1. CASE k = 0
        BY <4>1
      <4>2. CASE k # 0
        <5>1. k - 1 \in 0 .. n /\ k - 1 <= m - 1
          BY <2>2, <3>4, <4>2
        <5>2. g[k - 1] = Val(g, k - 1)
          BY <3>2, <5>1
        <5>3. f[k - 1] = g[k - 1]
          BY <5>1, <5>2
        <5> QED
          BY <4>2, <5>3
      <4> QED
        BY <4>1, <4>2
    <3> QED
      BY <3>3, <3>4
  <2> QED
    BY <2>3, <2>4
<1>3. PICK g \in [0 .. n -> V] : UpTo(g, n)
  BY <1>2
<1>4. \A k \in 0 .. n : g[k] = Val(g, k)
  BY <1>3
<1> QED
  <2>1. g = [k \in 0 .. n |-> Val(g, k)]
    BY <1>4
  <2> QED
    BY <2>1 DEF StepsOf

\* Induction over the first n numbers.
LEMMA UpInduction ==
  ASSUME NEW n \in Nat, NEW G, 0 \in G, \A k \in 1 .. n : k - 1 \in G => k \in G
  PROVE  0 .. n \subseteq G
<1> DEFINE Rest == {k \in 0 .. n : k \notin G}
<1> SUFFICES ASSUME Rest # {} PROVE FALSE
  OBVIOUS
<1>1. PICK k \in Rest : \A j \in Rest : k <= j
  <2>1. Rest \subseteq Nat
    OBVIOUS
  <2> HIDE DEF Rest
  <2> QED
    BY <2>1, SmallestIn
<1>2. k # 0 /\ k \in 1 .. n
  OBVIOUS
<1>3. k - 1 \in 0 .. n /\ k - 1 \notin Rest
  <2>1. k - 1 \in 0 .. n
    BY <1>2
  <2>2. ~(k <= k - 1)
    BY <1>2
  <2> HIDE DEF Rest
  <2> QED
    BY <1>1, <2>1, <2>2
<1> QED
  BY <1>2, <1>3

\* A fold of a sequence of n elements, the last one first taken off, as FoldLeft of
\* SequencesExt does: its value is that of the steps from the left.
TopOf(s, i) == i \in s /\ \A j \in s : j <= i
RunOf(n, top, base, h, it) ==
  it = [s \in SUBSET (1 .. n) |-> IF s = {} THEN base ELSE h[<<top[s], it[s \ {top[s]}]>>]]

LEMMA RunExists ==
  ASSUME NEW n \in Nat, NEW V, NEW base \in V, NEW h \in [(1 .. n) \X V -> V],
         NEW top, \A s \in SUBSET (1 .. n) : s # {} => TopOf(s, top[s])
  PROVE  \E it \in [SUBSET (1 .. n) -> V] : RunOf(n, top, base, h, it)
<1> DEFINE D == 1 .. n
           g == [p \in (SUBSET D) \X V |-> IF p[1] = {} THEN base ELSE h[<<top[p[1]], p[2]>>]]
<1>1. IsFiniteSet(D)
  <2>1. 1 \in Int /\ n \in Int
    OBVIOUS
  <2> QED
    BY <2>1, FS_Interval
<1>2. g \in [(SUBSET D) \X V -> V]
  <2>1. ASSUME NEW p \in (SUBSET D) \X V PROVE (IF p[1] = {} THEN base ELSE h[<<top[p[1]], p[2]>>]) \in V
    <3>1. CASE p[1] = {}
      BY <3>1
    <3>2. CASE p[1] # {}
      <4>1. p[1] \in SUBSET D /\ p[2] \in V
        OBVIOUS
      <4>2. top[p[1]] \in 1 .. n
        BY <3>2, <4>1 DEF TopOf
      <4> QED
        BY <3>2, <4>1, <4>2
    <3> QED
      BY <3>1, <3>2
  <2> QED
    BY <2>1
<1>3. \A s \in SUBSET D : s # {} => top[s] \in s
  BY DEF TopOf
<1> HIDE DEF D, g
<1>4. PICK it \in [SUBSET D -> V] : FoldOf(D, top, base, g, it)
  BY <1>1, <1>2, <1>3, FoldExists
<1>5. ASSUME NEW s \in SUBSET D, s # {}
      PROVE  g[<<s, it[s \ {top[s]}]>>] = h[<<top[s], it[s \ {top[s]}]>>]
  <2>1. it[s \ {top[s]}] \in V
    BY <1>4
  <2> QED
    BY <1>5, <2>1 DEF g
<1>6. RunOf(n, top, base, h, it)
  BY <1>4, <1>5 DEF FoldOf, RunOf, D
<1> QED
  BY <1>4, <1>6 DEF D

(***************************************************************************)
(* What sequences hold.                                                    *)
(***************************************************************************)

\* Two sequences joined hold what either does.
LEMMA JoinHolds ==
  ASSUME NEW T, NEW s \in Seq(T), NEW t \in Seq(T)
  PROVE  s \o t \in Seq(T) /\ ToSet(s \o t) = ToSet(s) \cup ToSet(t)
<1>1. /\ s \o t \in Seq(T) /\ DOMAIN (s \o t) = 1 .. Len(s) + Len(t)
      /\ DOMAIN s = 1 .. Len(s) /\ DOMAIN t = 1 .. Len(t) /\ Len(s) \in Nat /\ Len(t) \in Nat
      /\ \A i \in 1 .. Len(s) + Len(t) : (s \o t)[i] = IF i <= Len(s) THEN s[i] ELSE t[i - Len(s)]
  OBVIOUS
<1> DEFINE st == s \o t
<1>2. ASSUME NEW x \in ToSet(st) PROVE x \in ToSet(s) \cup ToSet(t)
  <2>1. PICK i \in 1 .. Len(s) + Len(t) : x = st[i]
    BY <1>1, <1>2 DEF ToSet
  <2>2. IF i <= Len(s) THEN i \in DOMAIN s /\ x = s[i] ELSE i - Len(s) \in DOMAIN t /\ x = t[i - Len(s)]
    BY <1>1, <2>1
  <2> QED
    BY <2>2 DEF ToSet
<1>3. ASSUME NEW x \in ToSet(s) PROVE x \in ToSet(st)
  <2>1. PICK i \in 1 .. Len(s) : x = s[i]
    BY <1>1, <1>3 DEF ToSet
  <2>2. i \in DOMAIN st /\ st[i] = x
    BY <1>1, <2>1
  <2> QED
    BY <2>2 DEF ToSet
<1>4. ASSUME NEW x \in ToSet(t) PROVE x \in ToSet(st)
  <2>1. PICK i \in 1 .. Len(t) : x = t[i]
    BY <1>1, <1>4 DEF ToSet
  <2>2. i + Len(s) \in DOMAIN st /\ st[i + Len(s)] = x
    BY <1>1, <2>1
  <2> QED
    BY <2>2 DEF ToSet
<1> QED
  BY <1>1, <1>2, <1>3, <1>4

\* FlattenSeq of SequencesExt joins its parts one by one.
JoinsOf(seqs, f) == f = [i \in 1 .. Len(seqs) |-> IF i = 1 THEN seqs[i] ELSE f[i - 1] \o seqs[i]]

LEMMA FlattenIs ==
  ASSUME NEW T, NEW seqs \in Seq(Seq(T)), Len(seqs) # 0
  PROVE  \E f : JoinsOf(seqs, f) /\ FlattenSeq(seqs) = f[Len(seqs)]
<1> DEFINE n == Len(seqs)
           V == Seq(T)
           h == [p \in (1 .. n) \X V |-> p[2] \o seqs[p[1]]]
<1>1. n \in Nat /\ <<>> \in V /\ \A i \in 1 .. n : seqs[i] \in V
  OBVIOUS
<1>2. h \in [(1 .. n) \X V -> V]
  BY <1>1
<1>3. PICK g \in [0 .. n -> V] : StepsOf(n, <<>>, h, g)
  <2> HIDE DEF n, V, h
  <2> QED
    BY <1>1, <1>2, StepsExist
<1> DEFINE f == [i \in 1 .. n |-> g[i]]
<1>4. ASSUME NEW i \in 1 .. n PROVE f[i] = IF i = 1 THEN seqs[i] ELSE f[i - 1] \o seqs[i]
  <2>1. i - 1 \in 0 .. n /\ i \in 0 .. n /\ i # 0 /\ i \in 1 .. n
    OBVIOUS
  <2>2. g[i] = h[<<i, g[i - 1]>>]
    BY <1>3, <2>1 DEF StepsOf
  <2>3. <<i, g[i - 1]>> \in (1 .. n) \X V
    BY <2>1
  <2>4. g[i] = g[i - 1] \o seqs[i]
    BY <2>2, <2>3
  <2>5. g[0] = <<>>
    BY <1>1, <1>3 DEF StepsOf
  <2>6. CASE i = 1
    <3>1. seqs[1] \in Seq(T) /\ \A e \in Seq(T) : <<>> \o e = e
      BY <1>1, <2>6
    <3>2. g[i] = <<>> \o seqs[1]
      <4>1. i - 1 = 0
        BY <2>6
      <4> QED
        BY <2>4, <2>5, <2>6, <4>1, Zenon
    <3> QED
      BY <2>6, <3>1, <3>2
  <2>7. CASE i # 1
    <3>1. i - 1 \in 1 .. n
      BY <2>7
    <3> QED
      BY <2>4, <2>7, <3>1
  <2> QED
    BY <2>6, <2>7
<1>5. JoinsOf(seqs, f)
  <2>1. f = [i \in 1 .. n |-> IF i = 1 THEN seqs[i] ELSE f[i - 1] \o seqs[i]]
    BY <1>4
  <2> QED
    BY <2>1 DEF JoinsOf
<1> DEFINE flatten == CHOOSE e : JoinsOf(seqs, e)
<1>6. JoinsOf(seqs, flatten)
  <2> HIDE DEF f
  <2> QED
    BY <1>5
<1>7. FlattenSeq(seqs) = flatten[n]
  BY Zenon DEF FlattenSeq, JoinsOf
<1> HIDE DEF flatten
<1> QED
  BY <1>6, <1>7

\* It holds the elements of its parts and no others.
LEMMA FlattenHolds ==
  ASSUME NEW T, NEW seqs \in Seq(Seq(T))
  PROVE  /\ FlattenSeq(seqs) \in Seq(T)
         /\ ToSet(FlattenSeq(seqs)) = UNION {ToSet(seqs[i]) : i \in DOMAIN seqs}
<1>1. CASE Len(seqs) = 0
  <2>1. FlattenSeq(seqs) = <<>> /\ seqs = <<>>
    BY <1>1 DEF FlattenSeq
  <2> QED
    BY <2>1 DEF ToSet
<1>2. CASE Len(seqs) # 0
  <2>1. PICK f : JoinsOf(seqs, f) /\ FlattenSeq(seqs) = f[Len(seqs)]
    BY <1>2, FlattenIs
  <2> DEFINE n == Len(seqs)
             Held(k) == UNION {ToSet(seqs[i]) : i \in 1 .. k}
             G == {k \in 0 .. n : k # 0 => f[k] \in Seq(T) /\ ToSet(f[k]) = Held(k)}
  <2>2. n \in Nat /\ DOMAIN seqs = 1 .. n /\ \A i \in 1 .. n : seqs[i] \in Seq(T)
    OBVIOUS
  <2>3. 0 \in G
    BY <2>2
  <2>4. ASSUME NEW k \in 1 .. n, k - 1 \in G PROVE k \in G
    <3>1. k \in 0 .. n /\ f[k] = IF k = 1 THEN seqs[k] ELSE f[k - 1] \o seqs[k]
      <4>1. f = [i \in 1 .. n |-> IF i = 1 THEN seqs[i] ELSE f[i - 1] \o seqs[i]]
        BY <2>1 DEF JoinsOf
      <4>2. k \in 1 .. Len(seqs)
        OBVIOUS
      <4>3. f[k] = IF k = 1 THEN seqs[k] ELSE f[k - 1] \o seqs[k]
        BY <4>1, <4>2, Zenon
      <4> QED
        BY <2>2, <4>3
    <3>2. Held(k) = Held(k - 1) \cup ToSet(seqs[k])
      <4>1. 1 .. k = (1 .. k - 1) \cup {k}
        BY <2>2
      <4> QED
        BY <4>1
    <3>3. CASE k = 1
      <4>1. Held(k - 1) = {}
        BY <3>3
      <4>2. f[k] \in Seq(T) /\ ToSet(f[k]) = Held(k)
        BY <2>2, <3>1, <3>2, <3>3, <4>1
      <4> HIDE DEF Held
      <4> QED
        BY <3>1, <4>2
    <3>4. CASE k # 1
      <4>1. k - 1 # 0 /\ f[k - 1] \in Seq(T) /\ ToSet(f[k - 1]) = Held(k - 1)
        <5> HIDE DEF Held
        <5> QED
          BY <2>4, <3>4
      <4>2. f[k] \in Seq(T) /\ ToSet(f[k]) = ToSet(f[k - 1]) \cup ToSet(seqs[k])
        BY <2>2, <3>1, <3>4, <4>1, JoinHolds
      <4> HIDE DEF Held
      <4> QED
        BY <3>1, <3>2, <4>1, <4>2
    <3> QED
      BY <3>3, <3>4
  <2>5. n \in G
    <3>1. 0 .. n \subseteq G
      <4> HIDE DEF G, n
      <4> QED
        BY <2>2, <2>3, <2>4, UpInduction
    <3> HIDE DEF G
    <3> QED
      BY <2>2, <3>1
  <2> QED
    BY <1>2, <2>1, <2>2, <2>5
<1> QED
  BY <1>1, <1>2

\* A sequence of a set's elements, each once, holds them all.
LEMMA SeqsHold ==
  ASSUME NEW S, IsFiniteSet(S), NEW s \in SetToSeqs(S)
  PROVE  s \in Seq(S) /\ Len(s) = Cardinality(S) /\ ToSet(s) = S
<1> DEFINE n == Cardinality(S)
<1>1. n \in Nat /\ s \in [1 .. n -> S] /\ \A i, j \in 1 .. n : i # j => s[i] # s[j]
  BY FS_CardinalityType DEF SetToSeqs
<1>2. s \in Injection(1 .. n, S)
  BY <1>1 DEF Injection, IsInjective
<1>3. Cardinality(1 .. n) = n
  <2>1. 1 \in Int /\ n \in Int
    BY <1>1
  <2>2. Cardinality(1 .. n) = IF 1 > n THEN 0 ELSE n - 1 + 1
    BY <2>1, FS_Interval
  <2> QED
    BY <1>1, <2>2
<1>4. s \in Surjection(1 .. n, S)
  BY <1>2, <1>3, FS_Injection
<1> HIDE DEF n
<1>5. s \in Seq(S) /\ Len(s) = n
  BY <1>1
<1>6. ToSet(s) = S
  BY <1>1, <1>4 DEF ToSet, Surjection
<1> QED
  BY <1>5, <1>6 DEF n

\* One of them ascends, when they are numbers: each comes as late as there are numbers up to it.
LEMMA AscendExists ==
  ASSUME NEW S, IsFiniteSet(S), S \subseteq Nat
  PROVE  \E s \in SetToSeqs(S) : \A i, j \in DOMAIN s : i < j => s[i] < s[j]
<1> DEFINE n == Cardinality(S)
           upto(p) == {q \in S : q <= p}
           rank == [p \in S |-> Cardinality(upto(p))]
<1>1. n \in Nat /\ IsFiniteSet(1 .. n) /\ Cardinality(1 .. n) = n
  <2>1. n \in Nat
    BY FS_CardinalityType
  <2>2. 1 \in Int /\ n \in Int
    BY <2>1
  <2>3. IsFiniteSet(1 .. n) /\ Cardinality(1 .. n) = IF 1 > n THEN 0 ELSE n - 1 + 1
    BY <2>2, FS_Interval
  <2> QED
    BY <2>1, <2>3
<1>2. ASSUME NEW p \in S
      PROVE  IsFiniteSet(upto(p)) /\ Cardinality(upto(p)) \in 1 .. n
  <2>1. upto(p) \in SUBSET S /\ p \in upto(p)
    OBVIOUS
  <2> HIDE DEF upto
  <2>2. IsFiniteSet(upto(p)) /\ Cardinality(upto(p)) <= n
    BY <2>1, FS_Subset
  <2>3. Cardinality(upto(p)) \in Nat /\ Cardinality(upto(p)) # 0
    BY <2>1, <2>2, FS_CardinalityType, FS_EmptySet
  <2> QED
    BY <1>1, <2>2, <2>3
<1>3. ASSUME NEW p \in S, NEW q \in S, p < q
      PROVE  rank[p] < rank[q]
  <2>1. upto(p) \in SUBSET upto(q) /\ upto(p) # upto(q)
    <3>1. p \in Nat /\ q \in Nat
      OBVIOUS
    <3>2. \A x \in S : x <= p => x <= q
      BY <1>3, <3>1
    <3>3. q \in upto(q) /\ q \notin upto(p)
      BY <1>3, <3>1
    <3> QED
      BY <3>2, <3>3
  <2>2. rank[p] = Cardinality(upto(p)) /\ rank[q] = Cardinality(upto(q))
    OBVIOUS
  <2> HIDE DEF upto, rank
  <2>3. IsFiniteSet(upto(q)) /\ Cardinality(upto(p)) \in Nat /\ Cardinality(upto(q)) \in Nat
    BY <1>2, FS_CardinalityType
  <2>4. Cardinality(upto(p)) < Cardinality(upto(q))
    <3>1. Cardinality(upto(p)) <= Cardinality(upto(q)) /\ Cardinality(upto(p)) # Cardinality(upto(q))
      BY <2>1, <2>3, FS_Subset
    <3> QED
      BY <2>3, <3>1
  <2> QED
    BY <2>2, <2>4
<1>4. rank \in [S -> 1 .. n]
  BY <1>2
<1> HIDE DEF upto, rank, n
<1>5. ASSUME NEW p \in S, NEW q \in S, rank[p] = rank[q]
      PROVE  p = q
  <2>1. p \in Nat /\ q \in Nat /\ rank[p] \in Nat /\ rank[q] \in Nat
    BY <1>1, <1>4
  <2>2. ~(rank[p] < rank[q]) /\ ~(rank[q] < rank[p])
    BY <1>5, <2>1
  <2>3. ~(p < q) /\ ~(q < p)
    BY <1>3, <2>2
  <2> QED
    BY <2>1, <2>3
<1>6. rank \in Surjection(S, 1 .. n)
  <2>1. rank \in Injection(S, 1 .. n)
    BY <1>4, <1>5 DEF Injection, IsInjective
  <2>2. Cardinality(S) = Cardinality(1 .. n)
    BY <1>1 DEF n
  <2> QED
    BY <1>1, <2>1, <2>2, FS_Injection
<1> DEFINE s == [k \in 1 .. n |-> CHOOSE p \in S : rank[p] = k]
<1>7. \A k \in 1 .. n : s[k] \in S /\ rank[s[k]] = k
  BY <1>6 DEF Surjection
<1>8. s \in [1 .. n -> S]
  BY <1>7
<1> HIDE DEF s
<1>9. s \in SetToSeqs(S) /\ DOMAIN s = 1 .. n
  BY <1>7, <1>8 DEF SetToSeqs, n
<1>10. ASSUME NEW i \in 1 .. n, NEW j \in 1 .. n, i < j
       PROVE  s[i] < s[j]
  <2>1. s[i] \in S /\ s[j] \in S /\ rank[s[i]] = i /\ rank[s[j]] = j
    BY <1>7
  <2>2. s[i] # s[j] /\ ~(s[j] < s[i])
    <3>1. ~(j < i) /\ i # j
      BY <1>1, <1>10
    <3> QED
      BY <1>3, <2>1, <3>1
  <2>3. s[i] \in Nat /\ s[j] \in Nat
    BY <2>1
  <2> QED
    BY <2>2, <2>3
<1> QED
  BY <1>9, <1>10

\* Numbers in their order are all there, each once, from the lowest up.
LEMMA OrderHolds ==
  ASSUME NEW S, IsFiniteSet(S), S \subseteq Nat
  PROVE  /\ InOrder(S) \in Seq(S) /\ Len(InOrder(S)) = Cardinality(S) /\ ToSet(InOrder(S)) = S
         /\ \A j, k \in 1 .. Len(InOrder(S)) : /\ j < k => InOrder(S)[j] < InOrder(S)[k]
                                               /\ InOrder(S)[j] = InOrder(S)[k] => j = k
<1>1. InOrder(S) \in SetToSeqs(S) /\ \A i, j \in DOMAIN InOrder(S) : i < j => InOrder(S)[i] < InOrder(S)[j]
  BY AscendExists DEF InOrder
<1> DEFINE o == InOrder(S)
<1> HIDE DEF o
<1>2. o \in Seq(S) /\ Len(o) = Cardinality(S) /\ ToSet(o) = S
  BY <1>1, SeqsHold DEF o
<1>3. \A j, k \in 1 .. Len(o) : j < k => o[j] < o[k]
  BY <1>1, <1>2 DEF o
<1>4. ASSUME NEW j \in 1 .. Len(o), NEW k \in 1 .. Len(o), o[j] = o[k] PROVE j = k
  <2>1. o[j] \in S /\ o[k] \in S /\ Len(o) \in Nat
    BY <1>2
  <2>2. o[j] \in Nat /\ o[k] \in Nat
    BY <2>1
  <2>3. j < k \/ k < j \/ j = k
    BY <2>1
  <2> QED
    BY <1>3, <1>4, <2>2, <2>3
<1> QED
  BY <1>2, <1>3, <1>4 DEF o

\* What a sequence has at some of its places.
LEMMA PlacesHold ==
  ASSUME NEW T, NEW s \in Seq(T), NEW S \in SUBSET (1 .. Len(s))
  PROVE  \E o \in Seq(S) :
           /\ ToSet(o) = S /\ \A j, k \in 1 .. Len(o) : (j < k => o[j] < o[k]) /\ (o[j] = o[k] => j = k)
           /\ AtPlaces(s, S) \in Seq(T) /\ Len(AtPlaces(s, S)) = Len(o)
           /\ \A k \in 1 .. Len(o) : AtPlaces(s, S)[k] = s[o[k]]
<1> DEFINE o == InOrder(S)
<1>1. IsFiniteSet(S) /\ S \subseteq Nat
  <2>1. 1 \in Int /\ Len(s) \in Int
    OBVIOUS
  <2> DEFINE D == 1 .. Len(s)
  <2>2. IsFiniteSet(D) /\ D \subseteq Nat /\ S \in SUBSET D
    BY <2>1, FS_Interval
  <2> HIDE DEF D
  <2> QED
    BY <2>2, FS_Subset
<1>2. /\ o \in Seq(S) /\ ToSet(o) = S
      /\ \A j, k \in 1 .. Len(o) : (j < k => o[j] < o[k]) /\ (o[j] = o[k] => j = k)
  BY <1>1, OrderHolds
<1>3. AtPlaces(s, S) = [k \in DOMAIN o |-> s[o[k]]]
  BY Zenon DEF AtPlaces
<1> HIDE DEF o
<1>4. DOMAIN o = 1 .. Len(o) /\ Len(o) \in Nat /\ \A k \in 1 .. Len(o) : s[o[k]] \in T
  <2>1. DOMAIN o = 1 .. Len(o) /\ Len(o) \in Nat /\ \A k \in 1 .. Len(o) : o[k] \in S
    BY <1>2
  <2>2. \A x \in S : s[x] \in T
    OBVIOUS
  <2> QED
    BY <2>1, <2>2
<1> DEFINE a == [k \in 1 .. Len(o) |-> s[o[k]]]
<1>5. a \in Seq(T) /\ Len(a) = Len(o) /\ \A k \in 1 .. Len(o) : a[k] = s[o[k]]
  <2>1. a \in [1 .. Len(o) -> T]
    BY <1>4
  <2>2. \A k \in 1 .. Len(o) : a[k] = s[o[k]]
    OBVIOUS
  <2> HIDE DEF a
  <2> QED
    BY <1>4, <2>1, <2>2
<1>6. AtPlaces(s, S) = a
  BY <1>3, <1>4
<1> HIDE DEF a
<1> QED
  BY <1>2, <1>5, <1>6

\* FlattenSeq joins what it joins.
LEMMA FlattenNone == FlattenSeq(<<>>) = <<>>
  BY DEF FlattenSeq

LEMMA FlattenAppends ==
  ASSUME NEW T, NEW seqs \in Seq(Seq(T)), NEW x \in Seq(T)
  PROVE  FlattenSeq(Append(seqs, x)) = FlattenSeq(seqs) \o x
<1> DEFINE n == Len(seqs)
           more == Append(seqs, x)
<1>1. n \in Nat /\ more \in Seq(Seq(T)) /\ Len(more) = n + 1 /\ more[n + 1] = x /\ \A i \in 1 .. n : more[i] = seqs[i]
  OBVIOUS
<1> HIDE DEF more
<1>2. PICK g : JoinsOf(more, g) /\ FlattenSeq(more) = g[n + 1]
  <2>1. Len(more) # 0
    BY <1>1
  <2> QED
    BY <1>1, <2>1, FlattenIs
<1>3. \A i \in 1 .. n + 1 : g[i] = IF i = 1 THEN more[i] ELSE g[i - 1] \o more[i]
  <2>1. g = [i \in 1 .. n + 1 |-> IF i = 1 THEN more[i] ELSE g[i - 1] \o more[i]]
    BY <1>1, <1>2 DEF JoinsOf
  <2> QED
    BY <2>1, Zenon
<1>4. CASE n = 0
  <2>1. seqs = <<>> /\ FlattenSeq(seqs) = <<>>
    BY <1>4, FlattenNone
  <2>2. g[1] = x
    BY <1>1, <1>3, <1>4
  <2> QED
    BY <1>2, <1>4, <2>1, <2>2 DEF more
<1>5. CASE n # 0
  <2>1. PICK f : JoinsOf(seqs, f) /\ FlattenSeq(seqs) = f[n]
    BY <1>5, FlattenIs
  <2>2. \A i \in 1 .. n : f[i] = IF i = 1 THEN seqs[i] ELSE f[i - 1] \o seqs[i]
    <3>1. f = [i \in 1 .. n |-> IF i = 1 THEN seqs[i] ELSE f[i - 1] \o seqs[i]]
      BY <2>1 DEF JoinsOf
    <3> QED
      BY <3>1, Zenon
  <2> DEFINE G == {k \in 0 .. n : k # 0 => g[k] = f[k]}
  <2> HIDE DEF n
  <2>3. 0 \in G
    BY <1>1
  <2>4. ASSUME NEW k \in 1 .. n, k - 1 \in G PROVE k \in G
    <3>1. g[k] = IF k = 1 THEN seqs[k] ELSE g[k - 1] \o seqs[k]
      BY <1>1, <1>3
    <3>2. k # 1 => g[k - 1] = f[k - 1]
      BY <2>4
    <3>3. g[k] = f[k]
      BY <2>2, <3>1, <3>2
    <3> QED
      BY <1>1, <3>3
  <2>5. n \in G
    <3>1. 0 .. n \subseteq G
      <4> HIDE DEF G
      <4> QED
        BY <1>1, <2>3, <2>4, UpInduction
    <3> HIDE DEF G
    <3> QED
      BY <1>1, <3>1
  <2>6. g[n + 1] = g[n] \o x /\ g[n] = f[n]
    <3> DEFINE l == n + 1
    <3>1. l \in 1 .. n + 1 /\ l # 1 /\ l - 1 = n
      BY <1>1, <1>5
    <3>2. more[l] = x
      BY <1>1
    <3>3. g[n] = f[n]
      BY <1>5, <2>5
    <3> HIDE DEF l
    <3>4. g[l] = g[l - 1] \o more[l]
      BY <1>3, <3>1, Zenon
    <3>5. g[l] = g[n] \o x
      BY <3>1, <3>2, <3>4, Zenon
    <3> QED
      BY <3>3, <3>5 DEF l
  <2> QED
    BY <1>2, <2>1, <2>6 DEF more
<1> QED
  BY <1>4, <1>5

LEMMA FlattenJoins ==
  ASSUME NEW T, NEW a \in Seq(Seq(T)), NEW b \in Seq(Seq(T))
  PROVE  FlattenSeq(a \o b) = FlattenSeq(a) \o FlattenSeq(b)
<1> DEFINE n == Len(b)
           c(k) == SubSeq(b, 1, k)
           G == {k \in 0 .. n : FlattenSeq(a \o c(k)) = FlattenSeq(a) \o FlattenSeq(c(k))}
<1>1. n \in Nat /\ c(0) = <<>> /\ c(n) = b
  OBVIOUS
<1>2. 0 \in G
  <2>1. a \o <<>> = a /\ FlattenSeq(a) \in Seq(T)
    BY FlattenHolds
  <2>2. FlattenSeq(a) \o FlattenSeq(<<>>) = FlattenSeq(a)
    BY <2>1, FlattenNone
  <2>3. FlattenSeq(a \o c(0)) = FlattenSeq(a) \o FlattenSeq(c(0))
    BY <1>1, <2>1, <2>2
  <2> QED
    BY <1>1, <2>3
<1>3. ASSUME NEW k \in 1 .. n, k - 1 \in G PROVE k \in G
  <2>1. /\ c(k - 1) \in Seq(Seq(T)) /\ b[k] \in Seq(T) /\ c(k) = Append(c(k - 1), b[k])
        /\ a \o c(k - 1) \in Seq(Seq(T))
    OBVIOUS
  <2>2. FlattenSeq(a \o c(k - 1)) = FlattenSeq(a) \o FlattenSeq(c(k - 1))
    BY <1>3
  <2> DEFINE d == c(k - 1)
             x == b[k]
  <2>3. c(k) = Append(d, x)
    BY <2>1
  <2> HIDE DEF c, d, x
  <2>4. d \in Seq(Seq(T)) /\ x \in Seq(T) /\ a \o d \in Seq(Seq(T)) /\ a \o Append(d, x) = Append(a \o d, x)
    <3>1. d \in Seq(Seq(T)) /\ x \in Seq(T) /\ a \o d \in Seq(Seq(T))
      BY <2>1 DEF d, x
    <3> QED
      BY <3>1
  <2>5. FlattenSeq(a \o Append(d, x)) = FlattenSeq(a \o d) \o x /\ FlattenSeq(Append(d, x)) = FlattenSeq(d) \o x
    BY <2>4, FlattenAppends
  <2>6. FlattenSeq(a) \in Seq(T) /\ FlattenSeq(d) \in Seq(T)
    BY <2>4, FlattenHolds
  <2>7. FlattenSeq(a) \o FlattenSeq(d) \o x = FlattenSeq(a) \o (FlattenSeq(d) \o x)
    BY <2>4, <2>6
  <2>8. FlattenSeq(a \o d) = FlattenSeq(a) \o FlattenSeq(d)
    BY <2>2 DEF d
  <2>9. FlattenSeq(a \o c(k)) = FlattenSeq(a) \o FlattenSeq(c(k))
    BY <2>3, <2>5, <2>7, <2>8
  <2> QED
    BY <2>9
<1>4. n \in G
  <2>1. 0 .. n \subseteq G
    <3> HIDE DEF G, n
    <3> QED
      BY <1>1, <1>2, <1>3, UpInduction
  <2> HIDE DEF G
  <2> QED
    BY <1>1, <2>1
<1> QED
  BY <1>1, <1>4

\* The fold of a sequence from the left, as FoldLeft of SequencesExt makes it.
LEMMA LeftFoldExists ==
  ASSUME NEW n \in Nat, NEW V, NEW base \in V, NEW h \in [(1 .. n) \X V -> V]
  PROVE  /\ \E it \in [SUBSET (1 .. n) -> V] :
              it = [s \in SUBSET (1 .. n) |-> IF s = {} THEN base ELSE h[<<Max(s), it[s \ {Max(s)}]>>]]
         /\ \A s \in SUBSET (1 .. n) : s # {} => Max(s) \in s
         /\ \A k \in 1 .. n : Max(1 .. k) = k /\ (1 .. k) \ {k} = 1 .. (k - 1)
<1> DEFINE top == [x \in SUBSET (1 .. n) |-> Max(x)]
<1>1. ASSUME NEW x \in SUBSET (1 .. n), x # {} PROVE TopOf(x, Max(x))
  <2>1. x \subseteq Nat /\ IsFiniteSet(x)
    <3>1. 1 \in Int /\ n \in Int
      OBVIOUS
    <3> DEFINE D == 1 .. n
    <3>2. IsFiniteSet(D) /\ D \subseteq Nat /\ x \in SUBSET D
      BY <3>1, FS_Interval
    <3> HIDE DEF D
    <3> QED
      BY <3>2, FS_Subset
  <2>2. \E k \in x : \A j \in x : j <= k
    BY <1>1, <2>1, GreatestIn
  <2>3. \E k \in x : \A j \in x : k >= j
    BY <2>1, <2>2
  <2>4. Max(x) \in x /\ \A j \in x : Max(x) >= j
    BY <2>3 DEF Max
  <2> QED
    BY <2>1, <2>4 DEF TopOf
<1>2. \A x \in SUBSET (1 .. n) : top[x] = Max(x) /\ (x # {} => TopOf(x, top[x]))
  BY <1>1
<1> HIDE DEF top
<1>3. PICK it \in [SUBSET (1 .. n) -> V] : RunOf(n, top, base, h, it)
  BY <1>2, RunExists
<1>4. it = [s \in SUBSET (1 .. n) |-> IF s = {} THEN base ELSE h[<<Max(s), it[s \ {Max(s)}]>>]]
  BY <1>2, <1>3 DEF RunOf
<1>5. ASSUME NEW k \in 1 .. n PROVE Max(1 .. k) = k /\ (1 .. k) \ {k} = 1 .. (k - 1)
  <2>1. 1 .. k \in SUBSET (1 .. n) /\ k \in 1 .. k
    OBVIOUS
  <2>2. TopOf(1 .. k, Max(1 .. k))
    BY <1>1, <2>1
  <2>3. Max(1 .. k) = k
    BY <2>1, <2>2 DEF TopOf
  <2> QED
    BY <2>3
<1> QED
  BY <1>1, <1>4, <1>5 DEF TopOf

-----------------------------------------------------------------------------
(* Sums, ends and sorting. *)

\* The sum of a function's values.
LEMMA TotalIs ==
  ASSUME NEW S, IsFiniteSet(S), NEW w \in [S -> Int]
  PROVE  \E it : SumsOf(S, w, it) /\ SumFunction(w) = it[S]
<1> DEFINE P(it) == it = [s \in SUBSET S |-> IF s = {} THEN 0
                                            ELSE w[CHOOSE x \in s : TRUE] + it[s \ {CHOOSE x \in s : TRUE}]]
           sums == CHOOSE it : P(it)
<1>1. SumFunction(w) = sums[S]
  <2>1. DOMAIN w = S
    OBVIOUS
  <2> QED
    BY <2>1 DEF SumFunction, SumFunctionOnSet, FoldFunctionOnSet, MapThenFoldSet
<1>2. \A it : P(it) <=> SumsOf(S, w, it)
  BY DEF SumsOf
<1> HIDE DEF P
<1>3. \E it : P(it)
  BY <1>2, SumsExist
<1>4. SumsOf(S, w, sums)
  BY <1>2, <1>3
<1> QED
  BY <1>1, <1>4

\* Of no values it is none.
LEMMA TotalNone == ASSUME NEW w \in [{} -> Int] PROVE SumFunction(w) = 0
<1>1. IsFiniteSet({})
  BY FS_EmptySet
<1>2. PICK it : SumsOf({}, w, it) /\ SumFunction(w) = it[{}]
  BY <1>1, TotalIs
<1> QED
  BY <1>1, <1>2, SumsAdd DEF AddsUp

\* A function without one of its values.
AllBut(u, w, x) == u = [y \in DOMAIN w \ {x} |-> w[y]]

\* One value more adds to it.
LEMMA TotalAdds ==
  ASSUME NEW S, IsFiniteSet(S), NEW w \in [S -> Int], NEW x \in S, NEW u, AllBut(u, w, x)
  PROVE  SumFunction(w) \in Int /\ SumFunction(w) = w[x] + SumFunction(u)
<1> DEFINE R == S \ {x}
<1>1. IsFiniteSet(R) /\ u \in [R -> Int] /\ \A y \in R : u[y] = w[y]
  <2>1. u = [y \in R |-> w[y]]
    BY DEF AllBut
  <2> QED
    BY <2>1, FS_RemoveElement
<1>2. PICK it : SumsOf(S, w, it) /\ SumFunction(w) = it[S]
  BY TotalIs
<1> HIDE DEF R
<1>3. PICK jt : SumsOf(R, u, jt) /\ SumFunction(u) = jt[R]
  BY <1>1, TotalIs
<1>4. AddsUp(S, w, it) /\ AddsUp(R, u, jt)
  BY <1>1, <1>2, <1>3, SumsAdd
<1> DEFINE G == {s \in SUBSET R : it[s] = jt[s]}
<1>5. ASSUME NEW s \in SUBSET R, \A y \in s : s \ {y} \in G PROVE s \in G
  <2>1. CASE s = {}
    BY <1>4, <2>1 DEF AddsUp
  <2>2. CASE s # {}
    <3>1. PICK y \in s : TRUE
      BY <2>2
    <3>2. it[s \ {y}] = jt[s \ {y}] /\ w[y] = u[y] /\ s \in SUBSET S
      BY <1>1, <1>5, <3>1 DEF R
    <3>3. it[s] = w[y] + it[s \ {y}]
      BY <1>4, <3>1, <3>2 DEF AddsUp
    <3>4. jt[s] = u[y] + jt[s \ {y}]
      BY <1>4, <3>1 DEF AddsUp
    <3> QED
      BY <3>2, <3>3, <3>4
  <2> QED
    BY <2>1, <2>2
<1>6. R \in G
  <2>1. SUBSET R \subseteq G
    <3> HIDE DEF G
    <3> QED
      BY <1>1, <1>5, SetInduction
  <2> HIDE DEF G
  <2> QED
    BY <2>1
<1>7. it[S] \in Int /\ it[S] = w[x] + it[R]
  BY <1>4 DEF AddsUp, R
<1> QED
  BY <1>2, <1>3, <1>6, <1>7

\* The least and the greatest of some numbers, and of one more.
LEMMA EndsOf ==
  ASSUME NEW S, IsFiniteSet(S), S \subseteq Int, S # {}
  PROVE  /\ Min(S) \in S /\ \A y \in S : Min(S) <= y
         /\ Max(S) \in S /\ \A y \in S : y <= Max(S)
<1> DEFINE G == {s \in SUBSET S : s # {} => (\E x \in s : \A y \in s : x <= y) /\ (\E x \in s : \A y \in s : x >= y)}
<1>1. ASSUME NEW s \in SUBSET S, \A x \in s : s \ {x} \in G PROVE s \in G
  <2>1. CASE s = {}
    BY <2>1
  <2>2. CASE s # {}
    <3>1. PICK x \in s : TRUE
      BY <2>2
    <3>2. CASE s = {x}
      <4>1. x <= x /\ x >= x
        BY <3>1
      <4> QED
        BY <3>1, <3>2, <4>1
    <3>3. CASE s # {x}
      <4> DEFINE r == s \ {x}
      <4>1. r # {} /\ r \in G
        BY <1>1, <3>1, <3>3
      <4>2. PICK a \in r : \A y \in r : a <= y
        BY <4>1
      <4>3. PICK b \in r : \A y \in r : b >= y
        BY <4>1
      <4>4. a \in Int /\ b \in Int /\ x \in Int /\ \A y \in s : y \in Int
        BY <3>1
      <4>5. \E l \in s : \A y \in s : l <= y
        <5>1. CASE a <= x
          BY <3>1, <4>2, <4>4, <5>1
        <5>2. CASE ~(a <= x)
          BY <3>1, <4>2, <4>4, <5>2
        <5> QED
          BY <5>1, <5>2
      <4>6. \E l \in s : \A y \in s : l >= y
        <5>1. CASE b >= x
          BY <3>1, <4>3, <4>4, <5>1
        <5>2. CASE ~(b >= x)
          BY <3>1, <4>3, <4>4, <5>2
        <5> QED
          BY <5>1, <5>2
      <4> QED
        BY <4>5, <4>6
    <3> QED
      BY <3>2, <3>3
  <2> QED
    BY <2>1, <2>2
<1>2. S \in G
  <2>1. SUBSET S \subseteq G
    <3> HIDE DEF G
    <3> QED
      BY <1>1, SetInduction
  <2> HIDE DEF G
  <2> QED
    BY <2>1
<1>3. (\E x \in S : \A y \in S : x <= y) /\ (\E x \in S : \A y \in S : x >= y)
  BY <1>2
<1>4. Min(S) \in S /\ \A y \in S : Min(S) <= y
  BY <1>3 DEF Min
<1>5. Max(S) \in S /\ \A y \in S : Max(S) >= y
  BY <1>3 DEF Max
<1> QED
  BY <1>4, <1>5

\* With one number more, each is the old one or the new number.
LEMMA EndsWith ==
  ASSUME NEW S, IsFiniteSet(S), S \subseteq Int, S # {}, NEW x \in Int
  PROVE  Min(S \cup {x}) = Min({Min(S), x}) /\ Max(S \cup {x}) = Max({Max(S), x})
<1> DEFINE T == S \cup {x}
           lo == Min(S)
           hi == Max(S)
<1>1. IsFiniteSet(T) /\ T \subseteq Int /\ T # {}
  BY FS_AddElement
<1>2. lo \in S /\ (\A y \in S : lo <= y) /\ hi \in S /\ \A y \in S : y <= hi
  BY EndsOf
<1>3. lo \in Int /\ hi \in Int /\ IsFiniteSet({lo, x}) /\ IsFiniteSet({hi, x})
  <2>1. \A y : IsFiniteSet({y}) /\ IsFiniteSet({y} \cup {x}) /\ {y} \cup {x} = {y, x}
    BY FS_Singleton, FS_AddElement
  <2> QED
    BY <1>2, <2>1
<1> HIDE DEF lo, hi, T
<1>4. Min(T) \in T /\ (\A y \in T : Min(T) <= y) /\ Max(T) \in T /\ \A y \in T : y <= Max(T)
  BY <1>1, EndsOf
<1>5. Min({lo, x}) \in {lo, x} /\ \A y \in {lo, x} : Min({lo, x}) <= y
  BY <1>3, EndsOf
<1>6. Max({hi, x}) \in {hi, x} /\ \A y \in {hi, x} : y <= Max({hi, x})
  BY <1>3, EndsOf
<1>7. Min(T) = Min({lo, x})
  <2> DEFINE p == Min(T)
             q == Min({lo, x})
  <2>1. p \in S \cup {x} /\ (\A y \in S \cup {x} : p <= y) /\ q \in {lo, x} /\ q <= lo /\ q <= x
    BY <1>4, <1>5 DEF T
  <2> HIDE DEF p, q
  <2>2. p \in Int /\ q \in Int /\ p <= lo /\ p <= x /\ (p \in S => lo <= p)
    BY <1>2, <1>3, <2>1
  <2>3. p = q
    BY <1>3, <2>1, <2>2
  <2> QED
    BY <2>3 DEF p, q
<1>8. Max(T) = Max({hi, x})
  <2> DEFINE p == Max(T)
             q == Max({hi, x})
  <2>1. p \in S \cup {x} /\ (\A y \in S \cup {x} : y <= p) /\ q \in {hi, x} /\ hi <= q /\ x <= q
    BY <1>4, <1>6 DEF T
  <2> HIDE DEF p, q
  <2>2. p \in Int /\ q \in Int /\ hi <= p /\ x <= p /\ (p \in S => p <= hi)
    BY <1>2, <1>3, <2>1
  <2>3. p = q
    BY <1>3, <2>1, <2>2
  <2> QED
    BY <2>3 DEF p, q
<1> QED
  BY <1>7, <1>8 DEF T, lo, hi

\* Of one number, both are the number.
LEMMA EndsOfOne == ASSUME NEW x \in Int PROVE Min({x}) = x /\ Max({x}) = x
<1>1. x <= x /\ x >= x
  OBVIOUS
<1> QED
  BY <1>1 DEF Min, Max


\* The numbers up to one are as many.
LEMMA CountTo == ASSUME NEW n \in Nat PROVE IsFiniteSet(1 .. n) /\ Cardinality(1 .. n) = n
<1>1. 1 \in Int /\ n \in Int
  OBVIOUS
<1>2. IsFiniteSet(1 .. n) /\ Cardinality(1 .. n) = IF 1 > n THEN 0 ELSE n - 1 + 1
  BY <1>1, FS_Interval
<1> QED
  BY <1>2

\* What is over some of the numbers is over all of them.
LEMMA SeqOver ==
  ASSUME NEW T, T \subseteq Nat, NEW s \in Seq(T)
  PROVE  s \in Seq(Nat) /\ DOMAIN s = 1 .. Len(s) /\ Len(s) \in Nat /\ \A i \in 1 .. Len(s) : s[i] \in T /\ s[i] \in Nat
<1>1. DOMAIN s = 1 .. Len(s) /\ Len(s) \in Nat /\ \A i \in 1 .. Len(s) : s[i] \in T
  OBVIOUS
<1>2. \A i \in 1 .. Len(s) : s[i] \in Nat
  BY <1>1
<1>3. s \in [1 .. Len(s) -> Nat]
  BY <1>1, <1>2
<1>4. s \in Seq(Nat)
  BY <1>1, <1>3
<1> QED
  BY <1>1, <1>2, <1>4

\* How often a sequence has an entry.
HowOften(s, x) == Cardinality({i \in DOMAIN s : s[i] = x})

\* Sorting moves the entries of a sequence, and changes none.
Orders(s, p) ==
  /\ p \in Seq(1 .. Len(s)) /\ Len(p) = Len(s) /\ ToSet(p) = 1 .. Len(s)
  /\ \A i, j \in 1 .. Len(s) : (i # j => p[i] # p[j]) /\ (i < j => s[p[i]] <= s[p[j]])

\* Numbers can be put in order: with its place added to each, no two are alike.
LEMMA OrderExists ==
  ASSUME NEW s \in Seq(Nat)
  PROVE  \E p \in SetToSeqs(DOMAIN s) : \A i, j \in DOMAIN s : i < j => s[p[i]] <= s[p[j]]
<1> DEFINE n == Len(s)
           m == n + 1
           code == [i \in 1 .. n |-> s[i] * m + i]
           C == {code[i] : i \in 1 .. n}
<1>1. n \in Nat /\ m \in Nat /\ m = n + 1 /\ DOMAIN s = 1 .. n /\ \A i \in 1 .. n : s[i] \in Nat
  OBVIOUS
<1>2. \A i \in 1 .. n : code[i] = s[i] * m + i /\ code[i] \in Nat
  <2>1. ASSUME NEW i \in 1 .. n PROVE s[i] * m + i \in Nat
    <3>1. s[i] * m \in Nat
      BY <1>1
    <3> QED
      BY <3>1
  <2> QED
    BY <2>1
<1> HIDE DEF code, m
<1>3. ASSUME NEW i \in 1 .. n, NEW j \in 1 .. n, s[i] < s[j] PROVE code[i] < code[j]
  <2> DEFINE a == s[i]
             b == s[j]
  <2>1. a \in Nat /\ b \in Nat /\ a + 1 <= b /\ i < m /\ i \in Nat /\ j \in Nat /\ j >= 1
    BY <1>1, <1>3
  <2>2. (a + 1) * m <= b * m /\ (a + 1) * m = a * m + m /\ a * m \in Nat /\ b * m \in Nat
    <3> HIDE DEF a, b
    <3>1. \E c \in Nat : b = a + 1 + c
      <4>1. b - (a + 1) \in Nat /\ b = a + 1 + (b - (a + 1))
        BY <2>1
      <4> QED
        BY <4>1
    <3>2. PICK c \in Nat : b = a + 1 + c
      BY <3>1
    <3>3. a * m \in Nat /\ c * m \in Nat /\ (a + 1) * m = a * m + m /\ (a + 1 + c) * m = a * m + m + c * m
      BY <1>1, <2>1
    <3> DEFINE am == a * m
               cm == c * m
    <3>4. b * m = am + m + cm /\ am \in Nat /\ cm \in Nat /\ (a + 1) * m = am + m
      BY <3>2, <3>3
    <3> HIDE DEF am, cm
    <3>5. am + m <= am + m + cm /\ am + m + cm \in Nat
      BY <1>1, <3>4
    <3> QED
      BY <3>4, <3>5 DEF am
  <2>3. code[i] = a * m + i /\ code[j] = b * m + j
    BY <1>2
  <2> HIDE DEF a, b
  <2> DEFINE am == a * m
             bm == b * m
             a1 == (a + 1) * m
  <2>4. a1 <= bm /\ a1 = am + m /\ am \in Nat /\ bm \in Nat /\ code[i] = am + i /\ code[j] = bm + j
    BY <2>2, <2>3
  <2> HIDE DEF am, bm, a1
  <2> QED
    BY <1>1, <2>1, <2>4
<1>4. \A i, j \in 1 .. n : (code[i] = code[j] => i = j) /\ (code[i] < code[j] => s[i] <= s[j])
  <2> SUFFICES ASSUME NEW i \in 1 .. n, NEW j \in 1 .. n
               PROVE  (code[i] = code[j] => i = j) /\ (code[i] < code[j] => s[i] <= s[j])
    OBVIOUS
  <2>1. s[i] < s[j] \/ s[j] < s[i] \/ s[i] = s[j]
    BY <1>1
  <2>2. code[i] \in Nat /\ code[j] \in Nat /\ s[i] \in Nat /\ s[j] \in Nat
    BY <1>1, <1>2
  <2>3. s[i] = s[j] => (code[i] = code[j] => i = j)
    <3> DEFINE e == s[i] * m
    <3>1. e \in Nat
      BY <1>1
    <3>2. s[i] = s[j] => code[i] = e + i /\ code[j] = e + j
      BY <1>2
    <3> HIDE DEF e
    <3> QED
      BY <3>1, <3>2
  <2> QED
    BY <1>3, <2>1, <2>2, <2>3
<1>5. IsFiniteSet(C) /\ C \subseteq Nat /\ Cardinality(C) = n
  <2>1. IsFiniteSet(1 .. n) /\ Cardinality(1 .. n) = n
    BY <1>1, CountTo
  <2>2. code \in [1 .. n -> Nat]
    <3>1. code = [i \in 1 .. n |-> code[i]]
      BY DEF code
    <3> QED
      BY <1>2, <3>1
  <2>3. code \in Bijection(1 .. n, C)
    BY <1>4, <2>2, Zenon DEF Bijection, Injection, Surjection, IsInjective
  <2> QED
    BY <1>2, <2>1, <2>3, FS_Bijection DEF ExistsBijection
<1>6. PICK o \in SetToSeqs(C) : \A i, j \in DOMAIN o : i < j => o[i] < o[j]
  <2> HIDE DEF C
  <2> QED
    BY <1>5, AscendExists
<1>7. o \in Seq(C) /\ Len(o) = n /\ ToSet(o) = C
  BY <1>5, <1>6, SeqsHold
<1> DEFINE p == [k \in 1 .. n |-> CHOOSE i \in 1 .. n : code[i] = o[k]]
<1>8. \A k \in 1 .. n : p[k] \in 1 .. n /\ code[p[k]] = o[k]
  <2>1. \A k \in 1 .. n : o[k] \in C
    BY <1>7
  <2>2. \A k \in 1 .. n : \E i \in 1 .. n : code[i] = o[k]
    BY <2>1
  <2> QED
    BY <2>2
<1>9. p \in [1 .. n -> 1 .. n]
  BY <1>8
<1> HIDE DEF p
<1>10. DOMAIN o = 1 .. n
  BY <1>7
<1>11. \A i, j \in 1 .. n : i # j => p[i] # p[j]
  <2> SUFFICES ASSUME NEW i \in 1 .. n, NEW j \in 1 .. n, i # j PROVE p[i] # p[j]
    OBVIOUS
  <2>1. i < j \/ j < i
    BY <1>1
  <2>2. o[i] \in Nat /\ o[j] \in Nat
    BY <1>2, <1>8
  <2>3. o[i] # o[j]
    BY <1>6, <1>10, <2>1, <2>2
  <2> QED
    BY <1>8, <2>3
<1>12. \A i, j \in 1 .. n : i < j => s[p[i]] <= s[p[j]]
  <2> SUFFICES ASSUME NEW i \in 1 .. n, NEW j \in 1 .. n, i < j PROVE s[p[i]] <= s[p[j]]
    OBVIOUS
  <2>1. o[i] < o[j] /\ p[i] \in 1 .. n /\ p[j] \in 1 .. n /\ code[p[i]] = o[i] /\ code[p[j]] = o[j]
    BY <1>6, <1>8, <1>10
  <2> QED
    BY <1>4, <2>1
<1>13. p \in SetToSeqs(1 .. n)
  <2>1. IsFiniteSet(1 .. n) /\ Cardinality(1 .. n) = n
    BY <1>1, CountTo
  <2> QED
    BY <1>9, <1>11, <2>1 DEF SetToSeqs
<1> QED
  BY <1>1, <1>12, <1>13

\* Sorted as CHOOSE takes it: some order there is.
LEMMA SortedIs ==
  ASSUME NEW T, T \subseteq Nat, NEW s \in Seq(T)
  PROVE  \E p : Orders(s, p) /\ Sorted(s) = [i \in 1 .. Len(s) |-> s[p[i]]]
<1> DEFINE P(p) == \A i, j \in DOMAIN s : i < j => s[p[i]] <= s[p[j]]
           o == CHOOSE p \in SetToSeqs(DOMAIN s) : P(p)
<1>1. s \in Seq(Nat) /\ DOMAIN s = 1 .. Len(s) /\ Len(s) \in Nat
  BY SeqOver
<1>2. o \in SetToSeqs(DOMAIN s) /\ P(o)
  <2>1. \E p \in SetToSeqs(DOMAIN s) : P(p)
    BY <1>1, OrderExists
  <2> HIDE DEF P
  <2> QED
    BY <2>1
<1>3. Sorted(s) = [i \in DOMAIN s |-> s[o[i]]]
  BY DEF Sorted
<1> HIDE DEF o
<1>4. IsFiniteSet(1 .. Len(s)) /\ Cardinality(1 .. Len(s)) = Len(s)
  BY <1>1, CountTo
<1>5. o \in Seq(1 .. Len(s)) /\ Len(o) = Len(s) /\ ToSet(o) = 1 .. Len(s)
  BY <1>1, <1>2, <1>4, SeqsHold
<1>6. \A i, j \in 1 .. Len(s) : i # j => o[i] # o[j]
  BY <1>1, <1>2, <1>4 DEF SetToSeqs
<1> QED
  BY <1>1, <1>2, <1>3, <1>5, <1>6 DEF Orders

\* What is sorted ascends, and has every entry as often as before.
LEMMA SortedHolds ==
  ASSUME NEW T, T \subseteq Nat, NEW s \in Seq(T)
  PROVE  /\ Sorted(s) \in Seq(T) /\ \A i, j \in 1 .. Len(Sorted(s)) : i < j => Sorted(s)[i] <= Sorted(s)[j]
         /\ \A x \in T : HowOften(Sorted(s), x) = HowOften(s, x)
<1> DEFINE n == Len(s)
           t == Sorted(s)
<1>1. PICK p : Orders(s, p) /\ t = [i \in 1 .. n |-> s[p[i]]]
  BY SortedIs
<1>2. n \in Nat /\ DOMAIN s = 1 .. n /\ p \in [1 .. n -> 1 .. n] /\ \A i \in 1 .. n : s[i] \in T /\ p[i] \in 1 .. n
  <2>1. n \in Nat /\ DOMAIN s = 1 .. n /\ \A i \in 1 .. n : s[i] \in T
    OBVIOUS
  <2>2. p \in Seq(1 .. n) /\ Len(p) = n
    BY <1>1 DEF Orders
  <2>3. p \in [1 .. n -> 1 .. n]
    BY <2>2
  <2> QED
    BY <2>1, <2>3
<1>3. \A i, j \in 1 .. n : (i # j => p[i] # p[j]) /\ (i < j => s[p[i]] <= s[p[j]])
  BY <1>1 DEF Orders
<1>4. \A k \in 1 .. n : \E i \in 1 .. n : p[i] = k
  <2>1. ToSet(p) = 1 .. n /\ DOMAIN p = 1 .. n
    BY <1>1, <1>2 DEF Orders
  <2> QED
    BY <2>1 DEF ToSet
<1> HIDE DEF t
<1>5. t \in [1 .. n -> T] /\ \A i \in 1 .. n : t[i] = s[p[i]]
  BY <1>1, <1>2
<1>6. t \in Seq(T) /\ Len(t) = n /\ DOMAIN t = 1 .. n
  BY <1>2, <1>5
<1>7. ASSUME NEW x \in T PROVE HowOften(t, x) = HowOften(s, x)
  <2> DEFINE A == {i \in 1 .. n : t[i] = x}
             B == {i \in 1 .. n : s[i] = x}
             g == [i \in A |-> p[i]]
  <2>1. IsFiniteSet(A)
    <3>1. IsFiniteSet(1 .. n) /\ A \subseteq 1 .. n
      BY <1>2, CountTo
    <3> HIDE DEF A
    <3> QED
      BY <3>1, FS_Subset
  <2>2. g \in Bijection(A, B)
    <3>1. \A i \in A : p[i] \in B
      BY <1>2, <1>5
    <3>2. \A k \in B : \E i \in A : p[i] = k
      BY <1>4, <1>5
    <3>3. \A i, j \in A : p[i] = p[j] => i = j
      BY <1>3
    <3> HIDE DEF A, B
    <3> QED
      BY <3>1, <3>2, <3>3 DEF Bijection, Injection, Surjection, IsInjective
  <2>3. Cardinality(A) = Cardinality(B)
    <3> HIDE DEF A, B, g
    <3> QED
      BY <2>1, <2>2, FS_Bijection DEF ExistsBijection
  <2> QED
    BY <1>2, <1>6, <2>3 DEF HowOften
<1>8. \A i, j \in 1 .. Len(t) : i < j => t[i] <= t[j]
  BY <1>3, <1>5, <1>6
<1> QED
  BY <1>6, <1>7, <1>8 DEF t

Climbs(a) == \A i, j \in 1 .. Len(a) : i < j => a[i] <= a[j]
Parts(a, b, k) ==
  /\ k \in 1 .. Len(a) /\ (k > Len(b) \/ a[k] < b[k])
  /\ \A i \in 1 .. k - 1 : i <= Len(b) /\ a[i] = b[i]

\* Where two that ascend first part, one has an entry that the other has less often.
LEMMA AscendingSame ==
  ASSUME NEW T \in SUBSET Nat, NEW a \in Seq(T), NEW b \in Seq(T), Climbs(a), Climbs(b), NEW k, Parts(a, b, k)
  PROVE  \E x \in T : HowOften(a, x) # HowOften(b, x)
<1> USE DEF Climbs, Parts
<1> DEFINE x == a[k]
           A == {i \in 1 .. Len(a) : a[i] = x}
           B == {i \in 1 .. Len(b) : b[i] = x}
<1>1. x \in T /\ Len(a) \in Nat /\ Len(b) \in Nat /\ x \in Nat /\ k \in A
  BY SeqOver
<1>2. \A i \in 1 .. Len(b) : b[i] \in Nat
  BY SeqOver
<1>3. B \subseteq A /\ k \notin B
  <2> SUFFICES ASSUME NEW i \in B PROVE i \in A /\ i # k
    OBVIOUS
  <2>1. i \in 1 .. Len(b) /\ b[i] = x
    OBVIOUS
  <2>2. i < k
    <3> SUFFICES ASSUME i >= k PROVE FALSE
      BY <1>1, <2>1
    <3>1. k \in 1 .. Len(b) /\ a[k] < b[k]
      BY <1>1, <2>1
    <3>2. b[k] <= b[i]
      BY <1>1, <1>2, <2>1, <3>1
    <3> QED
      BY <1>1, <1>2, <2>1, <3>1, <3>2
  <2>3. i \in 1 .. k - 1
    BY <2>1, <2>2
  <2> QED
    BY <1>1, <2>1, <2>3
<1> HIDE DEF x
<1>4. IsFiniteSet(A)
  <2>1. IsFiniteSet(1 .. Len(a)) /\ A \subseteq 1 .. Len(a)
    BY <1>1, CountTo
  <2> HIDE DEF A
  <2> QED
    BY <2>1, FS_Subset
<1>5. Cardinality(B) < Cardinality(A) /\ Cardinality(B) \in Nat /\ Cardinality(A) \in Nat
  <2>1. B # A
    BY <1>1, <1>3
  <2> HIDE DEF A, B
  <2> QED
    BY <1>3, <1>4, <2>1, FS_Subset, FS_CardinalityType
<1>6. HowOften(a, x) = Cardinality(A) /\ HowOften(b, x) = Cardinality(B)
  <2>1. DOMAIN a = 1 .. Len(a) /\ DOMAIN b = 1 .. Len(b)
    OBVIOUS
  <2> QED
    BY <2>1 DEF HowOften
<1> QED
  BY <1>1, <1>5, <1>6

\* Whatever the order they come in, the same entries are sorted alike.
LEMMA SortedSame ==
  ASSUME NEW T, T \subseteq Nat, NEW s \in Seq(T), NEW t \in Seq(T), \A x \in T : HowOften(s, x) = HowOften(t, x)
  PROVE  Sorted(s) = Sorted(t)
<1> DEFINE a == Sorted(s)
           b == Sorted(t)
<1>1. /\ a \in Seq(T) /\ \A i, j \in 1 .. Len(a) : i < j => a[i] <= a[j]
      /\ b \in Seq(T) /\ \A i, j \in 1 .. Len(b) : i < j => b[i] <= b[j]
      /\ \A x \in T : HowOften(a, x) = HowOften(b, x)
  <2>1. \A x \in T : HowOften(a, x) = HowOften(s, x) /\ HowOften(b, x) = HowOften(t, x)
    BY SortedHolds
  <2>2. /\ a \in Seq(T) /\ \A i, j \in 1 .. Len(a) : i < j => a[i] <= a[j]
        /\ b \in Seq(T) /\ \A i, j \in 1 .. Len(b) : i < j => b[i] <= b[j]
    BY SortedHolds
  <2> QED
    BY <2>1, <2>2
<1> HIDE DEF a, b
<1> DEFINE D == {k \in Nat \ {0} : k <= Len(a) \/ k <= Len(b)} \cap {k \in Nat : k > Len(a) \/ k > Len(b) \/ a[k] # b[k]}
<1>2. Len(a) \in Nat /\ Len(b) \in Nat
  BY <1>1
<1>3. D = {}
  <2> SUFFICES ASSUME D # {} PROVE FALSE
    OBVIOUS
  <2>1. PICK k \in D : \A j \in D : k <= j
    BY SmallestIn
  <2>2. /\ k \in Nat \ {0} /\ (k <= Len(a) \/ k <= Len(b)) /\ (k > Len(a) \/ k > Len(b) \/ a[k] # b[k])
        /\ \A j \in Nat \ {0} : j < k => j \notin D
    BY <2>1
  <2>3. \A j \in 1 .. k - 1 : j <= Len(a) /\ j <= Len(b) /\ a[j] = b[j]
    <3> SUFFICES ASSUME NEW j \in 1 .. k - 1 PROVE j <= Len(a) /\ j <= Len(b) /\ a[j] = b[j]
      OBVIOUS
    <3>1. j \in Nat \ {0} /\ j < k /\ (j <= Len(a) \/ j <= Len(b))
      BY <1>2, <2>2
    <3>2. j \notin D
      BY <2>2, <3>1
    <3> QED
      BY <1>2, <3>1, <3>2
  <2> HIDE DEF D
  <2>4. CASE k \in 1 .. Len(a) /\ (k > Len(b) \/ a[k] < b[k])
    <3>1. \A j \in 1 .. k - 1 : j <= Len(b) /\ a[j] = b[j]
      BY <2>3
    <3>2. T \in SUBSET Nat /\ a \in Seq(T) /\ b \in Seq(T) /\ Parts(a, b, k) /\ Climbs(a) /\ Climbs(b)
      BY <1>1, <2>4, <3>1 DEF Parts, Climbs
    <3>3. \E x \in T : HowOften(a, x) # HowOften(b, x)
      BY <3>2, AscendingSame
    <3> QED
      BY <1>1, <3>3
  <2>5. CASE k \in 1 .. Len(b) /\ (k > Len(a) \/ b[k] < a[k])
    <3>1. \A j \in 1 .. k - 1 : j <= Len(a) /\ b[j] = a[j]
      BY <2>3
    <3>2. T \in SUBSET Nat /\ a \in Seq(T) /\ b \in Seq(T) /\ Parts(b, a, k) /\ Climbs(a) /\ Climbs(b)
      BY <1>1, <2>5, <3>1 DEF Parts, Climbs
    <3>3. \E x \in T : HowOften(b, x) # HowOften(a, x)
      BY <3>2, AscendingSame
    <3> QED
      BY <1>1, <3>3
  <2>6. k \in 1 .. Len(a) /\ k \in 1 .. Len(b) => a[k] \in Nat /\ b[k] \in Nat
    BY <1>1, SeqOver
  <2> QED
    BY <1>2, <2>2, <2>4, <2>5, <2>6
<1>4. \A k \in Nat \ {0} : (k <= Len(a) \/ k <= Len(b)) => k <= Len(a) /\ k <= Len(b) /\ a[k] = b[k]
  <2> SUFFICES ASSUME NEW k \in Nat \ {0}, k <= Len(a) \/ k <= Len(b) PROVE k <= Len(a) /\ k <= Len(b) /\ a[k] = b[k]
    OBVIOUS
  <2>1. k \notin D
    BY <1>3
  <2> QED
    BY <1>2, <2>1
<1>5. Len(a) = Len(b)
  <2>1. Len(a) # 0 => Len(a) <= Len(b)
    BY <1>2, <1>4
  <2>2. Len(b) # 0 => Len(b) <= Len(a)
    BY <1>2, <1>4
  <2> QED
    BY <1>2, <2>1, <2>2
<1>6. \A k \in 1 .. Len(a) : a[k] = b[k]
  BY <1>2, <1>4
<1>7. a = b
  BY <1>1, <1>5, <1>6, SeqEqual
<1> QED
  BY <1>7 DEF a, b

=============================================================================
