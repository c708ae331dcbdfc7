------------------------------- MODULE Induction -------------------------------
(***************************************************************************)
(* Induction over the natural numbers without operator parameters: a set   *)
(* takes the place of the predicate and a function that of the definition. *)
(* The proofs of the components need it where the code loops.              *)
(***************************************************************************)
EXTENDS Naturals, FiniteSets, FiniteSetTheorems, WellFoundedInduction, TLAPS

\* A non-empty set of natural numbers has a least element.
LEMMA LeastElement ==
  ASSUME NEW T, T \subseteq Nat, T # {}
  PROVE  \E n \in T : \A m \in T : n <= m
<1> DEFINE R == {ss \in Nat \X Nat : ss[1] < ss[2]}
<1>1. IsWellFoundedOn(R, Nat)
  BY NatLessThanWellFounded DEF OpToRel
<1>2. \A m, n \in Nat : <<m, n>> \notin R => n <= m
  OBVIOUS
<1> HIDE DEF R
<1>3. PICK x \in T : \A y \in T : <<y, x>> \notin R
  BY <1>1, WFMin
<1> QED BY <1>2, <1>3

\* A set that holds 0, and with every number the next one, holds them all.
LEMMA InductiveSet ==
  ASSUME NEW T, 0 \in T, \A n \in Nat : n \in T => n + 1 \in T
  PROVE  Nat \subseteq T
<1> DEFINE U == Nat \ T
<1>1. SUFFICES ASSUME U # {} PROVE FALSE
  OBVIOUS
<1>2. PICK n \in U : \A m \in U : n <= m
  BY <1>1, LeastElement
<1>3. n # 0 /\ n - 1 \in Nat /\ n - 1 \notin U
  BY <1>2
<1> QED BY <1>2, <1>3

\* The same with the assumption for every smaller number.
LEMMA StrongInductiveSet ==
  ASSUME NEW T, \A n \in Nat : (\A m \in Nat : m < n => m \in T) => n \in T
  PROVE  Nat \subseteq T
<1> DEFINE U == Nat \ T
<1>1. SUFFICES ASSUME U # {} PROVE FALSE
  OBVIOUS
<1>2. PICK n \in U : \A m \in U : n <= m
  BY <1>1, LeastElement
<1>3. \A m \in Nat : m < n => m \in T
  BY <1>2
<1> QED BY <1>2, <1>3

\* A loop that starts in S and whose N rounds all stay there.  The name makes
\* the lemma easy to instantiate.
StaysIn(S, N, f) == f[0] \in S /\ \A n \in 1 .. N : f[n - 1] \in S => f[n] \in S

\* What holds before a loop and is kept by every round holds after each.
LEMMA LoopInvariant ==
  ASSUME NEW S, NEW N \in Nat, NEW f, StaysIn(S, N, f)
  PROVE  \A n \in 0 .. N : f[n] \in S
<1> DEFINE T == {n \in Nat : n <= N => f[n] \in S}
<1>1. 0 \in T
  BY DEF StaysIn
<1>2. ASSUME NEW n \in Nat, n \in T PROVE n + 1 \in T
  <2>1. n + 1 <= N => n \in 0 .. N /\ n + 1 \in 1 .. N /\ n + 1 - 1 = n
    OBVIOUS
  <2> QED BY <1>2, <2>1 DEF StaysIn
<1> HIDE DEF T
<1>3. Nat \subseteq T
  BY <1>1, <1>2, InductiveSet
<1> QED BY <1>3 DEF T

\* The values in S of a loop after 0, 1, ..., N rounds; round n is step[n].
Rounds(S, init, step, N) ==
  {f \in [0 .. N -> S] : f[0] = init /\ \A n \in 1 .. N : f[n] = step[n][f[n - 1]]}

\* A loop has them.
LEMMA Iteration ==
  ASSUME NEW S, NEW init \in S, NEW step \in [Nat -> [S -> S]], NEW N \in Nat
  PROVE  Rounds(S, init, step, N) # {}
<1> DEFINE T == {n \in Nat : Rounds(S, init, step, n) # {}}
<1>1. 0 \in T
  <2>1. [i \in 0 .. 0 |-> init] \in Rounds(S, init, step, 0)
    BY DEF Rounds
  <2> QED BY <2>1
<1>2. ASSUME NEW n \in Nat, n \in T PROVE n + 1 \in T
  <2>1. PICK f : f \in Rounds(S, init, step, n)
    BY <1>2
  <2> DEFINE g == [i \in 0 .. n + 1 |-> IF i <= n THEN f[i] ELSE step[n + 1][f[n]]]
  <2>2. f[n] \in S /\ step[n + 1] \in [S -> S]
    BY <2>1 DEF Rounds
  <2>3. g \in [0 .. n + 1 -> S] /\ g[0] = init
    BY <2>1, <2>2 DEF Rounds
  <2>4. ASSUME NEW i \in 1 .. n + 1 PROVE g[i] = step[i][g[i - 1]]
    BY <2>1 DEF Rounds
  <2> HIDE DEF g
  <2>5. g \in Rounds(S, init, step, n + 1)
    BY <2>3, <2>4 DEF Rounds
  <2> QED BY <2>5
<1> HIDE DEF T
<1>3. Nat \subseteq T
  BY <1>1, <1>2, InductiveSet
<1> QED BY <1>3 DEF T

\* The functions that take a value in V[p] at every p.
Typed(S, V) == {f \in [S -> UNION {V[p] : p \in S}] : \A p \in S : f[p] \in V[p]}

\* One equation of a recursive definition per argument: what it says of f at p
\* is step[p][f], and only smaller arguments of f matter for it.
WellFoundedIn(S, V, rank, step) ==
  /\ rank \in [S -> Nat]
  /\ \A p \in S : V[p] # {}
  /\ \A p \in S, f \in Typed(S, V) : step[p][f] \in V[p]
  /\ \A p \in S, f, g \in Typed(S, V) :
       (\A c \in S : rank[c] < rank[p] => f[c] = g[c]) => step[p][f] = step[p][g]

SolutionsIn(S, V, step) == {f \in Typed(S, V) : \A p \in S : f[p] = step[p][f]}

LEMMA TypedFacts ==
  ASSUME NEW S, NEW V, NEW f, f = [p \in S |-> f[p]], \A p \in S : f[p] \in V[p]
  PROVE  f \in Typed(S, V)
<1>1. \A p \in S : f[p] \in UNION {V[x] : x \in S}
  OBVIOUS
<1>2. f \in [S -> UNION {V[x] : x \in S}]
  BY <1>1
<1> QED BY <1>2 DEF Typed

\* Such a definition has a solution.
LEMMA TypedRecursion ==
  ASSUME NEW S, NEW V, NEW rank, NEW step, WellFoundedIn(S, V, rank, step)
  PROVE  SolutionsIn(S, V, step) # {}
<1>0. /\ rank \in [S -> Nat]
      /\ \A p \in S : V[p] # {}
      /\ \A p \in S, f \in Typed(S, V) : step[p][f] \in V[p]
      /\ \A p \in S, f, g \in Typed(S, V) :
           (\A c \in S : rank[c] < rank[p] => f[c] = g[c]) => step[p][f] = step[p][g]
  BY DEF WellFoundedIn
\* The functions that satisfy the equations of the arguments below n.
<1> DEFINE Upto(n) == {f \in Typed(S, V) : \A p \in S : rank[p] < n => f[p] = step[p][f]}
           T == {n \in Nat : Upto(n) # {}}
<1>1. 0 \in T
  <2> DEFINE f == [p \in S |-> CHOOSE v \in V[p] : TRUE]
  <2>1. \A p \in S : f[p] \in V[p]
    BY <1>0
  <2>2. f = [p \in S |-> f[p]]
    OBVIOUS
  <2> HIDE DEF f
  <2>3. f \in Typed(S, V)
    BY <2>1, <2>2, TypedFacts
  <2>4. f \in Upto(0)
    BY <1>0, <2>3
  <2> QED BY <2>4
<1>2. ASSUME NEW n \in Nat, n \in T PROVE n + 1 \in T
  <2>1. PICK f : f \in Upto(n)
    BY <1>2
  <2> DEFINE g == [p \in S |-> step[p][f]]
  <2>2. f \in Typed(S, V) /\ g \in Typed(S, V)
    <3>1. f \in Typed(S, V)
      BY <2>1
    <3>2. \A p \in S : g[p] \in V[p]
      BY <1>0, <3>1
    <3>3. g = [p \in S |-> g[p]]
      OBVIOUS
    <3> HIDE DEF g
    <3>4. g \in Typed(S, V)
      BY <3>2, <3>3, TypedFacts
    <3> QED BY <3>1, <3>4
  <2>3. ASSUME NEW p \in S, rank[p] < n + 1 PROVE g[p] = step[p][g]
    <3>1. ASSUME NEW c \in S, rank[c] < rank[p] PROVE g[c] = f[c]
      <4>1. rank[c] < n
        BY <1>0, <2>3, <3>1
      <4> QED BY <2>1, <4>1
    <3> HIDE DEF g
    <3>2. step[p][f] = step[p][g]
      BY <1>0, <2>2, <3>1
    <3> QED BY <3>2 DEF g
  <2> HIDE DEF g
  <2>4. g \in Upto(n + 1)
    BY <2>2, <2>3
  <2> QED BY <2>4
<1> HIDE DEF T
<1>3. \A n \in Nat : Upto(n) # {}
  BY <1>1, <1>2, InductiveSet DEF T
\* They agree there.
<1>4. ASSUME NEW m \in Nat, NEW n \in Nat, NEW f \in Upto(m), NEW g \in Upto(n)
      PROVE  \A p \in S : rank[p] < m /\ rank[p] < n => f[p] = g[p]
  <2> DEFINE U == {k \in Nat : k < m /\ k < n => \A p \in S : rank[p] = k => f[p] = g[p]}
  <2>1. ASSUME NEW k \in Nat, \A j \in Nat : j < k => j \in U PROVE k \in U
    <3>1. SUFFICES ASSUME k < m, k < n, NEW p \in S, rank[p] = k PROVE f[p] = g[p]
      OBVIOUS
    <3>2. ASSUME NEW c \in S, rank[c] < rank[p] PROVE f[c] = g[c]
      <4>1. rank[c] \in Nat /\ rank[c] < k /\ rank[c] < m /\ rank[c] < n
        BY <1>0, <3>1, <3>2
      <4>2. rank[c] \in U
        BY <2>1, <4>1
      <4> QED BY <4>1, <4>2
    <3>3. step[p][f] = step[p][g]
      BY <1>0, <3>2
    <3> QED BY <3>1, <3>3
  <2> HIDE DEF U
  <2>2. Nat \subseteq U
    BY <2>1, StrongInductiveSet
  <2> QED BY <1>0, <2>2 DEF U
<1> DEFINE At(p) == CHOOSE f : f \in Upto(rank[p] + 1)
           h == [p \in S |-> At(p)[p]]
<1>5. ASSUME NEW p \in S PROVE rank[p] + 1 \in Nat /\ At(p) \in Upto(rank[p] + 1) /\ rank[p] < rank[p] + 1
  <2>1. rank[p] + 1 \in Nat /\ rank[p] < rank[p] + 1
    BY <1>0
  <2>2. \E f : f \in Upto(rank[p] + 1)
    BY <1>3, <2>1
  <2> HIDE DEF Upto
  <2> QED BY <2>1, <2>2
<1> HIDE DEF At
<1>6. h \in Typed(S, V)
  <2>1. \A p \in S : At(p) \in Typed(S, V)
    BY <1>5
  <2>2. \A p \in S : h[p] \in V[p]
    BY <2>1 DEF Typed
  <2>3. h = [p \in S |-> h[p]]
    OBVIOUS
  <2> HIDE DEF h
  <2> QED BY <2>2, <2>3, TypedFacts
<1>7. ASSUME NEW p \in S PROVE h[p] = step[p][h]
  <2>1. ASSUME NEW c \in S, rank[c] < rank[p] PROVE h[c] = At(p)[c]
    <3>1. rank[c] < rank[c] + 1 /\ rank[c] < rank[p] + 1
      BY <1>0, <2>1
    <3> HIDE DEF Upto
    <3> QED BY <1>4, <1>5, <3>1
  <2>2. At(p) \in Typed(S, V) /\ At(p)[p] = step[p][At(p)]
    BY <1>5
  <2> HIDE DEF h
  <2>3. step[p][At(p)] = step[p][h]
    BY <1>0, <1>6, <2>1, <2>2
  <2>4. h[p] = At(p)[p]
    BY DEF h
  <2> QED BY <2>2, <2>3, <2>4
<1> HIDE DEF h
<1>8. h \in SolutionsIn(S, V, step)
  BY <1>6, <1>7 DEF SolutionsIn
<1> QED BY <1>8

\* The same with one set for all values.
WellFounded(S, V, rank, step) ==
  /\ V # {} /\ rank \in [S -> Nat]
  /\ step \in [S -> [[S -> V] -> V]]
  /\ \A p \in S, f, g \in [S -> V] :
       (\A c \in S : rank[c] < rank[p] => f[c] = g[c]) => step[p][f] = step[p][g]

Solutions(S, V, step) == {f \in [S -> V] : \A p \in S : f[p] = step[p][f]}

LEMMA Recursion ==
  ASSUME NEW S, NEW V, NEW rank, NEW step, WellFounded(S, V, rank, step)
  PROVE  Solutions(S, V, step) # {}
<1> DEFINE W == [p \in S |-> V]
<1>1. \A p \in S : W[p] = V
  OBVIOUS
<1> HIDE DEF W
<1>2. \A f : f \in Typed(S, W) <=> f \in [S -> V]
  <2>1. ASSUME NEW f, f \in Typed(S, W) PROVE f \in [S -> V]
    <3>1. f \in [S -> UNION {W[p] : p \in S}] /\ \A p \in S : f[p] \in V
      BY <1>1, <2>1 DEF Typed
    <3> QED BY <3>1
  <2>2. ASSUME NEW f, f \in [S -> V] PROVE f \in Typed(S, W)
    <3>1. f = [p \in S |-> f[p]] /\ \A p \in S : f[p] \in W[p]
      BY <1>1, <2>2
    <3> QED BY <3>1, TypedFacts
  <2> QED BY <2>1, <2>2
<1>3. WellFoundedIn(S, W, rank, step)
  <2>1. rank \in [S -> Nat] /\ \A p \in S : W[p] # {}
    BY <1>1 DEF WellFounded
  <2>2. ASSUME NEW p \in S, NEW f \in Typed(S, W) PROVE step[p][f] \in W[p]
    <3>1. f \in [S -> V] /\ step[p] \in [[S -> V] -> V] /\ W[p] = V
      BY <1>1, <1>2 DEF WellFounded
    <3> QED BY <3>1
  <2>3. ASSUME NEW p \in S, NEW f \in Typed(S, W), NEW g \in Typed(S, W),
               \A c \in S : rank[c] < rank[p] => f[c] = g[c]
        PROVE  step[p][f] = step[p][g]
    <3>1. f \in [S -> V] /\ g \in [S -> V]
      BY <1>2
    <3> QED BY <2>3, <3>1 DEF WellFounded
  <2> QED BY <2>1, <2>2, <2>3 DEF WellFoundedIn
<1>4. PICK f : f \in SolutionsIn(S, W, step)
  BY <1>3, TypedRecursion
<1>5. f \in Solutions(S, V, step)
  BY <1>2, <1>4 DEF SolutionsIn, Solutions
<1> QED BY <1>5

Pick(s) == CHOOSE x \in s : TRUE

\* The values of a fold over the subsets of D that starts with base; each[x] is
\* what x does to the value so far.
Folds(D, V, base, each) ==
  {f \in [SUBSET D -> V] :
     \A s \in SUBSET D : f[s] = IF s = {} THEN base ELSE each[Pick(s)][f[s \ {Pick(s)}]]}

LEMMA SmallerSubset ==
  ASSUME NEW D, IsFiniteSet(D), NEW s \in SUBSET D, NEW x \in s
  PROVE  /\ s \ {x} \in SUBSET D
         /\ Cardinality(s) \in Nat /\ Cardinality(s \ {x}) \in Nat
         /\ Cardinality(s \ {x}) < Cardinality(s)
<1>1. IsFiniteSet(s)
  BY FS_Subset
<1>2. Cardinality(s) \in Nat /\ IsFiniteSet(s \ {x}) /\ Cardinality(s \ {x}) = Cardinality(s) - 1
  BY <1>1, FS_CardinalityType, FS_RemoveElement
<1>3. Cardinality(s \ {x}) \in Nat
  BY <1>2, FS_CardinalityType
<1> QED BY <1>2, <1>3

\* A fold over a finite set has values.
LEMMA FoldsExist ==
  ASSUME NEW D, IsFiniteSet(D), NEW V, NEW base \in V, NEW each \in [D -> [V -> V]]
  PROVE  Folds(D, V, base, each) # {}
<1> DEFINE S == SUBSET D
           rank == [s \in S |-> Cardinality(s)]
           value(s, f) == IF s = {} THEN base ELSE each[Pick(s)][f[s \ {Pick(s)}]]
           step == [s \in S |-> [f \in [S -> V] |-> value(s, f)]]
<1>1. ASSUME NEW s \in S, s # {}
      PROVE  /\ Pick(s) \in s /\ s \ {Pick(s)} \in S
             /\ rank[s] \in Nat /\ rank[s \ {Pick(s)}] < rank[s]
  <2>1. Pick(s) \in s
    BY <1>1 DEF Pick
  <2> QED BY <2>1, SmallerSubset
<1>2. \A s \in S : rank[s] \in Nat
  BY FS_Subset, FS_CardinalityType
<1>3. \A s \in S, f \in [S -> V] : value(s, f) \in V
  <2> SUFFICES ASSUME NEW s \in S, NEW f \in [S -> V] PROVE value(s, f) \in V
    OBVIOUS
  <2>1. CASE s # {}
    <3>1. Pick(s) \in D /\ f[s \ {Pick(s)}] \in V
      BY <1>1, <2>1
    <3>2. each[Pick(s)] \in [V -> V]
      BY <3>1
    <3> QED BY <2>1, <3>1, <3>2
  <2> QED BY <2>1
<1>4. \A s \in S, f, g \in [S -> V] :
        (\A c \in S : rank[c] < rank[s] => f[c] = g[c]) => value(s, f) = value(s, g)
  <2> SUFFICES ASSUME NEW s \in S, NEW f \in [S -> V], NEW g \in [S -> V],
                      \A c \in S : rank[c] < rank[s] => f[c] = g[c]
               PROVE  value(s, f) = value(s, g)
    OBVIOUS
  <2>1. s # {} => f[s \ {Pick(s)}] = g[s \ {Pick(s)}]
    BY <1>1
  <2> QED BY <2>1
<1>5. rank \in [S -> Nat]
  BY <1>2
<1> HIDE DEF S, rank, value
<1>6. WellFounded(S, V, rank, step)
  BY <1>3, <1>4, <1>5 DEF WellFounded
<1> HIDE DEF step
<1>7. PICK f : f \in Solutions(S, V, step)
  BY <1>6, Recursion
<1>8. f \in [S -> V] /\ \A s \in S : f[s] = value(s, f)
  BY <1>7 DEF Solutions, step
<1>9. f \in Folds(D, V, base, each)
  BY <1>8 DEF Folds, S, value
<1> QED BY <1>9

\* What holds of the empty set, and of every other subset if it holds without
\* the element picked from it, holds of the finite set itself.
LEMMA FoldInduction ==
  ASSUME NEW D, IsFiniteSet(D), NEW T, {} \in T,
         \A s \in SUBSET D : s # {} /\ s \ {Pick(s)} \in T => s \in T
  PROVE  D \in T
<1> DEFINE U == {n \in Nat : \A s \in SUBSET D : Cardinality(s) = n => s \in T}
<1>1. ASSUME NEW n \in Nat, \A m \in Nat : m < n => m \in U PROVE n \in U
  <2> SUFFICES ASSUME NEW s \in SUBSET D, Cardinality(s) = n PROVE s \in T
    OBVIOUS
  <2>1. CASE s # {}
    <3>1. Pick(s) \in s
      BY <2>1 DEF Pick
    <3>2. /\ s \ {Pick(s)} \in SUBSET D
          /\ Cardinality(s \ {Pick(s)}) \in Nat /\ Cardinality(s \ {Pick(s)}) < n
      BY <3>1, SmallerSubset
    <3> QED BY <1>1, <2>1, <3>2
  <2> QED BY <2>1
<1> HIDE DEF U
<1>2. Nat \subseteq U
  BY <1>1, StrongInductiveSet
<1>3. Cardinality(D) \in Nat
  BY FS_CardinalityType
<1> QED BY <1>2, <1>3 DEF U

\* What a function takes on a finite set is finite.
LEMMA FiniteImage ==
  ASSUME NEW S, IsFiniteSet(S), NEW f
  PROVE  IsFiniteSet({f[x] : x \in S})
<1> DEFINE T == {f[x] : x \in S}
           g == [x \in S |-> f[x]]
<1>1. g \in [S -> T] /\ \A y \in T : \E x \in S : g[x] = y
  OBVIOUS
<1> HIDE DEF T, g
<1>2. g \in Surjection(S, T)
  BY <1>1 DEF Surjection
<1>3. IsFiniteSet(T)
  BY <1>2, FS_Surjection
<1> QED BY <1>3 DEF T

\* A finite set of natural numbers has a greatest element.
LEMMA GreatestElement ==
  ASSUME NEW N, N \subseteq Nat, N # {}, IsFiniteSet(N)
  PROVE  \E n \in N : \A m \in N : m <= n
<1> DEFINE T == {s \in SUBSET N : s # {} => \E n \in s : \A m \in s : m <= n}
<1>1. {} \in T
  OBVIOUS
<1>2. ASSUME NEW s \in SUBSET N, s # {}, s \ {Pick(s)} \in T PROVE s \in T
  <2>1. Pick(s) \in s /\ \A m \in s : m \in Nat
    BY <1>2 DEF Pick
  <2>2. CASE s \ {Pick(s)} = {}
    <3>1. \A m \in s : m <= Pick(s)
      BY <2>1, <2>2
    <3> QED BY <2>1, <3>1
  <2>3. CASE s \ {Pick(s)} # {}
    <3>1. PICK n \in s \ {Pick(s)} : \A m \in s \ {Pick(s)} : m <= n
      BY <1>2, <2>3
    <3>2. CASE Pick(s) <= n
      <4>1. \A m \in s : m <= n
        BY <3>1, <3>2
      <4> QED BY <4>1
    <3>3. CASE ~ Pick(s) <= n
      <4>1. ASSUME NEW m \in s PROVE m <= Pick(s)
        <5>1. m \in Nat /\ n \in Nat /\ Pick(s) \in Nat
          BY <2>1
        <5>2. m # Pick(s) => m <= n
          BY <3>1
        <5> QED BY <3>3, <5>1, <5>2
      <4> QED BY <2>1, <4>1
    <3> QED BY <3>2, <3>3
  <2> QED BY <2>2, <2>3
<1> HIDE DEF T
<1>3. N \in T
  BY <1>1, <1>2, FoldInduction
<1> QED BY <1>3 DEF T
===============================================================================
