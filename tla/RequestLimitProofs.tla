--------------------------- MODULE RequestLimitProofs ---------------------------
(***************************************************************************)
(* Proofs about RequestLimits: the maps keep their types and sizes, the    *)
(* lockout lists its entries in order and once each, no more requests get  *)
(* through than the budgets allow, a budget stands while its window lasts, *)
(* a refusal as long as it announces, and a block until its time is over,  *)
(* unless its entry is the oldest of a full table.                         *)
(***************************************************************************)
EXTENDS RequestLimits, Induction, SequenceTheorems, FiniteSetTheorems, TLAPS

-----------------------------------------------------------------------------
(***************************************************************************)
(* Keys in their order.                                                    *)
(***************************************************************************)

Elements(s) == {s[i] : i \in DOMAIN s}

Distinct(s) == \A i, j \in DOMAIN s : s[i] = s[j] => i = j

LEMMA AppendElements ==
  ASSUME NEW S, NEW s \in Seq(S), NEW x \in S
  PROVE  /\ Append(s, x) \in Seq(S) /\ Len(Append(s, x)) = Len(s) + 1
         /\ Elements(Append(s, x)) = Elements(s) \cup {x}
         /\ Distinct(s) /\ x \notin Elements(s) => Distinct(Append(s, x))
<1>1. /\ Append(s, x) \in Seq(S) /\ Len(Append(s, x)) = Len(s) + 1
      /\ DOMAIN s = 1 .. Len(s) /\ DOMAIN Append(s, x) = 1 .. Len(s) + 1 /\ Len(s) \in Nat
      /\ \A i \in 1 .. Len(s) : Append(s, x)[i] = s[i]
      /\ Append(s, x)[Len(s) + 1] = x
  OBVIOUS
<1>2. Elements(Append(s, x)) = Elements(s) \cup {x}
  BY <1>1 DEF Elements
<1>3. Distinct(s) /\ x \notin Elements(s) => Distinct(Append(s, x))
  BY <1>1 DEF Distinct, Elements
<1> QED BY <1>1, <1>2, <1>3

\* The values of the loop of Keeping.
KeptValues(S, keys, gone) ==
  {kept \in [0 .. Len(keys) -> Seq(S)] :
     /\ kept[0] = << >>
     /\ \A n \in 1 .. Len(keys) :
          kept[n] = IF keys[n] \in gone THEN kept[n - 1] ELSE Append(kept[n - 1], keys[n])}

LEMMA KeepingRounds ==
  ASSUME NEW S, NEW keys \in Seq(S), NEW gone
  PROVE  \E kept \in KeptValues(S, keys, gone) : Keeping(keys, gone) = kept[Len(keys)]
<1> DEFINE N == Len(keys)
           kept[n \in 0 .. N] ==
             IF n = 0 THEN << >>
             ELSE IF keys[n] \in gone THEN kept[n - 1] ELSE Append(kept[n - 1], keys[n])
           step == [n \in Nat |-> [s \in Seq(S) |->
                      IF n \in 1 .. N /\ keys[n] \notin gone THEN Append(s, keys[n]) ELSE s]]
           rounds(f) == [n \in 0 .. N |->
             IF n = 0 THEN << >>
             ELSE IF keys[n] \in gone THEN f[n - 1] ELSE Append(f[n - 1], keys[n])]
<1>1. N \in Nat /\ \A n \in 1 .. N : keys[n] \in S
  OBVIOUS
<1>2. step \in [Nat -> [Seq(S) -> Seq(S)]] /\ << >> \in Seq(S)
  BY <1>1
<1>3. PICK f \in [0 .. N -> Seq(S)] :
        f[0] = << >> /\ \A n \in 1 .. N : f[n] = step[n][f[n - 1]]
  <2> DEFINE Q == Seq(S)
             e == << >>
  <2>1. N \in Nat /\ e \in Q /\ step \in [Nat -> [Q -> Q]]
    BY <1>1, <1>2
  <2> HIDE DEF step, N, Q, e
  <2>2. Rounds(Q, e, step, N) # {}
    BY <2>1, Iteration
  <2> QED BY <2>2 DEF Rounds, Q, e
<1>4. \A n \in 1 .. N :
        f[n] = IF keys[n] \in gone THEN f[n - 1] ELSE Append(f[n - 1], keys[n])
  <2> SUFFICES ASSUME NEW n \in 1 .. N
               PROVE  f[n] = IF keys[n] \in gone THEN f[n - 1] ELSE Append(f[n - 1], keys[n])
    OBVIOUS
  <2>1. f[n - 1] \in Seq(S) /\ n \in Nat
    BY <1>1
  <2>2. f[n] = step[n][f[n - 1]]
    BY <1>3
  <2> HIDE DEF N
  <2> QED BY <2>1, <2>2
<1>5. f = rounds(f)
  <2>1. f[0] = << >>
    BY <1>3
  <2>2. \A n \in 0 .. N : n = 0 \/ n \in 1 .. N
    BY <1>1
  <2> HIDE DEF N
  <2>3. \A n \in 0 .. N : f[n] = rounds(f)[n]
    BY <1>4, <2>1, <2>2
  <2> QED BY <2>3
<1>6. kept = CHOOSE g : g = rounds(g)
  OBVIOUS
<1>7. kept = rounds(kept)
  <2> HIDE DEF rounds, kept
  <2> QED BY <1>5, <1>6
<1>8. Keeping(keys, gone) = kept[N]
  BY DEF Keeping
<1>9. /\ kept[0] = << >>
      /\ \A n \in 1 .. N :
           kept[n] = IF keys[n] \in gone THEN kept[n - 1] ELSE Append(kept[n - 1], keys[n])
  <2>1. 0 \in 0 .. N /\ \A n \in 1 .. N : n \in 0 .. N /\ n # 0
    BY <1>1
  <2> HIDE DEF N, kept
  <2> QED BY <1>7, <2>1
<1>10. DOMAIN kept = 0 .. N /\ kept = [n \in 0 .. N |-> kept[n]]
  <2> HIDE DEF N, kept
  <2> QED BY <1>7
<1>11. \A n \in 0 .. N : kept[n] \in Seq(S)
  <2> HIDE DEF N, kept
  <2>1. ASSUME NEW n \in 1 .. N, kept[n - 1] \in Seq(S) PROVE kept[n] \in Seq(S)
    <3>1. Append(kept[n - 1], keys[n]) \in Seq(S)
      BY <1>1, <2>1
    <3> QED BY <1>9, <2>1, <3>1
  <2>2. kept[0] \in Seq(S)
    BY <1>2, <1>9
  <2>3. StaysIn(Seq(S), N, kept)
    BY <2>1, <2>2 DEF StaysIn
  <2> QED BY <1>1, <2>3, LoopInvariant
<1> HIDE DEF N, kept
<1>12. kept \in [0 .. N -> Seq(S)]
  BY <1>10, <1>11
<1>13. kept \in KeptValues(S, keys, gone)
  BY <1>9, <1>12 DEF N, KeptValues
<1> QED BY <1>8, <1>13 DEF N

\* What is left of a listing: the keys that are not gone, in a listing again.
LEMMA KeepingFacts ==
  ASSUME NEW S, NEW keys \in Seq(S), NEW gone
  PROVE  /\ Keeping(keys, gone) \in Seq(S)
         /\ Elements(Keeping(keys, gone)) = Elements(keys) \ gone
         /\ Distinct(keys) => Distinct(Keeping(keys, gone))
<1>0. PICK kept \in KeptValues(S, keys, gone) : Keeping(keys, gone) = kept[Len(keys)]
  BY KeepingRounds
<1>1. /\ kept[0] = << >>
      /\ \A n \in 1 .. Len(keys) :
           kept[n] = IF keys[n] \in gone THEN kept[n - 1] ELSE Append(kept[n - 1], keys[n])
  BY <1>0 DEF KeptValues
<1>2. Len(keys) \in Nat /\ DOMAIN keys = 1 .. Len(keys) /\ \A n \in 1 .. Len(keys) : keys[n] \in S
  OBVIOUS
<1> DEFINE N == Len(keys)
           First(n) == {keys[i] : i \in 1 .. n} \ gone
           Good(n) == /\ kept[n] \in Seq(S) /\ Elements(kept[n]) = First(n)
                      /\ Distinct(keys) => Distinct(kept[n])
           G == {n \in 0 .. N : Good(n)}
           at == [n \in 0 .. N |-> n]
<1>3. Good(0)
  <2>1. First(0) = {} /\ Elements(<< >>) = {} /\ Distinct(<< >>) /\ << >> \in Seq(S)
    BY DEF Elements, Distinct
  <2> HIDE DEF First
  <2> QED BY <1>1, <2>1
<1>4. ASSUME NEW n \in 1 .. N, Good(n - 1) PROVE Good(n)
  <2>1. n - 1 \in 0 .. N /\ n \in Nat /\ keys[n] \in S
    BY <1>2
  <2>2. First(n) = First(n - 1) \cup ({keys[n]} \ gone)
    <3>1. \A i \in 1 .. n : i \in 1 .. n - 1 \/ i = n
      BY <2>1
    <3>2. \A i \in 1 .. n - 1 : i \in 1 .. n
      BY <2>1
    <3>3. n \in 1 .. n
      BY <2>1
    <3> QED BY <3>1, <3>2, <3>3
  <2>3. Distinct(keys) => keys[n] \notin First(n - 1)
    BY <1>2, <2>1 DEF Distinct
  <2>4. CASE keys[n] \in gone
    <3>1. kept[n] = kept[n - 1]
      BY <1>1, <2>4
    <3> HIDE DEF First
    <3> QED BY <1>4, <2>2, <2>4, <3>1
  <2>5. CASE keys[n] \notin gone
    <3> DEFINE s == kept[n - 1]
    <3>1. kept[n] = Append(s, keys[n])
      BY <1>1, <2>5
    <3>2. s \in Seq(S) /\ Elements(s) = First(n - 1) /\ (Distinct(keys) => Distinct(s))
      BY <1>4
    <3> HIDE DEF First, s
    <3>3. /\ Append(s, keys[n]) \in Seq(S)
          /\ Elements(Append(s, keys[n])) = Elements(s) \cup {keys[n]}
          /\ Distinct(s) /\ keys[n] \notin Elements(s) => Distinct(Append(s, keys[n]))
      BY <2>1, <3>2, AppendElements
    <3> QED BY <2>2, <2>3, <2>5, <3>1, <3>2, <3>3
  <2> QED BY <2>4, <2>5
<1>5. \A n \in 0 .. N : Good(n)
  <2> HIDE DEF Good
  <2>1. ASSUME NEW n \in 1 .. N, at[n - 1] \in G PROVE at[n] \in G
    <3>1. n - 1 \in 0 .. N /\ n \in 0 .. N
      BY <1>2
    <3> QED BY <1>4, <2>1, <3>1
  <2>2. at[0] \in G
    BY <1>2, <1>3
  <2>3. StaysIn(G, N, at)
    BY <2>1, <2>2 DEF StaysIn
  <2>4. \A n \in 0 .. N : at[n] \in G
    <3> HIDE DEF G, at, N
    <3> QED BY <1>2, <2>3, LoopInvariant DEF N
  <2> QED BY <2>4
<1>6. First(N) = Elements(keys) \ gone
  BY <1>2 DEF Elements
<1>7. Good(N)
  <2> HIDE DEF Good
  <2> QED BY <1>2, <1>5
<1> HIDE DEF First
<1> QED BY <1>0, <1>6, <1>7

\* The first key stays the first, unless it goes.
LEMMA KeepingFirst ==
  ASSUME NEW S, NEW keys \in Seq(S), NEW gone, Len(keys) >= 1, keys[1] \notin gone
  PROVE  Keeping(keys, gone)[1] = keys[1]
<1>0. PICK kept \in KeptValues(S, keys, gone) : Keeping(keys, gone) = kept[Len(keys)]
  BY KeepingRounds
<1> DEFINE N == Len(keys)
           Good(n) == n = 0 \/ (Len(kept[n]) >= 1 /\ kept[n][1] = keys[1])
           G == {n \in 0 .. N : Good(n)}
           at == [n \in 0 .. N |-> n]
<1>1. /\ kept \in [0 .. N -> Seq(S)] /\ kept[0] = << >> /\ N \in Nat
      /\ \A n \in 1 .. N : keys[n] \in S
      /\ \A n \in 1 .. N :
           kept[n] = IF keys[n] \in gone THEN kept[n - 1] ELSE Append(kept[n - 1], keys[n])
  BY <1>0 DEF KeptValues
<1>2. ASSUME NEW n \in 1 .. N, Good(n - 1) PROVE Good(n)
  <2> DEFINE s == kept[n - 1]
  <2>1. s \in Seq(S) /\ keys[n] \in S /\ n \in Nat
        /\ kept[n] = IF keys[n] \in gone THEN s ELSE Append(s, keys[n])
    BY <1>1
  <2>2. CASE n = 1
    <3>1. s = << >>
      BY <1>1, <2>2
    <3> QED BY <2>1, <2>2, <3>1
  <2>3. CASE n # 1
    <3>1. Len(s) >= 1 /\ s[1] = keys[1]
      BY <1>2, <2>1, <2>3
    <3> HIDE DEF s
    <3>2. Len(Append(s, keys[n])) >= 1 /\ Append(s, keys[n])[1] = s[1]
      BY <2>1, <3>1
    <3> QED BY <2>1, <3>1, <3>2
  <2> QED BY <2>2, <2>3
<1>3. \A n \in 0 .. N : Good(n)
  <2>0. Good(0)
    OBVIOUS
  <2> HIDE DEF Good
  <2>1. ASSUME NEW n \in 1 .. N, at[n - 1] \in G PROVE at[n] \in G
    <3>1. n - 1 \in 0 .. N /\ n \in 0 .. N
      BY <1>1
    <3> QED BY <1>2, <2>1, <3>1
  <2>2. at[0] \in G
    BY <1>1, <2>0
  <2>3. StaysIn(G, N, at)
    BY <2>1, <2>2 DEF StaysIn
  <2>4. \A n \in 0 .. N : at[n] \in G
    <3> HIDE DEF G, at, N
    <3> QED BY <1>1, <2>3, LoopInvariant DEF N
  <2> QED BY <2>4
<1>4. Good(N) /\ N # 0
  BY <1>1, <1>3
<1> QED BY <1>0, <1>4

\* Keys that are listed once each are as many as the listing is long.
LEMMA ListingLength ==
  ASSUME NEW S, NEW s \in Seq(S)
  PROVE  /\ IsFiniteSet(Elements(s)) /\ Cardinality(Elements(s)) \in Nat
         /\ Len(s) = Cardinality(Elements(s)) <=> Distinct(s)
<1> DEFINE D == 1 .. Len(s)
<1>1. Len(s) \in Nat /\ DOMAIN s = D /\ s \in [D -> Elements(s)]
  BY DEF Elements
<1>2. IsFiniteSet(D) /\ Cardinality(D) = Len(s)
  BY <1>1, FS_Interval
<1>3. s \in Surjection(D, Elements(s))
  BY <1>1 DEF Surjection, Elements
<1>4. s \in Injection(D, Elements(s)) <=> Distinct(s)
  BY <1>1 DEF Injection, IsInjective, Distinct
<1> HIDE DEF D
<1>5. /\ IsFiniteSet(Elements(s))
      /\ Cardinality(Elements(s)) = Cardinality(D) <=> s \in Injection(D, Elements(s))
  BY <1>2, <1>3, FS_Surjection
<1>6. Cardinality(Elements(s)) \in Nat
  BY <1>5, FS_CardinalityType
<1> QED BY <1>2, <1>4, <1>5, <1>6
-----------------------------------------------------------------------------
(***************************************************************************)
(* Counters in a map of bounded size.                                      *)
(***************************************************************************)

LEMMA LimitFacts ==
  /\ Window \in Nat \ {0} /\ IpMax \in Nat \ {0} /\ PrincipalMax \in Nat \ {0}
  /\ ExpensiveMax \in Nat \ {0} /\ MutationMax \in Nat \ {0} /\ LoginMax \in Nat \ {0}
  /\ TrackedKeys \in Nat \ {0} /\ MaxAttempts \in Nat \ {0} /\ AttemptWindow \in Nat \ {0}
  /\ Block \in Nat \ {0} /\ TrackedAttempts \in Nat \ {0}
  /\ IsFiniteSet(Peer) /\ IsFiniteSet(Principal) /\ IsFiniteSet(Account)
<1>1. IsFiniteSet(Peer) /\ IsFiniteSet(User)
  BY LimitAssumption
<1>2. IsFiniteSet(Account)
  BY <1>1, FS_Product DEF Account
<1> QED BY <1>2, LimitAssumption

\* A map with at most TrackedKeys counters.
Budgets(K, most) ==
  {counters \in [K -> {Free} \cup Counter(most)] : Cardinality(Tracked(counters)) <= TrackedKeys}

LEMMA CounterFacts ==
  ASSUME NEW K, NEW most \in Nat, NEW X \in [K -> {Free} \cup Counter(most)]
  PROVE  /\ Free \notin Counter(most)
         /\ \A k \in K : X[k] # Free => X[k] \in Counter(most)
         /\ DOMAIN X = K /\ Tracked(X) = {k \in K : X[k] # Free}
<1>1. Counter(most) \subseteq [left : Nat, total : Nat, expensive : Nat, mutations : Nat]
  BY LimitFacts DEF Counter
<1> QED BY <1>1, FreeAssumption DEF Tracked

\* Fewer keys are tracked, or one key more than before where there was room.
LEMMA TrackFewer ==
  ASSUME NEW K, IsFiniteSet(K), NEW most \in Nat, NEW X \in Budgets(K, most),
         NEW Y \in [K -> {Free} \cup Counter(most)],
         \A k \in K : Y[k] # Free => X[k] # Free
  PROVE  Y \in Budgets(K, most)
<1>1. Tracked(X) \subseteq K /\ Tracked(Y) \subseteq Tracked(X)
  BY CounterFacts DEF Budgets
<1>2. IsFiniteSet(Tracked(X)) /\ IsFiniteSet(Tracked(Y))
  BY <1>1, FS_Subset
<1>3. Cardinality(Tracked(Y)) <= Cardinality(Tracked(X))
  BY <1>1, <1>2, FS_Subset
<1>4. Cardinality(Tracked(X)) \in Nat /\ Cardinality(Tracked(Y)) \in Nat
  BY <1>2, FS_CardinalityType
<1>5. Cardinality(Tracked(X)) <= TrackedKeys
  BY DEF Budgets
<1>6. Cardinality(Tracked(Y)) <= TrackedKeys
  BY <1>3, <1>4, <1>5, LimitFacts
<1> QED BY <1>6 DEF Budgets

LEMMA TrackOneMore ==
  ASSUME NEW K, IsFiniteSet(K), NEW most \in Nat, NEW X \in Budgets(K, most), ~ Full(X),
         NEW k \in K, NEW c \in Counter(most)
  PROVE  [X EXCEPT ![k] = c] \in Budgets(K, most)
<1> DEFINE Y == [X EXCEPT ![k] = c]
<1>1. Y \in [K -> {Free} \cup Counter(most)] /\ \A j \in K : j # k => Y[j] = X[j]
  BY DEF Budgets
<1> HIDE DEF Y
<1>2. Tracked(X) \subseteq K /\ Tracked(Y) \subseteq Tracked(X) \cup {k}
  BY <1>1, CounterFacts DEF Budgets
<1>3. IsFiniteSet(Tracked(X))
  BY <1>2, FS_Subset
<1>4. /\ IsFiniteSet(Tracked(X) \cup {k})
      /\ Cardinality(Tracked(X) \cup {k}) <= Cardinality(Tracked(X)) + 1
      /\ Cardinality(Tracked(X)) \in Nat
  <2>1. Cardinality(Tracked(X)) \in Nat
    BY <1>3, FS_CardinalityType
  <2>2. /\ IsFiniteSet(Tracked(X) \cup {k})
        /\ Cardinality(Tracked(X) \cup {k}) =
             IF k \in Tracked(X) THEN Cardinality(Tracked(X)) ELSE Cardinality(Tracked(X)) + 1
    BY <1>3, FS_AddElement
  <2> QED BY <2>1, <2>2
<1>5. /\ IsFiniteSet(Tracked(Y))
      /\ Cardinality(Tracked(Y)) <= Cardinality(Tracked(X) \cup {k})
  BY <1>2, <1>4, FS_Subset
<1>6. Cardinality(Tracked(Y)) \in Nat /\ Cardinality(Tracked(X) \cup {k}) \in Nat
  BY <1>4, <1>5, FS_CardinalityType
<1>7. Cardinality(Tracked(X)) < TrackedKeys
  BY <1>4, LimitFacts DEF Full
<1>8. Cardinality(Tracked(Y)) <= TrackedKeys
  BY <1>4, <1>5, <1>6, <1>7, LimitFacts
<1> QED BY <1>1, <1>8 DEF Budgets, Y

\* Counting for k leaves live counters alone and gives k a live one, its own or
\* a new one, unless the map is full of others.
LEMMA CountedFacts ==
  ASSUME NEW K, IsFiniteSet(K), NEW most \in Nat, NEW X \in Budgets(K, most), NEW k \in K
  PROVE  /\ Counted(X, k) \in Budgets(K, most)
         /\ \A j \in K : Live(X, j) => Counted(X, k)[j] = X[j]
         /\ \A j \in K \ {k} : Live(Counted(X, k), j) => Live(X, j)
         /\ Live(X, k) => Counted(X, k) = X
         /\ ~ Live(X, k) => IF Full(MakeRoom(X, k)) THEN ~ Live(Counted(X, k), k)
                            ELSE Live(Counted(X, k), k) /\ Counted(X, k)[k] = NewCounter
<1>1. /\ X \in [K -> {Free} \cup Counter(most)] /\ DOMAIN X = K
      /\ \A j \in K : X[j] # Free => X[j] \in Counter(most)
  BY CounterFacts DEF Budgets
<1>2. CASE Live(X, k)
  BY <1>1, <1>2 DEF Counted
<1>3. CASE ~ Live(X, k)
  <2> DEFINE Y == MakeRoom(X, k)
  <2>1. /\ Y \in [K -> {Free} \cup Counter(most)]
        /\ \A j \in K : Y[j] # Free => X[j] # Free
        /\ \A j \in K : Live(X, j) => Y[j] = X[j]
        /\ \A j \in K : Live(Y, j) => Live(X, j)
    BY <1>1, <1>3 DEF MakeRoom, Without, Swept, Expired, Tracked, Live
  <2>2. Counted(X, k) = IF Full(Y) THEN Y ELSE [Y EXCEPT ![k] = NewCounter]
    BY <1>3 DEF Counted
  <2>3. NewCounter \in Counter(most) /\ NewCounter.left > 0
    BY LimitFacts DEF NewCounter, Counter
  <2>4. NewCounter # Free
    BY <1>1, <2>3, CounterFacts
  <2> HIDE DEF Y
  <2>5. Y \in Budgets(K, most)
    BY <2>1, TrackFewer
  <2>6. ~ Full(Y) => [Y EXCEPT ![k] = NewCounter] \in Budgets(K, most)
    BY <2>3, <2>5, TrackOneMore
  <2>7. \A j \in K : Live(X, j) => j # k
    BY <1>3
  <2>8. ~ Live(Y, k)
    BY <1>3, <2>1
  <2>9. CASE Full(Y)
    BY <1>3, <2>1, <2>2, <2>5, <2>8, <2>9 DEF Y
  <2>10. CASE ~ Full(Y)
    <3> DEFINE Z == [Y EXCEPT ![k] = NewCounter]
    <3>1. Z[k] = NewCounter /\ \A j \in K \ {k} : Z[j] = Y[j]
      BY <2>1
    <3>2. Counted(X, k) = Z /\ Z \in Budgets(K, most)
      BY <2>2, <2>6, <2>10
    <3> HIDE DEF Z
    <3> QED BY <1>3, <2>1, <2>3, <2>4, <2>7, <2>10, <3>1, <3>2 DEF Live, Y
  <2> QED BY <2>9, <2>10
<1> QED BY <1>2, <1>3

\* A live counter that has moved on.
LEMMA CountOn ==
  ASSUME NEW K, IsFiniteSet(K), NEW most \in Nat, NEW X \in Budgets(K, most), NEW k \in K,
         Live(X, k), NEW c \in Counter(most)
  PROVE  [X EXCEPT ![k] = c] \in Budgets(K, most)
<1>1. [X EXCEPT ![k] = c] \in [K -> {Free} \cup Counter(most)]
  BY DEF Budgets
<1>2. \A j \in K : [X EXCEPT ![k] = c][j] # Free => X[j] # Free
  BY DEF Budgets, Live
<1> QED BY <1>1, <1>2, TrackFewer

\* d has the window of c and counts at least as much.
MovedOn(c, d) ==
  /\ d.left = c.left /\ d.total >= c.total
  /\ d.expensive >= c.expensive /\ d.mutations >= c.mutations

\* What a request may do to a map of budgets.
MapStep(K, most, X, Y) ==
  Y \in Budgets(K, most) /\ \A k \in K : Live(X, k) => Y[k] # Free /\ MovedOn(X[k], Y[k])

LEMMA SameBudget ==
  ASSUME NEW K, NEW most \in Nat, NEW X \in Budgets(K, most)
  PROVE  MapStep(K, most, X, X)
<1>1. \A k \in K : X[k] # Free => X[k] \in Counter(most)
  BY CounterFacts DEF Budgets
<1> QED BY <1>1, LimitFacts DEF MapStep, MovedOn, Live, Counter

LEMMA CountedStep ==
  ASSUME NEW K, IsFiniteSet(K), NEW most \in Nat, NEW X \in Budgets(K, most), NEW k \in K
  PROVE  MapStep(K, most, X, Counted(X, k))
<1> DEFINE Y == Counted(X, k)
<1>1. Y \in Budgets(K, most) /\ \A j \in K : Live(X, j) => Y[j] = X[j]
  BY CountedFacts
<1> HIDE DEF Y
<1>2. MapStep(K, most, X, X)
  BY SameBudget
<1> QED BY <1>1, <1>2 DEF MapStep, Live, Y

\* Counted, and then one counter moves on within its window.
LEMMA CountedOnStep ==
  ASSUME NEW K, IsFiniteSet(K), NEW most \in Nat, NEW X \in Budgets(K, most), NEW k \in K,
         Live(Counted(X, k), k), NEW c \in Counter(most), MovedOn(Counted(X, k)[k], c)
  PROVE  MapStep(K, most, X, [Counted(X, k) EXCEPT ![k] = c])
<1> DEFINE Y == Counted(X, k)
           Z == [Y EXCEPT ![k] = c]
<1>1. Y \in Budgets(K, most) /\ \A j \in K : Live(X, j) => Y[j] = X[j]
  BY CountedFacts
<1>2. MapStep(K, most, X, X)
  BY SameBudget
<1>3. Free \notin Counter(most)
  BY CounterFacts DEF Budgets
<1>4. MovedOn(Y[k], c) /\ Live(Y, k)
  OBVIOUS
<1> HIDE DEF Y
<1>5. Z \in Budgets(K, most)
  BY <1>1, <1>4, CountOn
<1>6. Z[k] = c /\ \A j \in K \ {k} : Z[j] = Y[j]
  BY <1>1 DEF Budgets
<1> HIDE DEF Z
<1>7. ASSUME NEW j \in K, Live(X, j) PROVE Z[j] # Free /\ MovedOn(X[j], Z[j])
  <2>1. Y[j] = X[j] /\ MovedOn(X[j], X[j]) /\ X[j] # Free
    BY <1>1, <1>2, <1>7 DEF MapStep
  <2>2. CASE j = k
    BY <1>3, <1>4, <1>6, <2>1, <2>2
  <2>3. CASE j # k
    BY <1>6, <2>1, <2>3
  <2> QED BY <2>2, <2>3
<1> QED BY <1>5, <1>7 DEF MapStep, Y, Z

-----------------------------------------------------------------------------
(***************************************************************************)
(* The budgets under the steps of the API.                                 *)
(***************************************************************************)

BudgetsOK ==
  /\ peers \in Budgets(Peer, IpMax + 1)
  /\ principals \in Budgets(Principal, PrincipalMax)
  /\ logins \in Budgets(Peer, LoginMax)

\* One request to all three maps.
BudgetsStep ==
  /\ MapStep(Peer, IpMax + 1, peers, peers')
  /\ MapStep(Principal, PrincipalMax, principals, principals')
  /\ MapStep(Peer, LoginMax, logins, logins')

\* The counter of a peer after one request more.
PeerNext(c) == [c EXCEPT !.total = IF @ < IpMax + 1 THEN @ + 1 ELSE @]

LEMMA PeerNextFacts ==
  ASSUME NEW c \in Counter(IpMax + 1)
  PROVE  /\ PeerNext(c) \in Counter(IpMax + 1) /\ MovedOn(c, PeerNext(c))
         /\ PeerNext(c).expensive = c.expensive /\ PeerNext(c).mutations = c.mutations
         /\ PeerNext(c).total = IF c.total < IpMax + 1 THEN c.total + 1 ELSE c.total
<1>1. IpMax \in Nat
  BY LimitFacts
<1>2. /\ c.total \in 0 .. IpMax + 1 /\ c.left \in 0 .. Window
      /\ c.expensive \in 0 .. ExpensiveMax /\ c.mutations \in 0 .. MutationMax
  BY DEF Counter
<1> DEFINE n == IF c.total < IpMax + 1 THEN c.total + 1 ELSE c.total
<1>3. n \in 0 .. IpMax + 1 /\ n >= c.total
  BY <1>1, <1>2
<1>4. PeerNext(c) = [c EXCEPT !.total = n]
  BY DEF PeerNext, Counter
<1> HIDE DEF n
<1>5. /\ PeerNext(c) \in Counter(IpMax + 1)
      /\ PeerNext(c).total = n /\ PeerNext(c).left = c.left
      /\ PeerNext(c).expensive = c.expensive /\ PeerNext(c).mutations = c.mutations
  BY <1>3, <1>4 DEF Counter
<1>6. c.left >= c.left /\ c.expensive >= c.expensive /\ c.mutations >= c.mutations
  BY <1>2, LimitFacts
<1> QED BY <1>3, <1>5, <1>6 DEF MovedOn, n

LEMMA PeerCountIs ==
  ASSUME NEW X \in Budgets(Peer, IpMax + 1), NEW k \in Peer
  PROVE  PeerCount(X, k) = IF Live(Counted(X, k), k)
                           THEN [Counted(X, k) EXCEPT ![k] = PeerNext(Counted(X, k)[k])]
                           ELSE Counted(X, k)
<1> DEFINE Y == Counted(X, k)
<1>1. Y \in [Peer -> {Free} \cup Counter(IpMax + 1)]
  BY CountedFacts, LimitFacts DEF Budgets
<1>2. PeerCount(X, k) = IF Live(Y, k)
                        THEN [Y EXCEPT ![k].total = IF @ < IpMax + 1 THEN @ + 1 ELSE @] ELSE Y
  BY DEF PeerCount
<1> HIDE DEF Y
<1>3. [Y EXCEPT ![k].total = IF @ < IpMax + 1 THEN @ + 1 ELSE @] = [Y EXCEPT ![k] = PeerNext(Y[k])]
  BY <1>1 DEF PeerNext
<1> QED BY <1>2, <1>3 DEF Y

LEMMA PeerCountStep ==
  ASSUME BudgetsOK, NEW k \in Peer
  PROVE  MapStep(Peer, IpMax + 1, peers, PeerCount(peers, k))
<1> DEFINE Y == Counted(peers, k)
           most == IpMax + 1
<1>1. peers \in Budgets(Peer, most) /\ most \in Nat /\ IsFiniteSet(Peer)
  BY LimitFacts DEF BudgetsOK
<1>2. PeerCount(peers, k) = IF Live(Y, k) THEN [Y EXCEPT ![k] = PeerNext(Y[k])] ELSE Y
  BY <1>1, PeerCountIs
<1> HIDE DEF most
<1>3. Y \in Budgets(Peer, most)
  BY <1>1, CountedFacts
<1>4. CASE ~ Live(Y, k)
  BY <1>1, <1>2, <1>4, CountedStep DEF most
<1>5. CASE Live(Y, k)
  <2>1. Y[k] \in Counter(most)
    <3> HIDE DEF Y
    <3> QED BY <1>1, <1>3, <1>5, CounterFacts DEF Budgets, Live
  <2> DEFINE c == PeerNext(Y[k])
  <2>2. c \in Counter(most) /\ MovedOn(Y[k], c)
    <3> HIDE DEF Y
    <3> QED BY <2>1, PeerNextFacts DEF most
  <2> HIDE DEF c
  <2>3. MapStep(Peer, most, peers, [Y EXCEPT ![k] = c])
    BY <1>1, <1>5, <2>2, CountedOnStep
  <2> QED BY <1>2, <1>5, <2>3 DEF most, c
<1> QED BY <1>4, <1>5

LEMMA ConsumedFacts ==
  ASSUME NEW c \in Counter(PrincipalMax), NEW cost \in Cost, Within(c, cost)
  PROVE  /\ Consumed(c, cost) \in Counter(PrincipalMax) /\ MovedOn(c, Consumed(c, cost))
         /\ Consumed(c, cost).total = c.total + 1
         /\ Consumed(c, cost).expensive = c.expensive + One(cost = "expensive")
         /\ Consumed(c, cost).mutations = c.mutations + One(cost = "mutation")
<1>1. ExpensiveMax \in Nat /\ MutationMax \in Nat /\ PrincipalMax \in Nat /\ Window \in Nat
  BY LimitFacts
<1>2. /\ c.total \in 0 .. PrincipalMax /\ c.left \in 0 .. Window
      /\ c.expensive \in 0 .. ExpensiveMax /\ c.mutations \in 0 .. MutationMax
  BY DEF Counter
<1> DEFINE t == c.total + 1
           x == c.expensive + One(cost = "expensive")
           m == c.mutations + One(cost = "mutation")
<1>3. /\ x \in 0 .. ExpensiveMax /\ m \in 0 .. MutationMax /\ t \in 0 .. PrincipalMax
      /\ t >= c.total /\ x >= c.expensive /\ m >= c.mutations
  BY <1>1, <1>2 DEF Within, One
<1>4. Consumed(c, cost) = [c EXCEPT !.total = t, !.expensive = x, !.mutations = m]
  BY DEF Consumed, Counter
<1> HIDE DEF t, x, m
<1>5. /\ Consumed(c, cost) \in Counter(PrincipalMax)
      /\ Consumed(c, cost).left = c.left /\ Consumed(c, cost).total = t
      /\ Consumed(c, cost).expensive = x /\ Consumed(c, cost).mutations = m
  BY <1>3, <1>4 DEF Counter
<1> QED BY <1>3, <1>5 DEF MovedOn, t, x, m

LEMMA ConsumePrincipalStep ==
  ASSUME BudgetsOK, NEW k \in Principal, NEW cost \in Cost, ConsumePrincipal(k, cost)
  PROVE  MapStep(Principal, PrincipalMax, principals, principals')
<1> DEFINE X == Counted(principals, k)
           c == Consumed(X[k], cost)
<1>1. /\ principals \in Budgets(Principal, PrincipalMax) /\ PrincipalMax \in Nat
      /\ IsFiniteSet(Principal)
  BY LimitFacts DEF BudgetsOK
<1>2. X \in Budgets(Principal, PrincipalMax)
  BY <1>1, CountedFacts
<1>3. principals' = IF PrincipalAdmitted(X, k, cost) THEN [X EXCEPT ![k] = c] ELSE X
  BY DEF ConsumePrincipal
<1>4. CASE ~ PrincipalAdmitted(X, k, cost)
  <2> HIDE DEF c
  <2> QED BY <1>1, <1>3, <1>4, CountedStep
<1>5. CASE PrincipalAdmitted(X, k, cost)
  <2>1. X[k] \in Counter(PrincipalMax) /\ Live(X, k) /\ Within(X[k], cost)
    <3> HIDE DEF X
    <3> QED BY <1>1, <1>2, <1>5, CounterFacts DEF Budgets, Live, PrincipalAdmitted
  <2>2. c \in Counter(PrincipalMax) /\ MovedOn(X[k], c)
    <3> HIDE DEF X
    <3> QED BY <2>1, ConsumedFacts
  <2>3. principals' = [X EXCEPT ![k] = c]
    BY <1>3, <1>5
  <2> HIDE DEF c
  <2>4. MapStep(Principal, PrincipalMax, principals, [X EXCEPT ![k] = c])
    BY <1>1, <2>1, <2>2, CountedOnStep
  <2> QED BY <2>3, <2>4
<1> QED BY <1>4, <1>5

\* The counter of a peer's logins after one login more.
LEMMA LoginCounted ==
  ASSUME NEW c \in Counter(LoginMax), c.total < LoginMax
  PROVE  /\ [c EXCEPT !.total = @ + 1] \in Counter(LoginMax)
         /\ MovedOn(c, [c EXCEPT !.total = @ + 1])
         /\ [c EXCEPT !.total = @ + 1].total = c.total + 1
         /\ [c EXCEPT !.total = @ + 1].expensive = c.expensive
         /\ [c EXCEPT !.total = @ + 1].mutations = c.mutations
  BY LimitFacts DEF Counter, MovedOn

LEMMA ConsumeLoginIs ==
  ASSUME NEW X \in [Peer -> {Free} \cup Counter(LoginMax)], NEW k \in Peer
  PROVE  [X EXCEPT ![k].total = @ + 1] = [X EXCEPT ![k] = [X[k] EXCEPT !.total = @ + 1]]
  OBVIOUS

LEMMA ConsumeLoginStep ==
  ASSUME BudgetsOK, NEW k \in Peer, ConsumeLogin(k)
  PROVE  MapStep(Peer, LoginMax, logins, logins')
<1> DEFINE X == Counted(logins, k)
           c == [X[k] EXCEPT !.total = @ + 1]
<1>1. logins \in Budgets(Peer, LoginMax) /\ LoginMax \in Nat /\ IsFiniteSet(Peer)
  BY LimitFacts DEF BudgetsOK
<1>2. X \in Budgets(Peer, LoginMax)
  BY <1>1, CountedFacts
<1>3. logins' = IF LoginAdmitted(X, k) THEN [X EXCEPT ![k] = c] ELSE X
  BY DEF ConsumeLogin
<1>4. CASE ~ LoginAdmitted(X, k)
  <2> HIDE DEF c
  <2> QED BY <1>1, <1>3, <1>4, CountedStep
<1>5. CASE LoginAdmitted(X, k)
  <2>1. X[k] \in Counter(LoginMax) /\ Live(X, k) /\ X[k].total < LoginMax
    <3> HIDE DEF X
    <3> QED BY <1>1, <1>2, <1>5, CounterFacts DEF Budgets, Live, LoginAdmitted
  <2>2. c \in Counter(LoginMax) /\ MovedOn(X[k], c)
    <3> HIDE DEF X
    <3> QED BY <2>1, LoginCounted
  <2>3. logins' = [X EXCEPT ![k] = c]
    BY <1>3, <1>5
  <2> HIDE DEF c
  <2>4. MapStep(Peer, LoginMax, logins, [X EXCEPT ![k] = c])
    BY <1>1, <2>1, <2>2, CountedOnStep
  <2> QED BY <2>3, <2>4
<1> QED BY <1>4, <1>5

\* What time does to one counter.
LEMMA AgedCounter ==
  ASSUME NEW most \in Nat, NEW c \in Counter(most)
  PROVE  /\ [c EXCEPT !.left = Less(@)] \in Counter(most)
         /\ [c EXCEPT !.left = Less(@)].left = Less(c.left)
         /\ Less(c.left) = IF c.left = 0 THEN 0 ELSE c.left - 1
         /\ [c EXCEPT !.left = Less(@)].total = c.total
         /\ [c EXCEPT !.left = Less(@)].expensive = c.expensive
         /\ [c EXCEPT !.left = Less(@)].mutations = c.mutations
         /\ c.total \in Nat /\ c.left \in Nat /\ c.expensive \in Nat /\ c.mutations \in Nat
  BY LimitFacts DEF Counter, Less

LEMMA AgedFacts ==
  ASSUME NEW K, IsFiniteSet(K), NEW most \in Nat, NEW X \in Budgets(K, most)
  PROVE  /\ Aged(X) \in Budgets(K, most)
         /\ \A k \in K : Aged(X)[k] = Free <=> X[k] = Free
         /\ \A k \in K : X[k] # Free => /\ Aged(X)[k] = [X[k] EXCEPT !.left = Less(@)]
                                        /\ X[k] \in Counter(most)
<1>1. /\ X \in [K -> {Free} \cup Counter(most)] /\ DOMAIN X = K /\ Free \notin Counter(most)
      /\ \A k \in K : X[k] # Free => X[k] \in Counter(most)
  BY CounterFacts DEF Budgets
<1>2. \A c \in Counter(most) : [c EXCEPT !.left = Less(@)] \in Counter(most)
  BY AgedCounter
<1>3. \A k \in K : Aged(X)[k] = IF X[k] = Free THEN Free ELSE [X[k] EXCEPT !.left = Less(@)]
  BY <1>1 DEF Aged
<1>4. Aged(X) \in [K -> {Free} \cup Counter(most)]
  <2>1. Aged(X) = [k \in K |-> Aged(X)[k]]
    BY <1>1 DEF Aged
  <2>2. \A k \in K : Aged(X)[k] \in {Free} \cup Counter(most)
    BY <1>1, <1>2, <1>3
  <2> QED BY <2>1, <2>2
<1>5. \A k \in K : Aged(X)[k] = Free <=> X[k] = Free
  BY <1>1, <1>2, <1>3
<1>6. Aged(X) \in Budgets(K, most)
  BY <1>4, <1>5, TrackFewer
<1> QED BY <1>1, <1>3, <1>5, <1>6

LEMMA NoBudget ==
  ASSUME NEW K, NEW most \in Nat
  PROVE  [k \in K |-> Free] \in Budgets(K, most)
<1>1. Tracked([k \in K |-> Free]) = {}
  BY DEF Tracked
<1>2. Cardinality({}) = 0
  BY FS_EmptySet
<1> QED BY <1>1, <1>2, LimitFacts DEF Budgets

LEMMA NextBudgets ==
  ASSUME BudgetsOK, [Next]_vars
  PROVE  BudgetsOK' /\ (BudgetsStep \/ Tick \/ Restart)
<1>1. /\ peers \in Budgets(Peer, IpMax + 1) /\ principals \in Budgets(Principal, PrincipalMax)
      /\ logins \in Budgets(Peer, LoginMax)
      /\ IpMax + 1 \in Nat /\ PrincipalMax \in Nat /\ LoginMax \in Nat
      /\ IsFiniteSet(Peer) /\ IsFiniteSet(Principal)
  BY LimitFacts DEF BudgetsOK
<1>2. /\ MapStep(Peer, IpMax + 1, peers, peers)
      /\ MapStep(Principal, PrincipalMax, principals, principals)
      /\ MapStep(Peer, LoginMax, logins, logins)
  BY <1>1, SameBudget
<1>3. ASSUME NEW peer \in Peer, NEW principal \in Principal, NEW cost \in Cost,
             Request(peer, principal, cost)
      PROVE  BudgetsStep
  <2>1. MapStep(Peer, IpMax + 1, peers, peers')
    <3>1. peers' = PeerCount(peers, peer)
      BY <1>3 DEF Request
    <3> QED BY <3>1, PeerCountStep
  <2>2. /\ ConsumePrincipal(principal, cost) \/ principals' = principals
        /\ logins' = logins
    BY <1>3 DEF Request
  <2>3. ConsumePrincipal(principal, cost) =>
          MapStep(Principal, PrincipalMax, principals, principals')
    BY ConsumePrincipalStep
  <2> QED BY <1>2, <2>1, <2>2, <2>3 DEF BudgetsStep
<1>4. ASSUME NEW peer \in Peer, NEW user \in User, NEW correct \in BOOLEAN,
             Login(peer, user, correct)
      PROVE  BudgetsStep
  <2>1. MapStep(Peer, IpMax + 1, peers, peers')
    <3>1. peers' = PeerCount(peers, peer)
      BY <1>4 DEF Login
    <3> QED BY <3>1, PeerCountStep
  <2>2. ConsumeLogin(peer) \/ logins' = logins
    BY <1>4 DEF Login
  <2>3. principals' = principals
    BY <1>4 DEF Login
  <2>4. ConsumeLogin(peer) => MapStep(Peer, LoginMax, logins, logins')
    BY ConsumeLoginStep
  <2> QED BY <1>2, <2>1, <2>2, <2>3, <2>4 DEF BudgetsStep
<1>5. ASSUME Tick PROVE BudgetsOK'
  <2>1. peers' = Aged(peers) /\ principals' = Aged(principals) /\ logins' = Aged(logins)
    BY <1>5 DEF Tick
  <2> QED BY <1>1, <2>1, AgedFacts DEF BudgetsOK
<1>6. ASSUME Restart PROVE BudgetsOK'
  BY <1>1, <1>6, NoBudget DEF Restart, BudgetsOK
<1>7. ASSUME UNCHANGED vars PROVE BudgetsStep
  <2>1. peers' = peers /\ principals' = principals /\ logins' = logins
    BY <1>7 DEF vars, budgets
  <2> QED BY <1>2, <2>1 DEF BudgetsStep
<1>8. BudgetsStep => BudgetsOK'
  BY DEF BudgetsStep, MapStep, BudgetsOK
<1> QED BY <1>3, <1>4, <1>5, <1>6, <1>7, <1>8 DEF Next

\* Live budgets stand.
LEMMA NextStands ==
  ASSUME BudgetsOK, [Next]_vars, ~ Restart
  PROVE  /\ BudgetStands(peers, peers')
         /\ BudgetStands(principals, principals')
         /\ BudgetStands(logins, logins')
<1>1. /\ peers \in Budgets(Peer, IpMax + 1) /\ principals \in Budgets(Principal, PrincipalMax)
      /\ logins \in Budgets(Peer, LoginMax)
      /\ IpMax + 1 \in Nat /\ PrincipalMax \in Nat /\ LoginMax \in Nat
      /\ IsFiniteSet(Peer) /\ IsFiniteSet(Principal)
  BY LimitFacts DEF BudgetsOK
<1>2. \A K, X, Y, most : MapStep(K, most, X, Y) /\ DOMAIN X = K => BudgetStands(X, Y)
  BY DEF MapStep, BudgetStands, MovedOn
<1>3. ASSUME NEW K, IsFiniteSet(K), NEW most \in Nat, NEW X \in Budgets(K, most)
      PROVE  BudgetStands(X, Aged(X)) /\ DOMAIN X = K
  <2>1. DOMAIN X = K
    BY DEF Budgets
  <2>2. ASSUME NEW k \in K, Live(X, k)
        PROVE  /\ Aged(X)[k] # Free /\ Aged(X)[k].left \in {X[k].left, X[k].left - 1}
               /\ Aged(X)[k].total >= X[k].total
    <3>1. /\ Aged(X)[k] # Free /\ Aged(X)[k] = [X[k] EXCEPT !.left = Less(@)]
          /\ X[k] \in Counter(most)
      BY <1>3, <2>2, AgedFacts DEF Live
    <3> DEFINE c == X[k]
    <3> HIDE DEF c
    <3>2. /\ Aged(X)[k].left = Less(c.left)
          /\ Less(c.left) = IF c.left = 0 THEN 0 ELSE c.left - 1
          /\ Aged(X)[k].total = c.total /\ c.total \in Nat /\ c.left \in Nat
      BY <1>3, <3>1, AgedCounter DEF c
    <3> QED BY <3>1, <3>2 DEF c
  <2> QED BY <2>1, <2>2 DEF BudgetStands
<1>4. DOMAIN peers = Peer /\ DOMAIN principals = Principal /\ DOMAIN logins = Peer
  BY <1>1, <1>3
<1>5. CASE BudgetsStep
  BY <1>2, <1>4, <1>5 DEF BudgetsStep
<1>6. CASE Tick
  <2>1. peers' = Aged(peers) /\ principals' = Aged(principals) /\ logins' = Aged(logins)
    BY <1>6 DEF Tick
  <2> QED BY <1>1, <1>3, <2>1
<1> QED BY <1>5, <1>6, NextBudgets

-----------------------------------------------------------------------------
(***************************************************************************)
(* The history: a live counter has counted what was let through.           *)
(***************************************************************************)

\* What the history holds for k, when at most m requests of it get through.
KeyAgrees(t, X, k, m) ==
  IF Live(X, k)
  THEN /\ t.left = X[k].left
       /\ t.all = IF X[k].total <= m THEN X[k].total ELSE m
       /\ t.expensive = X[k].expensive /\ t.mutation = X[k].mutations
  ELSE t = NoTally

Agrees(K, tallies, X, m) ==
  tallies \in [K -> Tally] /\ \A k \in K : KeyAgrees(tallies[k], X, k, m)

\* A request of k makes Z of the map X.
CountStep(most, X, k, Z, cost, admitted, m) ==
  LET Y == Counted(X, k)
  IN  IF Live(Y, k)
      THEN \E c \in Counter(most) :
             /\ Z = [Y EXCEPT ![k] = c] /\ c.left = Y[k].left
             /\ IF admitted
                THEN /\ c.total = Y[k].total + 1 /\ c.total <= m
                     /\ c.expensive = Y[k].expensive + One(cost = "expensive")
                     /\ c.mutations = Y[k].mutations + One(cost = "mutation")
                ELSE /\ Live(X, k)
                     /\ c.expensive = Y[k].expensive /\ c.mutations = Y[k].mutations
                     /\ c.total = Y[k].total \/ (c.total >= m /\ Y[k].total >= m)
      ELSE Z = Y /\ ~ admitted

LEMMA OneMoreFacts ==
  ASSUME NEW t \in Tally, NEW cost
  PROVE  /\ OneMore(t, cost) \in Tally
         /\ OneMore(t, cost).left = IF t.left > 0 THEN t.left ELSE Window
         /\ OneMore(t, cost).all = IF t.left > 0 THEN t.all + 1 ELSE 1
         /\ OneMore(t, cost).expensive =
              (IF t.left > 0 THEN t.expensive ELSE 0) + One(cost = "expensive")
         /\ OneMore(t, cost).mutation =
              (IF t.left > 0 THEN t.mutation ELSE 0) + One(cost = "mutation")
<1> DEFINE open == IF t.left > 0 THEN t ELSE [NoTally EXCEPT !.left = Window]
           x == One(cost = "expensive")
           m == One(cost = "mutation")
<1>1. /\ open \in Tally
      /\ open.left = IF t.left > 0 THEN t.left ELSE Window
      /\ open.all = IF t.left > 0 THEN t.all ELSE 0
      /\ open.expensive = IF t.left > 0 THEN t.expensive ELSE 0
      /\ open.mutation = IF t.left > 0 THEN t.mutation ELSE 0
  BY LimitFacts DEF Tally, NoTally
<1>2. x \in Nat /\ m \in Nat
  BY DEF One
<1>3. OneMore(t, cost) =
        [open EXCEPT !.all = @ + 1, !.expensive = @ + x, !.mutation = @ + m]
  BY DEF OneMore
<1> HIDE DEF open, x, m
<1> DEFINE a == open.all + 1
           b == open.expensive + x
           d == open.mutation + m
<1>5. a \in Nat /\ b \in Nat /\ d \in Nat
  BY <1>1, <1>2 DEF Tally
<1>6. OneMore(t, cost) = [open EXCEPT !.all = a, !.expensive = b, !.mutation = d]
  BY <1>1, <1>3 DEF Tally
<1> HIDE DEF a, b, d
<1>7. /\ OneMore(t, cost) \in Tally
      /\ OneMore(t, cost).left = open.left /\ OneMore(t, cost).all = a
      /\ OneMore(t, cost).expensive = b /\ OneMore(t, cost).mutation = d
  BY <1>1, <1>5, <1>6 DEF Tally
<1>4. /\ OneMore(t, cost) \in Tally
      /\ OneMore(t, cost).left = open.left /\ OneMore(t, cost).all = open.all + 1
      /\ OneMore(t, cost).expensive = open.expensive + x
      /\ OneMore(t, cost).mutation = open.mutation + m
  BY <1>7 DEF a, b, d
<1> QED BY <1>1, <1>4 DEF x, m

\* The history goes with the map.
LEMMA MapLog ==
  ASSUME NEW K, IsFiniteSet(K), NEW most \in Nat, NEW m \in Nat, NEW X \in Budgets(K, most),
         NEW k \in K, NEW tallies, Agrees(K, tallies, X, m), NEW Z, NEW cost,
         NEW admitted \in BOOLEAN, CountStep(most, X, k, Z, cost, admitted, m)
  PROVE  Agrees(K, LetThrough(tallies, k, cost, admitted), Z, m)
<1> DEFINE Y == Counted(X, k)
           after == LetThrough(tallies, k, cost, admitted)
<1> SUFFICES Agrees(K, after, Z, m)
  OBVIOUS
<1>1. /\ Y \in Budgets(K, most)
      /\ \A j \in K : Live(X, j) => Y[j] = X[j]
      /\ \A j \in K \ {k} : Live(Y, j) => Live(X, j)
      /\ ~ Live(X, k) => ~ Live(Y, k) \/ Y[k] = NewCounter
  BY CountedFacts
<1>2. /\ tallies \in [K -> Tally]
      /\ \A j \in K : KeyAgrees(tallies[j], X, j, m)
  BY DEF Agrees
<1>3. /\ Y \in [K -> {Free} \cup Counter(most)] /\ Free \notin Counter(most)
      /\ \A j \in K : Y[j] # Free => Y[j] \in Counter(most)
  BY <1>1, CounterFacts DEF Budgets
<1>4. OneMore(tallies[k], cost) \in Tally
  BY <1>2, OneMoreFacts
<1>5. after \in [K -> Tally] /\ \A j \in K \ {k} : after[j] = tallies[j]
  BY <1>2, <1>4 DEF LetThrough
<1>6. after[k] = IF admitted THEN OneMore(tallies[k], cost) ELSE tallies[k]
  BY <1>2 DEF LetThrough
<1>7. /\ ~ Live(Y, k) => Z = Y /\ ~ admitted
      /\ Live(Y, k) => \E c \in Counter(most) :
           /\ Z = [Y EXCEPT ![k] = c] /\ c.left = Y[k].left
           /\ IF admitted
              THEN /\ c.total = Y[k].total + 1 /\ c.total <= m
                   /\ c.expensive = Y[k].expensive + One(cost = "expensive")
                   /\ c.mutations = Y[k].mutations + One(cost = "mutation")
              ELSE /\ Live(X, k)
                   /\ c.expensive = Y[k].expensive /\ c.mutations = Y[k].mutations
                   /\ c.total = Y[k].total \/ (c.total >= m /\ Y[k].total >= m)
  BY DEF CountStep
<1> HIDE DEF Y, after
<1>8. ASSUME NEW j \in K \ {k}, Z[j] = Y[j] PROVE KeyAgrees(after[j], Z, j, m)
  <2>1. Live(Z, j) <=> Live(X, j)
    BY <1>1, <1>8 DEF Live
  <2>2. Live(X, j) => Z[j] = X[j]
    BY <1>1, <1>8
  <2>3. KeyAgrees(tallies[j], X, j, m) /\ after[j] = tallies[j]
    BY <1>2, <1>5
  <2> QED BY <2>1, <2>2, <2>3 DEF KeyAgrees
<1>9. CASE ~ Live(Y, k)
  <2>1. Z = Y /\ after[k] = tallies[k]
    BY <1>6, <1>7, <1>9
  <2>2. ~ Live(X, k)
    BY <1>1, <1>9 DEF Live
  <2>3. KeyAgrees(after[k], Z, k, m)
    BY <1>2, <1>9, <2>1, <2>2 DEF KeyAgrees
  <2> QED BY <1>5, <1>8, <2>1, <2>3 DEF Agrees
<1>10. CASE Live(Y, k)
  <2>1. PICK c \in Counter(most) :
          /\ Z = [Y EXCEPT ![k] = c] /\ c.left = Y[k].left
          /\ IF admitted
             THEN /\ c.total = Y[k].total + 1 /\ c.total <= m
                  /\ c.expensive = Y[k].expensive + One(cost = "expensive")
                  /\ c.mutations = Y[k].mutations + One(cost = "mutation")
             ELSE /\ Live(X, k)
                  /\ c.expensive = Y[k].expensive /\ c.mutations = Y[k].mutations
                  /\ c.total = Y[k].total \/ (c.total >= m /\ Y[k].total >= m)
    BY <1>7, <1>10
  <2>2. Z[k] = c /\ \A j \in K \ {k} : Z[j] = Y[j]
    BY <1>3, <2>1
  <2>3. Y[k] \in Counter(most) /\ Y[k].left > 0
    BY <1>3, <1>10 DEF Live
  <2>4. Live(Z, k)
    BY <1>3, <2>1, <2>2, <2>3 DEF Live
  <2> DEFINE t == tallies[k]
             y == Y[k]
  <2>5. /\ t \in Tally /\ y \in Counter(most)
        /\ Live(X, k) => /\ t.left = y.left /\ t.all = (IF y.total <= m THEN y.total ELSE m)
                         /\ t.expensive = y.expensive /\ t.mutation = y.mutations
        /\ ~ Live(X, k) => t = NoTally /\ y = NewCounter
    BY <1>1, <1>2, <1>10, <2>3 DEF KeyAgrees
  <2>6. y.left > 0 /\ y.total \in Nat /\ y.left \in Nat /\ y.expensive \in Nat /\ y.mutations \in Nat
    BY <2>3, LimitFacts DEF Counter
  <2>7. c.total \in Nat
    BY DEF Counter
  <2>8. CASE ~ admitted
    <3>1. /\ Live(X, k) /\ c.left = y.left /\ c.expensive = y.expensive /\ c.mutations = y.mutations
          /\ c.total = y.total \/ (c.total >= m /\ y.total >= m)
      BY <2>1, <2>8
    <3> HIDE DEF t, y
    <3>2. (IF c.total <= m THEN c.total ELSE m) = (IF y.total <= m THEN y.total ELSE m)
      BY <2>6, <2>7, <3>1
    <3>3. after[k] = t
      BY <1>6, <2>8 DEF t
    <3> QED BY <1>5, <1>8, <2>2, <2>4, <2>5, <3>1, <3>2, <3>3 DEF Agrees, KeyAgrees
  <2>9. CASE admitted
    <3>1. /\ c.left = y.left /\ c.total = y.total + 1 /\ c.total <= m
          /\ c.expensive = y.expensive + One(cost = "expensive")
          /\ c.mutations = y.mutations + One(cost = "mutation")
      BY <2>1, <2>9
    <3> DEFINE o == OneMore(t, cost)
               ex == One(cost = "expensive")
               mu == One(cost = "mutation")
    <3> HIDE DEF t, y
    <3>2. /\ o.left = (IF t.left > 0 THEN t.left ELSE Window)
          /\ o.all = (IF t.left > 0 THEN t.all + 1 ELSE 1)
          /\ o.expensive = (IF t.left > 0 THEN t.expensive ELSE 0) + ex
          /\ o.mutation = (IF t.left > 0 THEN t.mutation ELSE 0) + mu
      BY <2>5, OneMoreFacts
    <3>3. after[k] = o
      BY <1>6, <2>9 DEF t
    <3> HIDE DEF o, ex, mu
    <3>4. c.expensive = y.expensive + ex /\ c.mutations = y.mutations + mu
      BY <3>1 DEF ex, mu
    <3>5. CASE Live(X, k)
      <4>1. /\ t.left = y.left /\ t.all = (IF y.total <= m THEN y.total ELSE m)
            /\ t.expensive = y.expensive /\ t.mutation = y.mutations
        BY <2>5, <3>5
      <4>2. /\ o.left = c.left /\ o.all = c.total /\ o.expensive = c.expensive
            /\ o.mutation = c.mutations
        BY <2>6, <3>1, <3>2, <3>4, <4>1
      <4> QED BY <1>5, <1>8, <2>2, <2>4, <3>1, <3>3, <4>2 DEF Agrees, KeyAgrees
    <3>6. CASE ~ Live(X, k)
      <4>1. t.left = 0 /\ y.left = Window /\ y.total = 0 /\ y.expensive = 0 /\ y.mutations = 0
        BY <2>5, <3>6 DEF NoTally, NewCounter
      <4>2. /\ o.left = c.left /\ o.all = c.total /\ o.expensive = c.expensive
            /\ o.mutation = c.mutations
        BY <3>1, <3>2, <3>4, <4>1
      <4> QED BY <1>5, <1>8, <2>2, <2>4, <3>1, <3>3, <4>2 DEF Agrees, KeyAgrees
    <3> QED BY <3>5, <3>6
  <2> QED BY <2>8, <2>9
<1> QED BY <1>9, <1>10

LEMMA NewCounterFacts ==
  /\ NewCounter.left = Window /\ NewCounter.total = 0
  /\ NewCounter.expensive = 0 /\ NewCounter.mutations = 0
  BY DEF NewCounter

LEMMA PeerCountLog ==
  ASSUME BudgetsOK, NEW k \in Peer
  PROVE  CountStep(IpMax + 1, peers, k, PeerCount(peers, k), "ordinary",
                   PeerAdmits(PeerCount(peers, k), k), IpMax)
<1> DEFINE Y == Counted(peers, k)
           most == IpMax + 1
           Z == PeerCount(peers, k)
           admitted == PeerAdmits(Z, k)
           c == PeerNext(Y[k])
<1>1. /\ peers \in Budgets(Peer, most) /\ most \in Nat /\ IsFiniteSet(Peer)
      /\ IpMax \in Nat \ {0} /\ most = IpMax + 1
  BY LimitFacts DEF BudgetsOK
<1>2. Z = IF Live(Y, k) THEN [Y EXCEPT ![k] = c] ELSE Y
  BY <1>1, PeerCountIs
<1> HIDE DEF most, Y, Z
<1>3. /\ Y \in Budgets(Peer, most)
      /\ ~ Live(peers, k) => ~ Live(Y, k) \/ Y[k] = NewCounter
  BY <1>1, CountedFacts DEF Y
<1>4. /\ Y \in [Peer -> {Free} \cup Counter(most)] /\ Free \notin Counter(most)
      /\ \A j \in Peer : Y[j] # Free => Y[j] \in Counter(most)
  BY <1>1, <1>3, CounterFacts DEF Budgets
<1>5. CASE ~ Live(Y, k)
  BY <1>2, <1>5 DEF PeerAdmits, CountStep, Y, Z
<1>6. CASE Live(Y, k)
  <2>1. Y[k] \in Counter(most) /\ Y[k].left > 0 /\ Y[k].total \in 0 .. most
    BY <1>4, <1>6 DEF Live, Counter
  <2>2. /\ c \in Counter(most) /\ c.left = Y[k].left
        /\ c.expensive = Y[k].expensive /\ c.mutations = Y[k].mutations
        /\ c.total = IF Y[k].total < most THEN Y[k].total + 1 ELSE Y[k].total
    BY <1>1, <2>1, PeerNextFacts DEF MovedOn, most
  <2>3. Z = [Y EXCEPT ![k] = c] /\ Z[k] = c
    BY <1>2, <1>4, <1>6
  <2> HIDE DEF c
  <2>4. admitted <=> c.total <= IpMax
    BY <1>4, <2>1, <2>2, <2>3 DEF PeerAdmits, Live
  <2>5. ~ Live(peers, k) => Y[k].total = 0
    BY <1>3, <1>6, NewCounterFacts
  <2>6. One("ordinary" = "expensive") = 0 /\ One("ordinary" = "mutation") = 0
    BY DEF One
  <2>7. /\ c.expensive = Y[k].expensive + 0 /\ c.mutations = Y[k].mutations + 0
    BY <2>1, <2>2, LimitFacts DEF Counter
  <2>8. IF admitted THEN c.total = Y[k].total + 1 /\ c.total <= IpMax
        ELSE Live(peers, k) /\ c.total >= IpMax /\ Y[k].total >= IpMax
    BY <1>1, <2>1, <2>2, <2>4, <2>5
  <2>9. IF admitted
        THEN /\ c.total = Y[k].total + 1 /\ c.total <= IpMax
             /\ c.expensive = Y[k].expensive + One("ordinary" = "expensive")
             /\ c.mutations = Y[k].mutations + One("ordinary" = "mutation")
        ELSE /\ Live(peers, k)
             /\ c.expensive = Y[k].expensive /\ c.mutations = Y[k].mutations
             /\ c.total = Y[k].total \/ (c.total >= IpMax /\ Y[k].total >= IpMax)
    BY <2>2, <2>6, <2>7, <2>8
  <2> HIDE DEF admitted
  <2> QED BY <1>6, <2>2, <2>3, <2>9 DEF CountStep, Y, Z, admitted, most
<1> QED BY <1>5, <1>6

\* A request that is not admitted leaves its counter as it is.
LEMMA NotAdmittedLog ==
  ASSUME NEW K, IsFiniteSet(K), NEW most \in Nat, NEW X \in Budgets(K, most), NEW k \in K,
         NEW cost, NEW m, Live(Counted(X, k), k) => Live(X, k)
  PROVE  CountStep(most, X, k, Counted(X, k), cost, FALSE, m)
<1> DEFINE Y == Counted(X, k)
<1>1. Y \in Budgets(K, most)
  BY CountedFacts
<1>2. Live(Y, k) => Live(X, k)
  OBVIOUS
<1> HIDE DEF Y
<1>3. /\ Y \in [K -> {Free} \cup Counter(most)]
      /\ \A j \in K : Y[j] # Free => Y[j] \in Counter(most)
  BY <1>1, CounterFacts DEF Budgets
<1>4. Y = [Y EXCEPT ![k] = Y[k]] /\ (Live(Y, k) => Y[k] \in Counter(most))
  BY <1>3 DEF Live
<1> QED BY <1>2, <1>4 DEF CountStep, Y

LEMMA ConsumePrincipalLog ==
  ASSUME BudgetsOK, NEW k \in Principal, NEW cost \in Cost, ConsumePrincipal(k, cost)
  PROVE  CountStep(PrincipalMax, principals, k, principals', cost,
                   PrincipalAdmitted(Counted(principals, k), k, cost), PrincipalMax)
<1> DEFINE Y == Counted(principals, k)
           admitted == PrincipalAdmitted(Y, k, cost)
           c == Consumed(Y[k], cost)
<1>1. /\ principals \in Budgets(Principal, PrincipalMax) /\ PrincipalMax \in Nat
      /\ IsFiniteSet(Principal)
  BY LimitFacts DEF BudgetsOK
<1>2. principals' = IF admitted THEN [Y EXCEPT ![k] = c] ELSE Y
  BY DEF ConsumePrincipal
<1> HIDE DEF Y
<1>3. /\ Y \in Budgets(Principal, PrincipalMax)
      /\ ~ Live(principals, k) => ~ Live(Y, k) \/ Y[k] = NewCounter
  BY <1>1, CountedFacts DEF Y
<1>4. \A j \in Principal : Y[j] # Free => Y[j] \in Counter(PrincipalMax)
  BY <1>1, <1>3, CounterFacts DEF Budgets
<1>5. CASE ~ admitted
  <2>1. Live(Y, k) => Live(principals, k)
    <3>1. Within(NewCounter, cost)
      BY LimitFacts, NewCounterFacts DEF Within
    <3> QED BY <1>3, <1>5, <3>1 DEF PrincipalAdmitted
  <2>2. CountStep(PrincipalMax, principals, k, Y, cost, FALSE, PrincipalMax)
    BY <1>1, <2>1, NotAdmittedLog DEF Y
  <2>3. admitted = FALSE
    BY <1>5 DEF PrincipalAdmitted, Live
  <2> HIDE DEF admitted
  <2> QED BY <1>2, <1>5, <2>2, <2>3 DEF admitted, Y
<1>6. CASE admitted
  <2>1. Live(Y, k) /\ Within(Y[k], cost) /\ Y[k] \in Counter(PrincipalMax)
    BY <1>4, <1>6 DEF PrincipalAdmitted, Live
  <2>2. /\ c \in Counter(PrincipalMax) /\ c.left = Y[k].left /\ c.total = Y[k].total + 1
        /\ c.expensive = Y[k].expensive + One(cost = "expensive")
        /\ c.mutations = Y[k].mutations + One(cost = "mutation")
    BY <2>1, ConsumedFacts DEF MovedOn
  <2>3. c.total <= PrincipalMax
    BY <2>2, LimitFacts DEF Counter
  <2>4. principals' = [Y EXCEPT ![k] = c]
    BY <1>2, <1>6
  <2> HIDE DEF c, admitted
  <2>5. \E d \in Counter(PrincipalMax) :
             /\ principals' = [Y EXCEPT ![k] = d] /\ d.left = Y[k].left
             /\ IF admitted
                THEN /\ d.total = Y[k].total + 1 /\ d.total <= PrincipalMax
                     /\ d.expensive = Y[k].expensive + One(cost = "expensive")
                     /\ d.mutations = Y[k].mutations + One(cost = "mutation")
                ELSE /\ Live(principals, k)
                     /\ d.expensive = Y[k].expensive /\ d.mutations = Y[k].mutations
                     /\ d.total = Y[k].total \/ (d.total >= PrincipalMax /\ Y[k].total >= PrincipalMax)
    BY <1>6, <2>2, <2>3, <2>4
  <2> QED BY <2>1, <2>5 DEF CountStep, Y, admitted
<1> QED BY <1>5, <1>6

LEMMA ConsumeLoginLog ==
  ASSUME BudgetsOK, NEW k \in Peer, ConsumeLogin(k)
  PROVE  CountStep(LoginMax, logins, k, logins', "ordinary",
                   LoginAdmitted(Counted(logins, k), k), LoginMax)
<1> DEFINE Y == Counted(logins, k)
           admitted == LoginAdmitted(Y, k)
           c == [Y[k] EXCEPT !.total = @ + 1]
<1>1. logins \in Budgets(Peer, LoginMax) /\ LoginMax \in Nat /\ IsFiniteSet(Peer)
  BY LimitFacts DEF BudgetsOK
<1>2. logins' = IF admitted THEN [Y EXCEPT ![k] = c] ELSE Y
  BY DEF ConsumeLogin
<1> HIDE DEF Y
<1>3. /\ Y \in Budgets(Peer, LoginMax)
      /\ ~ Live(logins, k) => ~ Live(Y, k) \/ Y[k] = NewCounter
  BY <1>1, CountedFacts DEF Y
<1>4. \A j \in Peer : Y[j] # Free => Y[j] \in Counter(LoginMax)
  BY <1>1, <1>3, CounterFacts DEF Budgets
<1>5. CASE ~ admitted
  <2>1. Live(Y, k) => Live(logins, k)
    BY <1>3, <1>5, LimitFacts, NewCounterFacts DEF LoginAdmitted
  <2>2. CountStep(LoginMax, logins, k, Y, "ordinary", FALSE, LoginMax)
    BY <1>1, <2>1, NotAdmittedLog DEF Y
  <2>3. admitted = FALSE
    BY <1>5 DEF LoginAdmitted, Live
  <2> HIDE DEF admitted
  <2> QED BY <1>2, <1>5, <2>2, <2>3 DEF admitted, Y
<1>6. CASE admitted
  <2>1. Live(Y, k) /\ Y[k].total < LoginMax /\ Y[k] \in Counter(LoginMax)
    BY <1>4, <1>6 DEF LoginAdmitted, Live
  <2>2. /\ c \in Counter(LoginMax) /\ c.left = Y[k].left /\ c.total = Y[k].total + 1
        /\ c.expensive = Y[k].expensive /\ c.mutations = Y[k].mutations
    BY <2>1, LoginCounted DEF MovedOn
  <2>3. c.total <= LoginMax
    BY <2>2, LimitFacts DEF Counter
  <2>4. logins' = [Y EXCEPT ![k] = c]
    BY <1>2, <1>6
  <2> HIDE DEF c, admitted
  <2>5. One("ordinary" = "expensive") = 0 /\ One("ordinary" = "mutation") = 0
    BY DEF One
  <2>6. c.expensive = Y[k].expensive + 0 /\ c.mutations = Y[k].mutations + 0
    BY <2>1, <2>2, LimitFacts DEF Counter
  <2>7. \E d \in Counter(LoginMax) :
             /\ logins' = [Y EXCEPT ![k] = d] /\ d.left = Y[k].left
             /\ IF admitted
                THEN /\ d.total = Y[k].total + 1 /\ d.total <= LoginMax
                     /\ d.expensive = Y[k].expensive + One("ordinary" = "expensive")
                     /\ d.mutations = Y[k].mutations + One("ordinary" = "mutation")
                ELSE /\ Live(logins, k)
                     /\ d.expensive = Y[k].expensive /\ d.mutations = Y[k].mutations
                     /\ d.total = Y[k].total \/ (d.total >= LoginMax /\ Y[k].total >= LoginMax)
    BY <1>6, <2>2, <2>3, <2>4, <2>5, <2>6
  <2> QED BY <2>1, <2>7 DEF CountStep, Y, admitted
<1> QED BY <1>5, <1>6

\* Time takes from the counters and from the history alike.
LEMMA AgedLog ==
  ASSUME NEW K, IsFiniteSet(K), NEW most \in Nat, NEW m \in Nat, NEW X \in Budgets(K, most),
         NEW tallies, Agrees(K, tallies, X, m)
  PROVE  Agrees(K, Shortened(tallies), Aged(X), m)
<1>1. /\ tallies \in [K -> Tally] /\ DOMAIN tallies = K
      /\ \A k \in K : KeyAgrees(tallies[k], X, k, m)
  BY DEF Agrees
<1>2. /\ \A k \in K : Aged(X)[k] = Free <=> X[k] = Free
      /\ \A k \in K : X[k] # Free => /\ Aged(X)[k] = [X[k] EXCEPT !.left = Less(@)]
                                     /\ X[k] \in Counter(most)
  BY AgedFacts
<1>3. NoTally \in Tally
  BY LimitFacts DEF NoTally, Tally
<1>4. ASSUME NEW t \in Tally, t.left > 1
      PROVE  /\ [t EXCEPT !.left = @ - 1] \in Tally
             /\ [t EXCEPT !.left = @ - 1].left = t.left - 1 /\ [t EXCEPT !.left = @ - 1].all = t.all
             /\ [t EXCEPT !.left = @ - 1].expensive = t.expensive
             /\ [t EXCEPT !.left = @ - 1].mutation = t.mutation
  BY <1>4, LimitFacts DEF Tally
<1>5. /\ \A k \in K : Shortened(tallies)[k] =
           IF tallies[k].left > 1 THEN [tallies[k] EXCEPT !.left = @ - 1] ELSE NoTally
      /\ Shortened(tallies) = [k \in K |-> Shortened(tallies)[k]]
  BY <1>1 DEF Shortened
<1>6. \A k \in K : Shortened(tallies)[k] \in Tally
  BY <1>1, <1>3, <1>4, <1>5
<1>7. Shortened(tallies) \in [K -> Tally]
  BY <1>5, <1>6
<1>8. ASSUME NEW k \in K PROVE KeyAgrees(Shortened(tallies)[k], Aged(X), k, m)
  <2> DEFINE t == tallies[k]
             u == Shortened(tallies)[k]
  <2>1. t \in Tally /\ u = (IF t.left > 1 THEN [t EXCEPT !.left = @ - 1] ELSE NoTally)
    BY <1>1, <1>5
  <2>2. CASE ~ Live(X, k)
    <3>1. t = NoTally
      BY <1>1, <2>2 DEF KeyAgrees
    <3>2. u = NoTally
      BY <2>1, <3>1 DEF NoTally
    <3>3. ~ Live(Aged(X), k)
      <4>1. CASE X[k] = Free
        BY <1>2, <4>1 DEF Live
      <4>2. CASE X[k] # Free
        <5> DEFINE c == X[k]
        <5>1. c \in Counter(most) /\ Aged(X)[k] = [c EXCEPT !.left = Less(@)]
          BY <1>2, <4>2
        <5>2. ~ (c.left > 0)
          BY <2>2, <4>2 DEF Live
        <5> HIDE DEF c
        <5>3. /\ Aged(X)[k].left = Less(c.left) /\ c.left \in Nat
              /\ Less(c.left) = IF c.left = 0 THEN 0 ELSE c.left - 1
          BY <5>1, AgedCounter
        <5>4. Aged(X)[k].left = 0
          BY <5>2, <5>3
        <5> QED BY <5>4 DEF Live
      <4> QED BY <4>1, <4>2
    <3> QED BY <3>2, <3>3 DEF KeyAgrees
  <2>3. CASE Live(X, k)
    <3> DEFINE c == X[k]
    <3>1. /\ c \in Counter(most) /\ Aged(X)[k] = [c EXCEPT !.left = Less(@)] /\ c.left > 0
          /\ Aged(X)[k] # Free
      BY <1>2, <2>3 DEF Live
    <3>2. /\ t.left = c.left /\ t.all = (IF c.total <= m THEN c.total ELSE m)
          /\ t.expensive = c.expensive /\ t.mutation = c.mutations
      BY <1>1, <2>3 DEF KeyAgrees
    <3> HIDE DEF c, t, u
    <3>3. /\ Aged(X)[k].left = Less(c.left) /\ c.left \in Nat
          /\ Less(c.left) = (IF c.left = 0 THEN 0 ELSE c.left - 1)
          /\ Aged(X)[k].total = c.total /\ Aged(X)[k].expensive = c.expensive
          /\ Aged(X)[k].mutations = c.mutations
      BY <3>1, AgedCounter
    <3>4. CASE c.left > 1
      <4>1. /\ u.left = t.left - 1 /\ u.all = t.all /\ u.expensive = t.expensive
            /\ u.mutation = t.mutation
        BY <1>4, <2>1, <3>2, <3>4
      <4>2. Live(Aged(X), k) /\ u.left = Aged(X)[k].left
        BY <3>1, <3>2, <3>3, <3>4, <4>1 DEF Live
      <4> QED BY <3>2, <3>3, <4>1, <4>2 DEF KeyAgrees, u
    <3>5. CASE ~ (c.left > 1)
      <4>1. u = NoTally
        BY <2>1, <3>2, <3>5
      <4>2. Aged(X)[k].left = 0
        BY <3>1, <3>3, <3>5
      <4>3. ~ Live(Aged(X), k)
        BY <4>2 DEF Live
      <4> QED BY <4>1, <4>3 DEF KeyAgrees, u
    <3> QED BY <3>4, <3>5
  <2> QED BY <2>2, <2>3
<1> QED BY <1>7, <1>8 DEF Agrees

LEMMA NothingLogged ==
  ASSUME NEW K, NEW m
  PROVE  Agrees(K, [k \in K |-> NoTally], [k \in K |-> Free], m)
<1>1. NoTally \in Tally
  BY LimitFacts DEF NoTally, Tally
<1> QED BY <1>1 DEF Agrees, KeyAgrees, Live

LogOK ==
  /\ passed = [peer |-> passed.peer, principal |-> passed.principal, login |-> passed.login]
  /\ Agrees(Peer, passed.peer, peers, IpMax)
  /\ Agrees(Principal, passed.principal, principals, PrincipalMax)
  /\ Agrees(Peer, passed.login, logins, LoginMax)

LEMMA PassedIs ==
  ASSUME LogOK, NEW a, NEW b, NEW c,
         passed' = [passed EXCEPT !.peer = a, !.principal = b, !.login = c]
  PROVE  /\ passed' = [peer |-> a, principal |-> b, login |-> c]
         /\ passed'.peer = a /\ passed'.principal = b /\ passed'.login = c
  BY DEF LogOK

LEMMA NextLog ==
  ASSUME BudgetsOK, LogOK, [Next]_vars
  PROVE  LogOK'
<1>1. /\ peers \in Budgets(Peer, IpMax + 1) /\ principals \in Budgets(Principal, PrincipalMax)
      /\ logins \in Budgets(Peer, LoginMax)
      /\ IpMax + 1 \in Nat /\ PrincipalMax \in Nat /\ LoginMax \in Nat /\ IpMax \in Nat
      /\ IsFiniteSet(Peer) /\ IsFiniteSet(Principal)
  BY LimitFacts DEF BudgetsOK
<1>2. /\ Agrees(Peer, passed.peer, peers, IpMax)
      /\ Agrees(Principal, passed.principal, principals, PrincipalMax)
      /\ Agrees(Peer, passed.login, logins, LoginMax)
  BY DEF LogOK
<1>3. ASSUME NEW k \in Peer, peers' = PeerCount(peers, k)
      PROVE  Agrees(Peer, LetThrough(passed.peer, k, "ordinary", PeerAdmits(PeerCount(peers, k), k)),
                    peers', IpMax)
  <2> DEFINE admitted == PeerAdmits(PeerCount(peers, k), k)
             tallies == passed.peer
  <2>1. CountStep(IpMax + 1, peers, k, peers', "ordinary", admitted, IpMax)
    BY <1>3, PeerCountLog
  <2>2. admitted \in BOOLEAN
    BY DEF PeerAdmits, Live
  <2>3. Agrees(Peer, tallies, peers, IpMax)
    BY <1>2
  <2> HIDE DEF admitted, tallies
  <2>4. Agrees(Peer, LetThrough(tallies, k, "ordinary", admitted), peers', IpMax)
    BY <1>1, <2>1, <2>2, <2>3, MapLog
  <2> QED BY <2>4 DEF admitted, tallies
<1>4. ASSUME NEW peer \in Peer, NEW principal \in Principal, NEW cost \in Cost,
             Request(peer, principal, cost)
      PROVE  LogOK'
  <2> DEFINE admitted == PeerAdmits(PeerCount(peers, peer), peer)
             let == admitted /\ PrincipalAdmitted(Counted(principals, principal), principal, cost)
             a == LetThrough(passed.peer, peer, "ordinary", admitted)
             b == LetThrough(passed.principal, principal, cost, let)
  <2>1. /\ peers' = PeerCount(peers, peer) /\ logins' = logins
        /\ IF admitted THEN ConsumePrincipal(principal, cost) ELSE principals' = principals
        /\ passed' = [passed EXCEPT !.peer = a, !.principal = b]
    BY <1>4 DEF Request
  <2>2. Agrees(Peer, a, peers', IpMax)
    BY <1>3, <2>1
  <2>3. Agrees(Principal, b, principals', PrincipalMax)
    <3>1. CASE admitted
      <4> DEFINE ok == PrincipalAdmitted(Counted(principals, principal), principal, cost)
                 tallies == passed.principal
      <4>1. CountStep(PrincipalMax, principals, principal, principals', cost, ok, PrincipalMax)
        BY <2>1, <3>1, ConsumePrincipalLog
      <4>2. ok \in BOOLEAN /\ let = ok
        BY <3>1 DEF PrincipalAdmitted, Live, Within
      <4>3. Agrees(Principal, tallies, principals, PrincipalMax)
        BY <1>2
      <4> HIDE DEF ok, tallies, let
      <4>4. Agrees(Principal, LetThrough(tallies, principal, cost, ok), principals', PrincipalMax)
        BY <1>1, <4>1, <4>2, <4>3, MapLog
      <4> QED BY <4>2, <4>4 DEF tallies
    <3>2. CASE ~ admitted
      <4>1. b = passed.principal /\ principals' = principals
        BY <2>1, <3>2 DEF LetThrough
      <4> HIDE DEF b
      <4> QED BY <1>2, <4>1
    <3> QED BY <3>1, <3>2
  <2> HIDE DEF a, b
  <2>4. /\ passed' = [peer |-> a, principal |-> b, login |-> passed.login]
        /\ passed'.peer = a /\ passed'.principal = b /\ passed'.login = passed.login
    BY <2>1 DEF LogOK
  <2> QED BY <1>2, <2>1, <2>2, <2>3, <2>4 DEF LogOK
<1>5. ASSUME NEW peer \in Peer, NEW user \in User, NEW correct \in BOOLEAN,
             Login(peer, user, correct)
      PROVE  LogOK'
  <2> DEFINE admitted == PeerAdmits(PeerCount(peers, peer), peer)
             let == admitted /\ LoginAdmitted(Counted(logins, peer), peer)
             a == LetThrough(passed.peer, peer, "ordinary", admitted)
             b == LetThrough(passed.login, peer, "ordinary", let)
  <2>1. /\ peers' = PeerCount(peers, peer) /\ principals' = principals
        /\ IF admitted THEN ConsumeLogin(peer) ELSE logins' = logins
        /\ passed' = [passed EXCEPT !.peer = a, !.login = b]
    BY <1>5 DEF Login
  <2>2. Agrees(Peer, a, peers', IpMax)
    BY <1>3, <2>1
  <2>3. Agrees(Peer, b, logins', LoginMax)
    <3>1. CASE admitted
      <4> DEFINE ok == LoginAdmitted(Counted(logins, peer), peer)
                 tallies == passed.login
      <4>1. CountStep(LoginMax, logins, peer, logins', "ordinary", ok, LoginMax)
        BY <2>1, <3>1, ConsumeLoginLog
      <4>2. ok \in BOOLEAN /\ let = ok
        BY <3>1 DEF LoginAdmitted, Live
      <4>3. Agrees(Peer, tallies, logins, LoginMax)
        BY <1>2
      <4> HIDE DEF ok, tallies, let
      <4>4. Agrees(Peer, LetThrough(tallies, peer, "ordinary", ok), logins', LoginMax)
        BY <1>1, <4>1, <4>2, <4>3, MapLog
      <4> QED BY <4>2, <4>4 DEF tallies
    <3>2. CASE ~ admitted
      <4>1. b = passed.login /\ logins' = logins
        BY <2>1, <3>2 DEF LetThrough
      <4> HIDE DEF b
      <4> QED BY <1>2, <4>1
    <3> QED BY <3>1, <3>2
  <2> HIDE DEF a, b
  <2>4. /\ passed' = [peer |-> a, principal |-> passed.principal, login |-> b]
        /\ passed'.peer = a /\ passed'.principal = passed.principal /\ passed'.login = b
    BY <2>1 DEF LogOK
  <2> QED BY <1>2, <2>1, <2>2, <2>3, <2>4 DEF LogOK
<1>6. ASSUME Tick PROVE LogOK'
  <2> DEFINE a == Shortened(passed.peer)
             b == Shortened(passed.principal)
             c == Shortened(passed.login)
  <2>1. /\ peers' = Aged(peers) /\ principals' = Aged(principals) /\ logins' = Aged(logins)
        /\ passed' = [passed EXCEPT !.peer = a, !.principal = b, !.login = c]
    BY <1>6 DEF Tick
  <2>2. Agrees(Peer, a, peers', IpMax)
    BY <1>1, <1>2, <2>1, AgedLog
  <2>3. Agrees(Principal, b, principals', PrincipalMax)
    BY <1>1, <1>2, <2>1, AgedLog
  <2>4. Agrees(Peer, c, logins', LoginMax)
    BY <1>1, <1>2, <2>1, AgedLog
  <2> HIDE DEF a, b, c
  <2>5. /\ passed' = [peer |-> a, principal |-> b, login |-> c]
        /\ passed'.peer = a /\ passed'.principal = b /\ passed'.login = c
    BY <2>1, PassedIs
  <2> QED BY <2>2, <2>3, <2>4, <2>5 DEF LogOK
<1>7. ASSUME Restart PROVE LogOK'
  BY <1>7, NothingLogged DEF Restart, NothingPassed, LogOK
<1>8. ASSUME UNCHANGED vars PROVE LogOK'
  BY <1>2, <1>8 DEF vars, budgets, LogOK
<1> QED BY <1>4, <1>5, <1>6, <1>7, <1>8 DEF Next

\* While the history agrees with the counters, the budgets hold.
LEMMA LogHolds ==
  ASSUME BudgetsOK, LogOK
  PROVE  /\ BudgetsHold
         /\ passed \in [peer : [Peer -> Tally], principal : [Principal -> Tally],
                        login : [Peer -> Tally]]
<1>1. ASSUME NEW K, NEW most \in Nat, NEW m \in Nat, NEW X \in Budgets(K, most),
             NEW tallies, Agrees(K, tallies, X, m), NEW k \in K
      PROVE  /\ tallies[k].all <= m /\ tallies[k].expensive <= ExpensiveMax
             /\ tallies[k].mutation <= MutationMax
  <2>1. KeyAgrees(tallies[k], X, k, m)
    BY <1>1 DEF Agrees
  <2>2. CASE ~ Live(X, k)
    BY <2>1, <2>2, LimitFacts DEF KeyAgrees, NoTally
  <2>3. CASE Live(X, k)
    <3>1. X[k] \in Counter(most)
      BY <2>3, CounterFacts DEF Budgets, Live
    <3>2. /\ X[k].total \in Nat /\ X[k].expensive <= ExpensiveMax
          /\ X[k].mutations <= MutationMax
      BY <3>1, LimitFacts DEF Counter
    <3> QED BY <2>1, <2>3, <3>2 DEF KeyAgrees
  <2> QED BY <2>2, <2>3
<1>2. /\ peers \in Budgets(Peer, IpMax + 1) /\ principals \in Budgets(Principal, PrincipalMax)
      /\ logins \in Budgets(Peer, LoginMax)
      /\ IpMax + 1 \in Nat /\ PrincipalMax \in Nat /\ LoginMax \in Nat /\ IpMax \in Nat
  BY LimitFacts DEF BudgetsOK
<1>3. /\ Agrees(Peer, passed.peer, peers, IpMax)
      /\ Agrees(Principal, passed.principal, principals, PrincipalMax)
      /\ Agrees(Peer, passed.login, logins, LoginMax)
  BY DEF LogOK
<1>4. BudgetsHold
  BY <1>1, <1>2, <1>3 DEF BudgetsHold
<1>5. /\ passed.peer \in [Peer -> Tally] /\ passed.principal \in [Principal -> Tally]
      /\ passed.login \in [Peer -> Tally]
  BY <1>3 DEF Agrees
<1>6. passed = [peer |-> passed.peer, principal |-> passed.principal, login |-> passed.login]
  BY DEF LogOK
<1> QED BY <1>4, <1>5, <1>6

-----------------------------------------------------------------------------
(***************************************************************************)
(* Refusals: the delay that is announced is the delay there is.            *)
(***************************************************************************)

\* Other live keys fill the map.
KeptOut(X, k) == X[k] = Free /\ Full(X) /\ \A j \in Tracked(X) : Live(X, j)

LEMMA FullMeans ==
  ASSUME NEW K, IsFiniteSet(K), NEW most \in Nat, NEW X \in Budgets(K, most), NEW k \in K,
         ~ Live(X, k)
  PROVE  Full(MakeRoom(X, k)) <=> KeptOut(X, k)
<1>1. /\ X \in [K -> {Free} \cup Counter(most)] /\ DOMAIN X = K
      /\ Tracked(X) = {j \in K : X[j] # Free} /\ Cardinality(Tracked(X)) <= TrackedKeys
  BY CounterFacts DEF Budgets
<1>2. IsFiniteSet(Tracked(X)) /\ Cardinality(Tracked(X)) \in Nat
  <2>1. Tracked(X) \subseteq K
    BY <1>1
  <2>2. IsFiniteSet(Tracked(X))
    BY <2>1, FS_Subset
  <2> QED BY <2>2, FS_CardinalityType
<1> DEFINE W == Without(X, k)
           V == Swept(X)
<1>3. MakeRoom(X, k) = IF Full(W) THEN V ELSE W
  BY DEF MakeRoom
<1>4. Tracked(W) = Tracked(X) \ {k}
  BY <1>1 DEF Without, Tracked
<1>5. Tracked(V) = {j \in Tracked(X) : Live(X, j)}
  BY <1>1 DEF Swept, Expired, Tracked
<1>6. ASSUME KeptOut(X, k) PROVE Full(MakeRoom(X, k))
  <2>1. Tracked(W) = Tracked(X) /\ Tracked(V) = Tracked(X)
    BY <1>1, <1>4, <1>5, <1>6 DEF KeptOut
  <2> HIDE DEF W, V
  <2> QED BY <1>3, <1>6, <2>1 DEF KeptOut, Full
<1>7. ASSUME Full(MakeRoom(X, k)) PROVE KeptOut(X, k)
  <2> HIDE DEF W, V
  <2>1. Full(W) /\ Full(V)
    BY <1>3, <1>7
  <2>2. ASSUME NEW S, S \subseteq Tracked(X), Cardinality(S) >= TrackedKeys PROVE S = Tracked(X)
    <3>1. /\ IsFiniteSet(S) /\ Cardinality(S) <= Cardinality(Tracked(X))
          /\ Cardinality(S) = Cardinality(Tracked(X)) => S = Tracked(X)
      BY <1>2, <2>2, FS_Subset
    <3>2. Cardinality(S) \in Nat
      BY <3>1, FS_CardinalityType
    <3> QED BY <1>1, <1>2, <2>2, <3>1, <3>2, LimitFacts
  <2>3. Tracked(W) = Tracked(X)
    BY <1>4, <2>1, <2>2 DEF Full
  <2>4. Tracked(V) = Tracked(X)
    BY <1>5, <2>1, <2>2 DEF Full
  <2>5. Full(X)
    BY <2>1, <2>3 DEF Full
  <2> QED BY <1>1, <1>4, <1>5, <2>3, <2>4, <2>5 DEF KeptOut
<1> QED BY <1>6, <1>7

Lefts(X) == {X[j].left : j \in {j \in DOMAIN X : Live(X, j)}}

\* The least of the lefts.
LEMMA RetryFacts ==
  ASSUME NEW K, IsFiniteSet(K), NEW most \in Nat, NEW X \in Budgets(K, most), NEW k \in K
  PROVE  /\ Live(X, k) => RetryAfter(X, k) = X[k].left
         /\ KeptOut(X, k) =>
              /\ ~ Live(X, k) /\ RetryAfter(X, k) \in Lefts(X)
              /\ \A e \in Lefts(X) : RetryAfter(X, k) <= e
         /\ Lefts(X) \subseteq Nat \ {0}
<1>1. /\ DOMAIN X = K /\ \A j \in K : X[j] # Free => X[j] \in Counter(most)
      /\ Tracked(X) = {j \in K : X[j] # Free}
  BY CounterFacts DEF Budgets
<1>2. \A j \in K : Live(X, j) => X[j].left \in Nat \ {0}
  BY <1>1, LimitFacts DEF Live, Counter
<1>3. Lefts(X) \subseteq Nat \ {0}
  BY <1>1, <1>2 DEF Lefts
<1>4. /\ Live(X, k) => RetryAfter(X, k) = X[k].left
      /\ ~ Live(X, k) =>
           RetryAfter(X, k) = CHOOSE d \in Lefts(X) : \A e \in Lefts(X) : d <= e
  BY DEF RetryAfter, Lefts
<1>5. ASSUME KeptOut(X, k)
      PROVE  \E d \in Lefts(X) : \A e \in Lefts(X) : d <= e
  <2>1. Tracked(X) # {}
    <3>1. Cardinality(Tracked(X)) >= TrackedKeys
      BY <1>5 DEF KeptOut, Full
    <3>2. Cardinality({}) = 0
      BY FS_EmptySet
    <3> QED BY <3>1, <3>2, LimitFacts
  <2>2. Lefts(X) # {}
    BY <1>1, <1>5, <2>1 DEF KeptOut, Lefts
  <2>3. Lefts(X) \subseteq Nat
    BY <1>3
  <2> QED BY <2>2, <2>3, LeastElement
<1>6. KeptOut(X, k) => ~ Live(X, k)
  BY DEF KeptOut, Live
<1> QED BY <1>3, <1>4, <1>5, <1>6

\* Whether k is refused because its own counter is spent or because it is kept
\* out: in a step of the given ticks that lasts as long as was announced.
RefusalGoesOn(ticks, X, Y, k) ==
  IF ticks = RetryAfter(X, k) THEN ~ Live(Y, k) /\ ~ KeptOut(Y, k)
  ELSE /\ RetryAfter(Y, k) = RetryAfter(X, k) - ticks
       /\ IF Live(X, k)
          THEN /\ Live(Y, k) /\ Y[k].total >= X[k].total
               /\ Y[k].expensive >= X[k].expensive /\ Y[k].mutations >= X[k].mutations
          ELSE KeptOut(Y, k)

\* Another map with the same keys and live counters, all of them with d less.
LEMMA SameKept ==
  ASSUME NEW K, IsFiniteSet(K), NEW most \in Nat, NEW X \in Budgets(K, most),
         NEW Y \in Budgets(K, most), NEW k \in K, KeptOut(X, k), NEW d \in Nat,
         \A j \in K : X[j] # Free => Live(Y, j) /\ Y[j].left = X[j].left - d
  PROVE  KeptOut(Y, k) /\ RetryAfter(Y, k) = RetryAfter(X, k) - d
<1>1. /\ DOMAIN X = K /\ DOMAIN Y = K
      /\ Tracked(X) = {j \in K : X[j] # Free} /\ Tracked(Y) = {j \in K : Y[j] # Free}
      /\ Cardinality(Tracked(Y)) <= TrackedKeys
  BY CounterFacts DEF Budgets
<1>2. Tracked(X) \subseteq Tracked(Y)
  BY <1>1 DEF Live
<1>3. Tracked(X) = Tracked(Y)
  <2>1. Tracked(Y) \subseteq K
    BY <1>1
  <2>2. IsFiniteSet(Tracked(Y))
    BY <2>1, FS_Subset
  <2>3. /\ IsFiniteSet(Tracked(X)) /\ Cardinality(Tracked(X)) <= Cardinality(Tracked(Y))
        /\ Cardinality(Tracked(X)) = Cardinality(Tracked(Y)) => Tracked(X) = Tracked(Y)
    BY <1>2, <2>2, FS_Subset
  <2>4. Cardinality(Tracked(X)) \in Nat /\ Cardinality(Tracked(Y)) \in Nat
    BY <2>2, <2>3, FS_CardinalityType
  <2>5. Cardinality(Tracked(X)) >= TrackedKeys
    BY DEF KeptOut, Full
  <2> QED BY <1>1, <2>3, <2>4, <2>5, LimitFacts
<1>4. KeptOut(Y, k)
  BY <1>1, <1>3 DEF KeptOut, Full
<1>5. /\ RetryAfter(X, k) \in Lefts(X) /\ \A e \in Lefts(X) : RetryAfter(X, k) <= e
      /\ Lefts(X) \subseteq Nat \ {0}
  BY RetryFacts
<1>6. /\ RetryAfter(Y, k) \in Lefts(Y) /\ \A e \in Lefts(Y) : RetryAfter(Y, k) <= e
      /\ Lefts(Y) \subseteq Nat \ {0}
  BY <1>4, RetryFacts
<1>7. \A e \in Lefts(X) : e - d \in Lefts(Y)
  BY <1>1 DEF Lefts, Live
<1>8. \A e \in Lefts(Y) : \E f \in Lefts(X) : e = f - d
  <2> SUFFICES ASSUME NEW j \in K, Live(Y, j) PROVE \E f \in Lefts(X) : Y[j].left = f - d
    BY <1>1 DEF Lefts
  <2>1. j \in Tracked(X)
    BY <1>1, <1>3 DEF Live
  <2>2. Live(X, j) /\ X[j] # Free
    BY <1>1, <2>1 DEF KeptOut
  <2>3. X[j].left \in Lefts(X) /\ Y[j].left = X[j].left - d
    BY <1>1, <2>2 DEF Lefts
  <2> QED BY <2>3
<1> DEFINE x == RetryAfter(X, k)
           y == RetryAfter(Y, k)
<1>9. x \in Nat /\ y \in Nat /\ x - d \in Lefts(Y) /\ y <= x - d
  BY <1>5, <1>6, <1>7
<1>10. PICK f \in Lefts(X) : y = f - d
  BY <1>6, <1>8
<1>11. x <= f /\ f \in Nat
  BY <1>5
<1> HIDE DEF x, y
<1>12. y = x - d
  BY <1>9, <1>10, <1>11
<1> QED BY <1>4, <1>12 DEF x, y

LEMMA RequestGoesOn ==
  ASSUME NEW K, IsFiniteSet(K), NEW most \in Nat, NEW X \in Budgets(K, most), NEW Y,
         MapStep(K, most, X, Y), NEW k \in K, Live(X, k) \/ KeptOut(X, k)
  PROVE  RefusalGoesOn(0, X, Y, k)
<1>1. /\ Y \in Budgets(K, most)
      /\ \A j \in K : Live(X, j) => Y[j] # Free /\ MovedOn(X[j], Y[j])
  BY DEF MapStep
<1>2. /\ Live(X, k) => RetryAfter(X, k) = X[k].left
      /\ KeptOut(X, k) => ~ Live(X, k) /\ RetryAfter(X, k) \in Lefts(X)
      /\ Lefts(X) \subseteq Nat \ {0}
  BY RetryFacts
<1>3. \A j \in K : Live(X, j) => Live(Y, j) /\ Y[j].left = X[j].left
  BY <1>1 DEF Live, MovedOn
<1>4. CASE Live(X, k)
  <2>1. X[k].left \in Nat /\ X[k].left > 0
    <3>1. X[k] \in Counter(most)
      BY <1>4, CounterFacts DEF Budgets, Live
    <3> QED BY <1>4, <3>1, LimitFacts DEF Live, Counter
  <2>2. Live(Y, k) => RetryAfter(Y, k) = Y[k].left
    BY <1>1, RetryFacts
  <2>3. RetryAfter(X, k) # 0 /\ RetryAfter(Y, k) = RetryAfter(X, k) - 0
    BY <1>2, <1>3, <1>4, <2>1, <2>2
  <2> QED BY <1>1, <1>3, <1>4, <2>3 DEF RefusalGoesOn, MovedOn
<1>5. CASE KeptOut(X, k)
  <2>1. \A j \in K : X[j] # Free => Live(X, j) /\ X[j].left \in Nat
    <3>1. \A j \in K : X[j] # Free => X[j] \in Counter(most) /\ j \in Tracked(X)
      BY CounterFacts DEF Budgets
    <3> QED BY <1>5, <3>1, LimitFacts DEF KeptOut, Counter
  <2>2. \A j \in K : X[j] # Free => Live(Y, j) /\ Y[j].left = X[j].left - 0
    BY <1>3, <2>1
  <2>3. KeptOut(Y, k) /\ RetryAfter(Y, k) = RetryAfter(X, k) - 0
    BY <1>1, <1>5, <2>2, SameKept
  <2>4. RetryAfter(X, k) # 0 /\ ~ Live(X, k)
    BY <1>2, <1>5
  <2> QED BY <2>3, <2>4 DEF RefusalGoesOn
<1> QED BY <1>4, <1>5

LEMMA TickGoesOn ==
  ASSUME NEW K, IsFiniteSet(K), NEW most \in Nat, NEW X \in Budgets(K, most),
         NEW k \in K, Live(X, k) \/ KeptOut(X, k)
  PROVE  RefusalGoesOn(1, X, Aged(X), k)
<1> DEFINE Y == Aged(X)
<1>1. /\ Y \in Budgets(K, most)
      /\ \A j \in K : Y[j] = Free <=> X[j] = Free
      /\ \A j \in K : X[j] # Free => /\ Y[j] = [X[j] EXCEPT !.left = Less(@)]
                                     /\ X[j] \in Counter(most)
  BY AgedFacts
<1>2. /\ Live(X, k) => RetryAfter(X, k) = X[k].left
      /\ KeptOut(X, k) => /\ ~ Live(X, k) /\ RetryAfter(X, k) \in Lefts(X)
                          /\ \A e \in Lefts(X) : RetryAfter(X, k) <= e
      /\ Lefts(X) \subseteq Nat \ {0}
  BY RetryFacts
<1>3. ASSUME NEW j \in K, X[j] # Free
      PROVE  /\ Y[j].left = (IF X[j].left = 0 THEN 0 ELSE X[j].left - 1) /\ X[j].left \in Nat
             /\ Y[j].total = X[j].total /\ Y[j].expensive = X[j].expensive
             /\ Y[j].mutations = X[j].mutations
             /\ X[j].total \in Nat /\ X[j].expensive \in Nat /\ X[j].mutations \in Nat
  <2> DEFINE c == X[j]
  <2>1. c \in Counter(most) /\ Y[j] = [c EXCEPT !.left = Less(@)]
    BY <1>1, <1>3
  <2> HIDE DEF c, Y
  <2>2. /\ Y[j].left = Less(c.left) /\ Less(c.left) = IF c.left = 0 THEN 0 ELSE c.left - 1
        /\ Y[j].total = c.total /\ Y[j].expensive = c.expensive /\ Y[j].mutations = c.mutations
        /\ c.total \in Nat /\ c.left \in Nat /\ c.expensive \in Nat /\ c.mutations \in Nat
    BY <2>1, AgedCounter
  <2> QED BY <2>2 DEF c
<1> HIDE DEF Y
<1>4. CASE Live(X, k)
  <2>1. X[k] # Free /\ X[k].left > 0 /\ Y[k] # Free /\ RetryAfter(X, k) = X[k].left
    BY <1>1, <1>2, <1>4 DEF Live
  <2>2. Y[k].left = X[k].left - 1 /\ X[k].left \in Nat
    BY <1>3, <2>1
  <2>3. CASE X[k].left = 1
    <3>1. ~ Live(Y, k) /\ ~ KeptOut(Y, k)
      BY <2>1, <2>2, <2>3 DEF Live, KeptOut
    <3> QED BY <2>1, <2>3, <3>1 DEF RefusalGoesOn, Y
  <2>4. CASE X[k].left # 1
    <3>1. Live(Y, k)
      BY <2>1, <2>2, <2>4 DEF Live
    <3>2. RetryAfter(Y, k) = RetryAfter(X, k) - 1
      BY <1>1, <2>1, <2>2, <3>1, RetryFacts
    <3>3. /\ Y[k].total >= X[k].total /\ Y[k].expensive >= X[k].expensive
          /\ Y[k].mutations >= X[k].mutations
      BY <1>3, <2>1
    <3> QED BY <1>4, <2>1, <2>4, <3>1, <3>2, <3>3 DEF RefusalGoesOn, Y
  <2> QED BY <2>3, <2>4
<1>5. CASE KeptOut(X, k)
  <2> DEFINE d == RetryAfter(X, k)
  <2>1. ~ Live(X, k) /\ d \in Lefts(X) /\ d \in Nat \ {0} /\ \A e \in Lefts(X) : d <= e
    BY <1>2, <1>5
  <2>2. \A j \in K : X[j] # Free => Live(X, j) /\ j \in DOMAIN X
    <3>1. DOMAIN X = K /\ Tracked(X) = {j \in K : X[j] # Free}
      BY CounterFacts DEF Budgets
    <3> QED BY <1>5, <3>1 DEF KeptOut
  <2> HIDE DEF d
  <2>3. CASE d = 1
    <3>1. PICK j \in DOMAIN X : Live(X, j) /\ X[j].left = 1
      BY <2>1, <2>3 DEF Lefts
    <3>2. j \in K /\ X[j] # Free
      BY <3>1 DEF Live, Budgets
    <3>3. Y[j].left = 0 /\ Y[j] # Free
      BY <1>1, <1>3, <3>1, <3>2
    <3>4. ~ Live(Y, j) /\ j \in Tracked(Y)
      <4>1. Tracked(Y) = {i \in K : Y[i] # Free}
        BY <1>1, CounterFacts DEF Budgets
      <4> QED BY <3>2, <3>3, <4>1 DEF Live
    <3>5. ~ KeptOut(Y, k)
      BY <3>4 DEF KeptOut
    <3>6. ~ Live(Y, k)
      BY <1>1, <1>5 DEF KeptOut, Live
    <3> QED BY <2>3, <3>5, <3>6 DEF RefusalGoesOn, Y, d
  <2>4. CASE d # 1
    <3>1. ASSUME NEW j \in K, X[j] # Free PROVE Live(Y, j) /\ Y[j].left = X[j].left - 1
      <4>1. X[j].left \in Lefts(X)
        BY <2>2, <3>1 DEF Lefts
      <4>2. X[j].left > 1 /\ X[j].left \in Nat
        BY <1>3, <2>1, <2>4, <3>1, <4>1
      <4>3. Y[j].left = X[j].left - 1 /\ Y[j] # Free
        BY <1>1, <1>3, <3>1, <4>2
      <4> QED BY <4>2, <4>3 DEF Live
    <3>2. KeptOut(Y, k) /\ RetryAfter(Y, k) = RetryAfter(X, k) - 1
      BY <1>1, <1>5, <3>1, SameKept
    <3> QED BY <2>1, <2>4, <3>2 DEF RefusalGoesOn, Y, d
  <2> QED BY <2>3, <2>4
<1> QED BY <1>4, <1>5

\* Who is refused: whose counter is spent, and who is kept out.
LEMMA PeerRefusedIff ==
  ASSUME NEW X \in Budgets(Peer, IpMax + 1), NEW k \in Peer
  PROVE  PeerRefused(X, k) <=> (Live(X, k) /\ X[k].total >= IpMax) \/ KeptOut(X, k)
<1> DEFINE Y == Counted(X, k)
           Z == PeerCount(X, k)
           most == IpMax + 1
<1>1. most \in Nat /\ IsFiniteSet(Peer) /\ IpMax \in Nat \ {0} /\ X \in Budgets(Peer, most)
  BY LimitFacts
<1>2. Z = IF Live(Y, k) THEN [Y EXCEPT ![k] = PeerNext(Y[k])] ELSE Y
  BY PeerCountIs
<1> HIDE DEF Z
<1>3. /\ Y \in Budgets(Peer, most) /\ (Live(X, k) => Y = X)
      /\ ~ Live(X, k) => IF Full(MakeRoom(X, k)) THEN ~ Live(Y, k)
                         ELSE Live(Y, k) /\ Y[k] = NewCounter
  BY <1>1, CountedFacts
<1>4. ~ Live(X, k) => (Full(MakeRoom(X, k)) <=> KeptOut(X, k))
  BY <1>1, FullMeans
<1>5. KeptOut(X, k) => ~ Live(X, k)
  BY DEF KeptOut, Live
<1> HIDE DEF Y
<1>6. CASE ~ Live(Y, k)
  <2>1. ~ PeerAdmits(Z, k)
    BY <1>2, <1>6 DEF PeerAdmits
  <2> QED BY <1>3, <1>4, <1>6, <2>1 DEF PeerRefused, Z
<1>7. CASE Live(Y, k)
  <2>1. /\ Y \in [Peer -> {Free} \cup Counter(most)] /\ Free \notin Counter(most)
        /\ Y[k] \in Counter(most) /\ Y[k].left > 0
    BY <1>1, <1>3, <1>7, CounterFacts DEF Budgets, Live
  <2> DEFINE c == PeerNext(Y[k])
  <2>2. /\ c \in Counter(most) /\ c.left = Y[k].left
        /\ c.total = IF Y[k].total < most THEN Y[k].total + 1 ELSE Y[k].total
    BY <2>1, PeerNextFacts DEF MovedOn
  <2>3. Z[k] = c /\ c # Free
    BY <1>2, <1>7, <2>1, <2>2
  <2> HIDE DEF c
  <2>4. PeerAdmits(Z, k) <=> c.total <= IpMax
    BY <2>1, <2>2, <2>3 DEF PeerAdmits, Live
  <2>5. Y[k].total \in 0 .. most
    BY <2>1 DEF Counter
  <2>6. PeerRefused(X, k) <=> Y[k].total >= IpMax
    BY <1>1, <2>2, <2>4, <2>5 DEF PeerRefused, Z
  <2>7. CASE Live(X, k)
    BY <1>3, <1>5, <2>6, <2>7
  <2>8. CASE ~ Live(X, k)
    BY <1>1, <1>3, <1>4, <1>7, <2>6, <2>8, NewCounterFacts
  <2> QED BY <2>7, <2>8
<1> QED BY <1>6, <1>7

LEMMA PrincipalRefusedIff ==
  ASSUME NEW X \in Budgets(Principal, PrincipalMax), NEW k \in Principal, NEW cost \in Cost
  PROVE  PrincipalRefused(X, k, cost) <=> (Live(X, k) /\ ~ Within(X[k], cost)) \/ KeptOut(X, k)
<1> DEFINE Y == Counted(X, k)
<1>1. PrincipalMax \in Nat /\ IsFiniteSet(Principal)
  BY LimitFacts
<1>2. /\ Live(X, k) => Y = X
      /\ ~ Live(X, k) => IF Full(MakeRoom(X, k)) THEN ~ Live(Y, k)
                         ELSE Live(Y, k) /\ Y[k] = NewCounter
  BY <1>1, CountedFacts
<1>3. ~ Live(X, k) => (Full(MakeRoom(X, k)) <=> KeptOut(X, k))
  BY <1>1, FullMeans
<1>4. KeptOut(X, k) => ~ Live(X, k)
  BY DEF KeptOut, Live
<1>5. Within(NewCounter, cost)
  BY LimitFacts, NewCounterFacts DEF Within
<1>6. PrincipalRefused(X, k, cost) <=> ~ (Live(Y, k) /\ Within(Y[k], cost))
  BY DEF PrincipalRefused, PrincipalAdmitted
<1> HIDE DEF Y
<1>7. CASE Live(X, k)
  BY <1>2, <1>4, <1>6, <1>7
<1>8. CASE ~ Live(X, k)
  BY <1>2, <1>3, <1>5, <1>6, <1>8
<1> QED BY <1>7, <1>8

LEMMA LoginRefusedIff ==
  ASSUME NEW X \in Budgets(Peer, LoginMax), NEW k \in Peer
  PROVE  LoginRefused(X, k) <=> (Live(X, k) /\ ~ (X[k].total < LoginMax)) \/ KeptOut(X, k)
<1> DEFINE Y == Counted(X, k)
<1>1. LoginMax \in Nat /\ IsFiniteSet(Peer)
  BY LimitFacts
<1>2. /\ Live(X, k) => Y = X
      /\ ~ Live(X, k) => IF Full(MakeRoom(X, k)) THEN ~ Live(Y, k)
                         ELSE Live(Y, k) /\ Y[k] = NewCounter
  BY <1>1, CountedFacts
<1>3. ~ Live(X, k) => (Full(MakeRoom(X, k)) <=> KeptOut(X, k))
  BY <1>1, FullMeans
<1>4. KeptOut(X, k) => ~ Live(X, k)
  BY DEF KeptOut, Live
<1>5. NewCounter.total < LoginMax
  BY LimitFacts, NewCounterFacts
<1>6. LoginRefused(X, k) <=> ~ (Live(Y, k) /\ Y[k].total < LoginMax)
  BY DEF LoginRefused, LoginAdmitted
<1> HIDE DEF Y
<1>7. CASE Live(X, k)
  BY <1>2, <1>4, <1>6, <1>7
<1>8. CASE ~ Live(X, k)
  BY <1>2, <1>3, <1>5, <1>6, <1>8
<1> QED BY <1>7, <1>8

\* What the three maps do in a step of so many ticks.
MapsGoOn(ticks) ==
  /\ \A k \in Peer : Live(peers, k) \/ KeptOut(peers, k) => RefusalGoesOn(ticks, peers, peers', k)
  /\ \A k \in Principal : Live(principals, k) \/ KeptOut(principals, k) =>
       RefusalGoesOn(ticks, principals, principals', k)
  /\ \A k \in Peer : Live(logins, k) \/ KeptOut(logins, k) => RefusalGoesOn(ticks, logins, logins', k)

LEMMA MapsToRefusals ==
  ASSUME BudgetsOK, BudgetsOK', NEW ticks \in {0, 1}, MapsGoOn(ticks)
  PROVE  RefusalsLast(ticks)
<1>1. /\ peers \in Budgets(Peer, IpMax + 1) /\ principals \in Budgets(Principal, PrincipalMax)
      /\ logins \in Budgets(Peer, LoginMax)
      /\ peers' \in Budgets(Peer, IpMax + 1) /\ principals' \in Budgets(Principal, PrincipalMax)
      /\ logins' \in Budgets(Peer, LoginMax)
      /\ IpMax + 1 \in Nat /\ PrincipalMax \in Nat /\ LoginMax \in Nat /\ IpMax \in Nat
  BY LimitFacts DEF BudgetsOK
<1>2. \A K, X, k : KeptOut(X, k) => ~ Live(X, k)
  BY DEF KeptOut, Live
<1>3. ASSUME NEW K, NEW most \in Nat, NEW X \in Budgets(K, most), NEW k \in K, Live(X, k)
      PROVE  X[k].total \in Nat /\ X[k].expensive \in Nat /\ X[k].mutations \in Nat
  <2>1. X[k] \in Counter(most)
    BY <1>3, CounterFacts DEF Budgets, Live
  <2> QED BY <2>1, LimitFacts DEF Counter
<1>4. ASSUME NEW k \in Peer
      PROVE  Lasts(ticks, PeerRefused(peers, k), RetryAfter(peers, k),
                   PeerRefused(peers', k), RetryAfter(peers', k))
  <2>1. /\ PeerRefused(peers, k) <=> (Live(peers, k) /\ peers[k].total >= IpMax) \/ KeptOut(peers, k)
        /\ PeerRefused(peers', k) <=>
             (Live(peers', k) /\ peers'[k].total >= IpMax) \/ KeptOut(peers', k)
    BY <1>1, PeerRefusedIff
  <2>2. Live(peers, k) \/ KeptOut(peers, k) => RefusalGoesOn(ticks, peers, peers', k)
    BY DEF MapsGoOn
  <2>3. /\ Live(peers, k) => peers[k].total \in Nat
        /\ Live(peers', k) => peers'[k].total \in Nat
    BY <1>1, <1>3
  <2> QED BY <1>1, <1>2, <2>1, <2>2, <2>3 DEF Lasts, RefusalGoesOn
<1>5. ASSUME NEW k \in Peer
      PROVE  Lasts(ticks, LoginRefused(logins, k), RetryAfter(logins, k),
                   LoginRefused(logins', k), RetryAfter(logins', k))
  <2>1. /\ LoginRefused(logins, k) <=>
             (Live(logins, k) /\ ~ (logins[k].total < LoginMax)) \/ KeptOut(logins, k)
        /\ LoginRefused(logins', k) <=>
             (Live(logins', k) /\ ~ (logins'[k].total < LoginMax)) \/ KeptOut(logins', k)
    BY <1>1, LoginRefusedIff
  <2>2. Live(logins, k) \/ KeptOut(logins, k) => RefusalGoesOn(ticks, logins, logins', k)
    BY DEF MapsGoOn
  <2>3. /\ Live(logins, k) => logins[k].total \in Nat
        /\ Live(logins', k) => logins'[k].total \in Nat
    BY <1>1, <1>3
  <2> QED BY <1>1, <1>2, <2>1, <2>2, <2>3 DEF Lasts, RefusalGoesOn
<1>6. ASSUME NEW k \in Principal, NEW cost \in Cost
      PROVE  Lasts(ticks, PrincipalRefused(principals, k, cost), RetryAfter(principals, k),
                   PrincipalRefused(principals', k, cost), RetryAfter(principals', k))
  <2>1. /\ PrincipalRefused(principals, k, cost) <=>
             (Live(principals, k) /\ ~ Within(principals[k], cost)) \/ KeptOut(principals, k)
        /\ PrincipalRefused(principals', k, cost) <=>
             (Live(principals', k) /\ ~ Within(principals'[k], cost)) \/ KeptOut(principals', k)
    BY <1>1, PrincipalRefusedIff
  <2>2. Live(principals, k) \/ KeptOut(principals, k) =>
          RefusalGoesOn(ticks, principals, principals', k)
    BY DEF MapsGoOn
  <2> DEFINE c == principals[k]
             d == principals'[k]
  <2>3. /\ Live(principals, k) =>
             c.total \in Nat /\ c.expensive \in Nat /\ c.mutations \in Nat
        /\ Live(principals', k) =>
             d.total \in Nat /\ d.expensive \in Nat /\ d.mutations \in Nat
    BY <1>1, <1>3
  <2>4. ASSUME Live(principals, k), Live(principals', k), ~ Within(c, cost),
               d.total >= c.total, d.expensive >= c.expensive, d.mutations >= c.mutations
        PROVE  ~ Within(d, cost)
    <3> HIDE DEF c, d
    <3> QED BY <2>3, <2>4, LimitFacts DEF Within
  <2> HIDE DEF c, d
  <2>5. Live(principals, k) \/ KeptOut(principals, k) =>
          IF ticks = RetryAfter(principals, k)
          THEN ~ Live(principals', k) /\ ~ KeptOut(principals', k)
          ELSE /\ RetryAfter(principals', k) = RetryAfter(principals, k) - ticks
               /\ IF Live(principals, k)
                  THEN /\ Live(principals', k) /\ d.total >= c.total
                       /\ d.expensive >= c.expensive /\ d.mutations >= c.mutations
                  ELSE KeptOut(principals', k)
    BY <2>2 DEF RefusalGoesOn, c, d
  <2>6. /\ PrincipalRefused(principals, k, cost) <=>
             (Live(principals, k) /\ ~ Within(c, cost)) \/ KeptOut(principals, k)
        /\ PrincipalRefused(principals', k, cost) <=>
             (Live(principals', k) /\ ~ Within(d, cost)) \/ KeptOut(principals', k)
    BY <2>1 DEF c, d
  <2> QED BY <1>2, <2>4, <2>5, <2>6 DEF Lasts
<1> QED BY <1>4, <1>5, <1>6 DEF RefusalsLast

LEMMA NextRefusals ==
  ASSUME BudgetsOK, [Next]_vars
  PROVE  /\ Tick => RefusalsLast(1)
         /\ ~ Tick /\ ~ Restart => RefusalsLast(0)
<1>1. /\ peers \in Budgets(Peer, IpMax + 1) /\ principals \in Budgets(Principal, PrincipalMax)
      /\ logins \in Budgets(Peer, LoginMax)
      /\ IpMax + 1 \in Nat /\ PrincipalMax \in Nat /\ LoginMax \in Nat
      /\ IsFiniteSet(Peer) /\ IsFiniteSet(Principal)
  BY LimitFacts DEF BudgetsOK
<1>2. BudgetsOK' /\ (BudgetsStep \/ Tick \/ Restart)
  BY NextBudgets
<1>3. ASSUME Tick PROVE RefusalsLast(1)
  <2>1. peers' = Aged(peers) /\ principals' = Aged(principals) /\ logins' = Aged(logins)
    BY <1>3 DEF Tick
  <2>2. MapsGoOn(1)
    BY <1>1, <2>1, TickGoesOn DEF MapsGoOn
  <2> QED BY <1>2, <2>2, MapsToRefusals
<1>4. ASSUME BudgetsStep PROVE RefusalsLast(0)
  <2>1. /\ MapStep(Peer, IpMax + 1, peers, peers')
        /\ MapStep(Principal, PrincipalMax, principals, principals')
        /\ MapStep(Peer, LoginMax, logins, logins')
    BY <1>4 DEF BudgetsStep
  <2>2. MapsGoOn(0)
    BY <1>1, <2>1, RequestGoesOn DEF MapsGoOn
  <2> QED BY <1>2, <2>2, MapsToRefusals
<1> QED BY <1>2, <1>3, <1>4

-----------------------------------------------------------------------------
(***************************************************************************)
(* The lockout: the map and the order of its keys.                         *)
(***************************************************************************)

Attempt == [count : 1 .. MaxAttempts, age : 0 .. AttemptWindow, block : 0 .. Block]

\* keys lists the entries of table, once each, and they are not too many.
Listed(table, keys) ==
  /\ table \in [Account -> {Free} \cup Attempt]
  /\ keys \in Seq(Account) /\ Distinct(keys) /\ Len(keys) <= TrackedAttempts
  /\ Elements(keys) = {a \in Account : table[a] # Free}

LEMMA AttemptFacts == Free \notin Attempt
<1>1. Attempt \subseteq [count : Nat, age : Nat, block : Nat]
  BY LimitFacts DEF Attempt
<1> QED BY <1>1, FreeAssumption

LEMMA NextAttemptType ==
  ASSUME NEW entry \in {Free} \cup Attempt
  PROVE  NextAttempt(entry) \in Attempt
<1> DEFINE failed == IF entry = Free THEN [count |-> 0, age |-> 0, block |-> 0] ELSE entry
           count == IF failed.count < MaxAttempts THEN failed.count + 1 ELSE failed.count
           block == IF failed.count + 1 >= MaxAttempts THEN Block ELSE failed.block
<1>1. MaxAttempts \in Nat \ {0} /\ AttemptWindow \in Nat \ {0} /\ Block \in Nat \ {0}
  BY LimitFacts
<1>2. failed \in [count : 0 .. MaxAttempts, age : 0 .. AttemptWindow, block : 0 .. Block]
  BY <1>1 DEF Attempt
<1>3. NextAttempt(entry) = [failed EXCEPT !.count = count, !.block = block]
  BY <1>2 DEF NextAttempt
<1> HIDE DEF failed
<1>4. count \in 1 .. MaxAttempts /\ block \in 0 .. Block
  BY <1>1, <1>2
<1> HIDE DEF count, block
<1> QED BY <1>2, <1>3, <1>4 DEF Attempt

LEMMA ListedLength ==
  ASSUME NEW table, NEW keys, Listed(table, keys)
  PROVE  /\ Len(keys) \in Nat /\ Len(keys) = Cardinality(Elements(keys))
         /\ IsFiniteSet(Elements(keys)) /\ Cardinality(Elements(keys)) \in Nat
<1>1. keys \in Seq(Account) /\ Distinct(keys)
  BY DEF Listed
<1>2. /\ IsFiniteSet(Elements(keys)) /\ Cardinality(Elements(keys)) \in Nat
      /\ Len(keys) = Cardinality(Elements(keys))
  BY <1>1, ListingLength
<1> QED BY <1>2

\* Entries that go leave the map and the listing together.
LEMMA ClearedListed ==
  ASSUME NEW table, NEW keys, Listed(table, keys), NEW gone
  PROVE  /\ Listed(Cleared(table, gone), Keeping(keys, gone))
         /\ \A a \in Account : Cleared(table, gone)[a] = IF a \in gone THEN Free ELSE table[a]
         /\ Elements(Keeping(keys, gone)) = Elements(keys) \ gone
         /\ Len(Keeping(keys, gone)) <= Len(keys)
<1> DEFINE left == Keeping(keys, gone)
           cleared == Cleared(table, gone)
<1>1. /\ table \in [Account -> {Free} \cup Attempt]
      /\ keys \in Seq(Account) /\ Distinct(keys) /\ Len(keys) <= TrackedAttempts
      /\ Elements(keys) = {a \in Account : table[a] # Free}
  BY DEF Listed
<1>2. left \in Seq(Account) /\ Elements(left) = Elements(keys) \ gone /\ Distinct(left)
  BY <1>1, KeepingFacts
<1>3. /\ cleared \in [Account -> {Free} \cup Attempt]
      /\ \A a \in Account : cleared[a] = IF a \in gone THEN Free ELSE table[a]
  BY <1>1 DEF Cleared
<1> HIDE DEF left, cleared
<1>4. Elements(left) = {a \in Account : cleared[a] # Free}
  BY <1>1, <1>2, <1>3
<1>5. /\ Len(keys) \in Nat /\ Len(keys) = Cardinality(Elements(keys))
      /\ IsFiniteSet(Elements(keys))
  BY ListedLength
<1>6. Len(left) = Cardinality(Elements(left)) /\ Len(left) \in Nat
  BY <1>2, ListingLength
<1>7. Cardinality(Elements(left)) <= Cardinality(Elements(keys))
  BY <1>2, <1>5, FS_Subset
<1>8. Len(left) <= Len(keys) /\ Len(left) <= TrackedAttempts
  BY <1>1, <1>5, <1>6, <1>7, LimitFacts
<1> QED BY <1>1, <1>2, <1>3, <1>4, <1>8 DEF Listed, left, cleared

\* A failure: whoever is pushed out makes room for an account that was not in
\* the full table.
LEMMA FailureListed ==
  ASSUME NEW table, NEW keys \in Seq(Account), Listed(table, keys), NEW account \in Account,
         RecordFailure(table, keys, account)
  PROVE  /\ Listed(attempts', order') /\ attempts'[account] # Free
         /\ \A a \in Account \ {account} :
              \/ attempts'[a] = table[a]
              \/ Len(keys) = TrackedAttempts /\ table[account] = Free /\ a = keys[1]
<1> DEFINE known == \E i \in DOMAIN keys : keys[i] = account
           gone == Evicted(keys, account)
           cleared == Cleared(table, gone)
           next == NextAttempt(table[account])
<1>1. /\ table \in [Account -> {Free} \cup Attempt]
      /\ keys \in Seq(Account) /\ Distinct(keys) /\ Len(keys) <= TrackedAttempts
      /\ Elements(keys) = {a \in Account : table[a] # Free}
  BY DEF Listed
<1>2. /\ Listed(cleared, Keeping(keys, gone))
      /\ \A a \in Account : cleared[a] = IF a \in gone THEN Free ELSE table[a]
      /\ Elements(Keeping(keys, gone)) = Elements(keys) \ gone
  <2> HIDE DEF gone
  <2> QED BY ClearedListed
<1>3. known <=> table[account] # Free
  BY <1>1 DEF Elements
<1>4. next \in Attempt /\ next # Free
  <2>1. table[account] \in {Free} \cup Attempt
    BY <1>1
  <2> QED BY <2>1, NextAttemptType, AttemptFacts
<1>5. /\ attempts' = [cleared EXCEPT ![account] = next]
      /\ order' = IF known THEN keys ELSE Append(Keeping(keys, gone), account)
  BY DEF RecordFailure
<1>6. cleared \in [Account -> {Free} \cup Attempt]
  BY <1>2 DEF Listed
<1>7. Len(keys) \in Nat /\ DOMAIN keys = 1 .. Len(keys) /\ TrackedAttempts \in Nat
  BY <1>1, LimitFacts
<1>8. CASE known
  <2>1. gone = {}
    BY <1>8 DEF Evicted
  <2> HIDE DEF known, gone, cleared, next
  <2>2. \A a \in Account : attempts'[a] = IF a = account THEN next ELSE table[a]
    BY <1>2, <1>5, <1>6, <2>1
  <2>3. attempts' \in [Account -> {Free} \cup Attempt]
    BY <1>4, <1>5, <1>6
  <2>4. order' = keys
    BY <1>5, <1>8
  <2> QED BY <1>1, <1>3, <1>4, <1>8, <2>2, <2>3, <2>4 DEF Listed
<1>9. CASE ~known
  <2>1. gone = {keys[i] : i \in {j \in DOMAIN keys : j <= Len(keys) + 1 - TrackedAttempts}}
    BY <1>9 DEF Evicted
  <2>2. (gone # {} => Len(keys) = TrackedAttempts) /\ gone \subseteq {keys[1]}
    <3>1. \A i \in DOMAIN keys : i <= Len(keys) + 1 - TrackedAttempts =>
            i = 1 /\ Len(keys) = TrackedAttempts
      <4> SUFFICES ASSUME NEW i \in DOMAIN keys, i <= Len(keys) + 1 - TrackedAttempts
                   PROVE  i = 1 /\ Len(keys) = TrackedAttempts
        OBVIOUS
      <4> DEFINE N == Len(keys)
                 T == TrackedAttempts
      <4>1. N \in Nat /\ T \in Nat /\ i \in Nat /\ i >= 1 /\ i <= N + 1 - T /\ N <= T
        BY <1>1, <1>7
      <4> HIDE DEF N, T
      <4>2. i = 1 /\ N = T
        BY <4>1
      <4> QED BY <4>2 DEF N, T
    <3> QED BY <2>1, <3>1
  <2>3. Len(keys) = TrackedAttempts => 1 \in DOMAIN keys /\ keys[1] \in gone
    BY <1>7, <2>1, LimitFacts
  <2> DEFINE left == Keeping(keys, gone)
  <2> HIDE DEF known, gone, cleared, next, left
  <2>4. /\ left \in Seq(Account) /\ Distinct(left) /\ Len(left) <= TrackedAttempts
        /\ Elements(left) = Elements(keys) \ gone
        /\ Elements(left) = {a \in Account : cleared[a] # Free}
        /\ Len(left) \in Nat /\ Len(left) = Cardinality(Elements(left))
    <3>1. Listed(cleared, left)
      BY <1>2 DEF left
    <3>2. Len(left) \in Nat /\ Len(left) = Cardinality(Elements(left))
      BY <3>1, ListedLength
    <3> QED BY <1>2, <3>1, <3>2 DEF Listed, left
  <2>5. Len(left) < TrackedAttempts
    <3>1. CASE Len(keys) < TrackedAttempts
      <4>1. gone = {}
        <5> DEFINE N == Len(keys)
        <5>1. N \in Nat /\ TrackedAttempts \in Nat /\ N < TrackedAttempts
          BY <1>7, <3>1
        <5> HIDE DEF N
        <5>2. N # TrackedAttempts
          BY <5>1
        <5> QED BY <2>2, <5>2 DEF N
      <4>2. Elements(left) = Elements(keys)
        BY <2>4, <4>1
      <4>3. Len(keys) = Cardinality(Elements(keys))
        BY ListedLength
      <4> QED BY <2>4, <3>1, <4>2, <4>3
    <3>2. CASE Len(keys) = TrackedAttempts
      <4>1. keys[1] \in Elements(keys) /\ keys[1] \notin Elements(left)
        BY <2>3, <2>4, <3>2 DEF Elements
      <4>2. IsFiniteSet(Elements(keys)) /\ Len(keys) = Cardinality(Elements(keys))
        BY ListedLength
      <4>3. Elements(left) \subseteq Elements(keys) /\ Elements(left) # Elements(keys)
        BY <2>4, <4>1
      <4>4. /\ Cardinality(Elements(left)) <= Cardinality(Elements(keys))
            /\ Cardinality(Elements(keys)) # Cardinality(Elements(left))
        BY <4>2, <4>3, FS_Subset
      <4>5. Len(left) <= TrackedAttempts /\ Len(left) # TrackedAttempts
        BY <2>4, <3>2, <4>2, <4>4
      <4> QED BY <1>7, <2>4, <4>5
    <3>3. Len(keys) < TrackedAttempts \/ Len(keys) = TrackedAttempts
      <4> DEFINE N == Len(keys)
      <4>1. N \in Nat /\ TrackedAttempts \in Nat /\ N <= TrackedAttempts
        BY <1>1, <1>7
      <4> HIDE DEF N
      <4>2. N < TrackedAttempts \/ N = TrackedAttempts
        BY <4>1
      <4> QED BY <4>2 DEF N
    <3> QED BY <3>1, <3>2, <3>3
  <2>6. account \notin Elements(left)
    BY <1>1, <1>3, <1>9, <2>4
  <2>7. order' = Append(left, account)
    BY <1>5, <1>9 DEF left
  <2>8. /\ order' \in Seq(Account) /\ Len(order') = Len(left) + 1
        /\ Elements(order') = Elements(left) \cup {account} /\ Distinct(order')
    <3>1. left \in Seq(Account)
      BY <2>4
    <3>2. /\ Append(left, account) \in Seq(Account) /\ Len(Append(left, account)) = Len(left) + 1
          /\ Elements(Append(left, account)) = Elements(left) \cup {account}
          /\ Distinct(left) /\ account \notin Elements(left) => Distinct(Append(left, account))
      BY <3>1, AppendElements
    <3> QED BY <2>4, <2>6, <2>7, <3>2
  <2>9. Len(order') <= TrackedAttempts
    BY <2>4, <2>5, <2>8, LimitFacts
  <2>10. \A a \in Account : attempts'[a] = IF a = account THEN next ELSE cleared[a]
    BY <1>5, <1>6
  <2>11. attempts' \in [Account -> {Free} \cup Attempt]
    BY <1>4, <1>5, <1>6
  <2>12. Elements(order') = {a \in Account : attempts'[a] # Free}
    BY <1>4, <2>4, <2>8, <2>10
  <2>13. \A a \in Account \ {account} :
           \/ attempts'[a] = table[a]
           \/ Len(keys) = TrackedAttempts /\ table[account] = Free /\ a = keys[1]
    BY <1>2, <1>3, <1>9, <2>2, <2>10
  <2> QED BY <1>4, <2>8, <2>9, <2>10, <2>11, <2>12, <2>13 DEF Listed
<1> QED BY <1>8, <1>9

LockoutOK == Listed(attempts, order)

\* What a step may do to the blocked accounts.
BlockKept(a, ticks) ==
  \/ attempts'[a] # Free /\ attempts'[a].block = attempts[a].block - ticks
  \/ /\ Len(order) = TrackedAttempts /\ Stale(attempts) = {} /\ a = order[1]
     /\ \E b \in Account : attempts[b] = Free /\ attempts'[b] # Free

LockoutStep(ticks) ==
  LockoutOK' /\ \A a \in Account : Blocked(attempts, a) => BlockKept(a, ticks)

LEMMA BlockIsNumber == \A e \in Attempt : e.block - 0 = e.block
  BY LimitFacts DEF Attempt

LEMMA AuthenticateStep ==
  ASSUME LockoutOK, NEW account \in Account, NEW correct, Authenticate(account, correct)
  PROVE  LockoutStep(0)
<1> DEFINE stale == Stale(attempts)
           table == Cleared(attempts, stale)
           keys == Keeping(order, stale)
<1>0. /\ attempts \in [Account -> {Free} \cup Attempt] /\ order \in Seq(Account)
      /\ Len(order) <= TrackedAttempts /\ Elements(order) = {a \in Account : attempts[a] # Free}
  BY DEF LockoutOK, Listed
<1>1. \A a \in Account : Blocked(attempts, a) => attempts[a] # Free /\ a \notin stale
  BY DEF Blocked, Stale
<1>2. IF Blocked(table, account)
      THEN attempts' = table /\ order' = keys
      ELSE IF correct
      THEN attempts' = Cleared(table, {account}) /\ order' = Keeping(keys, {account})
      ELSE RecordFailure(table, keys, account)
  BY DEF Authenticate
<1> HIDE DEF stale
<1>3. /\ Listed(table, keys)
      /\ \A a \in Account : table[a] = IF a \in stale THEN Free ELSE attempts[a]
      /\ Elements(keys) = Elements(order) \ stale /\ Len(keys) <= Len(order)
  BY ClearedListed DEF LockoutOK
<1> HIDE DEF table, keys
<1>4. ASSUME NEW a \in Account, Blocked(attempts, a), attempts'[a] = table[a]
      PROVE  BlockKept(a, 0)
  BY <1>0, <1>1, <1>3, <1>4, BlockIsNumber DEF BlockKept
<1>5. CASE Blocked(table, account)
  BY <1>2, <1>3, <1>4, <1>5 DEF LockoutStep, LockoutOK
<1>6. ASSUME ~ Blocked(table, account), correct PROVE LockoutStep(0)
  <2>1. attempts' = Cleared(table, {account}) /\ order' = Keeping(keys, {account})
    BY <1>2, <1>6
  <2>2. /\ Listed(attempts', order')
        /\ \A a \in Account : attempts'[a] = IF a \in {account} THEN Free ELSE table[a]
    BY <1>3, <2>1, ClearedListed
  <2>3. \A a \in Account : Blocked(attempts, a) => a # account
    BY <1>1, <1>3, <1>6 DEF Blocked
  <2> QED BY <1>4, <2>2, <2>3 DEF LockoutStep, LockoutOK
<1>7. ASSUME ~ Blocked(table, account), ~ correct PROVE LockoutStep(0)
  <2>1. RecordFailure(table, keys, account)
    BY <1>2, <1>7
  <2>2. keys \in Seq(Account)
    BY <1>3 DEF Listed
  <2>3. /\ Listed(attempts', order') /\ attempts'[account] # Free
        /\ \A a \in Account \ {account} :
             \/ attempts'[a] = table[a]
             \/ Len(keys) = TrackedAttempts /\ table[account] = Free /\ a = keys[1]
    BY <1>3, <2>1, <2>2, FailureListed
  <2>4. ASSUME Len(keys) = TrackedAttempts, table[account] = Free
        PROVE  /\ Len(order) = TrackedAttempts /\ attempts[account] = Free
               /\ stale = {} /\ keys[1] = order[1]
    <3>1. /\ Len(order) = Cardinality(Elements(order)) /\ IsFiniteSet(Elements(order))
          /\ Len(order) \in Nat /\ Len(keys) = Cardinality(Elements(keys))
      BY <1>3, ListedLength DEF LockoutOK
    <3> DEFINE N == Len(order)
               T == TrackedAttempts
    <3>2. N \in Nat /\ T \in Nat /\ T <= N /\ N <= T
      BY <1>0, <1>3, <2>4, <3>1, LimitFacts
    <3> HIDE DEF N, T
    <3>3. N = T
      BY <3>2
    <3>4. Elements(keys) = Elements(order)
      <4>1. Cardinality(Elements(keys)) = Cardinality(Elements(order))
        BY <2>4, <3>1, <3>3 DEF N, T
      <4>2. Elements(keys) \subseteq Elements(order)
        BY <1>3
      <4> QED BY <3>1, <4>1, <4>2, FS_Subset
    <3>5. account \notin Elements(keys)
      BY <1>3, <2>4 DEF Listed
    <3>6. stale = {}
      BY <1>0, <1>3, <3>4 DEF stale, Stale
    <3>7. keys[1] = order[1]
      <4>1. Len(order) >= 1
        BY <3>2, <3>3, LimitFacts DEF N, T
      <4> QED BY <1>0, <3>6, <4>1, KeepingFirst DEF keys
    <3> QED BY <1>0, <3>3, <3>4, <3>5, <3>6, <3>7 DEF N, T
  <2>5. ASSUME NEW a \in Account, Blocked(attempts, a) PROVE BlockKept(a, 0)
    <3>1. a # account
      BY <1>1, <1>3, <1>7, <2>5 DEF Blocked
    <3>2. CASE attempts'[a] = table[a]
      BY <1>4, <2>5, <3>2
    <3>3. CASE Len(keys) = TrackedAttempts /\ table[account] = Free /\ a = keys[1]
      BY <2>3, <2>4, <3>3 DEF BlockKept, stale
    <3> QED BY <2>3, <3>1, <3>2, <3>3
  <2> QED BY <2>3, <2>5 DEF LockoutStep, LockoutOK
<1> QED BY <1>5, <1>6, <1>7

LEMMA SameLockout ==
  ASSUME LockoutOK, UNCHANGED lockout
  PROVE  LockoutStep(0)
<1>1. attempts' = attempts /\ order' = order
  BY DEF lockout
<1>2. attempts \in [Account -> {Free} \cup Attempt]
  BY DEF LockoutOK, Listed
<1> QED BY <1>1, <1>2, BlockIsNumber DEF LockoutStep, LockoutOK, BlockKept, Blocked

LEMMA TickLockout ==
  ASSUME LockoutOK, Tick
  PROVE  LockoutStep(1)
<1>1. /\ attempts \in [Account -> {Free} \cup Attempt]
      /\ Free \notin Attempt /\ order' = order
  BY AttemptFacts DEF LockoutOK, Listed, Tick
<1> DEFINE older(e) == [e EXCEPT !.age = IF @ < AttemptWindow THEN @ + 1 ELSE @, !.block = Less(@)]
<1>2. \A a \in Account : attempts'[a] = IF attempts[a] = Free THEN Free ELSE older(attempts[a])
  BY DEF Tick
<1>3. \A e \in Attempt : older(e) \in Attempt /\ (e.block > 0 => older(e).block = e.block - 1)
  <2> SUFFICES ASSUME NEW e \in Attempt
               PROVE  older(e) \in Attempt /\ (e.block > 0 => older(e).block = e.block - 1)
    OBVIOUS
  <2> DEFINE age == IF e.age < AttemptWindow THEN e.age + 1 ELSE e.age
             block == Less(e.block)
  <2>1. older(e) = [e EXCEPT !.age = age, !.block = block]
    BY DEF Attempt
  <2>2. age \in 0 .. AttemptWindow /\ block \in 0 .. Block /\ (e.block > 0 => block = e.block - 1)
    BY LimitFacts DEF Attempt, Less
  <2> HIDE DEF age, block, older
  <2> QED BY <2>1, <2>2 DEF Attempt
<1>4. attempts' = [a \in Account |-> attempts'[a]]
  BY DEF Tick
<1> HIDE DEF older
<1>5. /\ \A a \in Account : attempts'[a] \in {Free} \cup Attempt
      /\ \A a \in Account : attempts'[a] # Free <=> attempts[a] # Free
  BY <1>1, <1>2, <1>3
<1>6. attempts' \in [Account -> {Free} \cup Attempt]
  BY <1>4, <1>5
<1>7. LockoutOK'
  BY <1>1, <1>5, <1>6 DEF LockoutOK, Listed
<1>8. ASSUME NEW a \in Account, Blocked(attempts, a) PROVE BlockKept(a, 1)
  BY <1>1, <1>2, <1>3, <1>5, <1>8 DEF BlockKept, Blocked
<1> QED BY <1>7, <1>8 DEF LockoutStep

LEMMA EmptyLockout == Listed([a \in Account |-> Free], << >>)
<1>1. /\ << >> \in Seq(Account) /\ Len(<< >>) = 0 /\ 0 <= TrackedAttempts
      /\ Elements(<< >>) = {} /\ Distinct(<< >>)
  BY LimitFacts DEF Elements, Distinct
<1>2. [a \in Account |-> Free] \in [Account -> {Free} \cup Attempt]
  OBVIOUS
<1> QED BY <1>1, <1>2 DEF Listed

LEMMA NextLockout ==
  ASSUME LockoutOK, [Next]_vars
  PROVE  /\ LockoutOK'
         /\ Tick => LockoutStep(1)
         /\ ~ Tick /\ ~ Restart => LockoutStep(0)
<1>1. ASSUME NEW peer \in Peer, NEW principal \in Principal, NEW cost \in Cost,
             Request(peer, principal, cost)
      PROVE  LockoutStep(0)
  BY <1>1, SameLockout DEF Request
<1>2. ASSUME NEW peer \in Peer, NEW user \in User, NEW correct \in BOOLEAN,
             Login(peer, user, correct)
      PROVE  LockoutStep(0)
  <2>1. UNCHANGED lockout \/ Authenticate(<<peer, user>>, correct)
    BY <1>2 DEF Login
  <2>2. <<peer, user>> \in Account
    BY DEF Account
  <2>3. Authenticate(<<peer, user>>, correct) => LockoutStep(0)
    BY <2>2, AuthenticateStep
  <2> QED BY <2>1, <2>3, SameLockout
<1>3. ASSUME Restart PROVE LockoutOK'
  BY <1>3, EmptyLockout DEF Restart, LockoutOK
<1>4. ASSUME UNCHANGED vars PROVE LockoutStep(0)
  BY <1>4, SameLockout DEF vars
<1>5. LockoutStep(0) \/ LockoutStep(1) => LockoutOK'
  BY DEF LockoutStep
<1> QED BY <1>1, <1>2, <1>3, <1>4, <1>5, TickLockout DEF Next

-----------------------------------------------------------------------------
(***************************************************************************)
(* The theorems.                                                           *)
(***************************************************************************)

LimitsInv == BudgetsOK /\ LogOK /\ LockoutOK

\* Whatever the API is asked, and however often the process is restarted, the
\* maps of rate-limits.ts and of the login keep their sizes, a live counter has
\* counted exactly what was let through in its window, and the lockout lists its
\* entries once each.
THEOREM LimitsInvariant == Spec => []LimitsInv
<1>1. Init => LimitsInv
  <2> SUFFICES ASSUME Init PROVE LimitsInv
    OBVIOUS
  <2>1. IpMax + 1 \in Nat /\ PrincipalMax \in Nat /\ LoginMax \in Nat
    BY LimitFacts
  <2>2. BudgetsOK
    BY <2>1, NoBudget DEF Init, BudgetsOK
  <2>3. LockoutOK
    BY EmptyLockout DEF Init, LockoutOK
  <2>4. LogOK
    BY NothingLogged DEF Init, NothingPassed, LogOK
  <2> QED BY <2>2, <2>3, <2>4 DEF LimitsInv
<1>2. LimitsInv /\ [Next]_vars => LimitsInv'
  BY NextBudgets, NextLog, NextLockout DEF LimitsInv
<1> QED BY <1>1, <1>2, PTL DEF Spec

\* No counter exceeds its budget, no map its size, and the order of the
\* lockout lists exactly its entries.
THEOREM LimitsTypeCorrect == Spec => []TypeOK
<1>1. LimitsInv => TypeOK
  <2> SUFFICES ASSUME LimitsInv PROVE TypeOK
    OBVIOUS
  <2>1. /\ peers \in [Peer -> {Free} \cup Counter(IpMax + 1)]
        /\ principals \in [Principal -> {Free} \cup Counter(PrincipalMax)]
        /\ logins \in [Peer -> {Free} \cup Counter(LoginMax)]
        /\ Cardinality(Tracked(peers)) <= TrackedKeys
        /\ Cardinality(Tracked(principals)) <= TrackedKeys
        /\ Cardinality(Tracked(logins)) <= TrackedKeys
    BY DEF LimitsInv, BudgetsOK, Budgets
  <2>2. Listed(attempts, order)
    BY DEF LimitsInv, LockoutOK
  <2>3. Len(order) = Cardinality(Elements(order))
    BY <2>2, ListedLength
  <2>4. passed \in [peer : [Peer -> Tally], principal : [Principal -> Tally],
                   login : [Peer -> Tally]]
    BY LogHolds DEF LimitsInv
  <2> QED BY <2>1, <2>2, <2>3, <2>4 DEF TypeOK, Listed, Attempt, Elements
<1> QED BY <1>1, LimitsInvariant, PTL

\* Within one window no peer, login peer or principal is let through more often
\* than its limit says, whatever the limits, the sizes of the maps and the other
\* requests are (rate-limits.ts): the counters, which are compared with the
\* limits, agree with the history of what was let through.
THEOREM BudgetsAlwaysHold == Spec => []BudgetsHold
<1>1. LimitsInv => BudgetsHold
  BY LogHolds DEF LimitsInv
<1> QED BY <1>1, LimitsInvariant, PTL

\* While its window lasts a budget is neither dropped, nor started afresh, nor
\* prolonged: other keys, a full map and rejections leave it alone.
THEOREM BudgetsAlwaysStand == Spec => LiveBudgetsStand
<1>1. LimitsInv /\ [Next]_vars =>
        [~Restart => /\ BudgetStands(peers, peers')
                     /\ BudgetStands(principals, principals')
                     /\ BudgetStands(logins, logins')]_vars
  BY NextStands DEF LimitsInv
<1> QED BY <1>1, LimitsInvariant, PTL DEF Spec, LiveBudgetsStand

\* A refusal lasts exactly as long as its answer says (rate-limits.ts, "retry
\* after the indicated delay"): nothing but time shortens the delay, nothing at
\* all prolongs it, and at its end the request would be admitted.  The delay is
\* right because a full map holds only live windows, none of which can leave
\* before its end, and because a spent counter only counts on.
THEOREM RetryAfterAlwaysExact == Spec => RetryAfterIsExact
<1>1. LimitsInv /\ [Next]_vars =>
        [/\ Tick => RefusalsLast(1)
         /\ ~Tick /\ ~Restart => RefusalsLast(0)]_vars
  BY NextRefusals DEF LimitsInv
<1> QED BY <1>1, LimitsInvariant, PTL DEF Spec, RetryAfterIsExact

\* Nothing but time ends or shortens a block, and nothing prolongs it, but for the oldest
\* entry of a full table without a stale entry, which a new account pushes out
\* (app.ts, "oldestKey"): what the sweep takes away makes room first, and then
\* one entry is enough.
THEOREM BlocksAlwaysStand == Spec => BlocksStand
<1> DEFINE Stands(a) ==
      \/ /\ attempts'[a] # Free
         /\ attempts'[a].block = IF Tick THEN attempts[a].block - 1 ELSE attempts[a].block
      \/ /\ Len(order) = TrackedAttempts /\ Stale(attempts) = {} /\ a = order[1]
         /\ \E b \in Account : attempts[b] = Free /\ attempts'[b] # Free
<1>1. LimitsInv /\ [Next]_vars => [~Restart => \A a \in Account : Blocked(attempts, a) => Stands(a)]_vars
  <2> SUFFICES ASSUME LimitsInv, [Next]_vars, ~ Restart, NEW a \in Account, Blocked(attempts, a)
               PROVE  Stands(a)
    OBVIOUS
  <2>1. LockoutOK
    BY DEF LimitsInv
  <2>2. attempts[a] \in Attempt
    BY <2>1 DEF LockoutOK, Listed, Blocked
  <2>3. CASE Tick
    BY <2>1, <2>3, NextLockout DEF LockoutStep, BlockKept
  <2>4. CASE ~ Tick
    BY <2>1, <2>2, <2>4, NextLockout, BlockIsNumber DEF LockoutStep, BlockKept
  <2> QED BY <2>3, <2>4
<1> QED BY <1>1, LimitsInvariant, PTL DEF Spec, BlocksStand
===============================================================================
