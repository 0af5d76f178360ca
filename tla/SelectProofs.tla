---------------------------- MODULE SelectProofs ----------------------------
(***************************************************************************)
(* Proofs about Select, for every table and every query that the model     *)
(* admits.                                                                 *)
(***************************************************************************)
EXTENDS Select, FiniteSetTheorems, FunctionTheorems, SequenceTheorems,
        WellFoundedInduction, TLAPS

-----------------------------------------------------------------------------
(* Induction.  The theorems of the library that have a predicate as a      *)
(* parameter cannot be instantiated; a set takes its place.                *)

LEMMA LeastNumber ==
    ASSUME NEW T, T \subseteq Nat, T # {}
    PROVE  \E m \in T : \A k \in T : m <= k
<1>. DEFINE Below == {0 .. n : n \in T}
<1>1. Below \subseteq FiniteSubsetsOf(Nat) /\ Below # {}
  <2>1. \A n \in T : IsFiniteSet(0 .. n) /\ 0 .. n \in SUBSET Nat
    BY FS_Interval
  <2>. QED  BY <2>1 DEF FiniteSubsetsOf
<1>2. PICK X \in Below : \A Y \in Below : <<Y, X>> \notin StrictSubsetOrdering(Nat)
  <2>. HIDE DEF Below
  <2>. QED  BY <1>1, FS_StrictSubsetOrderingWellFounded, WFMin
<1>3. PICK m \in T : X = 0 .. m
  OBVIOUS
<1>4. ASSUME NEW k \in T, ~(m <= k) PROVE FALSE
  <2>1. 0 .. k \in Below /\ 0 .. k \subseteq X /\ 0 .. k # X
    BY <1>3, <1>4
  <2>2. 0 .. k \in SUBSET Nat /\ X \in SUBSET Nat
    BY <1>3
  <2>3. <<0 .. k, X>> \in StrictSubsetOrdering(Nat)
    BY <2>1, <2>2, Zenon DEF StrictSubsetOrdering
  <2>. HIDE DEF Below
  <2>. QED  BY <1>2, <2>1, <2>3
<1>. QED  BY <1>4

LEMMA SetInduction ==
    ASSUME NEW T, NEW a \in Nat, NEW b \in Nat, a \in T,
           \A n \in (a + 1) .. b : n - 1 \in T => n \in T
    PROVE  a .. b \subseteq T
<1>. DEFINE U == (a .. b) \ T
<1>. SUFFICES ASSUME U # {} PROVE FALSE
  OBVIOUS
<1>1. U \subseteq Nat
  OBVIOUS
<1>2. PICK m \in U : \A k \in U : m <= k
  <2>. HIDE DEF U
  <2>. QED  BY <1>1, LeastNumber
<1>3. m # a /\ m \in (a + 1) .. b /\ m - 1 \in T
  BY <1>2
<1>. QED  BY <1>2, <1>3

-----------------------------------------------------------------------------
(* Sequences. *)

LEMMA FunctionIsSeq ==
    ASSUME NEW S, NEW n \in Nat, NEW f \in [1 .. n -> S]
    PROVE  f \in Seq(S) /\ Len(f) = n /\ DOMAIN f = 1 .. n
OBVIOUS

-----------------------------------------------------------------------------
(* Turns.  "ahead" says what is ahead of each element of a finite set.     *)

Linear(ahead) ==
    /\ \A x \in DOMAIN ahead : x \notin ahead[x]
    /\ \A x, y \in DOMAIN ahead : x # y => x \in ahead[y] \/ y \in ahead[x]
    /\ \A x, y \in DOMAIN ahead : x \in ahead[y] => ahead[x] \subseteq ahead[y]

LEMMA LinearOrder ==
    ASSUME NEW K, NEW ahead \in [K -> SUBSET K],
           \A x \in K : x \notin ahead[x],
           \A x, y \in K : x # y => x \in ahead[y] \/ y \in ahead[x],
           \A x, y, z \in K : x \in ahead[y] /\ y \in ahead[z] => x \in ahead[z]
    PROVE  Linear(ahead)
<1>1. ASSUME NEW x \in K, NEW y \in K, x \in ahead[y]
      PROVE  ahead[x] \subseteq ahead[y]
  BY <1>1
<1>2. DOMAIN ahead = K
  OBVIOUS
<1>. QED  BY <1>1, <1>2 DEF Linear

(* How many are ahead of an element tells its place. *)
LEMMA RankFacts ==
    ASSUME NEW K, IsFiniteSet(K), NEW ahead \in [K -> SUBSET K], Linear(ahead)
    PROVE  /\ \A x \in K : Cardinality(ahead[x]) \in 0 .. (Cardinality(K) - 1)
           /\ \A x, y \in K : x \in ahead[y]
                 <=> Cardinality(ahead[x]) < Cardinality(ahead[y])
           /\ \A x, y \in K : Cardinality(ahead[x]) = Cardinality(ahead[y]) => x = y
           /\ \A n \in 1 .. Cardinality(K) :
                 \E x \in K : Cardinality(ahead[x]) = n - 1
<1>. DEFINE N == Cardinality(K)
            rank == [x \in K |-> Cardinality(ahead[x])]
<1>1. N \in Nat
  BY FS_CardinalityType
<1>2. \A x \in K : IsFiniteSet(ahead[x]) /\ Cardinality(ahead[x]) \in Nat
  BY FS_Subset, FS_CardinalityType
<1>3. \A x \in K : Cardinality(ahead[x]) < N
  <2>1. ASSUME NEW x \in K PROVE Cardinality(ahead[x]) < N
    <3>1. ahead[x] \in SUBSET K /\ ahead[x] # K
      BY DEF Linear
    <3>2. Cardinality(ahead[x]) <= N /\ Cardinality(ahead[x]) # N
      BY <3>1, FS_Subset
    <3>. QED  BY <1>1, <1>2, <3>2
  <2>. QED  BY <2>1
<1>4. ASSUME NEW x \in K, NEW y \in K, x \in ahead[y]
      PROVE  Cardinality(ahead[x]) < Cardinality(ahead[y])
  <2>1. ahead[x] \in SUBSET ahead[y] /\ ahead[x] # ahead[y]
    BY <1>4 DEF Linear
  <2>2. /\ Cardinality(ahead[x]) <= Cardinality(ahead[y])
        /\ Cardinality(ahead[x]) # Cardinality(ahead[y])
    BY <1>2, <2>1, FS_Subset
  <2>. QED  BY <1>2, <2>2
<1>5. ASSUME NEW x \in K, NEW y \in K
      PROVE  x \in ahead[y] <=> Cardinality(ahead[x]) < Cardinality(ahead[y])
  <2>1. CASE x = y
    BY <1>2, <2>1 DEF Linear
  <2>2. CASE x # y
    <3>1. x \in ahead[y] \/ y \in ahead[x]
      BY <2>2 DEF Linear
    <3>. QED  BY <1>2, <1>4, <3>1
  <2>. QED  BY <2>1, <2>2
<1>6. ASSUME NEW x \in K, NEW y \in K,
             Cardinality(ahead[x]) = Cardinality(ahead[y])
      PROVE  x = y
  BY <1>2, <1>4, <1>6 DEF Linear
<1>7. rank \in Injection(K, 0 .. (N - 1))
  BY <1>1, <1>2, <1>3, <1>6 DEF Injection, IsInjective
<1>8. IsFiniteSet(0 .. (N - 1)) /\ Cardinality(0 .. (N - 1)) = N
  BY <1>1, FS_Interval
<1>9. rank \in Surjection(K, 0 .. (N - 1))
  <2>. HIDE DEF rank, N
  <2>. QED  BY <1>7, <1>8, FS_Injection DEF N
<1>10. \A n \in 1 .. N : \E x \in K : Cardinality(ahead[x]) = n - 1
  <2>1. \A t \in 0 .. (N - 1) : \E x \in K : rank[x] = t
    BY <1>9, Zenon DEF Surjection
  <2>2. \A x \in K : rank[x] = Cardinality(ahead[x])
    OBVIOUS
  <2>. HIDE DEF rank
  <2>3. \A n \in 1 .. N : n - 1 \in 0 .. (N - 1)
    BY <1>1
  <2>. HIDE DEF N
  <2>. QED  BY <2>1, <2>2, <2>3
<1>. QED  BY <1>1, <1>2, <1>3, <1>5, <1>6, <1>10

(* Everyone has one turn, after all who are ahead. *)
LEMMA TurnFacts ==
    ASSUME NEW K, IsFiniteSet(K), NEW ahead \in [K -> SUBSET K], Linear(ahead)
    PROVE  /\ Cardinality(K) \in Nat
           /\ InTurn(ahead) \in [1 .. Cardinality(K) -> K]
           /\ \A n \in 1 .. Cardinality(K) :
                 Cardinality(ahead[InTurn(ahead)[n]]) = n - 1
           /\ \A m, n \in 1 .. Cardinality(K) :
                 InTurn(ahead)[m] \in ahead[InTurn(ahead)[n]] <=> m < n
           /\ \A m, n \in 1 .. Cardinality(K) :
                 InTurn(ahead)[m] = InTurn(ahead)[n] => m = n
           /\ \A x \in K : \E n \in 1 .. Cardinality(K) : InTurn(ahead)[n] = x
<1>. DEFINE N == Cardinality(K)
            turn == InTurn(ahead)
<1>1. N \in Nat
  BY FS_CardinalityType
<1>2. turn = [n \in 1 .. N |-> CHOOSE x \in K : Cardinality(ahead[x]) = n - 1]
  BY DEF InTurn
<1>3. /\ \A n \in 1 .. N : \E x \in K : Cardinality(ahead[x]) = n - 1
      /\ \A x, y \in K : x \in ahead[y]
            <=> Cardinality(ahead[x]) < Cardinality(ahead[y])
      /\ \A x, y \in K : Cardinality(ahead[x]) = Cardinality(ahead[y]) => x = y
      /\ \A x \in K : Cardinality(ahead[x]) \in 0 .. (N - 1)
  BY RankFacts
<1>. HIDE DEF turn, N
<1>4. \A n \in 1 .. N : turn[n] \in K /\ Cardinality(ahead[turn[n]]) = n - 1
  BY <1>2, <1>3
<1>5. turn \in [1 .. N -> K]
  BY <1>2, <1>4
<1>6. \A m, n \in 1 .. N : turn[m] \in ahead[turn[n]] <=> m < n
  BY <1>1, <1>3, <1>4
<1>7. \A m, n \in 1 .. N : turn[m] = turn[n] => m = n
  BY <1>1, <1>4
<1>8. \A x \in K : \E n \in 1 .. N : turn[n] = x
  <2>1. ASSUME NEW x \in K PROVE \E n \in 1 .. N : turn[n] = x
    <3>. DEFINE n == Cardinality(ahead[x]) + 1
    <3>1. n \in 1 .. N /\ n - 1 = Cardinality(ahead[x])
      BY <1>1, <1>3
    <3>2. turn[n] = x
      BY <1>3, <1>4, <3>1
    <3>. QED  BY <3>1, <3>2
  <2>. QED  BY <2>1
<1>. QED  BY <1>1, <1>4, <1>5, <1>6, <1>7, <1>8 DEF turn, N

LEMMA TurnsOfPlaces ==
    ASSUME NEW N \in Nat, NEW ahead \in [1 .. N -> SUBSET (1 .. N)], Linear(ahead)
    PROVE  /\ InTurn(ahead) \in [1 .. N -> 1 .. N]
           /\ \A m, n \in 1 .. N : InTurn(ahead)[m] \in ahead[InTurn(ahead)[n]] <=> m < n
           /\ \A m, n \in 1 .. N : InTurn(ahead)[m] = InTurn(ahead)[n] => m = n
<1>1. PICK K : K = 1 .. N
  OBVIOUS
<1>2. IsFiniteSet(K) /\ Cardinality(K) = N
  BY <1>1, FS_Interval
<1>3. ahead \in [K -> SUBSET K]
  BY <1>1
<1>. DEFINE C == Cardinality(K)
<1>4. /\ InTurn(ahead) \in [1 .. C -> K]
      /\ \A m, n \in 1 .. C : InTurn(ahead)[m] \in ahead[InTurn(ahead)[n]] <=> m < n
      /\ \A m, n \in 1 .. C : InTurn(ahead)[m] = InTurn(ahead)[n] => m = n
  BY <1>2, <1>3, TurnFacts
<1>5. C = N
  BY <1>2
<1>. HIDE DEF C
<1>. QED  BY <1>1, <1>4, <1>5

(* Whoever goes in an order that respects "ahead" goes in turn. *)
LEMMA TurnIsUnique ==
    ASSUME NEW K, IsFiniteSet(K), NEW ahead \in [K -> SUBSET K], Linear(ahead),
           NEW r \in [1 .. Cardinality(K) -> K],
           \A m, n \in 1 .. Cardinality(K) : m < n => r[m] \in ahead[r[n]]
    PROVE  r = InTurn(ahead)
<1>. DEFINE N == Cardinality(K)
            turn == InTurn(ahead)
<1>1. /\ N \in Nat
      /\ turn \in [1 .. N -> K]
      /\ \A n \in 1 .. N : Cardinality(ahead[turn[n]]) = n - 1
      /\ \A x, y \in K : Cardinality(ahead[x]) = Cardinality(ahead[y]) => x = y
  BY TurnFacts, RankFacts
<1>2. r \in [1 .. N -> K]
  OBVIOUS
<1>3. \A m, n \in 1 .. N : m < n => r[m] \in ahead[r[n]]
  OBVIOUS
<1>4. ASSUME NEW m \in 1 .. N, NEW n \in 1 .. N, r[m] = r[n]
      PROVE  m = n
  <2>. HIDE DEF N
  <2>1. ~(m < n) /\ ~(n < m)
    BY <1>2, <1>3, <1>4 DEF Linear
  <2>. QED  BY <1>1, <2>1
<1>5. r \in Injection(1 .. N, K)
  <2>. HIDE DEF N
  <2>. QED  BY <1>2, <1>4 DEF Injection, IsInjective
<1>6. r \in Surjection(1 .. N, K)
  <2>1. Cardinality(1 .. N) = N
    BY <1>1, FS_Interval
  <2>. QED  BY <1>5, <2>1, FS_Injection
<1>7. ASSUME NEW n \in 1 .. N
      PROVE  Cardinality(ahead[r[n]]) = n - 1
  <2>. DEFINE before == [m \in 1 .. (n - 1) |-> r[m]]
  <2>. HIDE DEF N
  <2>1. before \in [1 .. (n - 1) -> ahead[r[n]]]
    BY <1>1, <1>3
  <2>2. \A a, b \in 1 .. (n - 1) : before[a] = before[b] => a = b
    BY <1>1, <1>4
  <2>3. ASSUME NEW x \in ahead[r[n]]
        PROVE  \E m \in 1 .. (n - 1) : before[m] = x
    <3>1. x \in K
      BY <1>2
    <3>2. PICK k \in 1 .. N : r[k] = x
      BY <1>6, <3>1, Zenon DEF Surjection
    <3>3. k # n
      BY <1>2, <3>2 DEF Linear
    <3>4. ~(n < k)
      <4>1. ASSUME n < k PROVE FALSE
        <5>1. r[n] \in ahead[r[k]] /\ ahead[r[k]] \subseteq ahead[r[n]]
          BY <1>2, <1>3, <3>2, <4>1 DEF Linear
        <5>. QED  BY <1>2, <5>1 DEF Linear
      <4>. QED  BY <4>1
    <3>5. k \in 1 .. (n - 1)
      BY <1>1, <3>3, <3>4
    <3>. QED  BY <3>2, <3>5
  <2>4. before \in Bijection(1 .. (n - 1), ahead[r[n]])
    <3>. HIDE DEF before
    <3>. QED  BY <2>1, <2>2, <2>3 DEF Bijection, Injection, IsInjective, Surjection
  <2>5. n - 1 \in Nat
    BY <1>1
  <2>6. ExistsBijection(1 .. (n - 1), ahead[r[n]])
    BY <2>4 DEF ExistsBijection
  <2>. QED  BY <2>5, <2>6, FS_CountingElements
<1>. HIDE DEF N, turn
<1>8. ASSUME NEW n \in 1 .. N
      PROVE  r[n] = turn[n]
  <2>1. r[n] \in K /\ turn[n] \in K
    BY <1>1, <1>2
  <2>2. Cardinality(ahead[r[n]]) = Cardinality(ahead[turn[n]])
    BY <1>1, <1>7
  <2>. QED  BY <1>1, <2>1, <2>2
<1>9. r = turn
  <2>1. r = [n \in 1 .. N |-> r[n]] /\ turn = [n \in 1 .. N |-> turn[n]]
    BY <1>1, <1>2
  <2>. QED  BY <1>8, <2>1
<1>. QED  BY <1>9 DEF turn

LEMMA OnlyTurn ==
    ASSUME NEW N \in Nat, NEW ahead \in [1 .. N -> SUBSET (1 .. N)], Linear(ahead),
           NEW p \in [1 .. N -> 1 .. N],
           \A m, n \in 1 .. N : m < n => p[m] \in ahead[p[n]]
    PROVE  p = InTurn(ahead)
<1>1. PICK K : K = 1 .. N
  OBVIOUS
<1>2. IsFiniteSet(K) /\ Cardinality(K) = N
  BY <1>1, FS_Interval
<1>3. PICK C : C = Cardinality(K)
  OBVIOUS
<1>4. /\ ahead \in [K -> SUBSET K]
      /\ p \in [1 .. C -> K]
      /\ \A m, n \in 1 .. C : m < n => p[m] \in ahead[p[n]]
  BY <1>1, <1>2, <1>3
<1>5. /\ p \in [1 .. Cardinality(K) -> K]
      /\ \A m, n \in 1 .. Cardinality(K) : m < n => p[m] \in ahead[p[n]]
  BY <1>3, <1>4
<1>. QED  BY <1>2, <1>4, <1>5, TurnIsUnique

(* Places of a sequence are in line from the first to the last. *)
Places(K) == [i \in K |-> {j \in K : j < i}]

LEMMA PlacesLinear ==
    ASSUME NEW n \in Nat, NEW K, K \subseteq 1 .. n
    PROVE  IsFiniteSet(K) /\ Places(K) \in [K -> SUBSET K] /\ Linear(Places(K))
<1>1. IsFiniteSet(K)
  <2>1. IsFiniteSet(1 .. n) /\ K \in SUBSET (1 .. n)
    BY FS_Interval
  <2>. QED  BY <2>1, FS_Subset
<1>2. \A x \in K : x \in Nat
  OBVIOUS
<1>3. Places(K) \in [K -> SUBSET K]
  BY DEF Places
<1>4. \A x \in K : \A y \in K : x \in Places(K)[y] <=> x < y
  BY DEF Places
<1>5. /\ \A x \in K : x \notin Places(K)[x]
      /\ \A x, y \in K : x # y => x \in Places(K)[y] \/ y \in Places(K)[x]
      /\ \A x, y, z \in K :
            x \in Places(K)[y] /\ y \in Places(K)[z] => x \in Places(K)[z]
  BY <1>2, <1>4
<1>6. Linear(Places(K))
  BY <1>3, <1>5, LinearOrder
<1>. QED  BY <1>1, <1>3, <1>6

(* What remains of a sequence is in the old order. *)
LEMMA KeptFacts ==
    ASSUME NEW S, NEW s \in Seq(S), NEW K, K \subseteq DOMAIN s
    PROVE  /\ IsFiniteSet(K) /\ Cardinality(K) \in Nat
           /\ Kept(s, K) \in Seq(S)
           /\ Len(Kept(s, K)) = Cardinality(K)
           /\ InTurn(Places(K)) \in [1 .. Cardinality(K) -> K]
           /\ \A n \in 1 .. Cardinality(K) : Kept(s, K)[n] = s[InTurn(Places(K))[n]]
           /\ \A m, n \in 1 .. Cardinality(K) :
                 InTurn(Places(K))[m] < InTurn(Places(K))[n] <=> m < n
           /\ \A x \in K : \E n \in 1 .. Cardinality(K) : InTurn(Places(K))[n] = x
<1>. DEFINE N == Cardinality(K)
            turn == InTurn(Places(K))
<1>1. Len(s) \in Nat /\ DOMAIN s = 1 .. Len(s)
  OBVIOUS
<1>2. IsFiniteSet(K) /\ Places(K) \in [K -> SUBSET K] /\ Linear(Places(K))
  BY <1>1, PlacesLinear
<1>3. /\ N \in Nat
      /\ turn \in [1 .. N -> K]
      /\ \A m, n \in 1 .. N : turn[m] \in Places(K)[turn[n]] <=> m < n
      /\ \A x \in K : \E n \in 1 .. N : turn[n] = x
  BY <1>2, TurnFacts
<1>4. Kept(s, K) = [n \in DOMAIN turn |-> s[turn[n]]]
  BY DEF Kept, Arranged, Places
<1>. HIDE DEF N, turn
<1>5. Kept(s, K) \in [1 .. N -> S]
  BY <1>1, <1>3, <1>4
<1>6. Kept(s, K) \in Seq(S) /\ Len(Kept(s, K)) = N
  BY <1>3, <1>5, SeqDef
<1>7. \A n \in 1 .. N : Kept(s, K)[n] = s[turn[n]]
  BY <1>3, <1>4
<1>8. \A m, n \in 1 .. N : turn[m] < turn[n] <=> m < n
  BY <1>3 DEF Places
<1>. QED  BY <1>2, <1>3, <1>6, <1>7, <1>8 DEF N, turn

-----------------------------------------------------------------------------
(* Duplicates. *)

Members(s) == {s[n] : n \in DOMAIN s}

(* A sequence and what remains of it have the same values, if every value  *)
(* has a place that remains.                                               *)
LEMMA KeptValues ==
    ASSUME NEW S, NEW s \in Seq(S), NEW K, K \subseteq DOMAIN s,
           \A n \in DOMAIN s : \E k \in K : s[k] = s[n]
    PROVE  Members(Kept(s, K)) = Members(s)
<1>. DEFINE t == Kept(s, K)
            turn == InTurn(Places(K))
            N == Cardinality(K)
<1>1. /\ N \in Nat
      /\ t \in Seq(S) /\ Len(t) = N
      /\ turn \in [1 .. N -> K]
      /\ \A n \in 1 .. N : t[n] = s[turn[n]]
      /\ \A x \in K : \E n \in 1 .. N : turn[n] = x
  <2>1. K \subseteq DOMAIN s
    OBVIOUS
  <2>. QED  BY ONLY <2>1, s \in Seq(S), KeptFacts DEF t, turn, N
<1>. HIDE DEF t, turn, N
<1>2. DOMAIN t = 1 .. N
  BY <1>1
<1>3. ASSUME NEW n \in DOMAIN t
      PROVE  t[n] \in Members(s)
  BY <1>1, <1>2 DEF Members
<1>4. ASSUME NEW n \in DOMAIN s
      PROVE  s[n] \in Members(t)
  <2>1. PICK k \in K : s[k] = s[n]
    OBVIOUS
  <2>2. PICK m \in 1 .. N : turn[m] = k
    BY <1>1
  <2>3. t[m] = s[n] /\ m \in DOMAIN t
    BY <1>1, <1>2, <2>1, <2>2
  <2>. QED  BY <2>3 DEF Members
<1>5. Members(t) = Members(s)
  BY <1>3, <1>4 DEF Members
<1>. QED  BY <1>5 DEF t

(* DISTINCT leaves each value once. *)
LEMMA FirstOnesFacts ==
    ASSUME NEW S, NEW s \in Seq(S)
    PROVE  /\ FirstOnes(s) \in Seq(S)
           /\ Members(FirstOnes(s)) = Members(s)
           /\ \A m, n \in DOMAIN FirstOnes(s) :
                 FirstOnes(s)[m] = FirstOnes(s)[n] => m = n
<1>. DEFINE K == {n \in DOMAIN s : \A i \in 1 .. (n - 1) : s[i] # s[n]}
            t == FirstOnes(s)
            turn == InTurn(Places(K))
            N == Cardinality(K)
<1>1. t = Kept(s, K) /\ K \subseteq DOMAIN s
  BY DEF FirstOnes
<1>2. ASSUME NEW n \in DOMAIN s
      PROVE  \E k \in K : s[k] = s[n]
  <2>. DEFINE Same == {i \in DOMAIN s : s[i] = s[n]}
  <2>1. Same \subseteq Nat /\ Same # {}
    OBVIOUS
  <2>2. PICK k \in Same : \A i \in Same : k <= i
    <3>. HIDE DEF Same
    <3>. QED  BY <2>1, LeastNumber
  <2>3. k \in K
    <3>1. ASSUME NEW i \in 1 .. (k - 1), s[i] = s[k]
          PROVE  FALSE
      <4>1. i \in Same /\ ~(k <= i)
        BY <3>1
      <4>. QED  BY <2>2, <4>1
    <3>. QED  BY <3>1
  <2>. QED  BY <2>3
<1>3. /\ N \in Nat
      /\ t \in Seq(S) /\ Len(t) = N
      /\ turn \in [1 .. N -> K]
      /\ \A n \in 1 .. N : t[n] = s[turn[n]]
      /\ \A m, n \in 1 .. N : turn[m] < turn[n] <=> m < n
  <2>. HIDE DEF K, t
  <2>. QED  BY <1>1, KeptFacts
<1>4. Members(t) = Members(s)
  <2>. HIDE DEF K, t
  <2>. QED  BY <1>1, <1>2, KeptValues
<1>5. \A i, k \in K : s[i] = s[k] => ~(i < k)
  OBVIOUS
<1>6. ASSUME NEW m \in DOMAIN t, NEW n \in DOMAIN t, t[m] = t[n]
      PROVE  m = n
  <2>. HIDE DEF K, t, N, turn
  <2>1. m \in 1 .. N /\ n \in 1 .. N
    BY <1>3
  <2>2. turn[m] \in K /\ turn[n] \in K /\ s[turn[m]] = s[turn[n]]
    BY <1>3, <1>6, <2>1
  <2>3. ~(turn[m] < turn[n]) /\ ~(turn[n] < turn[m])
    BY <1>5, <2>2
  <2>. QED  BY <1>3, <2>1, <2>3
<1>. QED  BY <1>3, <1>4, <1>6

(* UNION leaves every value, and no equal neighbours. *)
LEMMA WithoutRepeatsFacts ==
    ASSUME NEW S, NEW s \in Seq(S)
    PROVE  /\ WithoutRepeats(s) \in Seq(S)
           /\ Members(WithoutRepeats(s)) = Members(s)
           /\ \A n \in 2 .. Len(WithoutRepeats(s)) :
                 WithoutRepeats(s)[n - 1] # WithoutRepeats(s)[n]
<1>. DEFINE K == {n \in DOMAIN s : n > 1 => s[n - 1] # s[n]}
            t == WithoutRepeats(s)
            turn == InTurn(Places(K))
            N == Cardinality(K)
<1>1. t = Kept(s, K) /\ K \subseteq DOMAIN s
  BY DEF WithoutRepeats
<1>2. DOMAIN s = 1 .. Len(s) /\ Len(s) \in Nat
  OBVIOUS
<1>3. ASSUME NEW i \in DOMAIN s, NEW k \in DOMAIN s, i <= k,
             \A n \in (i + 1) .. k : n \notin K
      PROVE  s[k] = s[i]
  <2>. DEFINE T == {n \in i .. k : s[n] = s[i]}
  <2>1. i \in T
    BY <1>2, <1>3
  <2>2. ASSUME NEW n \in (i + 1) .. k, n - 1 \in T
        PROVE  n \in T
    <3>1. n \in DOMAIN s /\ n > 1 /\ n \notin K
      BY <1>2, <1>3
    <3>. QED  BY <1>2, <2>2, <3>1
  <2>3. i .. k \subseteq T
    <3>1. i \in Nat /\ k \in Nat
      BY <1>2
    <3>. HIDE DEF T
    <3>. QED  BY <2>1, <2>2, <3>1, SetInduction
  <2>. QED  BY <1>2, <1>3, <2>3
<1>4. ASSUME NEW n \in DOMAIN s
      PROVE  \E k \in K : s[k] = s[n]
  <2>. DEFINE T == {i \in 1 .. n : \E k \in K : s[k] = s[i]}
  <2>1. 1 \in T
    BY <1>2
  <2>2. ASSUME NEW i \in (1 + 1) .. n, i - 1 \in T
        PROVE  i \in T
    <3>1. i \in DOMAIN s /\ i - 1 \in DOMAIN s
      BY <1>2
    <3>2. CASE i \in K
      BY <3>2
    <3>3. CASE i \notin K
      BY <2>2, <3>1, <3>3
    <3>. QED  BY <3>2, <3>3
  <2>3. 1 .. n \subseteq T
    <3>1. 1 \in Nat /\ n \in Nat
      BY <1>2
    <3>. HIDE DEF T
    <3>. QED  BY <2>1, <2>2, <3>1, SetInduction
  <2>. QED  BY <1>2, <2>3
<1>5. /\ N \in Nat
      /\ t \in Seq(S) /\ Len(t) = N
      /\ turn \in [1 .. N -> K]
      /\ \A n \in 1 .. N : t[n] = s[turn[n]]
      /\ \A m, n \in 1 .. N : turn[m] < turn[n] <=> m < n
      /\ \A x \in K : \E n \in 1 .. N : turn[n] = x
  <2>. HIDE DEF K, t
  <2>. QED  BY <1>1, KeptFacts
<1>6. Members(t) = Members(s)
  <2>. HIDE DEF K, t
  <2>. QED  BY <1>1, <1>4, KeptValues
<1>7. \A i \in K : i \in DOMAIN s /\ (i > 1 => s[i - 1] # s[i])
  OBVIOUS
<1>8. ASSUME NEW n \in 2 .. N
      PROVE  t[n - 1] # t[n]
  <2>. DEFINE i == turn[n - 1]
              k == turn[n]
  <2>1. n - 1 \in 1 .. N /\ n \in 1 .. N
    BY <1>5
  <2>2. i \in K /\ k \in K /\ i < k
    BY <1>5, <2>1
  <2>3. ASSUME NEW x \in (i + 1) .. (k - 1), x \in K
        PROVE  FALSE
    <3>1. PICK m \in 1 .. N : turn[m] = x
      BY <1>5, <2>3
    <3>2. turn[n - 1] < turn[m] /\ turn[m] < turn[n]
      BY <1>2, <1>7, <2>2, <2>3, <3>1
    <3>3. n - 1 < m /\ m < n
      BY <1>5, <2>1, <3>2
    <3>. QED  BY <2>1, <3>3
  <2>. HIDE DEF K, t, N, turn, i, k
  <2>4. i \in DOMAIN s /\ k - 1 \in DOMAIN s /\ i <= k - 1 /\ k > 1
    BY <1>2, <1>7, <2>2
  <2>5. s[k - 1] = s[i]
    BY <1>3, <2>3, <2>4
  <2>6. s[k - 1] # s[k]
    BY <1>7, <2>2, <2>4
  <2>. QED  BY <1>5, <2>1, <2>5, <2>6 DEF i, k
<1>. QED  BY <1>5, <1>6, <1>8

-----------------------------------------------------------------------------
(* What is fixed while a query is executed, and which queries reach which  *)
(* stage.                                                                  *)

LeftRows == [LeftCols -> Value]
RightRows == [RightCols -> Value]

QueryFits ==
    /\ query \in Query
    /\ query.cols \subseteq SourceCols(query)
    /\ query.group \in SourceCols(query) \cup {NoGroup}
    /\ query.from = "union" => query.group = NoGroup
    /\ query.shape = "aggregates" => query.from = "table"
    /\ query.point => Len(first) <= 1
    /\ first \in Seq(LeftRows)
    /\ second \in Seq(RightRows)

Paged(q) ==
    q.from = "table" /\ q.shape = "columns" /\ ~Grouped(q) /\ ~Plain(q)

StageFits ==
    /\ stage \in {"idle", "start", "group", "sort", "sort_result", "page",
                  "distinct", "done"}
    /\ stage = "group" => Joins(query) /\ Grouped(query)
    /\ stage = "sort" =>
          \/ Joins(query) /\ ~Grouped(query)
          \/ Paged(query)
    /\ stage = "sort_result" =>
          \/ Joins(query)
          \/ query.from = "table" /\ query.shape = "expressions" /\ ~Grouped(query)
    /\ stage \in {"page", "distinct"} => Paged(query)

KeysFit ==
    /\ keys \in Seq(Key)
    /\ stage \notin {"sort", "sort_result"} => keys = <<>>
    /\ stage = "sort" => \A n \in DOMAIN keys : keys[n].col \in SourceCols(query)
    /\ stage = "sort_result" =>
          \A n \in DOMAIN keys : keys[n].col \in Named(query)

Frame == QueryFits /\ StageFits /\ KeysFit

LEMMA InResultFacts ==
    ASSUME NEW order \in Seq(Key), NEW cols
    PROVE  /\ InResult(order, cols) \in Seq(Key)
           /\ \A n \in DOMAIN InResult(order, cols) :
                 InResult(order, cols)[n].col \in cols
<1>. DEFINE K == {n \in DOMAIN order : order[n].col \in cols}
<1>1. K \subseteq DOMAIN order /\ \A k \in K : order[k].col \in cols
  OBVIOUS
<1>2. InResult(order, cols) = Kept(order, K)
  BY DEF InResult
<1>. HIDE DEF K
<1>3. /\ Cardinality(K) \in Nat
      /\ Kept(order, K) \in Seq(Key)
      /\ Len(Kept(order, K)) = Cardinality(K)
      /\ InTurn(Places(K)) \in [1 .. Cardinality(K) -> K]
      /\ \A n \in 1 .. Cardinality(K) :
            Kept(order, K)[n] = order[InTurn(Places(K))[n]]
  BY <1>1, KeptFacts
<1>. QED  BY <1>1, <1>2, <1>3

LEMMA NoQueryFits ==
    /\ NoQuery \in Query
    /\ NoQuery.cols = {} /\ NoQuery.group = NoGroup
    /\ NoQuery.from = "table" /\ NoQuery.shape = "columns" /\ ~NoQuery.point
    /\ <<>> \in Seq(LeftRows) /\ <<>> \in Seq(RightRows)
BY DEF NoQuery, Query

LEMMA FrameInit == Init => Frame
<1>. SUFFICES ASSUME Init PROVE Frame
  OBVIOUS
<1>1. QueryFits
  BY NoQueryFits DEF QueryFits, Init
<1>. QED  BY <1>1 DEF Frame, StageFits, KeysFit, Init

LEMMA FrameNext == Frame /\ [Next]_vars => Frame'
<1>. SUFFICES ASSUME Frame, [Next]_vars PROVE Frame'
  OBVIOUS
<1>. USE DEF Frame
<1>. DEFINE Fixed == query' = query /\ first' = first /\ second' = second
<1>1. Fixed => QueryFits'
  BY DEF QueryFits, SourceCols, Joins
<1>2. query.order \in Seq(Key) /\ query.cols \subseteq SourceCols(query)
  BY DEF QueryFits, Query
<1>3. ASSUME Over PROVE Frame'
  <2>1. QueryFits'
    BY <1>3, NoQueryFits DEF QueryFits, Over
  <2>. QED  BY <1>3, <2>1 DEF Over, StageFits, KeysFit
<1>4. CASE stage = "idle" /\ \E asked \in Asked : Ask(asked[1], asked[2], asked[3])
  <2>1. PICK asked \in Asked : Ask(asked[1], asked[2], asked[3])
    BY <1>4
  <2>2. QueryFits'
    BY <2>1, AskedAssumption DEF QueryFits, Ask, LeftRows, RightRows
  <2>. QED  BY <1>4, <2>1, <2>2 DEF Ask, StageFits, KeysFit
<1>5. CASE Union
  BY <1>1, <1>5 DEF Union, Goes, tables, StageFits, KeysFit
<1>6. CASE Join
  <2>1. Fixed /\ QueryFits'
    BY <1>1, <1>6 DEF Join, Goes, tables
  <2>2. StageFits'
    BY <1>6, <2>1 DEF Join, Goes, StageFits, Joins, Grouped
  <2>3. KeysFit'
    <3>1. SourceCols(query) = Columns
      BY <1>6 DEF Join, SourceCols
    <3>. QED  BY <1>2, <1>6, <2>1, <3>1, InResultFacts
           DEF Join, Goes, KeysFit, SourceCols, Joins
  <2>. QED  BY <2>1, <2>2, <2>3
<1>7. CASE AggregateAll
  BY <1>1, <1>7 DEF AggregateAll, Goes, tables, StageFits, KeysFit
<1>8. CASE GroupTable
  BY <1>1, <1>8 DEF GroupTable, Goes, tables, StageFits, KeysFit
<1>9. CASE GroupJoined
  <2>1. Fixed /\ QueryFits'
    BY <1>1, <1>9 DEF GroupJoined, Goes, tables
  <2>2. StageFits'
    BY <1>9, <2>1 DEF GroupJoined, Goes, StageFits, Joins, Grouped
  <2>3. KeysFit'
    BY <1>2, <1>9, <2>1, InResultFacts
    DEF GroupJoined, Goes, KeysFit, Named, Grouped
  <2>. QED  BY <2>1, <2>2, <2>3
<1>10. CASE SelectExpressions
  <2>1. Fixed /\ QueryFits'
    BY <1>1, <1>10 DEF SelectExpressions, Goes, tables
  <2>2. StageFits'
    BY <1>10, <2>1 DEF SelectExpressions, Goes, StageFits, Joins, Grouped
  <2>3. KeysFit'
    BY <1>2, <1>10, <2>1, InResultFacts
    DEF SelectExpressions, Goes, KeysFit, Named, Grouped
  <2>. QED  BY <2>1, <2>2, <2>3
<1>11. CASE SelectByKey \/ SelectPlain
  BY <1>1, <1>11 DEF SelectByKey, SelectPlain, Goes, tables, StageFits, KeysFit
<1>12. CASE SelectOrdered
  <2>1. Fixed /\ QueryFits'
    BY <1>1, <1>12 DEF SelectOrdered, Goes, tables
  <2>2. StageFits'
    BY <1>12, <2>1 DEF SelectOrdered, Goes, StageFits, Joins, Grouped, Paged, Plain
  <2>3. KeysFit'
    <3>1. SourceCols(query) = LeftCols
      BY <1>12 DEF SelectOrdered, SourceCols, Joins
    <3>. QED  BY <1>2, <1>12, <2>1, <3>1, InResultFacts
           DEF SelectOrdered, Goes, KeysFit, SourceCols, Joins
  <2>. QED  BY <2>1, <2>2, <2>3
<1>13. CASE SortPass
  <2>1. Fixed /\ QueryFits' /\ stage' = stage /\ Sorting
        /\ keys' = SubSeq(keys, 1, Len(keys) - 1)
    BY <1>1, <1>13 DEF SortPass, Goes, tables
  <2>2. StageFits'
    BY <2>1 DEF StageFits, Joins, Grouped, Paged, Plain
  <2>3. KeysFit'
    <3>1. keys \in Seq(Key) /\ Len(keys) - 1 \in 0 .. Len(keys)
      BY <2>1 DEF KeysFit, Sorting
    <3>2. /\ keys' \in Seq(Key)
          /\ \A n \in DOMAIN keys' : n \in DOMAIN keys /\ keys'[n] = keys[n]
      BY <2>1, <3>1
    <3>. QED  BY <2>1, <3>2 DEF KeysFit, Sorting, SourceCols, Joins, Named, Grouped
  <2>. QED  BY <2>1, <2>2, <2>3
<1>14. CASE SortPanic
  BY <1>3, <1>14 DEF SortPanic
<1>15. CASE Project
  <2>1. Fixed /\ QueryFits'
    BY <1>1, <1>15 DEF Project, Goes, tables
  <2>2. StageFits'
    BY <1>15, <2>1 DEF Project, Goes, StageFits, Joins, Grouped, Paged, Plain
  <2>3. KeysFit'
    <3>1. Joins(query) => Named(query) = query.cols
      BY <1>15 DEF Project, StageFits, Named, Paged, Joins
    <3>2. Named(query)' = Named(query)
      BY <2>1 DEF Named, Grouped
    <3>. QED  BY <1>2, <1>15, <2>1, <3>1, <3>2, InResultFacts
           DEF Project, Goes, KeysFit
  <2>. QED  BY <2>1, <2>2, <2>3
<1>16. CASE Page
  <2>1. Fixed /\ QueryFits' /\ keys' = keys /\ stage' \in {"distinct", "done"}
    BY <1>1, <1>16 DEF Page, Goes, tables
  <2>2. StageFits'
    BY <1>16, <2>1 DEF Page, Goes, StageFits, Joins, Grouped, Paged, Plain
  <2>3. keys = <<>>
    BY <1>16 DEF Page, KeysFit
  <2>. QED  BY <2>1, <2>2, <2>3 DEF KeysFit
<1>17. CASE Distinct
  BY <1>1, <1>17 DEF Distinct, Goes, tables, StageFits, KeysFit
<1>18. CASE Answer
  BY <1>3, <1>18 DEF Answer
<1>19. CASE UNCHANGED vars
  BY <1>1, <1>19 DEF vars, tables, StageFits, KeysFit, Joins, Grouped, Paged,
     Plain, SourceCols, Named
<1>. QED  BY <1>4, <1>5, <1>6, <1>7, <1>8, <1>9, <1>10, <1>11, <1>12, <1>13,
          <1>14, <1>15, <1>16, <1>17, <1>18, <1>19 DEF Next

LEMMA FrameHolds == Spec => []Frame
BY FrameInit, FrameNext, PTL DEF Spec

-----------------------------------------------------------------------------
(* UNION. *)

LEMMA StackedFacts ==
    ASSUME NEW s \in Seq(LeftRows), NEW r \in Seq(RightRows)
    PROVE  /\ Stacked(s, r) \in Seq([{LeftKey} -> Value])
           /\ Len(Stacked(s, r)) = Len(s) + Len(r)
<1>. DEFINE x == [n \in DOMAIN s |-> [col \in {LeftKey} |-> s[n][LeftKey]]]
            y == [n \in DOMAIN r |-> [col \in {LeftKey} |-> r[n][RightKey]]]
            Row == [{LeftKey} -> Value]
<1>1. DOMAIN s = 1 .. Len(s) /\ Len(s) \in Nat
      /\ DOMAIN r = 1 .. Len(r) /\ Len(r) \in Nat
  OBVIOUS
<1>2. \A n \in DOMAIN s : s[n][LeftKey] \in Value
  BY ColumnAssumption DEF LeftRows
<1>3. \A n \in DOMAIN r : r[n][RightKey] \in Value
  BY ColumnAssumption DEF RightRows
<1>4. x \in [1 .. Len(s) -> Row]
  BY <1>1, <1>2
<1>5. y \in [1 .. Len(r) -> Row]
  BY <1>1, <1>3
<1>6. Stacked(s, r) = x \o y
  BY DEF Stacked
<1>. HIDE DEF x, y, Row
<1>7. x \in Seq(Row) /\ Len(x) = Len(s) /\ y \in Seq(Row) /\ Len(y) = Len(r)
  BY <1>1, <1>4, <1>5, FunctionIsSeq
<1>8. x \o y \in Seq(Row) /\ Len(x \o y) = Len(s) + Len(r)
  BY <1>1, <1>7
<1>. QED  BY <1>6, <1>8 DEF Row

UnionInv ==
    stage = "done" /\ query.from = "union" =>
        rows = IF query.distinct THEN WithoutRepeats(Stacked(first, second))
               ELSE Stacked(first, second)

LEMMA UnionNext == Frame /\ UnionInv /\ [Next]_vars => UnionInv'
<1>. SUFFICES ASSUME Frame, UnionInv, [Next]_vars,
                     stage' = "done", query'.from = "union"
              PROVE  UnionInv'
  BY DEF UnionInv
<1>1. CASE Union
  BY <1>1 DEF Union, Goes, tables, UnionInv
<1>2. CASE UNCHANGED vars
  BY <1>2 DEF UnionInv, vars, tables
<1>3. ~Join /\ ~GroupJoined /\ ~SortPanic /\ ~Project /\ ~Answer
  BY DEF Join, GroupJoined, SortPanic, Project, Answer, Goes, Over
<1>4. ~AggregateAll /\ ~GroupTable /\ ~SelectExpressions /\ ~SelectByKey
      /\ ~SelectPlain /\ ~SelectOrdered
  BY DEF AggregateAll, GroupTable, SelectExpressions, SelectByKey, ByKey,
         SelectPlain, SelectOrdered, Goes, tables
<1>5. ~SortPass /\ ~Page /\ ~Distinct
  BY DEF SortPass, Sorting, Page, Distinct, Goes, tables, Frame, StageFits, Paged,
         Joins
<1>6. \A q, s, r : ~Ask(q, s, r)
  BY DEF Ask
<1>. QED  BY <1>1, <1>2, <1>3, <1>4, <1>5, <1>6 DEF Next

(* UNION ALL loses nothing; UNION loses no value and leaves no equal       *)
(* neighbours, though equal rows that are not neighbours remain            *)
(* (engine.rs select: the union of two selects and its dedup), for every   *)
(* two tables.                                                             *)
THEOREM UnionIsComplete == Spec => []UnionKeepsRows
<1>1. Init => UnionInv
  BY DEF Init, UnionInv
<1>2. Frame /\ UnionInv => UnionKeepsRows
  <2>. SUFFICES ASSUME Frame, UnionInv, stage = "done", query.from = "union"
                PROVE  UnionKeepsRows
    BY DEF UnionKeepsRows
  <2>. DEFINE both == Stacked(first, second)
  <2>1. both \in Seq([{LeftKey} -> Value]) /\ Len(both) = Len(first) + Len(second)
    BY StackedFacts DEF Frame, QueryFits
  <2>2. rows = IF query.distinct THEN WithoutRepeats(both) ELSE both
    BY DEF UnionInv
  <2>. HIDE DEF both
  <2>3. Members(rows) = Members(both)
        /\ (query.distinct => \A n \in 2 .. Len(rows) : rows[n - 1] # rows[n])
        /\ (~query.distinct => Len(rows) = Len(first) + Len(second))
    BY <2>1, <2>2, WithoutRepeatsFacts
  <2>. QED  BY <2>3 DEF UnionKeepsRows, Members, both
<1>. QED  BY <1>1, <1>2, FrameHolds, UnionNext, FrameInit, FrameNext, PTL DEF Spec

-----------------------------------------------------------------------------
(* Sorting. *)

(* A permutation of the places of a sequence of N rows. *)
Shuffle(p, N) ==
    /\ p \in [1 .. N -> 1 .. N]
    /\ \A m, n \in 1 .. N : p[m] = p[n] => m = n

LEMMA ShuffleIsOnto ==
    ASSUME NEW N \in Nat, NEW p, Shuffle(p, N)
    PROVE  \A k \in 1 .. N : \E n \in 1 .. N : p[n] = k
<1>1. p \in Injection(1 .. N, 1 .. N)
  BY DEF Shuffle, Injection, IsInjective
<1>2. IsFiniteSet(1 .. N)
  BY FS_Interval
<1>3. p \in Surjection(1 .. N, 1 .. N)
  BY <1>1, <1>2, FS_Injection
<1>. QED  BY <1>3, Zenon DEF Surjection

LEMMA ShuffleTwice ==
    ASSUME NEW N \in Nat, NEW p, NEW q, Shuffle(p, N), Shuffle(q, N)
    PROVE  Shuffle([n \in 1 .. N |-> p[q[n]]], N)
BY DEF Shuffle

(* The values of a column. *)
Cell(col) == IF col \in {"count", "sum"} THEN Int ELSE Value

Rows(cols) ==
    {x \in [cols -> Int \cup Value] : \A col \in cols : x[col] \in Cell(col)}

LEMMA ComesBeforeFacts ==
    ASSUME NEW col, NEW v \in Cell(col), NEW w \in Cell(col)
    PROVE  /\ ~ComesBefore(v, v)
           /\ ~(ComesBefore(v, w) /\ ComesBefore(w, v))
           /\ v = w \/ ComesBefore(v, w) \/ ComesBefore(w, v)
<1>1. CASE v \in Int /\ w \in Int
  BY <1>1 DEF ComesBefore
<1>2. CASE ~(v \in Int /\ w \in Int)
  <2>1. v \in Value /\ w \in Value
    BY <1>2 DEF Cell
  <2>2. /\ TextRank[v] \in Nat /\ TextRank[w] \in Nat
        /\ TextRank[v] = TextRank[w] => v = w
    BY <2>1, ValueAssumption
  <2>. QED  BY <1>2, <2>2 DEF ComesBefore
<1>. QED  BY <1>1, <1>2

LEMMA BeforeFacts ==
    ASSUME NEW key, NEW x, NEW y, x[key.col] \in Cell(key.col),
           y[key.col] \in Cell(key.col)
    PROVE  /\ ~Before(x, x, key)
           /\ ~(Before(x, y, key) /\ Before(y, x, key))
           /\ x[key.col] = y[key.col] \/ Before(x, y, key) \/ Before(y, x, key)
           /\ x[key.col] = y[key.col] => ~Before(x, y, key)
<1>1. /\ ~ComesBefore(x[key.col], x[key.col])
      /\ ~(ComesBefore(x[key.col], y[key.col]) /\ ComesBefore(y[key.col], x[key.col]))
      /\ \/ x[key.col] = y[key.col]
         \/ ComesBefore(x[key.col], y[key.col])
         \/ ComesBefore(y[key.col], x[key.col])
  BY ComesBeforeFacts
<1>. QED  BY <1>1 DEF Before

(* Only the column of the key matters. *)
LEMMA BeforeIsLocal ==
    ASSUME NEW key, NEW x, NEW y, NEW x1, NEW y1,
           x[key.col] = x1[key.col], y[key.col] = y1[key.col]
    PROVE  Before(x, y, key) <=> Before(x1, y1, key)
BY DEF Before

(* A pass leaves the rows in the order of the key, and rows with the same  *)
(* key in their old order.                                                 *)
LEMMA SortedByFacts ==
    ASSUME NEW N \in Nat, NEW s, DOMAIN s = 1 .. N, NEW key,
           \A n \in 1 .. N : s[n][key.col] \in Cell(key.col),
           Comparable(s, key)
    PROVE  \E q : /\ Shuffle(q, N)
                  /\ SortedBy(s, key) = [n \in 1 .. N |-> s[q[n]]]
                  /\ \A m, n \in 1 .. N : m < n =>
                        \/ Before(s[q[m]], s[q[n]], key)
                        \/ s[q[m]][key.col] = s[q[n]][key.col] /\ q[m] < q[n]
<1>. DEFINE K == 1 .. N
            col == key.col
            ahead == [i \in K |-> {j \in K : \/ Before(s[j], s[i], key)
                                             \/ ~Before(s[i], s[j], key) /\ j < i}]
            q == InTurn(ahead)
<1>2. ahead \in [K -> SUBSET K] /\ DOMAIN ahead = K
  OBVIOUS
<1>3. \A i, j \in K : /\ ~Before(s[i], s[i], key)
                      /\ ~(Before(s[i], s[j], key) /\ Before(s[j], s[i], key))
                      /\ s[i][col] = s[j][col] \/ Before(s[i], s[j], key)
                            \/ Before(s[j], s[i], key)
                      /\ s[i][col] = s[j][col] => ~Before(s[i], s[j], key)
  BY BeforeFacts
<1>4. \A i \in K : \A j \in K : j \in ahead[i] <=>
         \/ Before(s[j], s[i], key)
         \/ s[j][col] = s[i][col] /\ j < i
  BY <1>3
<1>5. \A i, j, k \in K :
         Before(s[i], s[j], key) /\ Before(s[j], s[k], key) => Before(s[i], s[k], key)
  BY DEF Comparable
<1>6. \A i, j, k \in K : s[i][col] = s[j][col] =>
         /\ Before(s[i], s[k], key) <=> Before(s[j], s[k], key)
         /\ Before(s[k], s[i], key) <=> Before(s[k], s[j], key)
  BY BeforeIsLocal
<1>7. SortedBy(s, key) = [n \in DOMAIN q |-> s[q[n]]]
  BY DEF SortedBy, Arranged
<1>. HIDE DEF ahead, q
<1>8. Linear(ahead)
  <2>1. \A x \in K : x \notin ahead[x]
    BY <1>3, <1>4
  <2>2. \A x, y \in K : x # y => x \in ahead[y] \/ y \in ahead[x]
    BY <1>3, <1>4
  <2>3. \A x, y, z \in K : x \in ahead[y] /\ y \in ahead[z] => x \in ahead[z]
    BY <1>4, <1>5, <1>6
  <2>. QED  BY <1>2, <2>1, <2>2, <2>3, LinearOrder
<1>9. /\ q \in [1 .. N -> K]
      /\ \A m, n \in 1 .. N : q[m] \in ahead[q[n]] <=> m < n
      /\ \A m, n \in 1 .. N : q[m] = q[n] => m = n
  BY <1>2, <1>8, TurnsOfPlaces DEF q
<1>10. Shuffle(q, N)
  BY <1>9 DEF Shuffle
<1>11. \A m, n \in 1 .. N : m < n =>
         \/ Before(s[q[m]], s[q[n]], key)
         \/ s[q[m]][col] = s[q[n]][col] /\ q[m] < q[n]
  BY <1>4, <1>9
<1>12. SortedBy(s, key) = [n \in 1 .. N |-> s[q[n]]]
  BY <1>7, <1>9
<1>. QED  BY <1>10, <1>11, <1>12

Outcomes(s, key) ==
    IF Comparable(s, key) THEN {SortedBy(s, key)} ELSE Permuted(s)

Reordered(s, q, N) == [n \in 1 .. N |-> s[q[n]]]

(* Any pass leaves a permutation of the rows. *)
LEMMA PassFacts ==
    ASSUME NEW N \in Nat, NEW s, DOMAIN s = 1 .. N, NEW key,
           \A n \in 1 .. N : s[n][key.col] \in Cell(key.col),
           NEW t \in Outcomes(s, key)
    PROVE  \E q : Shuffle(q, N) /\ t = Reordered(s, q, N)
<1>1. CASE Comparable(s, key)
  <2>1. t = SortedBy(s, key)
    BY <1>1 DEF Outcomes
  <2>. QED  BY <1>1, <2>1, SortedByFacts DEF Reordered
<1>2. CASE ~Comparable(s, key)
  <2>1. PICK p \in [1 .. N -> 1 .. N] :
           /\ \A m, n \in 1 .. N : p[m] = p[n] => m = n
           /\ t = [n \in 1 .. N |-> s[p[n]]]
    BY <1>2 DEF Permuted, Outcomes
  <2>. QED  BY <2>1 DEF Shuffle, Reordered
<1>. QED  BY <1>1, <1>2

(* The order by the keys that have been sorted by, all but the first L. *)
PrecedesFrom(x, y, order, L) ==
    \E n \in (L + 1) .. Len(order) :
        /\ Before(x, y, order[n])
        /\ \A m \in (L + 1) .. (n - 1) : x[order[m].col] = y[order[m].col]

SameFrom(x, y, order, L) ==
    \A m \in (L + 1) .. Len(order) : x[order[m].col] = y[order[m].col]

(* The rows of s, taken in the order p, are sorted so far. *)
SortedFrom(s, p, order, L) ==
    \A m, n \in DOMAIN s : m < n =>
        \/ PrecedesFrom(s[p[m]], s[p[n]], order, L)
        \/ SameFrom(s[p[m]], s[p[n]], order, L) /\ p[m] < p[n]

LEMMA NothingSorted ==
    ASSUME NEW s, NEW order \in Seq(Key), NEW N \in Nat, DOMAIN s = 1 .. N
    PROVE  /\ Shuffle([n \in 1 .. N |-> n], N)
           /\ SortedFrom(s, [n \in 1 .. N |-> n], order, Len(order))
BY DEF Shuffle, SortedFrom, SameFrom

(* A stable pass by one key more.  The rows that are sorted may be a       *)
(* projection t of those of s, as long as it has the key.                  *)
LEMMA StablePass ==
    ASSUME NEW N \in Nat, NEW s, DOMAIN s = 1 .. N,
           NEW order \in Seq(Key), NEW L \in 1 .. Len(order),
           NEW p, Shuffle(p, N), SortedFrom(s, p, order, L),
           NEW t, DOMAIN t = 1 .. N,
           \A n \in 1 .. N : /\ t[n][order[L].col] = s[p[n]][order[L].col]
                             /\ t[n][order[L].col] \in Cell(order[L].col),
           Comparable(s, order[L])
    PROVE  /\ Comparable(t, order[L])
           /\ \E q : /\ Shuffle(q, N)
                     /\ SortedBy(t, order[L]) = Reordered(t, q, N)
                     /\ SortedFrom(s, Reordered(p, q, N), order, L - 1)
<1>. DEFINE key == order[L]
<1>1. p \in [1 .. N -> 1 .. N]
  BY DEF Shuffle
<1>2. \A m, n \in 1 .. N : Before(t[m], t[n], key) <=> Before(s[p[m]], s[p[n]], key)
  BY BeforeIsLocal
<1>3. Comparable(t, key)
  BY <1>1, <1>2 DEF Comparable
<1>4. PICK q : /\ Shuffle(q, N)
               /\ SortedBy(t, key) = [n \in 1 .. N |-> t[q[n]]]
               /\ \A m, n \in 1 .. N : m < n =>
                     \/ Before(t[q[m]], t[q[n]], key)
                     \/ t[q[m]][key.col] = t[q[n]][key.col] /\ q[m] < q[n]
  BY <1>3, SortedByFacts
<1>5. q \in [1 .. N -> 1 .. N]
  BY <1>4 DEF Shuffle
<1>6. Len(order) \in Nat
  OBVIOUS
<1>7. ASSUME NEW m \in 1 .. N, NEW n \in 1 .. N, m < n
      PROVE  \/ PrecedesFrom(s[p[q[m]]], s[p[q[n]]], order, L - 1)
             \/ SameFrom(s[p[q[m]]], s[p[q[n]]], order, L - 1) /\ p[q[m]] < p[q[n]]
  <2>. DEFINE x == s[p[q[m]]]
              y == s[p[q[n]]]
  <2>1. q[m] \in 1 .. N /\ q[n] \in 1 .. N
    BY <1>5
  <2>2. CASE Before(t[q[m]], t[q[n]], key)
    <3>1. Before(x, y, key)
      BY <1>2, <2>1, <2>2
    <3>. QED  BY <1>6, <3>1 DEF PrecedesFrom
  <2>3. CASE t[q[m]][key.col] = t[q[n]][key.col] /\ q[m] < q[n]
    <3>1. x[key.col] = y[key.col]
      BY <2>1, <2>3
    <3>2. \/ PrecedesFrom(x, y, order, L)
          \/ SameFrom(x, y, order, L) /\ p[q[m]] < p[q[n]]
      BY <2>1, <2>3 DEF SortedFrom
    <3>3. CASE PrecedesFrom(x, y, order, L)
      <4>1. PICK k \in (L + 1) .. Len(order) :
               /\ Before(x, y, order[k])
               /\ \A i \in (L + 1) .. (k - 1) : x[order[i].col] = y[order[i].col]
        BY <3>3 DEF PrecedesFrom
      <4>2. \A i \in ((L - 1) + 1) .. (k - 1) : i = L \/ i \in (L + 1) .. (k - 1)
        OBVIOUS
      <4>3. \A i \in ((L - 1) + 1) .. (k - 1) : x[order[i].col] = y[order[i].col]
        BY <3>1, <4>1, <4>2
      <4>4. k \in ((L - 1) + 1) .. Len(order)
        OBVIOUS
      <4>5. PrecedesFrom(x, y, order, L - 1)
        <5>. HIDE DEF x, y
        <5>. QED  BY <4>1, <4>3, <4>4 DEF PrecedesFrom
      <4>. QED  BY <4>5
    <3>4. CASE SameFrom(x, y, order, L) /\ p[q[m]] < p[q[n]]
      <4>1. \A i \in ((L - 1) + 1) .. Len(order) : i = L \/ i \in (L + 1) .. Len(order)
        OBVIOUS
      <4>2. SameFrom(x, y, order, L - 1)
        <5>. HIDE DEF x, y
        <5>. QED  BY <3>1, <3>4, <4>1 DEF SameFrom
      <4>. QED  BY <3>4, <4>2
    <3>. QED  BY <3>2, <3>3, <3>4
  <2>. QED  BY <1>4, <1>7, <2>2, <2>3
<1>8. SortedFrom(s, [n \in 1 .. N |-> p[q[n]]], order, L - 1)
  BY <1>7 DEF SortedFrom
<1>. QED  BY <1>3, <1>4, <1>8 DEF Reordered

(* The lexicographic order, of rows with the columns of the keys. *)
LEMMA LexicographicFacts ==
    ASSUME NEW order \in Seq(Key), NEW x, NEW y,
           \A n \in DOMAIN order : /\ x[order[n].col] \in Cell(order[n].col)
                                   /\ y[order[n].col] \in Cell(order[n].col)
    PROVE  /\ ~(Precedes(x, y, order) /\ Precedes(y, x, order))
           /\ \/ Precedes(x, y, order)
              \/ Precedes(y, x, order)
              \/ SameFrom(x, y, order, 0)
           /\ SameFrom(x, y, order, 0) => ~Precedes(x, y, order)
<1>1. \A n \in DOMAIN order :
         LET key == order[n]
         IN  /\ ~(Before(x, y, key) /\ Before(y, x, key))
             /\ x[key.col] = y[key.col] \/ Before(x, y, key) \/ Before(y, x, key)
             /\ x[key.col] = y[key.col] => ~Before(x, y, key)
             /\ y[key.col] = x[key.col] => ~Before(y, x, key)
  BY BeforeFacts
<1>2. DOMAIN order = 1 .. Len(order) /\ Len(order) \in Nat
  OBVIOUS
<1>3. SameFrom(x, y, order, 0) <=>
         \A m \in DOMAIN order : x[order[m].col] = y[order[m].col]
  BY <1>2 DEF SameFrom
<1>4. SameFrom(x, y, order, 0) => ~Precedes(x, y, order)
  BY <1>1, <1>3 DEF Precedes
<1>5. ASSUME Precedes(x, y, order), Precedes(y, x, order) PROVE FALSE
  <2>1. PICK n \in DOMAIN order :
           /\ Before(x, y, order[n])
           /\ \A m \in 1 .. (n - 1) : x[order[m].col] = y[order[m].col]
    BY <1>5 DEF Precedes
  <2>2. PICK k \in DOMAIN order :
           /\ Before(y, x, order[k])
           /\ \A m \in 1 .. (k - 1) : y[order[m].col] = x[order[m].col]
    BY <1>5 DEF Precedes
  <2>3. n < k \/ n = k \/ k < n
    BY <1>2
  <2>4. CASE n < k
    <3>1. n \in 1 .. (k - 1)
      BY <1>2, <2>4
    <3>. QED  BY <1>1, <2>1, <2>2, <3>1
  <2>5. CASE k < n
    <3>1. k \in 1 .. (n - 1)
      BY <1>2, <2>5
    <3>. QED  BY <1>1, <2>1, <2>2, <3>1
  <2>. QED  BY <1>1, <2>1, <2>2, <2>3, <2>4, <2>5
<1>6. ASSUME ~SameFrom(x, y, order, 0)
      PROVE  Precedes(x, y, order) \/ Precedes(y, x, order)
  <2>. DEFINE Apart == {n \in DOMAIN order : x[order[n].col] # y[order[n].col]}
  <2>1. Apart \subseteq Nat /\ Apart # {}
    BY <1>2, <1>3, <1>6
  <2>2. PICK n \in Apart : \A k \in Apart : n <= k
    <3>. HIDE DEF Apart
    <3>. QED  BY <2>1, LeastNumber
  <2>3. ASSUME NEW m \in 1 .. (n - 1)
        PROVE  x[order[m].col] = y[order[m].col]
    BY <1>2, <2>2
  <2>. QED  BY <1>1, <2>2, <2>3 DEF Precedes
<1>. QED  BY <1>4, <1>5, <1>6

LEMMA LexicographicIsTransitive ==
    ASSUME NEW order \in Seq(Key), NEW s,
           \A n \in DOMAIN order : Comparable(s, order[n]),
           NEW i \in DOMAIN s, NEW j \in DOMAIN s, NEW k \in DOMAIN s,
           Precedes(s[i], s[j], order), Precedes(s[j], s[k], order)
    PROVE  Precedes(s[i], s[k], order)
<1>1. DOMAIN order = 1 .. Len(order) /\ Len(order) \in Nat
  OBVIOUS
<1>2. PICK m \in DOMAIN order :
         /\ Before(s[i], s[j], order[m])
         /\ \A h \in 1 .. (m - 1) : s[i][order[h].col] = s[j][order[h].col]
  BY DEF Precedes
<1>3. PICK n \in DOMAIN order :
         /\ Before(s[j], s[k], order[n])
         /\ \A h \in 1 .. (n - 1) : s[j][order[h].col] = s[k][order[h].col]
  BY DEF Precedes
<1>4. m < n \/ m = n \/ n < m
  BY <1>1
<1>5. CASE m < n
  <2>1. s[j][order[m].col] = s[k][order[m].col]
    BY <1>1, <1>3, <1>5
  <2>2. Before(s[i], s[k], order[m])
    BY <1>2, <2>1, BeforeIsLocal
  <2>3. \A h \in 1 .. (m - 1) : s[i][order[h].col] = s[k][order[h].col]
    BY <1>1, <1>2, <1>3, <1>5
  <2>. QED  BY <2>2, <2>3 DEF Precedes
<1>6. CASE n < m
  <2>1. s[i][order[n].col] = s[j][order[n].col]
    BY <1>1, <1>2, <1>6
  <2>2. Before(s[i], s[k], order[n])
    BY <1>3, <2>1, BeforeIsLocal
  <2>3. \A h \in 1 .. (n - 1) : s[i][order[h].col] = s[k][order[h].col]
    BY <1>1, <1>2, <1>3, <1>6
  <2>. QED  BY <2>2, <2>3 DEF Precedes
<1>7. CASE m = n
  <2>1. Before(s[i], s[k], order[m])
    BY <1>2, <1>3, <1>7 DEF Comparable
  <2>2. \A h \in 1 .. (m - 1) : s[i][order[h].col] = s[k][order[h].col]
    BY <1>2, <1>3, <1>7
  <2>. QED  BY <2>1, <2>2 DEF Precedes
<1>. QED  BY <1>4, <1>5, <1>6, <1>7

(* Sorted by all keys, the rows are in the lexicographic order. *)
LEMMA SortedByAll ==
    ASSUME NEW N \in Nat, NEW s, DOMAIN s = 1 .. N, NEW order \in Seq(Key),
           \A n \in DOMAIN order : Comparable(s, order[n]),
           \A i \in 1 .. N : \A n \in DOMAIN order :
               s[i][order[n].col] \in Cell(order[n].col),
           NEW p, Shuffle(p, N), SortedFrom(s, p, order, 0)
    PROVE  InOrder(s, order) = [n \in 1 .. N |-> s[p[n]]]
<1>. DEFINE K == 1 .. N
            ahead == [i \in K |->
                         {j \in K : \/ Precedes(s[j], s[i], order)
                                    \/ ~Precedes(s[i], s[j], order) /\ j < i}]
<1>1. DOMAIN order = 1 .. Len(order) /\ Len(order) \in Nat
  OBVIOUS
<1>2. InOrder(s, order) = [n \in DOMAIN InTurn(ahead) |-> s[InTurn(ahead)[n]]]
  BY DEF InOrder, Arranged
<1>3. ahead \in [K -> SUBSET K] /\ DOMAIN ahead = K
  OBVIOUS
<1>4. \A i, j \in K :
         /\ ~(Precedes(s[i], s[j], order) /\ Precedes(s[j], s[i], order))
         /\ \/ Precedes(s[i], s[j], order)
            \/ Precedes(s[j], s[i], order)
            \/ SameFrom(s[i], s[j], order, 0)
         /\ SameFrom(s[i], s[j], order, 0) => ~Precedes(s[i], s[j], order)
  BY LexicographicFacts
<1>5. \A i, j \in K : SameFrom(s[i], s[j], order, 0) <=> SameFrom(s[j], s[i], order, 0)
  BY DEF SameFrom
<1>6. \A i \in K : \A j \in K : j \in ahead[i] <=>
         \/ Precedes(s[j], s[i], order)
         \/ SameFrom(s[j], s[i], order, 0) /\ j < i
  BY <1>4, <1>5
<1>7. \A i, j, k \in K :
         Precedes(s[i], s[j], order) /\ Precedes(s[j], s[k], order)
            => Precedes(s[i], s[k], order)
  BY LexicographicIsTransitive
<1>8. ASSUME NEW i \in K, NEW j \in K, NEW k \in K, SameFrom(s[i], s[j], order, 0)
      PROVE  /\ Precedes(s[i], s[k], order) <=> Precedes(s[j], s[k], order)
             /\ Precedes(s[k], s[i], order) <=> Precedes(s[k], s[j], order)
             /\ SameFrom(s[j], s[k], order, 0) => SameFrom(s[i], s[k], order, 0)
  <2>1. \A n \in DOMAIN order : s[i][order[n].col] = s[j][order[n].col]
    BY <1>1, <1>8 DEF SameFrom
  <2>2. \A n \in DOMAIN order :
           /\ Before(s[i], s[k], order[n]) <=> Before(s[j], s[k], order[n])
           /\ Before(s[k], s[i], order[n]) <=> Before(s[k], s[j], order[n])
    BY <2>1, BeforeIsLocal
  <2>3. \A n \in DOMAIN order : 1 .. (n - 1) \subseteq DOMAIN order
    BY <1>1
  <2>4. Precedes(s[i], s[k], order) <=> Precedes(s[j], s[k], order)
    BY <2>1, <2>2, <2>3 DEF Precedes
  <2>5. Precedes(s[k], s[i], order) <=> Precedes(s[k], s[j], order)
    BY <2>1, <2>2, <2>3 DEF Precedes
  <2>6. SameFrom(s[j], s[k], order, 0) => SameFrom(s[i], s[k], order, 0)
    BY <1>1, <2>1 DEF SameFrom
  <2>. QED  BY <2>4, <2>5, <2>6
<1>9. p \in [1 .. N -> K]
  BY DEF Shuffle
<1>10. ASSUME NEW m \in 1 .. N, NEW n \in 1 .. N, m < n
       PROVE  p[m] \in ahead[p[n]]
  <2>1. \/ PrecedesFrom(s[p[m]], s[p[n]], order, 0)
        \/ SameFrom(s[p[m]], s[p[n]], order, 0) /\ p[m] < p[n]
    BY <1>10 DEF SortedFrom
  <2>2. PrecedesFrom(s[p[m]], s[p[n]], order, 0) <=> Precedes(s[p[m]], s[p[n]], order)
    BY <1>1 DEF PrecedesFrom, Precedes
  <2>. HIDE DEF ahead
  <2>. QED  BY <1>6, <1>9, <2>1, <2>2
<1>. HIDE DEF ahead
<1>11. Linear(ahead)
  <2>1. \A x \in K : x \notin ahead[x]
    BY <1>4, <1>6
  <2>2. \A x, y \in K : x # y => x \in ahead[y] \/ y \in ahead[x]
    BY <1>4, <1>5, <1>6
  <2>3. \A x, y, z \in K : x \in ahead[y] /\ y \in ahead[z] => x \in ahead[z]
    <3>1. ASSUME NEW x \in K, NEW y \in K, NEW z \in K, x \in ahead[y], y \in ahead[z]
          PROVE  x \in ahead[z]
      <4>1. CASE Precedes(s[x], s[y], order) /\ Precedes(s[y], s[z], order)
        BY <1>6, <1>7, <4>1
      <4>2. CASE SameFrom(s[x], s[y], order, 0)
        BY <1>5, <1>6, <1>8, <3>1, <4>2, <1>4
      <4>3. CASE SameFrom(s[y], s[z], order, 0)
        BY <1>5, <1>6, <1>8, <3>1, <4>3, <1>4
      <4>. QED  BY <1>6, <3>1, <4>1, <4>2, <4>3
    <3>. QED  BY <3>1
  <2>. QED  BY <1>3, <2>1, <2>2, <2>3, LinearOrder
<1>12. p = InTurn(ahead) /\ DOMAIN p = 1 .. N
  BY <1>3, <1>9, <1>10, <1>11, OnlyTurn
<1>. QED  BY <1>2, <1>12

-----------------------------------------------------------------------------
(* Joins. *)

LEMMA PairsFacts ==
    ASSUME NEW s \in Seq(LeftRows), NEW r \in Seq(RightRows), NEW outer \in BOOLEAN
    PROVE  /\ Pairs(s, r, outer) \subseteq (1 .. Len(s)) \X (0 .. Len(r))
           /\ IsFiniteSet(Pairs(s, r, outer))
<1>. DEFINE P == Pairs(s, r, outer)
            All == (1 .. Len(s)) \X (0 .. Len(r))
            Partners(i) == IF outer /\ Matching(s[i], r) = {} THEN {0}
                           ELSE Matching(s[i], r)
<1>1. DOMAIN s = 1 .. Len(s) /\ Len(s) \in Nat
      /\ DOMAIN r = 1 .. Len(r) /\ Len(r) \in Nat
  OBVIOUS
<1>2. P = UNION {{i} \X Partners(i) : i \in DOMAIN s}
  BY DEF Pairs
<1>3. \A i \in DOMAIN s : Partners(i) \subseteq 0 .. Len(r)
  BY <1>1 DEF Matching
<1>. HIDE DEF Partners
<1>4. \A i \in DOMAIN s : {i} \X Partners(i) \subseteq All
  BY <1>1, <1>3
<1>5. P \subseteq All
  BY <1>2, <1>4
<1>6. IsFiniteSet(1 .. Len(s)) /\ IsFiniteSet(0 .. Len(r))
  BY <1>1, FS_Interval
<1>7. IsFiniteSet(All)
  BY <1>6, FS_Product
<1>8. P \in SUBSET All
  BY <1>5
<1>9. IsFiniteSet(P)
  BY <1>7, <1>8, FS_Subset
<1>. QED  BY <1>5, <1>9

NestedLoops(pairs) ==
    [p \in pairs |-> {q \in pairs : \/ q[1] < p[1]
                                    \/ q[1] = p[1] /\ q[2] < p[2]}]

JoinedPair(s, r, p) ==
    Merged(s[p[1]], IF p[2] = 0 THEN NullRow ELSE r[p[2]])

(* Each pair of rows makes one row of the join. *)
LEMMA JoinedFacts ==
    ASSUME NEW s \in Seq(LeftRows), NEW r \in Seq(RightRows), NEW outer \in BOOLEAN
    PROVE  LET pairs == Pairs(s, r, outer)
               turn == InTurn(NestedLoops(pairs))
               t == Joined(s, r, outer)
           IN  /\ t \in Seq([Columns -> Value])
               /\ Cardinality(pairs) \in Nat
               /\ Len(t) = Cardinality(pairs)
               /\ turn \in [1 .. Cardinality(pairs) -> pairs]
               /\ \A m, n \in 1 .. Cardinality(pairs) : turn[m] = turn[n] => m = n
               /\ \A p \in pairs : \E n \in 1 .. Cardinality(pairs) : turn[n] = p
               /\ \A n \in 1 .. Cardinality(pairs) : t[n] = JoinedPair(s, r, turn[n])
<1>. DEFINE pairs == Pairs(s, r, outer)
            loops == NestedLoops(pairs)
            turn == InTurn(loops)
            t == Joined(s, r, outer)
            N == Cardinality(pairs)
<1>1. DOMAIN s = 1 .. Len(s) /\ Len(s) \in Nat
      /\ DOMAIN r = 1 .. Len(r) /\ Len(r) \in Nat
  OBVIOUS
<1>2. IsFiniteSet(pairs) /\ pairs \subseteq (1 .. Len(s)) \X (0 .. Len(r))
  BY PairsFacts
<1>3. t = [n \in DOMAIN turn |-> JoinedPair(s, r, turn[n])]
  BY DEF Joined, NestedLoops, JoinedPair
<1>. HIDE DEF pairs, t
<1>4. \A p \in pairs : p = <<p[1], p[2]>> /\ p[1] \in 1 .. Len(s) /\ p[2] \in 0 .. Len(r)
  BY <1>2
<1>5. Linear(loops) /\ loops \in [pairs -> SUBSET pairs]
  <2>1. loops \in [pairs -> SUBSET pairs]
    BY DEF NestedLoops
  <2>2. \A x \in pairs : \A y \in pairs : y \in loops[x] <=>
           \/ y[1] < x[1]
           \/ y[1] = x[1] /\ y[2] < x[2]
    BY DEF NestedLoops
  <2>. HIDE DEF loops
  <2>3. \A x \in pairs : x[1] \in Nat /\ x[2] \in Nat
    BY <1>1, <1>4
  <2>4. \A x \in pairs : x \notin loops[x]
    BY <2>2, <2>3
  <2>5. \A x, y \in pairs : x # y => x[1] # y[1] \/ x[2] # y[2]
    BY <1>4, Zenon
  <2>6. \A x, y \in pairs : x # y => x \in loops[y] \/ y \in loops[x]
    BY ONLY <2>2, <2>3, <2>5
  <2>7. ASSUME NEW x \in pairs, NEW y \in pairs, NEW z \in pairs,
               x \in loops[y], y \in loops[z]
        PROVE  x \in loops[z]
    <3>1. /\ x[1] \in Nat /\ x[2] \in Nat /\ y[1] \in Nat /\ y[2] \in Nat
          /\ z[1] \in Nat /\ z[2] \in Nat
      BY ONLY x \in pairs, y \in pairs, z \in pairs, <2>3
    <3>2. \/ x[1] < y[1]
          \/ x[1] = y[1] /\ x[2] < y[2]
      BY ONLY x \in pairs, y \in pairs, x \in loops[y], <2>2
    <3>3. \/ y[1] < z[1]
          \/ y[1] = z[1] /\ y[2] < z[2]
      BY ONLY y \in pairs, z \in pairs, y \in loops[z], <2>2
    <3>4. \/ x[1] < z[1]
          \/ x[1] = z[1] /\ x[2] < z[2]
      BY ONLY <3>1, <3>2, <3>3
    <3>. QED  BY ONLY x \in pairs, z \in pairs, <3>4, <2>2
  <2>. QED  BY <2>1, <2>4, <2>6, <2>7, LinearOrder
<1>6. /\ N \in Nat
      /\ turn \in [1 .. N -> pairs]
      /\ \A m, n \in 1 .. N : turn[m] = turn[n] => m = n
      /\ \A p \in pairs : \E n \in 1 .. N : turn[n] = p
  <2>. HIDE DEF loops
  <2>. QED  BY <1>2, <1>5, TurnFacts
<1>7. \A p \in pairs : JoinedPair(s, r, p) \in [Columns -> Value]
  <2>. SUFFICES ASSUME NEW p \in pairs PROVE JoinedPair(s, r, p) \in [Columns -> Value]
    OBVIOUS
  <2>. DEFINE y == IF p[2] = 0 THEN NullRow ELSE r[p[2]]
  <2>1. s[p[1]] \in LeftRows
    BY <1>1, <1>4
  <2>2. y \in RightRows
    <3>1. p[2] \in DOMAIN r \/ p[2] = 0
      BY <1>1, <1>4
    <3>2. NullRow \in RightRows
      BY DEF NullRow, RightRows, Value
    <3>. QED  BY <3>1, <3>2
  <2>. HIDE DEF y
  <2>3. Merged(s[p[1]], y) \in [Columns -> Value]
    BY <2>1, <2>2 DEF Merged, Columns, LeftRows, RightRows
  <2>. QED  BY <2>3 DEF JoinedPair, y
<1>. HIDE DEF N, turn
<1>8. t \in [1 .. N -> [Columns -> Value]]
  BY <1>3, <1>6, <1>7
<1>9. t \in Seq([Columns -> Value]) /\ Len(t) = N
  BY <1>6, <1>8, FunctionIsSeq
<1>10. \A n \in 1 .. N : t[n] = JoinedPair(s, r, turn[n])
  BY <1>3, <1>6
<1>. QED  BY <1>6, <1>9, <1>10 DEF pairs, t, N, turn

-----------------------------------------------------------------------------
(* Sums. *)

RunningSums(w) ==
    {t \in [0 .. Len(w) -> Int] :
        /\ t[0] = 0
        /\ \A n \in 1 .. Len(w) : t[n] = t[n - 1] + w[n]}

LEMMA RunningSumExists ==
    ASSUME NEW w \in Seq(Int)
    PROVE  RunningSums(w) # {}
<1>. DEFINE Sums(N) == {t \in [0 .. N -> Int] :
                           t[0] = 0 /\ \A n \in 1 .. N : t[n] = t[n - 1] + w[n]}
            T == {N \in Nat : Sums(N) # {}}
<1>1. Len(w) \in Nat /\ \A n \in 1 .. Len(w) : w[n] \in Int
  OBVIOUS
<1>2. 0 \in T
  <2>1. [n \in 0 .. 0 |-> 0] \in Sums(0)
    OBVIOUS
  <2>. QED  BY <2>1
<1>3. ASSUME NEW N \in (0 + 1) .. Len(w), N - 1 \in T
      PROVE  N \in T
  <2>1. PICK t : t \in Sums(N - 1)
    BY <1>3
  <2>. DEFINE u == [n \in 0 .. N |-> IF n < N THEN t[n] ELSE t[N - 1] + w[N]]
  <2>2. t \in [0 .. (N - 1) -> Int] /\ t[0] = 0
        /\ \A n \in 1 .. (N - 1) : t[n] = t[n - 1] + w[n]
    BY <2>1
  <2>3. u \in [0 .. N -> Int]
    BY <1>1, <2>2
  <2>4. u[0] = 0 /\ \A n \in 1 .. N : u[n] = u[n - 1] + w[n]
    BY <1>1, <2>2
  <2>5. u \in Sums(N) /\ N \in Nat
    <3>. HIDE DEF u
    <3>. QED  BY <2>3, <2>4
  <2>. QED  BY <2>5
<1>4. Len(w) \in T
  <2>. HIDE DEF T
  <2>1. 0 .. Len(w) \subseteq T
    BY <1>1, <1>2, <1>3, SetInduction
  <2>. QED  BY <1>1, <2>1
<1>. QED  BY <1>4 DEF RunningSums

(* The sum of a sequence of integers. *)
Sum(w) == (CHOOSE t : t \in RunningSums(w))[Len(w)]

LEMMA SumFacts ==
    ASSUME NEW w \in Seq(Int)
    PROVE  /\ Sum(w) \in Int
           /\ \A t \in RunningSums(w) : Sum(w) = t[Len(w)]
<1>. DEFINE u == CHOOSE t : t \in RunningSums(w)
<1>1. u \in RunningSums(w)
  BY RunningSumExists
<1>2. Sum(w) = u[Len(w)] /\ Len(w) \in Nat
  BY DEF Sum
<1>. HIDE DEF u
<1>3. ASSUME NEW t \in RunningSums(w)
      PROVE  t[Len(w)] = u[Len(w)]
  <2>. DEFINE T == {n \in 0 .. Len(w) : t[n] = u[n]}
  <2>1. 0 \in T
    BY <1>1, <1>2 DEF RunningSums
  <2>2. ASSUME NEW n \in (0 + 1) .. Len(w), n - 1 \in T
        PROVE  n \in T
    BY <1>1, <1>2, <2>2 DEF RunningSums
  <2>3. 0 .. Len(w) \subseteq T
    <3>. HIDE DEF T
    <3>. QED  BY <1>2, <2>1, <2>2, SetInduction
  <2>. QED  BY <1>2, <2>3
<1>4. u[Len(w)] \in Int
  BY <1>1, <1>2 DEF RunningSums
<1>. QED  BY <1>2, <1>3, <1>4

(* What a row adds to SUM. *)
Amount(x) == IF x[Addend] \in Numbers THEN x[Addend] ELSE 0

Amounts(s) == [n \in 1 .. Len(s) |-> Amount(s[n])]

LEMMA AmountsFacts ==
    ASSUME NEW S, NEW s \in Seq(S)
    PROVE  /\ Amounts(s) \in Seq(Int)
           /\ Len(Amounts(s)) = Len(s)
           /\ \A n \in 1 .. Len(s) : Amounts(s)[n] = Amount(s[n])
<1>1. ASSUME NEW x PROVE Amount(x) \in Int
  <2>1. CASE x[Addend] \in Numbers
    <3>1. x[Addend] \in Int
      BY <2>1, ValueAssumption
    <3>. QED  BY <2>1, <3>1 DEF Amount
  <2>2. CASE x[Addend] \notin Numbers
    BY <2>2 DEF Amount
  <2>. QED  BY <2>1, <2>2
<1>2. Amounts(s) \in [1 .. Len(s) -> Int] /\ Len(s) \in Nat
  BY <1>1 DEF Amounts
<1>3. Amounts(s) \in Seq(Int) /\ Len(Amounts(s)) = Len(s)
  <2>. HIDE DEF Amounts
  <2>. QED  BY <1>2, FunctionIsSeq
<1>. QED  BY <1>3 DEF Amounts

(* A sum that is defined by recursion. *)
LEMMA SumByRecursion ==
    ASSUME NEW N \in Nat, NEW w \in Seq(Int), Len(w) = N, NEW u,
           DOMAIN u = 0 .. N, u = [n \in 0 .. N |-> u[n]], u[0] = 0,
           \A n \in 1 .. N : u[n] = u[n - 1] + w[n]
    PROVE  u[N] = Sum(w)
<1>. DEFINE T == {n \in 0 .. N : u[n] \in Int}
<1>1. \A n \in 1 .. N : w[n] \in Int
  OBVIOUS
<1>2. 0 .. N \subseteq T
  <2>1. 0 \in T
    OBVIOUS
  <2>2. ASSUME NEW n \in (0 + 1) .. N, n - 1 \in T
        PROVE  n \in T
    BY <1>1, <2>2
  <2>. HIDE DEF T
  <2>. QED  BY <2>1, <2>2, SetInduction
<1>3. u \in [0 .. N -> Int]
  BY <1>2
<1>4. u \in RunningSums(w)
  BY <1>3 DEF RunningSums
<1>. QED  BY <1>4, SumFacts

LEMMA TotalFacts ==
    ASSUME NEW S, NEW s \in Seq(S)
    PROVE  Total(s) = Sum(Amounts(s)) /\ Total(s) \in Int
<1>. DEFINE w == Amounts(s)
            Def(t) == t = [n \in 0 .. Len(s) |->
                              IF n = 0 THEN 0
                              ELSE t[n - 1] + (IF s[n][Addend] \in Numbers
                                               THEN s[n][Addend] ELSE 0)]
            u == CHOOSE t : Def(t)
<1>1. /\ w \in Seq(Int) /\ Len(w) = Len(s) /\ Len(s) \in Nat
      /\ \A n \in 1 .. Len(s) : w[n] = IF s[n][Addend] \in Numbers
                                       THEN s[n][Addend] ELSE 0
  BY AmountsFacts DEF Amount
<1>2. Total(s) = u[Len(s)]
  BY DEF Total
<1>. HIDE DEF w
<1>3. PICK t : t \in RunningSums(w)
  BY <1>1, RunningSumExists
<1>4. Def(t)
  <2>1. t = [n \in 0 .. Len(s) |-> t[n]]
    BY <1>1, <1>3 DEF RunningSums
  <2>2. \A n \in 0 .. Len(s) :
           t[n] = IF n = 0 THEN 0
                  ELSE t[n - 1] + (IF s[n][Addend] \in Numbers
                                   THEN s[n][Addend] ELSE 0)
    BY <1>1, <1>3 DEF RunningSums
  <2>. QED  BY <2>1, <2>2, Zenon
<1>5. Def(u)
  <2>. HIDE DEF Def
  <2>. QED  BY <1>4
<1>. HIDE DEF u
<1>6. DOMAIN u = 0 .. Len(s)
  BY <1>5
<1>7. \A n \in 0 .. Len(s) :
         u[n] = IF n = 0 THEN 0
                ELSE u[n - 1] + (IF s[n][Addend] \in Numbers
                                 THEN s[n][Addend] ELSE 0)
  BY <1>5, Zenon
<1>8. u = [n \in 0 .. Len(s) |-> u[n]]
  BY <1>5, <1>7, Zenon
<1>. HIDE DEF Def
<1>9. u[0] = 0 /\ \A n \in 1 .. Len(s) : u[n] = u[n - 1] + w[n]
  <2>1. 0 \in 0 .. Len(s) /\ 1 .. Len(s) \subseteq 0 .. Len(s) /\ 0 \notin 1 .. Len(s)
    BY <1>1
  <2>. QED  BY <1>1, <1>7, <2>1, Zenon
<1>10. Sum(w) = u[Len(s)] /\ Sum(w) \in Int
  BY <1>1, <1>6, <1>8, <1>9, SumByRecursion, SumFacts
<1>. QED  BY <1>2, <1>10 DEF w

LEMMA SumOfFacts ==
    ASSUME NEW N \in Nat, NEW s, Len(s) = N, NEW col,
           \A n \in 1 .. N : s[n][col] \in Int
    PROVE  SumOf(s, col) = Sum([n \in 1 .. N |-> s[n][col]])
<1>. DEFINE w == [n \in 1 .. N |-> s[n][col]]
            Def(t) == t = [n \in 0 .. Len(s) |->
                              IF n = 0 THEN 0 ELSE t[n - 1] + s[n][col]]
            u == CHOOSE t : Def(t)
<1>1. w \in [1 .. N -> Int] /\ \A n \in 1 .. N : w[n] = s[n][col]
  OBVIOUS
<1>2. SumOf(s, col) = u[Len(s)]
  BY DEF SumOf
<1>. HIDE DEF w
<1>3. w \in Seq(Int) /\ Len(w) = N
  BY <1>1, FunctionIsSeq
<1>4. PICK t : t \in RunningSums(w)
  BY <1>3, RunningSumExists
<1>5. Def(t)
  <2>1. t = [n \in 0 .. Len(s) |-> t[n]]
    BY <1>3, <1>4 DEF RunningSums
  <2>2. \A n \in 0 .. Len(s) :
           t[n] = IF n = 0 THEN 0 ELSE t[n - 1] + s[n][col]
    BY <1>1, <1>3, <1>4 DEF RunningSums
  <2>. QED  BY <2>1, <2>2, Zenon
<1>6. Def(u)
  <2>. HIDE DEF Def
  <2>. QED  BY <1>5
<1>. HIDE DEF u
<1>7. /\ DOMAIN u = 0 .. N
      /\ u[0] = 0
      /\ \A n \in 1 .. N : u[n] = u[n - 1] + w[n]
  BY <1>1, <1>6
<1>8. u[N] = Sum(w)
  <2>1. u = [n \in 0 .. N |-> u[n]]
    BY <1>6, <1>7
  <2>. QED  BY <1>3, <1>7, <2>1, SumByRecursion
<1>. QED  BY <1>2, <1>3, <1>8 DEF w

-----------------------------------------------------------------------------
(* Groups. *)

LEMMA GreatestNumber ==
    ASSUME NEW F, F \subseteq Int, F # {}, IsFiniteSet(F)
    PROVE  \E v \in F : \A w \in F : w <= v
<1>. DEFINE above == [v \in F |-> {w \in F : w > v}]
            Sizes == {Cardinality(above[v]) : v \in F}
<1>1. \A v \in F : above[v] \in SUBSET F
  OBVIOUS
<1>2. \A v \in F : \A w \in F : w \in above[v] <=> w > v
  OBVIOUS
<1>. HIDE DEF above
<1>3. \A v \in F : IsFiniteSet(above[v]) /\ Cardinality(above[v]) \in Nat
  BY <1>1, FS_Subset, FS_CardinalityType
<1>4. Sizes \subseteq Nat /\ Sizes # {}
  BY <1>3
<1>5. PICK m \in Sizes : \A k \in Sizes : m <= k
  <2>. HIDE DEF Sizes
  <2>. QED  BY <1>4, LeastNumber
<1>6. PICK v \in F : m = Cardinality(above[v])
  OBVIOUS
<1>7. ASSUME NEW w \in F, w > v
      PROVE  FALSE
  <2>1. above[w] \in SUBSET above[v] /\ above[w] # above[v]
    <3>1. \A x \in above[w] : x \in F /\ x > w /\ x > v
      <4>1. \A x \in above[w] : x \in F
        BY <1>1
      <4>2. \A x \in F : x \in Int
        OBVIOUS
      <4>3. \A x \in F : x > w => x > v
        BY <1>7, <4>2
      <4>. QED  BY <1>2, <4>1, <4>3
    <3>2. above[w] \subseteq above[v]
      BY <1>2, <3>1
    <3>3. w \in above[v] /\ w \notin above[w]
      BY <1>2, <1>7
    <3>. QED  BY <3>2, <3>3
  <2>2. /\ Cardinality(above[w]) <= Cardinality(above[v])
        /\ Cardinality(above[w]) # Cardinality(above[v])
    BY <1>3, <2>1, FS_Subset
  <2>3. Cardinality(above[w]) \in Sizes
    OBVIOUS
  <2>. QED  BY <1>3, <1>5, <1>6, <2>2, <2>3
<1>. QED  BY <1>7

(* The values of a column are finitely many. *)
LEMMA ColumnIsFinite ==
    ASSUME NEW N \in Nat, NEW s, DOMAIN s = 1 .. N, NEW col
    PROVE  IsFiniteSet(GroupKeys(s, col))
<1>. DEFINE V == {s[n][col] : n \in DOMAIN s}
            f == [n \in 1 .. N |-> s[n][col]]
<1>1. f \in [1 .. N -> V]
  OBVIOUS
<1>2. \A v \in V : \E n \in 1 .. N : f[n] = v
  OBVIOUS
<1>3. f \in Surjection(1 .. N, V)
  <2>. HIDE DEF f, V
  <2>. QED  BY <1>1, <1>2 DEF Surjection
<1>4. IsFiniteSet(1 .. N)
  BY FS_Interval
<1>5. V = GroupKeys(s, col)
  BY DEF GroupKeys
<1>. HIDE DEF f, V
<1>. QED  BY <1>3, <1>4, <1>5, FS_Surjection

LEMMA GreatestFacts ==
    ASSUME NEW S, NEW s \in Seq(S)
    PROVE  LET integers == {s[n][Addend] : n \in DOMAIN s} \cap Numbers
           IN  /\ integers = {} => Greatest(s) = NULL
               /\ integers # {} => /\ Greatest(s) \in integers
                                   /\ \A w \in integers : w <= Greatest(s)
<1>. DEFINE V == {s[n][Addend] : n \in DOMAIN s}
            integers == V \cap Numbers
<1>1. IsFiniteSet(V)
  <2>1. Len(s) \in Nat /\ DOMAIN s = 1 .. Len(s)
    OBVIOUS
  <2>2. V = GroupKeys(s, Addend)
    BY DEF GroupKeys
  <2>. QED  BY <2>1, <2>2, ColumnIsFinite
<1>2. Greatest(s) = IF integers = {} THEN NULL
                    ELSE CHOOSE v \in integers : \A w \in integers : w <= v
  BY DEF Greatest
<1>. HIDE DEF V
<1>3. IsFiniteSet(integers) /\ integers \subseteq Int
  <2>1. integers \in SUBSET V
    OBVIOUS
  <2>. QED  BY <1>1, <2>1, FS_Subset, ValueAssumption
<1>. HIDE DEF integers
<1>4. integers # {} => \E v \in integers : \A w \in integers : w <= v
  BY <1>3, GreatestNumber
<1>5. integers # {} => /\ Greatest(s) \in integers
                       /\ \A w \in integers : w <= Greatest(s)
  BY <1>2, <1>4
<1>. QED  BY <1>2, <1>5 DEF integers, V

HasColumns(x, cols) == x = [col \in cols |-> x[col]]

(* An aggregate has its columns. *)
LEMMA AggregateFacts ==
    ASSUME NEW S, NEW s \in Seq(S), NEW group, group \notin Figures
    PROVE  LET x == Aggregate(s, group)
           IN  /\ HasColumns(x, {group} \cup Figures)
               /\ x["count"] = Len(s) /\ x["count"] \in Int
               /\ x["sum"] = Total(s) /\ x["sum"] \in Int
               /\ x["max"] = Greatest(s) /\ x["max"] \in Value
               /\ group # NoGroup => x[group] = s[1][group]
<1>1. Len(s) \in Int /\ Total(s) \in Int
  BY TotalFacts
<1>2. Greatest(s) \in Value
  BY GreatestFacts DEF Value
<1>3. HasColumns(Aggregate(s, group), {group} \cup Figures)
  BY DEF HasColumns, Aggregate
<1>. QED  BY <1>1, <1>2, <1>3, Zenon DEF Aggregate, Figures

GroupPlaces(s, group, v) == {n \in DOMAIN s : s[n][group] = v}

LEMMA GroupFacts ==
    ASSUME NEW S, NEW s \in Seq(S), NEW group, NEW v \in GroupKeys(s, group)
    PROVE  /\ GroupPlaces(s, group, v) \subseteq DOMAIN s
           /\ Group(s, group, v) = Kept(s, GroupPlaces(s, group, v))
           /\ Group(s, group, v) \in Seq(S)
           /\ Len(Group(s, group, v)) = Cardinality(GroupPlaces(s, group, v))
           /\ Len(Group(s, group, v)) > 0
           /\ Group(s, group, v)[1][group] = v
<1>. DEFINE K == GroupPlaces(s, group, v)
            t == Group(s, group, v)
            turn == InTurn(Places(K))
<1>1. K \subseteq DOMAIN s /\ t = Kept(s, K)
      /\ \A n \in K : s[n][group] = v
  BY DEF GroupPlaces, Group
<1>2. PICK k \in DOMAIN s : k \in K
  BY DEF GroupKeys, GroupPlaces
<1>. HIDE DEF K, t
<1>3. /\ Cardinality(K) \in Nat
      /\ t \in Seq(S) /\ Len(t) = Cardinality(K)
      /\ turn \in [1 .. Cardinality(K) -> K]
      /\ \A n \in 1 .. Cardinality(K) : t[n] = s[turn[n]]
      /\ \A x \in K : \E n \in 1 .. Cardinality(K) : turn[n] = x
  <2>1. /\ Cardinality(K) \in Nat
        /\ Kept(s, K) \in Seq(S) /\ Len(Kept(s, K)) = Cardinality(K)
        /\ turn \in [1 .. Cardinality(K) -> K]
        /\ \A n \in 1 .. Cardinality(K) : Kept(s, K)[n] = s[turn[n]]
        /\ \A x \in K : \E n \in 1 .. Cardinality(K) : turn[n] = x
    BY <1>1, KeptFacts
  <2>. HIDE DEF turn
  <2>. QED  BY <1>1, <2>1
<1>4. Cardinality(K) > 0
  BY <1>2, <1>3
<1>5. t[1][group] = v
  <2>. HIDE DEF turn
  <2>1. turn[1] \in K /\ t[1] = s[turn[1]]
    BY <1>3, <1>4
  <2>. QED  BY <1>1, <2>1
<1>. QED  BY <1>1, <1>3, <1>4, <1>5 DEF K, t

(* There is one group for each value of the column. *)
LEMMA GroupsFacts ==
    ASSUME NEW S, NEW s \in Seq(S), NEW group, group \notin Figures,
           group # NoGroup, group \notin {"count", "sum"},
           \A n \in DOMAIN s : s[n][group] \in Value
    PROVE  LET N == Cardinality(GroupKeys(s, group))
               t == Groups(s, group)
           IN  /\ N \in Nat /\ Len(t) = N
               /\ t \in Seq(Rows({group} \cup Figures))
               /\ \E val \in [1 .. N -> GroupKeys(s, group)] :
                     /\ \A m, n \in 1 .. N : val[m] = val[n] => m = n
                     /\ \A v \in GroupKeys(s, group) : \E n \in 1 .. N : val[n] = v
                     /\ \A n \in 1 .. N :
                           t[n] = Aggregate(Group(s, group, val[n]), group)
<1>. DEFINE V == GroupKeys(s, group)
            ahead == [v \in V |-> {w \in V : TextRank[w] < TextRank[v]}]
            val == InTurn(ahead)
            N == Cardinality(V)
            t == Groups(s, group)
<1>1. IsFiniteSet(V)
  <2>1. Len(s) \in Nat /\ DOMAIN s = 1 .. Len(s)
    OBVIOUS
  <2>. QED  BY <2>1, ColumnIsFinite
<1>2. V \subseteq Value
  BY DEF GroupKeys
<1>3. t = [n \in DOMAIN val |-> Aggregate(Group(s, group, val[n]), group)]
  BY DEF Groups
<1>. HIDE DEF V, t
<1>4. ahead \in [V -> SUBSET V]
  OBVIOUS
<1>5. \A v \in V : \A w \in V : w \in ahead[v] <=> TextRank[w] < TextRank[v]
  OBVIOUS
<1>6. \A v \in V : TextRank[v] \in Nat
  BY <1>2, ValueAssumption
<1>7. \A v, w \in V : TextRank[v] = TextRank[w] => v = w
  BY <1>2, ValueAssumption
<1>. HIDE DEF ahead
<1>8. Linear(ahead)
  <2>1. \A x \in V : x \notin ahead[x]
    BY <1>5, <1>6
  <2>2. \A x, y \in V : x # y => x \in ahead[y] \/ y \in ahead[x]
    BY <1>5, <1>6, <1>7
  <2>3. \A x, y, z \in V : x \in ahead[y] /\ y \in ahead[z] => x \in ahead[z]
    BY <1>5, <1>6
  <2>. QED  BY <1>4, <2>1, <2>2, <2>3, LinearOrder
<1>9. /\ N \in Nat
      /\ val \in [1 .. N -> V]
      /\ \A m, n \in 1 .. N : val[m] = val[n] => m = n
      /\ \A v \in V : \E n \in 1 .. N : val[n] = v
  BY <1>1, <1>4, <1>8, TurnFacts
<1>. HIDE DEF val, N
<1>10. /\ t = [n \in 1 .. N |-> t[n]]
       /\ \A n \in 1 .. N : t[n] = Aggregate(Group(s, group, val[n]), group)
  BY <1>3, <1>9
<1>11. ASSUME NEW n \in 1 .. N
       PROVE  t[n] \in Rows({group} \cup Figures)
  <2>. DEFINE g == Group(s, group, val[n])
              x == Aggregate(g, group)
  <2>1. val[n] \in V /\ val[n] \in Value
    BY <1>2, <1>9
  <2>2. g \in Seq(S) /\ g[1][group] = val[n]
    BY <2>1, GroupFacts DEF V
  <2>3. t[n] = x
    BY <1>10
  <2>. HIDE DEF g
  <2>4. /\ HasColumns(x, {group} \cup Figures)
        /\ x["count"] \in Int /\ x["sum"] \in Int
        /\ x["max"] \in Value
        /\ x[group] = g[1][group]
    BY <2>2, AggregateFacts
  <2>. HIDE DEF x
  <2>5. \A col \in {group} \cup Figures : x[col] \in Cell(col)
    BY <2>1, <2>2, <2>4 DEF Cell, Figures
  <2>6. \A col : Cell(col) \subseteq Int \cup Value
    BY DEF Cell
  <2>7. x \in [{group} \cup Figures -> Int \cup Value]
    BY <2>4, <2>5, <2>6 DEF HasColumns
  <2>. QED  BY <2>3, <2>5, <2>7 DEF Rows
<1>12. t \in Seq(Rows({group} \cup Figures)) /\ Len(t) = N
  <2>. DEFINE R == Rows({group} \cup Figures)
  <2>1. t \in [1 .. N -> R]
    BY <1>10, <1>11
  <2>. HIDE DEF R
  <2>2. t \in Seq(R) /\ Len(t) = N
    BY <1>9, <2>1, FunctionIsSeq
  <2>. QED  BY <2>2 DEF R
<1>. QED  BY <1>9, <1>10, <1>12 DEF V, t, N

(* The rows that a query starts from have its columns. *)
SourceRows(q) == [SourceCols(q) -> Value]

LEMMA SourceFacts ==
    ASSUME QueryFits
    PROVE  /\ Source \in Seq(SourceRows(query))
           /\ Len(Source) \in Nat /\ DOMAIN Source = 1 .. Len(Source)
           /\ Source \in Seq(Rows(SourceCols(query)))
           /\ \A n \in DOMAIN Source : \A col \in SourceCols(query) :
                 Source[n][col] \in Cell(col)
<1>1. Source \in Seq(SourceRows(query))
  <2>1. CASE Joins(query)
    <3>1. SourceRows(query) = [Columns -> Value]
      BY <2>1 DEF SourceRows, SourceCols
    <3>2. Source = Joined(first, second, query.from = "left_join")
      BY <2>1 DEF Source
    <3>3. (query.from = "left_join") \in BOOLEAN
      OBVIOUS
    <3>4. Joined(first, second, query.from = "left_join") \in Seq([Columns -> Value])
      BY <3>3, JoinedFacts DEF QueryFits
    <3>. QED  BY <3>1, <3>2, <3>4
  <2>2. CASE ~Joins(query)
    BY <2>2 DEF SourceRows, SourceCols, Source, QueryFits, LeftRows
  <2>. QED  BY <2>1, <2>2
<1>2. \A n \in DOMAIN Source : Source[n] \in SourceRows(query)
  BY <1>1
<1>3. \A col \in SourceCols(query) : Cell(col) = Value
  BY ColumnAssumption DEF SourceCols, Columns, Cell
<1>4. \A n \in DOMAIN Source : \A col \in SourceCols(query) :
         Source[n][col] \in Cell(col)
  BY <1>2, <1>3 DEF SourceRows
<1>5. SourceRows(query) \subseteq Rows(SourceCols(query))
  BY <1>3 DEF SourceRows, Rows
<1>6. Source \in Seq(Rows(SourceCols(query)))
  BY <1>1, <1>5
<1>. QED  BY <1>1, <1>4, <1>6

-----------------------------------------------------------------------------
(* The passes over the rows of a query. *)

HonouredPart ==
    IF query.from = "table" /\ query.shape = "expressions"
    THEN query.cols ELSE SourceCols(query)

LEMMA HonouredFacts ==
    ASSUME QueryFits
    PROVE  /\ Honoured \in Seq(Key)
           /\ \A n \in DOMAIN Honoured : Honoured[n].col \in SourceCols(query)
           /\ query.from = "table" /\ query.shape = "expressions" =>
                 \A n \in DOMAIN Honoured : Honoured[n].col \in query.cols
<1>1. query.order \in Seq(Key) /\ query.cols \subseteq SourceCols(query)
  BY DEF QueryFits, Query
<1>2. Honoured = InResult(query.order, HonouredPart)
  BY DEF Honoured, HonouredPart
<1>3. /\ Honoured \in Seq(Key)
      /\ \A n \in DOMAIN Honoured : Honoured[n].col \in HonouredPart
  BY <1>1, <1>2, InResultFacts
<1>. QED  BY <1>1, <1>3 DEF HonouredPart

(* A permutation of the rows that the query starts from. *)
Permutes(s) ==
    \E p : /\ Shuffle(p, Len(Source))
           /\ s = [n \in 1 .. Len(Source) |-> Source[p[n]]]

(* What the rows are at each stage. *)
RowsFit ==
    /\ stage = "group" => rows = Source
    /\ stage = "sort" => Permutes(rows)
    /\ stage = "sort_result" => rows \in Seq(Rows(Named(query)))
    /\ stage \in {"page", "distinct"} =>
          rows \in Seq(Rows(query.cols))
    /\ stage = "done" => \A n \in DOMAIN rows : DOMAIN rows[n] = ResultCols

LEMMA ProjectedFacts ==
    ASSUME NEW all, NEW cols, cols \subseteq all, NEW s \in Seq(Rows(all))
    PROVE  Projected(s, cols) \in Seq(Rows(cols)) /\ Len(Projected(s, cols)) = Len(s)
<1>. DEFINE t == Projected(s, cols)
            R == Rows(cols)
<1>1. Len(s) \in Nat /\ DOMAIN s = 1 .. Len(s)
  OBVIOUS
<1>2. \A n \in DOMAIN s : [col \in cols |-> s[n][col]] \in R
  <2>1. \A n \in DOMAIN s : s[n] \in Rows(all)
    OBVIOUS
  <2>. QED  BY <2>1 DEF Rows
<1>3. t = [n \in 1 .. Len(s) |-> [col \in cols |-> s[n][col]]]
  BY <1>1 DEF Projected
<1>. HIDE DEF t, R
<1>4. t \in [1 .. Len(s) -> R]
  BY <1>1, <1>2, <1>3
<1>5. t \in Seq(R) /\ Len(t) = Len(s)
  BY <1>1, <1>4, FunctionIsSeq
<1>. QED  BY <1>5 DEF t, R

LEMMA CutFacts ==
    ASSUME NEW S, NEW s \in Seq(S), NEW offset \in Nat,
           NEW limit \in Nat \cup {NoLimit}
    PROVE  Cut(s, offset, limit) \in Seq(S)
<1>. DEFINE last == IF limit = NoLimit THEN Len(s) ELSE Smaller(offset + limit, Len(s))
<1>1. Len(s) \in Nat
  OBVIOUS
<1>2. last \in 0 .. Len(s)
  BY <1>1 DEF Smaller
<1>3. \A i \in (offset + 1) .. last : i \in DOMAIN s
  BY <1>1, <1>2
<1>4. Cut(s, offset, limit) = SubSeq(s, offset + 1, last)
  BY DEF Cut
<1>. HIDE DEF last
<1>5. SubSeq(s, offset + 1, last) \in Seq(S)
  BY <1>1, <1>2, <1>3
<1>. QED  BY <1>4, <1>5

LEMMA RowsHaveColumns ==
    ASSUME NEW cols, NEW s \in Seq(Rows(cols))
    PROVE  \A n \in DOMAIN s : DOMAIN s[n] = cols
BY DEF Rows

(* A pass over the rows that a query starts from. *)
LEMMA PassPermutes ==
    ASSUME QueryFits, NEW s, Permutes(s), NEW key, key.col \in SourceCols(query),
           NEW t \in Outcomes(s, key)
    PROVE  Permutes(t)
<1>. DEFINE N == Len(Source)
<1>1. PICK p : Shuffle(p, N) /\ s = [n \in 1 .. N |-> Source[p[n]]]
  BY DEF Permutes
<1>2. /\ N \in Nat /\ DOMAIN Source = 1 .. N
      /\ \A n \in DOMAIN Source : \A col \in SourceCols(query) :
            Source[n][col] \in Cell(col)
  BY SourceFacts
<1>. HIDE DEF N
<1>3. p \in [1 .. N -> 1 .. N] /\ DOMAIN s = 1 .. N
  BY <1>1 DEF Shuffle
<1>4. \A n \in 1 .. N : s[n][key.col] \in Cell(key.col)
  BY <1>1, <1>2, <1>3
<1>5. PICK q : Shuffle(q, N) /\ t = Reordered(s, q, N)
  BY <1>2, <1>3, <1>4, PassFacts
<1>6. q \in [1 .. N -> 1 .. N]
  BY <1>5 DEF Shuffle
<1>. DEFINE pq == [n \in 1 .. N |-> p[q[n]]]
<1>7. Shuffle(pq, N)
  BY <1>1, <1>2, <1>5, ShuffleTwice
<1>8. t = [n \in 1 .. N |-> Source[pq[n]]]
  BY <1>1, <1>5, <1>6 DEF Reordered
<1>. QED  BY <1>7, <1>8 DEF Permutes, N

LEMMA PassKeepsColumns ==
    ASSUME NEW cols, NEW s \in Seq(Rows(cols)), NEW key, key.col \in cols,
           NEW t \in Outcomes(s, key)
    PROVE  t \in Seq(Rows(cols)) /\ Len(t) = Len(s)
<1>. DEFINE N == Len(s)
            R == Rows(cols)
<1>1. N \in Nat /\ DOMAIN s = 1 .. N /\ \A n \in 1 .. N : s[n] \in R
  OBVIOUS
<1>2. \A n \in 1 .. N : s[n][key.col] \in Cell(key.col)
  BY <1>1 DEF Rows
<1>. HIDE DEF N, R
<1>3. PICK q : Shuffle(q, N) /\ t = Reordered(s, q, N)
  BY <1>1, <1>2, PassFacts
<1>4. t \in [1 .. N -> R]
  BY <1>1, <1>3 DEF Shuffle, Reordered
<1>5. t \in Seq(R) /\ Len(t) = N
  BY <1>1, <1>4, FunctionIsSeq
<1>. QED  BY <1>5 DEF N, R

LEMMA SourcePermutes == QueryFits => Permutes(Source)
<1>. SUFFICES ASSUME QueryFits PROVE Permutes(Source)
  OBVIOUS
<1>. DEFINE N == Len(Source)
            p == [n \in 1 .. N |-> n]
<1>1. Source \in Seq(SourceRows(query)) /\ N \in Nat /\ DOMAIN Source = 1 .. N
  BY SourceFacts
<1>. HIDE DEF N
<1>2. Shuffle(p, N)
  BY DEF Shuffle
<1>3. Source = [n \in 1 .. N |-> Source[n]]
  BY <1>1
<1>4. Source = [n \in 1 .. N |-> Source[p[n]]]
  BY <1>3
<1>. QED  BY <1>2, <1>4 DEF Permutes, N

LEMMA PermutedColumns ==
    ASSUME QueryFits, NEW s, Permutes(s)
    PROVE  s \in Seq(Rows(SourceCols(query))) /\ Len(s) = Len(Source)
<1>. DEFINE N == Len(Source)
            R == Rows(SourceCols(query))
<1>1. PICK p : Shuffle(p, N) /\ s = [n \in 1 .. N |-> Source[p[n]]]
  BY DEF Permutes
<1>2. N \in Nat /\ DOMAIN Source = 1 .. N /\ Source \in Seq(R)
  BY SourceFacts
<1>3. \A n \in 1 .. N : Source[n] \in R
  BY <1>2
<1>. HIDE DEF N, R
<1>4. s \in [1 .. N -> R]
  BY <1>1, <1>3 DEF Shuffle
<1>5. s \in Seq(R) /\ Len(s) = N
  BY <1>2, <1>4, FunctionIsSeq
<1>. QED  BY <1>5 DEF N, R

LEMMA StackedColumns ==
    QueryFits => Stacked(first, second) \in Seq([{LeftKey} -> Value])
BY StackedFacts DEF QueryFits

LEMMA UnionColumns ==
    ASSUME QueryFits, query.from = "union", Union
    PROVE  \A n \in DOMAIN rows' : DOMAIN rows'[n] = {LeftKey}
<1>. DEFINE R == [{LeftKey} -> Value]
            both == Stacked(first, second)
<1>1. both \in Seq(R)
  BY StackedColumns
<1>2. rows' \in {WithoutRepeats(both), both}
  BY DEF Union, Goes
<1>. HIDE DEF R, both
<1>3. rows' \in Seq(R)
  BY <1>1, <1>2, WithoutRepeatsFacts
<1>4. \A n \in DOMAIN rows' : rows'[n] \in R
  BY <1>3
<1>. QED  BY <1>4 DEF R

LEMMA GroupingFacts ==
    ASSUME QueryFits, Grouped(query), NEW s \in Seq(Rows(SourceCols(query)))
    PROVE  Groups(s, query.group) \in Seq(Rows({query.group} \cup Figures))
<1>. DEFINE R == Rows(SourceCols(query))
<1>1. /\ query.group \in SourceCols(query) /\ query.group \notin Figures
      /\ query.group # NoGroup /\ query.group \notin {"count", "sum"}
  BY ColumnAssumption DEF QueryFits, Grouped, SourceCols, Columns, Figures
<1>2. \A n \in DOMAIN s : s[n] \in R
  OBVIOUS
<1>3. \A n \in DOMAIN s : s[n][query.group] \in Value
  <2>1. Cell(query.group) = Value
    BY <1>1 DEF Cell
  <2>. QED  BY <1>1, <1>2, <2>1 DEF Rows
<1>4. s \in Seq(R)
  OBVIOUS
<1>. HIDE DEF R
<1>. QED  BY <1>1, <1>3, <1>4, GroupsFacts

LEMMA KeptMembers ==
    ASSUME NEW S, NEW s \in Seq(S), NEW K, K \subseteq DOMAIN s
    PROVE  Kept(s, K) \in Seq(S)
BY KeptFacts

LEMMA RowsFitNext == Frame /\ RowsFit /\ [Next]_vars => RowsFit'
<1>. SUFFICES ASSUME Frame, RowsFit, [Next]_vars PROVE RowsFit'
  OBVIOUS
<1>. DEFINE Fixed == query' = query /\ first' = first /\ second' = second
<1>1. QueryFits /\ QueryFits' /\ StageFits /\ KeysFit
  BY FrameNext DEF Frame
<1>2. Fixed => Source' = Source
  BY DEF Source, Joins
<1>3. Fixed => \A s : Permutes(s)' <=> Permutes(s)
  BY <1>2 DEF Permutes
<1>4. Fixed => ResultCols' = ResultCols /\ Named(query)' = Named(query)
  BY DEF ResultCols, Named, Grouped
<1>5. query.cols \subseteq SourceCols(query)
  BY <1>1 DEF QueryFits
<1>6. CASE Over
  BY <1>6 DEF Over, RowsFit
<1>7. CASE stage = "idle" /\ \E asked \in Asked : Ask(asked[1], asked[2], asked[3])
  BY <1>7 DEF Ask, RowsFit
<1>8. CASE Union
  <2>1. query.from = "union" /\ Fixed /\ stage' = "done"
    BY <1>8 DEF Union, Goes, tables
  <2>2. ResultCols' = {LeftKey}
    BY <2>1 DEF ResultCols
  <2>3. \A n \in DOMAIN rows' : DOMAIN rows'[n] = {LeftKey}
    BY <1>1, <1>8, <2>1, UnionColumns
  <2>. QED  BY <2>1, <2>2, <2>3 DEF RowsFit
<1>9. CASE Join
  <2>1. /\ Fixed /\ rows' = Source
        /\ stage' = IF Grouped(query) THEN "group" ELSE "sort"
    BY <1>9 DEF Join, Goes, tables, Source
  <2>2. Permutes(Source)
    BY <1>1, SourcePermutes
  <2>. QED  BY <1>2, <1>3, <2>1, <2>2 DEF RowsFit
<1>10. CASE AggregateAll
  <2>1. /\ Fixed /\ stage' = "done" /\ rows' = <<Aggregate(first, NoGroup)>>
        /\ query.from = "table" /\ query.shape = "aggregates"
        /\ query.group = NoGroup
    BY <1>10 DEF AggregateAll, Goes, tables, Grouped
  <2>2. DOMAIN Aggregate(first, NoGroup) = {query.group} \cup Figures
    BY <2>1 DEF Aggregate
  <2>3. ResultCols' = {query.group} \cup Figures
    BY <2>1 DEF ResultCols
  <2>4. \A n \in DOMAIN rows' : rows'[n] = Aggregate(first, NoGroup)
    BY <2>1
  <2>. QED  BY <2>1, <2>2, <2>3, <2>4 DEF RowsFit
<1>11. CASE GroupTable
  <2>. DEFINE t == Groups(first, query.group)
              K == {n \in DOMAIN t : t[n]["count"] > query.having}
              R == Rows({query.group} \cup Figures)
  <2>1. /\ Fixed /\ stage' = "done" /\ rows' = Kept(t, K)
        /\ query.from = "table" /\ Grouped(query)
    BY <1>11 DEF GroupTable, Goes, tables
  <2>2. SourceCols(query) = LeftCols /\ Source = first
    BY <2>1 DEF SourceCols, Source, Joins
  <2>3. first \in Seq(Rows(SourceCols(query)))
    BY <1>1, <2>2, SourceFacts
  <2>4. t \in Seq(R)
    BY <1>1, <2>1, <2>3, GroupingFacts
  <2>5. K \subseteq DOMAIN t
    OBVIOUS
  <2>. HIDE DEF t, K, R
  <2>6. rows' \in Seq(R)
    BY <2>1, <2>4, <2>5, KeptMembers
  <2>7. ResultCols' = {query.group} \cup Figures
    BY <2>1 DEF ResultCols, Grouped
  <2>8. \A n \in DOMAIN rows' : DOMAIN rows'[n] = {query.group} \cup Figures
    BY <2>6, RowsHaveColumns DEF R
  <2>. QED  BY <2>1, <2>7, <2>8 DEF RowsFit
<1>12. CASE GroupJoined
  <2>1. /\ Fixed /\ stage' = "sort_result" /\ rows' = Groups(rows, query.group)
        /\ rows = Source /\ Grouped(query)
    BY <1>1, <1>12 DEF GroupJoined, Goes, tables, RowsFit, StageFits
  <2>2. rows \in Seq(Rows(SourceCols(query)))
    BY <1>1, <2>1, SourceFacts
  <2>3. rows' \in Seq(Rows({query.group} \cup Figures))
    BY <1>1, <2>1, <2>2, GroupingFacts
  <2>4. Named(query)' = {query.group} \cup Figures
    BY <2>1 DEF Named, Grouped
  <2>. QED  BY <2>1, <2>3, <2>4 DEF RowsFit
<1>13. CASE SelectExpressions
  <2>1. /\ Fixed /\ stage' = "sort_result" /\ rows' = Projected(first, query.cols)
        /\ query.from = "table" /\ ~Grouped(query)
    BY <1>13 DEF SelectExpressions, Goes, tables
  <2>2. Source = first
    BY <2>1 DEF Source, Joins
  <2>3. first \in Seq(Rows(SourceCols(query)))
    BY <1>1, <2>2, SourceFacts
  <2>4. rows' \in Seq(Rows(query.cols))
    BY <1>5, <2>1, <2>3, ProjectedFacts
  <2>5. Named(query)' = query.cols
    BY <2>1 DEF Named, Grouped
  <2>. QED  BY <2>1, <2>4, <2>5 DEF RowsFit
<1>14. CASE SelectByKey \/ SelectPlain
  <2>1. /\ Fixed /\ stage' = "done" /\ rows' = Projected(first, query.cols)
        /\ query.from = "table" /\ ~Grouped(query) /\ query.shape = "columns"
    BY <1>14 DEF SelectByKey, ByKey, SelectPlain, Goes, tables
  <2>2. Source = first
    BY <2>1 DEF Source, Joins
  <2>3. first \in Seq(Rows(SourceCols(query)))
    BY <1>1, <2>2, SourceFacts
  <2>4. rows' \in Seq(Rows(query.cols))
    BY <1>5, <2>1, <2>3, ProjectedFacts
  <2>5. ResultCols' = query.cols
    BY <2>1 DEF ResultCols, Grouped
  <2>6. \A n \in DOMAIN rows' : DOMAIN rows'[n] = query.cols
    BY <2>4, RowsHaveColumns
  <2>. QED  BY <2>1, <2>5, <2>6 DEF RowsFit
<1>15. CASE SelectOrdered
  <2>1. Fixed /\ stage' = "sort" /\ rows' = first /\ query.from = "table"
    BY <1>15 DEF SelectOrdered, Goes, tables
  <2>2. Source = first
    BY <2>1 DEF Source, Joins
  <2>3. Permutes(Source)
    BY <1>1, SourcePermutes
  <2>. QED  BY <1>3, <2>1, <2>2, <2>3 DEF RowsFit
<1>16. CASE SortPass
  <2>. DEFINE key == keys[Len(keys)]
  <2>1. /\ Fixed /\ stage' = stage /\ stage \in {"sort", "sort_result"}
        /\ keys # <<>> /\ rows' \in Outcomes(rows, key)
    BY <1>16 DEF SortPass, Sorting, Goes, tables, Outcomes
  <2>2. Len(keys) \in DOMAIN keys
    BY <1>1, <2>1 DEF KeysFit
  <2>3. CASE stage = "sort"
    <3>1. key.col \in SourceCols(query) /\ Permutes(rows)
      BY <1>1, <2>2, <2>3 DEF KeysFit, RowsFit
    <3>2. Permutes(rows')
      <4>1. PICK t \in Outcomes(rows, key) : t = rows'
        BY <2>1
      <4>. HIDE DEF key
      <4>2. Permutes(t)
        BY <1>1, <3>1, PassPermutes
      <4>. QED  BY <1>3, <2>1, <4>1, <4>2 DEF Permutes
    <3>. QED  BY <1>2, <2>1, <2>3, <3>2 DEF RowsFit, Permutes
  <2>4. CASE stage = "sort_result"
    <3>1. key.col \in Named(query) /\ rows \in Seq(Rows(Named(query)))
      BY <1>1, <2>2, <2>4 DEF KeysFit, RowsFit
    <3>. HIDE DEF key
    <3>2. rows' \in Seq(Rows(Named(query)))
      BY <2>1, <3>1, PassKeepsColumns
    <3>. QED  BY <1>4, <2>1, <2>4, <3>2 DEF RowsFit
  <2>. QED  BY <2>1, <2>3, <2>4
<1>17. CASE SortPanic
  BY <1>6, <1>17 DEF SortPanic
<1>18. CASE Project
  <2>1. /\ Fixed /\ rows' = Projected(rows, query.cols) /\ stage = "sort"
        /\ stage' = IF Joins(query) THEN "sort_result" ELSE "page"
    BY <1>18 DEF Project, Goes, tables
  <2>2. rows \in Seq(Rows(SourceCols(query)))
    BY <1>1, <2>1, PermutedColumns DEF RowsFit
  <2>3. rows' \in Seq(Rows(query.cols))
    BY <1>5, <2>1, <2>2, ProjectedFacts
  <2>4. Named(query)' = query.cols
    BY <1>1, <2>1 DEF StageFits, Paged, Named
  <2>. QED  BY <2>1, <2>3, <2>4 DEF RowsFit
<1>19. CASE Page
  <2>. DEFINE cols == IF stage = "page" THEN query.cols ELSE Named(query)
              R == Rows(cols)
              from == IF Grouped(query) THEN 0 ELSE query.offset
  <2>1. /\ Fixed /\ rows' = Cut(rows, from, query.limit)
        /\ stage \in {"page", "sort_result"}
        /\ stage' = IF stage = "page" THEN "distinct" ELSE "done"
    BY <1>19 DEF Page, Goes, tables
  <2>2. rows \in Seq(R)
    BY <2>1 DEF RowsFit
  <2>3. from \in Nat /\ query.limit \in Nat \cup {NoLimit}
    BY <1>1 DEF QueryFits, Query
  <2>. HIDE DEF from, R
  <2>4. rows' \in Seq(R)
    BY <2>1, <2>2, <2>3, CutFacts
  <2>5. CASE stage = "page"
    BY <2>1, <2>4, <2>5 DEF R, RowsFit
  <2>6. CASE stage = "sort_result"
    <3>1. \A n \in DOMAIN rows' : DOMAIN rows'[n] = Named(query)
      BY <2>4, <2>6, RowsHaveColumns DEF R
    <3>2. ResultCols = Named(query)
      BY <1>1, <2>6 DEF StageFits, QueryFits, ResultCols, Named, Grouped, Joins
    <3>. QED  BY <1>4, <2>1, <2>6, <3>1, <3>2 DEF RowsFit
  <2>. QED  BY <2>1, <2>5, <2>6
<1>20. CASE Distinct
  <2>. DEFINE R == Rows(query.cols)
  <2>1. /\ Fixed /\ stage = "distinct" /\ stage' = "done"
        /\ rows' \in {FirstOnes(rows), rows}
    BY <1>20 DEF Distinct, Goes, tables
  <2>2. rows \in Seq(R)
    BY <2>1 DEF RowsFit
  <2>. HIDE DEF R
  <2>3. rows' \in Seq(R)
    BY <2>1, <2>2, FirstOnesFacts
  <2>4. \A n \in DOMAIN rows' : DOMAIN rows'[n] = query.cols
    BY <2>3, RowsHaveColumns DEF R
  <2>5. ResultCols = query.cols
    BY <1>1, <2>1 DEF StageFits, Paged, ResultCols
  <2>. QED  BY <1>4, <2>1, <2>4, <2>5 DEF RowsFit
<1>21. CASE Answer
  BY <1>6, <1>21 DEF Answer
<1>22. CASE UNCHANGED vars
  <2>1. Fixed /\ stage' = stage /\ rows' = rows
    BY <1>22 DEF vars, tables
  <2>. QED  BY <1>2, <1>3, <1>4, <2>1 DEF RowsFit, Permutes
<1>. QED  BY <1>7, <1>8, <1>9, <1>10, <1>11, <1>12, <1>13, <1>14, <1>15, <1>16,
          <1>17, <1>18, <1>19, <1>20, <1>21, <1>22 DEF Next

LEMMA RowsFitHolds == Spec => []RowsFit
<1>1. Init => RowsFit
  BY DEF Init, RowsFit
<1>. QED  BY <1>1, RowsFitNext, FrameHolds, FrameInit, FrameNext, PTL DEF Spec

(* Whatever the query and the tables, the rows of a result have the        *)
(* columns that were asked for (engine.rs select, select_joined: the       *)
(* projections, one for each kind of query), and keys of ORDER BY are left *)
(* only while rows are sorted.                                             *)
THEOREM TypeCorrect == Spec => []TypeOK
<1>1. Frame /\ RowsFit => TypeOK
  <2>. SUFFICES ASSUME Frame, RowsFit PROVE TypeOK
    OBVIOUS
  <2>1. stage \in {"page", "distinct"} => ResultCols = query.cols
    BY DEF Frame, StageFits, Paged, ResultCols
  <2>2. stage \in {"page", "distinct"} =>
           \A n \in DOMAIN rows : DOMAIN rows[n] = query.cols
    BY RowsHaveColumns DEF RowsFit
  <2>. QED  BY <2>1, <2>2 DEF Frame, StageFits, KeysFit, RowsFit, TypeOK
<1>. QED  BY <1>1, FrameHolds, RowsFitHolds, PTL

-----------------------------------------------------------------------------
(* The rows of a join. *)

LEMMA SameSize ==
    ASSUME NEW S, NEW T, IsFiniteSet(S), NEW f \in [S -> T],
           \A x, y \in S : f[x] = f[y] => x = y,
           \A z \in T : \E x \in S : f[x] = z
    PROVE  IsFiniteSet(T) /\ Cardinality(T) = Cardinality(S)
<1>1. f \in Bijection(S, T)
  BY DEF Bijection, Injection, IsInjective, Surjection
<1>2. ExistsBijection(S, T)
  BY <1>1 DEF ExistsBijection
<1>. QED  BY <1>2, FS_Bijection

(* The rows with the columns of a row of the left side. *)
Ours(s, x) == {m \in DOMAIN s : \A col \in LeftCols : s[m][col] = x[col]}

LEMMA OursPermuted ==
    ASSUME QueryFits, NEW s, Permutes(s), NEW x
    PROVE  Cardinality(Ours(s, x)) = Cardinality(Ours(Source, x))
<1>. DEFINE N == Len(Source)
            S == Ours(s, x)
            T == Ours(Source, x)
<1>1. PICK p : Shuffle(p, N) /\ s = [n \in 1 .. N |-> Source[p[n]]]
  BY DEF Permutes
<1>2. N \in Nat /\ DOMAIN Source = 1 .. N
  BY SourceFacts
<1>. HIDE DEF N
<1>3. p \in [1 .. N -> 1 .. N] /\ DOMAIN s = 1 .. N
      /\ \A n \in 1 .. N : s[n] = Source[p[n]]
  BY <1>1 DEF Shuffle
<1>4. \A m, n \in 1 .. N : p[m] = p[n] => m = n
  BY <1>1 DEF Shuffle
<1>5. \A k \in 1 .. N : \E n \in 1 .. N : p[n] = k
  BY <1>1, <1>2, ShuffleIsOnto
<1>6. S \subseteq 1 .. N /\ T \subseteq 1 .. N
  BY <1>2, <1>3 DEF Ours
<1>7. \A n \in 1 .. N : n \in S <=> p[n] \in T
  BY <1>2, <1>3 DEF Ours
<1>. DEFINE f == [n \in S |-> p[n]]
<1>8. IsFiniteSet(S)
  <2>1. IsFiniteSet(1 .. N) /\ S \in SUBSET (1 .. N)
    BY <1>2, <1>6, FS_Interval
  <2>. QED  BY <2>1, FS_Subset
<1>. HIDE DEF S, T
<1>9. f \in [S -> T]
  BY <1>6, <1>7
<1>10. \A m, n \in S : f[m] = f[n] => m = n
  BY <1>4, <1>6
<1>11. \A k \in T : \E n \in S : f[n] = k
  BY <1>5, <1>6, <1>7
<1>. HIDE DEF f
<1>. QED  BY <1>8, <1>9, <1>10, <1>11, SameSize DEF S, T

(* Every row of the left side is joined with the same rows as its equals,  *)
(* and no two pairs of rows make the same row of the join.                 *)
LEMMA OursJoined ==
    ASSUME NEW s \in Seq(LeftRows), NEW r \in Seq(RightRows), NEW outer \in BOOLEAN,
           NEW n \in DOMAIN s
    PROVE  LET matches == {m \in DOMAIN r : /\ s[n][LeftKey] # NULL
                                            /\ r[m][RightKey] = s[n][LeftKey]}
               alone == IF outer /\ matches = {} THEN 1 ELSE 0
           IN  Cardinality(Ours(Joined(s, r, outer), s[n])) =
                   Cardinality(Ours(s, s[n])) * (Cardinality(matches) + alone)
<1>. DEFINE pairs == Pairs(s, r, outer)
            turn == InTurn(NestedLoops(pairs))
            t == Joined(s, r, outer)
            N == Cardinality(pairs)
            matches == {m \in DOMAIN r : /\ s[n][LeftKey] # NULL
                                         /\ r[m][RightKey] = s[n][LeftKey]}
            alone == IF outer /\ matches = {} THEN 1 ELSE 0
            partners == IF outer /\ matches = {} THEN {0} ELSE matches
            Same == Ours(s, s[n])
            Mine == {p \in pairs : p[1] \in Same}
<1>1. /\ DOMAIN s = 1 .. Len(s) /\ Len(s) \in Nat
      /\ DOMAIN r = 1 .. Len(r) /\ Len(r) \in Nat
      /\ \A i \in DOMAIN s : s[i] \in LeftRows
  OBVIOUS
<1>2. /\ N \in Nat
      /\ t \in Seq([Columns -> Value]) /\ Len(t) = N
      /\ turn \in [1 .. N -> pairs]
      /\ \A i, j \in 1 .. N : turn[i] = turn[j] => i = j
      /\ \A p \in pairs : \E i \in 1 .. N : turn[i] = p
      /\ \A i \in 1 .. N : t[i] = JoinedPair(s, r, turn[i])
  BY JoinedFacts
<1>3. pairs \subseteq (1 .. Len(s)) \X (0 .. Len(r)) /\ IsFiniteSet(pairs)
  BY PairsFacts
<1>4. matches = Matching(s[n], r)
  BY DEF Matching
<1>5. \A i \in DOMAIN s : i \in Same <=> s[i] = s[n]
  <2>1. \A i \in DOMAIN s : i \in Same <=>
           \A col \in LeftCols : s[i][col] = s[n][col]
    BY DEF Ours
  <2>2. ASSUME NEW i \in DOMAIN s, \A col \in LeftCols : s[i][col] = s[n][col]
        PROVE  s[i] = s[n]
    <3>1. /\ s[i] = [col \in LeftCols |-> s[i][col]]
          /\ s[n] = [col \in LeftCols |-> s[n][col]]
      BY <1>1 DEF LeftRows
    <3>. QED  BY <2>2, <3>1
  <2>. QED  BY <2>1, <2>2
<1>6. Same \subseteq DOMAIN s
  BY DEF Ours
<1>7. \A i \in DOMAIN s : \A k :
         <<i, k>> \in pairs <=>
             k \in IF outer /\ Matching(s[i], r) = {} THEN {0} ELSE Matching(s[i], r)
  BY DEF Pairs
<1>8. Mine = Same \X partners
  <2>1. \A p \in Mine : p \in Same \X partners
    <3>. SUFFICES ASSUME NEW p \in Mine PROVE p \in Same \X partners
      OBVIOUS
    <3>1. p = <<p[1], p[2]>> /\ p[1] \in Same /\ p[1] \in DOMAIN s /\ p \in pairs
      BY <1>3, <1>6
    <3>2. s[p[1]] = s[n]
      BY <1>5, <3>1
    <3>3. p[2] \in partners
      BY <1>4, <1>7, <3>1, <3>2
    <3>. QED  BY <3>1, <3>3
  <2>2. \A i \in Same : \A k \in partners : <<i, k>> \in Mine
    <3>. SUFFICES ASSUME NEW i \in Same, NEW k \in partners
                  PROVE  <<i, k>> \in Mine
      OBVIOUS
    <3>1. i \in DOMAIN s /\ s[i] = s[n]
      BY <1>5, <1>6
    <3>2. <<i, k>> \in pairs
      BY <1>4, <1>7, <3>1
    <3>. QED  BY <3>2
  <2>. QED  BY <2>1, <2>2
<1>9. \A i \in 1 .. N : i \in Ours(t, s[n]) <=> turn[i] \in Mine
  <2>. SUFFICES ASSUME NEW i \in 1 .. N
                PROVE  i \in Ours(t, s[n]) <=> turn[i] \in Mine
    OBVIOUS
  <2>1. turn[i] \in pairs /\ turn[i][1] \in DOMAIN s
    <3>. HIDE DEF turn, pairs, t, N
    <3>. QED  BY <1>1, <1>2, <1>3
  <2>2. \A col \in LeftCols : t[i][col] = s[turn[i][1]][col]
    <3>1. t[i] = JoinedPair(s, r, turn[i])
      BY <1>2
    <3>. HIDE DEF t, turn
    <3>. QED  BY <3>1 DEF JoinedPair, Merged, Columns
  <2>3. DOMAIN t = 1 .. N
    BY <1>2
  <2>. HIDE DEF t, turn, pairs, N
  <2>. QED  BY <2>1, <2>2, <2>3 DEF Ours
<1>. HIDE DEF pairs, turn, t, N, Same
<1>10. Ours(t, s[n]) \subseteq 1 .. N /\ IsFiniteSet(Ours(t, s[n]))
  <2>1. Ours(t, s[n]) \in SUBSET (1 .. N)
    BY <1>2 DEF Ours
  <2>2. IsFiniteSet(1 .. N)
    BY <1>2, FS_Interval
  <2>. QED  BY <2>1, <2>2, FS_Subset
<1>11. Cardinality(Mine) = Cardinality(Ours(t, s[n]))
  <2>. DEFINE O == Ours(t, s[n])
              f == [i \in O |-> turn[i]]
  <2>1. O \subseteq 1 .. N /\ IsFiniteSet(O) /\ \A i \in 1 .. N : i \in O <=> turn[i] \in Mine
    BY <1>9, <1>10
  <2>. HIDE DEF O
  <2>2. f \in [O -> Mine]
    BY <2>1
  <2>3. \A i, j \in O : f[i] = f[j] => i = j
    BY <1>2, <2>1
  <2>4. \A p \in Mine : \E i \in O : f[i] = p
    BY <1>2, <2>1
  <2>. HIDE DEF f, Mine
  <2>. QED  BY <2>1, <2>2, <2>3, <2>4, SameSize DEF O
<1>12. IsFiniteSet(Same) /\ Cardinality(Same) \in Nat
  <2>1. IsFiniteSet(1 .. Len(s)) /\ Same \in SUBSET (1 .. Len(s))
    BY <1>1, <1>6, FS_Interval
  <2>. QED  BY <2>1, FS_Subset, FS_CardinalityType
<1>13. IsFiniteSet(matches) /\ Cardinality(matches) \in Nat
  <2>1. IsFiniteSet(1 .. Len(r)) /\ matches \in SUBSET (1 .. Len(r))
    BY <1>1, FS_Interval
  <2>. HIDE DEF matches
  <2>. QED  BY <2>1, FS_Subset, FS_CardinalityType
<1>. HIDE DEF matches, Mine
<1>14. IsFiniteSet(partners) /\ Cardinality(partners) = Cardinality(matches) + alone
  <2>1. CASE outer /\ matches = {}
    <3>1. partners = {0} /\ alone = 1 /\ Cardinality(matches) = 0
      BY <2>1, FS_EmptySet
    <3>2. IsFiniteSet({0}) /\ Cardinality({0}) = 1
      BY FS_Singleton
    <3>. HIDE DEF partners, alone
    <3>. QED  BY <3>1, <3>2
  <2>2. CASE ~(outer /\ matches = {})
    BY <1>13, <2>2
  <2>. QED  BY <2>1, <2>2
<1>. HIDE DEF partners, alone
<1>15. Cardinality(Mine) = Cardinality(Same) * Cardinality(partners)
  BY <1>8, <1>12, <1>14, FS_Product
<1>16. Cardinality(Ours(t, s[n])) = Cardinality(Same) * (Cardinality(matches) + alone)
  BY <1>11, <1>14, <1>15
<1>. QED  BY <1>16 DEF t, Same, alone, matches

(* For every two tables, a join has one row for each pair of rows with the *)
(* same key, and a LEFT JOIN one more for each row without a partner       *)
(* (engine.rs select_joined: the nested loops and "matched"), and sorting  *)
(* the rows loses none of them.                                            *)
THEOREM JoinsAreComplete == Spec => []JoinCounts
<1>1. Frame /\ RowsFit => JoinCounts
  <2>. SUFFICES ASSUME Frame, RowsFit, stage \in {"sort", "group"}, Joins(query),
                       NEW n \in DOMAIN first
                PROVE  LET matches == {m \in DOMAIN second :
                                          /\ first[n][LeftKey] # NULL
                                          /\ second[m][RightKey] = first[n][LeftKey]}
                           alone == IF query.from = "left_join" /\ matches = {}
                                    THEN 1 ELSE 0
                       IN  Cardinality(Ours(rows, first[n])) =
                               Cardinality(Ours(first, first[n]))
                                   * (Cardinality(matches) + alone)
    BY DEF JoinCounts, Ours
  <2>1. QueryFits /\ Permutes(rows)
    BY SourcePermutes DEF Frame, RowsFit
  <2>2. Cardinality(Ours(rows, first[n])) = Cardinality(Ours(Source, first[n]))
    BY <2>1, OursPermuted
  <2>3. Source = Joined(first, second, query.from = "left_join")
    BY DEF Source
  <2>4. /\ (query.from = "left_join") \in BOOLEAN
        /\ first \in Seq(LeftRows) /\ second \in Seq(RightRows)
    BY <2>1 DEF QueryFits
  <2>. QED  BY <2>2, <2>3, <2>4, OursJoined
<1>. QED  BY <1>1, FrameHolds, RowsFitHolds, PTL

-----------------------------------------------------------------------------
(* The keys that rows are sorted by. *)

LEMMA InResultMembers ==
    ASSUME NEW order \in Seq(Key), NEW cols
    PROVE  Members(InResult(order, cols)) =
               {order[k] : k \in {k \in DOMAIN order : order[k].col \in cols}}
<1>. DEFINE K == {k \in DOMAIN order : order[k].col \in cols}
            t == InResult(order, cols)
            turn == InTurn(Places(K))
            N == Cardinality(K)
<1>1. t = Kept(order, K) /\ K \subseteq DOMAIN order
  BY DEF InResult
<1>. HIDE DEF K
<1>2. /\ N \in Nat /\ t \in Seq(Key) /\ Len(t) = N
      /\ turn \in [1 .. N -> K]
      /\ \A n \in 1 .. N : t[n] = order[turn[n]]
      /\ \A x \in K : \E n \in 1 .. N : turn[n] = x
  <2>1. /\ N \in Nat /\ Kept(order, K) \in Seq(Key) /\ Len(Kept(order, K)) = N
        /\ turn \in [1 .. N -> K]
        /\ \A n \in 1 .. N : Kept(order, K)[n] = order[turn[n]]
        /\ \A x \in K : \E n \in 1 .. N : turn[n] = x
    BY <1>1, KeptFacts
  <2>. HIDE DEF t, turn, N
  <2>. QED  BY <1>1, <2>1
<1>. HIDE DEF t, turn, N
<1>3. DOMAIN t = 1 .. N
  BY <1>2
<1>4. \A n \in 1 .. N : t[n] \in {order[k] : k \in K}
  BY <1>2
<1>5. \A k \in K : \E n \in 1 .. N : t[n] = order[k]
  BY <1>2
<1>6. Members(t) = {order[k] : k \in K}
  BY <1>3, <1>4, <1>5 DEF Members
<1>. QED  BY <1>6 DEF K, t

(* If no key without a column in the result precedes one with a column,    *)
(* then the keys in the result come first among all.                       *)
LEMMA InResultPrefix ==
    ASSUME NEW order \in Seq(Key), NEW cols, NEW all, cols \subseteq all,
           \A m, n \in DOMAIN order :
               m < n /\ order[m].col \notin cols => order[n].col \notin cols
    PROVE  /\ Len(InResult(order, cols)) <= Len(InResult(order, all))
           /\ \A n \in 1 .. Len(InResult(order, cols)) :
                 InResult(order, cols)[n] = InResult(order, all)[n]
<1>. DEFINE K == {k \in DOMAIN order : order[k].col \in cols}
            L == {k \in DOMAIN order : order[k].col \in all}
            N == Cardinality(K)
            M == Cardinality(L)
            f == InTurn(Places(K))
            g == InTurn(Places(L))
<1>1. /\ InResult(order, cols) = Kept(order, K) /\ K \subseteq DOMAIN order
      /\ InResult(order, all) = Kept(order, L) /\ L \subseteq DOMAIN order
      /\ K \subseteq L
  BY DEF InResult
<1>2. \A k \in K : \A l \in L : l < k => l \in K
  OBVIOUS
<1>3. DOMAIN order = 1 .. Len(order) /\ Len(order) \in Nat
  OBVIOUS
<1>. HIDE DEF K, L
<1>4. /\ IsFiniteSet(K) /\ Places(K) \in [K -> SUBSET K] /\ Linear(Places(K))
      /\ IsFiniteSet(L) /\ Places(L) \in [L -> SUBSET L] /\ Linear(Places(L))
  BY <1>1, <1>3, PlacesLinear
<1>5. /\ N \in Nat /\ f \in [1 .. N -> K]
      /\ \A n \in 1 .. N : Cardinality(Places(K)[f[n]]) = n - 1
  BY <1>4, TurnFacts
<1>6. /\ M \in Nat /\ g \in [1 .. M -> L]
      /\ \A n \in 1 .. M : Cardinality(Places(L)[g[n]]) = n - 1
  BY <1>4, TurnFacts
<1>7. \A x, y \in L : Cardinality(Places(L)[x]) = Cardinality(Places(L)[y]) => x = y
  BY <1>4, RankFacts
<1>8. /\ Len(Kept(order, K)) = N
      /\ \A n \in 1 .. N : Kept(order, K)[n] = order[f[n]]
  BY <1>1, KeptFacts
<1>9. /\ Len(Kept(order, L)) = M
      /\ \A n \in 1 .. M : Kept(order, L)[n] = order[g[n]]
  BY <1>1, KeptFacts
<1>10. N <= M
  <2>1. K \in SUBSET L
    BY <1>1
  <2>. QED  BY <1>4, <2>1, FS_Subset
<1>11. \A k \in K : Places(K)[k] = Places(L)[k]
  BY <1>1, <1>2 DEF Places
<1>. HIDE DEF N, M, f, g
<1>12. ASSUME NEW n \in 1 .. N
       PROVE  f[n] = g[n]
  <2>1. n \in 1 .. M /\ f[n] \in K /\ f[n] \in L
    BY <1>1, <1>5, <1>6, <1>10
  <2>2. g[n] \in L
    BY <1>6, <2>1
  <2>3. Cardinality(Places(L)[f[n]]) = Cardinality(Places(L)[g[n]])
    BY <1>5, <1>6, <1>11, <2>1
  <2>. QED  BY <1>7, <2>1, <2>2, <2>3
<1>13. \A n \in 1 .. N : n \in 1 .. M
  BY <1>5, <1>6, <1>10
<1>. QED  BY <1>1, <1>8, <1>9, <1>10, <1>12, <1>13

(* Sorted by some keys more, of which none is new. *)
LEMMA SortedTwice ==
    ASSUME NEW s, NEW p, NEW again \in Seq(Key), NEW order \in Seq(Key),
           SortedFrom(s, p, order, 0)
    PROVE  SortedFrom(s, p, again \o order, Len(again))
<1>. DEFINE both == again \o order
            A == Len(again)
<1>1. /\ A \in Nat /\ Len(order) \in Nat /\ Len(both) = A + Len(order)
      /\ \A n \in 1 .. Len(order) : both[A + n] = order[n]
  OBVIOUS
<1>. HIDE DEF both, A
<1>2. ASSUME NEW x, NEW y, PrecedesFrom(x, y, order, 0)
      PROVE  PrecedesFrom(x, y, both, A)
  <2>1. PICK n \in 1 .. Len(order) :
           /\ Before(x, y, order[n])
           /\ \A m \in 1 .. (n - 1) : x[order[m].col] = y[order[m].col]
    BY <1>2 DEF PrecedesFrom
  <2>2. PICK k \in (A + 1) .. Len(both) : k = A + n
    BY <1>1
  <2>3. Before(x, y, both[k])
    BY <1>1, <2>1, <2>2
  <2>4. ASSUME NEW m \in (A + 1) .. (k - 1)
        PROVE  x[both[m].col] = y[both[m].col]
    <3>1. m - A \in 1 .. (n - 1) /\ m - A \in 1 .. Len(order) /\ A + (m - A) = m
      BY <1>1, <2>2
    <3>2. both[m] = order[m - A]
      BY <1>1, <3>1
    <3>. QED  BY <2>1, <3>1, <3>2
  <2>. QED  BY <2>3, <2>4 DEF PrecedesFrom
<1>3. ASSUME NEW x, NEW y, SameFrom(x, y, order, 0)
      PROVE  SameFrom(x, y, both, A)
  <2>1. ASSUME NEW m \in (A + 1) .. Len(both)
        PROVE  x[both[m].col] = y[both[m].col]
    <3>1. m - A \in 1 .. Len(order) /\ A + (m - A) = m
      BY <1>1
    <3>2. both[m] = order[m - A]
      BY <1>1, <3>1
    <3>. QED  BY <1>3, <3>1, <3>2 DEF SameFrom
  <2>. QED  BY <2>1 DEF SameFrom
<1>4. SortedFrom(s, p, both, A)
  BY <1>2, <1>3 DEF SortedFrom
<1>. QED  BY <1>4 DEF both, A

LEMMA SortedAgain ==
    ASSUME NEW s, NEW p, NEW again \in Seq(Key), NEW order \in Seq(Key),
           Len(again) <= Len(order),
           \A n \in 1 .. Len(again) : again[n] = order[n],
           SortedFrom(s, p, again \o order, 0)
    PROVE  SortedFrom(s, p, order, 0)
<1>. DEFINE both == again \o order
            A == Len(again)
<1>1. /\ A \in Nat /\ Len(order) \in Nat /\ Len(both) = A + Len(order)
      /\ \A n \in 1 .. Len(order) : both[A + n] = order[n]
      /\ \A n \in 1 .. A : both[n] = again[n]
  OBVIOUS
<1>. HIDE DEF both
<1>2. A <= Len(order) /\ \A n \in 1 .. A : both[n] = order[n]
  BY <1>1
<1>3. SortedFrom(s, p, both, 0)
  BY DEF both
<1>. HIDE DEF A
<1>4. ASSUME NEW x, NEW y, PrecedesFrom(x, y, both, 0)
      PROVE  PrecedesFrom(x, y, order, 0)
  <2>1. PICK n \in 1 .. Len(both) :
           /\ Before(x, y, both[n])
           /\ \A m \in 1 .. (n - 1) : x[both[m].col] = y[both[m].col]
    BY <1>4 DEF PrecedesFrom
  <2>2. CASE n <= A
    <3>1. n \in 1 .. Len(order) /\ Before(x, y, order[n])
      BY <1>1, <1>2, <2>1, <2>2
    <3>2. \A m \in 1 .. (n - 1) : x[order[m].col] = y[order[m].col]
      BY <1>1, <1>2, <2>1, <2>2
    <3>. QED  BY <3>1, <3>2 DEF PrecedesFrom
  <2>3. CASE n > A
    <3>1. n - A \in 1 .. Len(order) /\ A + (n - A) = n
      BY <1>1, <2>3
    <3>2. Before(x, y, order[n - A])
      BY <1>1, <2>1, <3>1
    <3>3. ASSUME NEW m \in 1 .. (n - A - 1)
          PROVE  x[order[m].col] = y[order[m].col]
      <4>1. m \in 1 .. Len(order) /\ A + m \in 1 .. (n - 1)
        BY <1>1, <2>3, <3>1
      <4>2. both[A + m] = order[m]
        BY <1>1, <4>1
      <4>. QED  BY <2>1, <4>1, <4>2
    <3>. QED  BY <3>1, <3>2, <3>3 DEF PrecedesFrom
  <2>. QED  BY <1>1, <2>2, <2>3
<1>5. ASSUME NEW x, NEW y, SameFrom(x, y, both, 0)
      PROVE  SameFrom(x, y, order, 0)
  <2>1. ASSUME NEW m \in 1 .. Len(order)
        PROVE  x[order[m].col] = y[order[m].col]
    <3>1. A + m \in 1 .. Len(both) /\ both[A + m] = order[m]
      BY <1>1
    <3>. QED  BY <1>5, <3>1 DEF SameFrom
  <2>. QED  BY <2>1 DEF SameFrom
<1>. QED  BY <1>3, <1>4, <1>5 DEF SortedFrom

-----------------------------------------------------------------------------
(* Pages. *)

(* All passes of a stage, of which some are done; a join is sorted again   *)
(* after the projection.                                                   *)
Passes ==
    IF stage = "sort_result" /\ Joins(query)
    THEN InResult(query.order, query.cols) \o Honoured
    ELSE Honoured

(* The columns that the rows have while they are sorted. *)
ShownCols == IF stage = "sort" THEN SourceCols(query) ELSE query.cols

Picked(s, p, cols) ==
    \A n \in 1 .. Len(Source) : \A col \in cols : s[n][col] = Source[p[n]][col]

(* The rows s are sorted by the keys of order but those that are left.     *)
SortedSoFar(s, left, order, cols) ==
    /\ Len(s) = Len(Source)
    /\ Len(left) <= Len(order)
    /\ \A n \in 1 .. Len(left) : left[n] = order[n]
    /\ \E p : /\ Shuffle(p, Len(Source))
              /\ SortedFrom(Source, p, order, Len(left))
              /\ Picked(s, p, cols)

SortInv ==
    stage \in {"sort", "sort_result"} /\ Lists /\ AllComparable =>
        SortedSoFar(rows, keys, Passes, ShownCols)

Sorted == Projected(InOrder(Source, Honoured), query.cols)

PageInv ==
    /\ stage = "page" /\ AllComparable => rows = Sorted
    /\ stage = "distinct" /\ AllComparable => rows = Expected
    /\ PagesOfOneOrder
    /\ DistinctPage

LEMMA PassesFacts ==
    ASSUME QueryFits
    PROVE  /\ InResult(query.order, query.cols) \in Seq(Key)
           /\ Passes \in Seq(Key)
           /\ \A n \in DOMAIN Passes : Passes[n] \in Members(Honoured)
<1>. DEFINE again == InResult(query.order, query.cols)
<1>1. query.order \in Seq(Key) /\ query.cols \subseteq SourceCols(query)
  BY DEF QueryFits, Query
<1>2. again \in Seq(Key) /\ Honoured \in Seq(Key)
  BY <1>1, InResultFacts, HonouredFacts
<1>3. Members(again) \subseteq Members(Honoured)
  <2>1. query.cols \subseteq HonouredPart
    BY <1>1 DEF HonouredPart
  <2>2. Honoured = InResult(query.order, HonouredPart)
    BY DEF Honoured, HonouredPart
  <2>3. /\ Members(again) = {query.order[k] : k \in
               {k \in DOMAIN query.order : query.order[k].col \in query.cols}}
        /\ Members(Honoured) = {query.order[k] : k \in
               {k \in DOMAIN query.order : query.order[k].col \in HonouredPart}}
    BY <1>1, <2>2, InResultMembers
  <2>. QED  BY <2>1, <2>3
<1>4. \A n \in DOMAIN again : again[n] \in Members(Honoured)
  BY <1>3 DEF Members
<1>5. \A n \in DOMAIN Honoured : Honoured[n] \in Members(Honoured)
  BY DEF Members
<1>. HIDE DEF again
<1>6. again \o Honoured \in Seq(Key)
      /\ \A n \in DOMAIN (again \o Honoured) :
            (again \o Honoured)[n] \in Members(Honoured)
  <2>1. /\ again \o Honoured \in Seq(Key)
        /\ Len(again \o Honoured) = Len(again) + Len(Honoured)
    BY <1>2
  <2>2. ASSUME NEW n \in 1 .. (Len(again) + Len(Honoured))
        PROVE  (again \o Honoured)[n] \in Members(Honoured)
    <3>1. CASE n <= Len(again)
      <4>1. (again \o Honoured)[n] = again[n] /\ n \in DOMAIN again
        BY <1>2, <3>1
      <4>. QED  BY <1>4, <4>1
    <3>2. CASE n > Len(again)
      <4>1. /\ (again \o Honoured)[n] = Honoured[n - Len(again)]
            /\ n - Len(again) \in DOMAIN Honoured
        BY <1>2, <3>2
      <4>. QED  BY <1>5, <4>1
    <3>. QED  BY <1>2, <3>1, <3>2
  <2>. QED  BY <1>2, <2>1, <2>2
<1>. QED  BY <1>2, <1>5, <1>6 DEF Passes, again

(* Sorted by all keys, the rows show the lexicographic order. *)
LEMMA PickedInOrder ==
    ASSUME QueryFits, AllComparable, NEW p, Shuffle(p, Len(Source)),
           SortedFrom(Source, p, Honoured, 0),
           NEW s \in Seq(Rows(query.cols)), Len(s) = Len(Source),
           Picked(s, p, query.cols)
    PROVE  s = Sorted
<1>. DEFINE N == Len(Source)
<1>1. /\ N \in Nat /\ DOMAIN Source = 1 .. N
      /\ \A n \in DOMAIN Source : \A col \in SourceCols(query) :
            Source[n][col] \in Cell(col)
  BY SourceFacts
<1>2. Honoured \in Seq(Key)
      /\ \A n \in DOMAIN Honoured : Honoured[n].col \in SourceCols(query)
  BY HonouredFacts
<1>3. InOrder(Source, Honoured) = [n \in 1 .. N |-> Source[p[n]]]
  <2>1. \A n \in DOMAIN Honoured : Comparable(Source, Honoured[n])
    BY DEF AllComparable
  <2>2. \A i \in 1 .. N : \A n \in DOMAIN Honoured :
           Source[i][Honoured[n].col] \in Cell(Honoured[n].col)
    BY <1>1, <1>2
  <2>3. Shuffle(p, N)
    OBVIOUS
  <2>. HIDE DEF N
  <2>. QED  BY <1>1, <1>2, <2>1, <2>2, <2>3, SortedByAll
<1>4. Sorted = [n \in 1 .. N |-> [col \in query.cols |-> Source[p[n]][col]]]
  BY <1>3 DEF Sorted, Projected
<1>5. \A n \in 1 .. N : s[n] = [col \in query.cols |-> s[n][col]]
  <2>1. \A n \in 1 .. N : s[n] \in Rows(query.cols)
    OBVIOUS
  <2>. QED  BY <2>1 DEF Rows
<1>6. s = [n \in 1 .. N |-> s[n]]
  OBVIOUS
<1>7. \A n \in 1 .. N : s[n] = [col \in query.cols |-> Source[p[n]][col]]
  BY <1>5 DEF Picked
<1>. HIDE DEF N
<1>. QED  BY <1>4, <1>6, <1>7

(* Nothing is sorted yet. *)
LEMMA PickedAtFirst ==
    ASSUME QueryFits
    PROVE  \E p : /\ Shuffle(p, Len(Source))
                  /\ SortedFrom(Source, p, Honoured, Len(Honoured))
                  /\ \A n \in 1 .. Len(Source) : p[n] = n
<1>1. PICK N \in Nat : N = Len(Source) /\ DOMAIN Source = 1 .. N
  BY SourceFacts
<1>2. /\ Shuffle([n \in 1 .. N |-> n], N)
      /\ SortedFrom(Source, [n \in 1 .. N |-> n], Honoured, Len(Honoured))
  BY <1>1, HonouredFacts, NothingSorted
<1>. QED  BY <1>1, <1>2

(* OFFSET, LIMIT and keys that do not apply. *)
LEMMA WholePage ==
    ASSUME NEW S, NEW s \in Seq(S)
    PROVE  Cut(s, 0, NoLimit) = s
<1>1. Len(s) \in Nat
  OBVIOUS
<1>. QED  BY <1>1 DEF Cut

LEMMA NoKeys ==
    ASSUME NEW cols
    PROVE  InResult(<<>>, cols) \in Seq(Key) /\ Len(InResult(<<>>, cols)) = 0
<1>. DEFINE t == InResult(<<>>, cols)
<1>1. <<>> \in Seq(Key)
  OBVIOUS
<1>2. t \in Seq(Key)
  BY <1>1, InResultFacts
<1>3. Members(t) = {}
  <2>1. Members(t) = {<<>>[k] : k \in {k \in DOMAIN <<>> : <<>>[k].col \in cols}}
    BY <1>1, InResultMembers
  <2>. QED  BY <2>1
<1>. HIDE DEF t
<1>4. DOMAIN t = {}
  BY <1>3 DEF Members
<1>. QED  BY <1>2, <1>4 DEF t

LEMMA SortFirst ==
    ASSUME QueryFits, NEW s, NEW cols, Len(s) = Len(Source),
           \A n \in 1 .. Len(Source) : \A col \in cols : s[n][col] = Source[n][col]
    PROVE  SortedSoFar(s, Honoured, Honoured, cols)
<1>1. PICK p : /\ Shuffle(p, Len(Source))
               /\ SortedFrom(Source, p, Honoured, Len(Honoured))
               /\ \A n \in 1 .. Len(Source) : p[n] = n
  BY PickedAtFirst
<1>2. Picked(s, p, cols)
  BY <1>1 DEF Picked
<1>3. Len(Honoured) \in Nat
  BY HonouredFacts
<1>. QED  BY <1>1, <1>2, <1>3 DEF SortedSoFar

LEMMA SortPassNext ==
    ASSUME Frame, RowsFit, SortInv, SortPass, Lists, AllComparable
    PROVE  SortedSoFar(rows', keys', Passes, ShownCols)
<1>. DEFINE N == Len(Source)
            L == Len(keys)
            key == keys[L]
<1>1. QueryFits /\ StageFits /\ KeysFit
  BY DEF Frame
<1>2. /\ stage \in {"sort", "sort_result"} /\ keys # <<>>
      /\ rows' \in Outcomes(rows, key)
      /\ keys' = SubSeq(keys, 1, L - 1)
  BY DEF SortPass, Sorting, Goes, Outcomes
<1>3. keys \in Seq(Key) /\ L \in Nat /\ L > 0 /\ L \in DOMAIN keys
  BY <1>1, <1>2 DEF KeysFit
<1>4. /\ Len(keys') = L - 1
      /\ \A n \in 1 .. (L - 1) : keys'[n] = keys[n]
  <2>1. keys \in Seq(Key) /\ L - 1 \in 0 .. Len(keys)
    BY <1>3
  <2>. HIDE DEF L
  <2>2. /\ Len(SubSeq(keys, 1, L - 1)) = L - 1
        /\ \A n \in 1 .. (L - 1) : SubSeq(keys, 1, L - 1)[n] = keys[n]
    BY <2>1
  <2>. QED  BY <1>2, <2>2
<1>5. /\ Len(rows) = N
      /\ L <= Len(Passes)
      /\ \A n \in 1 .. L : keys[n] = Passes[n]
  BY <1>2 DEF SortInv, SortedSoFar
<1>6. PICK p : /\ Shuffle(p, N)
               /\ SortedFrom(Source, p, Passes, L)
               /\ Picked(rows, p, ShownCols)
  BY <1>2 DEF SortInv, SortedSoFar
<1>7. /\ N \in Nat /\ DOMAIN Source = 1 .. N
      /\ \A n \in DOMAIN Source : \A col \in SourceCols(query) :
            Source[n][col] \in Cell(col)
  BY <1>1, SourceFacts
<1>8. Passes \in Seq(Key) /\ L \in 1 .. Len(Passes) /\ Passes[L] = key
  BY <1>1, <1>3, <1>5, PassesFacts
<1>9. Comparable(Source, key)
  <2>1. L \in DOMAIN Passes
    BY <1>8
  <2>2. key \in Members(Honoured)
    BY <1>1, <1>8, <2>1, PassesFacts
  <2>. QED  BY <2>2 DEF Members, AllComparable
<1>10. key.col \in ShownCols /\ key.col \in SourceCols(query)
  <2>1. CASE stage = "sort"
    BY <1>1, <1>3, <2>1 DEF KeysFit, ShownCols
  <2>2. CASE stage = "sort_result"
    <3>1. key.col \in Named(query)
      BY <1>1, <1>3, <2>2 DEF KeysFit
    <3>2. Named(query) = query.cols
      BY DEF Lists, Named
    <3>. QED  BY <1>1, <2>2, <3>1, <3>2 DEF ShownCols, QueryFits
  <2>. QED  BY <1>2, <2>1, <2>2
<1>11. DOMAIN rows = 1 .. N
  <2>1. CASE stage = "sort"
    <3>1. rows \in Seq(Rows(SourceCols(query)))
      BY <1>1, <2>1, PermutedColumns DEF RowsFit
    <3>. QED  BY <1>5, <3>1
  <2>2. CASE stage = "sort_result"
    <3>1. rows \in Seq(Rows(Named(query)))
      BY <2>2 DEF RowsFit
    <3>. QED  BY <1>5, <3>1
  <2>. QED  BY <1>2, <2>1, <2>2
<1>. HIDE DEF N, L, key
<1>12. p \in [1 .. N -> 1 .. N]
  BY <1>6 DEF Shuffle
<1>13. \A n \in 1 .. N : /\ rows[n][key.col] = Source[p[n]][key.col]
                         /\ rows[n][key.col] \in Cell(key.col)
  <2>1. \A n \in 1 .. N : rows[n][key.col] = Source[p[n]][key.col]
    BY <1>6, <1>10 DEF Picked, N
  <2>. QED  BY <1>7, <1>10, <1>12, <2>1
<1>14. /\ Comparable(rows, key)
       /\ \E q : /\ Shuffle(q, N)
                 /\ SortedBy(rows, key) = Reordered(rows, q, N)
                 /\ SortedFrom(Source, Reordered(p, q, N), Passes, L - 1)
  <2>1. \A n \in 1 .. N : /\ rows[n][Passes[L].col] = Source[p[n]][Passes[L].col]
                          /\ rows[n][Passes[L].col] \in Cell(Passes[L].col)
    BY <1>8, <1>13
  <2>2. Comparable(Source, Passes[L])
    BY <1>8, <1>9
  <2>3. /\ Comparable(rows, Passes[L])
        /\ \E q : /\ Shuffle(q, N)
                  /\ SortedBy(rows, Passes[L]) = Reordered(rows, q, N)
                  /\ SortedFrom(Source, Reordered(p, q, N), Passes, L - 1)
    BY <1>6, <1>7, <1>8, <1>11, <2>1, <2>2, StablePass
  <2>. QED  BY <1>8, <2>3
<1>15. PICK q : /\ Shuffle(q, N)
                /\ SortedBy(rows, key) = Reordered(rows, q, N)
                /\ SortedFrom(Source, Reordered(p, q, N), Passes, L - 1)
  BY <1>14
<1>16. rows' = [n \in 1 .. N |-> rows[q[n]]]
  BY <1>2, <1>14, <1>15 DEF Outcomes, Reordered
<1>. DEFINE pq == [n \in 1 .. N |-> p[q[n]]]
<1>17. Shuffle(pq, N)
  BY <1>6, <1>7, <1>15, ShuffleTwice
<1>18. Len(rows') = N
  BY <1>7, <1>16
<1>19. Picked(rows', pq, ShownCols)
  <2>1. \A n \in 1 .. N : q[n] \in 1 .. N /\ rows'[n] = rows[q[n]] /\ pq[n] = p[q[n]]
    BY <1>15, <1>16 DEF Shuffle
  <2>2. \A n \in 1 .. N : \A col \in ShownCols : rows[n][col] = Source[p[n]][col]
    BY <1>6 DEF Picked, N
  <2>. HIDE DEF pq
  <2>3. \A n \in 1 .. N : \A col \in ShownCols : rows'[n][col] = Source[pq[n]][col]
    BY <2>1, <2>2
  <2>. QED  BY <2>3 DEF Picked, N
<1>20. SortedFrom(Source, pq, Passes, Len(keys'))
  BY <1>4, <1>15 DEF L, Reordered
<1>21. Len(keys') <= Len(Passes)
       /\ \A n \in 1 .. Len(keys') : keys'[n] = Passes[n]
  BY <1>3, <1>4, <1>5, <1>8 DEF L
<1>. HIDE DEF pq
<1>. QED  BY <1>17, <1>18, <1>19, <1>20, <1>21 DEF N, SortedSoFar

LEMMA Unmoved ==
    ASSUME query' = query, first' = first, second' = second
    PROVE  /\ Source' = Source /\ Honoured' = Honoured /\ Lists' = Lists
           /\ AllComparable' = AllComparable /\ KeyOvertaken' = KeyOvertaken
           /\ Sorted' = Sorted /\ Expected' = Expected
           /\ stage' = stage => Passes' = Passes /\ ShownCols' = ShownCols
           /\ stage' = "sort" => Passes' = Honoured /\ ShownCols' = SourceCols(query)
           /\ stage' = "sort_result" /\ Joins(query) =>
                 Passes' = InResult(query.order, query.cols) \o Honoured
           /\ stage' = "sort_result" /\ ~Joins(query) => Passes' = Honoured
           /\ stage' = "sort_result" => ShownCols' = query.cols
<1>1. Source' = Source /\ Honoured' = Honoured
  BY DEF Source, Honoured, Joins, SourceCols
<1>2. Lists' = Lists /\ KeyOvertaken' = KeyOvertaken
  BY DEF Lists, KeyOvertaken, Grouped, Joins
<1>3. AllComparable' = AllComparable
  BY <1>1 DEF AllComparable
<1>4. Sorted' = Sorted /\ Expected' = Expected
  BY <1>1 DEF Sorted, Expected
<1>5. /\ stage' = stage => Passes' = Passes /\ ShownCols' = ShownCols
      /\ stage' = "sort" => Passes' = Honoured /\ ShownCols' = SourceCols(query)
      /\ stage' = "sort_result" /\ Joins(query) =>
            Passes' = InResult(query.order, query.cols) \o Honoured
      /\ stage' = "sort_result" /\ ~Joins(query) => Passes' = Honoured
      /\ stage' = "sort_result" => ShownCols' = query.cols
  BY <1>1 DEF Passes, ShownCols, Joins, SourceCols
<1>. QED  BY <1>1, <1>2, <1>3, <1>4, <1>5

LEMMA SortInvNext == Frame /\ RowsFit /\ SortInv /\ [Next]_vars => SortInv'
<1>. SUFFICES ASSUME Frame, RowsFit, SortInv, [Next]_vars,
                     stage' \in {"sort", "sort_result"}, Lists', AllComparable'
              PROVE  SortedSoFar(rows, keys, Passes, ShownCols)'
  BY DEF SortInv
<1>. DEFINE Fixed == query' = query /\ first' = first /\ second' = second
            Goal == SortedSoFar(rows', keys', Passes', ShownCols')
<1>1. QueryFits /\ StageFits /\ KeysFit
  BY DEF Frame
<1>2. Fixed => (Lists /\ AllComparable
                /\ (Goal => SortedSoFar(rows, keys, Passes, ShownCols)'))
  <2>. SUFFICES ASSUME Fixed
                PROVE  /\ Lists /\ AllComparable
                       /\ Goal => SortedSoFar(rows, keys, Passes, ShownCols)'
    OBVIOUS
  <2>1. Source' = Source /\ Lists' = Lists /\ AllComparable' = AllComparable
    BY Unmoved
  <2>2. Goal => SortedSoFar(rows, keys, Passes, ShownCols)'
    BY <2>1 DEF SortedSoFar, Picked
  <2>. QED  BY <2>1, <2>2
<1>3. Len(Source) \in Nat /\ DOMAIN Source = 1 .. Len(Source)
      /\ Source \in Seq(Rows(SourceCols(query)))
  BY <1>1, SourceFacts
<1>4. Honoured \in Seq(Key) /\ query.cols \subseteq SourceCols(query)
  BY <1>1, HonouredFacts DEF QueryFits
<1>5. CASE Join
  <2>1. /\ Fixed /\ rows' = Source /\ Joins(query)
        /\ keys' = IF Grouped(query) THEN <<>> ELSE InResult(query.order, Columns)
        /\ stage' = IF Grouped(query) THEN "group" ELSE "sort"
    BY <1>5 DEF Join, Goes, tables, Source
  <2>2. ~Grouped(query) /\ stage' = "sort"
    BY <2>1
  <2>3. keys' = Honoured
    BY <2>1, <2>2 DEF Honoured, SourceCols, Joins
  <2>4. SortedSoFar(Source, Honoured, Honoured, SourceCols(query))
    BY <1>1, SortFirst
  <2>5. Passes' = Honoured /\ ShownCols' = SourceCols(query)
    BY <2>1, <2>2, Unmoved
  <2>. QED  BY <1>2, <2>1, <2>3, <2>4, <2>5
<1>6. CASE GroupJoined
  BY <1>2, <1>6 DEF GroupJoined, Goes, tables, Lists, StageFits, Frame
<1>7. CASE SelectExpressions
  <2>1. /\ Fixed /\ rows' = Projected(first, query.cols) /\ ~Joins(query)
        /\ query.from = "table" /\ query.shape = "expressions"
        /\ keys' = InResult(query.order, query.cols) /\ stage' = "sort_result"
    BY <1>7 DEF SelectExpressions, Goes, tables, Joins
  <2>2. keys' = Honoured /\ Source = first
    BY <2>1 DEF Honoured, Source
  <2>3. Len(rows') = Len(Source)
    <3>1. Len(Projected(Source, query.cols)) = Len(Source)
      BY <1>3, <1>4, ProjectedFacts
    <3>. QED  BY <2>1, <2>2, <3>1
  <2>4. \A n \in 1 .. Len(Source) : \A col \in query.cols :
           rows'[n][col] = Source[n][col]
    BY <1>3, <2>1, <2>2 DEF Projected
  <2>5. SortedSoFar(rows', Honoured, Honoured, query.cols)
    <3>1. PICK s : s = rows'
      OBVIOUS
    <3>. QED  BY <1>1, <2>3, <2>4, <3>1, SortFirst
  <2>6. Passes' = Honoured /\ ShownCols' = query.cols
    BY <2>1, Unmoved
  <2>. QED  BY <1>2, <2>1, <2>2, <2>5, <2>6
<1>8. CASE SelectOrdered
  <2>1. /\ Fixed /\ rows' = first /\ ~Joins(query)
        /\ query.from = "table" /\ query.shape = "columns"
        /\ keys' = InResult(query.order, LeftCols) /\ stage' = "sort"
    BY <1>8 DEF SelectOrdered, Goes, tables, Joins
  <2>2. keys' = Honoured /\ Source = first
    BY <2>1 DEF Honoured, Source, SourceCols
  <2>3. SortedSoFar(Source, Honoured, Honoured, SourceCols(query))
    BY <1>1, SortFirst
  <2>4. Passes' = Honoured /\ ShownCols' = SourceCols(query)
    BY <2>1, Unmoved
  <2>. QED  BY <1>2, <2>1, <2>2, <2>3, <2>4
<1>9. CASE SortPass
  <2>1. Fixed /\ stage' = stage
    BY <1>9 DEF SortPass, Goes, tables
  <2>2. SortedSoFar(rows', keys', Passes, ShownCols)
    BY <1>2, <1>9, <2>1, SortPassNext
  <2>3. Passes' = Passes /\ ShownCols' = ShownCols
    BY <2>1, Unmoved
  <2>. QED  BY <1>2, <2>1, <2>2, <2>3
<1>10. CASE Project
  <2>. DEFINE again == InResult(query.order, query.cols)
  <2>1. /\ Fixed /\ rows' = Projected(rows, query.cols) /\ stage = "sort"
        /\ keys = <<>>
        /\ stage' = IF Joins(query) THEN "sort_result" ELSE "page"
        /\ keys' = IF Joins(query) THEN again ELSE <<>>
    BY <1>10 DEF Project, Goes, tables
  <2>2. Joins(query) /\ stage' = "sort_result" /\ keys' = again
    BY <2>1
  <2>3. again \in Seq(Key)
    BY <1>1, PassesFacts
  <2>4. SortedSoFar(rows, keys, Honoured, SourceCols(query))
    BY <1>2, <2>1 DEF SortInv, Passes, ShownCols
  <2>5. PICK p : /\ Shuffle(p, Len(Source))
                 /\ SortedFrom(Source, p, Honoured, 0)
                 /\ Picked(rows, p, SourceCols(query))
    BY <2>1, <2>4 DEF SortedSoFar
  <2>6. rows \in Seq(Rows(SourceCols(query))) /\ Len(rows) = Len(Source)
    BY <1>1, <2>1, PermutedColumns DEF RowsFit
  <2>7. Len(rows') = Len(Source)
    BY <1>4, <2>1, <2>6, ProjectedFacts
  <2>8. Picked(rows', p, query.cols)
    BY <1>3, <1>4, <2>1, <2>5, <2>6 DEF Picked, Projected
  <2>9. SortedFrom(Source, p, again \o Honoured, Len(again))
    BY <1>4, <2>3, <2>5, SortedTwice
  <2>10. Len(again) <= Len(again \o Honoured)
         /\ \A n \in 1 .. Len(again) : again[n] = (again \o Honoured)[n]
    BY <1>4, <2>3
  <2>. HIDE DEF again
  <2>11. SortedSoFar(rows', again, again \o Honoured, query.cols)
    BY <2>5, <2>7, <2>8, <2>9, <2>10 DEF SortedSoFar
  <2>12. Passes' = again \o Honoured /\ ShownCols' = query.cols
    BY <2>1, <2>2, Unmoved DEF again
  <2>. QED  BY <1>2, <2>1, <2>2, <2>11, <2>12
<1>11. CASE UNCHANGED vars
  <2>1. Fixed /\ stage' = stage /\ rows' = rows /\ keys' = keys
    BY <1>11 DEF vars, tables
  <2>2. SortedSoFar(rows, keys, Passes, ShownCols)
    BY <1>2, <2>1 DEF SortInv
  <2>3. Passes' = Passes /\ ShownCols' = ShownCols
    BY <2>1, Unmoved
  <2>. QED  BY <1>2, <2>1, <2>2, <2>3
<1>12. ~Union /\ ~AggregateAll /\ ~GroupTable /\ ~SelectByKey /\ ~SelectPlain /\ ~SortPanic
       /\ ~Page /\ ~Distinct /\ ~Answer /\ \A q, s, r : ~Ask(q, s, r)
  BY DEF Union, AggregateAll, GroupTable, SelectByKey, SelectPlain, SortPanic, Page, Distinct,
         Answer, Over, Goes, Ask
<1>. QED  BY <1>5, <1>6, <1>7, <1>8, <1>9, <1>10, <1>11, <1>12 DEF Next

(* All passes are done. *)
LEMMA AllSorted ==
    ASSUME Frame, RowsFit, SortInv, stage = "sort_result", keys = <<>>,
           Lists, AllComparable, ~KeyOvertaken
    PROVE  rows = Sorted
<1>1. QueryFits /\ StageFits
  BY DEF Frame
<1>2. Len(keys) = 0 /\ ShownCols = query.cols /\ Named(query) = query.cols
  BY DEF ShownCols, Named, Lists
<1>3. SortedSoFar(rows, keys, Passes, query.cols)
  BY <1>2 DEF SortInv
<1>4. PICK p : /\ Shuffle(p, Len(Source))
               /\ SortedFrom(Source, p, Passes, 0)
               /\ Picked(rows, p, query.cols)
  BY <1>2, <1>3 DEF SortedSoFar
<1>5. rows \in Seq(Rows(query.cols)) /\ Len(rows) = Len(Source)
  BY <1>2, <1>3 DEF RowsFit, SortedSoFar
<1>6. SortedFrom(Source, p, Honoured, 0)
  <2>1. CASE Joins(query)
    <3>. DEFINE again == InResult(query.order, query.cols)
    <3>1. query.order \in Seq(Key) /\ query.cols \subseteq Columns
      BY <1>1, <2>1 DEF QueryFits, Query, SourceCols
    <3>2. Honoured = InResult(query.order, Columns)
      BY <2>1 DEF Honoured, SourceCols, Joins
    <3>3. \A m, n \in DOMAIN query.order :
             m < n /\ query.order[m].col \notin query.cols =>
                query.order[n].col \notin query.cols
      BY <2>1 DEF KeyOvertaken
    <3>4. /\ Len(again) <= Len(Honoured)
          /\ \A n \in 1 .. Len(again) : again[n] = Honoured[n]
      <4>1. /\ Len(again) <= Len(InResult(query.order, Columns))
            /\ \A n \in 1 .. Len(again) :
                  again[n] = InResult(query.order, Columns)[n]
        BY <3>1, <3>3, InResultPrefix
      <4>. QED  BY <3>2, <4>1
    <3>5. again \in Seq(Key) /\ Honoured \in Seq(Key)
      BY <1>1, PassesFacts, HonouredFacts
    <3>6. SortedFrom(Source, p, again \o Honoured, 0)
      BY <1>4, <2>1 DEF Passes
    <3>. HIDE DEF again
    <3>. QED  BY <3>4, <3>5, <3>6, SortedAgain
  <2>2. CASE ~Joins(query)
    BY <1>4, <2>2 DEF Passes
  <2>. QED  BY <2>1, <2>2
<1>. QED  BY <1>1, <1>4, <1>5, <1>6, PickedInOrder

(* There is nothing to sort, or nothing to sort by. *)
LEMMA AlreadySorted ==
    ASSUME QueryFits, AllComparable, query.from = "table", query.shape = "columns",
           Len(Honoured) = 0 \/ Len(first) <= 1
    PROVE  /\ Projected(first, query.cols) = Sorted
           /\ Sorted \in Seq(Rows(query.cols)) /\ Len(Sorted) = Len(first)
<1>1. Source = first
  BY DEF Source, Joins
<1>2. /\ Source \in Seq(Rows(SourceCols(query)))
      /\ Len(Source) \in Nat /\ DOMAIN Source = 1 .. Len(Source)
      /\ query.cols \subseteq SourceCols(query)
  BY SourceFacts DEF QueryFits
<1>3. PICK p : /\ Shuffle(p, Len(Source))
               /\ SortedFrom(Source, p, Honoured, Len(Honoured))
               /\ \A n \in 1 .. Len(Source) : p[n] = n
  BY PickedAtFirst
<1>4. SortedFrom(Source, p, Honoured, 0)
  <2>1. CASE Len(Honoured) = 0
    BY <1>3, <2>1
  <2>2. CASE Len(first) <= 1
    <3>1. \A m, n \in 1 .. Len(Source) : ~(m < n)
      BY <1>1, <1>2, <2>2
    <3>. QED  BY <1>2, <3>1 DEF SortedFrom
  <2>. QED  BY <2>1, <2>2
<1>5. PICK s : s = Projected(Source, query.cols)
  OBVIOUS
<1>6. s \in Seq(Rows(query.cols)) /\ Len(s) = Len(Source)
  <2>1. PICK all : /\ all = SourceCols(query)
                   /\ Source \in Seq(Rows(all)) /\ query.cols \subseteq all
    BY <1>2
  <2>2. /\ Projected(Source, query.cols) \in Seq(Rows(query.cols))
        /\ Len(Projected(Source, query.cols)) = Len(Source)
    BY ONLY <2>1, ProjectedFacts
  <2>. QED  BY ONLY <1>5, <2>2
<1>7. Picked(s, p, query.cols)
  <2>1. \A n \in 1 .. Len(Source) : \A col \in query.cols :
           s[n][col] = Source[n][col]
    BY <1>2, <1>5 DEF Projected
  <2>. QED  BY <1>3, <2>1 DEF Picked
<1>8. s = Sorted
  BY <1>3, <1>4, <1>6, <1>7, PickedInOrder
<1>. QED  BY <1>1, <1>5, <1>6, <1>8

LEMMA PlainIsSorted ==
    ASSUME QueryFits, AllComparable, Plain(query), query.from = "table",
           query.shape = "columns"
    PROVE  Projected(first, query.cols) = Expected
<1>1. Honoured = InResult(<<>>, SourceCols(query))
  BY DEF Honoured, Plain
<1>2. Len(Honoured) = 0
  BY <1>1, NoKeys
<1>3. /\ Projected(first, query.cols) = Sorted
      /\ Sorted \in Seq(Rows(query.cols))
  BY <1>2, AlreadySorted
<1>4. Expected = Cut(Sorted, 0, NoLimit)
  BY DEF Expected, Sorted, Plain
<1>. QED  BY <1>3, <1>4, WholePage

(* One row is a page of its own, unless OFFSET or LIMIT leave it out.      *)
LEMMA OneRowIsAPage ==
    ASSUME QueryFits, AllComparable, ByKey(query), ~PageIgnored
    PROVE  /\ Projected(first, query.cols) = Expected
           /\ Expected \in Seq(Rows(query.cols)) /\ Len(Expected) <= 1
<1>1. /\ query.from = "table" /\ query.shape = "columns" /\ Len(first) <= 1
      /\ Len(first) \in Nat
      /\ query.offset = 0 /\ query.limit \in (Nat \ {0}) \cup {NoLimit}
  BY DEF QueryFits, Query, ByKey, PageIgnored
<1>2. PICK s : s = Sorted
  OBVIOUS
<1>3. /\ Projected(first, query.cols) = s
      /\ s \in Seq(Rows(query.cols)) /\ Len(s) = Len(first)
  BY <1>1, <1>2, AlreadySorted
<1>4. Expected = Cut(s, 0, query.limit)
  BY <1>1, <1>2 DEF Expected, Sorted
<1>5. Cut(s, 0, query.limit) = s
  <2>1. CASE query.limit = NoLimit
    BY <1>3, <2>1, WholePage
  <2>2. CASE query.limit # NoLimit
    <3>1. query.limit \in Nat /\ query.limit >= Len(s) /\ Len(s) \in Nat
      BY <1>1, <1>3, <2>2
    <3>2. Smaller(0 + query.limit, Len(s)) = Len(s)
      BY <3>1 DEF Smaller
    <3>3. Cut(s, 0, query.limit) = SubSeq(s, 1, Len(s))
      BY <2>2, <3>2 DEF Cut
    <3>. QED  BY <1>3, <3>1, <3>3
  <2>. QED  BY <2>1, <2>2
<1>. QED  BY <1>1, <1>3, <1>4, <1>5

LEMMA PageInvNext ==
    Frame /\ RowsFit /\ SortInv /\ PageInv /\ [Next]_vars => PageInv'
<1>. SUFFICES ASSUME Frame, RowsFit, SortInv, PageInv, [Next]_vars
              PROVE  PageInv'
  OBVIOUS
<1>. DEFINE Fixed == query' = query /\ first' = first /\ second' = second
            Same == /\ Lists' = Lists /\ AllComparable' = AllComparable
                    /\ KeyOvertaken' = KeyOvertaken
                    /\ Sorted' = Sorted /\ Expected' = Expected
<1>1. QueryFits /\ StageFits /\ KeysFit
  BY DEF Frame
<1>2. Fixed => Same
  BY Unmoved
<1>3. ASSUME stage' \notin {"page", "distinct", "done"} PROVE PageInv'
  BY <1>3 DEF PageInv, PagesOfOneOrder, DistinctPage
<1>4. ASSUME Fixed, stage' = "done", ~Lists PROVE PageInv'
  BY <1>2, <1>4 DEF PageInv, PagesOfOneOrder, DistinctPage
<1>. HIDE DEF Same
<1>5. CASE stage = "idle" /\ \E asked \in Asked : Ask(asked[1], asked[2], asked[3])
  BY <1>3, <1>5 DEF Ask
<1>6. CASE Union
  BY <1>4, <1>6 DEF Union, Goes, tables, Lists
<1>7. CASE Join
  BY <1>3, <1>7 DEF Join, Goes
<1>8. CASE AggregateAll
  BY <1>4, <1>8 DEF AggregateAll, Goes, tables, Lists
<1>9. CASE GroupTable
  BY <1>4, <1>9 DEF GroupTable, Goes, tables, Lists
<1>10. CASE GroupJoined
  BY <1>3, <1>10 DEF GroupJoined, Goes
<1>11. CASE SelectExpressions
  BY <1>3, <1>11 DEF SelectExpressions, Goes
<1>12. CASE SelectPlain
  <2>1. /\ Fixed /\ rows' = Projected(first, query.cols) /\ stage' = "done"
        /\ query.from = "table" /\ query.shape = "columns" /\ Plain(query)
    BY <1>12 DEF SelectPlain, Goes, tables
  <2>2. AllComparable => rows' = Expected
    BY <1>1, <2>1, PlainIsSorted
  <2>3. PagesOfOneOrder'
    BY <1>2, <2>1, <2>2 DEF PagesOfOneOrder, Same
  <2>4. DistinctPage'
    BY <2>1 DEF DistinctPage, Plain
  <2>. QED  BY <2>1, <2>3, <2>4 DEF PageInv
<1>13. CASE SelectOrdered
  BY <1>3, <1>13 DEF SelectOrdered, Goes
<1>14. CASE SortPass
  BY <1>3, <1>14 DEF SortPass, Sorting, Goes
<1>15. CASE SortPanic
  BY <1>3, <1>15 DEF SortPanic, Over
<1>16. CASE Project
  <2>1. /\ Fixed /\ rows' = Projected(rows, query.cols) /\ stage = "sort"
        /\ keys = <<>>
        /\ stage' = IF Joins(query) THEN "sort_result" ELSE "page"
    BY <1>16 DEF Project, Goes, tables
  <2>2. CASE Joins(query)
    BY <1>3, <2>1, <2>2
  <2>3. CASE ~Joins(query)
    <3>1. Lists
      BY <1>1, <2>1, <2>3 DEF StageFits, Paged, Lists
    <3>2. ASSUME AllComparable PROVE rows' = Sorted
      <4>1. SortedSoFar(rows, <<>>, Honoured, SourceCols(query))
        BY <2>1, <3>1, <3>2 DEF SortInv, Passes, ShownCols
      <4>2. PICK p : /\ Shuffle(p, Len(Source))
                     /\ SortedFrom(Source, p, Honoured, 0)
                     /\ Picked(rows, p, SourceCols(query))
        BY <4>1 DEF SortedSoFar
      <4>3. rows \in Seq(Rows(SourceCols(query))) /\ Len(rows) = Len(Source)
        BY <1>1, <2>1, PermutedColumns DEF RowsFit
      <4>4. query.cols \subseteq SourceCols(query) /\ Len(Source) \in Nat
        BY <1>1, SourceFacts DEF QueryFits
      <4>5. PICK s : s = Projected(rows, query.cols)
        OBVIOUS
      <4>6. s \in Seq(Rows(query.cols)) /\ Len(s) = Len(Source)
        BY <4>3, <4>4, <4>5, ProjectedFacts
      <4>7. Picked(s, p, query.cols)
        BY <4>2, <4>3, <4>4, <4>5 DEF Picked, Projected
      <4>8. s = Sorted
        BY <1>1, <3>2, <4>2, <4>6, <4>7, PickedInOrder
      <4>. QED  BY <2>1, <4>5, <4>8
    <3>. QED  BY <1>2, <2>1, <2>3, <3>2
              DEF PageInv, PagesOfOneOrder, DistinctPage, Same
  <2>. QED  BY <2>2, <2>3
<1>17. CASE Page /\ stage = "page"
  <2>1. /\ Fixed /\ stage' = "distinct" /\ ~Grouped(query)
        /\ rows' = Cut(rows, query.offset, query.limit)
    BY <1>1, <1>17 DEF Page, Goes, tables, StageFits, Paged
  <2>2. AllComparable => rows' = Expected
    BY <1>17, <2>1 DEF PageInv, Expected, Sorted
  <2>. QED  BY <1>2, <2>1, <2>2 DEF PageInv, PagesOfOneOrder, DistinctPage, Same
<1>18. CASE Page /\ stage # "page"
  <2>1. /\ Fixed /\ stage' = "done" /\ stage = "sort_result" /\ keys = <<>>
        /\ ~Grouped(query) => rows' = Cut(rows, query.offset, query.limit)
    BY <1>18 DEF Page, Goes, tables
  <2>2. ASSUME Lists, AllComparable, ~KeyOvertaken PROVE rows' = Expected
    <3>1. rows = Sorted
      BY <2>1, <2>2, AllSorted
    <3>. QED  BY <2>1, <2>2, <3>1 DEF Lists, Expected, Sorted
  <2>3. ~(query.from = "table" /\ query.shape = "columns")
    BY <1>1, <2>1 DEF StageFits, Joins
  <2>4. PagesOfOneOrder'
    <3>. SUFFICES ASSUME Lists', AllComparable', ~KeyOvertaken'
                  PROVE  rows' = Expected'
      BY DEF PagesOfOneOrder
    <3>1. Same
      BY <1>2, <2>1
    <3>2. Lists /\ AllComparable /\ ~KeyOvertaken /\ Expected' = Expected
      BY <3>1 DEF Same
    <3>. QED  BY <2>2, <3>2
  <2>5. DistinctPage'
    BY <2>1, <2>3 DEF DistinctPage
  <2>. QED  BY <2>1, <2>4, <2>5 DEF PageInv
<1>19. CASE Distinct
  <2>1. /\ Fixed /\ stage = "distinct" /\ stage' = "done"
        /\ rows' = IF query.distinct THEN FirstOnes(rows) ELSE rows
    BY <1>19 DEF Distinct, Goes, tables
  <2>2. rows \in Seq(Rows(query.cols)) /\ (AllComparable => rows = Expected)
    BY <2>1 DEF RowsFit, PageInv
  <2>3. query.from = "table" /\ query.shape = "columns"
    BY <1>1, <2>1 DEF StageFits, Paged
  <2>4. PagesOfOneOrder'
    BY <1>2, <2>1, <2>2, <2>3 DEF PagesOfOneOrder, Same
  <2>5. DistinctPage'
    <3>. SUFFICES ASSUME AllComparable, query.distinct
                  PROVE  DistinctPage'
      BY <1>2, <2>1 DEF DistinctPage, Same
    <3>1. PICK s : s = rows
      OBVIOUS
    <3>2. s \in Seq(Rows(query.cols)) /\ s = Expected /\ rows' = FirstOnes(s)
      BY <2>1, <2>2, <3>1
    <3>3. /\ Members(FirstOnes(s)) = Members(s)
          /\ \A m, n \in DOMAIN FirstOnes(s) :
                FirstOnes(s)[m] = FirstOnes(s)[n] => m = n
      BY <3>2, FirstOnesFacts
    <3>4. /\ Members(rows') = Members(Expected')
          /\ \A m, n \in DOMAIN rows' : rows'[m] = rows'[n] => m = n
      BY <1>2, <2>1, <3>2, <3>3 DEF Same
    <3>. QED  BY <3>4 DEF DistinctPage, Members
  <2>. QED  BY <2>1, <2>4, <2>5 DEF PageInv
<1>20. CASE Answer
  BY <1>3, <1>20 DEF Answer, Over
<1>21. CASE UNCHANGED vars
  <2>1. Fixed /\ stage' = stage /\ rows' = rows
    BY <1>21 DEF vars, tables
  <2>2. PagesOfOneOrder'
    <3>1. PageIgnored' = PageIgnored
      BY <2>1 DEF PageIgnored, ByKey, Grouped
    <3>. QED  BY <1>2, <2>1, <3>1 DEF PageInv, PagesOfOneOrder, Same
  <2>3. DistinctPage'
    <3>1. Plain(query)' = Plain(query) /\ PageIgnored' = PageIgnored
      BY <2>1 DEF Plain, PageIgnored, ByKey, Grouped
    <3>2. DistinctPage
      BY DEF PageInv
    <3>3. Members(rows)' = Members(rows) /\ Members(Expected)' = Members(Expected)
      BY <1>2, <2>1 DEF Same
    <3>. QED  BY <1>2, <2>1, <3>1, <3>2, <3>3 DEF DistinctPage, Same, Members
  <2>. QED  BY <1>2, <2>1, <2>2, <2>3 DEF PageInv, Same
<1>22. CASE SelectByKey
  <2>1. /\ Fixed /\ rows' = Projected(first, query.cols) /\ stage' = "done"
        /\ ByKey(query)
    BY <1>22 DEF SelectByKey, Goes, tables
  <2>2. PageIgnored' = PageIgnored
    BY <2>1 DEF PageIgnored, ByKey, Grouped
  <2>3. ASSUME AllComparable, ~PageIgnored
        PROVE  /\ rows' = Expected
               /\ \A m, n \in DOMAIN rows' : rows'[m] = rows'[n] => m = n
    <3>1. PICK s : s = Expected
      OBVIOUS
    <3>2. rows' = s /\ s \in Seq(Rows(query.cols)) /\ Len(s) <= 1
      BY <1>1, <2>1, <2>3, <3>1, OneRowIsAPage
    <3>3. \A m, n \in DOMAIN s : m = n
      BY <3>2
    <3>. QED  BY <3>1, <3>2, <3>3
  <2>4. PagesOfOneOrder'
    BY <1>2, <2>1, <2>2, <2>3 DEF PagesOfOneOrder, Same
  <2>5. DistinctPage'
    <3>. SUFFICES ASSUME AllComparable, ~PageIgnored
                  PROVE  DistinctPage'
      BY <1>2, <2>1, <2>2 DEF DistinctPage, Same
    <3>1. /\ Members(rows') = Members(Expected')
          /\ \A m, n \in DOMAIN rows' : rows'[m] = rows'[n] => m = n
      BY <1>2, <2>1, <2>3 DEF Same
    <3>. QED  BY <3>1 DEF DistinctPage, Members
  <2>. QED  BY <2>1, <2>4, <2>5 DEF PageInv
<1>. QED  BY <1>5, <1>6, <1>7, <1>8, <1>9, <1>10, <1>11, <1>12, <1>13, <1>14,
          <1>15, <1>16, <1>17, <1>18, <1>19, <1>20, <1>21, <1>22 DEF Next

LEMMA PagesHold == Spec => [](SortInv /\ PageInv)
<1>1. Init => SortInv /\ PageInv
  BY DEF Init, SortInv, PageInv, PagesOfOneOrder, DistinctPage
<1>. QED  BY <1>1, FrameHolds, RowsFitHolds, SortInvNext, PageInvNext, PTL DEF Spec

(* Stable passes of the sort, from the last key of ORDER BY to the first,  *)
(* before or after the projection, then OFFSET and LIMIT, give the page of *)
(* the lexicographic order that the client asked for; so does the row that *)
(* the index has for a key, unless the page leaves it out.                 *)
THEOREM PagesAreConsistent == Spec => []PagesOfOneOrder
<1>1. PageInv => PagesOfOneOrder
  BY DEF PageInv
<1>. QED  BY <1>1, PagesHold, PTL

(* DISTINCT leaves of each page its values, each once.  A query by key     *)
(* passes DISTINCT over, but has one row, unless OFFSET or LIMIT leave it  *)
(* out and the code does not.                                              *)
THEOREM DistinctKeepsThePage == Spec => []DistinctPage
<1>1. PageInv => DistinctPage
  BY DEF PageInv
<1>. QED  BY <1>1, PagesHold, PTL

-----------------------------------------------------------------------------
(* Sums over parts of a sequence. *)

Masked(w, K) == [n \in 1 .. Len(w) |-> IF n \in K THEN w[n] ELSE 0]

LEMMA MaskedFacts ==
    ASSUME NEW w \in Seq(Int), NEW K
    PROVE  /\ Masked(w, K) \in Seq(Int) /\ Len(Masked(w, K)) = Len(w)
           /\ \A n \in 1 .. Len(w) :
                 Masked(w, K)[n] = IF n \in K THEN w[n] ELSE 0
<1>1. Len(w) \in Nat /\ \A n \in 1 .. Len(w) : w[n] \in Int
  OBVIOUS
<1>2. Masked(w, K) \in [1 .. Len(w) -> Int]
  BY <1>1 DEF Masked
<1>3. Masked(w, K) \in Seq(Int) /\ Len(Masked(w, K)) = Len(w)
  <2>. HIDE DEF Masked
  <2>. QED  BY <1>1, <1>2, FunctionIsSeq
<1>. QED  BY <1>3 DEF Masked

(* Disjoint parts add up. *)
LEMMA MaskedAddUp ==
    ASSUME NEW w \in Seq(Int), NEW K, NEW L, K \cap L = {}
    PROVE  Sum(Masked(w, K \cup L)) = Sum(Masked(w, K)) + Sum(Masked(w, L))
<1>. DEFINE N == Len(w)
            a == Masked(w, K)
            b == Masked(w, L)
            c == Masked(w, K \cup L)
<1>1. N \in Nat /\ \A n \in 1 .. N : w[n] \in Int
  OBVIOUS
<1>2. /\ a \in Seq(Int) /\ Len(a) = N
      /\ b \in Seq(Int) /\ Len(b) = N
      /\ c \in Seq(Int) /\ Len(c) = N
      /\ \A n \in 1 .. N : a[n] = IF n \in K THEN w[n] ELSE 0
      /\ \A n \in 1 .. N : b[n] = IF n \in L THEN w[n] ELSE 0
      /\ \A n \in 1 .. N : c[n] = IF n \in K \cup L THEN w[n] ELSE 0
  BY MaskedFacts
<1>. HIDE DEF a, b, c, N
<1>3. ASSUME NEW n \in 1 .. N
      PROVE  c[n] = a[n] + b[n] /\ a[n] \in Int /\ b[n] \in Int
  <2>1. w[n] \in Int /\ ~(n \in K /\ n \in L)
    BY <1>1
  <2>2. /\ a[n] = IF n \in K THEN w[n] ELSE 0
        /\ b[n] = IF n \in L THEN w[n] ELSE 0
        /\ c[n] = IF n \in K \/ n \in L THEN w[n] ELSE 0
    BY <1>2
  <2>. QED  BY <2>1, <2>2
<1>4. PICK t : t \in RunningSums(a)
  BY <1>2, RunningSumExists
<1>5. PICK u : u \in RunningSums(b)
  BY <1>2, RunningSumExists
<1>. DEFINE v == [n \in 0 .. N |-> t[n] + u[n]]
<1>6. t \in [0 .. N -> Int] /\ t[0] = 0 /\ \A n \in 1 .. N : t[n] = t[n - 1] + a[n]
  BY <1>2, <1>4 DEF RunningSums
<1>7. u \in [0 .. N -> Int] /\ u[0] = 0 /\ \A n \in 1 .. N : u[n] = u[n - 1] + b[n]
  BY <1>2, <1>5 DEF RunningSums
<1>8. v \in RunningSums(c)
  <2>1. v \in [0 .. N -> Int] /\ v[0] = 0
    BY <1>1, <1>6, <1>7
  <2>2. ASSUME NEW n \in 1 .. N
        PROVE  v[n] = v[n - 1] + c[n]
    <3>1. n \in 0 .. N /\ n - 1 \in 0 .. N
      BY <1>1
    <3>2. /\ t[n - 1] \in Int /\ u[n - 1] \in Int
          /\ t[n] = t[n - 1] + a[n] /\ u[n] = u[n - 1] + b[n]
      BY <1>6, <1>7, <3>1
    <3>3. v[n] = t[n] + u[n] /\ v[n - 1] = t[n - 1] + u[n - 1]
      BY <3>1
    <3>. QED  BY <1>3, <3>2, <3>3
  <2>. HIDE DEF v
  <2>. QED  BY <1>2, <2>1, <2>2 DEF RunningSums
<1>9. Sum(a) = t[N] /\ Sum(b) = u[N]
  BY <1>2, <1>4, <1>5, SumFacts
<1>10. Sum(c) = v[N]
  <2>. HIDE DEF v
  <2>. QED  BY <1>2, <1>8, SumFacts
<1>11. Sum(c) = Sum(a) + Sum(b)
  BY <1>1, <1>9, <1>10
<1>. QED  BY <1>11 DEF a, b, c

LEMMA MaskedNothing ==
    ASSUME NEW w \in Seq(Int)
    PROVE  Sum(Masked(w, {})) = 0
<1>. DEFINE t == [n \in 0 .. Len(w) |-> 0]
            m == Masked(w, {})
<1>1. Len(w) \in Nat /\ m \in Seq(Int) /\ Len(m) = Len(w)
      /\ \A n \in 1 .. Len(w) : m[n] = 0
  BY MaskedFacts
<1>. HIDE DEF m
<1>2. /\ t \in [0 .. Len(m) -> Int] /\ t[0] = 0 /\ t[Len(w)] = 0
      /\ \A n \in 1 .. Len(m) : t[n] = t[n - 1] + m[n]
  <2>1. t \in [0 .. Len(m) -> Int] /\ t[0] = 0 /\ t[Len(w)] = 0
    BY <1>1
  <2>2. ASSUME NEW n \in 1 .. Len(m)
        PROVE  t[n] = t[n - 1] + m[n]
    <3>1. n \in 0 .. Len(w) /\ n - 1 \in 0 .. Len(w) /\ m[n] = 0
      BY <1>1
    <3>. QED  BY <3>1
  <2>. QED  BY <2>1, <2>2
<1>. HIDE DEF t
<1>3. t \in RunningSums(m)
  BY <1>2 DEF RunningSums
<1>4. Sum(m) = 0
  BY <1>1, <1>2, <1>3, SumFacts
<1>. QED  BY <1>4 DEF m

(* The sum of what remains of a sequence. *)
LEMMA KeptSum ==
    ASSUME NEW w \in Seq(Int), NEW K, K \subseteq DOMAIN w
    PROVE  Kept(w, K) \in Seq(Int) /\ Sum(Kept(w, K)) = Sum(Masked(w, K))
<1>. DEFINE N == Len(w)
            k == Kept(w, K)
            m == Masked(w, K)
            C == Cardinality(K)
            turn == InTurn(Places(K))
            Part(n) == K \cap (1 .. n)
            c(n) == Cardinality(Part(n))
<1>1. N \in Nat /\ DOMAIN w = 1 .. N /\ K \subseteq 1 .. N
  OBVIOUS
<1>2. IsFiniteSet(K) /\ Places(K) \in [K -> SUBSET K] /\ Linear(Places(K))
  BY <1>1, PlacesLinear
<1>3. /\ C \in Nat
      /\ turn \in [1 .. C -> K]
      /\ \A n \in 1 .. C : Cardinality(Places(K)[turn[n]]) = n - 1
      /\ \A x \in K : \E n \in 1 .. C : turn[n] = x
  BY <1>2, TurnFacts
<1>4. /\ k \in Seq(Int) /\ Len(k) = C
      /\ \A n \in 1 .. C : k[n] = w[turn[n]]
  <2>1. K \subseteq DOMAIN w
    OBVIOUS
  <2>. QED  BY ONLY <2>1, w \in Seq(Int), KeptFacts DEF k, C, turn
<1>5. /\ m \in Seq(Int) /\ Len(m) = N
      /\ \A n \in 1 .. N : m[n] = IF n \in K THEN w[n] ELSE 0
  BY MaskedFacts
<1>. HIDE DEF k, m, turn, C, N
<1>6. \A n \in 0 .. N : c(n) \in 0 .. C
  <2>1. ASSUME NEW n \in 0 .. N PROVE c(n) \in 0 .. C
    <3>1. Part(n) \in SUBSET K
      OBVIOUS
    <3>. HIDE DEF Part
    <3>2. IsFiniteSet(Part(n)) /\ Cardinality(Part(n)) <= Cardinality(K)
      BY <1>2, <3>1, FS_Subset
    <3>3. Cardinality(Part(n)) \in Nat
      BY <3>2, FS_CardinalityType
    <3>. QED  BY <1>3, <3>2, <3>3 DEF C
  <2>. QED  BY <2>1
<1>7. c(0) = 0
  <2>1. Part(0) = {}
    BY <1>1
  <2>. QED  BY <2>1, FS_EmptySet
<1>8. c(N) = C
  <2>1. Part(N) = K
    BY <1>1
  <2>. QED  BY <2>1 DEF C
<1>9. ASSUME NEW n \in 1 .. N, n \notin K
      PROVE  c(n) = c(n - 1)
  <2>1. Part(n) = Part(n - 1)
    BY <1>1, <1>9
  <2>. HIDE DEF Part
  <2>. QED  BY <2>1
<1>10. ASSUME NEW n \in 1 .. N, n \in K
       PROVE  c(n) = c(n - 1) + 1 /\ c(n - 1) + 1 \in 1 .. C /\ k[c(n - 1) + 1] = w[n]
  <2>1. PICK i \in 1 .. C : turn[i] = n
    BY <1>3, <1>10
  <2>2. Places(K)[n] = Part(n - 1)
    BY <1>1, <1>10 DEF Places
  <2>3. c(n - 1) = i - 1
    BY <1>3, <2>1, <2>2
  <2>4. c(n) = c(n - 1) + 1
    <3>1. Part(n) = Part(n - 1) \cup {n} /\ n \notin Part(n - 1)
      BY <1>1, <1>10
    <3>2. IsFiniteSet(Part(n - 1))
      <4>1. Part(n - 1) \in SUBSET K
        OBVIOUS
      <4>. HIDE DEF Part
      <4>. QED  BY <1>2, <4>1, FS_Subset
    <3>. HIDE DEF Part
    <3>. QED  BY <3>1, <3>2, FS_AddElement
  <2>5. c(n - 1) + 1 = i
    BY <2>1, <2>3
  <2>. QED  BY <1>4, <2>1, <2>4, <2>5
<1>11. PICK t : t \in RunningSums(m)
  BY <1>5, RunningSumExists
<1>12. PICK u : u \in RunningSums(k)
  BY <1>4, RunningSumExists
<1>13. t \in [0 .. N -> Int] /\ t[0] = 0 /\ \A n \in 1 .. N : t[n] = t[n - 1] + m[n]
  BY <1>5, <1>11 DEF RunningSums
<1>14. u \in [0 .. C -> Int] /\ u[0] = 0 /\ \A n \in 1 .. C : u[n] = u[n - 1] + k[n]
  BY <1>4, <1>12 DEF RunningSums
<1>. DEFINE T == {n \in 0 .. N : t[n] = u[c(n)]}
<1>15. 0 .. N \subseteq T
  <2>. HIDE DEF c
  <2>1. 0 \in T
    BY <1>1, <1>7, <1>13, <1>14
  <2>2. ASSUME NEW n \in (0 + 1) .. N, n - 1 \in T
        PROVE  n \in T
    <3>1. n \in 1 .. N /\ n - 1 \in 0 .. N /\ n \in 0 .. N
          /\ t[n - 1] = u[c(n - 1)] /\ t[n] = t[n - 1] + m[n] /\ t[n - 1] \in Int
      BY <1>1, <1>13, <2>2
    <3>2. CASE n \in K
      <4>1. /\ c(n) = c(n - 1) + 1 /\ c(n - 1) + 1 \in 1 .. C
            /\ k[c(n - 1) + 1] = w[n] /\ m[n] = w[n]
        BY <1>5, <1>10, <3>1, <3>2
      <4>2. c(n - 1) \in 0 .. C
        BY <1>6, <3>1
      <4>3. u[c(n - 1) + 1] = u[(c(n - 1) + 1) - 1] + k[c(n - 1) + 1]
        BY <1>14, <4>1
      <4>4. (c(n - 1) + 1) - 1 = c(n - 1)
        BY <4>2
      <4>. QED  BY <3>1, <4>1, <4>3, <4>4
    <3>3. CASE n \notin K
      <4>1. m[n] = 0 /\ c(n) = c(n - 1)
        BY <1>5, <1>9, <3>1, <3>3
      <4>. QED  BY <3>1, <4>1
    <3>. QED  BY <3>2, <3>3
  <2>. HIDE DEF T
  <2>. QED  BY <1>1, <2>1, <2>2, SetInduction
<1>16. t[N] = u[C]
  BY <1>1, <1>8, <1>15
<1>17. Sum(m) = t[N] /\ Sum(k) = u[C]
  BY <1>4, <1>5, <1>11, <1>12, SumFacts
<1>. QED  BY <1>4, <1>16, <1>17 DEF k, m

PartSums(w, P, M) == [n \in 1 .. M |-> Sum(Kept(w, P[n]))]

AllParts(P, M) == UNION {P[n] : n \in 1 .. M}

LEMMA PartsAddUp ==
    ASSUME NEW w \in Seq(Int), NEW M \in Nat, NEW P \in [1 .. M -> SUBSET (DOMAIN w)],
           \A m, n \in 1 .. M : m # n => P[m] \cap P[n] = {}
    PROVE  /\ PartSums(w, P, M) \in Seq(Int) /\ Len(PartSums(w, P, M)) = M
           /\ AllParts(P, M) \subseteq DOMAIN w
           /\ Sum(PartSums(w, P, M)) = Sum(Kept(w, AllParts(P, M)))
<1>. DEFINE z == PartSums(w, P, M)
            U(k) == UNION {P[n] : n \in 1 .. k}
            sum(k) == Sum(Masked(w, U(k)))
<1>1. ASSUME NEW n \in 1 .. M
      PROVE  z[n] = Sum(Masked(w, P[n])) /\ z[n] \in Int
  <2>1. P[n] \subseteq DOMAIN w
    OBVIOUS
  <2>2. Kept(w, P[n]) \in Seq(Int) /\ Sum(Kept(w, P[n])) = Sum(Masked(w, P[n]))
    BY <2>1, KeptSum
  <2>3. Sum(Kept(w, P[n])) \in Int
    BY <2>2, SumFacts
  <2>4. z[n] = Sum(Kept(w, P[n]))
    BY DEF PartSums
  <2>. QED  BY <2>2, <2>3, <2>4
<1>2. z = [n \in 1 .. M |-> z[n]]
  BY DEF PartSums
<1>. HIDE DEF z
<1>3. z \in [1 .. M -> Int]
  BY <1>1, <1>2
<1>4. z \in Seq(Int) /\ Len(z) = M
  BY <1>3, FunctionIsSeq
<1>5. PICK t : t \in RunningSums(z)
  BY <1>4, RunningSumExists
<1>6. t \in [0 .. M -> Int] /\ t[0] = 0 /\ \A n \in 1 .. M : t[n] = t[n - 1] + z[n]
  BY <1>4, <1>5 DEF RunningSums
<1>7. sum(0) = 0
  <2>1. U(0) = {}
    OBVIOUS
  <2>. QED  BY <2>1, MaskedNothing
<1>8. ASSUME NEW k \in 1 .. M
      PROVE  sum(k) = sum(k - 1) + z[k]
  <2>1. U(k) = U(k - 1) \cup P[k]
    <3>1. \A n : n \in 1 .. k <=> n \in 1 .. (k - 1) \/ n = k
      OBVIOUS
    <3>. QED  BY <3>1
  <2>2. U(k - 1) \cap P[k] = {}
    <3>1. \A n \in 1 .. (k - 1) : n \in 1 .. M /\ n # k
      OBVIOUS
    <3>. QED  BY <3>1
  <2>. HIDE DEF U
  <2>3. Sum(Masked(w, U(k - 1) \cup P[k]))
            = Sum(Masked(w, U(k - 1))) + Sum(Masked(w, P[k]))
    BY <2>2, MaskedAddUp
  <2>. QED  BY <1>1, <2>1, <2>3
<1>. DEFINE T == {k \in 0 .. M : t[k] = sum(k)}
<1>9. 0 .. M \subseteq T
  <2>. HIDE DEF sum
  <2>1. 0 \in T
    BY <1>6, <1>7
  <2>2. ASSUME NEW k \in (0 + 1) .. M, k - 1 \in T
        PROVE  k \in T
    <3>1. k \in 1 .. M /\ k \in 0 .. M /\ t[k - 1] = sum(k - 1)
      BY <2>2
    <3>. QED  BY <1>6, <1>8, <3>1
  <2>. HIDE DEF T
  <2>. QED  BY <2>1, <2>2, SetInduction
<1>10. Sum(z) = sum(M)
  <2>1. Sum(z) = t[M]
    BY <1>4, <1>5, SumFacts
  <2>2. M \in T
    <3>. HIDE DEF T
    <3>. QED  BY <1>9
  <2>. HIDE DEF sum
  <2>. QED  BY <2>1, <2>2
<1>11. AllParts(P, M) = U(M) /\ U(M) \subseteq DOMAIN w
  BY DEF AllParts
<1>. HIDE DEF U
<1>12. Sum(Kept(w, U(M))) = sum(M)
  BY <1>11, KeptSum
<1>. QED  BY <1>4, <1>10, <1>11, <1>12 DEF z

(* Counting is adding ones. *)
Ones(N) == [n \in 1 .. N |-> 1]

LEMMA KeptOnes ==
    ASSUME NEW N \in Nat, NEW K, K \subseteq 1 .. N
    PROVE  /\ Ones(N) \in Seq(Int) /\ DOMAIN Ones(N) = 1 .. N
           /\ Sum(Kept(Ones(N), K)) = Cardinality(K)
<1>. DEFINE w == Ones(N)
            k == Kept(w, K)
            C == Cardinality(K)
            t == [n \in 0 .. C |-> n]
<1>1. w \in Seq(Int) /\ DOMAIN w = 1 .. N /\ \A n \in 1 .. N : w[n] = 1
  <2>1. w \in [1 .. N -> Int] /\ \A n \in 1 .. N : w[n] = 1
    BY DEF Ones
  <2>. HIDE DEF w
  <2>. QED  BY <2>1, FunctionIsSeq
<1>. HIDE DEF w
<1>2. /\ C \in Nat
      /\ k \in Seq(Int) /\ Len(k) = C
      /\ \A n \in 1 .. C : k[n] = 1
  <2>1. K \subseteq DOMAIN w
    BY <1>1
  <2>2. /\ Cardinality(K) \in Nat
        /\ Kept(w, K) \in Seq(Int)
        /\ Len(Kept(w, K)) = Cardinality(K)
        /\ InTurn(Places(K)) \in [1 .. Cardinality(K) -> K]
        /\ \A n \in 1 .. Cardinality(K) : Kept(w, K)[n] = w[InTurn(Places(K))[n]]
    BY ONLY <1>1, <2>1, KeptFacts
  <2>3. \A n \in 1 .. Cardinality(K) : InTurn(Places(K))[n] \in 1 .. N
    BY <2>2
  <2>. QED  BY <1>1, <2>2, <2>3
<1>. HIDE DEF k, C
<1>3. t \in RunningSums(k) /\ t[Len(k)] = C
  BY <1>2 DEF RunningSums
<1>. HIDE DEF t
<1>4. Sum(k) = C
  BY <1>2, <1>3, SumFacts
<1>. QED  BY <1>1, <1>4 DEF k, C, w

LEMMA AmountsKept ==
    ASSUME NEW S, NEW s \in Seq(S), NEW K, K \subseteq DOMAIN s
    PROVE  Kept(Amounts(s), K) = Amounts(Kept(s, K))
<1>. DEFINE w == Amounts(s)
            k == Kept(s, K)
            wk == Kept(w, K)
            turn == InTurn(Places(K))
            C == Cardinality(K)
<1>1. /\ w \in Seq(Int) /\ Len(w) = Len(s)
      /\ \A n \in 1 .. Len(s) : w[n] = Amount(s[n])
  BY AmountsFacts
<1>2. DOMAIN s = 1 .. Len(s) /\ DOMAIN w = 1 .. Len(s) /\ K \subseteq 1 .. Len(s)
  BY <1>1
<1>3. /\ C \in Nat
      /\ turn \in [1 .. C -> K]
      /\ k \in Seq(S) /\ Len(k) = C
      /\ \A n \in 1 .. C : k[n] = s[turn[n]]
  <2>1. K \subseteq DOMAIN s
    OBVIOUS
  <2>. QED  BY ONLY <2>1, s \in Seq(S), KeptFacts DEF k, turn, C
<1>. HIDE DEF w
<1>4. /\ wk \in Seq(Int) /\ Len(wk) = C
      /\ \A n \in 1 .. C : wk[n] = w[turn[n]]
  <2>1. K \subseteq DOMAIN w
    BY <1>2
  <2>2. w \in Seq(Int)
    BY <1>1
  <2>. QED  BY ONLY <2>1, <2>2, KeptFacts DEF wk, turn, C
<1>5. /\ Amounts(k) \in Seq(Int)
      /\ Len(Amounts(k)) = Len(k)
      /\ \A n \in 1 .. Len(k) : Amounts(k)[n] = Amount(k[n])
  <2>. HIDE DEF k
  <2>. QED  BY <1>3, AmountsFacts
<1>. HIDE DEF k, wk, turn, C
<1>6. \A n \in 1 .. C : wk[n] = Amounts(k)[n]
  <2>1. \A n \in 1 .. C : turn[n] \in 1 .. Len(s)
    BY <1>2, <1>3
  <2>. QED  BY <1>1, <1>3, <1>4, <1>5, <2>1
<1>7. /\ wk = [n \in 1 .. C |-> wk[n]]
      /\ Amounts(k) = [n \in 1 .. C |-> Amounts(k)[n]]
  BY <1>3, <1>4, <1>5
<1>8. wk = Amounts(k)
  BY <1>6, <1>7
<1>. QED  BY <1>8 DEF wk, w, k

-----------------------------------------------------------------------------
(* Groups add up. *)

(* The rows t are the groups of s that have more than so many rows. *)
ListsGroups(t, s, group, least) ==
    /\ DOMAIN t = 1 .. Len(t) /\ Len(t) \in Nat
    /\ \E val \in [1 .. Len(t) -> GroupKeys(s, group)] :
          /\ \A m, n \in 1 .. Len(t) : val[m] = val[n] => m = n
          /\ \A v \in GroupKeys(s, group) :
                Len(Group(s, group, v)) > least <=> \E n \in 1 .. Len(t) : val[n] = v
          /\ \A n \in 1 .. Len(t) :
                t[n] = Aggregate(Group(s, group, val[n]), group)

(* The places of the rows that are in one of them. *)
GroupedPlaces(s, group, least) ==
    {n \in DOMAIN s : Len(Group(s, group, s[n][group])) > least}

Integers(s) == {s[n][Addend] : n \in DOMAIN s} \cap Numbers

Maxima(t) == {t[n]["max"] : n \in DOMAIN t} \cap Numbers

LEMMA IntegersKept ==
    ASSUME NEW S, NEW s \in Seq(S), NEW K, K \subseteq DOMAIN s
    PROVE  Integers(Kept(s, K)) = {s[n][Addend] : n \in K} \cap Numbers
<1>. DEFINE k == Kept(s, K)
            turn == InTurn(Places(K))
            C == Cardinality(K)
<1>1. /\ C \in Nat
      /\ turn \in [1 .. C -> K]
      /\ k \in Seq(S) /\ Len(k) = C
      /\ \A n \in 1 .. C : k[n] = s[turn[n]]
      /\ \A x \in K : \E n \in 1 .. C : turn[n] = x
  <2>1. K \subseteq DOMAIN s
    OBVIOUS
  <2>. QED  BY ONLY <2>1, s \in Seq(S), KeptFacts DEF k, turn, C
<1>. HIDE DEF k, turn, C
<1>2. DOMAIN k = 1 .. C
  BY <1>1
<1>3. {k[n][Addend] : n \in DOMAIN k} = {s[n][Addend] : n \in K}
  <2>1. ASSUME NEW n \in DOMAIN k
        PROVE  \E x \in K : k[n][Addend] = s[x][Addend]
    BY <1>1, <1>2
  <2>2. ASSUME NEW x \in K
        PROVE  \E n \in DOMAIN k : k[n][Addend] = s[x][Addend]
    <3>1. PICK n \in 1 .. C : turn[n] = x
      BY <1>1
    <3>. QED  BY <1>1, <1>2, <3>1
  <2>. QED  BY <2>1, <2>2
<1>. QED  BY <1>3 DEF Integers, k

LEMMA GreatestOf ==
    ASSUME NEW S, NEW s \in Seq(S)
    PROVE  /\ Greatest(s) = NULL <=> Integers(s) = {}
           /\ Greatest(s) \in Numbers <=> Integers(s) # {}
           /\ Integers(s) # {} => Greatest(s) \in Integers(s)
           /\ \A w \in Integers(s) : w <= Greatest(s)
<1>1. /\ Integers(s) = {} => Greatest(s) = NULL
      /\ Integers(s) # {} => /\ Greatest(s) \in Integers(s)
                             /\ \A w \in Integers(s) : w <= Greatest(s)
  BY GreatestFacts DEF Integers
<1>2. Integers(s) \subseteq Numbers /\ NULL \notin Numbers
  BY ValueAssumption DEF Integers
<1>. QED  BY <1>1, <1>2

LEMMA GroupedAddUp ==
    ASSUME NEW S, NEW s \in Seq(S), NEW group, group \notin Figures,
           group # NoGroup, NEW least, NEW t, ListsGroups(t, s, group, least)
    PROVE  /\ SumOf(t, "count") = Len(Kept(s, GroupedPlaces(s, group, least)))
           /\ SumOf(t, "sum") = Total(Kept(s, GroupedPlaces(s, group, least)))
           /\ Maxima(t) = {}
                <=> Greatest(Kept(s, GroupedPlaces(s, group, least))) = NULL
           /\ \A n \in DOMAIN t : t[n]["max"] \in Numbers =>
                 t[n]["max"] <= Greatest(Kept(s, GroupedPlaces(s, group, least)))
           /\ \A m, n \in DOMAIN t : t[m][group] = t[n][group] => m = n
<1>. DEFINE M == Len(t)
            N == Len(s)
            V == GroupKeys(s, group)
            G(v) == Group(s, group, v)
            All == GroupedPlaces(s, group, least)
            all == Kept(s, All)
<1>1. M \in Nat /\ DOMAIN t = 1 .. M /\ N \in Nat /\ DOMAIN s = 1 .. N
  BY DEF ListsGroups
<1>2. PICK val \in [1 .. M -> V] :
         /\ \A m, n \in 1 .. M : val[m] = val[n] => m = n
         /\ \A v \in V : Len(G(v)) > least <=> \E n \in 1 .. M : val[n] = v
         /\ \A n \in 1 .. M : t[n] = Aggregate(G(val[n]), group)
  BY DEF ListsGroups
<1>. DEFINE P == [n \in 1 .. M |-> GroupPlaces(s, group, val[n])]
<1>. HIDE DEF M, N
<1>3. ASSUME NEW n \in 1 .. M
      PROVE  /\ P[n] \subseteq DOMAIN s
             /\ G(val[n]) = Kept(s, P[n])
             /\ G(val[n]) \in Seq(S)
             /\ Len(G(val[n])) = Cardinality(P[n])
             /\ Len(G(val[n])) > 0
             /\ G(val[n])[1][group] = val[n]
             /\ \A k \in DOMAIN s : k \in P[n] <=> s[k][group] = val[n]
  <2>1. val[n] \in GroupKeys(s, group) /\ P[n] = GroupPlaces(s, group, val[n])
    OBVIOUS
  <2>. HIDE DEF P, V
  <2>2. /\ GroupPlaces(s, group, val[n]) \subseteq DOMAIN s
        /\ Group(s, group, val[n]) = Kept(s, GroupPlaces(s, group, val[n]))
        /\ Group(s, group, val[n]) \in Seq(S)
        /\ Len(Group(s, group, val[n])) = Cardinality(GroupPlaces(s, group, val[n]))
        /\ Len(Group(s, group, val[n])) > 0
        /\ Group(s, group, val[n])[1][group] = val[n]
    BY <2>1, GroupFacts
  <2>. QED  BY <2>1, <2>2 DEF GroupPlaces
<1>4. ASSUME NEW n \in 1 .. M
      PROVE  /\ t[n]["count"] = Cardinality(P[n]) /\ t[n]["count"] \in Int
             /\ t[n]["sum"] = Total(Kept(s, P[n])) /\ t[n]["sum"] \in Int
             /\ t[n]["max"] = Greatest(Kept(s, P[n]))
             /\ t[n][group] = val[n]
  <2>. DEFINE g == G(val[n])
  <2>1. /\ g \in Seq(S) /\ Len(g) = Cardinality(P[n]) /\ g = Kept(s, P[n])
        /\ g[1][group] = val[n]
    BY <1>3
  <2>2. t[n] = Aggregate(g, group)
    BY <1>2
  <2>. HIDE DEF g, P
  <2>3. /\ Aggregate(g, group)["count"] = Len(g)
        /\ Aggregate(g, group)["count"] \in Int
        /\ Aggregate(g, group)["sum"] = Total(g)
        /\ Aggregate(g, group)["sum"] \in Int
        /\ Aggregate(g, group)["max"] = Greatest(g)
        /\ Aggregate(g, group)[group] = g[1][group]
    BY <2>1, AggregateFacts
  <2>. QED  BY <2>1, <2>2, <2>3
<1>5. P \in [1 .. M -> SUBSET (DOMAIN s)]
  BY DEF GroupPlaces
<1>6. \A m, n \in 1 .. M : m # n => P[m] \cap P[n] = {}
  <2>. HIDE DEF P
  <2>. QED  BY <1>2, <1>3, <1>5
<1>7. All \subseteq DOMAIN s /\ AllParts(P, M) = All
  <2>1. \A k \in DOMAIN s : k \in All <=> Len(G(s[k][group])) > least
    BY DEF GroupedPlaces
  <2>2. \A k \in DOMAIN s : s[k][group] \in V
    BY DEF GroupKeys
  <2>3. All \subseteq DOMAIN s
    BY DEF GroupedPlaces
  <2>. HIDE DEF P, V, G, All
  <2>4. \A k \in DOMAIN s : k \in All <=> \E n \in 1 .. M : k \in P[n]
    BY <1>2, <1>3, <2>1, <2>2
  <2>. QED  BY <1>5, <2>3, <2>4 DEF AllParts
<1>. HIDE DEF P, V, G, All
<1>8. SumOf(t, "count") = Len(all)
  <2>. DEFINE w == Ones(N)
  <2>1. w \in Seq(Int) /\ DOMAIN w = DOMAIN s
    BY <1>1, KeptOnes
  <2>2. ASSUME NEW K, K \subseteq DOMAIN s
        PROVE  Sum(Kept(w, K)) = Cardinality(K)
    BY <1>1, <2>2, KeptOnes
  <2>. HIDE DEF w
  <2>3. Sum(PartSums(w, P, M)) = Sum(Kept(w, AllParts(P, M)))
    <3>1. P \in [1 .. M -> SUBSET (DOMAIN w)]
      BY <1>5, <2>1
    <3>. QED  BY <1>1, <1>6, <2>1, <3>1, PartsAddUp
  <2>4. PartSums(w, P, M) = [n \in 1 .. M |-> t[n]["count"]]
    <3>1. \A n \in 1 .. M : Sum(Kept(w, P[n])) = t[n]["count"]
      BY <1>3, <1>4, <2>2
    <3>. QED  BY <3>1 DEF PartSums
  <2>5. SumOf(t, "count") = Sum([n \in 1 .. M |-> t[n]["count"]])
    <3>1. Len(t) = M /\ \A n \in 1 .. M : t[n]["count"] \in Int
      BY <1>4 DEF M
    <3>. QED  BY <1>1, <3>1, SumOfFacts
  <2>6. Sum(Kept(w, All)) = Cardinality(All)
    BY <1>7, <2>2
  <2>7. Len(all) = Cardinality(All)
    BY <1>7, KeptFacts
  <2>. QED  BY <1>7, <2>3, <2>4, <2>5, <2>6, <2>7
<1>9. SumOf(t, "sum") = Total(all)
  <2>. DEFINE w == Amounts(s)
  <2>1. w \in Seq(Int) /\ DOMAIN w = DOMAIN s
    <3>1. w \in Seq(Int) /\ Len(w) = N
      BY AmountsFacts DEF N
    <3>. HIDE DEF w
    <3>. QED  BY <1>1, <3>1
  <2>2. ASSUME NEW K, K \subseteq DOMAIN s
        PROVE  Sum(Kept(w, K)) = Total(Kept(s, K))
    <3>1. Kept(s, K) \in Seq(S)
      BY <2>2, KeptMembers
    <3>2. Total(Kept(s, K)) = Sum(Amounts(Kept(s, K)))
      BY <3>1, TotalFacts
    <3>3. Kept(w, K) = Amounts(Kept(s, K))
      BY <2>2, AmountsKept
    <3>. QED  BY <3>2, <3>3
  <2>. HIDE DEF w
  <2>3. Sum(PartSums(w, P, M)) = Sum(Kept(w, AllParts(P, M)))
    <3>1. P \in [1 .. M -> SUBSET (DOMAIN w)]
      BY <1>5, <2>1
    <3>. QED  BY <1>1, <1>6, <2>1, <3>1, PartsAddUp
  <2>4. PartSums(w, P, M) = [n \in 1 .. M |-> t[n]["sum"]]
    <3>1. \A n \in 1 .. M : Sum(Kept(w, P[n])) = t[n]["sum"]
      BY <1>3, <1>4, <2>2
    <3>. QED  BY <3>1 DEF PartSums
  <2>5. SumOf(t, "sum") = Sum([n \in 1 .. M |-> t[n]["sum"]])
    <3>1. Len(t) = M /\ \A n \in 1 .. M : t[n]["sum"] \in Int
      BY <1>4 DEF M
    <3>. QED  BY <1>1, <3>1, SumOfFacts
  <2>6. Sum(Kept(w, All)) = Total(all)
    BY <1>7, <2>2
  <2>. QED  BY <1>7, <2>3, <2>4, <2>5, <2>6
<1>10. /\ Greatest(all) = NULL <=> Integers(all) = {}
       /\ \A v \in Integers(all) : v <= Greatest(all)
       /\ Integers(all) = {s[k][Addend] : k \in All} \cap Numbers
  <2>1. all \in Seq(S)
    BY <1>7, KeptMembers
  <2>2. Integers(all) = {s[k][Addend] : k \in All} \cap Numbers
    BY <1>7, IntegersKept
  <2>. HIDE DEF all
  <2>. QED  BY <2>1, <2>2, GreatestOf
<1>11. ASSUME NEW n \in 1 .. M
       PROVE  /\ t[n]["max"] \in Numbers <=> Integers(Kept(s, P[n])) # {}
              /\ t[n]["max"] \in Numbers => t[n]["max"] \in Integers(Kept(s, P[n]))
              /\ Integers(Kept(s, P[n])) = {s[k][Addend] : k \in P[n]} \cap Numbers
  <2>1. P[n] \subseteq DOMAIN s /\ t[n]["max"] = Greatest(Kept(s, P[n]))
    BY <1>3, <1>4
  <2>2. Kept(s, P[n]) \in Seq(S)
    BY <2>1, KeptMembers
  <2>3. PICK k : k = Kept(s, P[n])
    OBVIOUS
  <2>4. /\ Greatest(k) \in Numbers <=> Integers(k) # {}
        /\ Integers(k) # {} => Greatest(k) \in Integers(k)
    BY <2>2, <2>3, GreatestOf
  <2>5. Integers(Kept(s, P[n])) = {s[i][Addend] : i \in P[n]} \cap Numbers
    BY <2>1, IntegersKept
  <2>. QED  BY <2>1, <2>3, <2>4, <2>5
<1>12. \A k : k \in All <=> \E n \in 1 .. M : k \in P[n]
  BY <1>7 DEF AllParts
<1>13. \A n \in 1 .. M : Integers(Kept(s, P[n])) \subseteq Integers(all)
  BY <1>10, <1>11, <1>12
<1>14. \A v \in Integers(all) : \E n \in 1 .. M : v \in Integers(Kept(s, P[n]))
  <2>1. ASSUME NEW v \in Integers(all)
        PROVE  \E n \in 1 .. M : v \in Integers(Kept(s, P[n]))
    <3>1. PICK k \in All : v = s[k][Addend] /\ v \in Numbers
      BY <1>10
    <3>2. PICK n \in 1 .. M : k \in P[n]
      BY <1>12
    <3>3. v \in Integers(Kept(s, P[n]))
      BY <1>11, <3>1, <3>2
    <3>. QED  BY <3>3
  <2>. QED  BY <2>1
<1>15. Maxima(t) = {} <=> Greatest(all) = NULL
  <2>1. Maxima(t) = {} <=> \A n \in 1 .. M : t[n]["max"] \notin Numbers
    BY <1>1 DEF Maxima
  <2>2. Integers(all) = {} <=> \A n \in 1 .. M : Integers(Kept(s, P[n])) = {}
    BY <1>13, <1>14
  <2>. QED  BY <1>10, <1>11, <2>1, <2>2
<1>16. \A n \in 1 .. M : t[n]["max"] \in Numbers => t[n]["max"] <= Greatest(all)
  BY <1>10, <1>11, <1>13
<1>17. \A m, n \in 1 .. M : t[m][group] = t[n][group] => m = n
  BY <1>2, <1>4
<1>. QED  BY <1>1, <1>8, <1>9, <1>15, <1>16, <1>17 DEF all, All

LEMMA ListedBy ==
    ASSUME NEW s, NEW group, NEW least, NEW t, NEW N \in Nat, Len(t) = N,
           DOMAIN t = 1 .. N, NEW val \in [1 .. N -> GroupKeys(s, group)],
           \A m, n \in 1 .. N : val[m] = val[n] => m = n,
           \A v \in GroupKeys(s, group) :
               Len(Group(s, group, v)) > least <=> \E n \in 1 .. N : val[n] = v,
           \A n \in 1 .. N : t[n] = Aggregate(Group(s, group, val[n]), group)
    PROVE  ListsGroups(t, s, group, least)
BY DEF ListsGroups

LEMMA GroupsAreListed ==
    ASSUME NEW S, NEW s \in Seq(S), NEW group, group \notin Figures,
           group # NoGroup, \A n \in DOMAIN s : s[n][group] \in Value
    PROVE  /\ ListsGroups(Groups(s, group), s, group, 0)
           /\ Groups(s, group) \in Seq(Rows({group} \cup Figures))
<1>. DEFINE t == Groups(s, group)
            V == GroupKeys(s, group)
            N == Cardinality(V)
<1>1. group \notin {"count", "sum"}
  BY DEF Figures
<1>2. /\ N \in Nat /\ Len(t) = N
      /\ t \in Seq(Rows({group} \cup Figures))
      /\ \E val \in [1 .. N -> V] :
            /\ \A m, n \in 1 .. N : val[m] = val[n] => m = n
            /\ \A v \in V : \E n \in 1 .. N : val[n] = v
            /\ \A n \in 1 .. N : t[n] = Aggregate(Group(s, group, val[n]), group)
  BY <1>1, GroupsFacts
<1>3. \A v \in V : Len(Group(s, group, v)) > 0
  BY GroupFacts
<1>. HIDE DEF t, V, N
<1>4. DOMAIN t = 1 .. N
  BY <1>2
<1>5. ListsGroups(t, s, group, 0)
  BY <1>2, <1>3, <1>4 DEF ListsGroups, V
<1>. QED  BY <1>2, <1>5 DEF t

(* Sorting leaves the groups what they are. *)
LEMMA ListedPermuted ==
    ASSUME NEW s, NEW group, NEW least, NEW t, ListsGroups(t, s, group, least),
           NEW q, Shuffle(q, Len(t)), NEW u, u = Reordered(t, q, Len(t)),
           Len(u) = Len(t)
    PROVE  ListsGroups(u, s, group, least)
<1>. DEFINE M == Len(t)
            V == GroupKeys(s, group)
<1>1. M \in Nat /\ DOMAIN t = 1 .. M
  BY DEF ListsGroups
<1>2. PICK val \in [1 .. M -> V] :
         /\ \A m, n \in 1 .. M : val[m] = val[n] => m = n
         /\ \A v \in V : Len(Group(s, group, v)) > least
                            <=> \E n \in 1 .. M : val[n] = v
         /\ \A n \in 1 .. M : t[n] = Aggregate(Group(s, group, val[n]), group)
  BY DEF ListsGroups
<1>3. Shuffle(q, M) /\ u = [n \in 1 .. M |-> t[q[n]]] /\ Len(u) = M
  BY DEF Reordered
<1>. HIDE DEF M, V
<1>4. q \in [1 .. M -> 1 .. M] /\ (\A m, n \in 1 .. M : q[m] = q[n] => m = n)
  BY <1>3 DEF Shuffle
<1>5. \A k \in 1 .. M : \E n \in 1 .. M : q[n] = k
  BY <1>1, <1>3, ShuffleIsOnto
<1>. DEFINE vq == [n \in 1 .. M |-> val[q[n]]]
<1>6. vq \in [1 .. M -> V]
  BY <1>2, <1>4
<1>7. \A n \in 1 .. M : vq[n] = val[q[n]]
  OBVIOUS
<1>. HIDE DEF vq
<1>8. \A m, n \in 1 .. M : vq[m] = vq[n] => m = n
  BY <1>2, <1>4, <1>7
<1>9. ASSUME NEW v \in V
      PROVE  (\E n \in 1 .. M : val[n] = v) <=> \E n \in 1 .. M : vq[n] = v
  <2>1. ASSUME NEW k \in 1 .. M, val[k] = v
        PROVE  \E n \in 1 .. M : vq[n] = v
    <3>1. PICK n \in 1 .. M : q[n] = k
      BY <1>5
    <3>. QED  BY <1>7, <2>1, <3>1
  <2>2. ASSUME NEW n \in 1 .. M, vq[n] = v
        PROVE  \E k \in 1 .. M : val[k] = v
    <3>1. q[n] \in 1 .. M /\ val[q[n]] = v
      BY <1>4, <1>7, <2>2
    <3>. QED  BY <3>1
  <2>. QED  BY <2>1, <2>2
<1>10. \A n \in 1 .. M : u[n] = Aggregate(Group(s, group, vq[n]), group)
  BY <1>2, <1>3, <1>4, <1>7
<1>11. \A v \in V : Len(Group(s, group, v)) > least
                       <=> \E n \in 1 .. M : vq[n] = v
  BY <1>2, <1>9
<1>12. DOMAIN u = 1 .. M
  BY <1>3
<1>. QED  BY <1>1, <1>3, <1>6, <1>8, <1>10, <1>11, <1>12, ListedBy DEF V

(* HAVING leaves the groups with more rows than it asks for. *)
LargeGroups(t, least) == {n \in DOMAIN t : t[n]["count"] > least}

LEMMA ListedKept ==
    ASSUME NEW S, NEW s \in Seq(S), NEW group, group \notin Figures,
           NEW R, NEW t \in Seq(R), ListsGroups(t, s, group, 0), NEW least \in Nat
    PROVE  ListsGroups(Kept(t, LargeGroups(t, least)), s, group, least)
<1>. DEFINE M == Len(t)
            V == GroupKeys(s, group)
            K == LargeGroups(t, least)
            u == Kept(t, K)
            C == Cardinality(K)
            turn == InTurn(Places(K))
<1>1. M \in Nat /\ DOMAIN t = 1 .. M
  BY DEF ListsGroups
<1>2. PICK val \in [1 .. M -> V] :
         /\ \A m, n \in 1 .. M : val[m] = val[n] => m = n
         /\ \A v \in V : Len(Group(s, group, v)) > 0
                            <=> \E n \in 1 .. M : val[n] = v
         /\ \A n \in 1 .. M : t[n] = Aggregate(Group(s, group, val[n]), group)
  BY DEF ListsGroups
<1>3. \A v \in V : Len(Group(s, group, v)) > 0 /\ Group(s, group, v) \in Seq(S)
  BY GroupFacts
<1>. HIDE DEF M, V
<1>4. ASSUME NEW n \in 1 .. M
      PROVE  t[n]["count"] = Len(Group(s, group, val[n]))
  <2>1. PICK g : g = Group(s, group, val[n])
    OBVIOUS
  <2>2. g \in Seq(S) /\ t[n] = Aggregate(g, group)
    BY <1>2, <1>3, <2>1
  <2>3. Aggregate(g, group)["count"] = Len(g)
    BY <2>2, AggregateFacts
  <2>. QED  BY <2>1, <2>2, <2>3
<1>5. K \subseteq DOMAIN t
      /\ \A n \in 1 .. M : n \in K <=> Len(Group(s, group, val[n])) > least
  BY <1>1, <1>4 DEF LargeGroups
<1>. HIDE DEF K
<1>6. /\ C \in Nat
      /\ turn \in [1 .. C -> K]
      /\ u \in Seq(R) /\ Len(u) = C
      /\ \A n \in 1 .. C : u[n] = t[turn[n]]
      /\ \A m, n \in 1 .. C : turn[m] < turn[n] <=> m < n
      /\ \A x \in K : \E n \in 1 .. C : turn[n] = x
  <2>1. K \subseteq DOMAIN t
    BY <1>5
  <2>. QED  BY ONLY <2>1, t \in Seq(R), KeptFacts DEF u, turn, C
<1>. HIDE DEF u, C, turn
<1>. DEFINE vk == [n \in 1 .. C |-> val[turn[n]]]
<1>7. \A n \in 1 .. C : turn[n] \in K /\ turn[n] \in 1 .. M
  BY <1>1, <1>5, <1>6
<1>8. vk \in [1 .. C -> V]
  BY <1>2, <1>7
<1>9. \A n \in 1 .. C : vk[n] = val[turn[n]]
  OBVIOUS
<1>. HIDE DEF vk
<1>10. \A m, n \in 1 .. C : vk[m] = vk[n] => m = n
  <2>1. ASSUME NEW m \in 1 .. C, NEW n \in 1 .. C, vk[m] = vk[n]
        PROVE  m = n
    <3>1. turn[m] = turn[n]
      BY <1>2, <1>7, <1>9, <2>1
    <3>2. ~(turn[m] < turn[n]) /\ ~(turn[n] < turn[m])
      BY <1>1, <1>7, <3>1
    <3>3. ~(m < n) /\ ~(n < m)
      BY <1>6, <3>2
    <3>. QED  BY <1>6, <3>3
  <2>. QED  BY <2>1
<1>11. ASSUME NEW v \in V
       PROVE  Len(Group(s, group, v)) > least <=> \E n \in 1 .. C : vk[n] = v
  <2>1. ASSUME Len(Group(s, group, v)) > least
        PROVE  \E n \in 1 .. C : vk[n] = v
    <3>1. PICK k \in 1 .. M : val[k] = v
      BY <1>2, <1>3
    <3>2. k \in K
      BY <1>5, <2>1, <3>1
    <3>3. PICK n \in 1 .. C : turn[n] = k
      BY <1>6, <3>2
    <3>. QED  BY <1>9, <3>1, <3>3
  <2>2. ASSUME NEW n \in 1 .. C, vk[n] = v
        PROVE  Len(Group(s, group, v)) > least
    BY <1>5, <1>7, <1>9, <2>2
  <2>. QED  BY <2>1, <2>2
<1>12. ASSUME NEW n \in 1 .. C
       PROVE  u[n] = Aggregate(Group(s, group, vk[n]), group)
  <2>1. turn[n] \in 1 .. M /\ u[n] = t[turn[n]] /\ vk[n] = val[turn[n]]
    BY <1>6, <1>7, <1>9
  <2>2. t[turn[n]] = Aggregate(Group(s, group, val[turn[n]]), group)
    BY <1>2, <2>1
  <2>. QED  BY <2>1, <2>2
<1>13. DOMAIN u = 1 .. C
  BY <1>6
<1>14. ListsGroups(u, s, group, least)
  <2>1. /\ C \in Nat /\ Len(u) = C /\ DOMAIN u = 1 .. C
        /\ vk \in [1 .. C -> GroupKeys(s, group)]
    BY <1>6, <1>8, <1>13 DEF V
  <2>2. \A v \in GroupKeys(s, group) :
           Len(Group(s, group, v)) > least <=> \E n \in 1 .. C : vk[n] = v
    BY <1>11 DEF V
  <2>3. \A n \in 1 .. C : u[n] = Aggregate(Group(s, group, vk[n]), group)
    BY <1>12
  <2>. QED  BY ONLY <1>10, <2>1, <2>2, <2>3, ListedBy
<1>. QED  BY <1>14 DEF u, K

(* Groups have more rows than that; a join passes HAVING over. *)
Least == IF Joins(query) THEN 0 ELSE query.having

GroupInv ==
    /\ stage = "sort_result" /\ Grouped(query) =>
          ListsGroups(rows, Source, query.group, 0)
    /\ stage = "done" /\ Grouped(query) /\ (Joins(query) => query.limit = NoLimit) =>
          ListsGroups(rows, Source, query.group, Least)

LEMMA GroupedSource ==
    ASSUME QueryFits, Grouped(query)
    PROVE  /\ Source \in Seq(SourceRows(query))
           /\ query.group \notin Figures /\ query.group # NoGroup
           /\ \A n \in DOMAIN Source : Source[n][query.group] \in Value
<1>1. query.group \in SourceCols(query) /\ query.group # NoGroup
  BY DEF QueryFits, Grouped
<1>2. query.group \notin Figures
  BY <1>1, ColumnAssumption DEF SourceCols, Columns, Figures
<1>3. Cell(query.group) = Value
  BY <1>2 DEF Cell, Figures
<1>. QED  BY <1>1, <1>2, <1>3, SourceFacts

LEMMA GroupPassNext ==
    ASSUME Frame, RowsFit, GroupInv, SortPass, stage = "sort_result",
           Grouped(query)
    PROVE  ListsGroups(rows', Source, query.group, 0)
<1>. DEFINE key == keys[Len(keys)]
            cols == Named(query)
            N == Len(rows)
<1>1. QueryFits /\ KeysFit
  BY DEF Frame
<1>2. keys # <<>> /\ rows' \in Outcomes(rows, key)
  BY DEF SortPass, Sorting, Goes, Outcomes
<1>3. key.col \in cols
  <2>1. keys \in Seq(Key) /\ Len(keys) \in DOMAIN keys
    BY <1>1, <1>2 DEF KeysFit
  <2>. QED  BY <1>1, <2>1 DEF KeysFit
<1>4. rows \in Seq(Rows(cols))
  BY DEF RowsFit
<1>. HIDE DEF key, cols
<1>5. rows' \in Seq(Rows(cols)) /\ Len(rows') = N
  <2>1. PICK s : s = rows
    OBVIOUS
  <2>2. PICK u : u = rows'
    OBVIOUS
  <2>3. u \in Seq(Rows(cols)) /\ Len(u) = Len(s)
    BY <1>2, <1>3, <1>4, <2>1, <2>2, PassKeepsColumns
  <2>. QED  BY <2>1, <2>2, <2>3
<1>6. \E q : Shuffle(q, N) /\ rows' = Reordered(rows, q, N)
  <2>1. N \in Nat /\ DOMAIN rows = 1 .. N
    BY <1>4
  <2>2. \A n \in 1 .. N : rows[n] \in Rows(cols)
    BY <1>4, <2>1
  <2>3. \A n \in 1 .. N : rows[n][key.col] \in Cell(key.col)
    BY <1>3, <2>2 DEF Rows
  <2>. HIDE DEF N
  <2>. QED  BY <1>2, <2>1, <2>3, PassFacts
<1>7. PICK q : Shuffle(q, Len(rows)) /\ rows' = Reordered(rows, q, Len(rows))
  BY <1>6
<1>8. ListsGroups(rows, Source, query.group, 0)
  BY DEF GroupInv
<1>9. Len(rows') = Len(rows)
  BY <1>5
<1>. QED  BY <1>7, <1>8, <1>9, ListedPermuted

LEMMA GroupInvNext == Frame /\ RowsFit /\ GroupInv /\ [Next]_vars => GroupInv'
<1>. SUFFICES ASSUME Frame, RowsFit, GroupInv, [Next]_vars
              PROVE  GroupInv'
  OBVIOUS
<1>. DEFINE Fixed == query' = query /\ first' = first /\ second' = second
            Same == /\ Source' = Source /\ Least' = Least
                    /\ query' = query
<1>1. QueryFits /\ StageFits /\ KeysFit
  BY DEF Frame
<1>2. Fixed => Same
  BY Unmoved DEF Least, Joins
<1>3. ASSUME stage' \notin {"sort_result", "done"} PROVE GroupInv'
  BY <1>3 DEF GroupInv
<1>4. ASSUME Fixed, ~Grouped(query) PROVE GroupInv'
  BY <1>4 DEF GroupInv, Grouped
<1>. HIDE DEF Same
<1>5. CASE stage = "idle" /\ \E asked \in Asked : Ask(asked[1], asked[2], asked[3])
  BY <1>3, <1>5 DEF Ask
<1>6. CASE Union
  BY <1>1, <1>4, <1>6 DEF Union, Goes, tables, QueryFits, Grouped
<1>7. CASE Join
  BY <1>3, <1>7 DEF Join, Goes
<1>8. CASE AggregateAll
  BY <1>4, <1>8 DEF AggregateAll, Goes, tables
<1>9. CASE GroupTable
  <2>. DEFINE group == query.group
              groups == Groups(first, group)
  <2>1. /\ Fixed /\ stage' = "done" /\ Grouped(query) /\ ~Joins(query)
        /\ rows' = Kept(groups, LargeGroups(groups, query.having))
    BY <1>9 DEF GroupTable, Goes, tables, Joins, LargeGroups
  <2>2. Source = first /\ Least = query.having /\ query.having \in Nat
    BY <1>1, <2>1 DEF Source, Least, QueryFits, Query
  <2>3. /\ first \in Seq(SourceRows(query))
        /\ group \notin Figures /\ group # NoGroup
        /\ \A n \in DOMAIN first : first[n][group] \in Value
    BY <1>1, <2>1, <2>2, GroupedSource
  <2>. HIDE DEF group
  <2>4. /\ ListsGroups(groups, first, group, 0)
        /\ groups \in Seq(Rows({group} \cup Figures))
    BY <2>3, GroupsAreListed
  <2>. HIDE DEF groups
  <2>5. ListsGroups(Kept(groups, LargeGroups(groups, query.having)), first, group,
                    query.having)
    BY <2>2, <2>3, <2>4, ListedKept
  <2>6. ListsGroups(rows', Source', query.group', Least')
    BY <1>2, <2>1, <2>2, <2>5 DEF Same, group
  <2>. QED  BY <2>1, <2>6 DEF GroupInv
<1>10. CASE GroupJoined
  <2>1. /\ Fixed /\ stage = "group" /\ stage' = "sort_result"
        /\ rows' = Groups(rows, query.group)
    BY <1>10 DEF GroupJoined, Goes, tables
  <2>2. rows = Source /\ Grouped(query)
    BY <1>1, <2>1 DEF RowsFit, StageFits
  <2>3. /\ Source \in Seq(SourceRows(query))
        /\ query.group \notin Figures /\ query.group # NoGroup
        /\ \A n \in DOMAIN Source : Source[n][query.group] \in Value
    BY <1>1, <2>2, GroupedSource
  <2>4. ListsGroups(Groups(Source, query.group), Source, query.group, 0)
    BY <2>3, GroupsAreListed
  <2>5. ListsGroups(rows', Source', query.group', 0)
    BY <1>2, <2>1, <2>2, <2>4 DEF Same
  <2>. QED  BY <2>1, <2>5 DEF GroupInv
<1>11. CASE SelectExpressions
  BY <1>4, <1>11 DEF SelectExpressions, Goes, tables
<1>12. CASE SelectByKey \/ SelectPlain
  BY <1>4, <1>12 DEF SelectByKey, ByKey, SelectPlain, Goes, tables
<1>13. CASE SelectOrdered
  BY <1>3, <1>13 DEF SelectOrdered, Goes
<1>14. CASE SortPass
  <2>1. Fixed /\ stage' = stage /\ stage \in {"sort", "sort_result"}
    BY <1>14 DEF SortPass, Sorting, Goes, tables
  <2>2. ASSUME stage = "sort_result", Grouped(query)
        PROVE  ListsGroups(rows', Source', query.group', 0)
    BY <1>2, <1>14, <2>1, <2>2, GroupPassNext DEF Same
  <2>3. Grouped(query)' = Grouped(query)
    BY <2>1 DEF Grouped
  <2>. QED  BY <2>1, <2>2, <2>3 DEF GroupInv
<1>15. CASE SortPanic
  BY <1>3, <1>15 DEF SortPanic, Over
<1>16. CASE Project
  <2>1. Fixed /\ stage = "sort"
    BY <1>16 DEF Project, Goes, tables
  <2>2. ~Grouped(query)
    BY <1>1, <2>1 DEF StageFits, Paged
  <2>. QED  BY <1>4, <2>1, <2>2
<1>17. CASE Page
  <2>1. CASE stage = "page"
    BY <1>3, <1>17, <2>1 DEF Page, Goes
  <2>2. CASE stage # "page" /\ Grouped(query) /\ query.limit = NoLimit
    <3>1. /\ Fixed /\ stage = "sort_result" /\ stage' = "done"
          /\ rows' = Cut(rows, 0, NoLimit)
      BY <1>17, <2>2 DEF Page, Goes, tables
    <3>2. Joins(query) /\ Least = 0
      BY <1>1, <2>2, <3>1 DEF StageFits, Least
    <3>3. rows \in Seq(Rows(Named(query)))
      BY <3>1 DEF RowsFit
    <3>4. rows' = rows
      BY <3>1, <3>3, WholePage
    <3>5. ListsGroups(rows, Source, query.group, 0)
      BY <2>2, <3>1 DEF GroupInv
    <3>6. ListsGroups(rows', Source', query.group', Least')
      BY <1>2, <3>1, <3>2, <3>4, <3>5 DEF Same
    <3>. QED  BY <3>1, <3>6 DEF GroupInv
  <2>3. CASE stage # "page" /\ Grouped(query) /\ query.limit # NoLimit
    <3>1. /\ Fixed /\ stage = "sort_result" /\ stage' = "done"
      BY <1>17, <2>3 DEF Page, Goes, tables
    <3>2. Joins(query)
      BY <1>1, <2>3, <3>1 DEF StageFits
    <3>3. Joins(query)' /\ query'.limit # NoLimit
      BY <2>3, <3>1, <3>2 DEF Joins
    <3>. QED  BY <3>1, <3>3 DEF GroupInv
  <2>4. CASE stage # "page" /\ ~Grouped(query)
    BY <1>4, <1>17, <2>4 DEF Page, Goes, tables
  <2>. QED  BY <2>1, <2>2, <2>3, <2>4
<1>18. CASE Distinct
  <2>1. Fixed /\ stage = "distinct"
    BY <1>18 DEF Distinct, Goes, tables
  <2>2. ~Grouped(query)
    BY <1>1, <2>1 DEF StageFits, Paged
  <2>. QED  BY <1>4, <2>1, <2>2
<1>19. CASE Answer
  BY <1>3, <1>19 DEF Answer, Over
<1>20. CASE UNCHANGED vars
  <2>1. Fixed /\ stage' = stage /\ rows' = rows
    BY <1>20 DEF vars, tables
  <2>2. Grouped(query)' = Grouped(query) /\ Joins(query)' = Joins(query)
    BY <2>1 DEF Grouped, Joins
  <2>3. Same
    BY <1>2, <2>1
  <2>. QED  BY <2>1, <2>2, <2>3 DEF GroupInv, Same
<1>. QED  BY <1>5, <1>6, <1>7, <1>8, <1>9, <1>10, <1>11, <1>12, <1>13, <1>14,
          <1>15, <1>16, <1>17, <1>18, <1>19, <1>20 DEF Next

(* Each row is counted and added in one group: GROUP BY loses no row, adds *)
(* none twice, and names no group twice, HAVING and a sort of the groups   *)
(* included.                                                               *)
THEOREM GroupsAreComplete == Spec => []GroupsAddUp
<1>1. Init => GroupInv
  BY DEF Init, GroupInv
<1>2. Frame /\ GroupInv => GroupsAddUp
  <2>. SUFFICES ASSUME Frame, GroupInv, stage = "done", Grouped(query),
                       Joins(query) => query.limit = NoLimit
                PROVE  GroupsAddUp
    BY DEF GroupsAddUp
  <2>1. /\ Source \in Seq(SourceRows(query))
        /\ query.group \notin Figures /\ query.group # NoGroup
    BY GroupedSource DEF Frame
  <2>2. ListsGroups(rows, Source, query.group, Least)
    BY DEF GroupInv
  <2>3. Counted = Kept(Source, GroupedPlaces(Source, query.group, Least))
    BY DEF Counted, GroupedPlaces, Least
  <2>. DEFINE all == Kept(Source, GroupedPlaces(Source, query.group, Least))
  <2>4. /\ SumOf(rows, "count") = Len(all)
        /\ SumOf(rows, "sum") = Total(all)
        /\ Maxima(rows) = {} <=> Greatest(all) = NULL
        /\ \A n \in DOMAIN rows : rows[n]["max"] \in Numbers =>
              rows[n]["max"] <= Greatest(all)
        /\ \A m, n \in DOMAIN rows :
              rows[m][query.group] = rows[n][query.group] => m = n
    BY <2>1, <2>2, GroupedAddUp
  <2>. HIDE DEF all
  <2>5. Counted = all
    BY <2>3 DEF all
  <2>. QED  BY <2>4, <2>5 DEF GroupsAddUp, Maxima
<1>. QED  BY <1>1, <1>2, FrameHolds, RowsFitHolds, GroupInvNext, PTL DEF Spec
=============================================================================
