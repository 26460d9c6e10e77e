------------------------------ MODULE Lists_proofs ------------------------------
(***************************************************************************)
(* Lemmas on the operators that the specifications share: what Pop and     *)
(* Push do to the set of free indexes, for every queue, and what is picked *)
(* from a sequence by positions.                                           *)
(***************************************************************************)
EXTENDS IndexQueue, Positions, FiniteSetTheorems, TLAPS

\* The queue that IndexManager::Init builds has every index once.
LEMMA FullPoolIsPool ==
  ASSUME NEW n \in Nat
  PROVE  FullPool(n) \in Seq(Nat) /\ IsPool(FullPool(n), n)
BY DEF FullPool, IsPool, Listed

\* Pop takes the index it returns out of the set of free indexes.
LEMMA PopPool ==
  ASSUME NEW n \in Nat, NEW q \in Seq(Nat), IsPool(q, n), q # <<>>
  PROVE  /\ PopRest(q) \in Seq(Nat)
         /\ IsPool(PopRest(q), n)
         /\ PopIndex(q) \in 1..n
         /\ PopIndex(q) \in Listed(q)
         /\ Listed(PopRest(q)) = Listed(q) \ {PopIndex(q)}
<1> DEFINE r == PopRest(q)
<1>1. r \in Seq(Nat) /\ PopIndex(q) = q[1] /\ r = Tail(q)
  BY DEF PopRest, PopIndex
<1>2. /\ Len(q) \in Nat /\ Len(q) > 0 /\ Len(r) = Len(q) - 1
      /\ DOMAIN q = 1..Len(q) /\ DOMAIN r = 1..Len(r)
  BY <1>1
<1>3. \A j \in 1..Len(r) : r[j] = q[j + 1]
  BY <1>1
<1>4. \A j \in 1..Len(r) : j \in Nat /\ j + 1 \in 1..Len(q) /\ j + 1 # 1
  BY <1>2
<1>5. 1 \in 1..Len(q)
  BY <1>2
<1>6. \A j \in 1..Len(q) : j # 1 => j - 1 \in 1..Len(r) /\ (j - 1) + 1 = j
  BY <1>2
<1>7. Listed(r) = Listed(q) \ {q[1]}
  <2>1. Listed(r) = {r[j] : j \in 1..Len(r)} /\ Listed(q) = {q[j] : j \in 1..Len(q)}
    BY <1>2 DEF Listed
  <2>2. \A i, j \in 1..Len(q) : q[i] = q[j] => i = j
    BY <1>2 DEF IsPool
  <2>3. ASSUME NEW x \in Listed(r) PROVE x \in Listed(q) \ {q[1]}
    <3>1. PICK j \in 1..Len(r) : x = r[j]
      BY <2>1
    <3>2. x = q[j + 1] /\ j + 1 \in 1..Len(q) /\ j + 1 # 1
      BY <1>3, <1>4, <3>1
    <3>3. QED
      BY <1>5, <2>1, <2>2, <3>2
  <2>4. ASSUME NEW x \in Listed(q) \ {q[1]} PROVE x \in Listed(r)
    <3>1. PICK j \in 1..Len(q) : x = q[j]
      BY <2>1
    <3>2. j # 1 /\ j - 1 \in 1..Len(r) /\ (j - 1) + 1 = j
      BY <1>6, <3>1
    <3>3. r[j - 1] = x
      BY <1>3, <3>1, <3>2
    <3>4. QED
      BY <2>1, <3>2, <3>3
  <2>5. QED
    BY <2>3, <2>4
<1>8. IsPool(r, n)
  <2>1. ASSUME NEW i \in 1..Len(r), NEW j \in 1..Len(r), r[i] = r[j] PROVE i = j
    <3>1. q[i + 1] = q[j + 1] /\ i + 1 \in 1..Len(q) /\ j + 1 \in 1..Len(q)
      BY <1>3, <1>4, <2>1
    <3>2. i + 1 = j + 1
      BY <1>2, <3>1 DEF IsPool
    <3>3. QED
      BY <3>2
  <2>2. QED
    BY <1>2, <1>7, <2>1 DEF IsPool
<1>9. q[1] \in Listed(q)
  BY <1>2, <1>5 DEF Listed
<1>10. QED
  BY <1>1, <1>7, <1>8, <1>9 DEF IsPool

\* Pop from an empty pool returns no index and changes nothing.
LEMMA PopEmptyPool == PopRest(<<>>) = <<>> /\ PopIndex(<<>>) = InvalidIndex
BY DEF PopRest, PopIndex

\* Push keeps the queue a pool, whatever it is given, and adds at most the
\* index it is given.
LEMMA PushPool ==
  ASSUME NEW n \in Nat, NEW q \in Seq(Nat), IsPool(q, n), NEW i \in Nat
  PROVE  /\ PushIndex(q, n, i) \in Seq(Nat)
         /\ IsPool(PushIndex(q, n, i), n)
         /\ Listed(PushIndex(q, n, i)) \subseteq Listed(q) \cup {i}
<1>1. CASE i \notin (1..n) \ Listed(q)
  BY <1>1 DEF PushIndex
<1>2. CASE i \in (1..n) \ Listed(q)
  <2> DEFINE r == PushIndex(q, n, i)
  <2>1. r = Append(q, i) /\ r \in Seq(Nat)
    BY <1>2 DEF PushIndex
  <2>2. /\ Len(q) \in Nat /\ DOMAIN q = 1..Len(q)
        /\ DOMAIN r = 1..(Len(q) + 1) /\ r[Len(q) + 1] = i
    BY <2>1
  <2>3. \A j \in 1..Len(q) : r[j] = q[j] /\ q[j] # i
    <3>1. \A j \in 1..Len(q) : r[j] = q[j]
      BY <2>1
    <3>2. QED
      BY <1>2, <2>2, <3>1 DEF Listed
  <2>4. \A j \in DOMAIN r : j \in 1..Len(q) \/ j = Len(q) + 1
    BY <2>2
  <2>5. Listed(r) \subseteq Listed(q) \cup {i}
    BY <2>2, <2>3, <2>4 DEF Listed
  <2>6. \A j, k \in DOMAIN r : r[j] = r[k] => j = k
    BY <2>2, <2>3, <2>4 DEF IsPool
  <2>7. QED
    BY <1>2, <2>1, <2>5, <2>6 DEF IsPool
<1>3. QED
  BY <1>1, <1>2
-----------------------------------------------------------------------------
(* Positions in a sequence: finite sets of numbers.                        *)

\* Ranks are numbers.
LEMMA RankType ==
  ASSUME NEW S, S \subseteq Int, IsFiniteSet(S), NEW i
  PROVE  /\ IsFiniteSet({j \in S : j <= i})
         /\ Cardinality(S) \in Nat
         /\ Rank(S, i) \in Nat /\ Rank(S, i) <= Cardinality(S)
<1> DEFINE B == {j \in S : j <= i}
<1>1. B \in SUBSET S
  OBVIOUS
<1>2. IsFiniteSet(B) /\ Cardinality(B) <= Cardinality(S)
  BY <1>1, FS_Subset
<1>3. Cardinality(S) \in Nat /\ Cardinality(B) \in Nat
  BY <1>2, FS_CardinalityType
<1>4. Rank(S, i) = Cardinality(B)
  BY DEF Rank
<1>5. QED
  BY <1>2, <1>3, <1>4

\* A rank grows at each position of S and nowhere else.
LEMMA RankMonotone ==
  ASSUME NEW S, S \subseteq Int, IsFiniteSet(S), NEW i \in Int, NEW j \in Int
  PROVE  /\ i <= j => Rank(S, i) <= Rank(S, j)
         /\ i < j /\ j \in S => Rank(S, i) < Rank(S, j)
<1> DEFINE A == {m \in S : m <= i}
           B == {m \in S : m <= j}
<1>1. SUFFICES ASSUME i <= j
               PROVE  /\ Rank(S, i) <= Rank(S, j)
                      /\ i < j /\ j \in S => Rank(S, i) < Rank(S, j)
  OBVIOUS
<1>2. \A k \in Int : k <= i => k <= j
  BY <1>1
<1>3. A \in SUBSET B
  BY <1>2
<1>4. IsFiniteSet(B)
  BY RankType
<1>5. /\ Cardinality(A) <= Cardinality(B)
      /\ Cardinality(B) = Cardinality(A) => B = A
  BY <1>3, <1>4, FS_Subset
<1>6. Rank(S, i) = Cardinality(A) /\ Rank(S, j) = Cardinality(B)
  BY DEF Rank
<1>7. Rank(S, i) \in Nat /\ Rank(S, j) \in Nat
  BY RankType
<1>8. ASSUME i < j, j \in S PROVE Rank(S, i) < Rank(S, j)
  <2>1. j \in B /\ j \notin A
    BY <1>8
  <2>2. Cardinality(B) # Cardinality(A)
    BY <1>5, <2>1
  <2>3. QED
    BY <1>5, <1>6, <1>7, <2>2
<1>9. QED
  BY <1>5, <1>6, <1>8

\* The positions of S have the ranks 1, 2, ..., each once.
LEMMA RankBijection ==
  ASSUME NEW S, S \subseteq Int, IsFiniteSet(S)
  PROVE  /\ \A i \in S : Rank(S, i) \in 1..Cardinality(S)
         /\ \A i, j \in S : Rank(S, i) = Rank(S, j) => i = j
         /\ \A k \in 1..Cardinality(S) : \E i \in S : Rank(S, i) = k
<1> DEFINE f == [i \in S |-> Rank(S, i)]
           T == 1..Cardinality(S)
<1>1. \A i \in S : i \in Int /\ i - 1 \in Int /\ i - 1 < i
  OBVIOUS
<1>2. Cardinality(S) \in Nat
  BY FS_CardinalityType
<1>3. ASSUME NEW i \in S PROVE Rank(S, i) \in T
  <2>1. /\ Rank(S, i - 1) \in Nat
        /\ Rank(S, i) \in Nat /\ Rank(S, i) <= Cardinality(S)
    BY RankType
  <2>2. Rank(S, i - 1) < Rank(S, i)
    BY <1>1, RankMonotone
  <2>3. QED
    BY <1>2, <2>1, <2>2
<1>4. ASSUME NEW i \in S, NEW j \in S, Rank(S, i) = Rank(S, j) PROVE i = j
  <2>1. i \in Int /\ j \in Int
    BY <1>1
  <2>2. Rank(S, i) \in Nat /\ Rank(S, j) \in Nat
    BY RankType
  <2>3. i < j => Rank(S, i) < Rank(S, j)
    BY <2>1, RankMonotone
  <2>4. j < i => Rank(S, j) < Rank(S, i)
    BY <2>1, RankMonotone
  <2>5. QED
    BY <1>4, <2>1, <2>2, <2>3, <2>4
<1>5. f \in Injection(S, T)
  BY <1>3, <1>4 DEF Injection, IsInjective
<1>6. IsFiniteSet(T) /\ Cardinality(T) = Cardinality(S)
  BY <1>2, FS_Interval
<1>7. f \in Surjection(S, T)
  BY <1>5, <1>6, FS_Injection
<1>8. \A k \in T : \E i \in S : f[i] = k
  BY <1>7 DEF Surjection
<1>9. QED
  BY <1>3, <1>4, <1>8

\* The k-th position has rank k.
LEMMA PositionHasRank ==
  ASSUME NEW S, S \subseteq Int, IsFiniteSet(S), NEW k \in 1..Cardinality(S)
  PROVE  Position(S, k) \in S /\ Rank(S, Position(S, k)) = k
<1>1. \E i \in S : Rank(S, i) = k
  BY RankBijection
<1>2. QED
  BY <1>1 DEF Position

\* Each position is the one of its rank.
LEMMA PositionOfRank ==
  ASSUME NEW S, S \subseteq Int, IsFiniteSet(S), NEW i \in S
  PROVE  Rank(S, i) \in 1..Cardinality(S) /\ Position(S, Rank(S, i)) = i
<1> DEFINE k == Rank(S, i)
<1>1. k \in 1..Cardinality(S)
  BY RankBijection
<1>2. Position(S, k) \in S /\ Rank(S, Position(S, k)) = k
  BY <1>1, PositionHasRank
<1>3. QED
  BY <1>1, <1>2, RankBijection

\* Positions come in their order: the k-th lies before i if k is less than
\* the rank of i, and behind it if k is more.
LEMMA PositionOrder ==
  ASSUME NEW S, S \subseteq Int, IsFiniteSet(S), NEW k \in 1..Cardinality(S),
         NEW i \in Int
  PROVE  /\ k < Rank(S, i) => Position(S, k) < i
         /\ k > Rank(S, i) => Position(S, k) > i
         /\ k = Rank(S, i) => Position(S, k) <= i
<1> DEFINE p == Position(S, k)
<1>1. p \in S /\ Rank(S, p) = k
  BY PositionHasRank
<1>2. p \in Int /\ k \in Int /\ Rank(S, i) \in Nat
  <2>1. Cardinality(S) \in Nat
    BY FS_CardinalityType
  <2>2. \A m \in 1..Cardinality(S) : m \in Int
    BY <2>1
  <2>3. \A m \in S : m \in Int
    OBVIOUS
  <2>4. QED
    BY <1>1, <2>2, <2>3, RankType
<1>3. i <= p => Rank(S, i) <= k
  BY <1>1, <1>2, RankMonotone
<1>4. p <= i => k <= Rank(S, i)
  BY <1>1, <1>2, RankMonotone
<1>5. i < p => Rank(S, i) < k
  BY <1>1, <1>2, RankMonotone
<1>6. QED
  BY <1>2, <1>3, <1>4, <1>5

\* Positions in a sequence are finitely many numbers.
LEMMA SequencePositions ==
  ASSUME NEW n \in Nat, NEW S, S \subseteq 1..n
  PROVE  S \subseteq Int /\ IsFiniteSet(S) /\ Cardinality(S) \in Nat
<1>1. IsFiniteSet(1..n)
  BY FS_Interval
<1>2. IsFiniteSet(S)
  BY <1>1, FS_Subset
<1>3. Cardinality(S) \in Nat
  BY <1>2, FS_CardinalityType
<1>4. QED
  BY <1>2, <1>3

\* Nothing is picked at no position.
LEMMA PickedNone ==
  ASSUME NEW s
  PROVE  Picked(s, {}) = <<>>
<1>1. Cardinality({}) = 0
  BY FS_EmptySet
<1>2. QED
  BY <1>1 DEF Picked

\* What is picked from a sequence are elements of it.
LEMMA PickedType ==
  ASSUME NEW T, NEW s \in Seq(T), NEW S, S \subseteq 1..Len(s)
  PROVE  /\ Picked(s, S) \in Seq(T)
         /\ Len(Picked(s, S)) = Cardinality(S)
         /\ \A k \in 1..Cardinality(S) :
               Position(S, k) \in S /\ Picked(s, S)[k] = s[Position(S, k)]
<1>1. Len(s) \in Nat
  OBVIOUS
<1>2. S \subseteq Int /\ IsFiniteSet(S) /\ Cardinality(S) \in Nat
  BY <1>1, SequencePositions
<1>3. \A k \in 1..Cardinality(S) : Position(S, k) \in S
  BY <1>2, PositionHasRank
<1>4. \A i \in S : s[i] \in T
  OBVIOUS
<1>5. \A k \in 1..Cardinality(S) : s[Position(S, k)] \in T
  BY <1>3, <1>4
<1>6. Picked(s, S) \in [1..Cardinality(S) -> T]
  BY <1>5 DEF Picked
<1>7. Picked(s, S) \in Seq(T) /\ Len(Picked(s, S)) = Cardinality(S)
  BY <1>2, <1>6
<1>8. QED
  BY <1>3, <1>7 DEF Picked

\* A position behind all others is the last one.
LEMMA PositionBehind ==
  ASSUME NEW n \in Nat, NEW S, S \subseteq 1..n
  PROVE  /\ Cardinality(S \cup {n + 1}) = Cardinality(S) + 1
         /\ \A k \in 1..Cardinality(S) : Position(S \cup {n + 1}, k) = Position(S, k)
         /\ Position(S \cup {n + 1}, Cardinality(S) + 1) = n + 1
<1> DEFINE U == S \cup {n + 1}
<1>1. S \subseteq Int /\ IsFiniteSet(S) /\ Cardinality(S) \in Nat
  BY SequencePositions
<1>2. n + 1 \notin S /\ U \subseteq Int
  BY <1>1
<1>3. IsFiniteSet(U) /\ Cardinality(U) = Cardinality(S) + 1
  BY <1>1, <1>2, FS_AddElement
<1>4. ASSUME NEW i \in S PROVE Rank(U, i) = Rank(S, i)
  <2>1. i \in Int /\ ~(n + 1 <= i)
    BY <1>1
  <2>2. {j \in U : j <= i} = {j \in S : j <= i}
    BY <2>1
  <2>3. QED
    BY <2>2 DEF Rank
<1>5. ASSUME NEW k \in 1..Cardinality(S) PROVE Position(U, k) = Position(S, k)
  <2>1. Position(S, k) \in S /\ Rank(S, Position(S, k)) = k
    BY <1>1, PositionHasRank
  <2>2. Position(S, k) \in U /\ Rank(U, Position(S, k)) = k
    BY <1>4, <2>1
  <2>3. QED
    BY <1>2, <1>3, <2>2, PositionOfRank
<1>6. Rank(U, n + 1) = Cardinality(U)
  <2>1. \A j \in U : j <= n + 1
    OBVIOUS
  <2>2. {j \in U : j <= n + 1} = U
    BY <2>1
  <2>3. QED
    BY <2>2 DEF Rank
<1>7. Position(U, Cardinality(U)) = n + 1
  <2>1. n + 1 \in U
    OBVIOUS
  <2>2. QED
    BY <1>2, <1>3, <1>6, <2>1, PositionOfRank
<1>8. QED
  BY <1>3, <1>5, <1>7

\* Without the first position the others come one earlier.
LEMMA PositionFirst ==
  ASSUME NEW n \in Nat, NEW S, S \subseteq 1..n, NEW m \in S, \A i \in S : m <= i
  PROVE  /\ Cardinality(S) = Cardinality(S \ {m}) + 1
         /\ Position(S, 1) = m
         /\ \A k \in 1..Cardinality(S \ {m}) : Position(S, k + 1) = Position(S \ {m}, k)
<1> DEFINE R == S \ {m}
<1>1. S \subseteq Int /\ IsFiniteSet(S) /\ Cardinality(S) \in Nat
  BY SequencePositions
<1>2. R \subseteq 1..n
  OBVIOUS
<1>3. R \subseteq Int /\ IsFiniteSet(R) /\ Cardinality(R) \in Nat
  BY <1>2, SequencePositions
<1>4. Cardinality(S) = Cardinality(R) + 1
  BY <1>1, <1>3, FS_RemoveElement
<1>5. Rank(S, m) = 1
  <2>1. m \in Int /\ \A i \in S : i \in Int
    BY <1>1
  <2>2. \A i \in S : i <= m => i = m
    BY <2>1
  <2>3. {j \in S : j <= m} = {m}
    BY <2>1, <2>2
  <2>4. QED
    BY <2>3, FS_Singleton DEF Rank
<1>6. Position(S, 1) = m
  BY <1>1, <1>5, PositionOfRank
<1>7. ASSUME NEW i \in R PROVE Rank(S, i) = Rank(R, i) + 1
  <2> DEFINE A == {j \in R : j <= i}
  <2>1. {j \in S : j <= i} = A \cup {m}
    OBVIOUS
  <2>2. IsFiniteSet(A)
    BY <1>3, RankType
  <2>3. m \notin A
    OBVIOUS
  <2>4. Cardinality(A \cup {m}) = Cardinality(A) + 1
    BY <2>2, <2>3, FS_AddElement
  <2>5. QED
    BY <2>1, <2>4 DEF Rank
<1>8. ASSUME NEW k \in 1..Cardinality(R) PROVE Position(S, k + 1) = Position(R, k)
  <2>1. Position(R, k) \in R /\ Rank(R, Position(R, k)) = k
    BY <1>3, PositionHasRank
  <2>2. Position(R, k) \in S /\ Rank(S, Position(R, k)) = k + 1
    BY <1>7, <2>1
  <2>3. QED
    BY <1>1, <2>2, PositionOfRank
<1>9. QED
  BY <1>4, <1>6, <1>8

\* Sequences are the same if their elements are.
LEMMA SameSequence ==
  ASSUME NEW T, NEW s \in Seq(T), NEW t \in Seq(T), Len(s) = Len(t),
         \A k \in 1..Len(s) : s[k] = t[k]
  PROVE  s = t
<1>1. s \in [1..Len(s) -> T] /\ t \in [1..Len(s) -> T]
  OBVIOUS
<1>2. QED
  BY <1>1

\* An element appended is picked or not, behind what is picked already.
LEMMA PickedAppend ==
  ASSUME NEW T, NEW s \in Seq(T), NEW e \in T, NEW S, S \subseteq 1..Len(s)
  PROVE  /\ Picked(Append(s, e), S) = Picked(s, S)
         /\ Picked(Append(s, e), S \cup {Len(s) + 1}) = Append(Picked(s, S), e)
<1> DEFINE n == Len(s)
           a == Append(s, e)
           U == S \cup {n + 1}
<1>1. n \in Nat /\ a \in Seq(T) /\ Len(a) = n + 1 /\ a[n + 1] = e
  OBVIOUS
<1>2. \A i \in 1..n : a[i] = s[i]
  OBVIOUS
<1>3. Cardinality(S) \in Nat
  BY <1>1, SequencePositions
<1>4. PICK c \in Nat : c = Cardinality(S)
  BY <1>3
<1>5. /\ Picked(s, S) \in Seq(T) /\ Len(Picked(s, S)) = c
      /\ \A k \in 1..c : Position(S, k) \in S /\ Picked(s, S)[k] = s[Position(S, k)]
  BY <1>4, PickedType
<1>6. \A k \in 1..c : a[Position(S, k)] = s[Position(S, k)]
  BY <1>2, <1>5
<1>7. Picked(a, S) = Picked(s, S)
  BY <1>4, <1>6 DEF Picked
<1>8. /\ Cardinality(U) = c + 1
      /\ \A k \in 1..c : Position(U, k) = Position(S, k)
      /\ Position(U, c + 1) = n + 1
  BY <1>1, <1>4, PositionBehind
<1>9. U \subseteq 1..Len(a)
  <2>1. \A m \in Nat : \A i \in 1..m : i \in 1..m + 1
    OBVIOUS
  <2>2. \A m \in Nat : m + 1 \in 1..m + 1
    OBVIOUS
  <2>3. QED
    BY <1>1, <2>1, <2>2
<1>10. /\ Picked(a, U) \in Seq(T) /\ Len(Picked(a, U)) = c + 1
       /\ \A k \in 1..c + 1 : Picked(a, U)[k] = a[Position(U, k)]
  BY <1>1, <1>8, <1>9, PickedType
<1>11. Picked(a, U) = Append(Picked(s, S), e)
  <2> DEFINE y == Append(Picked(s, S), e)
  <2>1. /\ y \in Seq(T) /\ Len(y) = c + 1 /\ y[c + 1] = e
        /\ \A k \in 1..c : y[k] = Picked(s, S)[k]
    BY <1>5
  <2>2. \A k \in 1..c + 1 : k \in 1..c \/ k = c + 1
    OBVIOUS
  <2>3. \A k \in 1..c : k \in 1..c + 1
    OBVIOUS
  <2>4. \A k \in 1..c : Picked(a, U)[k] = y[k]
    BY <1>5, <1>6, <1>8, <1>10, <2>1, <2>3
  <2>5. Picked(a, U)[c + 1] = y[c + 1]
    <3>1. c + 1 \in 1..c + 1
      OBVIOUS
    <3>2. Picked(a, U)[c + 1] = a[n + 1]
      <4>1. Picked(a, U)[c + 1] = a[Position(U, c + 1)]
        BY <1>10, <3>1
      <4>2. Position(U, c + 1) = n + 1
        BY <1>8
      <4>3. QED
        BY ONLY <4>1, <4>2
    <3>3. QED
      BY <1>1, <2>1, <3>2
  <2>6. \A k \in 1..c + 1 : Picked(a, U)[k] = y[k]
    BY <2>2, <2>4, <2>5
  <2> HIDE DEF y
  <2>7. Picked(a, U) = y
    BY <1>10, <2>1, <2>6, SameSequence
  <2>8. QED
    BY <2>7 DEF y
<1>12. QED
  BY <1>7, <1>11

\* Two sequences, one behind the other.
LEMMA Parts ==
  ASSUME NEW T, NEW f \in Seq(T), NEW q \in Seq(T)
  PROVE  /\ f \o q \in Seq(T) /\ Len(f \o q) = Len(f) + Len(q)
         /\ \A k \in 1..Len(f) : (f \o q)[k] = f[k]
         /\ \A k \in 1..Len(q) : (f \o q)[Len(f) + k] = q[k]
OBVIOUS

\* A sequence is two others if their elements are its elements.
LEMMA Concatenated ==
  ASSUME NEW T, NEW s \in Seq(T), NEW f \in Seq(T), NEW q \in Seq(T),
         Len(s) = Len(f) + Len(q),
         \A k \in 1..Len(f) : s[k] = f[k],
         \A k \in 1..Len(q) : s[Len(f) + k] = q[k]
  PROVE  s = f \o q
<1> DEFINE c == f \o q
<1>1. Len(f) \in Nat /\ Len(q) \in Nat
  OBVIOUS
<1>2. PICK m \in Nat, n \in Nat : m = Len(f) /\ n = Len(q)
  BY <1>1
<1>3. /\ c \in Seq(T) /\ Len(c) = m + n
      /\ \A k \in 1..m : c[k] = f[k]
      /\ \A k \in 1..n : c[m + k] = q[k]
  BY <1>2, Parts
<1>4. ASSUME NEW k \in 1..m + n PROVE s[k] = c[k]
  <2>1. CASE k \in 1..m
    BY <1>2, <1>3, <2>1
  <2>2. CASE k \notin 1..m
    <3>1. k - m \in 1..n /\ m + (k - m) = k
      BY <2>2
    <3> HIDE DEF c
    <3>2. s[m + (k - m)] = q[k - m] /\ c[m + (k - m)] = q[k - m]
      BY <1>2, <1>3, <3>1
    <3>3. QED
      BY <3>1, <3>2
  <2>3. QED
    BY <2>1, <2>2
<1> HIDE DEF c
<1>5. s = c
  BY <1>2, <1>3, <1>4, SameSequence
<1>6. QED
  BY <1>5 DEF c

\* A sequence is the beginning of another one.
LEMMA Beginning ==
  ASSUME NEW T, NEW s \in Seq(T), NEW f \in Seq(T)
  PROVE  (\E n \in 0..Len(s) : f = SubSeq(s, 1, n))
            <=> Len(f) <= Len(s) /\ \A k \in 1..Len(f) : f[k] = s[k]
<1>1. Len(f) \in Nat /\ Len(s) \in Nat
  OBVIOUS
<1>2. ASSUME NEW n \in 0..Len(s)
      PROVE  /\ SubSeq(s, 1, n) \in Seq(T) /\ Len(SubSeq(s, 1, n)) = n
             /\ \A k \in 1..n : SubSeq(s, 1, n)[k] = s[k]
  BY <1>1
<1>3. ASSUME NEW n \in 0..Len(s), f = SubSeq(s, 1, n)
      PROVE  Len(f) <= Len(s) /\ \A k \in 1..Len(f) : f[k] = s[k]
  BY <1>1, <1>2, <1>3
<1>4. ASSUME Len(f) <= Len(s), \A k \in 1..Len(f) : f[k] = s[k]
      PROVE  \E n \in 0..Len(s) : f = SubSeq(s, 1, n)
  <2>1. Len(f) \in 0..Len(s)
    BY <1>1, <1>4
  <2> DEFINE t == SubSeq(s, 1, Len(f))
  <2>2. t \in Seq(T) /\ Len(t) = Len(f) /\ \A k \in 1..Len(f) : t[k] = f[k]
    BY <1>2, <1>4, <2>1
  <2> HIDE DEF t
  <2>3. f = t
    BY <2>2, SameSequence
  <2>4. QED
    BY <2>1, <2>3 DEF t
<1>5. QED
  BY <1>3, <1>4

\* What is picked at positions behind m comes behind the element at m.
LEMMA PickedFirst ==
  ASSUME NEW T, NEW s \in Seq(T), NEW m \in 1..Len(s), NEW R, R \subseteq m + 1..Len(s)
  PROVE  Picked(s, R \cup {m}) = <<s[m]>> \o Picked(s, R)
<1>1. PICK S : S = R \cup {m}
  OBVIOUS
<1>2. /\ Len(s) \in Nat /\ R \subseteq 1..Len(s) /\ S \subseteq 1..Len(s)
      /\ m \in S /\ S \ {m} = R /\ \A i \in S : m <= i
  BY <1>1
<1>3. Cardinality(R) \in Nat
  BY <1>2, SequencePositions
<1>4. PICK c \in Nat : c = Cardinality(R)
  BY <1>3
<1>5. /\ Cardinality(S) = c + 1 /\ Position(S, 1) = m
      /\ \A k \in 1..c : Position(S, k + 1) = Position(R, k)
  <2>1. /\ Cardinality(S) = Cardinality(S \ {m}) + 1
        /\ Position(S, 1) = m
        /\ \A k \in 1..Cardinality(S \ {m}) : Position(S, k + 1) = Position(S \ {m}, k)
    BY <1>2, PositionFirst
  <2>2. QED
    BY <1>2, <1>4, <2>1
<1>6. /\ Picked(s, R) \in Seq(T) /\ Len(Picked(s, R)) = c
      /\ \A k \in 1..c : Picked(s, R)[k] = s[Position(R, k)]
  <2>1. /\ Picked(s, R) \in Seq(T) /\ Len(Picked(s, R)) = Cardinality(R)
        /\ \A k \in 1..Cardinality(R) : Picked(s, R)[k] = s[Position(R, k)]
    BY <1>2, PickedType
  <2>2. QED
    BY <1>4, <2>1
<1>7. /\ Picked(s, S) \in Seq(T) /\ Len(Picked(s, S)) = c + 1
      /\ \A k \in 1..c + 1 : Picked(s, S)[k] = s[Position(S, k)]
  <2>1. /\ Picked(s, S) \in Seq(T) /\ Len(Picked(s, S)) = Cardinality(S)
        /\ \A k \in 1..Cardinality(S) : Picked(s, S)[k] = s[Position(S, k)]
    BY <1>2, PickedType
  <2>2. QED
    BY <1>5, <2>1
<1>8. /\ <<s[m]>> \in Seq(T) /\ Len(<<s[m]>>) = 1 /\ <<s[m]>>[1] = s[m]
  OBVIOUS
<1>9. Picked(s, S)[1] = s[m]
  <2>1. 1 \in 1..c + 1
    OBVIOUS
  <2>2. QED
    BY <1>5, <1>7, <2>1
<1>10. ASSUME NEW k \in 1..c PROVE Picked(s, S)[1 + k] = Picked(s, R)[k]
  <2>1. k + 1 \in 1..c + 1 /\ 1 + k = k + 1
    OBVIOUS
  <2>2. QED
    BY <1>5, <1>6, <1>7, <2>1
<1>11. Picked(s, S) = <<s[m]>> \o Picked(s, R)
  <2> DEFINE q == Picked(s, S)
             f == <<s[m]>>
             r == Picked(s, R)
  <2>1. q \in Seq(T) /\ f \in Seq(T) /\ r \in Seq(T)
    BY <1>6, <1>7, <1>8
  <2>2. Len(q) = Len(f) + Len(r)
    BY <1>6, <1>7, <1>8
  <2>3. \A k \in 1..Len(f) : q[k] = f[k]
    BY <1>8, <1>9
  <2>4. \A k \in 1..Len(r) : q[Len(f) + k] = r[k]
    BY <1>6, <1>8, <1>10
  <2> HIDE DEF q, f, r
  <2>5. q = f \o r
    BY <2>1, <2>2, <2>3, <2>4, Concatenated
  <2>6. QED
    BY <2>5 DEF q, f, r
<1>12. QED
  BY <1>1, <1>11

\* The first element of what comes behind may as well be the last before it.
LEMMA Shifted ==
  ASSUME NEW T, NEW f \in Seq(T), NEW e \in T, NEW q \in Seq(T)
  PROVE  f \o (<<e>> \o q) = Append(f, e) \o q
<1> DEFINE g == <<e>> \o q
           a == Append(f, e)
           s == f \o g
<1>1. PICK m \in Nat, n \in Nat : m = Len(f) /\ n = Len(q)
  OBVIOUS
<1>2. <<e>> \in Seq(T) /\ Len(<<e>>) = 1 /\ <<e>>[1] = e
  OBVIOUS
<1>3. /\ g \in Seq(T) /\ Len(g) = 1 + n /\ g[1] = e
      /\ \A k \in 1..n : g[1 + k] = q[k]
  BY <1>1, <1>2, Parts
<1>4. /\ a \in Seq(T) /\ Len(a) = m + 1 /\ a[m + 1] = e
      /\ \A k \in 1..m : a[k] = f[k]
  BY <1>1
<1> HIDE DEF g, a
<1>5. /\ s \in Seq(T) /\ Len(s) = m + (1 + n)
      /\ \A k \in 1..m : s[k] = f[k]
      /\ \A k \in 1..1 + n : s[m + k] = g[k]
  <2>1. g \in Seq(T)
    BY <1>3
  <2>2. /\ s \in Seq(T) /\ Len(s) = Len(f) + Len(g)
        /\ \A k \in 1..Len(f) : s[k] = f[k]
        /\ \A k \in 1..Len(g) : s[Len(f) + k] = g[k]
    BY <2>1
  <2>3. QED
    BY <1>1, <1>3, <2>2
<1> HIDE DEF s
<1>6. s = a \o q
  <2>1. Len(s) = Len(a) + Len(q)
    BY <1>1, <1>4, <1>5
  <2>2. \A k \in 1..Len(a) : s[k] = a[k]
    <3>1. \A k \in 1..m + 1 : k \in 1..m \/ k = m + 1
      OBVIOUS
    <3>2. s[m + 1] = g[1]
      <4>1. 1 \in 1..1 + n
        OBVIOUS
      <4>2. QED
        BY <1>5, <4>1
    <3>3. QED
      BY <1>3, <1>4, <1>5, <3>1, <3>2
  <2>3. ASSUME NEW k \in 1..n PROVE s[m + 1 + k] = q[k]
    <3>1. 1 + k \in 1..1 + n /\ m + (1 + k) = m + 1 + k
      OBVIOUS
    <3>2. s[m + (1 + k)] = g[1 + k]
      BY <1>5, <3>1
    <3>3. QED
      BY <1>3, <3>1, <3>2
  <2>4. \A k \in 1..Len(q) : s[Len(a) + k] = q[k]
    BY <1>1, <1>4, <2>3
  <2>5. QED
    BY <1>4, <1>5, <2>1, <2>2, <2>4, Concatenated
<1>7. QED
  BY <1>6 DEF s, g, a

\* The first positions are the same among those that come before the rest.
LEMMA PositionUpTo ==
  ASSUME NEW S, S \subseteq Int, IsFiniteSet(S), NEW R \in SUBSET S,
         \A i \in R, j \in S : j <= i => j \in R,
         NEW k \in 1..Cardinality(R)
  PROVE  Position(R, k) \in R /\ Position(R, k) = Position(S, k)
<1>1. R \subseteq Int /\ IsFiniteSet(R)
  BY FS_Subset
<1>2. ASSUME NEW i \in R PROVE Rank(R, i) = Rank(S, i)
  <2>1. {j \in R : j <= i} = {j \in S : j <= i}
    OBVIOUS
  <2>2. QED
    BY <2>1 DEF Rank
<1>3. Position(R, k) \in R /\ Rank(R, Position(R, k)) = k
  BY <1>1, PositionHasRank
<1>4. Position(R, k) \in S /\ Rank(S, Position(R, k)) = k
  BY <1>2, <1>3
<1>5. QED
  BY <1>3, <1>4, PositionOfRank
=============================================================================
