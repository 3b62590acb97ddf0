------------------------ MODULE ClaudeCodeMenus_proofs ------------------------
(***************************************************************************)
(* Proofs about ClaudeCodeMenus and the ToolDetails in it, for all sets of *)
(* users, projects, models and calls, and every page size, number of       *)
(* details kept and bound.                                                 *)
(***************************************************************************)
EXTENDS ClaudeCodeMenus, FiniteSetTheorems, FunctionTheorems, SequenceTheorems,
        WellFoundedInduction, TLAPS

----------------------------------------------------------------------------
(* Lists by counting *)

\* The sets upTo[x] of the elements of S that come before x, with x itself, of a
\* total order.
Chain(S, upTo) ==
  /\ \A x \in S : x \in upTo[x] /\ upTo[x] \subseteq S
  /\ \A x, y \in S : x \in upTo[y] \/ y \in upTo[x]
  /\ \A x, y \in S : x \in upTo[y] => upTo[x] \subseteq upTo[y]
  /\ \A x, y \in S : x \in upTo[y] /\ y \in upTo[x] => x = y

\* Every element has a rank of its own, and every rank is taken.
LEMMA RanksAreTaken ==
  ASSUME NEW S, IsFiniteSet(S), NEW upTo, Chain(S, upTo)
  PROVE  /\ Cardinality(S) \in Nat
         /\ \A x \in S : Cardinality(upTo[x]) \in 1 .. Cardinality(S)
         /\ \A x, y \in S : Cardinality(upTo[x]) <= Cardinality(upTo[y]) <=> x \in upTo[y]
         /\ \A n \in 1 .. Cardinality(S) : \E x \in S : Cardinality(upTo[x]) = n
  <1> DEFINE rank == [x \in S |-> Cardinality(upTo[x])]
             N == Cardinality(S)
  <1>1. N \in Nat
    BY FS_CardinalityType
  <1>2. ASSUME NEW x \in S PROVE IsFiniteSet(upTo[x]) /\ Cardinality(upTo[x]) \in 1 .. N
    <2>1. upTo[x] \in SUBSET S /\ x \in upTo[x]
      BY DEF Chain
    <2>2. IsFiniteSet(upTo[x]) /\ Cardinality(upTo[x]) <= N
      BY <2>1, FS_Subset
    <2>3. Cardinality(upTo[x]) \in Nat /\ Cardinality(upTo[x]) # 0
      BY <2>1, <2>2, FS_CardinalityType, FS_EmptySet
    <2> HIDE DEF N
    <2> QED
      BY <1>1, <2>2, <2>3
  <1>3. ASSUME NEW x \in S, NEW y \in S, x \in upTo[y], x # y
        PROVE  Cardinality(upTo[x]) < Cardinality(upTo[y])
    <2>1. upTo[x] \in SUBSET upTo[y] /\ y \in upTo[y] /\ y \notin upTo[x]
      BY <1>3 DEF Chain
    <2>2. Cardinality(upTo[x]) <= Cardinality(upTo[y]) /\ Cardinality(upTo[x]) # Cardinality(upTo[y])
      BY <1>2, <2>1, FS_Subset
    <2>3. Cardinality(upTo[x]) \in Nat /\ Cardinality(upTo[y]) \in Nat
      BY <1>2, FS_CardinalityType
    <2> QED
      BY <2>2, <2>3
  <1>4. ASSUME NEW x \in S, NEW y \in S
        PROVE  Cardinality(upTo[x]) <= Cardinality(upTo[y]) <=> x \in upTo[y]
    <2>1. Cardinality(upTo[x]) \in Nat /\ Cardinality(upTo[y]) \in Nat
      BY <1>2, FS_CardinalityType
    <2>2. CASE x = y
      BY <2>1, <2>2 DEF Chain
    <2>3. CASE x # y /\ x \in upTo[y]
      BY <1>3, <2>1, <2>3
    <2>4. CASE x # y /\ x \notin upTo[y]
      <3>1. y \in upTo[x]
        BY <2>4 DEF Chain
      <3>2. Cardinality(upTo[y]) < Cardinality(upTo[x])
        BY <1>3, <2>4, <3>1
      <3> QED
        BY <2>1, <2>4, <3>2
    <2> QED
      BY <2>2, <2>3, <2>4
  <1>5. rank \in Surjection(S, 1 .. N)
    <2>1. rank \in [S -> 1 .. N]
      BY <1>2
    <2>2. ASSUME NEW x \in S, NEW y \in S, rank[x] = rank[y] PROVE x = y
      <3>1. Cardinality(upTo[x]) = Cardinality(upTo[y]) /\ Cardinality(upTo[x]) \in 1 .. N
        BY <1>2, <2>2
      <3>2. Cardinality(upTo[x]) <= Cardinality(upTo[y]) /\ Cardinality(upTo[y]) <= Cardinality(upTo[x])
        BY <1>1, <3>1
      <3>3. x \in upTo[y] /\ y \in upTo[x]
        BY <1>4, <3>2
      <3> QED
        BY <3>3 DEF Chain
    <2> HIDE DEF rank, N
    <2>3. rank \in Injection(S, 1 .. N)
      BY <2>1, <2>2 DEF Injection, IsInjective
    <2>4. IsFiniteSet(1 .. N) /\ Cardinality(1 .. N) = N
      <3>1. 1 \in Int /\ N \in Int
        BY <1>1
      <3>2. IsFiniteSet(1 .. N) /\ Cardinality(1 .. N) = IF 1 > N THEN 0 ELSE N - 1 + 1
        BY <3>1, FS_Interval
      <3> QED
        BY <1>1, <3>2
    <2>5. Cardinality(S) = N
      BY DEF N
    <2> QED
      BY <2>3, <2>4, <2>5, FS_Injection
  <1>6. ASSUME NEW n \in 1 .. N PROVE \E x \in S : Cardinality(upTo[x]) = n
    <2>1. \E x \in S : rank[x] = n
      BY <1>5 DEF Surjection
    <2> QED
      BY <2>1
  <1> QED
    BY <1>1, <1>2, <1>4, <1>6

\* The list of a total order has each element once, and in the order.
LEMMA ListedFacts ==
  ASSUME NEW S, IsFiniteSet(S), NEW upTo, Chain(S, upTo)
  PROVE  LET l == Listed(S, upTo)
         IN /\ Cardinality(S) \in Nat
            /\ l \in [1 .. Cardinality(S) -> S]
            /\ \A x \in S : \E n \in 1 .. Cardinality(S) : l[n] = x
            /\ \A n \in 1 .. Cardinality(S) : Cardinality(upTo[l[n]]) = n
            /\ \A m, n \in 1 .. Cardinality(S) : m <= n <=> l[m] \in upTo[l[n]]
  <1> DEFINE l == Listed(S, upTo)
             N == Cardinality(S)
  <1>1. /\ N \in Nat
        /\ \A x \in S : Cardinality(upTo[x]) \in 1 .. N
        /\ \A x, y \in S : Cardinality(upTo[x]) <= Cardinality(upTo[y]) <=> x \in upTo[y]
        /\ \A n \in 1 .. N : \E x \in S : Cardinality(upTo[x]) = n
    BY RanksAreTaken
  <1>2. l = [n \in 1 .. N |-> CHOOSE x \in S : Cardinality(upTo[x]) = n]
    BY DEF Listed
  <1> HIDE DEF l, N
  <1>3. \A n \in 1 .. N : l[n] \in S /\ Cardinality(upTo[l[n]]) = n
    BY <1>1, <1>2
  <1>4. l \in [1 .. N -> S]
    BY <1>2, <1>3
  <1>5. ASSUME NEW x \in S PROVE \E n \in 1 .. N : l[n] = x
    <2> DEFINE n == Cardinality(upTo[x])
    <2>1. n \in 1 .. N /\ l[n] \in S /\ Cardinality(upTo[l[n]]) = n
      BY <1>1, <1>3
    <2>2. n <= n
      BY <1>1, <2>1
    <2>3. x \in upTo[l[n]] /\ l[n] \in upTo[x]
      BY <1>1, <2>1, <2>2
    <2>4. l[n] = x
      BY <2>1, <2>3 DEF Chain
    <2> QED
      BY <2>1, <2>4
  <1>6. \A m, n \in 1 .. N : m <= n <=> l[m] \in upTo[l[n]]
    BY <1>1, <1>3
  <1> QED
    BY <1>1, <1>3, <1>4, <1>5, <1>6 DEF l, N

\* Two sets that correspond, also in their orders, have lists that correspond.
ListsMatch(S, upTo, T, below, h) ==
  /\ IsFiniteSet(T) /\ Cardinality(T) = Cardinality(S)
  /\ \A n \in 1 .. Cardinality(S) : Listed(T, below)[n] = h[Listed(S, upTo)[n]]

LEMMA ListsCorrespond ==
  ASSUME NEW S, IsFiniteSet(S), NEW upTo, Chain(S, upTo),
         NEW T, NEW below, Chain(T, below),
         NEW h \in [S -> T], \A y \in T : \E x \in S : h[x] = y,
         \A x, y \in S : x \in upTo[y] <=> h[x] \in below[h[y]]
  PROVE  ListsMatch(S, upTo, T, below, h)
  <1> DEFINE N == Cardinality(S)
             l == Listed(S, upTo)
             k == Listed(T, below)
  <1>1. ASSUME NEW x \in S, NEW y \in S, h[x] = h[y] PROVE x = y
    <2>1. h[x] \in below[h[y]] /\ h[y] \in below[h[x]]
      BY <1>1 DEF Chain
    <2> QED
      BY <2>1 DEF Chain
  <1>2. ExistsBijection(S, T)
    <2>1. h \in Bijection(S, T)
      BY <1>1 DEF Bijection, Injection, Surjection, IsInjective
    <2> QED
      BY <2>1 DEF ExistsBijection
  <1>3. IsFiniteSet(T) /\ Cardinality(T) = N
    BY <1>2, FS_Bijection
  <1>4. ASSUME NEW y \in S PROVE Cardinality(below[h[y]]) = Cardinality(upTo[y])
    <2> DEFINE g == [x \in upTo[y] |-> h[x]]
    <2>1. upTo[y] \in SUBSET S /\ below[h[y]] \subseteq T
      BY DEF Chain
    <2>2. IsFiniteSet(upTo[y])
      BY <2>1, FS_Subset
    <2>3. g \in [upTo[y] -> below[h[y]]]
      BY <2>1
    <2>4. \A x, z \in upTo[y] : g[x] = g[z] => x = z
      BY <1>1, <2>1
    <2>5. \A z \in below[h[y]] : \E x \in upTo[y] : g[x] = z
      BY <2>1
    <2> HIDE DEF g
    <2>6. g \in Bijection(upTo[y], below[h[y]])
      BY <2>3, <2>4, <2>5 DEF Bijection, Injection, Surjection, IsInjective
    <2>7. ExistsBijection(upTo[y], below[h[y]])
      BY <2>6 DEF ExistsBijection
    <2> QED
      BY <2>2, <2>7, FS_Bijection
  <1>5. /\ N \in Nat /\ l \in [1 .. N -> S]
        /\ \A n \in 1 .. N : Cardinality(upTo[l[n]]) = n
    BY ListedFacts
  <1>6. /\ k \in [1 .. Cardinality(T) -> T]
        /\ \A n \in 1 .. Cardinality(T) : Cardinality(below[k[n]]) = n
    BY <1>3, ListedFacts
  <1>7. \A x, y \in T : Cardinality(below[x]) <= Cardinality(below[y]) <=> x \in below[y]
    BY <1>3, RanksAreTaken
  <1> HIDE DEF N, l, k
  <1>8. ASSUME NEW n \in 1 .. N PROVE k[n] = h[l[n]]
    <2>1. l[n] \in S /\ h[l[n]] \in T /\ k[n] \in T
      BY <1>3, <1>5, <1>6
    <2>2. Cardinality(below[h[l[n]]]) = n /\ Cardinality(below[k[n]]) = n /\ n <= n
      BY <1>3, <1>4, <1>5, <1>6, <2>1
    <2>3. h[l[n]] \in below[k[n]] /\ k[n] \in below[h[l[n]]]
      BY <1>7, <2>1, <2>2
    <2> QED
      BY <2>1, <2>3 DEF Chain
  <1> QED
    BY <1>3, <1>8 DEF N, l, k, ListsMatch

\* A function on 1..n that has its values in S is a sequence over S.
LEMMA FunctionIsSeq ==
  ASSUME NEW S, NEW n \in Nat, NEW f \in [1 .. n -> S]
  PROVE  f \in Seq(S) /\ Len(f) = n /\ DOMAIN f = 1 .. n
  OBVIOUS

LEMMA PositionsAreAChain ==
  ASSUME NEW n \in Nat, NEW I \in SUBSET (1 .. n)
  PROVE  IsFiniteSet(I) /\ Chain(I, UpTo(I))
  <1>1. IsFiniteSet(1 .. n)
    BY FS_Interval
  <1>2. IsFiniteSet(I)
    BY <1>1, FS_Subset
  <1>3. \A i, j \in I : j \in UpTo(I)[i] <=> j <= i
    BY DEF UpTo
  <1>4. \A i \in I : UpTo(I)[i] \subseteq I
    BY DEF UpTo
  <1>5. \A i \in I : i \in Int
    OBVIOUS
  <1>6. \A i \in I : i \in UpTo(I)[i]
    BY <1>3, <1>5
  <1>7. \A i, j \in I : i \in UpTo(I)[j] \/ j \in UpTo(I)[i]
    BY <1>3, <1>5
  <1>8. \A i, j \in I : i \in UpTo(I)[j] /\ j \in UpTo(I)[i] => i = j
    BY <1>3, <1>5
  <1>9. \A i, j \in I : i \in UpTo(I)[j] => UpTo(I)[i] \subseteq UpTo(I)[j]
    <2> SUFFICES ASSUME NEW i \in I, NEW j \in I, i \in UpTo(I)[j], NEW k \in UpTo(I)[i]
                 PROVE  k \in UpTo(I)[j]
      OBVIOUS
    <2>1. k \in I /\ i <= j
      BY <1>3, <1>4
    <2>2. k <= i
      BY <1>3, <2>1
    <2>3. k <= j
      BY <1>5, <2>1, <2>2
    <2> QED
      BY <1>3, <2>1, <2>3
  <1> QED
    BY <1>2, <1>4, <1>6, <1>7, <1>8, <1>9 DEF Chain

\* A nonempty set of positions has a first and a last one.
LEMMA FirstAndLast ==
  ASSUME NEW n \in Nat, NEW I \in SUBSET (1 .. n), I # {}
  PROVE  /\ \E i \in I : \A j \in I : i <= j
         /\ Max(I) \in I /\ \A i \in I : i <= Max(I)
  <1> DEFINE N == Cardinality(I)
             l == Listed(I, UpTo(I))
  <1>1. IsFiniteSet(I) /\ Chain(I, UpTo(I))
    BY PositionsAreAChain
  <1>2. /\ N \in Nat /\ l \in [1 .. N -> I]
        /\ \A x \in I : \E k \in 1 .. N : l[k] = x
        /\ \A j, k \in 1 .. N : j <= k <=> l[j] \in UpTo(I)[l[k]]
    BY <1>1, ListedFacts
  <1> HIDE DEF N, l
  <1>3. 1 \in 1 .. N /\ N \in 1 .. N
    <2>1. PICK x \in I : TRUE
      OBVIOUS
    <2>2. PICK k \in 1 .. N : l[k] = x
      BY <1>2
    <2> QED
      BY <1>2, <2>2
  <1>4. l[1] \in I /\ l[N] \in I
    BY <1>2, <1>3
  <1>5. ASSUME NEW i \in I PROVE l[1] <= i /\ i <= l[N]
    <2>1. PICK k \in 1 .. N : l[k] = i
      BY <1>2
    <2>2. 1 <= k /\ k <= N
      BY <1>2
    <2>3. i \in UpTo(I)[l[N]] /\ l[1] \in UpTo(I)[i]
      BY <1>2, <1>3, <2>1, <2>2
    <2> QED
      BY <1>4, <2>3 DEF UpTo
  <1>6. \A i \in I : i \in Int
    OBVIOUS
  <1>7. \E x \in I : \A y \in I : x >= y
    BY <1>4, <1>5, <1>6
  <1>8. Max(I) \in I /\ \A y \in I : Max(I) >= y
    BY <1>7 DEF Max
  <1> QED
    BY <1>4, <1>5, <1>6, <1>8

\* What is picked out of a sequence is what it has in these places, in order.
LEMMA PickedFacts ==
  ASSUME NEW s, NEW m \in Nat, NEW I \in SUBSET (1 .. m), NEW S, \A i \in I : s[i] \in S
  PROVE  LET l == Listed(I, UpTo(I))
         IN /\ Picked(s, I) \in Seq(S)
            /\ Cardinality(I) \in Nat
            /\ Len(Picked(s, I)) = Cardinality(I) /\ DOMAIN Picked(s, I) = 1 .. Cardinality(I)
            /\ \A n \in 1 .. Cardinality(I) : l[n] \in I /\ Picked(s, I)[n] = s[l[n]]
            /\ \A i \in I : \E n \in 1 .. Cardinality(I) : l[n] = i
  <1> DEFINE l == Listed(I, UpTo(I))
             N == Cardinality(I)
  <1>a. IsFiniteSet(I) /\ Chain(I, UpTo(I))
    BY PositionsAreAChain
  <1>1. /\ N \in Nat /\ l \in [1 .. N -> I]
        /\ \A i \in I : \E n \in 1 .. N : l[n] = i
    BY <1>a, ListedFacts
  <1>2. Picked(s, I) = [n \in 1 .. N |-> s[l[n]]]
    BY DEF Picked
  <1> HIDE DEF l, N
  <1>3. Picked(s, I) \in [1 .. N -> S]
    BY <1>1, <1>2
  <1>4. Picked(s, I) \in Seq(S) /\ Len(Picked(s, I)) = N /\ DOMAIN Picked(s, I) = 1 .. N
    BY <1>1, <1>3, FunctionIsSeq
  <1> QED
    BY <1>1, <1>2, <1>4 DEF l, N

LEMMA PlacesAreAChain ==
  ASSUME NEW S, NEW ss \in Seq(Seq(S))
  PROVE  IsFiniteSet(Places(ss)) /\ Chain(Places(ss), UpToPlace(ss))
  <1> DEFINE P == Places(ss)
  <1>1. \A i \in DOMAIN ss : i \in Nat /\ ss[i] \in Seq(S) /\ DOMAIN ss[i] = 1 .. Len(ss[i]) /\ Len(ss[i]) \in Nat
    OBVIOUS
  <1>2. \A p \in P : /\ p[1] \in DOMAIN ss /\ p[2] \in DOMAIN ss[p[1]] /\ p = <<p[1], p[2]>>
                     /\ p[1] \in Int /\ p[2] \in Int
    BY <1>1 DEF Places
  <1>3. IsFiniteSet(P)
    <2> DEFINE Row(i) == {i} \X DOMAIN ss[i]
               f == [i \in DOMAIN ss |-> Row(i)]
               R == {Row(i) : i \in DOMAIN ss}
    <2>1. ASSUME NEW i \in DOMAIN ss PROVE IsFiniteSet(Row(i))
      <3>1. Len(ss[i]) \in Int /\ 1 \in Int
        BY <1>1
      <3>2. IsFiniteSet(1 .. Len(ss[i]))
        BY <3>1, FS_Interval
      <3>3. IsFiniteSet({i})
        BY FS_Singleton
      <3>4. DOMAIN ss[i] = 1 .. Len(ss[i])
        BY <1>1
      <3> QED
        BY <3>2, <3>3, <3>4, FS_Product
    <2>2. IsFiniteSet(DOMAIN ss)
      <3>1. DOMAIN ss = 1 .. Len(ss) /\ Len(ss) \in Nat
        OBVIOUS
      <3> QED
        BY <3>1, FS_Interval
    <2>3. f \in Surjection(DOMAIN ss, R)
      BY DEF Surjection
    <2> HIDE DEF f, Row
    <2>4. IsFiniteSet(R)
      BY <2>2, <2>3, FS_Surjection
    <2>5. IsFiniteSet(UNION R)
      BY <2>1, <2>4, FS_UNION
    <2> QED
      BY <2>5 DEF Places, Row
  <1>4. /\ \A p \in P : UpToPlace(ss)[p] \subseteq P
        /\ \A p, q \in P : q \in UpToPlace(ss)[p] <=> q[1] < p[1] \/ (q[1] = p[1] /\ q[2] <= p[2])
    BY DEF UpToPlace
  <1> HIDE DEF P
  <1>5. \A p \in P : p \in UpToPlace(ss)[p]
    BY <1>2, <1>4
  <1>6. \A p, q \in P : p \in UpToPlace(ss)[q] \/ q \in UpToPlace(ss)[p]
    <2> SUFFICES ASSUME NEW p \in P, NEW q \in P
                 PROVE  p \in UpToPlace(ss)[q] \/ q \in UpToPlace(ss)[p]
      OBVIOUS
    <2>1. p[1] \in Int /\ p[2] \in Int /\ q[1] \in Int /\ q[2] \in Int
      BY <1>2
    <2>2. \/ p[1] < q[1] \/ (p[1] = q[1] /\ p[2] <= q[2])
          \/ q[1] < p[1] \/ (q[1] = p[1] /\ q[2] <= p[2])
      BY <2>1
    <2> QED
      BY <1>4, <2>2
  <1>7. \A p, q \in P : p \in UpToPlace(ss)[q] /\ q \in UpToPlace(ss)[p] => p = q
    <2> SUFFICES ASSUME NEW p \in P, NEW q \in P, p \in UpToPlace(ss)[q], q \in UpToPlace(ss)[p]
                 PROVE  p = q
      OBVIOUS
    <2>1. p[1] = q[1] /\ p[2] = q[2]
      BY <1>2, <1>4
    <2> QED
      BY <1>2, <2>1
  <1>8. \A p, q \in P : p \in UpToPlace(ss)[q] => UpToPlace(ss)[p] \subseteq UpToPlace(ss)[q]
    <2> SUFFICES ASSUME NEW p \in P, NEW q \in P, p \in UpToPlace(ss)[q], NEW r \in UpToPlace(ss)[p]
                 PROVE  r \in UpToPlace(ss)[q]
      OBVIOUS
    <2>1. r \in P
      BY <1>4
    <2>2. /\ r[1] < p[1] \/ (r[1] = p[1] /\ r[2] <= p[2])
          /\ p[1] < q[1] \/ (p[1] = q[1] /\ p[2] <= q[2])
      BY <1>4, <2>1
    <2>3. /\ p[1] \in Int /\ p[2] \in Int /\ q[1] \in Int /\ q[2] \in Int
          /\ r[1] \in Int /\ r[2] \in Int
      BY <1>2, <2>1
    <2>4. r[1] < q[1] \/ (r[1] = q[1] /\ r[2] <= q[2])
      BY <2>2, <2>3
    <2> QED
      BY <1>4, <2>1, <2>4
  <1>9. Chain(P, UpToPlace(ss))
    BY <1>4, <1>5, <1>6, <1>7, <1>8 DEF Chain
  <1> QED
    BY <1>3, <1>9 DEF P

LEMMA FlattenedFacts ==
  ASSUME NEW S, NEW ss \in Seq(Seq(S))
  PROVE  LET l == Listed(Places(ss), UpToPlace(ss))
             N == Cardinality(Places(ss))
         IN /\ Flattened(ss) \in Seq(S)
            /\ N \in Nat /\ Len(Flattened(ss)) = N /\ DOMAIN Flattened(ss) = 1 .. N
            /\ \A n \in 1 .. N : Flattened(ss)[n] = ss[l[n][1]][l[n][2]]
  <1> DEFINE l == Listed(Places(ss), UpToPlace(ss))
             N == Cardinality(Places(ss))
  <1>1. N \in Nat /\ l \in [1 .. N -> Places(ss)]
    BY PlacesAreAChain, ListedFacts
  <1>2. Flattened(ss) = [n \in 1 .. N |-> ss[l[n][1]][l[n][2]]]
    BY DEF Flattened
  <1>3. \A p \in Places(ss) : ss[p[1]][p[2]] \in S
    BY DEF Places
  <1> HIDE DEF l, N
  <1>4. Flattened(ss) \in [1 .. N -> S]
    BY <1>1, <1>2, <1>3
  <1>5. Flattened(ss) \in Seq(S) /\ Len(Flattened(ss)) = N /\ DOMAIN Flattened(ss) = 1 .. N
    BY <1>1, <1>4, FunctionIsSeq
  <1> QED
    BY <1>1, <1>2, <1>5 DEF l, N

\* A sequence of sequences of at most one element, in one: what the nonempty
\* ones have, in their order.
LEMMA SinglesFlattened ==
  ASSUME NEW S, NEW ss \in Seq(Seq(S)), \A i \in DOMAIN ss : DOMAIN ss[i] \in {{}, {1}}
  PROVE  LET I == {i \in DOMAIN ss : DOMAIN ss[i] = {1}}
             l == Listed(I, UpTo(I))
         IN /\ I \subseteq 1 .. Len(ss) /\ Len(ss) \in Nat
            /\ Cardinality(I) \in Nat
            /\ DOMAIN Flattened(ss) = 1 .. Cardinality(I)
            /\ \A n \in 1 .. Cardinality(I) : Flattened(ss)[n] = ss[l[n]][1]
  <1> DEFINE I == {i \in DOMAIN ss : DOMAIN ss[i] = {1}}
             l == Listed(I, UpTo(I))
             P == Places(ss)
             k == Listed(P, UpToPlace(ss))
             h == [i \in I |-> <<i, 1>>]
  <1>1. I \subseteq 1 .. Len(ss) /\ Len(ss) \in Nat
    OBVIOUS
  <1>2. \A p : p \in P <=> \E i \in I : p = <<i, 1>>
    <2>1. \A p \in P : \E i \in I : p = <<i, 1>>
      <3> SUFFICES ASSUME NEW p \in P PROVE \E i \in I : p = <<i, 1>>
        OBVIOUS
      <3>1. PICK i \in DOMAIN ss : p \in {i} \X DOMAIN ss[i]
        BY DEF Places
      <3>2. DOMAIN ss[i] = {1}
        BY <3>1
      <3> QED
        BY <3>1, <3>2
    <2>2. \A i \in I : <<i, 1>> \in P
      BY DEF Places
    <2> QED
      BY <2>1, <2>2
  <1>3. IsFiniteSet(I) /\ Chain(I, UpTo(I))
    BY <1>1, PositionsAreAChain
  <1>4. IsFiniteSet(P) /\ Chain(P, UpToPlace(ss))
    BY PlacesAreAChain
  <1>5. \A i, j \in I : i \in UpTo(I)[j] <=> <<i, 1>> \in UpToPlace(ss)[<<j, 1>>]
    <2> SUFFICES ASSUME NEW i \in I, NEW j \in I
                 PROVE  i \in UpTo(I)[j] <=> <<i, 1>> \in UpToPlace(ss)[<<j, 1>>]
      OBVIOUS
    <2>1. i \in UpTo(I)[j] <=> i <= j
      BY DEF UpTo
    <2>2. <<i, 1>> \in P /\ <<j, 1>> \in P /\ i \in Int /\ j \in Int
      BY <1>1, <1>2
    <2>3. <<i, 1>> \in UpToPlace(ss)[<<j, 1>>] <=> i < j \/ i = j
      BY <2>2 DEF UpToPlace
    <2> QED
      BY <2>1, <2>2, <2>3
  <1>6. /\ Cardinality(I) \in Nat /\ l \in [1 .. Cardinality(I) -> I]
    BY <1>3, ListedFacts
  <1>7. /\ Flattened(ss) \in Seq(S) /\ DOMAIN Flattened(ss) = 1 .. Cardinality(P)
        /\ \A n \in 1 .. Cardinality(P) : Flattened(ss)[n] = ss[k[n][1]][k[n][2]]
    BY FlattenedFacts
  <1> HIDE DEF I, P
  <1>8. /\ Cardinality(P) = Cardinality(I)
        /\ \A n \in 1 .. Cardinality(I) : k[n] = h[l[n]]
    <2>1. h \in [I -> P] /\ \A y \in P : \E x \in I : h[x] = y
      BY <1>2
    <2>2. \A i, j \in I : i \in UpTo(I)[j] <=> h[i] \in UpToPlace(ss)[h[j]]
      BY <1>5
    <2> HIDE DEF h
    <2>3. ListsMatch(I, UpTo(I), P, UpToPlace(ss), h)
      BY <1>3, <1>4, <2>1, <2>2, ListsCorrespond
    <2> QED
      BY <2>3 DEF ListsMatch
  <1> HIDE DEF k, l
  <1>9. ASSUME NEW n \in 1 .. Cardinality(I) PROVE Flattened(ss)[n] = ss[l[n]][1]
    <2>1. l[n] \in I /\ k[n] = <<l[n], 1>>
      BY <1>6, <1>8
    <2> QED
      BY <1>7, <1>8, <2>1
  <1> QED
    BY <1>1, <1>6, <1>7, <1>8, <1>9 DEF I, l

\* Those of its elements that are in Q come from the sequences that have one in Q.
SinglesIn(ss, J, s) ==
  /\ J \subseteq 1 .. Len(ss) /\ Len(ss) \in Nat
  /\ Cardinality(J) \in Nat
  /\ DOMAIN s = 1 .. Cardinality(J)
  /\ \A n \in 1 .. Cardinality(J) :
       Listed(J, UpTo(J))[n] \in J /\ s[n] = ss[Listed(J, UpTo(J))[n]][1]

LEMMA SinglesPicked ==
  ASSUME NEW S, NEW ss \in Seq(Seq(S)), \A i \in DOMAIN ss : DOMAIN ss[i] \in {{}, {1}}, NEW Q,
         NEW F, F = Flattened(ss),
         NEW K, K = {n \in DOMAIN F : F[n] \in Q},
         NEW J, J = {i \in DOMAIN ss : DOMAIN ss[i] = {1} /\ ss[i][1] \in Q}
  PROVE  SinglesIn(ss, J, Picked(F, K))
  <1> DEFINE I == {i \in DOMAIN ss : DOMAIN ss[i] = {1}}
             N == Cardinality(I)
             li == Listed(I, UpTo(I))
             lj == Listed(J, UpTo(J))
             lk == Listed(K, UpTo(K))
             h == [n \in K |-> li[n]]
  <1>1. /\ I \subseteq 1 .. Len(ss) /\ Len(ss) \in Nat /\ N \in Nat /\ DOMAIN F = 1 .. N
        /\ \A n \in 1 .. N : F[n] = ss[li[n]][1]
    BY SinglesFlattened
  <1>2. J \subseteq I /\ \A i \in I : i \in J <=> ss[i][1] \in Q
    OBVIOUS
  <1>3. K \subseteq 1 .. N /\ \A n \in 1 .. N : n \in K <=> F[n] \in Q
    BY <1>1
  <1>4. IsFiniteSet(I) /\ Chain(I, UpTo(I))
    BY <1>1, PositionsAreAChain
  <1> HIDE DEF I
  <1>5. /\ li \in [1 .. N -> I]
        /\ \A i \in I : \E n \in 1 .. N : li[n] = i
        /\ \A m, n \in 1 .. N : m <= n <=> li[m] \in UpTo(I)[li[n]]
    BY <1>4, ListedFacts
  <1>6. \A i, j \in I : i \in UpTo(I)[j] <=> i <= j
    BY DEF UpTo
  <1> USE DEF I
  <1>7. /\ \A i, j \in J : i \in UpTo(J)[j] <=> i <= j
        /\ \A i, j \in K : i \in UpTo(K)[j] <=> i <= j
    BY DEF UpTo
  <1>8. J \in SUBSET (1 .. Len(ss)) /\ K \in SUBSET (1 .. N)
    BY <1>1, <1>2, <1>3
  <1>9. IsFiniteSet(J) /\ Chain(J, UpTo(J)) /\ IsFiniteSet(K) /\ Chain(K, UpTo(K))
    BY <1>1, <1>8, PositionsAreAChain
  <1> HIDE DEF I, N, li
  <1>10. /\ Cardinality(J) = Cardinality(K)
         /\ \A n \in 1 .. Cardinality(K) : lj[n] = h[lk[n]]
    <2>1. \A n \in K : li[n] \in J
      BY <1>1, <1>2, <1>3, <1>5
    <2>2. h \in [K -> J]
      BY <2>1
    <2>3. \A j \in J : \E n \in K : h[n] = j
      <3> SUFFICES ASSUME NEW j \in J PROVE \E n \in K : h[n] = j
        OBVIOUS
      <3>1. PICK n \in 1 .. N : li[n] = j
        BY <1>2, <1>5
      <3>2. n \in K
        BY <1>1, <1>2, <1>3, <3>1
      <3> QED
        BY <3>1, <3>2
    <2>4. \A m, n \in K : m \in UpTo(K)[n] <=> h[m] \in UpTo(J)[h[n]]
      <3> SUFFICES ASSUME NEW m \in K, NEW n \in K
                   PROVE  m \in UpTo(K)[n] <=> h[m] \in UpTo(J)[h[n]]
        OBVIOUS
      <3>1. h[m] = li[m] /\ h[n] = li[n] /\ li[m] \in J /\ li[n] \in J /\ li[m] \in I /\ li[n] \in I
        BY <1>2, <2>1
      <3>2. m \in 1 .. N /\ n \in 1 .. N
        BY <1>3
      <3>3. m \in UpTo(K)[n] <=> m <= n
        BY <1>7
      <3>4. m <= n <=> li[m] <= li[n]
        BY <1>5, <1>6, <3>1, <3>2
      <3>5. li[m] \in UpTo(J)[li[n]] <=> li[m] <= li[n]
        BY <1>7, <3>1
      <3> QED
        BY <3>1, <3>3, <3>4, <3>5
    <2> HIDE DEF h
    <2>5. ListsMatch(K, UpTo(K), J, UpTo(J), h)
      BY <1>9, <2>2, <2>3, <2>4, ListsCorrespond
    <2> QED
      BY <2>5 DEF ListsMatch
  <1>11. /\ Cardinality(K) \in Nat /\ lk \in [1 .. Cardinality(K) -> K]
         /\ lj \in [1 .. Cardinality(J) -> J]
    BY <1>9, ListedFacts
  <1>12. Picked(F, K) = [n \in 1 .. Cardinality(K) |-> F[lk[n]]]
    BY DEF Picked
  <1> HIDE DEF lj, lk
  <1>13. ASSUME NEW n \in 1 .. Cardinality(J) PROVE lj[n] \in J /\ Picked(F, K)[n] = ss[lj[n]][1]
    <2>1. lk[n] \in K /\ lk[n] \in 1 .. N /\ lj[n] = li[lk[n]]
      BY <1>3, <1>10, <1>11
    <2> QED
      BY <1>1, <1>10, <1>11, <1>12, <2>1
  <1> QED
    BY <1>8, <1>1, <1>10, <1>11, <1>12, <1>13 DEF lj, SinglesIn

----------------------------------------------------------------------------
(* What the bridge lists *)

ByActivity == [p \in ProjectsOnDisk |-> {q \in ProjectsOnDisk : LastActive(q) <= LastActive(p)}]

LEMMA ActivityFacts ==
  ASSUME files \in Seq(File), NEW p \in ProjectsOnDisk
  PROVE  LastActive(p) \in DOMAIN files /\ LastActive(p) \in Int /\ files[LastActive(p)].project = p
  <1> DEFINE I == {i \in DOMAIN files : files[i].project = p}
  <1>1. I \in SUBSET (1 .. Len(files)) /\ Len(files) \in Nat
    OBVIOUS
  <1>2. I # {}
    BY DEF ProjectsOnDisk, Range
  <1> HIDE DEF I
  <1>3. \E i \in I : \A j \in I : i <= j
    BY <1>1, <1>2, FirstAndLast
  <1>4. \E i \in DOMAIN files :
          files[i].project = p /\ \A j \in DOMAIN files : files[j].project = p => i <= j
    BY <1>3 DEF I
  <1>5. LastActive(p) \in DOMAIN files /\ files[LastActive(p)].project = p
    BY <1>4 DEF LastActive
  <1> QED
    BY <1>5

LEMMA ProjectsAreAChain ==
  ASSUME files \in Seq(File)
  PROVE  IsFiniteSet(ProjectsOnDisk) /\ Chain(ProjectsOnDisk, ByActivity)
  <1> DEFINE P == ProjectsOnDisk
             f == [i \in DOMAIN files |-> files[i].project]
  <1>1. IsFiniteSet(P)
    <2>1. f \in Surjection(DOMAIN files, P)
      <3>1. \A i \in DOMAIN files : files[i].project \in P
        BY DEF ProjectsOnDisk, Range
      <3>2. \A p \in P : \E i \in DOMAIN files : f[i] = p
        BY DEF ProjectsOnDisk, Range
      <3> QED
        BY <3>1, <3>2 DEF Surjection
    <2>2. DOMAIN files = 1 .. Len(files) /\ Len(files) \in Nat /\ DOMAIN files \in SUBSET (1 .. Len(files))
      OBVIOUS
    <2>3. IsFiniteSet(DOMAIN files)
      BY <2>2, PositionsAreAChain
    <2> HIDE DEF f, P
    <2> QED
      BY <2>1, <2>3, FS_Surjection
  <1>2. \A p \in P : LastActive(p) \in Int /\ files[LastActive(p)].project = p
    BY ActivityFacts
  <1>3. /\ \A p \in P : ByActivity[p] \subseteq P
        /\ \A p, q \in P : q \in ByActivity[p] <=> LastActive(q) <= LastActive(p)
    BY DEF ByActivity
  <1> HIDE DEF P
  <1>4. \A p \in P : p \in ByActivity[p]
    BY <1>2, <1>3
  <1>5. \A p, q \in P : p \in ByActivity[q] \/ q \in ByActivity[p]
    BY <1>2, <1>3
  <1>6. \A p, q \in P : p \in ByActivity[q] /\ q \in ByActivity[p] => p = q
    <2> SUFFICES ASSUME NEW p \in P, NEW q \in P, p \in ByActivity[q], q \in ByActivity[p]
                 PROVE  p = q
      OBVIOUS
    <2>1. LastActive(p) = LastActive(q)
      BY <1>2, <1>3
    <2> QED
      BY <1>2, <2>1
  <1>7. \A p, q \in P : p \in ByActivity[q] => ByActivity[p] \subseteq ByActivity[q]
    <2> SUFFICES ASSUME NEW p \in P, NEW q \in P, p \in ByActivity[q], NEW r \in ByActivity[p]
                 PROVE  r \in ByActivity[q]
      OBVIOUS
    <2>1. r \in P /\ LastActive(p) <= LastActive(q)
      BY <1>3
    <2>2. LastActive(r) <= LastActive(p)
      BY <1>3, <2>1
    <2>3. LastActive(r) <= LastActive(q)
      BY <1>2, <2>1, <2>2
    <2> QED
      BY <1>3, <2>1, <2>3
  <1>8. Chain(P, ByActivity)
    BY <1>3, <1>4, <1>5, <1>6, <1>7 DEF Chain
  <1> QED
    BY <1>1, <1>8 DEF P

\* What is listed is there: projects that have a session, sessions of the project.
LEMMA ListsHold ==
  ASSUME files \in Seq(File)
  PROVE  /\ ListProjects \in Seq(ProjectsOnDisk)
         /\ \A p : SessionsOf(p) \subseteq Sessions
         /\ \A p : \A cs \in ConversationLists(p) : cs \in Seq(SessionsOf(p))
  <1>1. ListProjects \in Seq(ProjectsOnDisk)
    <2> DEFINE l == ListProjects
               N == Cardinality(ProjectsOnDisk)
    <2>1. l = Listed(ProjectsOnDisk, ByActivity)
      BY DEF ListProjects, ByActivity
    <2> HIDE DEF l
    <2>2. N \in Nat /\ l \in [1 .. N -> ProjectsOnDisk]
      BY <2>1, ProjectsAreAChain, ListedFacts
    <2> HIDE DEF N
    <2> QED
      BY <2>2, FunctionIsSeq DEF l
  <1>2. ASSUME NEW p PROVE SessionsOf(p) \subseteq Sessions
    <2>1. \A f \in Range(files) : f \in File
      BY DEF Range
    <2> QED
      BY <2>1 DEF SessionsOf, File
  <1>3. ASSUME NEW p, NEW cs \in ConversationLists(p) PROVE cs \in Seq(SessionsOf(p))
    <2> DEFINE S == SessionsOf(p)
               m == Cardinality(S)
    <2>1. cs \in SeqOf(S, m)
      BY <1>3 DEF ConversationLists
    <2> HIDE DEF S, m
    <2>2. PICK n \in 0 .. m : cs \in [1 .. n -> S]
      BY <2>1 DEF SeqOf
    <2>3. n \in Nat
      BY <2>2
    <2> QED
      BY <2>2, <2>3, FunctionIsSeq DEF S
  <1> QED
    BY <1>1, <1>2, <1>3

----------------------------------------------------------------------------
(* The invariant of the menus *)


\* The states of the users, and what is saved of them in memory and on disk, are
\* records that have
\* the fields of a UserSession.  That is all that the buttons need; what the
\* fields have is a matter of MenusTypeCorrect.
SessionFields == {"mode", "project", "path", "session", "model", "mixed"}

HasFields(st) == st = [f \in SessionFields |-> st[f]]

StatesShaped(states) ==
  states = [u \in Users |-> states[u]] /\ \A u \in Users : HasFields(states[u])

EntriesShaped(entries) ==
  entries = [u \in Users |-> entries[u]] /\ \A u \in Users : entries[u] = Absent \/ HasFields(entries[u])

SessionsShaped == StatesShaped(state) /\ EntriesShaped(store) /\ EntriesShaped(disk)

\* What the caches have where the list shown last has its buttons: what that
\* list says, unless the process has been started again since.
CachesShaped ==
  /\ projects = [u \in Users |-> projects[u]] /\ convs = [u \in Users |-> convs[u]]
  /\ shown = [u \in Users |-> shown[u]]

CachesAreShown(u) ==
  \/ projects[u] = <<>>
  \/ /\ shown[u].at \in DOMAIN projects[u]
     /\ projects[u][shown[u].at] = shown[u].project
     /\ convs[u] = shown[u].sessions

MenuInv ==
  /\ SessionsShaped /\ CachesShaped
  /\ \A u \in Users : shown[u] = Nothing \/ CachesAreShown(u)

----------------------------------------------------------------------------
(* The states of the users *)

LEMMA NewStateFields == HasFields(NewState)
  BY DEF HasFields, NewState, SessionFields

Activated(st, p, path, s, mixed) ==
  [st EXCEPT !.mode = "claude_code", !.project = p, !.path = path, !.session = s, !.mixed = mixed]

LEMMA ActivatedFields ==
  ASSUME NEW st, HasFields(st), NEW p, NEW path, NEW s, NEW mixed
  PROVE  LET new == Activated(st, p, path, s, mixed)
         IN HasFields(new) /\ new.mode = "claude_code" /\ new.project = p /\ new.session = s
  BY DEF HasFields, SessionFields, Activated

\* A save leaves the entries in memory, and the old or no entries on the disk if
\* it fails.
LEMMA SaveShapes ==
  ASSUME EntriesShaped(disk), NEW entries, EntriesShaped(entries), Save(entries)
  PROVE  EntriesShaped(store') /\ EntriesShaped(disk')
  <1>1. EntriesShaped(NoEntries)
    BY DEF EntriesShaped, NoEntries
  <1>2. store' = entries /\ disk' \in {entries, disk, NoEntries}
    BY DEF Save, SaveFails
  <1> QED
    BY <1>1, <1>2

LEMMA ActivateShapes ==
  ASSUME SessionsShaped, NEW u \in Users, NEW p, NEW s, Activate(u, p, s)
  PROVE  /\ SessionsShaped'
         /\ InMode(u)' /\ state'[u].project = p /\ state'[u].session = s
  <1>1. PICK path, mixed : ActivateSession(u, p, path, s, mixed)
    BY DEF Activate
  <1> DEFINE new == Activated(state[u], p, path, s, mixed)
             entries == [store EXCEPT ![u] = new]
  <1>2. HasFields(new) /\ new.mode = "claude_code" /\ new.project = p /\ new.session = s
    BY ActivatedFields DEF SessionsShaped, StatesShaped
  <1>3. state' = [state EXCEPT ![u] = new] /\ PersistUser(u, new)
    BY <1>1 DEF ActivateSession, SetState, Activated
  <1> HIDE DEF new
  <1>4. Save(entries)
    BY <1>2, <1>3 DEF PersistUser
  <1>5. state'[u] = new
    BY <1>3 DEF SessionsShaped, StatesShaped
  <1>6. StatesShaped(state')
    BY <1>2, <1>3 DEF SessionsShaped, StatesShaped
  <1>7. EntriesShaped(entries)
    BY <1>2 DEF SessionsShaped, EntriesShaped
  <1> HIDE DEF entries
  <1>8. EntriesShaped(store') /\ EntriesShaped(disk')
    BY <1>4, <1>7, SaveShapes DEF SessionsShaped
  <1>9. SessionsShaped'
    BY <1>6, <1>8 DEF SessionsShaped, StatesShaped, EntriesShaped
  <1> QED
    BY <1>2, <1>5, <1>9 DEF InMode

LEMMA SameSessions ==
  ASSUME SessionsShaped, UNCHANGED <<state, store, disk>>
  PROVE  SessionsShaped'
  BY DEF SessionsShaped, StatesShaped, EntriesShaped

LEMMA ExitShapes ==
  ASSUME SessionsShaped, NEW u \in Users, ExitMode(u)
  PROVE  SessionsShaped'
  <1> DEFINE entries == [store EXCEPT ![u] = Absent]
  <1>1. StatesShaped(state')
    BY NewStateFields DEF SessionsShaped, StatesShaped, ExitMode
  <1>2. EntriesShaped(store') /\ EntriesShaped(disk')
    <2>1. CASE store[u] = Absent
      BY <2>1 DEF SessionsShaped, ExitMode, savedVars
    <2>2. CASE store[u] # Absent
      <3>1. Save(entries)
        BY <2>2 DEF ExitMode
      <3>2. EntriesShaped(entries)
        BY DEF SessionsShaped, EntriesShaped
      <3> HIDE DEF entries
      <3> QED
        BY <3>1, <3>2, SaveShapes DEF SessionsShaped
    <2> QED
      BY <2>1, <2>2
  <1> QED
    BY <1>1, <1>2 DEF SessionsShaped, StatesShaped, EntriesShaped

LEMMA RestartShapes ==
  ASSUME SessionsShaped, NEW torn \in BOOLEAN, Restart(torn)
  PROVE  SessionsShaped'
  <1>1. /\ disk' \in {disk, NoEntries} /\ store' = disk'
        /\ state' = [u \in Users |-> IF disk'[u] = Absent THEN NewState ELSE disk'[u]]
    BY DEF Restart
  <1>2. EntriesShaped(NoEntries)
    BY DEF EntriesShaped, NoEntries
  <1>3. EntriesShaped(store') /\ EntriesShaped(disk')
    BY <1>1, <1>2 DEF SessionsShaped
  <1>4. StatesShaped(state')
    BY <1>1, <1>3, NewStateFields DEF StatesShaped, EntriesShaped
  <1> QED
    BY <1>3, <1>4 DEF SessionsShaped, StatesShaped, EntriesShaped

----------------------------------------------------------------------------
(* The caches and the list shown last *)

\* A list of conversations is taken from the caches of its user, and leaves the
\* others alone.
LEMMA ListShapes ==
  ASSUME CachesShaped, NEW u \in Users, NEW list, NEW i \in DOMAIN list, NEW page,
         ShowConversations(u, list, i, page), projects' = [projects EXCEPT ![u] = list]
  PROVE  /\ CachesShaped'
         /\ shown'[u] = Nothing \/ CachesAreShown(u)'
         /\ \A v \in Users \ {u} : projects'[v] = projects[v] /\ convs'[v] = convs[v] /\ shown'[v] = shown[v]
  <1>a. PICK cs : /\ convs' = [convs EXCEPT ![u] = cs]
                  /\ \/ shown' = [shown EXCEPT ![u] =
                                    [at |-> i, project |-> list[i], sessions |-> cs, page |-> page]]
                     \/ shown' = [shown EXCEPT ![u] = Nothing]
    BY DEF ShowConversations
  <1> DEFINE l == [at |-> i, project |-> list[i], sessions |-> cs, page |-> page]
  <1>1. /\ convs' = [convs EXCEPT ![u] = cs]
        /\ \/ shown' = [shown EXCEPT ![u] = l]
           \/ shown' = [shown EXCEPT ![u] = Nothing]
    BY <1>a
  <1>2. l.at = i /\ l.project = list[i] /\ l.sessions = cs
    OBVIOUS
  <1> HIDE DEF l
  <1>3. CachesShaped'
    BY <1>1 DEF CachesShaped
  <1>4. projects'[u] = list /\ convs'[u] = cs /\ (shown'[u] = l \/ shown'[u] = Nothing)
    BY <1>1 DEF CachesShaped
  <1>5. shown'[u] = l => CachesAreShown(u)'
    BY <1>2, <1>4 DEF CachesAreShown
  <1>6. \A v \in Users \ {u} : projects'[v] = projects[v] /\ convs'[v] = convs[v] /\ shown'[v] = shown[v]
    BY <1>1 DEF CachesShaped
  <1> QED
    BY <1>3, <1>4, <1>5, <1>6

LEMMA MenuStep ==
  ASSUME MenuInv, [Next]_vars
  PROVE  MenuInv'
  <1> USE DEF MenuInv
  <1>1. ASSUME NEW u \in Users, OpenProject(u) \/ TurnPage(u) \/ ShowMenu(u)
        PROVE  MenuInv'
    <2>1. SessionsShaped'
      BY <1>1, SameSessions DEF OpenProject, TurnPage, ShowMenu, bridgeVars, savedVars
    <2>2. PICK list : /\ projects' = [projects EXCEPT ![u] = list]
                      /\ \E i \in DOMAIN list : \E page : ShowConversations(u, list, i, page)
      <3>1. CASE OpenProject(u) \/ TurnPage(u)
        <4>1. projects' = projects /\ projects = [projects EXCEPT ![u] = projects[u]]
          BY <3>1 DEF OpenProject, TurnPage, CachesShaped
        <4>2. \E i \in DOMAIN projects[u] : \E page : ShowConversations(u, projects[u], i, page)
          BY <3>1 DEF OpenProject, TurnPage
        <4> QED
          BY <4>1, <4>2
      <3>2. CASE ShowMenu(u)
        <4> DEFINE list == ListProjects
        <4>1. projects' = [projects EXCEPT ![u] = list]
          BY <3>2 DEF ShowMenu
        <4> HIDE DEF list
        <4>2. projects'[u] = list
          BY <4>1 DEF CachesShaped
        <4>3. \E i \in DOMAIN list : ShowConversations(u, list, i, 0)
          BY <3>2, <4>2 DEF ShowMenu
        <4> QED
          BY <4>1, <4>3
      <3> QED
        BY <1>1, <3>1, <3>2
    <2>3. /\ CachesShaped'
          /\ shown'[u] = Nothing \/ CachesAreShown(u)'
          /\ \A v \in Users \ {u} : projects'[v] = projects[v] /\ convs'[v] = convs[v] /\ shown'[v] = shown[v]
      BY <2>2, ListShapes
    <2> QED
      BY <2>1, <2>3 DEF CachesAreShown
  <1>2. ASSUME NEW u \in Users, ShowProjects(u) PROVE MenuInv'
    <2> DEFINE list == ListProjects
    <2>1. /\ projects' = [projects EXCEPT ![u] = list]
          /\ shown' = [shown EXCEPT ![u] = Nothing]
          /\ convs' = convs /\ UNCHANGED <<state, store, disk>>
      BY <1>2 DEF ShowProjects, bridgeVars, savedVars
    <2> HIDE DEF list
    <2>2. SessionsShaped' /\ CachesShaped'
      BY <2>1, SameSessions DEF CachesShaped
    <2>3. /\ shown'[u] = Nothing
          /\ \A v \in Users \ {u} : projects'[v] = projects[v] /\ shown'[v] = shown[v]
      BY <2>1 DEF CachesShaped
    <2> QED
      BY <2>1, <2>2, <2>3 DEF CachesAreShown
  <1>3. ASSUME NEW u \in Users, NEW b \in buttons[u], Press(u, b) PROVE MenuInv'
    <2>1. SessionsShaped'
      BY <1>3, ActivateShapes DEF Press
    <2>2. UNCHANGED menuVars
      BY <1>3 DEF Press
    <2> QED
      BY <2>1, <2>2 DEF menuVars, CachesShaped, CachesAreShown
  <1>4. ASSUME NEW u \in Users, Exit(u) PROVE MenuInv'
    <2>1. SessionsShaped' /\ UNCHANGED menuVars
      BY <1>4, ExitShapes DEF Exit
    <2> QED
      BY <2>1 DEF menuVars, CachesShaped, CachesAreShown
  <1>5. CASE Crash
    <2>1. SessionsShaped'
      BY <1>5, RestartShapes DEF Crash
    <2>2. /\ projects' = [u \in Users |-> <<>>] /\ convs' = [u \in Users |-> <<>>]
          /\ shown' = shown
      BY <1>5 DEF Crash
    <2> QED
      BY <2>1, <2>2 DEF CachesShaped, CachesAreShown
  <1>6. CASE \/ \E b \in Blocks : Printing(b)
             \/ \E output \in Outputs : Answer(output)
             \/ \E o \in offers : Details(o)
             \/ Terminal
             \/ UNCHANGED vars
    <2>1. UNCHANGED <<state, store, disk, projects, convs, shown>>
      BY <1>6 DEF Printing, Answer, Details, Terminal, TerminalSession, vars, menuVars, bridgeVars, savedVars
    <2> QED
      BY <2>1, SameSessions DEF CachesShaped, CachesAreShown
  <1> QED
    BY <1>1, <1>2, <1>3, <1>4, <1>5, <1>6 DEF Next

\* Where a list is shown, the caches of its user say the same, or they were lost
\* with the process and the user has nothing to press there
\* (claude_code.py: _projects_cache, _conversations_cache).
THEOREM MenuInvariant == Spec => []MenuInv
  <1>1. Init => MenuInv
    BY NewStateFields DEF Init, BridgeInit, MenuInv, SessionsShaped, StatesShaped, EntriesShaped, NoEntries,
                          CachesShaped, CachesAreShown
  <1> QED
    BY <1>1, MenuStep, PTL DEF Spec

\* A button of the list shown last does what the list says, whatever happened
\* on the disk in between, for any number of users, projects and sessions.
THEOREM ButtonsAreTrue == Spec => ButtonsActAsShown
  <1>1. MenuInv /\ [Next]_vars =>
          [\A u \in Users : shown[u] # Nothing =>
             \A j \in {0} \cup OnPage(shown[u].sessions, shown[u].page) :
               Press(u, <<shown[u].at, j>>) =>
                 /\ InMode(u)'
                 /\ state'[u].project = shown[u].project
                 /\ state'[u].session = IF j = 0 THEN NoSession ELSE shown[u].sessions[j]]_vars
    <2> SUFFICES ASSUME MenuInv, NEW u \in Users, shown[u] # Nothing,
                        NEW j \in {0} \cup OnPage(shown[u].sessions, shown[u].page),
                        Press(u, <<shown[u].at, j>>)
                 PROVE  /\ InMode(u)'
                        /\ state'[u].project = shown[u].project
                        /\ state'[u].session = IF j = 0 THEN NoSession ELSE shown[u].sessions[j]
      OBVIOUS
    <2>1. shown[u].at \in DOMAIN projects[u]
      BY DEF Press
    <2>2. projects[u][shown[u].at] = shown[u].project /\ convs[u] = shown[u].sessions
      BY <2>1 DEF MenuInv, CachesAreShown
    <2>3. Activate(u, shown[u].project, IF j = 0 THEN NoSession ELSE shown[u].sessions[j])
      BY <2>2 DEF Press
    <2> QED
      BY <2>3, ActivateShapes DEF MenuInv
  <1> QED
    BY <1>1, MenuInvariant, PTL DEF Spec, ButtonsActAsShown

----------------------------------------------------------------------------
(* The details of the answers *)

\* The newest MaxStored keys are there, no key counts past the counter, and
\* there are never more than MaxStored.
KeysKept ==
  /\ counter \in Nat
  /\ DOMAIN details \subseteq 1 .. counter
  /\ Cardinality(DOMAIN details) <= MaxStored
  /\ \A k \in 1 .. counter : k + MaxStored > counter => k \in DOMAIN details

OfferFields == {"key", "items", "face", "own"}
EntryFields == {"items", "posted"}

DetailsShaped ==
  /\ \A o \in offers : o = [f \in OfferFields |-> o[f]]
  /\ details = [k \in DOMAIN details |-> details[k]]
  /\ \A k \in DOMAIN details : details[k] = [f \in EntryFields |-> details[k][f]]

\* A key is used once in a process: where the details of a button are kept,
\* they are those of its answer.
OwnItems(o) ==
  /\ o.key \in 1 .. counter
  /\ o.key \in DOMAIN details => details[o.key].items = o.items

DetailsInv == KeysKept /\ DetailsShaped /\ \A o \in offers : o.own => OwnItems(o)

\* What Trimmed keeps of the keys up to n: the newest, as they are, and no more
\* than MaxStored.
LEMMA TrimmedKeeps ==
  ASSUME NEW ds, NEW n \in Nat, DOMAIN ds \subseteq 1 .. n
  PROVE  /\ Trimmed(ds) = [k \in DOMAIN Trimmed(ds) |-> ds[k]]
         /\ DOMAIN Trimmed(ds) \subseteq DOMAIN ds
         /\ Cardinality(DOMAIN Trimmed(ds)) <= MaxStored
         /\ \A k \in DOMAIN ds : k + MaxStored > n => k \in DOMAIN Trimmed(ds)
  <1> DEFINE D == DOMAIN ds
             Newer(k) == {j \in D : j > k}
             newest == {k \in D : Cardinality(Newer(k)) < MaxStored}
  <1> USE DetailsAssumption
  <1>1. Trimmed(ds) = [k \in newest |-> ds[k]] /\ DOMAIN Trimmed(ds) = newest
    BY DEF Trimmed
  <1>2. newest \subseteq D /\ \A k \in D : k \in newest <=> Cardinality(Newer(k)) < MaxStored
    OBVIOUS
  <1>3. D \subseteq 1 .. n /\ \A k : Newer(k) \subseteq D /\ \A j \in D : j \in Newer(k) <=> j > k
    OBVIOUS
  <1> HIDE DEF D, Newer, newest
  <1>4. IsFiniteSet(D) /\ IsFiniteSet(newest) /\ \A k : IsFiniteSet(Newer(k))
    <2>1. IsFiniteSet(1 .. n)
      BY FS_Interval
    <2>2. IsFiniteSet(D)
      BY <1>3, <2>1, FS_Subset
    <2> QED
      BY <1>2, <1>3, <2>2, FS_Subset
  <1>5. ASSUME NEW k \in D, k + MaxStored > n PROVE k \in newest
    <2> DEFINE a == k + 1
    <2>1. k \in Int /\ k <= n /\ n \in Int /\ a \in Int /\ a = k + 1
      BY <1>3
    <2> HIDE DEF a
    <2>2. Newer(k) \subseteq a .. n
      <3> SUFFICES ASSUME NEW j \in Newer(k) PROVE j \in a .. n
        OBVIOUS
      <3>1. j \in D /\ j > k
        BY <1>3
      <3>2. j \in 1 .. n
        BY <1>3, <3>1
      <3> QED
        BY <2>1, <3>1, <3>2
    <2>3. IsFiniteSet(a .. n) /\ Cardinality(a .. n) = IF a > n THEN 0 ELSE n - a + 1
      BY <2>1, FS_Interval
    <2>4. Cardinality(Newer(k)) <= Cardinality(a .. n)
      BY <2>2, <2>3, FS_Subset
    <2>5. Cardinality(Newer(k)) \in Nat /\ k \in Int
      BY <1>3, <1>4, FS_CardinalityType
    <2>6. Cardinality(Newer(k)) < MaxStored
      BY <1>5, <2>1, <2>3, <2>4, <2>5
    <2> QED
      BY <1>2, <2>6
  <1>6. Cardinality(newest) <= MaxStored
    <2>1. CASE newest = {}
      <3>1. Cardinality(newest) = 0
        BY <2>1, FS_EmptySet
      <3> QED
        BY <3>1
    <2>2. CASE newest # {}
      <3>1. newest \subseteq Nat
        BY <1>2, <1>3
      <3>2. PICK m \in newest : \A y \in newest : ~ (<<y, m>> \in OpToRel(<, Nat))
        BY <2>2, <3>1, NatLessThanWellFounded, WFMin, Zenon
      <3>3. m \in Nat /\ \A y \in newest : y \in Nat /\ ~ (y < m)
        BY <3>1, <3>2 DEF OpToRel
      <3>4. newest \ {m} \subseteq Newer(m)
        BY <1>2, <1>3, <3>3
      <3>5. Cardinality(Newer(m)) < MaxStored
        BY <1>2, <3>2
      <3>6. Cardinality(newest \ {m}) <= Cardinality(Newer(m))
        BY <1>4, <3>4, FS_Subset
      <3>7. Cardinality(newest \ {m}) = Cardinality(newest) - 1
        BY <1>4, <3>2, FS_RemoveElement
      <3>8. Cardinality(Newer(m)) \in Nat /\ Cardinality(newest) \in Nat
        BY <1>4, FS_CardinalityType
      <3> QED
        BY <3>5, <3>6, <3>7, <3>8
    <2> QED
      BY <2>1, <2>2
  <1>7. DOMAIN Trimmed(ds) \subseteq D /\ \A k \in D : k + MaxStored > n => k \in DOMAIN Trimmed(ds)
    BY <1>1, <1>2, <1>5
  <1> QED
    BY <1>1, <1>6, <1>7 DEF D

LEMMA StoreKeeps ==
  ASSUME DetailsInv, NEW items, StoreItems(items)
  PROVE  DetailsInv'
  <1> DEFINE ds == With(Key, Entry(items))
             new == [key |-> Key, items |-> items, face |-> "expand", own |-> TRUE]
  <1>1. counter \in Nat /\ counter' = Key /\ Key \in Nat /\ Key = counter + 1 /\ Key \notin DOMAIN details
    BY DEF DetailsInv, KeysKept, StoreItems, Key
  <1>2. DOMAIN ds = DOMAIN details \cup {Key} /\ ds[Key] = Entry(items)
    BY DEF With
  <1>3. \A k \in DOMAIN details : ds[k] = details[k]
    BY <1>1 DEF With
  <1>4. Entry(items).items = items /\ Entry(items) = [f \in EntryFields |-> Entry(items)[f]]
    BY DEF Entry, EntryFields
  <1>5. details' = Trimmed(ds) /\ offers' \in {offers, offers \cup {new}}
    BY DEF StoreItems
  <1>6. new.key = Key /\ new.items = items /\ new = [f \in OfferFields |-> new[f]]
    BY DEF OfferFields
  <1> HIDE DEF ds, new
  <1>7. DOMAIN ds \subseteq 1 .. Key
    BY <1>1, <1>2 DEF DetailsInv, KeysKept
  <1>8. /\ details' = [k \in DOMAIN details' |-> ds[k]]
        /\ DOMAIN details' \subseteq DOMAIN ds
        /\ Cardinality(DOMAIN details') <= MaxStored
        /\ \A k \in DOMAIN ds : k + MaxStored > Key => k \in DOMAIN details'
    BY <1>1, <1>5, <1>7, TrimmedKeeps
  <1>9. KeysKept'
    <2>1. ASSUME NEW k \in 1 .. Key, k + MaxStored > Key PROVE k \in DOMAIN ds
      BY <1>1, <1>2, <2>1, DetailsAssumption DEF DetailsInv, KeysKept
    <2>2. \A k \in 1 .. Key : k + MaxStored > Key => k \in DOMAIN details'
      BY <1>8, <2>1
    <2> QED
      BY <1>1, <1>7, <1>8, <2>2 DEF KeysKept
  <1>10. \A k \in DOMAIN details' : details'[k] = ds[k] /\ k \in DOMAIN details \cup {Key}
    BY <1>2, <1>8
  <1>11. DetailsShaped'
    <2>1. \A o \in offers' : o = [f \in OfferFields |-> o[f]]
      BY <1>5, <1>6 DEF DetailsInv, DetailsShaped
    <2>2. \A k \in DOMAIN ds : ds[k] = [f \in EntryFields |-> ds[k][f]]
      BY <1>2, <1>3, <1>4 DEF DetailsInv, DetailsShaped
    <2>3. \A k \in DOMAIN details' : details'[k] = [f \in EntryFields |-> details'[k][f]]
      BY <1>2, <1>10, <2>2
    <2>4. details' = [k \in DOMAIN details' |-> details'[k]]
      BY <1>8, <1>10
    <2> QED
      BY <2>1, <2>3, <2>4 DEF DetailsShaped
  <1>12. ASSUME NEW o \in offers', o.own PROVE OwnItems(o)'
    <2>1. CASE o \in offers
      <3>1. o.key \in 1 .. counter /\ (o.key \in DOMAIN details => details[o.key].items = o.items)
        BY <1>12, <2>1 DEF DetailsInv, OwnItems
      <3>2. o.key \in 1 .. counter' /\ o.key # Key
        BY <1>1, <3>1
      <3>3. ASSUME o.key \in DOMAIN details' PROVE details'[o.key].items = o.items
        BY <1>3, <1>10, <3>1, <3>2, <3>3
      <3> QED
        BY <3>2, <3>3 DEF OwnItems
    <2>2. CASE o = new
      BY <1>1, <1>2, <1>4, <1>6, <1>10, <2>2 DEF OwnItems
    <2> QED
      BY <1>5, <1>12, <2>1, <2>2
  <1> QED
    BY <1>9, <1>11, <1>12 DEF DetailsInv

\* A button pressed keeps its key and its items, and so does the entry.
LEMMA DetailsKeep ==
  ASSUME DetailsInv, NEW o \in offers, Details(o)
  PROVE  DetailsInv'
  <1>1. PICK face, posted : /\ o.key \in DOMAIN details
                            /\ details' = [details EXCEPT ![o.key].posted = posted]
                            /\ offers' \in {offers, (offers \ {o}) \cup {[o EXCEPT !.face = face]}}
                            /\ counter' = counter
    BY DEF Details, Expand, Collapse, Remark
  <1> DEFINE new == [o EXCEPT !.face = face]
  <1>2. /\ DOMAIN details' = DOMAIN details
        /\ details' = [k \in DOMAIN details' |-> details'[k]]
        /\ \A k \in DOMAIN details : /\ details'[k].items = details[k].items
                                     /\ details'[k] = [f \in EntryFields |-> details'[k][f]]
    <2> DEFINE entry == [details[o.key] EXCEPT !.posted = posted]
    <2>1. details' = [details EXCEPT ![o.key] = entry]
      BY <1>1
    <2>2. details[o.key] = [f \in EntryFields |-> details[o.key][f]]
      BY <1>1 DEF DetailsInv, DetailsShaped
    <2>3. entry.items = details[o.key].items /\ entry = [f \in EntryFields |-> entry[f]]
      BY <2>2 DEF EntryFields
    <2> HIDE DEF entry
    <2>4. /\ details' = [k \in DOMAIN details |-> IF k = o.key THEN entry ELSE details[k]]
          /\ \A k \in DOMAIN details : details[k] = [f \in EntryFields |-> details[k][f]]
      BY <2>1 DEF DetailsInv, DetailsShaped
    <2> QED
      BY <2>3, <2>4
  <1>3. /\ new.key = o.key /\ new.items = o.items /\ new.own = o.own
        /\ new = [f \in OfferFields |-> new[f]]
    BY DEF DetailsInv, DetailsShaped, OfferFields
  <1>4. offers' \in {offers, (offers \ {o}) \cup {new}}
    BY <1>1
  <1> HIDE DEF new
  <1>5. KeysKept'
    BY <1>1, <1>2 DEF DetailsInv, KeysKept
  <1>6. DetailsShaped'
    BY <1>2, <1>3, <1>4 DEF DetailsInv, DetailsShaped
  <1>7. ASSUME NEW p \in offers', p.own PROVE OwnItems(p)'
    <2>1. PICK q \in offers : q.own = p.own /\ q.key = p.key /\ q.items = p.items
      BY <1>3, <1>4
    <2> QED
      BY <1>1, <1>2, <1>7, <2>1 DEF DetailsInv, OwnItems
  <1> QED
    BY <1>5, <1>6, <1>7 DEF DetailsInv

LEMMA RestartKeeps ==
  ASSUME DetailsInv, DetailsRestart
  PROVE  DetailsInv'
  <1>1. counter' = 0 /\ details' = <<>> /\ DOMAIN details' = {}
    BY DEF DetailsRestart
  <1>2. \A o \in offers' : o = [f \in OfferFields |-> o[f]] /\ o.own = FALSE
    BY DEF DetailsInv, DetailsShaped, DetailsRestart, OfferFields
  <1>3. KeysKept'
    BY <1>1, FS_EmptySet, DetailsAssumption DEF KeysKept
  <1>4. DetailsShaped'
    BY <1>1, <1>2 DEF DetailsShaped
  <1> QED
    BY <1>2, <1>3, <1>4 DEF DetailsInv

LEMMA DetailsStep ==
  ASSUME DetailsInv, [Next]_vars
  PROVE  DetailsInv'
  <1>1. ASSUME NEW output \in Outputs, Answer(output) PROVE DetailsInv'
    <2> DEFINE items == DetailItems(ParseResponse(output))
    <2>1. UNCHANGED storeVars \/ StoreItems(items)
      BY <1>1 DEF Answer, ShowAnswer
    <2> HIDE DEF items
    <2>2. CASE UNCHANGED storeVars
      BY <2>2 DEF storeVars, DetailsInv, KeysKept, DetailsShaped, OwnItems
    <2> QED
      BY <2>1, <2>2, StoreKeeps
  <1>2. ASSUME NEW o \in offers, Details(o) PROVE DetailsInv'
    BY <1>2, DetailsKeep
  <1>3. CASE Crash
    BY <1>3, RestartKeeps DEF Crash
  <1>4. ASSUME \/ \E u \in Users :
                    \/ ShowProjects(u) \/ OpenProject(u) \/ TurnPage(u) \/ ShowMenu(u) \/ Exit(u)
                    \/ \E b \in buttons[u] : Press(u, b)
               \/ \E b \in Blocks : Printing(b)
               \/ Terminal
               \/ UNCHANGED vars
        PROVE  DetailsInv'
    <2>1. UNCHANGED storeVars
      BY <1>4 DEF ShowProjects, OpenProject, TurnPage, ShowMenu, Exit, Press, Printing, PrintBlock,
                  Terminal, vars, detailVars
    <2> QED
      BY <2>1 DEF storeVars, DetailsInv, KeysKept, DetailsShaped, OwnItems
  <1> QED
    BY <1>1, <1>2, <1>3, <1>4 DEF Next

\* The details kept are those of the newest answers, at most MaxStored of them,
\* however many answers there have been and whatever was pressed.
THEOREM DetailsInvariant == Spec => []DetailsInv
  <1>1. Init => DetailsInv
    BY FS_EmptySet, DetailsAssumption
    DEF Init, DetailsInit, DetailsInv, KeysKept, DetailsShaped
  <1> QED
    BY <1>1, DetailsStep, PTL DEF Spec

\* A button shows the details of its own answer and of no other, and the newest
\* buttons do show them (tool_details.py: store).
THEOREM ButtonsShowTheirOwn == Spec => []DetailsAreOwn
  <1>1. DetailsInv => DetailsAreOwn
    BY DEF DetailsInv, KeysKept, OwnItems, DetailsAreOwn
  <1> QED
    BY <1>1, DetailsInvariant, PTL

----------------------------------------------------------------------------
(* What the events of an answer say *)

\* The events that an answer is made of.
Events == {Text, Thinking} \cup {Call(c, o) : c \in Calls, o \in Outcomes}
                           \cup {Unknown(c, o) : c \in Calls, o \in Outcomes}

AsEvents(raw) == [i \in DOMAIN raw |-> EventAt(i, raw)]

LEMMA WordsAreTexts ==
  /\ Text.kind = "text" /\ Text.id = "" /\ Text # Thinking
  /\ Thinking.kind = "thinking" /\ Thinking.id = ""
  BY DEF Text, Thinking

LEMMA WordKinds == Text.kind = "text" /\ Thinking.kind = "thinking"
  BY DEF Text, Thinking

LEMMA BlockFacts ==
  ASSUME NEW b \in Blocks
  PROVE  /\ b.kind \in {"use", "result", "text", "thinking"}
         /\ b.kind = "use" <=> \E c \in Calls : b = Use(c)
         /\ b.kind = "use" => b.id \in Calls /\ b = Use(b.id)
         /\ b.kind = "result" => b.id \in Calls /\ b.outcome \in Outcomes /\ b = Result(b.id, b.outcome)
         /\ b.kind = "text" => b = Text
         /\ b.kind = "thinking" => b = Thinking
  <1>1. CASE b \in {Text, Thinking}
    <2>1. b = Text \/ b = Thinking
      BY <1>1
    <2>2. b.kind \in {"text", "thinking"}
      BY <2>1, WordsAreTexts
    <2>3. ~ \E c \in Calls : b = Use(c)
      BY <2>2 DEF Use
    <2> QED
      BY <2>1, <2>2, <2>3, WordsAreTexts
  <1>2. CASE \E c \in Calls : b = Use(c)
    BY <1>2 DEF Use
  <1>3. CASE \E c \in Calls : \E o \in Outcomes : b = Result(c, o)
    <2>1. PICK c \in Calls, o \in Outcomes : b = Result(c, o)
      BY <1>3
    <2>2. b.kind = "result" /\ b.id = c /\ b.outcome = o
      BY <2>1 DEF Result
    <2>3. ~ \E d \in Calls : b = Use(d)
      BY <2>2 DEF Use
    <2> QED
      BY <2>1, <2>2, <2>3
  <1>4. b \in {Text, Thinking} \/ (\E c \in Calls : b = Use(c))
          \/ (\E c \in Calls : \E o \in Outcomes : b = Result(c, o))
    BY DEF Blocks
  <1> QED
    BY <1>1, <1>2, <1>3, <1>4

LEMMA OutcomeIsOne ==
  ASSUME NEW raw \in Seq(Blocks), NEW c \in Calls
  PROVE  /\ ResultsFor(c, raw) \subseteq 1 .. Len(raw) /\ Len(raw) \in Nat
         /\ ResultsFor(c, raw) # {} =>
              Max(ResultsFor(c, raw)) \in ResultsFor(c, raw)
         /\ OutcomeOf(c, raw) \in Outcomes
  <1> DEFINE R == ResultsFor(c, raw)
  <1>1. R \in SUBSET (1 .. Len(raw)) /\ Len(raw) \in Nat
    BY DEF ResultsFor
  <1> HIDE DEF R
  <1>2. R # {} => Max(R) \in R
    BY <1>1, FirstAndLast
  <1>3. \A i \in ResultsFor(c, raw) : raw[i].outcome \in Outcomes
    <2>1. \A i \in DOMAIN raw : raw[i] \in Blocks
      OBVIOUS
    <2> QED
      BY <2>1, BlockFacts DEF ResultsFor
  <1>4. Silent \in Outcomes
    BY DEF Silent, Outcomes
  <1>5. OutcomeOf(c, raw) \in Outcomes
    BY <1>2, <1>3, <1>4 DEF OutcomeOf, R
  <1> QED
    BY <1>1, <1>2, <1>5 DEF R

LEMMA OutcomeIsTrue ==
  ASSUME NEW raw \in Seq(Blocks), Admissible(raw), NEW c \in Calls
  PROVE  {OutcomeOf(c, raw)} = Truth(c, raw)
  <1> DEFINE m == Max(ResultsFor(c, raw))
             results == {b \in Range(raw) : b.kind = "result" /\ b.id = c}
  <1>1. Truth(c, raw) = IF results = {} THEN {Silent} ELSE {b.outcome : b \in results}
    BY DEF Truth
  <1>2. results = {raw[i] : i \in ResultsFor(c, raw)}
    BY DEF ResultsFor, Range
  <1> HIDE DEF results
  <1>3. CASE ResultsFor(c, raw) = {}
    BY <1>1, <1>2, <1>3 DEF OutcomeOf
  <1>4. CASE ResultsFor(c, raw) # {}
    <2>1. m \in ResultsFor(c, raw) /\ m \in DOMAIN raw
      BY <1>4, OutcomeIsOne DEF ResultsFor
    <2>2. OutcomeOf(c, raw) = raw[m].outcome
      BY <1>4 DEF OutcomeOf
    <2> HIDE DEF m
    <2>3. \A i \in ResultsFor(c, raw) : i = m
      <3> SUFFICES ASSUME NEW i \in ResultsFor(c, raw), i # m PROVE FALSE
        OBVIOUS
      <3>1. i \in DOMAIN raw /\ i \in Int /\ m \in Int
        BY <2>1 DEF ResultsFor
      <3>2. i < m \/ m < i
        BY <3>1
      <3>3. raw[i].kind = "result" /\ raw[m].kind = "result" /\ raw[i].id = c /\ raw[m].id = c /\ c # ""
        BY <2>1, EventsAssumption DEF ResultsFor
      <3> QED
        BY <2>1, <3>1, <3>2, <3>3 DEF Admissible
    <2>4. results = {raw[m]}
      BY <1>2, <2>1, <2>3
    <2> QED
      BY <1>1, <2>2, <2>4
  <1> QED
    BY <1>3, <1>4

LEMMA EventAtFacts ==
  ASSUME NEW raw \in Seq(Blocks), NEW i \in DOMAIN raw
  PROVE  LET e == EventAt(i, raw)
         IN /\ raw[i].kind = "use" => e = <<Call(raw[i].id, OutcomeOf(raw[i].id, raw))>>
            /\ raw[i].kind = "result" /\ raw[i].outcome.failed /\ Stray(i, raw) => e = <<Unknown(raw[i].id, raw[i].outcome)>>
            /\ raw[i].kind = "result" /\ ~ (raw[i].outcome.failed /\ Stray(i, raw)) => e = <<>>
            /\ raw[i].kind \in {"text", "thinking"} => e = <<raw[i]>>
            /\ e \in Seq(Events) /\ DOMAIN e \in {{}, {1}}
  <1> DEFINE e == EventAt(i, raw)
             b == raw[i]
  <1>1. b \in Blocks
    OBVIOUS
  <1>2. b.kind = "use" => e = <<Call(b.id, OutcomeOf(b.id, raw))>>
    BY DEF EventAt
  <1>3. /\ b.kind = "result" /\ b.outcome.failed /\ Stray(i, raw) => e = <<Unknown(b.id, b.outcome)>>
        /\ b.kind = "result" /\ ~ (b.outcome.failed /\ Stray(i, raw)) => e = <<>>
    <2>1. ASSUME b.kind = "result"
          PROVE  e = IF Stray(i, raw) /\ b.outcome.failed THEN <<Unknown(b.id, b.outcome)>> ELSE <<>>
      BY <2>1 DEF EventAt
    <2> HIDE DEF e
    <2> QED
      BY <2>1
  <1>4. b.kind \in {"text", "thinking"} => e = <<b>>
    BY DEF EventAt
  <1>5. e = <<>> \/ \E v \in Events : e = <<v>>
    <2>1. CASE b.kind = "use"
      <3>1. b.id \in Calls
        BY <1>1, <2>1, BlockFacts
      <3>2. Call(b.id, OutcomeOf(b.id, raw)) \in Events
        BY <3>1, OutcomeIsOne DEF Events
      <3> QED
        BY <1>2, <2>1, <3>2
    <2>2. CASE b.kind = "result"
      <3>1. b.id \in Calls /\ b.outcome \in Outcomes
        BY <1>1, <2>2, BlockFacts
      <3>2. Unknown(b.id, b.outcome) \in Events
        BY <3>1 DEF Events
      <3> HIDE DEF e
      <3> QED
        BY <1>3, <2>2, <3>2
    <2>3. CASE b.kind \in {"text", "thinking"}
      <3>1. b \in Events
        BY <1>1, <2>3, BlockFacts DEF Events
      <3> QED
        BY <1>4, <2>3, <3>1
    <2> QED
      BY <1>1, <2>1, <2>2, <2>3, BlockFacts
  <1> HIDE DEF e
  <1>6. e \in Seq(Events) /\ DOMAIN e \in {{}, {1}}
    <2>1. CASE e = <<>>
      BY <2>1
    <2>2. CASE \E v \in Events : e = <<v>>
      BY <2>2
    <2> QED
      BY <1>5, <2>1, <2>2
  <1> QED
    BY <1>2, <1>3, <1>4, <1>6 DEF e

LEMMA KindsDiffer ==
  /\ \A e \in Events : e.kind \in {"call", "unknown", "text", "thinking"}
  /\ \A c, o : Call(c, o).kind = "call" /\ Call(c, o).id = c /\ Call(c, o).outcome = o
  /\ \A c, o : Unknown(c, o).kind = "unknown" /\ Unknown(c, o).id = c /\ Unknown(c, o).outcome = o
  /\ \A c : Use(c).kind = "use" /\ Use(c).id = c
  <1>1. \A e \in Events : e.kind \in {"call", "unknown", "text", "thinking"}
    <2> SUFFICES ASSUME NEW e \in Events PROVE e.kind \in {"call", "unknown", "text", "thinking"}
      OBVIOUS
    <2>1. CASE e = Text \/ e = Thinking
      BY <2>1, WordsAreTexts
    <2>2. CASE \E c \in Calls : \E o \in Outcomes : e = Call(c, o)
      BY <2>2 DEF Call
    <2>3. CASE \E c \in Calls : \E o \in Outcomes : e = Unknown(c, o)
      BY <2>3 DEF Unknown
    <2> QED
      BY <2>1, <2>2, <2>3 DEF Events
  <1>2. \A c, o : Call(c, o).kind = "call" /\ Call(c, o).id = c /\ Call(c, o).outcome = o
    BY DEF Call
  <1>3. \A c, o : Unknown(c, o).kind = "unknown" /\ Unknown(c, o).id = c /\ Unknown(c, o).outcome = o
    BY DEF Unknown
  <1>4. \A c : Use(c).kind = "use" /\ Use(c).id = c
    BY DEF Use
  <1> QED
    BY <1>1, <1>2, <1>3, <1>4

\* Without a place nothing is picked.
LEMMA NothingPicked ==
  ASSUME NEW s
  PROVE  Picked(s, {}) = <<>>
  <1>1. Cardinality({}) = 0
    BY FS_EmptySet
  <1> QED
    BY <1>1 DEF Picked

\* The events of these kinds, and of which blocks they come.
LEMMA EventsOfKind ==
  ASSUME NEW raw \in Seq(Blocks), NEW kinds
  PROVE  LET F == Flattened(AsEvents(raw))
             J == {i \in DOMAIN raw : DOMAIN EventAt(i, raw) = {1} /\ EventAt(i, raw)[1].kind \in kinds}
         IN SinglesIn(AsEvents(raw), J, OfKind(F, kinds))
  <1> DEFINE ss == AsEvents(raw)
             F == Flattened(ss)
             Q == {e \in Events : e.kind \in kinds}
             K == {n \in DOMAIN F : F[n] \in Q}
             J == {i \in DOMAIN raw : DOMAIN EventAt(i, raw) = {1} /\ EventAt(i, raw)[1].kind \in kinds}
             JQ == {i \in DOMAIN ss : DOMAIN ss[i] = {1} /\ ss[i][1] \in Q}
  <1>1. DOMAIN ss = DOMAIN raw /\ Len(raw) \in Nat /\ DOMAIN raw = 1 .. Len(raw)
    BY DEF AsEvents
  <1>2. \A i \in DOMAIN raw : /\ ss[i] = EventAt(i, raw)
                              /\ EventAt(i, raw) \in Seq(Events) /\ DOMAIN EventAt(i, raw) \in {{}, {1}}
    BY EventAtFacts DEF AsEvents
  <1>3. ss \in [1 .. Len(raw) -> Seq(Events)]
    BY <1>1, <1>2 DEF AsEvents
  <1>4. ss \in Seq(Seq(Events)) /\ Len(ss) = Len(raw)
    BY <1>1, <1>3, FunctionIsSeq
  <1>5. JQ = J
    <2>1. \A i \in DOMAIN raw : DOMAIN EventAt(i, raw) = {1} => EventAt(i, raw)[1] \in Events
      BY <1>2
    <2> QED
      BY <1>1, <1>2, <2>1
  <1>6. F \in Seq(Events)
    BY <1>4, FlattenedFacts
  <1>7. K = {n \in DOMAIN F : F[n].kind \in kinds}
    BY <1>6
  <1>8. \A i \in DOMAIN ss : DOMAIN ss[i] \in {{}, {1}}
    BY <1>1, <1>2
  <1>9. SinglesIn(ss, J, Picked(F, K))
    <2>1. K = {n \in DOMAIN F : F[n] \in Q}
      OBVIOUS
    <2>2. JQ = {i \in DOMAIN ss : DOMAIN ss[i] = {1} /\ ss[i][1] \in Q}
      OBVIOUS
    <2>3. F = Flattened(ss)
      OBVIOUS
    <2> HIDE DEF ss, Q, F, K, JQ
    <2>4. SinglesIn(ss, JQ, Picked(F, K))
      BY <1>4, <1>8, <2>1, <2>2, <2>3, SinglesPicked
    <2> QED
      BY <1>5, <2>4
  <1>10. OfKind(F, kinds) = Picked(F, K)
    BY <1>7 DEF OfKind
  <1> QED
    BY <1>9, <1>10

LEMMA PickedBlocks ==
  ASSUME NEW raw \in Seq(Blocks), NEW J, J \subseteq DOMAIN raw
  PROVE  /\ DOMAIN Picked(raw, J) = 1 .. Cardinality(J)
         /\ \A n \in 1 .. Cardinality(J) :
              Listed(J, UpTo(J))[n] \in J /\ Picked(raw, J)[n] = raw[Listed(J, UpTo(J))[n]]
  <1>1. J \in SUBSET (1 .. Len(raw)) /\ Len(raw) \in Nat /\ \A i \in J : raw[i] \in Blocks
    OBVIOUS
  <1> QED
    BY <1>1, PickedFacts

\* The ids of the events that come of the blocks in J are those of the blocks.
LEMMA SameIds ==
  ASSUME NEW raw \in Seq(Blocks), NEW J, NEW s, SinglesIn(AsEvents(raw), J, s),
         \A i \in J : EventAt(i, raw)[1].id = raw[i].id
  PROVE  IdsOf(s) = IdsOf(Picked(raw, J))
  <1> DEFINE l == Listed(J, UpTo(J))
             N == Cardinality(J)
  <1>1. DOMAIN raw = 1 .. Len(raw) /\ Len(AsEvents(raw)) = Len(raw)
        /\ \A i \in DOMAIN raw : AsEvents(raw)[i] = EventAt(i, raw)
    BY DEF AsEvents
  <1>2. /\ J \subseteq DOMAIN raw /\ DOMAIN s = 1 .. N
        /\ \A n \in 1 .. N : l[n] \in J /\ s[n] = EventAt(l[n], raw)[1]
    BY <1>1 DEF SinglesIn
  <1>3. /\ DOMAIN Picked(raw, J) = 1 .. N
        /\ \A n \in 1 .. N : Picked(raw, J)[n] = raw[l[n]]
    BY <1>2, PickedBlocks
  <1> HIDE DEF l, N
  <1>4. \A n \in 1 .. N : s[n].id = Picked(raw, J)[n].id
    BY <1>2, <1>3
  <1> QED
    BY <1>2, <1>3, <1>4 DEF IdsOf

\* So are their outcomes.
LEMMA SameTales ==
  ASSUME NEW raw \in Seq(Blocks), NEW J, NEW s, SinglesIn(AsEvents(raw), J, s),
         \A i \in J : EventAt(i, raw)[1].id = raw[i].id /\ EventAt(i, raw)[1].outcome = raw[i].outcome
  PROVE  TalesOf(s) = TalesOf(Picked(raw, J))
  <1> DEFINE l == Listed(J, UpTo(J))
             N == Cardinality(J)
  <1>1. DOMAIN raw = 1 .. Len(raw) /\ Len(AsEvents(raw)) = Len(raw)
        /\ \A i \in DOMAIN raw : AsEvents(raw)[i] = EventAt(i, raw)
    BY DEF AsEvents
  <1>2. /\ J \subseteq DOMAIN raw /\ DOMAIN s = 1 .. N
        /\ \A n \in 1 .. N : l[n] \in J /\ s[n] = EventAt(l[n], raw)[1]
    BY <1>1 DEF SinglesIn
  <1>3. /\ DOMAIN Picked(raw, J) = 1 .. N
        /\ \A n \in 1 .. N : Picked(raw, J)[n] = raw[l[n]]
    BY <1>2, PickedBlocks
  <1> HIDE DEF l, N
  <1>4. \A n \in 1 .. N : /\ s[n].id = Picked(raw, J)[n].id
                          /\ s[n].outcome = Picked(raw, J)[n].outcome
    BY <1>2, <1>3
  <1> QED
    BY <1>2, <1>3, <1>4 DEF TalesOf

LEMMA SameWords ==
  ASSUME NEW raw \in Seq(Blocks), NEW J, NEW s, SinglesIn(AsEvents(raw), J, s),
         s = [n \in DOMAIN s |-> s[n]], \A i \in J : EventAt(i, raw)[1] = raw[i]
  PROVE  s = Picked(raw, J)
  <1> DEFINE l == Listed(J, UpTo(J))
             N == Cardinality(J)
  <1>1. DOMAIN raw = 1 .. Len(raw) /\ Len(AsEvents(raw)) = Len(raw)
        /\ \A i \in DOMAIN raw : AsEvents(raw)[i] = EventAt(i, raw)
    BY DEF AsEvents
  <1>2. /\ J \subseteq DOMAIN raw /\ DOMAIN s = 1 .. N
        /\ \A n \in 1 .. N : l[n] \in J /\ s[n] = EventAt(l[n], raw)[1]
    BY <1>1 DEF SinglesIn
  <1>3. Picked(raw, J) = [n \in 1 .. N |-> raw[l[n]]]
    BY DEF Picked
  <1> HIDE DEF l, N
  <1>4. \A n \in 1 .. N : s[n] = raw[l[n]]
    BY <1>2
  <1> QED
    BY <1>2, <1>3, <1>4

\* A failed result is told of as one without a call when there is none.
LEMMA StrayIsUncalled ==
  ASSUME NEW raw \in Seq(Blocks), Admissible(raw), NEW i \in DOMAIN raw, raw[i].kind = "result"
  PROVE  Stray(i, raw) <=> Use(raw[i].id) \notin Range(raw)
  <1> DEFINE c == raw[i].id
  <1>1. c \in Calls /\ c # ""
    <2>1. raw[i] \in Blocks
      OBVIOUS
    <2>2. c \in Calls
      BY <2>1, BlockFacts
    <2> QED
      BY <2>2, EventsAssumption, Zenon
  <1>2. DOMAIN raw = 1 .. Len(raw) /\ Len(raw) \in Nat /\ \A j \in DOMAIN raw : raw[j] \in Blocks /\ j \in Int
    OBVIOUS
  <1>3. Use(c).kind = "use" /\ Use(c).id = c
    BY DEF Use
  <1> HIDE DEF c
  <1>4. ASSUME Stray(i, raw), Use(c) \in Range(raw) PROVE FALSE
    <2>1. PICK j \in DOMAIN raw : raw[j] = Use(c)
      BY <1>4 DEF Range
    <2>2. raw[j].kind = "use" /\ raw[j].id = c
      BY <1>3, <2>1
    <2>3. CASE j < i
      <3>1. j \in 1 .. i - 1
        BY <1>2, <2>3
      <3> QED
        BY <1>4, <2>2, <3>1 DEF Stray, c
    <2>4. CASE i < j
      BY <1>1, <2>2, <2>4 DEF Admissible, c
    <2>5. j # i
      BY <2>2
    <2> QED
      BY <1>2, <2>3, <2>4, <2>5
  <1>5. ASSUME ~ Stray(i, raw) PROVE Use(c) \in Range(raw)
    <2>1. PICK j \in 1 .. i - 1 : raw[j].kind \in {"use", "result"} /\ raw[j].id = c
      BY <1>5 DEF Stray, c
    <2>2. j \in DOMAIN raw /\ j < i
      BY <1>2
    <2>3. raw[j].kind = "use"
      BY <1>1, <2>1, <2>2 DEF Admissible, c
    <2>4. raw[j] = Use(c)
      BY <1>2, <2>1, <2>2, <2>3, BlockFacts
    <2> QED
      BY <2>2, <2>4 DEF Range
  <1> QED
    BY <1>4, <1>5 DEF c

LEMMA FaithfulAnswer ==
  ASSUME NEW raw \in Seq(Blocks), Admissible(raw)
  PROVE  Faithful(BuildResponse(raw), raw)
  <1> DEFINE F == Flattened(AsEvents(raw))
             events == BuildResponse(raw)
             J(kinds) == {i \in DOMAIN raw : DOMAIN EventAt(i, raw) = {1} /\ EventAt(i, raw)[1].kind \in kinds}
             E(i) == EventAt(i, raw)
  <1>1. events = OrEmpty(F)
    BY DEF BuildResponse, AsEvents
  <1>2. \A kinds : SinglesIn(AsEvents(raw), J(kinds), OfKind(F, kinds))
    BY EventsOfKind
  <1>3. \A i \in DOMAIN raw : raw[i] \in Blocks /\ i \in DOMAIN raw
    OBVIOUS
  <1>4. \A i \in DOMAIN raw :
          /\ raw[i].kind = "use" => E(i) = <<Call(raw[i].id, OutcomeOf(raw[i].id, raw))>>
          /\ raw[i].kind = "result" /\ raw[i].outcome.failed /\ Stray(i, raw) => E(i) = <<Unknown(raw[i].id, raw[i].outcome)>>
          /\ raw[i].kind = "result" /\ ~ (raw[i].outcome.failed /\ Stray(i, raw)) => E(i) = <<>>
          /\ raw[i].kind \in {"text", "thinking"} => E(i) = <<raw[i]>>
          /\ raw[i].kind \in {"use", "result", "text", "thinking"}
    BY <1>3, EventAtFacts, BlockFacts
  <1> HIDE DEF E
  <1>5. J({"call"}) = {i \in DOMAIN raw : raw[i].kind \in {"use"}}
    <2>1. \A i \in DOMAIN raw : DOMAIN E(i) = {1} /\ E(i)[1].kind = "call" <=> raw[i].kind = "use"
      BY <1>4, KindsDiffer
    <2> QED
      BY <2>1 DEF E
  <1>6. J({"unknown"}) = {i \in DOMAIN raw : /\ raw[i].kind = "result" /\ raw[i].outcome.failed
                                            /\ Use(raw[i].id) \notin Range(raw)}
    <2>1. \A i \in DOMAIN raw : DOMAIN E(i) = {1} /\ E(i)[1].kind = "unknown"
                                <=> raw[i].kind = "result" /\ raw[i].outcome.failed /\ Stray(i, raw)
      BY <1>4, KindsDiffer
    <2>2. \A i \in DOMAIN raw : raw[i].kind = "result" => (Stray(i, raw) <=> Use(raw[i].id) \notin Range(raw))
      BY StrayIsUncalled
    <2> QED
      BY <2>1, <2>2 DEF E
  <1>7. J({"text", "thinking"}) = {i \in DOMAIN raw : raw[i].kind \in {"text", "thinking"}}
    <2>1. \A i \in DOMAIN raw : DOMAIN E(i) = {1} /\ E(i)[1].kind \in {"text", "thinking"}
                                <=> raw[i].kind \in {"text", "thinking"}
      BY <1>4, KindsDiffer
    <2> QED
      BY <2>1 DEF E
  <1>8. \A kinds \in {{"call"}, {"unknown"}} : OfKind(events, kinds) = OfKind(F, kinds)
    <2> SUFFICES ASSUME NEW kinds \in {{"call"}, {"unknown"}}, F = <<>>
                 PROVE  OfKind(events, kinds) = OfKind(F, kinds)
      BY <1>1 DEF OrEmpty
    <2>1. events = <<Text>>
      BY <1>1 DEF OrEmpty, Empty
    <2> HIDE DEF events, F
    <2>2. {i \in DOMAIN events : events[i].kind \in kinds} = {}
      <3>1. DOMAIN events = {1} /\ events[1] = Text
        BY <2>1
      <3> QED
        BY <3>1, WordsAreTexts
    <2>3. {i \in DOMAIN F : F[i].kind \in kinds} = {}
      OBVIOUS
    <2> QED
      BY <2>2, <2>3, NothingPicked DEF OfKind
  <1> DEFINE calls == OfKind(events, {"call"})
  <1>9. IdsOf(calls) = IdsOf(OfKind(raw, {"use"}))
    <2>1. SinglesIn(AsEvents(raw), J({"call"}), calls)
      BY <1>2, <1>8
    <2>2. \A i \in J({"call"}) : E(i)[1].id = raw[i].id
      BY <1>4, <1>5, KindsDiffer
    <2>3. IdsOf(calls) = IdsOf(Picked(raw, J({"call"})))
      BY <2>1, <2>2, SameIds DEF E
    <2> QED
      BY <1>5, <2>3 DEF OfKind
  <1>10. \A n \in DOMAIN calls : {calls[n].outcome} = Truth(calls[n].id, raw)
    <2>1. SinglesIn(AsEvents(raw), J({"call"}), calls)
      BY <1>2, <1>8
    <2> SUFFICES ASSUME NEW n \in DOMAIN calls PROVE {calls[n].outcome} = Truth(calls[n].id, raw)
      OBVIOUS
    <2> HIDE DEF calls
    <2>2. \E i \in J({"call"}) : calls[n] = AsEvents(raw)[i][1]
      BY <2>1 DEF SinglesIn
    <2>3. PICK i \in DOMAIN raw : raw[i].kind = "use" /\ calls[n] = E(i)[1]
      BY <1>5, <2>2 DEF AsEvents, E
    <2>4. calls[n] = Call(raw[i].id, OutcomeOf(raw[i].id, raw)) /\ raw[i].id \in Calls
      BY <1>3, <1>4, <2>3, BlockFacts
    <2>5. {OutcomeOf(raw[i].id, raw)} = Truth(raw[i].id, raw)
      BY <2>4, OutcomeIsTrue
    <2> QED
      BY <2>4, <2>5, KindsDiffer
  <1>11. TalesOf(OfKind(events, {"unknown"})) = TalesOf(Picked(raw, J({"unknown"})))
    <2>1. SinglesIn(AsEvents(raw), J({"unknown"}), OfKind(events, {"unknown"}))
      BY <1>2, <1>8
    <2>2. \A i \in J({"unknown"}) : E(i)[1].id = raw[i].id /\ E(i)[1].outcome = raw[i].outcome
      BY <1>4, <1>6, KindsDiffer, StrayIsUncalled
    <2> QED
      BY <2>1, <2>2, SameTales DEF E
  <1>12. events = Empty \/ OfKind(events, {"text", "thinking"}) = OfKind(raw, {"text", "thinking"})
    <2>1. CASE F = <<>>
      BY <1>1, <2>1 DEF OrEmpty
    <2>2. CASE F # <<>>
      <3>1. events = F
        BY <1>1, <2>2 DEF OrEmpty
      <3> DEFINE s == OfKind(F, {"text", "thinking"})
                 I == {i \in DOMAIN F : F[i].kind \in {"text", "thinking"}}
      <3>2. SinglesIn(AsEvents(raw), J({"text", "thinking"}), s)
        BY <1>2
      <3>3. \A i \in J({"text", "thinking"}) : E(i)[1] = raw[i]
        BY <1>4, <1>7
      <3>4. s = [n \in 1 .. Cardinality(I) |-> F[Listed(I, UpTo(I))[n]]]
        BY DEF OfKind, Picked
      <3> HIDE DEF s, I
      <3>5. s = Picked(raw, J({"text", "thinking"}))
        BY <3>2, <3>3, <3>4, SameWords DEF E
      <3> QED
        BY <1>7, <3>1, <3>5 DEF OfKind, s
    <2> QED
      BY <2>1, <2>2
  <1> QED
    BY <1>6, <1>9, <1>10, <1>11, <1>12 DEF Faithful

\* The messages that a turn is made of, and where the last one of the user is.
LEMMA LastTurn ==
  ASSUME NEW S, NEW turn \in Seq(S), \A m \in S : m.type # "human"
  PROVE  TurnOf(turn \o <<Human>> \o turn) = turn
  <1> DEFINE n == Len(turn)
             T == S \cup {Human}
             all == turn \o <<Human>> \o turn
             I == {i \in 1 .. Len(all) : all[i].type = "human"}
  <1>1. n \in Nat /\ turn \in Seq(T) /\ <<Human>> \in Seq(T) /\ Len(<<Human>>) = 1
    OBVIOUS
  <1>2. /\ all \in Seq(T) /\ Len(all) = n + 1 + n
        /\ \A i \in 1 .. n : all[i] = turn[i]
        /\ all[n + 1] = Human
        /\ \A i \in n + 2 .. n + 1 + n : all[i] = turn[i - (n + 1)]
    BY <1>1
  <1>3. \A i \in 1 .. n : turn[i] \in S
    OBVIOUS
  <1> HIDE DEF all, n, T
  <1>4. I = {n + 1}
    <2>1. n + 1 \in I
      BY <1>1, <1>2 DEF Human
    <2>2. ASSUME NEW i \in I, i # n + 1 PROVE FALSE
      <3>1. i \in 1 .. n \/ i \in n + 2 .. n + 1 + n
        BY <1>1, <1>2, <2>2
      <3>2. CASE i \in 1 .. n
        BY <1>2, <1>3, <3>2
      <3>3. CASE i \in n + 2 .. n + 1 + n
        <4>1. i - (n + 1) \in 1 .. n
          BY <1>1, <3>3
        <4> QED
          BY <1>2, <1>3, <3>3, <4>1
      <3> QED
        BY <3>1, <3>2, <3>3
    <2> QED
      BY <2>1, <2>2
  <1> HIDE DEF I
  <1>5. Max(I) = n + 1
    <2>1. \E x \in I : \A y \in I : x >= y
      BY <1>1, <1>4
    <2>2. Max(I) \in I
      BY <2>1 DEF Max
    <2> QED
      BY <1>4, <2>2
  <1>6. SelectLastInSeq(all, LAMBDA m : m.type = "human") = n + 1
    BY <1>4, <1>5 DEF SelectLastInSeq, I
  <1>7. TurnOf(all) = SubSeq(all, n + 2, n + 1 + n)
    <2>1. n + 1 + 1 = n + 2
      BY <1>1
    <2> QED
      BY <1>2, <1>6, <2>1 DEF TurnOf
  <1>8. SubSeq(all, n + 2, n + 1 + n) = turn
    <2> DEFINE t == SubSeq(all, n + 2, n + 1 + n)
    <2>1. n + 2 \in Int /\ n + 1 + n \in Int /\ \A i \in n + 2 .. n + 1 + n : all[i] \in T
      BY <1>1, <1>2
    <2>2. t \in Seq(T) /\ Len(t) = (IF n + 2 <= n + 1 + n THEN (n + 1 + n) - (n + 2) + 1 ELSE 0)
      BY <2>1, SubSeqProperties
    <2>3. \A i \in 1 .. (n + 1 + n) - (n + 2) + 1 : t[i] = all[(n + 2) + i - 1]
      BY <2>1, SubSeqProperties
    <2> HIDE DEF t
    <2>4. Len(t) = n
      BY <1>1, <2>2
    <2>5. \A i \in 1 .. n : t[i] = turn[i]
      <3> SUFFICES ASSUME NEW i \in 1 .. n PROVE t[i] = turn[i]
        OBVIOUS
      <3>1. i \in 1 .. (n + 1 + n) - (n + 2) + 1 /\ (n + 2) + i - 1 \in n + 2 .. n + 1 + n
            /\ ((n + 2) + i - 1) - (n + 1) = i
        BY <1>1
      <3> QED
        BY <1>2, <2>3, <3>1
    <2> QED
      BY <1>1, <2>2, <2>4, <2>5 DEF n, t
  <1> QED
    BY <1>7, <1>8 DEF all

\* A message says what a block says, if it is only taken for the events.
Says(m, b) ==
  CASE b.kind = "use" -> /\ m.type = "ai" /\ m.calls = <<b.id>>
                         /\ (IF m.plain /\ m.calls # <<>> THEN <<>> ELSE m.content) = <<>>
    [] b.kind = "result" -> m.type = "tool" /\ m.id = b.id /\ m.outcome = b.outcome
    [] OTHER -> m.type = "ai" /\ m.content = <<b>> /\ m.calls = <<>>

LEMMA MessageFacts ==
  ASSUME NEW raw \in Seq(Blocks), NEW i \in DOMAIN raw, NEW plain \in BOOLEAN
  PROVE  Says(MessageAt(i, raw, plain), raw[i])
  <1> DEFINE b == raw[i]
             m == MessageAt(i, raw, plain)
  <1>1. b \in Blocks /\ b.kind \in {"use", "result", "text", "thinking"}
    BY BlockFacts
  <1>2. CASE b.kind = "use"
    <2> DEFINE content == IF plain /\ i - 1 \in Beside(raw) THEN <<Text>> ELSE <<>>
    <2>1. m = AI(content, plain, <<b.id>>)
      BY <1>2 DEF MessageAt
    <2>2. ~ plain => content = <<>>
      OBVIOUS
    <2> HIDE DEF content, m
    <2>3. m.type = "ai" /\ m.calls = <<b.id>> /\ m.content = content /\ m.plain = plain
      BY <2>1 DEF AI
    <2>4. m.calls # <<>>
      BY <2>3
    <2>5. (IF m.plain /\ m.calls # <<>> THEN <<>> ELSE m.content) = <<>>
      BY <2>2, <2>3, <2>4
    <2> QED
      BY <1>2, <2>3, <2>5 DEF Says, m
  <1>3. CASE b.kind = "result"
    BY <1>3 DEF MessageAt, ToolMessage, Says
  <1>4. CASE b.kind \in {"text", "thinking"}
    <2>1. m = AI(<<b>>, plain /\ b = Text, <<>>)
      BY <1>4 DEF MessageAt
    <2> HIDE DEF m
    <2>2. m.type = "ai" /\ m.calls = <<>> /\ m.content = <<b>>
      BY <2>1 DEF AI
    <2> QED
      BY <1>4, <2>2 DEF Says, m
  <1> QED
    BY <1>1, <1>2, <1>3, <1>4

\* A turn whose messages say what the blocks say has their events.
TurnSays(turn, raw) ==
  /\ DOMAIN turn = DOMAIN raw /\ turn \in Seq(Range(turn))
  /\ \A i \in DOMAIN raw : Says(turn[i], raw[i])

LEMMA SameEvents ==
  ASSUME NEW raw \in Seq(Blocks), NoneStray(raw), NEW turn, TurnSays(turn, raw)
  PROVE  Extract(turn \o <<Human>> \o turn) = Flattened(AsEvents(raw))
  <1>1. /\ DOMAIN turn = DOMAIN raw /\ DOMAIN raw = 1 .. Len(raw) /\ Len(raw) \in Nat
        /\ turn \in Seq(Range(turn))
        /\ \A i \in DOMAIN raw : raw[i] \in Blocks /\ Says(turn[i], raw[i])
    BY DEF TurnSays
  <1>2. \A i \in DOMAIN raw :
          /\ raw[i].kind \in {"use", "result", "text", "thinking"}
          /\ raw[i].kind = "use" =>
               /\ turn[i].type = "ai" /\ turn[i].calls = <<raw[i].id>>
               /\ (IF turn[i].plain /\ turn[i].calls # <<>> THEN <<>> ELSE turn[i].content) = <<>>
          /\ raw[i].kind = "result" =>
               turn[i].type = "tool" /\ turn[i].id = raw[i].id /\ turn[i].outcome = raw[i].outcome
          /\ raw[i].kind \in {"text", "thinking"} =>
               turn[i].type = "ai" /\ turn[i].content = <<raw[i]>> /\ turn[i].calls = <<>>
    <2> SUFFICES ASSUME NEW i \in DOMAIN raw
                 PROVE  /\ raw[i].kind \in {"use", "result", "text", "thinking"}
                        /\ raw[i].kind = "use" =>
                             /\ turn[i].type = "ai" /\ turn[i].calls = <<raw[i].id>>
                             /\ (IF turn[i].plain /\ turn[i].calls # <<>> THEN <<>> ELSE turn[i].content) = <<>>
                        /\ raw[i].kind = "result" =>
                             turn[i].type = "tool" /\ turn[i].id = raw[i].id /\ turn[i].outcome = raw[i].outcome
                        /\ raw[i].kind \in {"text", "thinking"} =>
                             turn[i].type = "ai" /\ turn[i].content = <<raw[i]>> /\ turn[i].calls = <<>>
      OBVIOUS
    <2>1. raw[i].kind \in {"use", "result", "text", "thinking"}
      BY <1>1, BlockFacts
    <2>2. Says(turn[i], raw[i])
      BY <1>1
    <2> QED
      BY <2>1, <2>2 DEF Says
  <1>3. \A m \in Range(turn) : m.type # "human"
    BY <1>1, <1>2 DEF Range
  <1>5. TurnOf(turn \o <<Human>> \o turn) = turn
    BY <1>1, <1>3, LastTurn
  <1>6. \A c : Answered(c, turn) = OutcomeOf(c, raw)
    <2> SUFFICES ASSUME NEW c PROVE Answered(c, turn) = OutcomeOf(c, raw)
      OBVIOUS
    <2> DEFINE R == ResultsFor(c, raw)
    <2>1. {i \in DOMAIN turn : turn[i].type = "tool" /\ turn[i].id = c} = R
      BY <1>1, <1>2 DEF ResultsFor
    <2>2. \A i \in R : turn[i].outcome = raw[i].outcome
      BY <1>2 DEF ResultsFor
    <2>3. R \in SUBSET (1 .. Len(raw))
      BY <1>1 DEF ResultsFor
    <2> HIDE DEF R
    <2>4. R # {} => Max(R) \in R
      BY <1>1, <2>3, FirstAndLast
    <2> QED
      BY <2>1, <2>2, <2>4 DEF Answered, OutcomeOf, R
  <1>7. \A i \in DOMAIN raw : EventsOf(turn[i], turn) = EventAt(i, raw)
    <2> SUFFICES ASSUME NEW i \in DOMAIN raw PROVE EventsOf(turn[i], turn) = EventAt(i, raw)
      OBVIOUS
    <2> DEFINE b == raw[i]
               m == turn[i]
               said == IF m.plain /\ m.calls # <<>> THEN <<>> ELSE m.content
               told == [j \in DOMAIN m.calls |-> Call(m.calls[j], Answered(m.calls[j], turn))]
    <2>1. EventsOf(m, turn) = IF m.type # "ai" THEN <<>> ELSE said \o told
      BY DEF EventsOf
    <2>2. b.kind \in {"use", "result", "text", "thinking"}
      BY <1>2
    <2>3. CASE b.kind = "use"
      <3>1. m.type = "ai" /\ said = <<>> /\ m.calls = <<b.id>>
        BY <1>2, <2>3
      <3> DEFINE v == Call(b.id, OutcomeOf(b.id, raw))
      <3>2. told = <<v>>
        <4>1. DOMAIN m.calls = {1} /\ m.calls[1] = b.id
          BY <3>1
        <4>2. told = [j \in {1} |-> v]
          BY <1>6, <4>1
        <4> HIDE DEF v, told
        <4> QED
          BY <4>2
      <3>4. EventAt(i, raw) = <<v>>
        BY <2>3, EventAtFacts
      <3> HIDE DEF v, told, said
      <3>5. <<>> \o <<v>> = <<v>>
        OBVIOUS
      <3> QED
        BY <2>1, <3>1, <3>2, <3>4, <3>5
    <2>4. CASE b.kind = "result"
      <3>1. m.type = "tool"
        BY <1>2, <2>4
      <3>2. ~ Stray(i, raw)
        BY <2>4 DEF NoneStray
      <3>3. EventAt(i, raw) = <<>>
        BY <2>4, <3>2, EventAtFacts
      <3> HIDE DEF told, said
      <3> QED
        BY <2>1, <3>1, <3>3
    <2>5. CASE b.kind \in {"text", "thinking"}
      <3>1. m.type = "ai" /\ m.content = <<b>> /\ m.calls = <<>>
        BY <1>2, <2>5
      <3>2. told = <<>> /\ said = <<b>>
        BY <3>1
      <3>4. EventAt(i, raw) = <<b>>
        BY <2>5, EventAtFacts
      <3> HIDE DEF told, said, b
      <3>5. <<b>> \o <<>> = <<b>>
        OBVIOUS
      <3> QED
        BY <2>1, <3>1, <3>2, <3>4, <3>5
    <2> QED
      BY <2>2, <2>3, <2>4, <2>5
  <1>8. [i \in DOMAIN turn |-> EventsOf(turn[i], turn)] = AsEvents(raw)
    BY <1>1, <1>7 DEF AsEvents
  <1> QED
    BY <1>5, <1>8 DEF Extract

\* Where only texts have no message of their own, every result keeps its call.
LEMMA ApartKeeps ==
  ASSUME NEW raw \in Seq(Blocks), NoneStray(raw), NEW plain \in BOOLEAN
  PROVE  LET heard == Picked(raw, Apart(raw, plain))
         IN /\ heard \in Seq(Blocks) /\ NoneStray(heard)
            /\ TurnSays(AsMessages(raw, plain), heard)
  <1> DEFINE I == Apart(raw, plain)
             ms == [i \in DOMAIN raw |-> MessageAt(i, raw, plain)]
             heard == Picked(raw, I)
             turn == Picked(ms, I)
             l == Listed(I, UpTo(I))
             N == Cardinality(I)
  <1>1. /\ I \in SUBSET (1 .. Len(raw)) /\ Len(raw) \in Nat /\ I \subseteq DOMAIN raw
        /\ \A i \in DOMAIN raw : raw[i] \in Blocks
    BY DEF Apart
  <1>2. \A i \in DOMAIN raw : raw[i].kind \in {"use", "result"} => i \in I
    BY WordKinds DEF Apart, Beside
  <1>3. \A i \in I : raw[i] \in Blocks /\ ms[i] \in Range(ms) /\ ms[i] = MessageAt(i, raw, plain)
    BY <1>1 DEF Range
  <1>4. turn = AsMessages(raw, plain)
    BY DEF AsMessages
  <1> HIDE DEF I, ms
  <1>5. /\ heard \in Seq(Blocks) /\ N \in Nat /\ DOMAIN heard = 1 .. N
        /\ \A n \in 1 .. N : l[n] \in I /\ heard[n] = raw[l[n]]
        /\ \A i \in I : \E n \in 1 .. N : l[n] = i
    BY <1>1, <1>3, PickedFacts
  <1>6. /\ turn \in Seq(Range(ms)) /\ DOMAIN turn = 1 .. N
        /\ \A n \in 1 .. N : turn[n] = ms[l[n]]
    <2>1. \A i \in I : ms[i] \in Range(ms)
      BY <1>3
    <2>2. I \in SUBSET (1 .. Len(raw)) /\ Len(raw) \in Nat
      BY <1>1
    <2> DEFINE R == Range(ms)
    <2>3. \A i \in I : ms[i] \in R
      BY <2>1
    <2> HIDE DEF R
    <2>4. /\ turn \in Seq(R) /\ DOMAIN turn = 1 .. N
          /\ \A n \in 1 .. N : turn[n] = ms[l[n]]
      BY <2>2, <2>3, PickedFacts
    <2> QED
      BY <2>4 DEF R
  <1>7. \A m, n \in 1 .. N : m <= n <=> l[m] \in UpTo(I)[l[n]]
    BY <1>1, PositionsAreAChain, ListedFacts
  <1> HIDE DEF heard, turn, l, N
  <1>8. \A m, n \in 1 .. N : l[m] < l[n] => m < n
    <2> SUFFICES ASSUME NEW m \in 1 .. N, NEW n \in 1 .. N, l[m] < l[n], n <= m PROVE FALSE
      OBVIOUS
    <2>1. l[n] \in UpTo(I)[l[m]]
      BY <1>7
    <2>2. l[n] <= l[m] /\ l[n] \in Int /\ l[m] \in Int
      BY <1>1, <1>5, <2>1 DEF UpTo
    <2> QED
      BY <2>2
  <1>9. NoneStray(heard)
    <2> SUFFICES ASSUME NEW n \in 1 .. N, heard[n].kind = "result" PROVE ~ Stray(n, heard)
      BY <1>5 DEF NoneStray
    <2>1. l[n] \in DOMAIN raw /\ raw[l[n]].kind = "result" /\ heard[n] = raw[l[n]]
      BY <1>1, <1>5
    <2>2. ~ Stray(l[n], raw)
      BY <2>1 DEF NoneStray
    <2>3. PICK j \in 1 .. l[n] - 1 : raw[j].kind \in {"use", "result"} /\ raw[j].id = raw[l[n]].id
      BY <2>2 DEF Stray
    <2>4. j \in DOMAIN raw /\ j < l[n]
      BY <1>1, <2>1
    <2>5. PICK m \in 1 .. N : l[m] = j
      BY <1>2, <1>5, <2>3, <2>4
    <2>6. m < n
      BY <1>8, <2>4, <2>5
    <2>7. m \in 1 .. n - 1
      BY <1>5, <2>6
    <2>8. heard[m] = raw[j]
      BY <1>5, <2>5
    <2> QED
      BY <2>1, <2>3, <2>7, <2>8 DEF Stray
  <1>10. TurnSays(turn, heard)
    <2>1. \A n \in 1 .. N : Says(turn[n], heard[n])
      BY <1>1, <1>3, <1>5, <1>6, MessageFacts
    <2>2. turn \in Seq(Range(turn))
      <3>1. turn \in [1 .. N -> Range(turn)]
        BY <1>6 DEF Range
      <3> QED
        BY <1>5, <3>1, FunctionIsSeq
    <2> QED
      BY <1>5, <1>6, <2>1, <2>2 DEF TurnSays
  <1> QED
    BY <1>4, <1>5, <1>9, <1>10 DEF heard, turn, I

\* What is said of any answer that can be printed.
LEMMA TrueAnswer ==
  ASSUME printed \in Seq(Blocks), Admissible(printed)
  PROVE  AnswersAreTrue
  <1>1. Faithful(BuildResponse(printed), printed)
    BY FaithfulAnswer
  <1>2. ASSUME NoneStray(printed), NEW plain \in BOOLEAN
        PROVE  LET turn == AsMessages(printed, plain)
               IN OrEmpty(Extract(turn \o <<Human>> \o turn))
                    = BuildResponse(Picked(printed, Apart(printed, plain)))
    <2> DEFINE turn == AsMessages(printed, plain)
               heard == Picked(printed, Apart(printed, plain))
    <2>1. heard \in Seq(Blocks) /\ NoneStray(heard) /\ TurnSays(turn, heard)
      BY <1>2, ApartKeeps
    <2> HIDE DEF turn, heard
    <2>2. Extract(turn \o <<Human>> \o turn) = Flattened(AsEvents(heard))
      BY <2>1, SameEvents
    <2>3. BuildResponse(heard) = OrEmpty(Flattened(AsEvents(heard)))
      BY DEF BuildResponse, AsEvents
    <2> QED
      BY <2>2, <2>3 DEF turn, heard
  <1> QED
    BY <1>1, <1>2 DEF AnswersAreTrue

\* What is printed is always what one answer can print: a call once, and at most
\* one result of it, after it.
PrintedInv == printed \in Seq(Blocks) /\ Len(printed) <= MaxBlocks /\ Admissible(printed)

LEMMA NothingPrinted == <<>> \in Seq(Blocks) /\ Len(<<>>) <= MaxBlocks /\ Admissible(<<>>)
  <1>1. Admissible(<<>>)
    <2>1. DOMAIN <<>> = {}
      OBVIOUS
    <2> QED
      BY <2>1, Zenon DEF Admissible
  <1> QED
    BY <1>1, DetailsAssumption

LEMMA PrintedStep ==
  ASSUME PrintedInv, [Next]_vars
  PROVE  PrintedInv'
  <1>1. ASSUME printed' = <<>> PROVE PrintedInv'
    BY <1>1, NothingPrinted DEF PrintedInv
  <1>2. ASSUME NEW b \in Blocks, Printing(b) PROVE PrintedInv'
    <2>1. /\ Len(printed) < MaxBlocks /\ Admissible(Append(printed, b))
          /\ printed' = Append(printed, b)
      BY <1>2 DEF Printing, PrintBlock
    <2>2. /\ Append(printed, b) \in Seq(Blocks)
          /\ Len(Append(printed, b)) = Len(printed) + 1 /\ Len(printed) \in Nat
      BY DEF PrintedInv
    <2> QED
      BY <2>1, <2>2, DetailsAssumption DEF PrintedInv
  <1>3. ASSUME UNCHANGED printed PROVE PrintedInv'
    BY <1>3 DEF PrintedInv
  <1>4. CASE Next
    <2>1. \/ printed' = <<>> \/ (\E b \in Blocks : Printing(b)) \/ UNCHANGED printed
      BY <1>4 DEF Next, ShowProjects, OpenProject, TurnPage, ShowMenu, Exit, Press, Answer, ShowAnswer,
                  Details, Expand, Collapse, Terminal, Crash, DetailsRestart, detailVars
    <2> QED
      BY <1>1, <1>2, <1>3, <2>1
  <1>5. CASE UNCHANGED vars
    BY <1>3, <1>5 DEF vars, detailVars
  <1> QED
    BY <1>4, <1>5

\* The environment keeps to what one answer can print.
LEMMA PrintedInvariant == Spec => []PrintedInv
  <1>1. Init => PrintedInv
    BY NothingPrinted DEF Init, DetailsInit, PrintedInv
  <1>2. PrintedInv /\ [Next]_vars => PrintedInv'
    BY PrintedStep
  <1> QED
    BY <1>1, <1>2, PTL DEF Spec

\* In whatever order a process can print, a call once and its result at most once
\* and after it, the details say of every call what its result says, of every
\* failure that has no call that there was one, and what was said and thought;
\* both kinds of agent are shown alike (bridge.py: _build_response,
\* agent_response.py: extract_agent_response).
THEOREM AnswersTrue == Spec => []AnswersAreTrue
  <1>1. PrintedInv => AnswersAreTrue
    BY TrueAnswer DEF PrintedInv
  <1> QED
    BY <1>1, PrintedInvariant, PTL

----------------------------------------------------------------------------
(* Types: the details *)

\* An answer may also be the one error of an output that cannot be read.
Shown == Events \cup {[kind |-> "error"]}
Printable == {Junk, Final} \cup {Message(c) : c \in Seq(Blocks)} \cup {Legacy(c) : c \in Seq(Blocks)}

LEMMA EmptyTypes == Empty \in Seq(Shown) /\ <<Text>> \in Seq(Shown) /\ Failure \in Seq(Shown)
  <1>1. Text \in Shown /\ [kind |-> "error"] \in Shown
    BY DEF Shown, Events
  <1> QED
    BY <1>1 DEF Empty, Failure

LEMMA BuildTypes ==
  ASSUME NEW raw \in Seq(Blocks)
  PROVE  BuildResponse(raw) \in Seq(Shown)
  <1>1. \A i \in DOMAIN raw : EventAt(i, raw) \in Seq(Events)
    BY EventAtFacts
  <1>2. DOMAIN raw = 1 .. Len(raw) /\ Len(raw) \in Nat
    OBVIOUS
  <1>3. AsEvents(raw) \in [1 .. Len(raw) -> Seq(Events)]
    BY <1>1, <1>2 DEF AsEvents
  <1>4. AsEvents(raw) \in Seq(Seq(Events))
    BY <1>2, <1>3, FunctionIsSeq
  <1>5. Flattened(AsEvents(raw)) \in Seq(Events)
    BY <1>4, FlattenedFacts
  <1>6. Flattened(AsEvents(raw)) \in Seq(Shown)
    BY <1>5 DEF Shown
  <1> QED
    BY <1>6, EmptyTypes DEF BuildResponse, AsEvents, OrEmpty

LEMMA ContentTypes ==
  ASSUME NEW content \in Seq(Blocks)
  PROVE  ParseContentBlocks(content) \in Seq(Shown)
  <1> DEFINE I == {i \in DOMAIN content : content[i].kind \in {"use", "text"}}
             T == {b \in Blocks : b.kind \in {"use", "text"}}
             told == Picked(content, I)
             events == [i \in DOMAIN told |-> IF told[i].kind = "use" THEN Call(told[i].id, Silent) ELSE told[i]]
  <1>1. I \in SUBSET (1 .. Len(content)) /\ Len(content) \in Nat /\ \A i \in I : content[i] \in T
    OBVIOUS
  <1> HIDE DEF I, T
  <1>2. told \in Seq(T)
    BY <1>1, PickedFacts
  <1>3. \A b \in T : b.kind = "use" => Call(b.id, Silent) \in Shown
    <2>1. Silent \in Outcomes
      BY DEF Silent, Outcomes
    <2> QED
      BY <2>1, BlockFacts DEF T, Shown, Events
  <1>4. \A b \in T : b.kind # "use" => b \in Shown
    BY BlockFacts DEF T, Shown, Events
  <1>5. Len(told) \in Nat /\ DOMAIN told = 1 .. Len(told) /\ \A i \in DOMAIN told : told[i] \in T
    BY <1>2
  <1> HIDE DEF told
  <1>6. events \in [1 .. Len(told) -> Shown]
    BY <1>3, <1>4, <1>5
  <1>7. events \in Seq(Shown)
    BY <1>5, <1>6, FunctionIsSeq
  <1>8. ParseContentBlocks(content) = OrEmpty(events)
    BY DEF ParseContentBlocks, told, I
  <1> QED
    BY <1>7, <1>8, EmptyTypes DEF OrEmpty

LEMMA LineFacts ==
  ASSUME NEW line \in Printable
  PROVE  line.content \in Seq(Blocks)
  <1>1. CASE line \in {Junk, Final}
    <2>1. <<>> \in Seq(Blocks)
      OBVIOUS
    <2>2. line.content = <<>>
      BY <1>1 DEF Junk, Final
    <2> QED
      BY <2>1, <2>2
  <1>2. CASE \E c \in Seq(Blocks) : line = Message(c) \/ line = Legacy(c)
    BY <1>2 DEF Message, Legacy
  <1> QED
    BY <1>1, <1>2 DEF Printable

LEMMA ParseTypes ==
  ASSUME NEW lines \in Seq(Printable)
  PROVE  ParseResponse(lines) \in Seq(Shown)
  <1> DEFINE I == {i \in DOMAIN lines : lines[i].type # "junk"}
             parsed == Picked(lines, I)
             contents == [i \in DOMAIN parsed |-> parsed[i].content]
  <1>1. I \in SUBSET (1 .. Len(lines)) /\ Len(lines) \in Nat /\ \A i \in I : lines[i] \in Printable
    OBVIOUS
  <1> HIDE DEF I
  <1>2. parsed \in Seq(Printable)
    BY <1>1, PickedFacts
  <1>3. /\ Len(parsed) \in Nat /\ DOMAIN parsed = 1 .. Len(parsed)
        /\ \A i \in DOMAIN parsed : parsed[i] \in Printable
    BY <1>2
  <1> HIDE DEF parsed
  <1>4. contents \in Seq(Seq(Blocks))
    <2>1. contents \in [1 .. Len(parsed) -> Seq(Blocks)]
      BY <1>3, LineFacts
    <2> QED
      BY <1>3, <2>1, FunctionIsSeq
  <1> HIDE DEF contents
  <1>5. Flattened(contents) \in Seq(Blocks)
    BY <1>4, FlattenedFacts
  <1>6. BuildResponse(Flattened(contents)) \in Seq(Shown)
    BY <1>5, BuildTypes
  <1>7. Len(parsed) = 1 => ParseSingle(parsed[1]) \in Seq(Shown)
    <2> SUFFICES ASSUME Len(parsed) = 1 PROVE ParseSingle(parsed[1]) \in Seq(Shown)
      OBVIOUS
    <2>1. parsed[1].content \in Seq(Blocks)
      BY <1>3, LineFacts
    <2>2. ParseContentBlocks(parsed[1].content) \in Seq(Shown)
      BY <2>1, ContentTypes
    <2> QED
      BY <2>2, EmptyTypes DEF ParseSingle
  <1>8. \/ ParseResponse(lines) = Empty \/ ParseResponse(lines) = Failure
        \/ Len(parsed) = 1 /\ ParseResponse(lines) = ParseSingle(parsed[1])
        \/ ParseResponse(lines) = BuildResponse(Flattened(contents))
    <2>1. ParseResponse(lines) =
            CASE lines = <<>> -> Empty
              [] lines # <<>> /\ parsed = <<>> -> Failure
              [] Len(parsed) = 1 -> ParseSingle(parsed[1])
              [] OTHER -> BuildResponse(Flattened(contents))
      BY DEF ParseResponse, parsed, I, contents
    <2>2. parsed = <<>> => Len(parsed) # 1
      BY <1>3
    <2> QED
      BY <2>1, <2>2
  <1> QED
    BY <1>6, <1>7, <1>8, EmptyTypes

LEMMA OutputTypes ==
  ASSUME printed \in Seq(Blocks), NEW output \in Outputs
  PROVE  output \in Seq(Printable)
  <1> DEFINE lines == Lines(printed)
  <1>1. lines \in Seq(Printable)
    <2>1. \A i \in DOMAIN printed : Message(<<printed[i]>>) \in Printable
      <3>1. \A i \in DOMAIN printed : <<printed[i]>> \in Seq(Blocks)
        OBVIOUS
      <3> QED
        BY <3>1 DEF Printable
    <2>2. lines \in [1 .. Len(printed) -> Printable] /\ Len(printed) \in Nat
      BY <2>1 DEF Lines
    <2> HIDE DEF lines
    <2> QED
      BY <2>2, FunctionIsSeq
  <1>2. Junk \in Printable /\ Final \in Printable /\ Legacy(printed) \in Printable
    BY DEF Printable
  <1> HIDE DEF lines
  <1>3. <<Junk>> \o lines \in Seq(Printable) /\ lines \o <<Final>> \in Seq(Printable)
    BY <1>1, <1>2
  <1>4. <<Legacy(printed)>> \in Seq(Printable)
    BY <1>2
  <1> QED
    BY <1>1, <1>3, <1>4 DEF Outputs, lines

LEMMA ItemTypes ==
  ASSUME NEW events \in Seq(Shown)
  PROVE  DetailItems(events) \in Seq(Item)
  <1> DEFINE I == {i \in DOMAIN events : events[i].kind \in {"call", "unknown", "thinking"}}
  <1>1. I \in SUBSET (1 .. Len(events)) /\ Len(events) \in Nat
    OBVIOUS
  <1>2. \A i \in I : events[i] \in Item
    <2> SUFFICES ASSUME NEW e \in Shown, e.kind \in {"call", "unknown", "thinking"}
                 PROVE  e \in Item
      OBVIOUS
    <2>1. e # Text /\ e # [kind |-> "error"]
      BY WordKinds
    <2> QED
      BY <2>1 DEF Shown, Events, Item
  <1> HIDE DEF I
  <1>3. Picked(events, I) \in Seq(Item)
    BY <1>1, <1>2, PickedFacts
  <1> QED
    BY <1>3 DEF DetailItems, I

ItemsTyped ==
  /\ \A k \in DOMAIN details : details[k].items \in Seq(Item) /\ details[k].posted \in BOOLEAN
  /\ offers \subseteq Offer

LEMMA ItemsStep ==
  ASSUME ItemsTyped, DetailsInv, PrintedInv, [Next]_vars
  PROVE  ItemsTyped'
  <1>1. ASSUME NEW output \in Outputs, Answer(output) PROVE ItemsTyped'
    <2> DEFINE items == DetailItems(ParseResponse(output))
               ds == With(Key, Entry(items))
               new == [key |-> Key, items |-> items, face |-> "expand", own |-> TRUE]
    <2>1. items \in Seq(Item)
      BY OutputTypes, ParseTypes, ItemTypes DEF PrintedInv
    <2>2. UNCHANGED storeVars \/ StoreItems(items)
      BY <1>1 DEF Answer, ShowAnswer
    <2> HIDE DEF items
    <2>3. CASE UNCHANGED storeVars
      BY <2>3 DEF storeVars, ItemsTyped
    <2>4. CASE StoreItems(items)
      <3>1. /\ counter \in Nat /\ Key \in Nat \ {0} /\ Key = counter + 1
            /\ DOMAIN details \subseteq 1 .. counter
        BY DEF DetailsInv, KeysKept, Key
      <3>2. details' = Trimmed(ds) /\ offers' \in {offers, offers \cup {new}}
        BY <2>4 DEF StoreItems
      <3>3. new \in Offer
        BY <2>1, <3>1 DEF Offer
      <3>4. /\ DOMAIN ds = DOMAIN details \cup {Key}
            /\ \A k \in DOMAIN ds : ds[k] = IF k = Key THEN Entry(items) ELSE details[k]
        BY DEF With
      <3>5. Entry(items).items = items /\ Entry(items).posted = FALSE
        BY DEF Entry
      <3> HIDE DEF ds, new
      <3>6. DOMAIN ds \subseteq 1 .. Key
        BY <3>1, <3>4
      <3>7. /\ details' = [k \in DOMAIN details' |-> ds[k]]
            /\ DOMAIN details' \subseteq DOMAIN ds
        BY <3>1, <3>2, <3>6, TrimmedKeeps
      <3>8. \A k \in DOMAIN ds : ds[k].items \in Seq(Item) /\ ds[k].posted \in BOOLEAN
        BY <2>1, <3>4, <3>5 DEF ItemsTyped
      <3>9. \A k \in DOMAIN details' : details'[k] = ds[k] /\ k \in DOMAIN ds
        BY <3>7
      <3>10. offers' \subseteq Offer
        BY <3>2, <3>3 DEF ItemsTyped
      <3> QED
        BY <3>8, <3>9, <3>10 DEF ItemsTyped
    <2> QED
      BY <2>2, <2>3, <2>4
  <1>2. ASSUME NEW o \in offers, Details(o) PROVE ItemsTyped'
    <2>1. PICK face \in {"expand", "collapse"}, posted \in BOOLEAN :
             /\ details' = [details EXCEPT ![o.key].posted = posted]
             /\ offers' \in {offers, (offers \ {o}) \cup {[o EXCEPT !.face = face]}}
      BY <1>2 DEF Details, Expand, Collapse, Remark
    <2>2. o \in Offer /\ [o EXCEPT !.face = face] \in Offer
      BY DEF ItemsTyped, Offer
    <2>3. offers' \subseteq Offer
      BY <2>1, <2>2 DEF ItemsTyped
    <2>4. /\ DOMAIN details' = DOMAIN details
          /\ \A k \in DOMAIN details :
               details'[k] = IF k = o.key THEN [details[k] EXCEPT !.posted = posted] ELSE details[k]
      BY <2>1
    <2>5. \A k \in DOMAIN details : details[k] = [f \in EntryFields |-> details[k][f]]
      BY DEF DetailsInv, DetailsShaped
    <2>6. \A k \in DOMAIN details' : details'[k].items \in Seq(Item) /\ details'[k].posted \in BOOLEAN
      BY <2>4, <2>5 DEF ItemsTyped, EntryFields
    <2> QED
      BY <2>3, <2>6 DEF ItemsTyped
  <1>3. CASE Crash
    <2>1. details' = <<>> /\ DOMAIN details' = {}
      BY <1>3 DEF Crash, DetailsRestart
    <2>2. offers' \subseteq Offer
      BY <1>3 DEF Crash, DetailsRestart, ItemsTyped, Offer
    <2> QED
      BY <2>1, <2>2 DEF ItemsTyped
  <1>4. ASSUME \/ \E u \in Users :
                    \/ ShowProjects(u) \/ OpenProject(u) \/ TurnPage(u) \/ ShowMenu(u) \/ Exit(u)
                    \/ \E b \in buttons[u] : Press(u, b)
               \/ \E b \in Blocks : Printing(b)
               \/ Terminal
               \/ UNCHANGED vars
        PROVE  ItemsTyped'
    <2>1. UNCHANGED storeVars
      BY <1>4 DEF ShowProjects, OpenProject, TurnPage, ShowMenu, Exit, Press, Printing, PrintBlock,
                  Terminal, vars, detailVars
    <2> QED
      BY <2>1 DEF storeVars, ItemsTyped
  <1> QED
    BY <1>1, <1>2, <1>3, <1>4 DEF Next

----------------------------------------------------------------------------
(* Types: the menus *)

MenuTypes ==
  /\ projects \in [Users -> Seq(Projects)]
  /\ convs \in [Users -> Seq(Sessions)]
  /\ buttons \in [Users -> SUBSET (Nat \X Nat)]
  /\ shown \in [Users -> {Nothing} \cup List]
  /\ count \in 0 .. MaxShown

LEMMA ListTypes ==
  ASSUME BridgeTypeOK
  PROVE  /\ ListProjects \in Seq(Projects)
         /\ \A p : \A cs \in ConversationLists(p) : cs \in Seq(Sessions)
  <1>1. files \in Seq(File)
    BY DEF BridgeTypeOK
  <1>2. ProjectsOnDisk \subseteq Projects
    <2>1. \A i \in DOMAIN files : files[i] \in File
      BY <1>1
    <2>2. \A f \in File : f.project \in Projects
      BY DEF File
    <2> QED
      BY <2>1, <2>2 DEF ProjectsOnDisk, Range
  <1>3. ListProjects \in Seq(Projects)
    BY <1>1, <1>2, ListsHold
  <1>4. ASSUME NEW p, NEW cs \in ConversationLists(p) PROVE cs \in Seq(Sessions)
    BY <1>1, ListsHold
  <1> QED
    BY <1>3, <1>4

LEMMA CountedTypes ==
  ASSUME MenuTypes, Counted
  PROVE  count' \in 0 .. MaxShown
  BY MenuAssumption DEF MenuTypes, Counted

\* No entry is a state.
LEMMA StateTypes ==
  /\ NewState \in UserSession
  /\ NoEntries \in [Users -> {Absent} \cup UserSession]
  <1>1. NewState \in UserSession
    BY DEF NewState, UserSession, Paths
  <1>2. NoEntries \in [Users -> {Absent} \cup UserSession]
    BY DEF NoEntries
  <1> QED
    BY <1>1, <1>2

SavedTypes ==
  /\ store \in [Users -> {Absent} \cup UserSession]
  /\ disk \in [Users -> {Absent} \cup UserSession]
  /\ unsaved \in BOOLEAN
  /\ failures \in 0 .. MaxFailures

LEMMA SavedParts ==
  BridgeTypeOK <=> /\ files \in Seq(File) /\ state \in [Users -> UserSession]
                   /\ SavedTypes
                   /\ flight \in [Users -> {Idle} \cup Flight] /\ strays \subseteq Process
  BY Zenon DEF BridgeTypeOK, SavedTypes

LEMMA SaveTypes ==
  ASSUME SavedTypes, NEW entries \in [Users -> {Absent} \cup UserSession], Save(entries)
  PROVE  SavedTypes'
  <1>1. store' = entries /\ disk' \in {entries, disk, NoEntries}
    BY DEF Save, SaveFails
  <1>2. unsaved' \in BOOLEAN
    BY DEF Save, SaveFails
  <1>3. failures' \in 0 .. MaxFailures
    <2>1. CASE UNCHANGED failures
      BY <2>1 DEF SavedTypes
    <2>2. CASE failures < MaxFailures /\ failures' = failures + 1
      BY <2>2, BridgeAssumption DEF SavedTypes
    <2> QED
      BY <2>1, <2>2 DEF Save, SaveFails
  <1>4. disk' \in [Users -> {Absent} \cup UserSession]
    BY <1>1, StateTypes DEF SavedTypes
  <1> QED
    BY <1>1, <1>2, <1>3, <1>4 DEF SavedTypes

LEMMA SameSaved ==
  ASSUME SavedTypes, UNCHANGED savedVars
  PROVE  SavedTypes'
  BY DEF SavedTypes, savedVars

LEMMA SetStateTypes ==
  ASSUME BridgeTypeOK, NEW u \in Users, NEW st \in UserSession, SetState(u, st),
         UNCHANGED <<files, flight, strays>>
  PROVE  BridgeTypeOK'
  <1>1. SavedTypes
    BY SavedParts
  <1>2. state' \in [Users -> UserSession]
    BY DEF BridgeTypeOK, SetState
  <1>3. SavedTypes'
    <2> DEFINE entries == [store EXCEPT ![u] = st]
    <2>1. entries \in [Users -> {Absent} \cup UserSession]
      BY <1>1 DEF SavedTypes
    <2>2. Save(entries) \/ UNCHANGED savedVars
      BY DEF SetState, PersistUser
    <2> HIDE DEF entries
    <2> QED
      BY <1>1, <2>1, <2>2, SaveTypes, SameSaved
  <1> QED
    BY <1>2, <1>3 DEF BridgeTypeOK, SavedTypes

LEMMA PressTypes ==
  ASSUME BridgeTypeOK, MenuTypes, NEW u \in Users, NEW b, Press(u, b)
  PROVE  BridgeTypeOK' /\ MenuTypes'
  <1> DEFINE p == projects[u][b[1]]
             n == IF b[2] = 0 THEN NoSession ELSE convs[u][b[2]]
             mixed == n # NoSession /\ n \notin SessionsOf(p)
  <1>1. p \in Projects
    BY DEF Press, MenuTypes
  <1>2. n \in Sessions \cup {NoSession}
    BY DEF Press, MenuTypes
  <1>3. mixed \in BOOLEAN
    OBVIOUS
  <1>4. Activate(u, p, n) /\ UNCHANGED <<files, flight, strays, menuVars>>
    BY DEF Press
  <1> HIDE DEF p, n
  <1>5. PICK path \in Peeked(p) : ActivateSession(u, p, path, n, mixed)
    BY <1>4 DEF Activate
  <1> HIDE DEF mixed
  <1> DEFINE st == [state[u] EXCEPT !.mode = "claude_code", !.project = p, !.path = path,
                                    !.session = n, !.mixed = mixed]
  <1>6. SetState(u, st)
    BY <1>5 DEF ActivateSession
  <1>7. path \in Paths
    BY <1>1 DEF Peeked, Paths
  <1>8. st \in UserSession
    <2>1. state[u] \in UserSession
      BY DEF BridgeTypeOK
    <2> QED
      BY <1>1, <1>2, <1>3, <1>7, <2>1 DEF UserSession
  <1> HIDE DEF st
  <1>9. BridgeTypeOK'
    BY <1>4, <1>6, <1>8, SetStateTypes
  <1>10. MenuTypes'
    BY <1>4 DEF MenuTypes, menuVars
  <1> QED
    BY <1>9, <1>10

LEMMA ExitTypes ==
  ASSUME BridgeTypeOK, NEW u \in Users, ExitMode(u), UNCHANGED <<files, strays>>
  PROVE  BridgeTypeOK'
  <1>1. SavedTypes
    BY SavedParts
  <1>2. state' \in [Users -> UserSession]
    BY StateTypes DEF ExitMode, BridgeTypeOK
  <1>3. flight' \in [Users -> {Idle} \cup Flight]
    <2>1. CASE flight[u] = Idle
      BY <2>1 DEF ExitMode, BridgeTypeOK
    <2>2. CASE flight[u] # Idle
      <3>1. flight[u] \in Flight
        BY <2>2 DEF BridgeTypeOK
      <3>2. [flight[u] EXCEPT !.own = FALSE] \in Flight
        BY <3>1 DEF Flight
      <3>3. flight' = [flight EXCEPT ![u] = [flight[u] EXCEPT !.own = FALSE]]
        BY <2>2 DEF ExitMode
      <3> QED
        BY <3>2, <3>3 DEF BridgeTypeOK
    <2> QED
      BY <2>1, <2>2
  <1>4. SavedTypes'
    <2> DEFINE entries == [store EXCEPT ![u] = Absent]
    <2>1. entries \in [Users -> {Absent} \cup UserSession]
      BY <1>1 DEF SavedTypes
    <2>2. Save(entries) \/ UNCHANGED savedVars
      BY DEF ExitMode
    <2> HIDE DEF entries
    <2> QED
      BY <1>1, <2>1, <2>2, SaveTypes, SameSaved
  <1> QED
    BY <1>2, <1>3, <1>4 DEF BridgeTypeOK, SavedTypes

LEMMA RestartTypes ==
  ASSUME BridgeTypeOK, NEW torn \in BOOLEAN, Restart(torn)
  PROVE  BridgeTypeOK'
  <1>1. SavedTypes
    BY SavedParts
  <1>2. disk' \in {disk, NoEntries} /\ store' = disk' /\ unsaved' = FALSE /\ UNCHANGED <<files, failures>>
    BY DEF Restart
  <1>3. SavedTypes'
    <2>1. disk' \in [Users -> {Absent} \cup UserSession]
      BY <1>1, <1>2, StateTypes DEF SavedTypes
    <2> QED
      BY <1>1, <1>2, <2>1 DEF SavedTypes
  <1>4. state' \in [Users -> UserSession]
    BY <1>3, StateTypes DEF Restart, SavedTypes
  <1>5. \A u \in Users : Left(u) \subseteq Process
    <2> SUFFICES ASSUME NEW u \in Users, flight[u] # Idle PROVE flight[u].proc \in Process
      BY DEF Left, At
    <2>1. flight[u] \in Flight
      BY DEF BridgeTypeOK
    <2> QED
      BY <2>1 DEF Flight
  <1>6. strays' \subseteq Process
    BY <1>5 DEF Restart, BridgeTypeOK
  <1>7. flight' \in [Users -> {Idle} \cup Flight]
    BY DEF Restart
  <1> QED
    BY <1>2, <1>3, <1>4, <1>6, <1>7 DEF BridgeTypeOK, SavedTypes

\* A session is written, or an old one moves to the front.
LEMMA TerminalTypes ==
  ASSUME BridgeTypeOK, Terminal
  PROVE  BridgeTypeOK'
  <1>1. PICK p \in Projects : \E s \in SessionsOf(p) \cup {NoSession} : TerminalSession(p, s)
    BY DEF Terminal
  <1>2. PICK s : TerminalSession(p, s)
    BY <1>1
  <1> DEFINE proc == [path |-> p, resume |-> s, fork |-> FALSE]
             f == [id |-> Writes(proc), project |-> Cwd(proc)]
             i == CHOOSE i \in DOMAIN files : files[i] = f
             others == IF f \in Range(files) THEN RemoveAt(files, i) ELSE files
  <1>3. f.id \in Sessions /\ files' = <<f>> \o others /\ UNCHANGED <<state, savedVars, flight, strays>>
    BY <1>2 DEF TerminalSession, Write
  <1>4. f \in File
    <2>1. Cwd(proc) \in Projects
      BY BridgeAssumption DEF Cwd
    <2> QED
      BY <1>3, <2>1 DEF File
  <1>5. files \in Seq(File)
    BY DEF BridgeTypeOK
  <1> HIDE DEF f
  <1>6. CASE f \in Range(files)
    <2>1. i \in DOMAIN files
      BY <1>6 DEF Range
    <2> HIDE DEF i
    <2>2. i \in 1 .. Len(files) /\ Len(files) \in Nat /\ \A j \in 1 .. Len(files) : files[j] \in File
      BY <1>5, <2>1
    <2>3. SubSeq(files, 1, i - 1) \in Seq(File)
      <3>1. 1 \in Int /\ i - 1 \in Int /\ \A j \in 1 .. i - 1 : files[j] \in File
        BY <2>2
      <3> QED
        BY <3>1, SubSeqProperties
    <2>4. SubSeq(files, i + 1, Len(files)) \in Seq(File)
      <3>1. i + 1 \in Int /\ Len(files) \in Int /\ \A j \in i + 1 .. Len(files) : files[j] \in File
        BY <2>2
      <3> QED
        BY <3>1, SubSeqProperties
    <2>5. RemoveAt(files, i) \in Seq(File)
      BY <2>3, <2>4 DEF RemoveAt
    <2> HIDE DEF others
    <2>6. others \in Seq(File)
      BY <1>6, <2>5 DEF others
    <2>7. files' \in Seq(File)
      BY <1>3, <1>4, <2>6
    <2> QED
      BY <1>3, <2>7 DEF BridgeTypeOK, savedVars
  <1>7. CASE f \notin Range(files)
    <2>1. files' = <<f>> \o files
      BY <1>3, <1>7
    <2>2. files' \in Seq(File)
      BY <1>4, <1>5, <2>1
    <2> QED
      BY <1>3, <2>2 DEF BridgeTypeOK, savedVars
  <1> QED
    BY <1>6, <1>7

\* A list shown, of a project that the lists have.
LEMMA ShowTypes ==
  ASSUME BridgeTypeOK, MenuTypes, NEW u \in Users, NEW list \in Seq(Projects), NEW i \in DOMAIN list,
         NEW page \in Nat, ShowConversations(u, list, i, page)
  PROVE  /\ convs' \in [Users -> Seq(Sessions)]
         /\ buttons' \in [Users -> SUBSET (Nat \X Nat)]
         /\ shown' \in [Users -> {Nothing} \cup List]
         /\ count' \in 0 .. MaxShown
  <1>a. PICK cs \in ConversationLists(list[i]) :
          /\ convs' = [convs EXCEPT ![u] = cs]
          /\ \/ /\ buttons' = [buttons EXCEPT ![u] = @ \cup ({i} \X ({0} \cup OnPage(cs, page)))]
                /\ shown' = [shown EXCEPT ![u] =
                               [at |-> i, project |-> list[i], sessions |-> cs, page |-> page]]
             \/ shown' = [shown EXCEPT ![u] = Nothing] /\ UNCHANGED buttons
    BY DEF ShowConversations
  <1> DEFINE l == [at |-> i, project |-> list[i], sessions |-> cs, page |-> page]
             new == {i} \X ({0} \cup OnPage(cs, page))
  <1>1. cs \in Seq(Sessions) /\ list[i] \in Projects /\ i \in Nat \ {0}
    BY ListTypes
  <1>2. /\ count' \in 0 .. MaxShown /\ convs' = [convs EXCEPT ![u] = cs]
        /\ \/ buttons' = [buttons EXCEPT ![u] = @ \cup new] /\ shown' = [shown EXCEPT ![u] = l]
           \/ shown' = [shown EXCEPT ![u] = Nothing] /\ UNCHANGED buttons
    BY <1>a, CountedTypes DEF ShowConversations
  <1>3. new \subseteq Nat \X Nat
    <2>1. OnPage(cs, page) \subseteq Nat
      BY <1>1 DEF OnPage
    <2> QED
      BY <1>1, <2>1
  <1>4. l \in List
    BY <1>1 DEF List
  <1> HIDE DEF l, new
  <1> QED
    BY <1>1, <1>2, <1>3, <1>4 DEF MenuTypes

LEMMA MenuTypesStep ==
  ASSUME BridgeTypeOK, MenuTypes, [Next]_vars
  PROVE  BridgeTypeOK' /\ MenuTypes'
  <1>1. ASSUME UNCHANGED bridgeVars PROVE BridgeTypeOK'
    BY <1>1 DEF bridgeVars, savedVars, BridgeTypeOK
  <1>2. ASSUME NEW u \in Users, ShowProjects(u) PROVE BridgeTypeOK' /\ MenuTypes'
    <2>1. /\ UNCHANGED <<bridgeVars, convs, buttons>> /\ count' \in 0 .. MaxShown
          /\ projects' = [projects EXCEPT ![u] = ListProjects]
          /\ shown' = [shown EXCEPT ![u] = Nothing]
      BY <1>2, CountedTypes DEF ShowProjects
    <2>2. projects' \in [Users -> Seq(Projects)] /\ shown' \in [Users -> {Nothing} \cup List]
      BY <2>1, ListTypes DEF MenuTypes
    <2> QED
      BY <1>1, <2>1, <2>2 DEF MenuTypes
  <1>3. ASSUME NEW u \in Users, OpenProject(u) PROVE BridgeTypeOK' /\ MenuTypes'
    <2>1. PICK i \in DOMAIN projects[u] : ShowConversations(u, projects[u], i, 0)
      BY <1>3 DEF OpenProject
    <2>2. projects[u] \in Seq(Projects) /\ 0 \in Nat /\ UNCHANGED <<bridgeVars, projects>>
      BY <1>3 DEF OpenProject, MenuTypes
    <2> QED
      BY <1>1, <2>1, <2>2, ShowTypes DEF MenuTypes
  <1>4. ASSUME NEW u \in Users, TurnPage(u) PROVE BridgeTypeOK' /\ MenuTypes'
    <2>1. PICK page \in Turns(shown[u].sessions, shown[u].page) :
             /\ shown[u].at \in DOMAIN projects[u]
             /\ ShowConversations(u, projects[u], shown[u].at, page)
      BY <1>4 DEF TurnPage
    <2>2. page \in Nat
      BY DEF Turns, Pages
    <2>3. projects[u] \in Seq(Projects) /\ UNCHANGED <<bridgeVars, projects>>
      BY <1>4 DEF TurnPage, MenuTypes
    <2> QED
      BY <1>1, <2>1, <2>2, <2>3, ShowTypes DEF MenuTypes
  <1>5. ASSUME NEW u \in Users, ShowMenu(u) PROVE BridgeTypeOK' /\ MenuTypes'
    <2>1. projects' = [projects EXCEPT ![u] = ListProjects] /\ UNCHANGED bridgeVars
      BY <1>5 DEF ShowMenu
    <2>2. projects' \in [Users -> Seq(Projects)] /\ projects'[u] \in Seq(Projects)
      BY <2>1, ListTypes DEF MenuTypes
    <2>3. PICK i \in DOMAIN projects'[u] : ShowConversations(u, projects'[u], i, 0)
      BY <1>5 DEF ShowMenu
    <2>4. 0 \in Nat
      OBVIOUS
    <2> QED
      BY <1>1, <2>1, <2>2, <2>3, <2>4, ShowTypes DEF MenuTypes
  <1>6. ASSUME NEW u \in Users, Exit(u) PROVE BridgeTypeOK' /\ MenuTypes'
    <2>1. BridgeTypeOK'
      BY <1>6, ExitTypes DEF Exit
    <2> QED
      BY <1>6, <2>1 DEF Exit, menuVars, MenuTypes
  <1>7. ASSUME NEW b \in Blocks, Printing(b) PROVE BridgeTypeOK' /\ MenuTypes'
    BY <1>1, <1>7, CountedTypes DEF Printing, MenuTypes
  <1>8. ASSUME NEW output \in Outputs, Answer(output) PROVE BridgeTypeOK' /\ MenuTypes'
    BY <1>1, <1>8, CountedTypes DEF Answer, MenuTypes
  <1>9. ASSUME NEW o \in offers, Details(o) PROVE BridgeTypeOK' /\ MenuTypes'
    BY <1>1, <1>9 DEF Details, MenuTypes, menuVars
  <1>10. CASE Terminal
    BY <1>10, TerminalTypes DEF Terminal, menuVars, MenuTypes
  <1>11. CASE Crash
    <2>1. /\ (\E torn \in BOOLEAN : Restart(torn)) /\ UNCHANGED <<buttons, shown, count>>
          /\ projects' = [u \in Users |-> <<>>] /\ convs' = [u \in Users |-> <<>>]
      BY <1>11 DEF Crash
    <2>2. projects' \in [Users -> Seq(Projects)] /\ convs' \in [Users -> Seq(Sessions)]
      BY <2>1
    <2> QED
      BY <2>1, <2>2, RestartTypes DEF MenuTypes
  <1>12. CASE UNCHANGED vars
    BY <1>1, <1>12 DEF vars, menuVars, MenuTypes
  <1> QED
    BY <1>2, <1>3, <1>4, <1>5, <1>6, <1>7, <1>8, <1>9, <1>10, <1>11, <1>12, PressTypes DEF Next

LEMMA InitTypes ==
  ASSUME Init
  PROVE  BridgeTypeOK /\ MenuTypes /\ ItemsTyped
  <1> DEFINE n == OldSessions
  <1>1. PICK home \in [1 .. n -> Projects] :
          files = [i \in 1 .. n |-> [id |-> n + 1 - i, project |-> home[n + 1 - i]]]
    BY DEF Init, BridgeInit
  <1>2. n \in Nat /\ MaxSessions \in Nat /\ n <= MaxSessions
    BY BridgeAssumption
  <1>3. \A i \in 1 .. n : n + 1 - i \in 1 .. n /\ n + 1 - i \in Sessions
    BY <1>2 DEF Sessions
  <1>4. \A i \in 1 .. n : [id |-> n + 1 - i, project |-> home[n + 1 - i]] \in File
    BY <1>1, <1>3 DEF File
  <1>5. files \in [1 .. n -> File]
    BY <1>1, <1>4
  <1>6. files \in Seq(File)
    BY <1>2, <1>5, FunctionIsSeq
  <1>7. SavedTypes
    <2>1. store = NoEntries /\ disk = NoEntries /\ unsaved = FALSE
      BY DEF Init, BridgeInit
    <2>2. failures = 0 /\ MaxFailures \in Nat
      BY BridgeAssumption DEF Init, BridgeInit
    <2>3. failures \in 0 .. MaxFailures
      BY <2>2
    <2>4. unsaved \in BOOLEAN
      BY <2>1
    <2> QED
      BY <2>1, <2>3, <2>4, StateTypes, Zenon DEF SavedTypes
  <1>8. BridgeTypeOK
    <2>1. state \in [Users -> UserSession] /\ flight \in [Users -> {Idle} \cup Flight] /\ strays \subseteq Process
      BY StateTypes DEF Init, BridgeInit
    <2> QED
      BY <1>6, <1>7, <2>1, SavedParts
  <1>9. MenuTypes
    BY MenuAssumption DEF Init, MenuTypes
  <1>10. ItemsTyped
    BY DEF Init, DetailsInit, ItemsTyped
  <1> QED
    BY <1>8, <1>9, <1>10

\* Every reachable state is well typed: whatever is on the disk and whatever is
\* printed, lists have projects and sessions, buttons positions, and the details
\* only what they can show.
THEOREM MenusTypeCorrect == Spec => []TypeOK
  <1>1. Init => BridgeTypeOK /\ MenuTypes /\ ItemsTyped
    BY InitTypes
  <1>2. BridgeTypeOK /\ MenuTypes /\ [Next]_vars => BridgeTypeOK' /\ MenuTypes'
    BY MenuTypesStep
  <1>3. ItemsTyped /\ DetailsInv /\ PrintedInv /\ [Next]_vars => ItemsTyped'
    BY ItemsStep
  <1>4. BridgeTypeOK /\ MenuTypes /\ ItemsTyped /\ DetailsInv /\ PrintedInv => TypeOK
    BY DEF TypeOK, MenuTypes, ItemsTyped, DetailsTypeOK, DetailsInv, KeysKept, PrintedInv
  <1> QED
    BY <1>1, <1>2, <1>3, <1>4, DetailsInvariant, PrintedInvariant, PTL DEF Spec

----------------------------------------------------------------------------
(* What an output is read as *)

\* The positions of a sequence are a list of themselves.
LEMMA PositionsListed ==
  ASSUME NEW n \in Nat
  PROVE  /\ Cardinality(1 .. n) = n
         /\ \A k \in 1 .. n : Listed(1 .. n, UpTo(1 .. n))[k] = k
  <1> DEFINE I == 1 .. n
             l == Listed(I, UpTo(I))
  <1>1. \A k \in Nat : Cardinality(1 .. k) = k
    <2> SUFFICES ASSUME NEW k \in Nat PROVE Cardinality(1 .. k) = k
      OBVIOUS
    <2>1. 1 \in Int /\ k \in Int
      OBVIOUS
    <2>2. Cardinality(1 .. k) = IF 1 > k THEN 0 ELSE k - 1 + 1
      BY <2>1, FS_Interval
    <2> QED
      BY <2>2
  <1>2. I \in SUBSET (1 .. n)
    OBVIOUS
  <1>3. IsFiniteSet(I) /\ Chain(I, UpTo(I))
    BY <1>2, PositionsAreAChain
  <1>4. Cardinality(I) = n
    BY <1>1
  <1>5. \A j \in I : UpTo(I)[j] = 1 .. j
    BY DEF UpTo
  <1> HIDE DEF I
  <1>6. l \in [1 .. n -> I] /\ \A k \in 1 .. n : Cardinality(UpTo(I)[l[k]]) = k
    BY <1>3, <1>4, ListedFacts
  <1> HIDE DEF l
  <1>7. ASSUME NEW k \in 1 .. n PROVE l[k] = k
    <2>1. l[k] \in I /\ l[k] \in Nat
      BY <1>6 DEF I
    <2>2. Cardinality(1 .. l[k]) = k
      BY <1>5, <1>6, <2>1
    <2> QED
      BY <1>1, <2>1, <2>2
  <1> QED
    BY <1>4, <1>7 DEF I, l

\* One element each, and then nothing more: the sequence of these elements.
LEMMA OnesFlattened ==
  ASSUME NEW S, NEW raw \in Seq(S), NEW ss \in Seq(Seq(S)), Len(raw) <= Len(ss),
         \A i \in 1 .. Len(raw) : ss[i] = <<raw[i]>>,
         \A i \in Len(raw) + 1 .. Len(ss) : ss[i] = <<>>
  PROVE  Flattened(ss) = raw
  <1> DEFINE I == {i \in DOMAIN ss : DOMAIN ss[i] = {1}}
             n == Len(raw)
  <1>1. n \in Nat /\ Len(ss) \in Nat /\ n <= Len(ss) /\ DOMAIN ss = 1 .. Len(ss)
    OBVIOUS
  <1>2. \A i \in DOMAIN ss : DOMAIN ss[i] = IF i <= n THEN {1} ELSE {}
    <2> SUFFICES ASSUME NEW i \in DOMAIN ss PROVE DOMAIN ss[i] = IF i <= n THEN {1} ELSE {}
      OBVIOUS
    <2>1. CASE i <= n
      <3>1. ss[i] = <<raw[i]>>
        BY <1>1, <2>1
      <3> QED
        BY <2>1, <3>1
    <2>2. CASE ~ i <= n
      <3>1. ss[i] = <<>>
        BY <1>1, <2>2
      <3> QED
        BY <2>2, <3>1
    <2> QED
      BY <2>1, <2>2
  <1>3. I = 1 .. n
    <2>1. \A i \in DOMAIN ss : DOMAIN ss[i] = {1} <=> i <= n
      <3>1. {1} # {}
        OBVIOUS
      <3> HIDE DEF n
      <3> QED
        BY <1>2, <3>1
    <2>2. I = {i \in 1 .. Len(ss) : i <= n}
      BY <1>1, <2>1
    <2>3. \A m, k \in Nat : k <= m => {i \in 1 .. m : i <= k} = 1 .. k
      OBVIOUS
    <2> HIDE DEF I, n
    <2> QED
      BY <1>1, <2>2, <2>3
  <1>4. \A i \in DOMAIN ss : DOMAIN ss[i] \in {{}, {1}}
    BY <1>2
  <1>5. /\ DOMAIN Flattened(ss) = 1 .. Cardinality(I)
        /\ \A k \in 1 .. Cardinality(I) : Flattened(ss)[k] = ss[Listed(I, UpTo(I))[k]][1]
    BY <1>4, SinglesFlattened
  <1> HIDE DEF I, n
  <1>6. DOMAIN Flattened(ss) = 1 .. n /\ \A k \in 1 .. n : Flattened(ss)[k] = ss[k][1]
    BY <1>1, <1>3, <1>5, PositionsListed
  <1>7. \A k \in 1 .. n : Flattened(ss)[k] = raw[k]
    BY <1>6 DEF n
  <1>8. Flattened(ss) \in Seq(S)
    BY FlattenedFacts
  <1>9. Flattened(ss) = [k \in 1 .. n |-> Flattened(ss)[k]]
    <2>1. \A t \in Seq(S) : t = [k \in DOMAIN t |-> t[k]]
      OBVIOUS
    <2> QED
      BY <1>6, <1>8, <2>1
  <1>10. raw = [k \in 1 .. n |-> raw[k]]
    BY DEF n
  <1>11. [k \in 1 .. n |-> Flattened(ss)[k]] = [k \in 1 .. n |-> raw[k]]
    BY <1>7
  <1> QED
    BY <1>9, <1>10, <1>11

LEMMA AllPicked ==
  ASSUME NEW S, NEW s \in Seq(S)
  PROVE  Picked(s, DOMAIN s) = s
  <1>1. DOMAIN s = 1 .. Len(s) /\ Len(s) \in Nat
    OBVIOUS
  <1> DEFINE n == Len(s)
  <1>2. Picked(s, 1 .. n) = [k \in 1 .. n |-> s[k]]
    BY <1>1, PositionsListed DEF Picked
  <1> QED
    BY <1>1, <1>2

\* All but the first.
LEMMA RestPicked ==
  ASSUME NEW S, NEW s \in Seq(S), NEW x \in S
  PROVE  Picked(<<x>> \o s, 2 .. Len(s) + 1) = s
  <1> DEFINE n == Len(s)
             t == <<x>> \o s
             I == 1 .. n
             J == 2 .. n + 1
             h == [i \in I |-> i + 1]
             l == Listed(J, UpTo(J))
  <1>1. n \in Nat /\ \A k \in I : t[k + 1] = s[k]
    OBVIOUS
  <1>2. I \in SUBSET (1 .. n) /\ J \in SUBSET (1 .. n + 1) /\ n + 1 \in Nat
    BY <1>1
  <1>3. IsFiniteSet(I) /\ Chain(I, UpTo(I)) /\ IsFiniteSet(J) /\ Chain(J, UpTo(J))
    BY <1>1, <1>2, PositionsAreAChain
  <1>4. h \in [I -> J] /\ \A j \in J : \E i \in I : h[i] = j
    <2>1. h \in [I -> J]
      BY <1>1
    <2>2. ASSUME NEW j \in J PROVE \E i \in I : h[i] = j
      <3>1. j - 1 \in I /\ (j - 1) + 1 = j
        BY <1>1
      <3> QED
        BY <3>1
    <2> QED
      BY <2>1, <2>2
  <1>5. \A i, j \in I : i \in UpTo(I)[j] <=> h[i] \in UpTo(J)[h[j]]
    <2> SUFFICES ASSUME NEW i \in I, NEW j \in I PROVE i \in UpTo(I)[j] <=> h[i] \in UpTo(J)[h[j]]
      OBVIOUS
    <2>1. h[i] = i + 1 /\ h[j] = j + 1 /\ h[i] \in J /\ h[j] \in J
      BY <1>4
    <2>2. i \in UpTo(I)[j] <=> i <= j
      BY DEF UpTo
    <2>3. h[i] \in UpTo(J)[h[j]] <=> h[i] <= h[j]
      BY <2>1 DEF UpTo
    <2>4. h[i] <= h[j] <=> i <= j
      BY <1>1, <2>1
    <2> QED
      BY <2>2, <2>3, <2>4
  <1>6. \A i \in I : h[i] = i + 1
    OBVIOUS
  <1>7. Cardinality(I) = n /\ \A k \in I : Listed(I, UpTo(I))[k] = k
    BY <1>1, PositionsListed
  <1>8. I = 1 .. n
    OBVIOUS
  <1> HIDE DEF I, J, h, t
  <1>9. ListsMatch(I, UpTo(I), J, UpTo(J), h)
    BY <1>3, <1>4, <1>5, ListsCorrespond
  <1>10. Cardinality(J) = n /\ \A k \in I : l[k] = k + 1
    BY <1>6, <1>7, <1>8, <1>9 DEF ListsMatch
  <1>11. Picked(t, J) = [k \in 1 .. Cardinality(J) |-> t[l[k]]]
    BY DEF Picked
  <1> HIDE DEF l
  <1>12. Picked(t, J) = [k \in I |-> s[k]]
    BY <1>1, <1>8, <1>10, <1>11
  <1>13. s = [k \in 1 .. n |-> s[k]]
    OBVIOUS
  <1> QED
    BY <1>8, <1>12, <1>13 DEF t, J

\* The answer is read off the lines as it was printed, whether the process was
\* cut off before its last line or another line got in (bridge.py:
\* _parse_cc_json_response), unless there is one line only, which is taken for
\* the single object of an old claude.
THEOREM OutputsAreRead ==
  ASSUME NEW raw \in Seq(Blocks), raw # <<>>
  PROVE  /\ ParseResponse(Lines(raw) \o <<Final>>) = BuildResponse(raw)
         /\ Len(raw) # 1 => /\ ParseResponse(Lines(raw)) = BuildResponse(raw)
                            /\ ParseResponse(<<Junk>> \o Lines(raw)) = BuildResponse(raw)
  <1> DEFINE lines == Lines(raw)
             n == Len(raw)
             Told(ls) == Picked(ls, {i \in DOMAIN ls : ls[i].type # "junk"})
             Contents(ls) == [i \in DOMAIN ls |-> ls[i].content]
  <1>1. n \in Nat /\ n # 0 /\ DOMAIN raw = 1 .. n
    OBVIOUS
  <1>2. lines = [i \in 1 .. n |-> Message(<<raw[i]>>)]
    BY <1>1 DEF Lines
  <1>3. \A b \in Blocks : Message(<<b>>) \in Printable
    <2>1. \A b \in Blocks : <<b>> \in Seq(Blocks)
      OBVIOUS
    <2> QED
      BY <2>1 DEF Printable
  <1>4. /\ lines \in Seq(Printable) /\ Len(lines) = n
        /\ \A i \in 1 .. n : lines[i].type = "message" /\ lines[i].content = <<raw[i]>>
    <2>1. lines \in [1 .. n -> Printable]
      BY <1>2, <1>3
    <2>2. \A i \in 1 .. n : lines[i].type = "message" /\ lines[i].content = <<raw[i]>>
      BY <1>2 DEF Message
    <2> HIDE DEF lines
    <2> QED
      BY <1>1, <2>1, <2>2, FunctionIsSeq
  <1>5. Junk \in Printable /\ Final \in Printable
    BY DEF Printable
  <1>6. Junk.type = "junk" /\ Final.type = "result" /\ Final.content = <<>>
    BY DEF Junk, Final
  <1> HIDE DEF lines, n
  \* What is read, once the lines that say something are known.
  <1>7. ASSUME NEW ls, ls # <<>>, NEW ps \in Seq(Printable), Told(ls) = ps, Len(ps) # 1, n <= Len(ps),
               \A i \in 1 .. n : ps[i].content = <<raw[i]>>,
               \A i \in n + 1 .. Len(ps) : ps[i].content = <<>>
        PROVE  ParseResponse(ls) = BuildResponse(raw)
    <2>1. Len(ps) \in Nat /\ DOMAIN ps = 1 .. Len(ps) /\ \A i \in DOMAIN ps : ps[i] \in Printable
      OBVIOUS
    <2> DEFINE cs == Contents(ps)
    <2>2. cs \in [1 .. Len(ps) -> Seq(Blocks)]
      BY <2>1, LineFacts
    <2>3. \A i \in 1 .. Len(ps) : cs[i] = ps[i].content
      BY <2>1
    <2> HIDE DEF cs
    <2>4. cs \in Seq(Seq(Blocks)) /\ Len(cs) = Len(ps)
      BY <2>1, <2>2, FunctionIsSeq
    <2>5. Flattened(cs) = raw
      <3>1. \A i \in 1 .. n : cs[i] = <<raw[i]>>
        BY <1>1, <1>7, <2>1, <2>3
      <3>2. ASSUME NEW i \in n + 1 .. Len(cs) PROVE cs[i] = <<>>
        <4>1. i \in n + 1 .. Len(ps)
          BY <2>4
        <4>2. i \in 1 .. Len(ps)
          BY <1>1, <2>1, <4>1
        <4>3. ps[i].content = <<>>
          BY <1>7, <4>1
        <4> QED
          BY <2>3, <4>2, <4>3
      <3> QED
        BY <1>7, <2>4, <3>1, <3>2, OnesFlattened DEF n
    <2>6. ps # <<>>
      BY <1>1, <1>7, <2>1
    <2>7. ParseResponse(ls) =
            CASE ls = <<>> -> Empty
              [] ls # <<>> /\ ps = <<>> -> Failure
              [] Len(ps) = 1 -> ParseSingle(ps[1])
              [] OTHER -> BuildResponse(Flattened(cs))
      BY <1>7 DEF ParseResponse, cs
    <2> QED
      BY <1>7, <2>5, <2>6, <2>7
  <1>8. ASSUME NEW ls \in Seq(Printable), \A i \in DOMAIN ls : ls[i].type # "junk"
        PROVE  Told(ls) = ls
    <2>1. {i \in DOMAIN ls : ls[i].type # "junk"} = DOMAIN ls
      BY <1>8
    <2> QED
      BY <2>1, AllPicked
  <1>9. ASSUME n # 1 PROVE ParseResponse(lines) = BuildResponse(raw)
    <2>1. Told(lines) = lines
      BY <1>1, <1>4, <1>8
    <2>2. lines # <<>> /\ n <= Len(lines) /\ Len(lines) # 1 /\ \A i \in n + 1 .. Len(lines) : FALSE
      BY <1>1, <1>4, <1>9
    <2> HIDE DEF Told
    <2> QED
      BY <1>4, <1>7, <2>1, <2>2
  <1>10. ASSUME n # 1 PROVE ParseResponse(<<Junk>> \o lines) = BuildResponse(raw)
    <2> DEFINE ls == <<Junk>> \o lines
    <2>1. /\ ls \in Seq(Printable) /\ Len(ls) = n + 1 /\ DOMAIN ls = 1 .. n + 1 /\ ls[1] = Junk
          /\ \A i \in 2 .. n + 1 : ls[i] = lines[i - 1] /\ i - 1 \in 1 .. n
      BY <1>1, <1>4, <1>5
    <2>2. {i \in DOMAIN ls : ls[i].type # "junk"} = 2 .. Len(lines) + 1
      <3> HIDE DEF ls
      <3>1. ASSUME NEW i \in 1 .. n + 1 PROVE ls[i].type # "junk" <=> i # 1
        <4>1. CASE i = 1
          BY <1>6, <2>1, <4>1
        <4>2. CASE i # 1
          <5>1. i \in 2 .. n + 1
            BY <1>1, <4>2
          <5> QED
            BY <1>4, <2>1, <4>2, <5>1
        <4> QED
          BY <4>1, <4>2
      <3> QED
        BY <1>1, <1>4, <2>1, <3>1
    <2>3. Told(ls) = lines
      BY <1>4, <1>5, <2>2, RestPicked
    <2>4. ls # <<>>
      BY <1>1, <2>1
    <2>5. n <= Len(lines) /\ Len(lines) # 1 /\ \A i \in n + 1 .. Len(lines) : FALSE
      BY <1>1, <1>4, <1>10
    <2> HIDE DEF Told, ls
    <2>6. ParseResponse(ls) = BuildResponse(raw)
      BY <1>4, <1>7, <2>3, <2>4, <2>5
    <2> QED
      BY <2>6 DEF ls
  <1>11. ParseResponse(lines \o <<Final>>) = BuildResponse(raw)
    <2> DEFINE ls == lines \o <<Final>>
    <2>1. /\ ls \in Seq(Printable) /\ Len(ls) = n + 1 /\ ls[n + 1] = Final
          /\ \A i \in 1 .. n : ls[i] = lines[i]
      BY <1>1, <1>4, <1>5
    <2> HIDE DEF ls
    <2>2. \A i \in DOMAIN ls : ls[i].type # "junk"
      <3> SUFFICES ASSUME NEW i \in 1 .. n + 1 PROVE ls[i].type # "junk"
        BY <2>1
      <3>1. CASE i = n + 1
        BY <1>6, <2>1, <3>1
      <3>2. CASE i # n + 1
        <4>1. i \in 1 .. n
          BY <1>1, <3>2
        <4> QED
          BY <1>4, <2>1, <4>1
      <3> QED
        BY <3>1, <3>2
    <2>3. Told(ls) = ls
      BY <1>8, <2>1, <2>2
    <2>4. ls # <<>> /\ n <= Len(ls) /\ Len(ls) # 1
      BY <1>1, <2>1
    <2>5. \A i \in 1 .. n : ls[i].content = <<raw[i]>>
      BY <1>4, <2>1
    <2>6. \A i \in n + 1 .. Len(ls) : ls[i].content = <<>>
      BY <1>1, <1>6, <2>1
    <2> HIDE DEF Told
    <2>7. ParseResponse(ls) = BuildResponse(raw)
      BY <1>7, <2>1, <2>3, <2>4, <2>5, <2>6
    <2> QED
      BY <2>7 DEF ls
  <1> QED
    BY <1>9, <1>10, <1>11 DEF lines, n
=============================================================================
