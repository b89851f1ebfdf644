--------------------------- MODULE FreeListProofs ---------------------------
(***************************************************************************)
(* blk_alloc and blk_free implement Allocator, and never find the          *)
(* superblock corrupt, for any number of blocks and any size of s_free.    *)
(*                                                                         *)
(* The lists form a stack T[1], ..., T[n]: the last is the one in the      *)
(* superblock, each other one is full and is kept in the first block of    *)
(* the list above it, and the 0 at the bottom is the first of T[1].  What  *)
(* Below reads from the superblock down is W[n], where W[k] joins T[1] to  *)
(* T[k].                                                                   *)
(***************************************************************************)
EXTENDS FreeList, FiniteSetTheorems, SequenceTheorems, TLAPS

-----------------------------------------------------------------------------
(* Intervals, recursions and sizes *)

(* A set with 0 that is closed under n + 1 below N has all of 0 .. N: of  *)
(* the numbers it misses there would be a least one.                      *)
LEMMA IntervalInduction ==
  ASSUME NEW N \in Nat, NEW S, 0 \in S, \A n \in 0 .. N - 1 : n \in S => n + 1 \in S
  PROVE  0 .. N \subseteq S
<1> DEFINE T == {n \in 0 .. N : n \notin S}
           Less == {ss \in Nat \X Nat : ss[1] < ss[2]}
<1> SUFFICES ASSUME T # {} PROVE FALSE
  OBVIOUS
<1>1. IsWellFoundedOn(Less, Nat) /\ T \subseteq Nat
  BY NatLessThanWellFounded DEF OpToRel
<1>2. PICK n \in T : \A m \in T : <<m, n>> \notin Less
  <2> HIDE DEF T, Less
  <2> QED
    BY <1>1, WFMin
<1>3. n - 1 \in T /\ <<n - 1, n>> \in Less
  OBVIOUS
<1> QED
  BY <1>2, <1>3

\* g is the sequence of states from s0, by the steps F.
Solves(g, N, St, s0, F) ==
  /\ g \in [0 .. N -> St]
  /\ g[0] = s0
  /\ \A k \in 1 .. N : g[k] = F[k][g[k - 1]]

(* A recursion whose steps stay in St has a solution in St: a recursive    *)
(* function that is one is what its equation says.                         *)
LEMMA RecursionSolved ==
  ASSUME NEW N \in Nat, NEW St, NEW s0 \in St, NEW F \in [1 .. N -> [St -> St]]
  PROVE  \E g : Solves(g, N, St, s0, F)
<1> DEFINE S == {n \in 0 .. N : \E g : Solves(g, n, St, s0, F)}
<1>1. 0 \in S
  <2>1. Solves([k \in 0 .. 0 |-> s0], 0, St, s0, F)
    BY DEF Solves
  <2> QED
    BY <2>1
<1>2. ASSUME NEW n \in 0 .. N - 1, n \in S PROVE n + 1 \in S
  <2>1. PICK g : Solves(g, n, St, s0, F)
    BY <1>2
  <2> DEFINE h == [k \in 0 .. n + 1 |-> IF k = n + 1 THEN F[n + 1][g[n]] ELSE g[k]]
  <2>2. g \in [0 .. n -> St] /\ g[n] \in St /\ n + 1 \in 1 .. N
    BY <2>1 DEF Solves
  <2>3. F[n + 1][g[n]] \in St
    BY <2>2
  <2>4. h \in [0 .. n + 1 -> St] /\ h[0] = s0
    BY <2>1, <2>2, <2>3 DEF Solves
  <2>5. ASSUME NEW k \in 1 .. n + 1 PROVE h[k] = F[k][h[k - 1]]
    <3>1. CASE k = n + 1
      <4>1. h[n + 1] = F[n + 1][g[n]] /\ h[n] = g[n]
        OBVIOUS
      <4>2. k - 1 = n
        BY <3>1
      <4> HIDE DEF h
      <4> QED
        BY <3>1, <4>1, <4>2
    <3>2. CASE k # n + 1
      <4>1. k \in 1 .. n /\ k \in 0 .. n + 1 /\ k - 1 \in 0 .. n + 1 /\ k - 1 # n + 1
        BY <3>2
      <4>2. h[k] = g[k] /\ h[k - 1] = g[k - 1]
        BY <4>1, <3>2
      <4>3. g[k] = F[k][g[k - 1]]
        BY <2>1, <4>1 DEF Solves
      <4> QED
        BY <4>2, <4>3
    <3> QED
      BY <3>1, <3>2
  <2>6. Solves(h, n + 1, St, s0, F)
    <3> HIDE DEF h
    <3> QED
      BY <2>4, <2>5 DEF Solves
  <2> QED
    BY <2>6
<1>3. N \in S
  <2> HIDE DEF S
  <2>1. 0 .. N \subseteq S
    BY <1>1, <1>2, IntervalInduction
  <2> QED
    BY <2>1
<1> QED
  BY <1>3

\* A bijection keeps the number of elements.
LEMMA SameSize ==
  ASSUME NEW S, IsFiniteSet(S), NEW T, NEW r \in [S -> T],
         \A i, j \in S : r[i] = r[j] => i = j, \A t \in T : \E i \in S : r[i] = t
  PROVE  IsFiniteSet(T) /\ Cardinality(T) = Cardinality(S)
<1>1. r \in Injection(S, T)
  <2>1. IsInjective(r)
    BY DEF IsInjective
  <2> QED
    BY <2>1 DEF Injection
<1>2. r \in Surjection(S, T)
  BY DEF Surjection
<1>3. ExistsBijection(S, T)
  BY <1>1, <1>2 DEF ExistsBijection, Bijection
<1> QED
  BY <1>3, FS_Bijection

-----------------------------------------------------------------------------
FreeBlocks == DataBlocks \ used
At(T, n, k, i) == k \in 1 .. n /\ i \in 1 .. Len(T[k])

\* No other block holds a list.
Heads(T, n) == \A b \in Blocks : chain[b] = <<>> \/ \E k \in 2 .. n : b = T[k][1]

Stack(T, n) ==
  /\ n \in Nat \ {0} /\ T \in [1 .. n -> Lists]
  /\ T[n] = free
  /\ \A k \in 1 .. n : Len(T[k]) >= 1
  /\ \A k \in 1 .. n : k < n => Len(T[k]) = FREEMAX
  /\ T[1][1] = 0
  /\ \A k \in 2 .. n : chain[T[k][1]] = T[k - 1]
  /\ Heads(T, n)
  /\ \A k, i \in Nat : At(T, n, k, i) => (k = 1 /\ i = 1) \/ T[k][i] \in FreeBlocks
  /\ \A k, i, l, j \in Nat :
       At(T, n, k, i) /\ At(T, n, l, j) /\ T[k][i] = T[l][j] => k = l /\ i = j
  /\ \A b \in FreeBlocks : \E k, i \in Nat : At(T, n, k, i) /\ T[k][i] = b

Inv ==
  /\ TypeOK
  /\ mounted /\ tfree = Cardinality(FreeBlocks)
  /\ ISize + 1 .. todo \subseteq used
  /\ \E n \in Nat : \E T : Stack(T, n)

-----------------------------------------------------------------------------
(* Lists, and the number of free blocks *)

LEMMA ListIsSeq ==
  ASSUME NEW l \in Lists
  PROVE  l \in Seq(Blocks \cup {0}) /\ Len(l) \in 0 .. FREEMAX
<1>1. PICK n \in 0 .. FREEMAX : l \in [1 .. n -> Blocks \cup {0}]
  BY DEF Lists
<1>2. n \in Nat
  BY <1>1, FreeAssumption
<1>3. l \in Seq(Blocks \cup {0}) /\ Len(l) = n
  BY <1>1, <1>2
<1>4. QED
  BY <1>1, <1>3

LEMMA SeqIsList ==
  ASSUME NEW l \in Seq(Blocks \cup {0}), Len(l) <= FREEMAX
  PROVE  l \in Lists
<1>1. Len(l) \in 0 .. FREEMAX /\ l \in [1 .. Len(l) -> Blocks \cup {0}]
  BY FreeAssumption
<1>2. QED
  BY <1>1 DEF Lists

LEMMA BlocksArePositive ==
  /\ Blocks \subseteq Nat /\ DataBlocks \subseteq Blocks
  /\ 0 \notin Blocks /\ IsFiniteSet(DataBlocks)
<1>1. Blocks \subseteq Nat /\ DataBlocks \subseteq Blocks /\ 0 \notin Blocks
  BY FreeAssumption DEF Blocks, DataBlocks
<1>2. IsFiniteSet(DataBlocks)
  BY FS_Interval, FreeAssumption DEF DataBlocks
<1>3. QED
  BY <1>1, <1>2

LEMMA CountType ==
  ASSUME NEW S \in SUBSET DataBlocks
  PROVE  IsFiniteSet(S) /\ Cardinality(S) \in 0 .. FSize /\ (Cardinality(S) = 0 <=> S = {})
<1>1. IsFiniteSet(DataBlocks) /\ Cardinality(DataBlocks) <= FSize
  <2>1. ISize + 1 \in Int /\ FSize - 1 \in Int
    BY FreeAssumption
  <2>2. Cardinality(DataBlocks) = IF ISize + 1 > FSize - 1 THEN 0
                                  ELSE FSize - 1 - (ISize + 1) + 1
    BY <2>1, FS_Interval DEF DataBlocks
  <2>3. QED
    BY <2>2, BlocksArePositive, FreeAssumption
<1>2. IsFiniteSet(S) /\ Cardinality(S) <= Cardinality(DataBlocks)
  BY <1>1, FS_Subset
<1>3. Cardinality(S) \in Nat /\ (Cardinality(S) = 0 <=> S = {})
  BY <1>2, FS_CardinalityType, FS_EmptySet
<1>4. Cardinality(DataBlocks) \in Nat
  BY <1>1, FS_CardinalityType
<1>5. QED
  BY <1>1, <1>2, <1>3, <1>4, FreeAssumption

LEMMA CountUsed ==
  ASSUME NEW S \in SUBSET DataBlocks, NEW b \in S
  PROVE  Cardinality(S \ {b}) = Cardinality(S) - 1
  BY CountType, FS_RemoveElement

LEMMA CountFreed ==
  ASSUME NEW S \in SUBSET DataBlocks, NEW b \in DataBlocks, b \notin S
  PROVE  Cardinality(S \cup {b}) = Cardinality(S) + 1
  BY CountType, FS_AddElement

-----------------------------------------------------------------------------
(* The stack *)

(* What is on top: the 0 only if nothing is free. *)
LEMMA Top ==
  ASSUME TypeOK, NEW n \in Nat, NEW T, Stack(T, n)
  PROVE  /\ nfree \in 1 .. FREEMAX /\ n \in 1 .. n /\ At(T, n, n, nfree)
         /\ Newno = T[n][nfree] /\ Newno \in FreeBlocks \cup {0}
         /\ Newno = 0 <=> FreeBlocks = {}
<1>1. nfree \in 1 .. FREEMAX /\ n \in 1 .. n /\ At(T, n, n, nfree) /\ Newno = T[n][nfree]
  BY ListIsSeq, FreeAssumption DEF TypeOK, Stack, At, nfree, Newno
<1>2. T[n][nfree] \in FreeBlocks \/ (n = 1 /\ nfree = 1)
  BY <1>1 DEF Stack, At
<1>3. CASE n = 1 /\ nfree = 1
  <2>1. Newno = 0
    BY <1>1, <1>3 DEF Stack
  <2>2. \A k, i \in Nat : At(T, n, k, i) => k = 1 /\ i = 1
    BY <1>1, <1>3 DEF Stack, At, nfree
  <2>3. \A b \in FreeBlocks : b = T[1][1]
    BY <2>2 DEF Stack
  <2>4. 0 \notin FreeBlocks
    BY BlocksArePositive DEF FreeBlocks
  <2>5. FreeBlocks = {}
    BY <2>1, <2>3, <2>4, <1>1, <1>3
  <2>6. QED
    BY <1>1, <2>1, <2>5
<1>4. CASE T[n][nfree] \in FreeBlocks
  BY <1>1, <1>4, BlocksArePositive DEF FreeBlocks
<1>5. QED
  BY <1>2, <1>3, <1>4

LEMMA PutInv ==
  ASSUME Inv, NEW b \in used, b \in DataBlocks, PutOnList(b)
  PROVE  /\ free' \in Lists /\ chain' \in [Blocks -> Lists]
         /\ tfree' = Cardinality(FreeBlocks') /\ tfree' \in 0 .. FSize
         /\ \E n \in Nat : \E T : Stack(T, n)'
<1> USE DEF Inv
<1>0. PICK n \in Nat : \E T : Stack(T, n)
  OBVIOUS
<1>1. PICK T : Stack(T, n)
  BY <1>0
<1> DEFINE P(k, i) == At(T, n, k, i)
<1>p. /\ \A k, i \in Nat : P(k, i) => (k = 1 /\ i = 1) \/ T[k][i] \in FreeBlocks
      /\ \A k, i, l, j \in Nat :
           P(k, i) /\ P(l, j) /\ T[k][i] = T[l][j] => k = l /\ i = j
      /\ \A c \in FreeBlocks : \E k, i \in Nat : P(k, i) /\ T[k][i] = c
      /\ \A k, i \in Nat : P(k, i) => k \in 1 .. n /\ i \in 1 .. Len(T[k])
      /\ T[1][1] = 0
  BY <1>1 DEF Stack, At
<1>2. /\ nfree \in 1 .. FREEMAX /\ b \in Blocks /\ b \notin FreeBlocks
      /\ FreeBlocks' = FreeBlocks \cup {b}
  BY <1>1, Top, BlocksArePositive DEF FreeBlocks, PutOnList
<1>3. tfree' = Cardinality(FreeBlocks') /\ tfree' \in 0 .. FSize
  <2>1. FreeBlocks \in SUBSET DataBlocks /\ FreeBlocks' \in SUBSET DataBlocks
    BY DEF FreeBlocks
  <2>2. Cardinality(FreeBlocks') = Cardinality(FreeBlocks) + 1
    BY <1>2, <2>1, CountFreed
  <2>3. QED
    BY <2>1, <2>2, CountType DEF PutOnList
<1>4. CASE Full
  <2> DEFINE U == [k \in 1 .. n + 1 |-> IF k = n + 1 THEN <<b>> ELSE T[k]]
  <2>1. /\ free' = <<b>> /\ <<b>> \in Lists /\ nfree = FREEMAX
        /\ chain' = [chain EXCEPT ![b] = free]
    <3>1. Append(<<>>, b) = <<b>> /\ <<b>> \in Seq(Blocks \cup {0}) /\ Len(<<b>>) = 1
      BY <1>2
    <3>2. <<b>> \in Lists
      <4>1. Len(<<b>>) <= FREEMAX
        BY <3>1, FreeAssumption
      <4>2. QED
        BY <4>1, <3>1, SeqIsList
    <3>3. QED
      BY <3>1, <3>2, <1>4 DEF PutOnList, Room, Copied, Full
  <2>2. chain' \in [Blocks -> Lists]
    BY <2>1, <1>2 DEF TypeOK
  <2>3. Stack(U, n + 1)'
    <3>1. /\ \A k \in 1 .. n : U[k] = T[k]
          /\ U[n + 1] = <<b>> /\ Len(U[n + 1]) = 1 /\ U[n + 1][1] = b
          /\ U \in [1 .. n + 1 -> Lists]
      <4>1. n \in Nat /\ T \in [1 .. n -> Lists] /\ Len(<<b>>) = 1 /\ <<b>>[1] = b
        BY <1>1 DEF Stack
      <4>2. \A k \in 1 .. n : U[k] = T[k]
        BY <4>1
      <4>3. U[n + 1] = <<b>>
        BY <4>1
      <4>4. \A k \in 1 .. n + 1 : U[k] \in Lists
        BY <4>1, <4>2, <4>3, <2>1
      <4>5. QED
        BY <4>1, <4>2, <4>3, <4>4
    <3> HIDE DEF U
    <3> DEFINE Q(k, i) == At(U, n + 1, k, i)
    <3>2. \A k, i \in Nat : Q(k, i) <=> P(k, i) \/ (k = n + 1 /\ i = 1)
      <4> SUFFICES ASSUME NEW k \in Nat, NEW i \in Nat
                   PROVE  Q(k, i) <=> P(k, i) \/ (k = n + 1 /\ i = 1)
        OBVIOUS
      <4>1. CASE k \in 1 .. n
        <5>1. U[k] = T[k] /\ k \in 1 .. n + 1 /\ k # n + 1
          BY <3>1, <4>1
        <5>2. QED
          BY <5>1, <4>1 DEF At
      <4>2. CASE k = n + 1
        <5>a. U[k] = U[n + 1]
          BY <4>2
        <5>b. Len(U[k]) = 1
          BY <3>1, <5>a
        <5>1. k \in 1 .. n + 1 /\ k \notin 1 .. n /\ Len(U[k]) = 1
          BY <5>b, <4>2
        <5>2. i \in 1 .. 1 <=> i = 1
          OBVIOUS
        <5>3. QED
          BY <5>1, <5>2, <4>2 DEF At
      <4>3. CASE k \notin 1 .. n + 1
        <5>1. k \notin 1 .. n /\ k # n + 1
          BY <4>3
        <5>2. QED
          BY <5>1, <4>3 DEF At
      <4>4. k \in 1 .. n \/ k = n + 1 \/ k \notin 1 .. n + 1
        OBVIOUS
      <4>5. QED
        BY <4>1, <4>2, <4>3, <4>4
    <3>3. \A k, i \in Nat : P(k, i) =>
            U[k][i] = T[k][i] /\ U[k][i] # b /\ ~(k = n + 1 /\ i = 1)
      <4>1. 0 # b
        BY <1>2, BlocksArePositive
      <4>2. QED
        BY <3>1, <1>p, <1>2, <4>1
    <3> HIDE DEF P, Q
    <3>4. \A k, i \in Nat : Q(k, i) => (k = 1 /\ i = 1) \/ U[k][i] \in FreeBlocks'
      BY <3>1, <3>2, <3>3, <1>p, <1>2
    <3>5. \A k, i, l, j \in Nat :
            Q(k, i) /\ Q(l, j) /\ U[k][i] = U[l][j] => k = l /\ i = j
      <4> SUFFICES ASSUME NEW k \in Nat, NEW i \in Nat, NEW l \in Nat, NEW j \in Nat,
                          Q(k, i), Q(l, j), U[k][i] = U[l][j]
                   PROVE  k = l /\ i = j
        OBVIOUS
      <4>1. CASE P(k, i) /\ P(l, j)
        BY <4>1, <3>3, <1>p
      <4>2. CASE k = n + 1 /\ i = 1 /\ l = n + 1 /\ j = 1
        BY <4>2
      <4>3. CASE P(k, i) /\ l = n + 1 /\ j = 1
        BY <4>3, <3>1, <3>3
      <4>4. CASE P(l, j) /\ k = n + 1 /\ i = 1
        BY <4>4, <3>1, <3>3
      <4>5. QED
        BY <4>1, <4>2, <4>3, <4>4, <3>2
    <3>6. ASSUME NEW c \in FreeBlocks' PROVE \E k, i \in Nat : Q(k, i) /\ U[k][i] = c
      <4>1. CASE c \in FreeBlocks
        <5>1. PICK k \in Nat, i \in Nat : P(k, i) /\ T[k][i] = c
          BY <4>1, <1>p
        <5>2. Q(k, i) /\ U[k][i] = c
          BY <5>1, <3>2, <3>3
        <5>3. QED
          BY <5>2
      <4>2. CASE c = b
        <5>1. n + 1 \in Nat /\ 1 \in Nat
          BY <1>0
        <5>2. Q(n + 1, 1) /\ U[n + 1][1] = c
          BY <4>2, <5>1, <3>1, <3>2
        <5>3. QED
          BY <5>1, <5>2
      <4>3. QED
        BY <4>1, <4>2, <1>2
    <3>7. \A k \in 2 .. n + 1 : chain'[U[k][1]] = U[k - 1]
      <4>1. chain'[U[n + 1][1]] = U[n]
        BY <3>1, <2>1, <1>1, <1>2 DEF Stack, TypeOK
      <4>2. ASSUME NEW k \in 2 .. n PROVE chain'[U[k][1]] = U[k - 1]
        <5>1. At(T, n, k, 1) /\ k \in Nat /\ k \in 1 .. n /\ k - 1 \in 1 .. n
          BY <1>1, <4>2 DEF Stack, At
        <5>2. T[k][1] # b /\ U[k] = T[k] /\ U[k - 1] = T[k - 1]
          BY <5>1, <3>1, <3>3 DEF P
        <5>3. chain[T[k][1]] = T[k - 1]
          BY <1>1 DEF Stack
        <5>4. QED
          BY <5>2, <5>3, <2>1, <1>2 DEF TypeOK
      <4>3. QED
        <5>1. \A k \in 2 .. n + 1 : k = n + 1 \/ k \in 2 .. n
          OBVIOUS
        <5>2. (n + 1) - 1 = n
          OBVIOUS
        <5>3. QED
          BY <4>1, <4>2, <5>1, <5>2
    <3>8. /\ \A k \in 1 .. n + 1 : Len(U[k]) >= 1
          /\ \A k \in 1 .. n + 1 : k < n + 1 => Len(U[k]) = FREEMAX
          /\ U[1][1] = 0 /\ n + 1 \in Nat \ {0} /\ U[n + 1] = free'
      <4>1. \A k \in 1 .. n + 1 : k = n + 1 \/ (k \in 1 .. n /\ k # n + 1)
        OBVIOUS
      <4>2. ASSUME NEW k \in 1 .. n PROVE Len(U[k]) = FREEMAX
        <5>1. k < n \/ k = n
          OBVIOUS
        <5>2. QED
          BY <5>1, <3>1, <2>1, <1>1 DEF Stack, nfree
      <4>3. 1 \in 1 .. n /\ n + 1 \in Nat \ {0} /\ T[1][1] = 0
        BY <1>1 DEF Stack
      <4>4. FREEMAX >= 1 /\ ~ n + 1 < n + 1
        BY FreeAssumption
      <4>5. \A k \in 1 .. n + 1 : Len(U[k]) >= 1
        <5>1. ASSUME NEW k \in 1 .. n PROVE Len(U[k]) >= 1
          BY <4>2, <4>4, FreeAssumption
        <5>2. Len(U[n + 1]) >= 1
          BY <3>1
        <5>3. QED
          BY <4>1, <5>1, <5>2
      <4>6. \A k \in 1 .. n + 1 : k < n + 1 => Len(U[k]) = FREEMAX
        BY <4>1, <4>2
      <4>7. U[1][1] = 0
        BY <4>3, <3>1
      <4>8. QED
        BY <4>3, <4>5, <4>6, <4>7, <3>1, <2>1
    <3>9. Heads(U, n + 1)'
      <4>1. \A k \in 2 .. n : k \in 2 .. n + 1 /\ k \in 1 .. n
        OBVIOUS
      <4>2. ASSUME NEW c \in Blocks, c # b, chain[c] # <<>>
            PROVE  \E k \in 2 .. n + 1 : c = U[k][1]
        <5>1. PICK k \in 2 .. n : c = T[k][1]
          BY <4>2, <1>1 DEF Stack, Heads
        <5> QED
          BY <4>1, <5>1, <3>1
      <4>3. n + 1 \in 2 .. n + 1 /\ b = U[n + 1][1]
        BY <3>1, <1>1 DEF Stack
      <4>4. \A c \in Blocks : c # b => chain'[c] = chain[c]
        BY <2>1 DEF TypeOK
      <4> QED
        BY <4>2, <4>3, <4>4 DEF Heads
    <3>10. QED
      BY <3>1, <3>4, <3>5, <3>6, <3>7, <3>8, <3>9 DEF Stack, At, Q
  <2>4. QED
    BY <1>3, <2>1, <2>2, <2>3
<1>5. CASE ~Full
  <2> DEFINE U == [T EXCEPT ![n] = Append(T[n], b)]
  <2>1. /\ free' = Append(free, b) /\ chain' = chain /\ free' \in Lists
        /\ free \in Seq(Blocks \cup {0})
    <3>1. free \in Seq(Blocks \cup {0}) /\ Len(free) < FREEMAX
      BY <1>5, <1>2, ListIsSeq, FreeAssumption DEF Full, TypeOK, nfree
    <3>2. Append(free, b) \in Seq(Blocks \cup {0}) /\ Len(Append(free, b)) <= FREEMAX
      BY <3>1, <1>2, FreeAssumption
    <3>3. QED
      BY <3>1, <3>2, <1>5, SeqIsList DEF PutOnList, Room, Copied
  <2>2. Stack(U, n)'
    <3>1. /\ \A k \in 1 .. n : k # n => U[k] = T[k]
          /\ U[n] = free' /\ Len(U[n]) = nfree + 1 /\ U[n][nfree + 1] = b
          /\ \A i \in 1 .. nfree : U[n][i] = T[n][i]
          /\ U \in [1 .. n -> Lists] /\ n \in 1 .. n
          /\ T[n] = free /\ Len(T[n]) = nfree
      BY <1>1, <2>1 DEF Stack, nfree
    <3> HIDE DEF U
    <3> DEFINE Q(k, i) == At(U, n, k, i)
    <3>2. \A k, i \in Nat : Q(k, i) <=> P(k, i) \/ (k = n /\ i = nfree + 1)
      BY <3>1, <1>2 DEF At
    <3>3. \A k, i \in Nat : P(k, i) =>
            U[k][i] = T[k][i] /\ U[k][i] # b /\ ~(k = n /\ i = nfree + 1)
      <4>1. 0 # b
        BY <1>2, BlocksArePositive
      <4>2. QED
        BY <3>1, <1>p, <1>2, <4>1
    <3> HIDE DEF P, Q
    <3>a. nfree + 1 \in Nat
      BY <1>2
    <3>4. \A k, i \in Nat : Q(k, i) => (k = 1 /\ i = 1) \/ U[k][i] \in FreeBlocks'
      BY <3>1, <3>2, <3>3, <1>p, <1>2
    <3>5. \A k, i, l, j \in Nat :
            Q(k, i) /\ Q(l, j) /\ U[k][i] = U[l][j] => k = l /\ i = j
      <4> SUFFICES ASSUME NEW k \in Nat, NEW i \in Nat, NEW l \in Nat, NEW j \in Nat,
                          Q(k, i), Q(l, j), U[k][i] = U[l][j]
                   PROVE  k = l /\ i = j
        OBVIOUS
      <4>1. CASE P(k, i) /\ P(l, j)
        BY <4>1, <3>3, <1>p
      <4>2. CASE k = n /\ i = nfree + 1 /\ l = n /\ j = nfree + 1
        BY <4>2
      <4>3. CASE P(k, i) /\ l = n /\ j = nfree + 1
        BY <4>3, <3>1, <3>3
      <4>4. CASE P(l, j) /\ k = n /\ i = nfree + 1
        BY <4>4, <3>1, <3>3
      <4>5. QED
        BY <4>1, <4>2, <4>3, <4>4, <3>2
    <3>6. ASSUME NEW c \in FreeBlocks' PROVE \E k, i \in Nat : Q(k, i) /\ U[k][i] = c
      <4>1. CASE c \in FreeBlocks
        <5>1. PICK k \in Nat, i \in Nat : P(k, i) /\ T[k][i] = c
          BY <4>1, <1>p
        <5>2. Q(k, i) /\ U[k][i] = c
          BY <5>1, <3>2, <3>3
        <5>3. QED
          BY <5>2
      <4>2. CASE c = b
        <5>1. n \in Nat /\ nfree + 1 \in Nat
          BY <1>0, <3>a
        <5>2. Q(n, nfree + 1) /\ U[n][nfree + 1] = c
          BY <4>2, <5>1, <3>1, <3>2
        <5>3. QED
          BY <5>1, <5>2
      <4>3. QED
        BY <4>1, <4>2, <1>2
    <3>7. /\ \A k \in 1 .. n : Len(U[k]) >= 1
          /\ \A k \in 1 .. n : k < n => Len(U[k]) = FREEMAX
      <4>1. \A k \in 1 .. n : k < n => k # n
        OBVIOUS
      <4>2. nfree + 1 >= 1
        BY <1>2
      <4>3. /\ \A k \in 1 .. n : Len(T[k]) >= 1
            /\ \A k \in 1 .. n : k < n => Len(T[k]) = FREEMAX
        BY <1>1 DEF Stack
      <4>4. ASSUME NEW k \in 1 .. n PROVE Len(U[k]) >= 1
        <5>1. CASE k = n
          BY <5>1, <4>2, <3>1
        <5>2. CASE k # n
          BY <5>2, <4>3, <3>1
        <5>3. QED
          BY <5>1, <5>2
      <4>5. ASSUME NEW k \in 1 .. n, k < n PROVE Len(U[k]) = FREEMAX
        BY <4>1, <4>3, <4>5, <3>1
      <4>6. QED
        BY <4>4, <4>5
    <3>8. \A k \in 1 .. n : U[k][1] = T[k][1]
      BY <3>1, <1>2
    <3>9. \A k \in 2 .. n : chain'[U[k][1]] = U[k - 1]
      <4>1. \A k \in 2 .. n : k \in 1 .. n /\ k - 1 \in 1 .. n /\ k - 1 # n
        OBVIOUS
      <4>2. QED
        BY <4>1, <3>1, <3>8, <2>1, <1>1 DEF Stack
    <3>10. n \in Nat \ {0} /\ U[1][1] = 0
      BY <3>1, <3>8, <1>1 DEF Stack
    <3>11. Heads(U, n)'
      <4>1. \A k \in 2 .. n : k \in 1 .. n
        OBVIOUS
      <4>2. ASSUME NEW c \in Blocks
            PROVE  chain'[c] = <<>> \/ \E k \in 2 .. n : c = U[k][1]
        <5>1. Heads(T, n) /\ chain' = chain
          BY <1>1, <2>1 DEF Stack
        <5>2. CASE chain[c] = <<>>
          BY <5>1, <5>2
        <5>3. CASE chain[c] # <<>>
          <6>1. PICK k \in 2 .. n : c = T[k][1]
            BY <5>1, <5>3 DEF Heads
          <6> QED
            BY <6>1, <4>1, <3>8
        <5> QED
          BY <5>2, <5>3
      <4> QED
        BY <4>2 DEF Heads
    <3>12. QED
      BY <3>1, <3>4, <3>5, <3>6, <3>7, <3>9, <3>10, <3>11 DEF Stack, Q
  <2>3. QED
    BY <1>3, <2>1, <2>2 DEF TypeOK
<1>6. QED
  BY <1>4, <1>5

LEMMA TakeInv ==
  ASSUME Inv, Newno # 0, free' = Refill, tfree' = tfree - 1,
         chain' = [chain EXCEPT ![Newno] = <<>>], used' = used \cup {Newno}
  PROVE  /\ Newno \in FreeBlocks /\ free' \in Lists /\ chain' \in [Blocks -> Lists]
         /\ tfree' = Cardinality(FreeBlocks') /\ tfree' \in 0 .. FSize
         /\ \E n \in Nat : \E T : Stack(T, n)'
<1> USE DEF Inv
<1>0. PICK n \in Nat : \E T : Stack(T, n)
  OBVIOUS
<1>1. PICK T : Stack(T, n)
  BY <1>0
<1> DEFINE P(k, i) == At(T, n, k, i)
<1>p. /\ \A k, i \in Nat : P(k, i) => (k = 1 /\ i = 1) \/ T[k][i] \in FreeBlocks
      /\ \A k, i, l, j \in Nat :
           P(k, i) /\ P(l, j) /\ T[k][i] = T[l][j] => k = l /\ i = j
      /\ \A c \in FreeBlocks : \E k, i \in Nat : P(k, i) /\ T[k][i] = c
      /\ T[1][1] = 0
  BY <1>1 DEF Stack, At
<1>2. /\ nfree \in 1 .. FREEMAX /\ P(n, nfree) /\ Newno = T[n][nfree]
      /\ Newno \in FreeBlocks /\ n \in 1 .. n
      /\ FreeBlocks' = FreeBlocks \ {Newno}
  BY <1>1, Top DEF FreeBlocks
<1>3. tfree' = Cardinality(FreeBlocks') /\ tfree' \in 0 .. FSize
  <2>1. FreeBlocks \in SUBSET DataBlocks /\ FreeBlocks' \in SUBSET DataBlocks
    BY <1>2 DEF FreeBlocks
  <2>2. Cardinality(FreeBlocks') = Cardinality(FreeBlocks) - 1
    BY <1>2, <2>1, CountUsed
  <2>3. QED
    BY <2>1, <2>2, CountType
<1>4. Newno \in Blocks /\ chain' \in [Blocks -> Lists]
  <2>1. Newno \in Blocks
    BY <1>2, BlocksArePositive DEF FreeBlocks
  <2>2. <<>> \in Lists
    <3>1. <<>> \in Seq(Blocks \cup {0}) /\ Len(<<>>) <= FREEMAX
      BY FreeAssumption
    <3>2. QED
      BY <3>1, SeqIsList
  <2>3. QED
    BY <2>1, <2>2 DEF TypeOK
(* The stack that is left, without the last block of the last list. *)
<1> DEFINE Left(U, m) ==
      /\ m \in Nat \ {0} /\ m <= n /\ U \in [1 .. m -> Lists] /\ U[m] = free'
      /\ Len(U[m]) >= 1
      /\ \A k \in 1 .. m : k < m => U[k] = T[k]
      /\ \A k, i \in Nat : At(U, m, k, i) <=> P(k, i) /\ ~(k = n /\ i = nfree)
      /\ \A k, i \in Nat : At(U, m, k, i) => U[k][i] = T[k][i]
<1>5. \E m \in Nat : \E U : Left(U, m)
  <2>1. CASE nfree = 1
    <3> DEFINE U == [k \in 1 .. n - 1 |-> T[k]]
    <3>1. n # 1
      BY <1>2, <1>p, <2>1
    <3>2. n \in 2 .. n /\ n - 1 \in Nat \ {0} /\ n - 1 \in 1 .. n /\ n - 1 < n
      BY <3>1, <1>1 DEF Stack
    <3>3. free' = T[n - 1]
      BY <3>2, <2>1, <1>1, <1>2 DEF Stack, Refill
    <3>4. /\ \A k \in 1 .. n - 1 : k \in 1 .. n /\ U[k] = T[k]
          /\ U \in [1 .. n - 1 -> Lists] /\ U[n - 1] = free'
      BY <3>2, <3>3, <1>1 DEF Stack
    <3>5. Len(T[n]) = 1 /\ Len(U[n - 1]) >= 1
      BY <3>2, <3>3, <3>4, <2>1, <1>1 DEF Stack, nfree
    <3> HIDE DEF U
    <3>6. ASSUME NEW k \in Nat, NEW i \in Nat
          PROVE  At(U, n - 1, k, i) <=> P(k, i) /\ ~(k = n /\ i = nfree)
      <4>1. CASE k \in 1 .. n - 1
        <5>1. k # n /\ k \in 1 .. n /\ U[k] = T[k]
          BY <4>1, <3>4
        <5>2. QED
          BY <5>1, <4>1 DEF At
      <4>2. CASE k = n
        <5>1. T[k] = T[n] /\ k \notin 1 .. n - 1
          BY <4>2
        <5>2. i \in 1 .. 1 => i = 1
          OBVIOUS
        <5>3. QED
          BY <5>1, <5>2, <4>2, <3>5, <2>1 DEF At
      <4>3. CASE k \notin 1 .. n
        <5>1. k \notin 1 .. n - 1
          BY <4>3
        <5>2. QED
          BY <5>1, <4>3 DEF At
      <4>4. k \in 1 .. n - 1 \/ k = n \/ k \notin 1 .. n
        OBVIOUS
      <4>5. QED
        BY <4>1, <4>2, <4>3, <4>4
    <3>7. \A k, i \in Nat : At(U, n - 1, k, i) => U[k][i] = T[k][i]
      BY <3>4 DEF At
    <3>8. Left(U, n - 1)
      BY <3>2, <3>4, <3>5, <3>6, <3>7
    <3> HIDE DEF Left
    <3>9. QED
      BY <3>2, <3>8
  <2>2. CASE nfree # 1
    <3> DEFINE U == [T EXCEPT ![n] = free']
    <3>1. /\ free' \in Seq(Blocks \cup {0}) /\ Len(free') = nfree - 1 /\ nfree - 1 >= 1
          /\ \A i \in 1 .. nfree - 1 : free'[i] = free[i]
          /\ free = T[n] /\ nfree \in Nat
      <4>1. free \in Seq(Blocks \cup {0}) /\ free = T[n]
        BY <1>1, ListIsSeq DEF Stack, TypeOK
      <4>2. free' = SubSeq(free, 1, nfree - 1) /\ nfree - 1 \in 1 .. Len(free)
        <5>1. free' = SubSeq(free, 1, nfree - 1)
          BY <2>2 DEF Refill
        <5>2. nfree - 1 \in 1 .. nfree
          BY <2>2, <1>2
        <5>3. QED
          BY <5>1, <5>2 DEF nfree
      <4>3. \A i \in 1 .. nfree - 1 : i \in 1 .. Len(free)
        BY <1>2 DEF nfree
      <4>4. nfree \in Nat /\ nfree - 1 >= 1
        BY <2>2, <1>2
      <4>5. free' \in Seq(Blocks \cup {0}) /\ Len(free') = nfree - 1
        BY <4>1, <4>2, <4>3, <4>4
      <4>6. \A i \in 1 .. nfree - 1 : free'[i] = free[i]
        BY <4>1, <4>2, <4>4
      <4>7. QED
        BY <4>1, <4>4, <4>5, <4>6
    <3>2. free' \in Lists
      BY <3>1, <1>2, SeqIsList, FreeAssumption
    <3>3. /\ \A k \in 1 .. n : k # n => U[k] = T[k]
          /\ U \in [1 .. n -> Lists] /\ U[n] = free'
      BY <3>2, <1>1, <1>2 DEF Stack
    <3> HIDE DEF U
    <3>4. Len(U[n]) = nfree - 1 /\ Len(T[n]) = nfree
      BY <3>1, <3>3 DEF nfree
    <3>5. ASSUME NEW k \in Nat, NEW i \in Nat
          PROVE  At(U, n, k, i) <=> P(k, i) /\ ~(k = n /\ i = nfree)
      <4>1. CASE k # n
        BY <4>1, <3>3 DEF At
      <4>2. CASE k = n
        <5>1. i \in 1 .. nfree - 1 <=> i \in 1 .. nfree /\ i # nfree
          BY <3>1
        <5>2. QED
          BY <5>1, <4>2, <3>4, <1>2 DEF At
      <4>3. QED
        BY <4>1, <4>2
    <3>6. ASSUME NEW k \in Nat, NEW i \in Nat, At(U, n, k, i)
          PROVE  U[k][i] = T[k][i]
      <4>1. CASE k # n
        BY <4>1, <3>6, <3>3 DEF At
      <4>2. CASE k = n
        BY <4>2, <3>6, <3>1, <3>3, <3>4 DEF At
      <4>3. QED
        BY <4>1, <4>2
    <3>7. n \in Nat \ {0} /\ n <= n /\ Len(U[n]) >= 1 /\ \A k \in 1 .. n : k < n => k # n
      BY <3>1, <3>4, <1>1 DEF Stack
    <3>8. Left(U, n)
      BY <3>3, <3>5, <3>6, <3>7
    <3> HIDE DEF Left
    <3>9. QED
      BY <3>8
  <2>3. QED
    BY <2>1, <2>2
<1>a. PICK m \in Nat : \E U : Left(U, m)
  BY <1>5
<1>6. PICK U : Left(U, m)
  BY <1>a
<1> DEFINE Q(k, i) == At(U, m, k, i)
<1>7. /\ \A k, i \in Nat : Q(k, i) => P(k, i) /\ ~(k = n /\ i = nfree) /\ U[k][i] = T[k][i]
      /\ \A k, i \in Nat : P(k, i) => Q(k, i) \/ (k = n /\ i = nfree)
      /\ \A k \in 1 .. m : k \in 1 .. n /\ Len(U[k]) >= 1
      /\ \A k \in 1 .. m : k < m => Len(U[k]) = FREEMAX /\ U[k] = T[k]
      /\ m \in Nat \ {0} /\ U \in [1 .. m -> Lists] /\ U[m] = free'
  <2>1. \A k \in 1 .. m : k \in 1 .. n /\ (k < m => k < n)
    BY <1>6
  <2>2. \A k \in 1 .. m : k < m \/ k = m
    BY <1>6
  <2>3. ASSUME NEW k \in 1 .. m, k < m PROVE Len(U[k]) = FREEMAX /\ U[k] = T[k]
    <3>1. U[k] = T[k]
      BY <2>3, <1>6
    <3>2. Len(T[k]) = FREEMAX
      BY <2>1, <2>3, <1>1 DEF Stack
    <3>3. QED
      BY <3>1, <3>2
  <2>4. ASSUME NEW k \in 1 .. m PROVE Len(U[k]) >= 1
    <3>1. CASE k < m
      BY <3>1, <2>3, FreeAssumption
    <3>2. CASE k = m
      BY <3>2, <1>6
    <3>3. QED
      BY <3>1, <3>2, <2>2
  <2>5. /\ \A k, i \in Nat : Q(k, i) => P(k, i) /\ ~(k = n /\ i = nfree) /\ U[k][i] = T[k][i]
        /\ \A k, i \in Nat : P(k, i) => Q(k, i) \/ (k = n /\ i = nfree)
    <3> HIDE DEF P
    <3>1. QED
      BY <1>6
  <2>6. QED
    BY <2>1, <2>3, <2>4, <2>5, <1>6
<1>8. \A k \in 1 .. m : k \in Nat /\ Q(k, 1)
  BY <1>7 DEF At
<1>9. free' \in Lists
  BY <1>7
<1> HIDE DEF P, Q, Left
<1>10. \A k, i \in Nat : Q(k, i) => (k = 1 /\ i = 1) \/ U[k][i] \in FreeBlocks'
  <2>1. ASSUME NEW k \in Nat, NEW i \in Nat, Q(k, i) PROVE U[k][i] # Newno
    <3>1. P(k, i) /\ ~(k = n /\ i = nfree) /\ U[k][i] = T[k][i]
      BY <2>1, <1>7
    <3>2. nfree \in Nat /\ P(n, nfree) /\ T[n][nfree] = Newno
      BY <1>2
    <3>3. QED
      BY <3>1, <3>2, <1>p
  <2>2. ASSUME NEW k \in Nat, NEW i \in Nat, Q(k, i)
        PROVE  (k = 1 /\ i = 1) \/ U[k][i] \in FreeBlocks
    BY <2>2, <1>7, <1>p
  <2>3. QED
    BY <2>1, <2>2, <1>2
<1>11. ASSUME NEW k \in Nat, NEW i \in Nat, NEW l \in Nat, NEW j \in Nat,
             Q(k, i), Q(l, j), U[k][i] = U[l][j]
      PROVE  k = l /\ i = j
  <2>1. P(k, i) /\ P(l, j) /\ T[k][i] = T[l][j]
    BY <1>11, <1>7
  <2>2. QED
    BY <2>1, <1>p
<1>12. ASSUME NEW c \in FreeBlocks' PROVE \E k, i \in Nat : Q(k, i) /\ U[k][i] = c
  <2>1. c \in FreeBlocks /\ c # Newno
    BY <1>2
  <2>2. PICK k \in Nat, i \in Nat : P(k, i) /\ T[k][i] = c
    BY <2>1, <1>p
  <2>3. Q(k, i)
    BY <2>1, <2>2, <1>7, <1>2
  <2>4. QED
    BY <2>2, <2>3, <1>7
<1>13. ASSUME NEW k \in 2 .. m PROVE chain'[U[k][1]] = U[k - 1]
  <2>1. k \in 1 .. m /\ k - 1 \in 1 .. m /\ k - 1 < m /\ k \in Nat /\ 1 \in Nat /\ k \in 2 .. n
    BY <1>7, <1>13
  <2>2. P(k, 1) /\ ~(k = n /\ 1 = nfree) /\ U[k][1] = T[k][1] /\ U[k - 1] = T[k - 1]
    BY <2>1, <1>7, <1>8
  <2>3. T[k][1] # Newno
    BY <2>1, <2>2, <1>p, <1>2
  <2>4. T[k][1] \in Blocks
    <3>1. k # 1
      BY <1>13
    <3>2. T[k][1] \in FreeBlocks
      BY <2>1, <2>2, <3>1, <1>p
    <3>3. QED
      BY <3>2, BlocksArePositive DEF FreeBlocks
  <2>5. chain[T[k][1]] = T[k - 1]
    BY <2>1, <1>1 DEF Stack
  <2>6. QED
    BY <2>2, <2>3, <2>4, <2>5, <1>4 DEF TypeOK
<1>14. U[1][1] = 0
  <2>1. Q(1, 1)
    BY <1>7, <1>8
  <2>2. QED
    BY <2>1, <1>7, <1>p
<1>h. Heads(U, m)'
  <2>1. ASSUME NEW b \in Blocks, b # Newno, chain[b] # <<>>
        PROVE  \E k \in 2 .. m : b = U[k][1]
    <3>1. PICK k \in 2 .. n : b = T[k][1]
      BY <2>1, <1>1 DEF Stack, Heads
    <3>2. k \in Nat /\ 1 \in Nat /\ P(k, 1)
      BY <3>1, <1>1 DEF Stack, P, At
    <3>3. T[k][1] # Newno
      BY <2>1, <3>1
    <3>4. ~(k = n /\ 1 = nfree)
      BY <3>3, <1>2
    <3>5. Q(k, 1)
      BY <3>2, <3>4, <1>7
    <3>6. U[k][1] = b /\ k \in 1 .. m
      BY <3>1, <3>2, <3>5, <1>7 DEF Q, At
    <3>7. k \in 2 .. m
      BY <3>1, <3>6
    <3> QED
      BY <3>6, <3>7
  <2>2. \A b \in Blocks : chain'[b] = IF b = Newno THEN <<>> ELSE chain[b]
    BY DEF TypeOK
  <2> QED
    BY <2>1, <2>2 DEF Heads
<1>15. Stack(U, m)'
  BY <1>7, <1>10, <1>11, <1>12, <1>13, <1>14, <1>h DEF Stack, Q
<1>16. QED
  BY <1>2, <1>3, <1>4, <1>9, <1>15

-----------------------------------------------------------------------------
(* The whole list *)

(* W[k] is what is read from T[k] down to the bottom. *)
Whole(T, n, W) ==
  /\ W \in [1 .. n -> Seq(Blocks \cup {0})]
  /\ W[1] = T[1]
  /\ \A k \in 2 .. n : W[k] = W[k - 1] \o T[k]

LEMMA WholeExists ==
  ASSUME NEW n \in Nat \ {0}, NEW T \in [1 .. n -> Lists]
  PROVE  \E W : Whole(T, n, W)
<1> DEFINE St == Seq(Blocks \cup {0})
           F == [k \in 1 .. n - 1 |-> [w \in St |-> w \o T[k + 1]]]
<1>1. \A k \in 1 .. n : T[k] \in St
  BY ListIsSeq
<1>2. F \in [1 .. n - 1 -> [St -> St]]
  <2>1. \A k \in 1 .. n - 1 : k + 1 \in 1 .. n
    OBVIOUS
  <2>2. \A k \in 1 .. n - 1 : \A w \in St : w \o T[k + 1] \in St
    BY <1>1, <2>1
  <2> QED
    BY <2>2
<1>3. T[1] \in St /\ n - 1 \in Nat
  BY <1>1
<1> HIDE DEF F, St
<1>4. PICK g : Solves(g, n - 1, St, T[1], F)
  BY <1>2, <1>3, RecursionSolved
<1> DEFINE W == [k \in 1 .. n |-> g[k - 1]]
<1>5. W \in [1 .. n -> St] /\ W[1] = T[1]
  <2>1. \A k \in 1 .. n : k - 1 \in 0 .. n - 1
    OBVIOUS
  <2>2. g \in [0 .. n - 1 -> St] /\ g[0] = T[1]
    BY <1>4 DEF Solves
  <2> QED
    BY <2>1, <2>2
<1>6. ASSUME NEW k \in 2 .. n PROVE W[k] = W[k - 1] \o T[k]
  <2>1. k - 1 \in 1 .. n - 1 /\ k \in 1 .. n /\ k - 1 \in 1 .. n /\ (k - 1) + 1 = k
    OBVIOUS
  <2>2. g[k - 1] = F[k - 1][g[k - 1 - 1]]
    BY <1>4, <2>1 DEF Solves
  <2>3. W[k - 1] \in St
    BY <1>5, <2>1
  <2>4. W[k] = g[k - 1] /\ W[k - 1] = g[k - 1 - 1]
    BY <2>1
  <2> HIDE DEF W
  <2>5. F[k - 1][W[k - 1]] = W[k - 1] \o T[k]
    BY <2>1, <2>3 DEF F
  <2> QED
    BY <2>2, <2>4, <2>5
<1> HIDE DEF W
<1>7. Whole(T, n, W)
  BY <1>5, <1>6 DEF Whole, St
<1> QED
  BY <1>7

\* The first of each list but the lowest is a free block, of that list only.
LEMMA HeadsDiffer ==
  ASSUME NEW n \in Nat, NEW T, Stack(T, n)
  PROVE  /\ \A k \in 2 .. n : T[k][1] \in FreeBlocks /\ T[k][1] \in Blocks /\ T[k][1] # 0
         /\ \A k, j \in 2 .. n : T[k][1] = T[j][1] => k = j
         /\ \A k \in 1 .. n : T[k] \in Lists /\ T[k] # <<>>
<1>1. \A k \in 2 .. n : k \in Nat /\ 1 \in Nat /\ k # 1 /\ At(T, n, k, 1)
  BY DEF At, Stack
<1>2. \A k \in 2 .. n : T[k][1] \in FreeBlocks
  BY <1>1 DEF Stack
<1>3. \A k, j \in 2 .. n : T[k][1] = T[j][1] => k = j
  BY <1>1 DEF Stack
<1>4. \A k \in 1 .. n : T[k] \in Lists /\ Len(T[k]) >= 1
  BY DEF Stack
<1>5. \A b \in FreeBlocks : b \in Blocks /\ b # 0
  BY BlocksArePositive DEF FreeBlocks
<1> QED
  BY <1>2, <1>3, <1>4, <1>5

\* What Below says of a list, if g is what it says of those below.
Reads(g, l) ==
  IF l = <<>> THEN <<>> ELSE IF l[1] = 0 THEN l ELSE g[chain[l[1]]] \o l

LEMMA BelowReads ==
  ASSUME chain \in [Blocks -> Lists], NEW n \in Nat, NEW T, Stack(T, n), NEW W, Whole(T, n, W)
  PROVE  \A l \in Lists : Below[l] = Reads(Below, l)
<1> DEFINE Tops(l) == {k \in 2 .. n : l # <<>> /\ l[1] = T[k][1]}
           g == [l \in Lists |-> IF Tops(l) = {} THEN l
                                  ELSE W[(CHOOSE k \in Tops(l) : TRUE) - 1] \o l]
<1>1. /\ \A k \in 2 .. n : T[k][1] \in Blocks /\ T[k][1] # 0
      /\ \A k, j \in 2 .. n : T[k][1] = T[j][1] => k = j
      /\ \A k \in 1 .. n : T[k] \in Lists /\ T[k] # <<>>
  BY HeadsDiffer
<1>2. n \in Nat \ {0} /\ T[1][1] = 0 /\ \A k \in 2 .. n : chain[T[k][1]] = T[k - 1]
  BY DEF Stack
<1>3. ASSUME NEW l \in Lists, NEW k \in 2 .. n, l # <<>>, l[1] = T[k][1]
      PROVE  g[l] = W[k - 1] \o l
  <2>1. Tops(l) = {k}
    BY <1>1, <1>3
  <2>2. (CHOOSE j \in Tops(l) : TRUE) = k
    BY <2>1
  <2> QED
    BY <2>1, <2>2
<1>4. ASSUME NEW l \in Lists, \A k \in 2 .. n : l = <<>> \/ l[1] # T[k][1]
      PROVE  g[l] = l
  BY <1>4
<1>5. DOMAIN g = Lists /\ g = [l \in Lists |-> g[l]]
  OBVIOUS
<1> HIDE DEF g
<1>6. ASSUME NEW j \in 1 .. n PROVE g[T[j]] = W[j]
  <2>1. CASE j = 1
    BY <2>1, <1>1, <1>2, <1>4 DEF Whole
  <2>2. CASE j # 1
    <3>1. j \in 2 .. n
      BY <2>2
    <3>2. g[T[j]] = W[j - 1] \o T[j]
      BY <3>1, <1>1, <1>3
    <3> QED
      BY <3>1, <3>2 DEF Whole
  <2> QED
    BY <2>1, <2>2
<1>7. ASSUME NEW l \in Lists PROVE g[l] = Reads(g, l)
  <2>1. CASE l = <<>>
    BY <2>1, <1>4 DEF Reads
  <2>2. CASE l # <<>> /\ l[1] = 0
    BY <2>2, <1>1, <1>4 DEF Reads
  <2>3. CASE l # <<>> /\ l[1] # 0
    <3>1. l \in Seq(Blocks \cup {0}) /\ 1 \in 1 .. Len(l)
      BY <2>3, ListIsSeq
    <3>2. l[1] \in Blocks
      BY <3>1, <2>3
    <3>3. CASE \E k \in 2 .. n : l[1] = T[k][1]
      <4>1. PICK k \in 2 .. n : l[1] = T[k][1]
        BY <3>3
      <4>2. g[l] = W[k - 1] \o l /\ chain[l[1]] = T[k - 1]
        BY <4>1, <2>3, <1>2, <1>3
      <4>3. g[T[k - 1]] = W[k - 1]
        <5>1. k - 1 \in 1 .. n
          OBVIOUS
        <5> QED
          BY <5>1, <1>6
      <4> QED
        BY <4>2, <4>3, <2>3 DEF Reads
    <3>4. CASE ~ \E k \in 2 .. n : l[1] = T[k][1]
      <4>1. chain[l[1]] = <<>>
        BY <3>2, <3>4 DEF Stack, Heads
      <4>2. <<>> \in Lists
        BY <4>1, <3>2
      <4>3. g[l] = l /\ g[<<>>] = <<>>
        BY <3>4, <4>2, <1>4
      <4>4. <<>> \o l = l
        BY <3>1
      <4> QED
        BY <4>1, <4>3, <4>4, <2>3 DEF Reads
    <3> QED
      BY <3>3, <3>4
  <2> QED
    BY <2>1, <2>2, <2>3
<1> DEFINE body(f) == [l \in Lists |-> IF l = <<>> THEN <<>>
                                        ELSE IF l[1] = 0 THEN l ELSE f[chain[l[1]]] \o l]
<1>8. g = body(g)
  BY <1>5, <1>7 DEF Reads
<1>9. Below = CHOOSE f : f = body(f)
  BY DEF Below
<1>10. Below = body(Below)
  <2> HIDE DEF body
  <2> QED
    BY <1>8, <1>9
<1> QED
  BY <1>10 DEF Reads

LEMMA BelowIsWhole ==
  ASSUME chain \in [Blocks -> Lists], NEW n \in Nat, NEW T, Stack(T, n), NEW W, Whole(T, n, W)
  PROVE  Below[free] = W[n]
<1> DEFINE S == {k \in 0 .. n - 1 : Below[T[k + 1]] = W[k + 1]}
<1>1. /\ \A k \in 2 .. n : T[k][1] # 0
      /\ \A k \in 1 .. n : T[k] \in Lists /\ T[k] # <<>>
  BY HeadsDiffer
<1>2. /\ n \in Nat \ {0} /\ T[1][1] = 0 /\ \A k \in 2 .. n : chain[T[k][1]] = T[k - 1]
      /\ T[n] = free
  BY DEF Stack
<1>3. \A k \in 1 .. n : Below[T[k]] = Reads(Below, T[k])
  BY <1>1, BelowReads
<1>4. Below[T[1]] = W[1]
  <2>1. 1 \in 1 .. n
    BY <1>2
  <2> QED
    BY <2>1, <1>1, <1>2, <1>3 DEF Reads, Whole
<1>5. 0 \in S
  BY <1>2, <1>4
<1>6. ASSUME NEW k \in 0 .. n - 1 - 1, k \in S PROVE k + 1 \in S
  <2>1. /\ k + 1 + 1 \in 2 .. n /\ k + 1 + 1 \in 1 .. n /\ (k + 1 + 1) - 1 = k + 1
        /\ k + 1 \in 0 .. n - 1
    OBVIOUS
  <2> DEFINE j == k + 1 + 1
  <2>2. j \in 2 .. n /\ j \in 1 .. n /\ j - 1 = k + 1
    BY <2>1
  <2> HIDE DEF j
  <2>3. Below[T[j - 1]] = W[j - 1]
    BY <1>6, <2>2
  <2>4. Below[T[j]] = Below[T[j - 1]] \o T[j]
    BY <2>2, <1>1, <1>2, <1>3 DEF Reads
  <2>5. Below[T[j]] = W[j]
    BY <2>2, <2>3, <2>4 DEF Whole
  <2> QED
    BY <2>1, <2>5 DEF j
<1>7. n - 1 \in Nat
  BY <1>2
<1>8. 0 .. n - 1 \subseteq S
  <2> HIDE DEF S
  <2> QED
    BY <1>5, <1>6, <1>7, IntervalInduction
<1>9. n - 1 \in S /\ (n - 1) + 1 = n
  BY <1>7, <1>8
<1> QED
  BY <1>2, <1>9

\* w has each entry of the lists T[1], ..., T[k] once, and 0 first.
Joins(w, T, k) ==
  /\ w \in Seq(Blocks \cup {0}) /\ Len(w) >= 1 /\ w[1] = 0
  /\ \A i \in 1 .. Len(w) : \E j \in 1 .. k : \E m \in 1 .. Len(T[j]) : w[i] = T[j][m]
  /\ \A j \in 1 .. k : \A m \in 1 .. Len(T[j]) : \E i \in 1 .. Len(w) : w[i] = T[j][m]
  /\ \A i, l \in 1 .. Len(w) : w[i] = w[l] => i = l

LEMMA JoinMore ==
  ASSUME NEW n \in Nat, NEW T, Stack(T, n), NEW k \in 1 .. n - 1, NEW w, Joins(w, T, k)
  PROVE  Joins(w \o T[k + 1], T, k + 1)
<1> DEFINE t == T[k + 1]
           v == w \o t
<1>1. w \in Seq(Blocks \cup {0}) /\ Len(w) >= 1 /\ w[1] = 0
  BY DEF Joins
<1>2. t \in Seq(Blocks \cup {0}) /\ k + 1 \in 1 .. n
  <2>1. k + 1 \in 1 .. n
    OBVIOUS
  <2> QED
    BY <2>1, ListIsSeq DEF Stack
<1>3. /\ v \in Seq(Blocks \cup {0}) /\ Len(v) = Len(w) + Len(t)
      /\ Len(w) \in Nat /\ Len(t) \in Nat
      /\ \A i \in 1 .. Len(w) : v[i] = w[i] /\ i \in 1 .. Len(v)
      /\ \A m \in 1 .. Len(t) : v[Len(w) + m] = t[m] /\ Len(w) + m \in 1 .. Len(v)
      /\ \A i \in 1 .. Len(v) : i \in 1 .. Len(w) \/ i - Len(w) \in 1 .. Len(t)
  <2>1. /\ v \in Seq(Blocks \cup {0}) /\ Len(v) = Len(w) + Len(t)
        /\ Len(w) \in Nat /\ Len(t) \in Nat
    BY <1>1, <1>2
  <2>2. \A i \in 1 .. Len(w) : v[i] = w[i] /\ i \in 1 .. Len(v)
    BY <1>1, <1>2, <2>1
  <2>3. \A m \in 1 .. Len(t) : v[Len(w) + m] = t[m] /\ Len(w) + m \in 1 .. Len(v)
    BY <1>1, <1>2, <2>1
  <2>4. \A i \in 1 .. Len(v) : i \in 1 .. Len(w) \/ i - Len(w) \in 1 .. Len(t)
    BY <2>1
  <2> QED
    BY <2>1, <2>2, <2>3, <2>4
<1> HIDE DEF v
<1>4. \A i \in 1 .. Len(v) : i - Len(w) \in 1 .. Len(t) => v[i] = t[i - Len(w)]
  <2>1. ASSUME NEW i \in 1 .. Len(v), i - Len(w) \in 1 .. Len(t) PROVE v[i] = t[i - Len(w)]
    <3>1. v[Len(w) + (i - Len(w))] = t[i - Len(w)]
      BY <1>3, <2>1
    <3>2. Len(w) + (i - Len(w)) = i
      BY <1>3
    <3> QED
      BY <3>1, <3>2
  <2> QED
    BY <2>1
<1> HIDE DEF t
<1>5. /\ \A i \in 1 .. Len(w) : \E j \in 1 .. k : \E m \in 1 .. Len(T[j]) : w[i] = T[j][m]
      /\ \A j \in 1 .. k : \A m \in 1 .. Len(T[j]) : \E i \in 1 .. Len(w) : w[i] = T[j][m]
      /\ \A i, l \in 1 .. Len(w) : w[i] = w[l] => i = l
  BY DEF Joins
<1>6. \A j, l \in 1 .. n : \A i \in 1 .. Len(T[j]) : \A m \in 1 .. Len(T[l]) :
        T[j][i] = T[l][m] => j = l /\ i = m
  BY DEF Stack, At
<1>7. \A j \in 1 .. k : j \in 1 .. k + 1 /\ j \in 1 .. n /\ j # k + 1
  OBVIOUS
<1>8. k + 1 \in 1 .. k + 1 /\ \A j \in 1 .. k + 1 : j = k + 1 \/ j \in 1 .. k
  OBVIOUS
<1>9. Len(v) >= 1 /\ v[1] = 0
  <2>1. 1 \in 1 .. Len(w)
    BY <1>1, <1>3
  <2> QED
    BY <2>1, <1>1, <1>3
<1>10. ASSUME NEW i \in 1 .. Len(v)
       PROVE  \E j \in 1 .. k + 1 : \E m \in 1 .. Len(T[j]) : v[i] = T[j][m]
  <2>1. CASE i \in 1 .. Len(w)
    <3>1. PICK j \in 1 .. k : \E m \in 1 .. Len(T[j]) : w[i] = T[j][m]
      BY <2>1, <1>5
    <3>2. j \in 1 .. k + 1 /\ v[i] = w[i]
      BY <2>1, <1>3, <1>7
    <3> QED
      BY <3>1, <3>2
  <2>2. CASE i - Len(w) \in 1 .. Len(t)
    BY <2>2, <1>4, <1>8 DEF t
  <2> QED
    BY <2>1, <2>2, <1>3
<1>11. ASSUME NEW j \in 1 .. k + 1, NEW m \in 1 .. Len(T[j])
       PROVE  \E i \in 1 .. Len(v) : v[i] = T[j][m]
  <2>1. CASE j = k + 1
    BY <2>1, <1>3 DEF t
  <2>2. CASE j \in 1 .. k
    BY <2>2, <1>3, <1>5
  <2> QED
    BY <2>1, <2>2, <1>8
\* An entry of w is none of t.
<1>12. ASSUME NEW i \in 1 .. Len(w), NEW m \in 1 .. Len(t) PROVE w[i] # t[m]
  <2>1. PICK j \in 1 .. k : \E x \in 1 .. Len(T[j]) : w[i] = T[j][x]
    BY <1>5
  <2>2. PICK x \in 1 .. Len(T[j]) : w[i] = T[j][x]
    BY <2>1
  <2>3. j \in 1 .. n /\ j # k + 1 /\ m \in 1 .. Len(T[k + 1])
    BY <1>7 DEF t
  <2> QED
    BY <2>2, <2>3, <1>2, <1>6 DEF t
<1>13. ASSUME NEW i \in 1 .. Len(v), NEW l \in 1 .. Len(v), v[i] = v[l] PROVE i = l
  <2>1. CASE i \in 1 .. Len(w) /\ l \in 1 .. Len(w)
    BY <2>1, <1>3, <1>5, <1>13
  <2>2. CASE i \in 1 .. Len(w) /\ l - Len(w) \in 1 .. Len(t)
    BY <2>2, <1>3, <1>4, <1>12, <1>13
  <2>3. CASE l \in 1 .. Len(w) /\ i - Len(w) \in 1 .. Len(t)
    BY <2>3, <1>3, <1>4, <1>12, <1>13
  <2>4. CASE i - Len(w) \in 1 .. Len(t) /\ l - Len(w) \in 1 .. Len(t)
    <3>1. t[i - Len(w)] = t[l - Len(w)]
      BY <2>4, <1>4, <1>13
    <3>2. i - Len(w) = l - Len(w)
      BY <2>4, <3>1, <1>2, <1>6 DEF t
    <3> QED
      BY <3>2, <1>3
  <2> QED
    BY <2>1, <2>2, <2>3, <2>4, <1>3
<1> QED
  BY <1>3, <1>9, <1>10, <1>11, <1>13 DEF Joins, v, t

LEMMA WholeJoins ==
  ASSUME NEW n \in Nat, NEW T, Stack(T, n), NEW W, Whole(T, n, W)
  PROVE  Joins(W[n], T, n)
<1> DEFINE S == {k \in 0 .. n - 1 : Joins(W[k + 1], T, k + 1)}
<1>1. n \in Nat \ {0} /\ 1 \in 1 .. n /\ n - 1 \in Nat
  BY DEF Stack
<1>2. Joins(W[1], T, 1)
  <2>1. /\ T[1] \in Seq(Blocks \cup {0}) /\ Len(T[1]) >= 1 /\ T[1][1] = 0
        /\ \A i, l \in 1 .. Len(T[1]) : T[1][i] = T[1][l] => i = l
    BY <1>1, ListIsSeq DEF Stack, At
  <2>2. \A j \in 1 .. 1 : j = 1
    OBVIOUS
  <2> QED
    BY <2>1, <2>2 DEF Joins, Whole
<1>3. 0 \in S
  BY <1>1, <1>2
<1>4. ASSUME NEW k \in 0 .. n - 1 - 1, k \in S PROVE k + 1 \in S
  <2> DEFINE j == k + 1
  <2>1. j \in 1 .. n - 1 /\ j + 1 \in 2 .. n /\ (j + 1) - 1 = j /\ j \in 0 .. n - 1
    OBVIOUS
  <2> HIDE DEF j
  <2>2. Joins(W[j], T, j)
    BY <1>4 DEF j
  <2>3. W[j + 1] = W[j] \o T[j + 1]
    BY <2>1 DEF Whole
  <2>4. Joins(W[j + 1], T, j + 1)
    BY <2>1, <2>2, <2>3, JoinMore
  <2> QED
    BY <2>1, <2>4 DEF j
<1>5. 0 .. n - 1 \subseteq S
  <2> HIDE DEF S
  <2> QED
    BY <1>1, <1>3, <1>4, IntervalInduction
<1>6. n - 1 \in S /\ (n - 1) + 1 = n
  BY <1>1, <1>5
<1> QED
  BY <1>6

LEMMA WholeCounts ==
  ASSUME NEW n \in Nat, NEW T, Stack(T, n), NEW w, Joins(w, T, n)
  PROVE  /\ Len(w) = 1 + Cardinality(FreeBlocks)
         /\ w[1] = 0
         /\ {w[i] : i \in 2 .. Len(w)} = FreeBlocks
<1> DEFINE I == 2 .. Len(w)
           r == [i \in I |-> w[i]]
<1>1. /\ w \in Seq(Blocks \cup {0}) /\ Len(w) \in Nat /\ Len(w) >= 1 /\ w[1] = 0
      /\ \A i, l \in 1 .. Len(w) : w[i] = w[l] => i = l
  BY DEF Joins
<1>2. 1 \in 1 .. Len(w) /\ \A i \in I : i \in 1 .. Len(w) /\ i # 1
  BY <1>1
<1>3. \A k, i \in Nat : At(T, n, k, i) => (k = 1 /\ i = 1) \/ T[k][i] \in FreeBlocks
  BY DEF Stack
<1>4. ASSUME NEW i \in I PROVE w[i] \in FreeBlocks
  <2>1. PICK j \in 1 .. n : \E m \in 1 .. Len(T[j]) : w[i] = T[j][m]
    BY <1>2 DEF Joins
  <2>2. PICK m \in 1 .. Len(T[j]) : w[i] = T[j][m]
    BY <2>1
  <2>3. T[1][1] = 0
    BY DEF Stack
  <2>4. ~(j = 1 /\ m = 1)
    BY <2>2, <2>3, <1>1, <1>2
  <2>5. j \in Nat /\ m \in Nat /\ At(T, n, j, m)
    BY DEF At
  <2> QED
    BY <2>2, <2>4, <2>5, <1>3
<1>5. ASSUME NEW b \in FreeBlocks PROVE \E i \in I : w[i] = b
  <2>1. PICK j \in Nat, m \in Nat : At(T, n, j, m) /\ T[j][m] = b
    BY DEF Stack
  <2>2. PICK i \in 1 .. Len(w) : w[i] = b
    <3>1. j \in 1 .. n /\ m \in 1 .. Len(T[j])
      BY <2>1 DEF At
    <3>2. \E i \in 1 .. Len(w) : w[i] = T[j][m]
      BY <3>1 DEF Joins
    <3> QED
      BY <2>1, <3>2
  <2>3. b # 0
    BY BlocksArePositive DEF FreeBlocks
  <2>4. i \in I
    BY <2>2, <2>3, <1>1
  <2> QED
    BY <2>2, <2>4
<1>6. IsFiniteSet(I) /\ Cardinality(I) = Len(w) - 1
  <2>1. 2 \in Int /\ Len(w) \in Int
    BY <1>1
  <2>2. /\ IsFiniteSet(2 .. Len(w))
        /\ Cardinality(2 .. Len(w)) = IF 2 > Len(w) THEN 0 ELSE Len(w) - 2 + 1
    BY <2>1, FS_Interval
  <2> QED
    BY <2>2, <1>1
<1>7. r \in [I -> FreeBlocks] /\ \A i \in I : r[i] = w[i]
  BY <1>4
<1>8. Cardinality(FreeBlocks) = Cardinality(I)
  <2>1. \A i, l \in I : r[i] = r[l] => i = l
    BY <1>1, <1>2, <1>7
  <2>2. \A b \in FreeBlocks : \E i \in I : r[i] = b
    BY <1>5, <1>7
  <2> HIDE DEF r, I
  <2> QED
    BY <2>1, <2>2, <1>6, <1>7, SameSize
<1>9. {w[i] : i \in 2 .. Len(w)} = FreeBlocks
  BY <1>4, <1>5
<1>10. Len(w) = 1 + Cardinality(FreeBlocks)
  BY <1>1, <1>6, <1>8
<1> QED
  BY <1>1, <1>9, <1>10

-----------------------------------------------------------------------------
(* The theorems *)

LEMMA InitInv ==
  ASSUME Init
  PROVE  Inv
<1> USE DEF Init
<1>1. FreeBlocks = {} /\ tfree = Cardinality(FreeBlocks)
  BY FS_EmptySet DEF FreeBlocks
<1>2. <<0>> \in Lists /\ <<>> \in Lists
  <2>1. <<0>> \in Seq(Blocks \cup {0}) /\ <<>> \in Seq(Blocks \cup {0})
    OBVIOUS
  <2>2. Len(<<0>>) <= FREEMAX /\ Len(<<>>) <= FREEMAX
    BY FreeAssumption
  <2>3. QED
    BY <2>1, <2>2, SeqIsList
<1>3. TypeOK
  BY <1>2, FreeAssumption DEF TypeOK
<1>4. Stack(<<free>>, 1)
  <2>1. <<free>> \in [1 .. 1 -> Lists]
    BY <1>2
  <2>2. \A k, i \in Nat : At(<<free>>, 1, k, i) => k = 1 /\ i = 1
    BY DEF At
  <2>3. \A k \in 1 .. 1 : k = 1
    OBVIOUS
  <2>4. \A k \in 2 .. 1 : FALSE
    OBVIOUS
  <2>5. Heads(<<free>>, 1)
    BY DEF Heads
  <2>6. QED
    BY <2>1, <2>2, <2>3, <2>4, <2>5, <1>1 DEF Stack
<1>5. ISize + 1 .. todo \subseteq used
  BY DEF DataBlocks
<1>6. QED
  BY <1>1, <1>3, <1>4, <1>5 DEF Inv

(* With the invariant, blk_alloc gives out the block on top if there is    *)
(* one, and says that there is no space if there is none.                  *)
LEMMA AllocCases ==
  ASSUME Inv, BlkAlloc
  PROVE  \/ /\ Newno = 0 /\ FreeBlocks = {}
            /\ answer' = 0
            /\ UNCHANGED <<mounted, free, tfree, chain, todo, used>>
         \/ /\ Newno \in FreeBlocks
            /\ free' = Refill /\ tfree' = tfree - 1
            /\ chain' = [chain EXCEPT ![Newno] = <<>>]
            /\ used' = used \cup {Newno}
            /\ answer' = Newno
            /\ UNCHANGED <<mounted, todo>>
<1>0. PICK n \in Nat : \E T : Stack(T, n)
  BY DEF Inv
<1>1. PICK T : Stack(T, n)
  BY <1>0
<1>2. /\ nfree \in 1 .. FREEMAX /\ Newno \in FreeBlocks \cup {0}
      /\ Newno = 0 <=> FreeBlocks = {}
  BY <1>1, Top DEF Inv
<1>3. tfree = 0 <=> FreeBlocks = {}
  <2>1. FreeBlocks \in SUBSET DataBlocks
    BY DEF FreeBlocks
  <2>2. QED
    BY <2>1, CountType DEF Inv
<1>a. nfree # 0
  BY <1>2
<1>4. CASE Newno = 0
  <2>1. tfree = 0 /\ FreeBlocks = {}
    BY <1>2, <1>3, <1>4
  <2>2. NoSpace /\ UNCHANGED <<mounted, tfree, chain, used, todo>>
    BY <2>1, <1>4, <1>a DEF BlkAlloc
  <2>3. QED
    BY <2>1, <2>2, <1>4 DEF NoSpace
<1>5. CASE Newno # 0
  <2>1. tfree # 0 /\ Newno \in FreeBlocks
    BY <1>2, <1>3, <1>5
  <2>2. QED
    BY <2>1, <1>5, <1>a DEF BlkAlloc
<1>6. QED
  BY <1>4, <1>5

LEMMA SameInv ==
  ASSUME Inv, UNCHANGED <<mounted, free, tfree, chain, todo, used>>,
         answer' \in DataBlocks \cup {0}
  PROVE  Inv'
<1>1. FreeBlocks' = FreeBlocks
  BY DEF FreeBlocks
<1>0. PICK n \in Nat : \E T : Stack(T, n)
  BY DEF Inv
<1>2. PICK T : Stack(T, n)
  BY <1>0
<1>3. Stack(T, n)'
  BY <1>1, <1>2 DEF Stack, At, Heads
<1>4. TypeOK'
  BY DEF Inv, TypeOK
<1>5. QED
  BY <1>1, <1>3, <1>4 DEF Inv

(* Each step keeps the invariant. *)
LEMMA StepInv ==
  ASSUME Inv, [Next]_vars
  PROVE  Inv'
<1>1. CASE MkfsFree
  <2>1. todo \in used /\ todo \in DataBlocks /\ PutOnList(todo)
    BY <1>1, FreeAssumption DEF Inv, TypeOK, MkfsFree, DataBlocks
  <2>2. /\ free' \in Lists /\ chain' \in [Blocks -> Lists]
        /\ tfree' = Cardinality(FreeBlocks') /\ tfree' \in 0 .. FSize
        /\ \E n \in Nat : \E T : Stack(T, n)'
    BY <2>1, PutInv
  <2>3. used' = used \ {todo} /\ todo' = todo - 1 /\ UNCHANGED <<mounted, answer>>
    BY <1>1 DEF MkfsFree, PutOnList
  <2>4. todo' \in ISize .. FSize - 1 /\ ISize + 1 .. todo' \subseteq used'
    BY <1>1, <2>3, FreeAssumption DEF Inv, TypeOK, MkfsFree
  <2>5. QED
    BY <2>2, <2>3, <2>4 DEF Inv, TypeOK
<1>2. ASSUME NEW b \in Blocks, BlkFree(b) PROVE Inv'
  <2>1. b \in used /\ b \in DataBlocks /\ PutOnList(b)
    BY <1>2 DEF Inv, TypeOK, BlkFree
  <2>2. /\ free' \in Lists /\ chain' \in [Blocks -> Lists]
        /\ tfree' = Cardinality(FreeBlocks') /\ tfree' \in 0 .. FSize
        /\ \E n \in Nat : \E T : Stack(T, n)'
    BY <2>1, PutInv
  <2>3. used' = used \ {b} /\ todo' = ISize /\ UNCHANGED <<mounted, todo, answer>>
    BY <1>2 DEF BlkFree, PutOnList, Ready
  <2>4. ISize + 1 .. todo' \subseteq used'
    BY <2>3, FreeAssumption
  <2>5. QED
    BY <2>2, <2>3, <2>4 DEF Inv, TypeOK
<1>3. CASE BlkAlloc
  <2>1. CASE Newno = 0 /\ answer' = 0 /\ UNCHANGED <<mounted, free, tfree, chain, todo, used>>
    <3>1. 0 \in DataBlocks \cup {0}
      OBVIOUS
    <3>2. QED
      BY <2>1, <3>1, SameInv
  <2>2. CASE /\ Newno \in FreeBlocks
             /\ free' = Refill /\ tfree' = tfree - 1
             /\ chain' = [chain EXCEPT ![Newno] = <<>>]
             /\ used' = used \cup {Newno}
             /\ answer' = Newno
             /\ UNCHANGED <<mounted, todo>>
    <3>1. Newno # 0
      BY <2>2, BlocksArePositive DEF FreeBlocks
    <3>2. /\ Newno \in FreeBlocks /\ free' \in Lists /\ chain' \in [Blocks -> Lists]
          /\ tfree' = Cardinality(FreeBlocks') /\ tfree' \in 0 .. FSize
          /\ \E n \in Nat : \E T : Stack(T, n)'
      BY <2>2, <3>1, TakeInv
    <3>3. Newno \in DataBlocks
      BY <2>2 DEF FreeBlocks
    <3>4. QED
      BY <2>2, <3>2, <3>3 DEF Inv, TypeOK
  <2>3. QED
    BY <1>3, <2>1, <2>2, AllocCases
<1>4. CASE UNCHANGED vars
  BY <1>4, SameInv DEF vars, Inv, TypeOK
<1>5. QED
  BY <1>1, <1>2, <1>3, <1>4 DEF Next

(* s_tfree, which nothing computes from the list, is always the number of  *)
(* free blocks, and blk_alloc never goes to corrupt.                       *)
THEOREM SuperblockSound == Spec => []NeverCorrupt
<1>1. Inv => NeverCorrupt
  BY DEF Inv, NeverCorrupt, FreeBlocks
<1>2. QED
  BY <1>1, InitInv, StepInv, PTL DEF Spec

(* s_nfree never leaves the 50 entries of s_free, in memory or in a block, *)
(* and s_tfree never leaves 0 .. the size of the disk.                     *)
THEOREM TypeCorrect == Spec => []TypeOK
<1>1. Inv => TypeOK
  BY DEF Inv
<1>2. QED
  BY <1>1, InitInv, StepInv, PTL DEF Spec

(* The lists, read from the superblock through the blocks that hold them   *)
(* down to the 0 at the bottom, have every free block once: blk_alloc will *)
(* find each of them, and none is lost when a list goes to a block.        *)
THEOREM ListWhole == Spec => []EveryFreeBlockListed
<1>1. ASSUME Inv PROVE EveryFreeBlockListed
  <2>0. PICK n \in Nat : \E T : Stack(T, n)
    BY <1>1 DEF Inv
  <2>1. PICK T : Stack(T, n)
    BY <2>0
  <2>2. n \in Nat \ {0} /\ T \in [1 .. n -> Lists] /\ chain \in [Blocks -> Lists]
    BY <1>1, <2>1 DEF Inv, TypeOK, Stack
  <2>3. PICK W : Whole(T, n, W)
    BY <2>2, WholeExists
  <2>4. Below[free] = W[n]
    BY <2>1, <2>2, <2>3, BelowIsWhole
  <2>5. Joins(W[n], T, n)
    BY <2>1, <2>3, WholeJoins
  <2> QED
    BY <2>1, <2>4, <2>5, WholeCounts DEF EveryFreeBlockListed, FreeBlocks
<1>2. QED
  BY <1>1, InitInv, StepInv, PTL DEF Spec

(* What the callers of blk_alloc and blk_free see is an allocator: the     *)
(* block given out was free, and ENOSPC means that none was.               *)
THEOREM ListAllocates == Spec => Implements
<1> USE DEF A!Next, A!Alloc, A!Free, A!vars
<1>1. Init => A!Init
  BY DEF Init, A!Init
<1>2. ASSUME Inv, [Next]_vars PROVE [A!Next]_(A!vars)
  <2>1. CASE MkfsFree
    <3>1. todo \in used
      BY <1>2, <2>1, FreeAssumption DEF Inv, TypeOK, MkfsFree
    <3>2. QED
      BY <2>1, <3>1 DEF MkfsFree, PutOnList
  <2>2. ASSUME NEW b \in Blocks, BlkFree(b) PROVE [A!Next]_(A!vars)
    BY <2>2 DEF BlkFree, PutOnList
  <2>3. CASE BlkAlloc
    <3>1. used \subseteq DataBlocks
      BY <1>2 DEF Inv, TypeOK
    <3>2. CASE FreeBlocks = {} /\ answer' = 0 /\ UNCHANGED used
      BY <3>1, <3>2 DEF FreeBlocks
    <3>3. CASE Newno \in FreeBlocks /\ used' = used \cup {Newno} /\ answer' = Newno
      BY <3>3 DEF FreeBlocks
    <3>4. QED
      BY <1>2, <2>3, <3>2, <3>3, AllocCases
  <2>4. CASE UNCHANGED vars
    BY <2>4 DEF vars
  <2>5. QED
    BY <1>2, <2>1, <2>2, <2>3, <2>4 DEF Next
<1>3. QED
  BY <1>1, <1>2, InitInv, StepInv, PTL DEF Spec, Implements, A!Spec

=============================================================================
