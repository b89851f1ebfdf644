----------------------------- MODULE FsckProofs -----------------------------
(***************************************************************************)
(* The file system checker keeps the text of the files, and a second run   *)
(* leaves each block in one place: for every size of the disk, every       *)
(* number of inodes and every disk with room for the copies and a root     *)
(* directory, whether the runs are whole or cut short.  First come the     *)
(* places in which a block can be, the free list and the single changes of *)
(* a disk; then what each pass does to them, the third first, because the  *)
(* free list is made for it; at last the invariant, and what follows from  *)
(* it.                                                                     *)
(***************************************************************************)
EXTENDS Fsck, FiniteSetTheorems, SequenceTheorems, TLAPS

-----------------------------------------------------------------------------
(* Intervals and recursions *)

(* A set with 0 that is closed under n + 1 below N has all of 0 .. N: of   *)
(* the numbers it misses there would be a least one.                       *)
LEMMA IntervalInduction ==
  ASSUME NEW N \in Nat, NEW S, 0 \in S, \A n \in 0 .. N - 1 : n \in S => n + 1 \in S
  PROVE  0 .. N \subseteq S
<1> DEFINE T == {n \in 0 .. N : n \notin S}
           Less == {ss \in Nat \X Nat : ss[1] < ss[2]}
<1> SUFFICES ASSUME T # {} PROVE FALSE
  OBVIOUS
<1>1. IsWellFoundedOn(Less, Nat) /\ T \subseteq Nat
  BY NatLessThanWellFounded DEF OpToRel
<1>2. PICK n \in T : \A m \in T : <<m, n>> \notin Less
  <2> HIDE DEF T, Less
  <2> QED
    BY <1>1, WFMin
<1>3. n - 1 \in T /\ <<n - 1, n>> \in Less
  OBVIOUS
<1> QED
  BY <1>2, <1>3

(* A recursion over 0 .. N has a solution that stays in the sets I[k], if  *)
(* its steps T[k] lead from I[k] to I[k + 1].                              *)
Leads(N, St, I, s0, T) ==
  /\ N \in Nat /\ I \in [0 .. N -> SUBSET St] /\ s0 \in I[0]
  /\ \A k \in 0 .. N - 1 : \A s \in I[k] : T[k][s] \in I[k + 1]
Solves(N, St, I, s0, T, g) ==
  /\ g \in [0 .. N -> St] /\ g[0] = s0
  /\ \A k \in 0 .. N : g[k] \in I[k]
  /\ \A k \in 0 .. N - 1 : g[k + 1] = T[k][g[k]]
LEMMA RecursionSolved ==
  ASSUME NEW N, NEW St, NEW I, NEW s0, NEW T, Leads(N, St, I, s0, T)
  PROVE  \E g : Solves(N, St, I, s0, T, g)
<1>0. /\ N \in Nat /\ I \in [0 .. N -> SUBSET St] /\ s0 \in I[0]
      /\ \A k \in 0 .. N - 1 : \A s \in I[k] : T[k][s] \in I[k + 1]
  BY DEF Leads
<1> DEFINE Sol(g, n) == /\ g \in [0 .. n -> St] /\ g[0] = s0
                        /\ \A k \in 0 .. n : g[k] \in I[k]
                        /\ \A k \in 0 .. n - 1 : g[k + 1] = T[k][g[k]]
           S == {n \in 0 .. N : \E g : Sol(g, n)}
<1>1. 0 \in S
  <2>1. Sol([k \in 0 .. 0 |-> s0], 0)
    BY <1>0
  <2> HIDE DEF Sol
  <2> QED
    BY <1>0, <2>1
<1>2. ASSUME NEW n \in 0 .. N - 1, n \in S PROVE n + 1 \in S
  <2>1. PICK g : Sol(g, n)
    BY <1>2
  <2> DEFINE new == T[n][g[n]]
             h == [k \in 0 .. n + 1 |-> IF k = n + 1 THEN new ELSE g[k]]
  <2>2. g[n] \in I[n] /\ n \in 0 .. N - 1 /\ n + 1 \in 0 .. N /\ n \in Nat
    BY <1>0, <2>1
  <2>3. new \in I[n + 1] /\ new \in St
    <3>1. new \in I[n + 1]
      BY <1>0, <2>2
    <3> HIDE DEF new
    <3> QED
      BY <1>0, <2>2, <3>1
  <2> HIDE DEF new
  <2>4. h[n + 1] = new /\ (\A k \in 0 .. n : h[k] = g[k]) /\ h \in [0 .. n + 1 -> St]
    BY <2>1, <2>2, <2>3
  <2> HIDE DEF h
  <2>5. \A k \in 0 .. n + 1 : h[k] \in I[k]
    BY <2>1, <2>2, <2>3, <2>4
  <2>6. \A k \in 0 .. n : h[k + 1] = T[k][h[k]]
    <3>1. h[n + 1] = T[n][h[n]]
      BY <2>2, <2>4 DEF new
    <3>2. ASSUME NEW k \in 0 .. n, k # n PROVE h[k + 1] = T[k][h[k]]
      <4>1. k \in 0 .. n - 1 /\ k + 1 \in 0 .. n
        BY <2>2, <3>2
      <4> QED
        BY <2>1, <2>4, <4>1
    <3> QED
      BY <3>1, <3>2
  <2>7. Sol(h, n + 1)
    <3>1. (n + 1) - 1 = n /\ h[0] = s0
      BY <2>1, <2>2, <2>4
    <3> QED
      BY <2>4, <2>5, <2>6, <3>1
  <2> HIDE DEF Sol
  <2> QED
    BY <2>2, <2>7
<1>3. N \in S
  <2> HIDE DEF S
  <2>1. 0 .. N \subseteq S
    BY <1>0, <1>1, <1>2, IntervalInduction
  <2> QED
    BY <1>0, <2>1
<1>4. PICK g : Sol(g, N)
  BY <1>3
<1> QED
  BY <1>4 DEF Solves

(* A property that goes along with each step of a recursion.               *)
Along(N, h, I) ==
  /\ N \in Nat /\ h[0] \in I[0]
  /\ \A k \in 0 .. N - 1 : h[k] \in I[k] => h[k + 1] \in I[k + 1]
LEMMA AlongSteps ==
  ASSUME NEW N, NEW h, NEW I, Along(N, h, I)
  PROVE  h[N] \in I[N]
<1>0. /\ N \in Nat /\ h[0] \in I[0]
      /\ \A k \in 0 .. N - 1 : h[k] \in I[k] => h[k + 1] \in I[k + 1]
  BY DEF Along
<1> DEFINE S == {n \in 0 .. N : h[n] \in I[n]}
<1>1. 0 \in S
  BY <1>0
<1>2. ASSUME NEW n \in 0 .. N - 1, n \in S PROVE n + 1 \in S
  BY <1>0, <1>2
<1>3. N \in S
  <2> HIDE DEF S
  <2>1. 0 .. N \subseteq S
    BY <1>0, <1>1, <1>2, IntervalInduction
  <2> QED
    BY <1>0, <2>1
<1> QED
  BY <1>3

-----------------------------------------------------------------------------
(* Places of blocks                                                        *)
(*                                                                         *)
(* A place is an inode with a number: below ND a direct block, ND the      *)
(* indirect block, above ND a pointer in it.  Lemmas about pass 3 need     *)
(* only know which block is in which place: A[u] is the one in u, or 0.    *)

Places == Inodes \X (0 .. ND + NIND)
Inner(u) == u[2] > ND
Root2(u) == <<u[1], ND>>
Numbers == DataBlocks \cup {0}

LEMMA Constants ==
  /\ ND \in Nat /\ ND > 0 /\ NIND \in Nat /\ NIND > 0 /\ 0 \notin DataBlocks
  /\ DataBlocks \subseteq Blocks /\ DataBlocks \subseteq Nat /\ Blocks \subseteq Nat /\ 0 \in Blocks
  /\ ISize \in Nat /\ FSize \in Nat /\ ISize < FSize /\ Inodes \subseteq Nat
  /\ IsFiniteSet(DataBlocks) /\ IsFiniteSet(Places)
<1>1. /\ ND \in Nat /\ ND > 0 /\ NIND \in Nat /\ NIND > 0 /\ ISize \in Nat /\ FSize \in Nat
      /\ ISize > 2 /\ ISize < FSize /\ NI \in Nat
  BY FsckAssumption
<1>2. /\ 0 \notin DataBlocks /\ DataBlocks \subseteq Blocks /\ DataBlocks \subseteq Nat
      /\ Blocks \subseteq Nat /\ 0 \in Blocks /\ Inodes \subseteq Nat
  BY <1>1 DEF DataBlocks, Blocks, Inodes, Root
<1>3. IsFiniteSet(DataBlocks)
  BY <1>1, FS_Interval DEF DataBlocks
<1>4. IsFiniteSet(Places)
  <2>1. IsFiniteSet(Inodes) /\ IsFiniteSet(0 .. ND + NIND)
    BY <1>1, FS_Interval DEF Inodes, Root
  <2> QED
    BY <2>1, FS_Product DEF Places
<1> QED
  BY <1>1, <1>2, <1>3, <1>4

LEMMA BlockSize == BS \in Nat /\ BS > 0
<1>1. PER \in Nat /\ PER > 0 /\ EW \in Nat /\ EW > 0
  BY FsckAssumption
<1>2. ENTRY \in Nat /\ ENTRY > 0
  BY <1>1 DEF ENTRY
<1> HIDE DEF PER
<1> QED
  BY <1>1, <1>2 DEF BS

\* Places of P that have the same block are pointers in indirect blocks, and
\* r; if the block has no mark that is so of all the places it is in.
Sharing(A, marks, P, r) ==
  \A v \in P, u \in Places :
    u # v /\ A[u] = A[v] /\ A[v] # 0 /\ (u \in P \/ A[v] \notin marks)
      => r /\ Inner(u) /\ Inner(v)
\* No indirect block is in another place.
Exclusive(A) ==
  \A u, v \in Places : u # v /\ u[2] = ND /\ A[u] = A[v] => A[v] = 0
\* What is in two places is in indirect blocks there.
Separate(A) ==
  \A u, v \in Places : u # v /\ A[u] = A[v] /\ A[v] # 0 => Inner(u) /\ Inner(v)
\* Nothing is in two places.
Distinct(A) == \A u, v \in Places : u # v /\ A[u] = A[v] => A[v] = 0
Met(A, marks, P) == \A d \in DataBlocks : d \in marks => \E v \in P : A[v] = d
Cover(A, F) == \A d \in DataBlocks : d \in F \/ \E v \in Places : A[v] = d
Apart(A, F) == \A v \in Places : A[v] \notin F
Taking(A) == {u \in Places : A[u] # 0}

\* Where a change of place u shows: in the same indirect block.
Same(A, u) ==
  {v \in Places : v = u \/ (Inner(u) /\ v[2] = u[2] /\ A[v] # 0 /\ A[Root2(v)] = A[Root2(u)])}
\* Block x has come to place u, and to the places where that shows.
Moved(A, A2, u, x) ==
  /\ A2 \in [Places -> Numbers]
  /\ \A v \in Places : v \in Same(A, u) => A2[v] = x /\ A[v] = A[u]
  /\ \A v \in Places : v \notin Same(A, u) => A2[v] = A[v]
\* The places looked at so far: an indirect block comes first.
Ordered(P, u) ==
  /\ P \subseteq Places /\ u \in Places \ P
  /\ \A v \in P \cup {u} : Inner(v) => Root2(v) \in P

\* A block that is met first is marked.
LEMMA MarkFirst ==
  ASSUME NEW A, NEW marks, NEW P, NEW r, NEW u, Ordered(P, u),
         Sharing(A, marks, P, r), Met(A, marks, P), A[u] \notin marks \/ A[u] = 0
  PROVE  LET m2 == marks \cup {A[u]} IN Sharing(A, m2, P \cup {u}, r) /\ Met(A, m2, P \cup {u})
<1> DEFINE m2 == marks \cup {A[u]}
<1>1. Met(A, m2, P \cup {u})
  BY DEF Met
<1>2. ASSUME NEW v \in P \cup {u}, NEW w \in Places, w # v, A[w] = A[v], A[v] # 0,
             w \in P \cup {u} \/ A[v] \notin m2
      PROVE  r /\ Inner(w) /\ Inner(v)
  <2>1. CASE v = u
    <3>1. w \in P /\ A[w] \notin marks
      BY <1>2, <2>1
    <3> QED
      BY <1>2, <2>1, <3>1 DEF Sharing, Ordered
  <2>2. CASE v # u /\ w = u
    BY <1>2, <2>2 DEF Sharing, Ordered
  <2>3. CASE v # u /\ w # u
    BY <1>2, <2>3 DEF Sharing, Ordered
  <2> QED
    BY <2>1, <2>2, <2>3
<1>3. Sharing(A, m2, P \cup {u}, r)
  <2> HIDE DEF m2
  <2> QED
    BY <1>2 DEF Sharing
<1> QED
  BY <1>1, <1>3

LEMMA RootsDiffer ==
  ASSUME NEW A, NEW marks, NEW P, NEW r, NEW u, Ordered(P, u), Sharing(A, marks, P, r),
         A[u] # 0, \A v \in Places : Inner(v) /\ A[v] # 0 => A[Root2(v)] # 0
  PROVE  Same(A, u) \cap P = {}
<1> SUFFICES ASSUME NEW v \in P, v \in Same(A, u) PROVE FALSE
  OBVIOUS
<1>1. v # u /\ Inner(u) /\ v[2] = u[2] /\ A[v] # 0 /\ A[Root2(v)] = A[Root2(u)] /\ Inner(v)
  BY DEF Same, Ordered, Inner
<1>2. Root2(v) \in P /\ Root2(u) \in P /\ P \subseteq Places
  BY <1>1 DEF Ordered
<1>3. Root2(u) # Root2(v)
  <2>1. u \in Places /\ v \in Places
    BY DEF Ordered
  <2> QED
    BY <1>1, <2>1 DEF Root2, Places
<1>4. A[Root2(u)] # 0
  BY <1>1 DEF Ordered
<1>5. Inner(Root2(u))
  BY <1>1, <1>2, <1>3, <1>4 DEF Sharing
<1> QED
  BY <1>5, Constants DEF Inner, Root2

(* A block that was met before is replaced by a free one.                  *)
LEMMA MovedKeeps ==
  ASSUME NEW A \in [Places -> Numbers], NEW A2, NEW marks, NEW P, NEW r, NEW u, Ordered(P, u),
         NEW F, NEW x \in F \cap DataBlocks, Apart(A, F), Moved(A, A2, u, x),
         Sharing(A, marks, P, r), Met(A, marks, P), r \/ Exclusive(A),
         A[u] \in marks \cap DataBlocks,
         \A v \in Places : Inner(v) /\ A[v] # 0 => A[Root2(v)] # 0
  PROVE  /\ Sharing(A2, marks, P \cup {u}, r) /\ Met(A2, marks, P \cup {u})
         /\ Apart(A2, F \ {x})
         /\ Cover(A, F) => Cover(A2, F \ {x})
         /\ Exclusive(A) => Exclusive(A2)
         /\ Exclusive(A) /\ Separate(A) => Separate(A2)
         /\ Taking(A2) = Taking(A)
<1>1. u \in Places /\ P \subseteq Places /\ u \in Same(A, u) /\ Same(A, u) \subseteq Places
  BY DEF Ordered, Same
<1>2. A[u] # 0 /\ x # 0 /\ x \in DataBlocks
  BY Constants
<1>3. Same(A, u) \cap P = {}
  BY <1>2, RootsDiffer
<1>4. \A v \in Places : A2[v] = x <=> v \in Same(A, u)
  BY DEF Moved, Apart
<1>5. \A v \in Same(A, u) : v # u => Inner(v) /\ Inner(u)
  BY DEF Same, Inner
<1>6. ASSUME Exclusive(A) PROVE Same(A, u) = {u}
  <2>1. ASSUME NEW v \in Same(A, u), v # u PROVE FALSE
    <3>1. /\ Inner(v) /\ Inner(u) /\ v[2] = u[2] /\ A[Root2(v)] = A[Root2(u)] /\ v \in Places /\ A[v] # 0
      BY <2>1, <1>1, <1>5 DEF Same
    <3>2. Root2(u) \in Places /\ Root2(v) \in Places /\ Root2(u) # Root2(v) /\ Root2(u)[2] = ND
      BY <2>1, <3>1, <1>1, Constants DEF Places, Root2
    <3>3. A[Root2(v)] # 0
      BY <3>1
    <3> QED
      BY <1>6, <3>1, <3>2, <3>3 DEF Exclusive
  <2> QED
    BY <2>1, <1>1
<1>7. Sharing(A2, marks, P \cup {u}, r)
  <2> SUFFICES ASSUME NEW v \in P \cup {u}, NEW w \in Places, w # v, A2[w] = A2[v], A2[v] # 0,
                      w \in P \cup {u} \/ A2[v] \notin marks
               PROVE  r /\ Inner(w) /\ Inner(v)
    BY DEF Sharing
  <2>1. CASE v \in Same(A, u)
    <3>1. w \in Same(A, u)
      BY <1>1, <1>4, <2>1
    <3>2. r
      BY <1>6, <2>1, <3>1
    <3> QED
      BY <1>5, <2>1, <3>1, <3>2
  <2>2. CASE v \notin Same(A, u)
    <3>1. w \notin Same(A, u) /\ v \in P /\ v \in Places
      BY <1>1, <1>4, <2>2
    <3>2. A[w] = A[v] /\ A2[v] = A[v] /\ w # u
      BY <1>1, <2>2, <3>1 DEF Moved
    <3> QED
      BY <3>1, <3>2 DEF Sharing
  <2> QED
    BY <2>1, <2>2
<1>8. Met(A2, marks, P \cup {u})
  <2>1. \A v \in P : A2[v] = A[v]
    BY <1>1, <1>3 DEF Moved
  <2> QED
    BY <2>1 DEF Met
<1>9. Apart(A2, F \ {x})
  BY <1>4 DEF Apart, Moved
<1>10. ASSUME Cover(A, F) PROVE Cover(A2, F \ {x})
  <2> SUFFICES ASSUME NEW d \in DataBlocks, d \notin F \ {x} PROVE \E v \in Places : A2[v] = d
    BY DEF Cover
  <2>1. CASE d = x
    BY <1>1, <1>4, <2>1
  <2>2. CASE d = A[u]
    <3>1. PICK v \in P : A[v] = d
      BY <2>2 DEF Met
    <3> QED
      BY <1>1, <1>3, <3>1 DEF Moved
  <2>3. CASE d # x /\ d # A[u]
    <3>1. PICK v \in Places : A[v] = d
      BY <1>10, <2>3 DEF Cover
    <3>2. v \notin Same(A, u)
      BY <2>3, <3>1 DEF Moved
    <3> QED
      BY <3>1, <3>2 DEF Moved
  <2> QED
    BY <2>1, <2>2, <2>3
<1>11. ASSUME Exclusive(A) PROVE Exclusive(A2) /\ (Separate(A) => Separate(A2))
  <2>1. \A v \in Places : IF v = u THEN A2[v] = x ELSE A2[v] = A[v] /\ A2[v] # x
    BY <1>1, <1>4, <1>6, <1>11 DEF Moved
  <2>2. ASSUME NEW v \in Places, NEW w \in Places, v # w, A2[v] = A2[w] PROVE A[v] = A[w] /\ A2[v] = A[v]
    BY <2>1, <2>2
  <2>3. Exclusive(A2)
    BY <2>2, <1>11 DEF Exclusive
  <2>4. Separate(A) => Separate(A2)
    BY <2>2 DEF Separate
  <2> QED
    BY <2>3, <2>4
<1>12. Taking(A2) = Taking(A)
  BY <1>1, <1>2 DEF Taking, Moved
<1> QED
  BY <1>7, <1>8, <1>9, <1>10, <1>11, <1>12

(* With no more places taken than there are blocks, there is a free one as *)
(* long as some block is in two places.                                    *)
LEMMA OneIsFree ==
  ASSUME NEW A \in [Places -> Numbers], NEW marks, NEW P, NEW u, Ordered(P, u), NEW F,
         Cover(A, F), Met(A, marks, P), A[u] \in marks \cap DataBlocks,
         Cardinality(Taking(A)) <= Cardinality(DataBlocks)
  PROVE  F # {}
<1> SUFFICES ASSUME F = {} PROVE FALSE
  OBVIOUS
<1> DEFINE T == Taking(A) \ {u}
           h == [v \in T |-> A[v]]
<1>1. IsFiniteSet(Taking(A)) /\ IsFiniteSet(T) /\ u \in Taking(A) /\ IsFiniteSet(DataBlocks)
  <2>1. Taking(A) \subseteq Places /\ u \in Taking(A)
    BY Constants DEF Taking, Ordered
  <2> QED
    BY <2>1, Constants, FS_Subset
<1>2. Cardinality(T) = Cardinality(Taking(A)) - 1
  BY <1>1, FS_RemoveElement
<1>3. \A d \in DataBlocks : \E v \in T : A[v] = d
  <2> TAKE d \in DataBlocks
  <2>1. CASE d = A[u]
    <3>1. PICK v \in P : A[v] = d
      BY <2>1 DEF Met
    <3> QED
      BY <3>1, Constants DEF Ordered, Taking
  <2>2. CASE d # A[u]
    <3>1. PICK v \in Places : A[v] = d
      BY DEF Cover
    <3> QED
      BY <2>2, <3>1, Constants DEF Taking
  <2> QED
    BY <2>1, <2>2
<1>4. h \in Surjection(T, DataBlocks)
  <2>1. h \in [T -> DataBlocks]
    BY DEF Taking, Numbers
  <2> QED
    BY <2>1, <1>3 DEF Surjection
<1>5. Cardinality(DataBlocks) <= Cardinality(T)
  <2> HIDE DEF T, h
  <2> QED
    BY <1>1, <1>4, FS_Surjection
<1>6. Cardinality(T) \in Nat /\ Cardinality(Taking(A)) \in Nat /\ Cardinality(DataBlocks) \in Nat
  BY <1>1, FS_CardinalityType
<1> QED
  BY <1>2, <1>5, <1>6

LEMMA AllApart ==
  ASSUME NEW A, NEW marks, NEW r, Sharing(A, marks, Places, r)
  PROVE  Separate(A) /\ (~r => Distinct(A))
BY DEF Sharing, Separate, Distinct

LEMMA SeparateExclusive ==
  ASSUME NEW A, Separate(A)
  PROVE  Exclusive(A)
BY Constants DEF Separate, Exclusive, Inner

(* Where blocks are taken away from places, the others stay apart.         *)
Less(A, A2) == \A u \in Places : A2[u] = A[u] \/ A2[u] = 0
LEMMA LessApart ==
  ASSUME NEW A, NEW A2, Less(A, A2), NEW F, 0 \notin F
  PROVE  /\ Apart(A, F) => Apart(A2, F)
         /\ Separate(A) => Separate(A2)
         /\ Distinct(A) => Distinct(A2)
BY DEF Less, Apart, Separate, Distinct

-----------------------------------------------------------------------------
(* The free list                                                           *)
(*                                                                         *)
(* The numbers of a list fall; behind its first one, which is a block with *)
(* the rest of the list or 0, nothing is left out.                         *)

Above(S, b) == {x \in S : x > b}
\* List l has the blocks F, as far as its first one, and K leads on.
Tidy(l, F, K) ==
  /\ l \in Seq(Nat) /\ Len(l) >= 1 /\ l[1] \in K \cup {0}
  /\ \A i \in 2 .. Len(l) : l[i] \in F
  /\ \A i, j \in 1 .. Len(l) : i < j /\ l[i] # 0 => l[i] > l[j]
  /\ \A x \in F : (\E i \in 1 .. Len(l) : l[i] = x) \/ (l[1] # 0 /\ x > l[1])
\* The free blocks are F; those of K have a part of the list in them.
Listing(f, F, K) ==
  /\ F \subseteq DataBlocks /\ K \subseteq F
  /\ Tidy(f.free, F, K)
  /\ \A b \in K : Tidy(ListOf(f.disk[b]), Above(F, b), Above(K, b))

LEMMA TidyFront ==
  ASSUME NEW F \in SUBSET DataBlocks, NEW K \in SUBSET F, NEW l, Tidy(l, F, K), Len(l) > 1
  PROVE  /\ Last(l) \in F /\ \A y \in F : y >= Last(l)
         /\ Front(l) # <<>> /\ Tidy(Front(l), F \ {Last(l)}, K \ {Last(l)})
<1> DEFINE n == Len(l)
           x == Last(l)
           r == Front(l)
<1>1. l \in Seq(Nat) /\ n \in Nat /\ n > 1 /\ x = l[n]
  BY DEF Tidy, Last
<1>2. r \in Seq(Nat) /\ Len(r) = n - 1 /\ \A i \in 1 .. n - 1 : r[i] = l[i]
  <2>1. r = SubSeq(l, 1, n - 1)
    BY DEF Front
  <2>2. n - 1 \in Int /\ \A i \in 1 .. n - 1 : l[i] \in Nat
    BY <1>1
  <2> HIDE DEF r
  <2>3. /\ r \in Seq(Nat)
        /\ Len(r) = IF 1 <= n - 1 THEN n - 1 - 1 + 1 ELSE 0
        /\ \A i \in 1 .. n - 1 - 1 + 1 : r[i] = l[1 + i - 1]
    BY <2>1, <2>2, SubSeqProperties
  <2> HIDE DEF n
  <2>4. \A i \in 1 .. n - 1 : i \in 1 .. n - 1 - 1 + 1 /\ 1 + i - 1 = i
    BY <1>1
  <2> QED
    BY <1>1, <2>3, <2>4
<1>3. x \in F /\ F \subseteq Nat /\ K \subseteq Nat /\ 0 \notin F
  BY <1>1, Constants DEF Tidy
<1>4. \A i \in 1 .. n - 1 : l[i] # 0 => l[i] > x
  BY <1>1 DEF Tidy
<1>5. \A y \in F : y >= x
  <2> TAKE y \in F
  <2>1. CASE \E i \in 1 .. n : l[i] = y
    <3>1. PICK i \in 1 .. n : l[i] = y
      BY <2>1
    <3>2. CASE i = n
      BY <1>1, <1>3, <3>1, <3>2
    <3>3. CASE i # n
      BY <1>1, <1>3, <1>4, <3>1, <3>3
    <3> QED
      BY <3>2, <3>3
  <2>2. CASE l[1] # 0 /\ y > l[1]
    <3>1. l[1] > x /\ l[1] \in Nat /\ x \in Nat /\ y \in Nat
      BY <1>1, <1>3, <1>4, <2>2
    <3> HIDE DEF x
    <3> QED
      BY <2>2, <3>1
  <2> QED
    BY <2>1, <2>2 DEF Tidy
<1>6. Tidy(r, F \ {x}, K \ {x})
  <2>1. Len(r) >= 1 /\ r[1] = l[1]
    BY <1>1, <1>2
  <2>2. r[1] \in (K \ {x}) \cup {0}
    BY <1>1, <1>3, <1>4, <2>1 DEF Tidy
  <2>3. \A i \in 2 .. Len(r) : r[i] \in F \ {x}
    <3> TAKE i \in 2 .. Len(r)
    <3>1. i \in 2 .. n - 1 /\ r[i] = l[i] /\ l[i] \in F
      BY <1>1, <1>2 DEF Tidy
    <3> QED
      BY <1>1, <1>3, <1>4, <3>1
  <2>4. \A i, j \in 1 .. Len(r) : i < j /\ r[i] # 0 => r[i] > r[j]
    <3>1. \A i, j \in 1 .. n : i < j /\ l[i] # 0 => l[i] > l[j]
      BY DEF Tidy
    <3>2. SUFFICES ASSUME NEW i \in 1 .. Len(r), NEW j \in 1 .. Len(r), i < j, r[i] # 0
                   PROVE  r[i] > r[j]
      OBVIOUS
    <3>3. i \in 1 .. n - 1 /\ j \in 1 .. n - 1
      BY <1>2
    <3>4. r[i] = l[i] /\ r[j] = l[j]
      BY <1>2, <3>3
    <3>5. i \in 1 .. n /\ j \in 1 .. n
      BY <1>1, <3>3
    <3> HIDE DEF r, n, x
    <3> QED
      BY <3>1, <3>2, <3>4, <3>5
  <2>5. ASSUME NEW y \in F \ {x}
        PROVE  (\E i \in 1 .. Len(r) : r[i] = y) \/ (r[1] # 0 /\ y > r[1])
    <3>1. CASE \E i \in 1 .. n : l[i] = y
      <4>1. PICK i \in 1 .. n : l[i] = y
        BY <3>1
      <4>2. i \in 1 .. n - 1
        BY <1>1, <4>1
      <4> QED
        BY <1>2, <4>1, <4>2
    <3>2. CASE l[1] # 0 /\ y > l[1]
      BY <2>1, <3>2
    <3> QED
      BY <3>1, <3>2 DEF Tidy
  <2> HIDE DEF r, x, n
  <2> QED
    BY <1>2, <2>1, <2>2, <2>3, <2>4, <2>5 DEF Tidy
<1>7. r # <<>>
  BY <1>1, <1>2
<1> QED
  BY <1>3, <1>5, <1>6, <1>7

LEMMA TidyOne ==
  ASSUME NEW F \in SUBSET DataBlocks, NEW K \in SUBSET F, NEW l, Tidy(l, F, K), Len(l) = 1
  PROVE  /\ Last(l) = l[1] /\ Front(l) = <<>>
         /\ l[1] = 0 <=> F = {}
         /\ l[1] # 0 => /\ l[1] \in K /\ F \ {l[1]} = Above(F, l[1]) /\ K \ {l[1]} = Above(K, l[1])
                        /\ \A y \in F : y >= l[1]
<1>1. l \in Seq(Nat) /\ Last(l) = l[1] /\ l[1] \in K \cup {0}
  BY DEF Tidy, Last
<1>2. Front(l) = <<>>
  <2>1. Front(l) = SubSeq(l, 1, 0)
    BY DEF Front
  <2> QED
    BY <1>1, <2>1, SubSeqEmpty
<1>3. F \subseteq Nat /\ K \subseteq Nat /\ 0 \notin F
  BY Constants
<1>4. \A y \in F : l[1] = y \/ (l[1] # 0 /\ y > l[1])
  BY DEF Tidy
<1>5. l[1] = 0 <=> F = {}
  <2>1. l[1] = 0 => F = {}
    BY <1>3, <1>4
  <2> QED
    BY <1>1, <1>3, <2>1
<1>6. ASSUME l[1] # 0
      PROVE  /\ l[1] \in K /\ F \ {l[1]} = Above(F, l[1]) /\ K \ {l[1]} = Above(K, l[1])
             /\ \A y \in F : y >= l[1]
  <2>1. l[1] \in K
    BY <1>1, <1>6
  <2> DEFINE a == l[1]
  <2>2. a \in Nat /\ \A y \in F : y \in Nat /\ (y = a \/ y > a)
    BY <1>3, <1>4, <2>1
  <2> HIDE DEF a
  <2>3. \A y \in F : y >= a
    BY <2>2
  <2>4. F \ {a} = Above(F, a) /\ K \ {a} = Above(K, a)
    BY <2>2 DEF Above
  <2> QED
    BY <2>1, <2>3, <2>4 DEF a
<1> QED
  BY <1>1, <1>2, <1>5, <1>6

LEMMA TidySame ==
  ASSUME NEW F \in SUBSET DataBlocks, NEW K \in SUBSET F, NEW b \in K, NEW x \in F \ {b},
         \A y \in F : y >= x
  PROVE  Above(F \ {x}, b) = Above(F, b) /\ Above(K \ {x}, b) = Above(K, b)
<1>1. x < b
  BY Constants
<1> QED
  BY <1>1, Constants DEF Above

\* The block that blk_alloc takes is the least one, and the list goes on.
LEMMA ListTaken ==
  ASSUME NEW f, NEW F, NEW K, Listing(f, F, K), F # {}
  PROVE  LET x == NewBlk(f)
             rest == Front(f.free)
             free == IF rest = <<>> THEN ListOf(f.disk[x]) ELSE rest
         IN /\ x \in F /\ \A y \in F : y >= x
            /\ Tidy(free, F \ {x}, K \ {x})
            /\ \A b \in K \ {x} : Tidy(ListOf(f.disk[b]), Above(F \ {x}, b), Above(K \ {x}, b))
<1> DEFINE x == NewBlk(f)
           rest == Front(f.free)
           free == IF rest = <<>> THEN ListOf(f.disk[x]) ELSE rest
<1>1. F \in SUBSET DataBlocks /\ K \in SUBSET F /\ Tidy(f.free, F, K) /\ x = Last(f.free)
  BY DEF Listing, NewBlk
<1>2. x \in F /\ (\A y \in F : y >= x) /\ Tidy(free, F \ {x}, K \ {x})
  <2>1. CASE Len(f.free) > 1
    <3>1. /\ Last(f.free) \in F /\ \A y \in F : y >= Last(f.free)
          /\ rest # <<>> /\ Tidy(rest, F \ {Last(f.free)}, K \ {Last(f.free)})
      BY <1>1, <2>1, TidyFront
    <3> QED
      BY <1>1, <3>1
  <2>2. CASE Len(f.free) = 1
    <3>1. /\ x = f.free[1] /\ rest = <<>> /\ x # 0 /\ x \in K /\ \A y \in F : y >= x
          /\ F \ {x} = Above(F, x) /\ K \ {x} = Above(K, x)
      BY <1>1, <2>2, TidyOne
    <3>2. free = ListOf(f.disk[x]) /\ Tidy(ListOf(f.disk[x]), Above(F, x), Above(K, x))
      BY <3>1 DEF Listing
    <3> QED
      BY <1>1, <3>1, <3>2
  <2>3. Len(f.free) > 1 \/ Len(f.free) = 1
    <3> DEFINE n == Len(f.free)
    <3>1. n \in Nat /\ n >= 1
      BY <1>1 DEF Tidy
    <3> HIDE DEF n
    <3>2. n > 1 \/ n = 1
      BY <3>1
    <3> QED
      BY <3>2 DEF n
  <2> HIDE DEF x, free
  <2> QED
    BY <2>1, <2>2, <2>3
<1>3. \A b \in K \ {x} : Tidy(ListOf(f.disk[b]), Above(F \ {x}, b), Above(K \ {x}, b))
  <2> HIDE DEF x
  <2> TAKE b \in K \ {x}
  <2>1. Above(F \ {x}, b) = Above(F, b) /\ Above(K \ {x}, b) = Above(K, b)
    BY <1>1, <1>2, TidySame
  <2> QED
    BY <2>1 DEF Listing
<1> QED
  BY <1>2, <1>3

LEMMA NothingFree ==
  ASSUME NEW f, NEW F, NEW K, Listing(f, F, K)
  PROVE  NewBlk(f) = 0 <=> F = {}
<1>1. F \in SUBSET DataBlocks /\ K \in SUBSET F /\ Tidy(f.free, F, K) /\ NewBlk(f) = Last(f.free)
  BY DEF Listing, NewBlk
<1>2. Len(f.free) \in Nat /\ Len(f.free) >= 1
  BY <1>1 DEF Tidy
<1>3. CASE Len(f.free) > 1
  BY <1>1, <1>3, TidyFront, Constants
<1>4. CASE Len(f.free) = 1
  BY <1>1, <1>4, TidyOne
<1>5. Len(f.free) > 1 \/ Len(f.free) = 1
  <2> DEFINE n == Len(f.free)
  <2>1. n \in Nat /\ n >= 1
    BY <1>2
  <2> HIDE DEF n
  <2>2. n > 1 \/ n = 1
    BY <2>1
  <2> QED
    BY <2>2 DEF n
<1> QED
  BY <1>3, <1>4, <1>5

LEMMA TidyAppend ==
  ASSUME NEW F \in SUBSET DataBlocks, NEW K \in SUBSET F, NEW l, Tidy(l, F, K),
         NEW b \in DataBlocks, \A x \in F : x > b
  PROVE  Tidy(Append(l, b), F \cup {b}, K) /\ Tidy(<<b>>, F \cup {b}, K \cup {b})
<1> DEFINE m == Append(l, b)
           n == Len(l)
<1>1. l \in Seq(Nat) /\ n \in Nat /\ n >= 1 /\ b \in Nat /\ b # 0 /\ F \subseteq Nat
  BY Constants DEF Tidy
<1>2. /\ m \in Seq(Nat) /\ Len(m) = n + 1 /\ (\A i \in 1 .. n : m[i] = l[i]) /\ m[n + 1] = b
  BY <1>1, AppendProperties
<1>3. \A i \in 1 .. n : l[i] # 0 => l[i] > b
  <2> TAKE i \in 1 .. n
  <2>1. l[i] \in F \cup {0}
    BY DEF Tidy
  <2> QED
    BY <2>1
<1>4. /\ l[1] \in K \cup {0} /\ \A i \in 2 .. n : l[i] \in F
      /\ \A i, j \in 1 .. n : i < j /\ l[i] # 0 => l[i] > l[j]
      /\ \A x \in F : (\E i \in 1 .. n : l[i] = x) \/ (l[1] # 0 /\ x > l[1])
  BY DEF Tidy
<1>5. Tidy(m, F \cup {b}, K)
  <2> HIDE DEF m, n
  <2>1. Len(m) >= 1 /\ m[1] = l[1] /\ m[1] \in K \cup {0}
    BY <1>1, <1>2, <1>4
  <2>2. \A i \in 2 .. Len(m) : m[i] \in F \cup {b}
    <3> TAKE i \in 2 .. Len(m)
    <3>1. CASE i = n + 1
      BY <1>2, <3>1
    <3>2. CASE i # n + 1
      <4>1. i \in 2 .. n /\ i \in 1 .. n
        BY <1>1, <1>2, <3>2
      <4> QED
        BY <1>2, <1>4, <4>1
    <3> QED
      BY <3>1, <3>2
  <2>3. \A i, j \in 1 .. Len(m) : i < j /\ m[i] # 0 => m[i] > m[j]
    <3> SUFFICES ASSUME NEW i \in 1 .. n + 1, NEW j \in 1 .. n + 1, i < j, m[i] # 0
                 PROVE  m[i] > m[j]
      BY <1>2
    <3>1. i \in 1 .. n /\ m[i] = l[i]
      BY <1>1, <1>2
    <3>2. CASE j = n + 1
      BY <1>2, <1>3, <3>1, <3>2
    <3>3. CASE j # n + 1
      <4>1. j \in 1 .. n /\ m[j] = l[j]
        BY <1>1, <1>2, <3>3
      <4> QED
        BY <1>4, <3>1, <4>1
    <3> QED
      BY <3>2, <3>3
  <2>4. \A x \in F \cup {b} : (\E i \in 1 .. Len(m) : m[i] = x) \/ (m[1] # 0 /\ x > m[1])
    <3>1. \E i \in 1 .. Len(m) : m[i] = b
      <4>1. n + 1 \in 1 .. Len(m)
        BY <1>1, <1>2
      <4> QED
        BY <1>2, <4>1
    <3>2. ASSUME NEW x \in F, NEW i \in 1 .. n, l[i] = x PROVE \E k \in 1 .. Len(m) : m[k] = x
      <4>1. i \in 1 .. Len(m)
        BY <1>1, <1>2
      <4> QED
        BY <1>2, <3>2, <4>1
    <3> QED
      BY <1>4, <2>1, <3>1, <3>2
  <2> QED
    BY <1>2, <2>1, <2>2, <2>3, <2>4 DEF Tidy
<1>6. Tidy(<<b>>, F \cup {b}, K \cup {b})
  <2>1. <<b>> \in Seq(Nat) /\ Len(<<b>>) = 1 /\ <<b>>[1] = b
    BY <1>1
  <2> DEFINE s == <<b>>
  <2>2. \A i, j \in 1 .. Len(s) : ~(i < j)
    BY <2>1
  <2>3. 1 \in 1 .. Len(s) /\ 2 .. Len(s) = {}
    BY <2>1
  <2> HIDE DEF s
  <2>4. s \in Seq(Nat) /\ Len(s) >= 1 /\ s[1] = b
    BY <2>1 DEF s
  <2>5. Tidy(s, F \cup {b}, K \cup {b})
    BY <1>1, <2>2, <2>3, <2>4 DEF Tidy
  <2> QED
    BY <2>5 DEF s
<1> QED
  BY <1>5, <1>6

LEMMA TidyConcat ==
  ASSUME NEW F \in SUBSET DataBlocks, NEW K \in SUBSET F, NEW l, Tidy(l, F, K), l[1] # 0,
         NEW m, Tidy(m, Above(F, l[1]), Above(K, l[1]))
  PROVE  LET c == m \o l IN Tidy(c, F, K) /\ (c[1] = 0 \/ c[1] > l[1])
<1> DEFINE c == m \o l
           n == Len(l)
           o == Len(m)
           b == l[1]
<1>1. /\ l \in Seq(Nat) /\ n \in Nat /\ n >= 1 /\ b \in K /\ b # 0 /\ F \subseteq Nat /\ b \in Nat
      /\ \A i \in 2 .. n : l[i] \in F
      /\ \A i, j \in 1 .. n : i < j /\ l[i] # 0 => l[i] > l[j]
      /\ \A x \in F : (\E i \in 1 .. n : l[i] = x) \/ x > b
      /\ \A i \in 1 .. n : l[i] \in Nat
  BY Constants DEF Tidy
<1>2. /\ m \in Seq(Nat) /\ o \in Nat /\ o >= 1 /\ m[1] \in Above(K, b) \cup {0}
      /\ \A i \in 2 .. o : m[i] \in Above(F, b)
      /\ \A i, j \in 1 .. o : i < j /\ m[i] # 0 => m[i] > m[j]
      /\ \A x \in Above(F, b) : (\E i \in 1 .. o : m[i] = x) \/ (m[1] # 0 /\ x > m[1])
      /\ \A i \in 1 .. o : m[i] \in Nat
  BY DEF Tidy
<1>3. /\ c \in Seq(Nat) /\ Len(c) = o + n /\ (\A i \in 1 .. o : c[i] = m[i])
      /\ \A i \in 1 .. n : c[o + i] = l[i]
  <2>1. /\ c \in Seq(Nat) /\ Len(c) = o + n
        /\ \A i \in 1 .. Len(m) + Len(l) : c[i] = IF i <= Len(m) THEN m[i] ELSE l[i - Len(m)]
    BY <1>1, <1>2, ConcatProperties
  <2> HIDE DEF c
  <2>2. \A i \in 1 .. o : i \in 1 .. o + n /\ i <= o
    BY <1>1, <1>2
  <2>3. \A i \in 1 .. n : o + i \in 1 .. o + n /\ ~(o + i <= o) /\ (o + i) - o = i
    BY <1>1, <1>2
  <2> HIDE DEF o, n
  <2>4. \A i \in 1 .. o + n : c[i] = IF i <= o THEN m[i] ELSE l[i - o]
    BY <2>1 DEF o, n
  <2> QED
    BY <2>1, <2>2, <2>3, <2>4
<1> HIDE DEF c, o, n, b
<1>4. ASSUME NEW i \in 1 .. o + n
      PROVE  (i \in 1 .. o /\ c[i] = m[i]) \/ \E k \in 1 .. n : i = o + k /\ c[i] = l[k]
  <2>1. CASE i <= o
    BY <1>2, <1>3, <2>1
  <2>2. CASE i > o
    <3>1. i - o \in 1 .. n /\ i = o + (i - o)
      BY <1>1, <1>2, <2>2
    <3> QED
      BY <1>3, <3>1
  <2> QED
    BY <1>1, <1>2, <2>1, <2>2
<1>5. Len(c) >= 1 /\ c[1] = m[1] /\ c[1] \in K \cup {0} /\ (c[1] = 0 \/ c[1] > b)
  BY <1>1, <1>2, <1>3 DEF Above
<1>6. \A k \in 1 .. n : l[k] \in F /\ l[k] <= b
  <2> TAKE k \in 1 .. n
  <2>1. CASE k = 1
    BY <1>1, <2>1 DEF b
  <2>2. CASE k # 1
    <3>1. 1 \in 1 .. n /\ 1 < k /\ k \in 2 .. n
      BY <1>1, <2>2
    <3>2. l[k] \in F /\ b > l[k]
      BY <1>1, <3>1 DEF b
    <3> QED
      BY <1>1, <3>2
  <2> QED
    BY <2>1, <2>2
<1>7. \A i \in 1 .. o : m[i] # 0 => m[i] > b /\ m[i] \in F
  <2> TAKE i \in 1 .. o
  <2>1. CASE i = 1
    BY <1>2, <2>1 DEF Above
  <2>2. CASE i # 1
    <3>1. i \in 2 .. o
      BY <1>2, <2>2
    <3> QED
      BY <1>2, <3>1 DEF Above
  <2> QED
    BY <2>1, <2>2
<1>8. \A i \in 2 .. Len(c) : c[i] \in F
  <2> SUFFICES ASSUME NEW i \in 2 .. o + n PROVE c[i] \in F
    BY <1>3
  <2>1. i \in 1 .. o + n
    BY <1>1, <1>2
  <2>2. CASE i \in 1 .. o /\ c[i] = m[i]
    <3>1. i \in 2 .. o
      BY <1>2, <2>2
    <3> QED
      BY <1>2, <2>2, <3>1 DEF Above
  <2> QED
    BY <1>4, <1>6, <2>1, <2>2
<1>9. \A i, j \in 1 .. Len(c) : i < j /\ c[i] # 0 => c[i] > c[j]
  <2> SUFFICES ASSUME NEW i \in 1 .. o + n, NEW j \in 1 .. o + n, i < j, c[i] # 0 PROVE c[i] > c[j]
    BY <1>3
  <2>1. CASE i \in 1 .. o /\ c[i] = m[i]
    <3>1. CASE j \in 1 .. o /\ c[j] = m[j]
      BY <1>2, <2>1, <3>1
    <3>2. ASSUME NEW k \in 1 .. n, c[j] = l[k] PROVE c[i] > c[j]
      <4>1. m[i] > b /\ l[k] <= b /\ m[i] \in Nat /\ l[k] \in Nat
        BY <1>1, <1>2, <1>6, <1>7, <2>1
      <4> QED
        BY <1>1, <2>1, <3>2, <4>1
    <3> QED
      BY <1>4, <3>1, <3>2
  <2>2. ASSUME NEW k \in 1 .. n, i = o + k, c[i] = l[k] PROVE c[i] > c[j]
    <3>1. ~(j \in 1 .. o)
      BY <1>1, <1>2, <2>2
    <3>2. PICK h \in 1 .. n : j = o + h /\ c[j] = l[h]
      BY <1>4, <3>1
    <3>3. k < h
      BY <1>2, <2>2, <3>2
    <3> QED
      BY <1>1, <2>2, <3>2, <3>3
  <2> QED
    BY <1>4, <2>1, <2>2
<1>10. \A x \in F : (\E i \in 1 .. Len(c) : c[i] = x) \/ (c[1] # 0 /\ x > c[1])
  <2> SUFFICES ASSUME NEW x \in F
               PROVE  (\E i \in 1 .. o + n : c[i] = x) \/ (c[1] # 0 /\ x > c[1])
    BY <1>3
  <2>1. ASSUME NEW i \in 1 .. n, l[i] = x PROVE \E k \in 1 .. o + n : c[k] = x
    <3>1. o + i \in 1 .. o + n /\ c[o + i] = x
      BY <1>1, <1>2, <1>3, <2>1
    <3> QED
      BY <3>1
  <2>2. ASSUME NEW i \in 1 .. o, m[i] = x PROVE \E k \in 1 .. o + n : c[k] = x
    <3>1. c[i] = x
      BY <1>3, <2>2
    <3>2. i \in 1 .. o + n
      BY <1>1, <1>2
    <3> QED
      BY <3>1, <3>2
  <2>3. CASE x > b
    BY <1>2, <1>5, <2>2, <2>3 DEF Above
  <2> QED
    BY <1>1, <2>1, <2>3
<1>11. Tidy(c, F, K)
  BY <1>3, <1>5, <1>8, <1>9, <1>10 DEF Tidy
<1> QED
  BY <1>5, <1>11 DEF b, c

\* The list that the free list amounts to.
LEMMA ListRead ==
  ASSUME NEW f, NEW F, NEW K, Listing(f, F, K)
  PROVE  Tidy(Listed(f), F, K) /\ Listed(f)[1] = 0
<1> DEFINE N == FSize - ISize + 1
           St == Seq(Nat)
           On(l) == IF l[1] = 0 THEN l ELSE ListOf(f.disk[l[1]]) \o l
           I == [k \in 0 .. N |-> {l \in St : Tidy(l, F, K) /\ (l[1] = 0 \/ l[1] >= ISize + k)}]
           T == [k \in 0 .. N - 1 |-> [l \in St |-> On(l)]]
           Eq(g) == g = [k \in 0 .. N |-> IF k = 0 THEN f.free ELSE On(g[k - 1])]
           h == CHOOSE g : Eq(g)
<1>1. N \in Nat /\ N - 1 = FSize - ISize /\ ISize \in Nat /\ FSize \in Nat /\ N \in 0 .. N
  BY Constants
<1>2. Listed(f) = h[N]
  <2>1. Listed(f) = h[FSize - ISize + 1]
    BY DEF Listed, Steps
  <2> QED
    BY <2>1
<1>3. f.free \in I[0]
  <2>1. Tidy(f.free, F, K) /\ f.free[1] \in K \cup {0} /\ f.free \in St /\ K \subseteq DataBlocks
    BY DEF Listing, Tidy
  <2>2. f.free[1] = 0 \/ f.free[1] >= ISize + 0
    <3> DEFINE a == f.free[1]
    <3>1. a = 0 \/ a \in DataBlocks
      BY <2>1
    <3> HIDE DEF a
    <3>2. a = 0 \/ a >= ISize + 0
      BY <1>1, <3>1 DEF DataBlocks
    <3> QED
      BY <3>2 DEF a
  <2> QED
    BY <1>1, <2>1, <2>2
<1>4. ASSUME NEW k \in 0 .. N - 1, NEW l \in I[k] PROVE On(l) \in I[k + 1]
  <2>1. k \in 0 .. N /\ k + 1 \in 0 .. N /\ k \in Nat
    BY <1>1
  <2>2. Tidy(l, F, K) /\ l \in St /\ (l[1] = 0 \/ l[1] >= ISize + k)
    BY <2>1
  <2>3. F \in SUBSET DataBlocks /\ K \in SUBSET F
    BY DEF Listing
  <2>4. CASE l[1] = 0
    BY <2>1, <2>2, <2>4
  <2>5. CASE l[1] # 0
    <3> DEFINE c == ListOf(f.disk[l[1]]) \o l
    <3>1. l[1] \in K /\ l[1] \in Nat
      BY <2>2, <2>3, <2>5, Constants DEF Tidy
    <3>2. Tidy(ListOf(f.disk[l[1]]), Above(F, l[1]), Above(K, l[1]))
      BY <3>1 DEF Listing
    <3>3. Tidy(c, F, K) /\ (c[1] = 0 \/ c[1] > l[1])
      BY <2>2, <2>3, <2>5, <3>2, TidyConcat
    <3>4. On(l) = c
      BY <2>5
    <3> HIDE DEF c, On
    <3>5. c \in St /\ (c[1] # 0 => c[1] \in K) /\ K \subseteq Nat
      BY <2>3, <3>3, Constants DEF Tidy
    <3>6. c[1] = 0 \/ c[1] >= ISize + (k + 1)
      <4> DEFINE a == l[1]
                 b == c[1]
      <4>1. a \in Nat /\ a >= ISize + k /\ (b = 0 \/ (b \in Nat /\ b > a))
        BY <2>2, <2>5, <3>1, <3>3, <3>5
      <4> HIDE DEF a, b
      <4>2. b = 0 \/ b >= ISize + (k + 1)
        BY <1>1, <2>1, <4>1
      <4> QED
        BY <4>2 DEF b
    <3> QED
      BY <2>1, <3>3, <3>4, <3>5, <3>6
  <2> QED
    BY <2>4, <2>5
<1>5. \A k \in 0 .. N - 1 : \A l \in I[k] : l \in St /\ T[k][l] = On(l) /\ T[k][l] \in I[k + 1]
  <2> TAKE k \in 0 .. N - 1
  <2> TAKE l \in I[k]
  <2>1. l \in St
    BY <1>1
  <2>2. T[k][l] = On(l)
    BY <2>1
  <2> HIDE DEF I, On, T
  <2> QED
    BY <1>4, <2>1, <2>2
<1>6. I \in [0 .. N -> SUBSET St]
  OBVIOUS
<1>7. PICK g : Solves(N, St, I, f.free, T, g)
  <2> HIDE DEF I, T, N, St, On
  <2>1. Leads(N, St, I, f.free, T)
    BY <1>1, <1>3, <1>5, <1>6 DEF Leads
  <2> QED
    BY <2>1, RecursionSolved
<1>8. Eq(g)
  <2> HIDE DEF I, T, On
  <2>1. \A k \in 0 .. N : g[k] = IF k = 0 THEN f.free ELSE On(g[k - 1])
    <3> TAKE k \in 0 .. N
    <3>1. CASE k = 0
      BY <1>7, <3>1 DEF Solves
    <3>2. CASE k # 0
      <4>1. k - 1 \in 0 .. N - 1 /\ k - 1 \in 0 .. N /\ (k - 1) + 1 = k
        BY <1>1, <3>2
      <4> HIDE DEF N
      <4>2. g[(k - 1) + 1] = T[k - 1][g[k - 1]] /\ g[k - 1] \in I[k - 1]
        BY <1>7, <4>1 DEF Solves
      <4>3. T[k - 1][g[k - 1]] = On(g[k - 1])
        BY <1>5, <4>1, <4>2
      <4> QED
        BY <3>2, <4>1, <4>2, <4>3
    <3> QED
      BY <3>1, <3>2
  <2> QED
    BY <1>7, <2>1 DEF Solves
<1>9. Eq(h)
  <2> HIDE DEF Eq
  <2> QED
    BY <1>8
<1>10. h[0] = f.free /\ \A k \in 0 .. N - 1 : h[k + 1] = On(h[k])
  <2> HIDE DEF h, On
  <2>1. \A k \in 0 .. N : h[k] = IF k = 0 THEN f.free ELSE On(h[k - 1])
    BY <1>9
  <2>2. 0 \in 0 .. N
    BY <1>1
  <2>3. ASSUME NEW k \in 0 .. N - 1 PROVE h[k + 1] = On(h[k])
    <3>1. k + 1 \in 0 .. N /\ k + 1 # 0 /\ (k + 1) - 1 = k
      BY <1>1
    <3>2. h[k + 1] = IF k + 1 = 0 THEN f.free ELSE On(h[(k + 1) - 1])
      BY <2>1, <3>1
    <3> QED
      BY <3>1, <3>2
  <2> QED
    BY <2>1, <2>2, <2>3
<1>11. h[N] \in I[N]
  <2> HIDE DEF h, On, I, Eq, N
  <2>1. \A k \in 0 .. N - 1 : h[k] \in I[k] => h[k + 1] \in I[k + 1]
    BY <1>4, <1>10
  <2>2. h[0] \in I[0]
    BY <1>3, <1>10
  <2>3. Along(N, h, I)
    BY <1>1, <2>1, <2>2 DEF Along
  <2> QED
    BY <2>3, AlongSteps
<1>12. Tidy(h[N], F, K) /\ (h[N][1] = 0 \/ h[N][1] >= ISize + N) /\ h[N][1] \in K \cup {0}
  <2> HIDE DEF h, On, Eq
  <2> QED
    BY <1>1, <1>11 DEF Tidy
<1>13. \A x \in K : x < ISize + N
  <2>1. K \subseteq DataBlocks
    BY DEF Listing
  <2> QED
    BY <1>1, <2>1 DEF DataBlocks
<1> HIDE DEF h, N
<1>14. h[N][1] = 0
  <2> DEFINE a == h[N][1]
  <2>1. /\ N \in Nat /\ ISize \in Nat /\ K \subseteq Nat
        /\ a = 0 \/ a >= ISize + N
        /\ a \in K \cup {0}
    BY <1>1, <1>12, Constants DEF Listing
  <2> HIDE DEF a
  <2>2. a = 0
    BY <1>13, <2>1
  <2> QED
    BY <2>2 DEF a
<1> QED
  BY <1>2, <1>12, <1>14

\* A list that is read to its end has each of the free blocks once.
LEMMA ListComplete ==
  ASSUME NEW F \in SUBSET DataBlocks, NEW K \in SUBSET F, NEW l, Tidy(l, F, K), l[1] = 0
  PROVE  {Tail(l)[k] : k \in 1 .. Len(Tail(l))} = F /\ Len(Tail(l)) = Cardinality(F)
<1> DEFINE t == Tail(l)
           n == Len(t)
           h == [k \in 1 .. n |-> t[k]]
<1>1. l \in Seq(Nat) /\ Len(l) \in Nat /\ Len(l) >= 1 /\ l # <<>>
  BY DEF Tidy
<1>2. t \in Seq(Nat) /\ n = Len(l) - 1 /\ n \in Nat /\ \A k \in 1 .. n : t[k] = l[k + 1]
  <2>1. t \in Seq(Nat) /\ n = Len(l) - 1 /\ \A k \in 1 .. n : t[k] = l[k + 1]
    BY <1>1, HeadTailProperties
  <2> QED
    BY <1>1, <2>1
<1> HIDE DEF t, n
<1>3. \A k \in 1 .. n : k + 1 \in 2 .. Len(l) /\ k + 1 \in 1 .. Len(l) /\ t[k] \in F
  <2> TAKE k \in 1 .. n
  <2>1. k + 1 \in 2 .. Len(l) /\ k + 1 \in 1 .. Len(l)
    BY <1>1, <1>2
  <2> QED
    BY <1>2, <2>1 DEF Tidy
<1>4. \A x \in F : \E k \in 1 .. n : t[k] = x
  <2> TAKE x \in F
  <2>1. PICK i \in 1 .. Len(l) : l[i] = x
    BY DEF Tidy
  <2>2. i # 1
    BY <2>1, Constants
  <2>3. i - 1 \in 1 .. n /\ (i - 1) + 1 = i
    BY <1>1, <1>2, <2>2
  <2>4. t[i - 1] = l[(i - 1) + 1]
    BY <1>2, <2>3
  <2> QED
    BY <2>1, <2>3, <2>4
<1>5. ASSUME NEW j \in 1 .. n, NEW k \in 1 .. n, j < k PROVE t[j] # t[k]
  <2>1. l[j + 1] # 0 /\ j + 1 < k + 1
    <3>1. t[j] \in F /\ t[j] = l[j + 1] /\ 0 \notin F
      BY <1>2, <1>3, Constants
    <3> QED
      BY <1>2, <1>5, <3>1
  <2>2. l[j + 1] > l[k + 1] /\ l[j + 1] \in Nat /\ l[k + 1] \in Nat
    BY <1>1, <1>3, <2>1 DEF Tidy
  <2>3. t[j] > t[k] /\ t[j] \in Nat /\ t[k] \in Nat
    BY <1>2, <2>2
  <2> QED
    BY <2>3
<1>6. \A j, k \in 1 .. n : j # k => t[j] # t[k]
  <2> SUFFICES ASSUME NEW j \in 1 .. n, NEW k \in 1 .. n, j # k PROVE t[j] # t[k]
    OBVIOUS
  <2>1. j < k \/ k < j
    BY <1>2
  <2> QED
    BY <1>5, <2>1
<1>7. h \in Bijection(1 .. n, F)
  <2>1. h \in [1 .. n -> F] /\ \A k \in 1 .. n : h[k] = t[k]
    BY <1>3
  <2> HIDE DEF h
  <2>2. h \in Injection(1 .. n, F)
    <3>1. \A j, k \in 1 .. n : h[j] = h[k] => j = k
      BY <1>6, <2>1
    <3> QED
      BY <2>1, <3>1 DEF Injection, IsInjective
  <2>3. h \in Surjection(1 .. n, F)
    BY <1>4, <2>1 DEF Surjection
  <2> QED
    BY <2>2, <2>3 DEF Bijection
<1>8. Cardinality(F) = n
  <2>1. IsFiniteSet(1 .. n) /\ Cardinality(1 .. n) = n
    <3>1. 1 \in Int /\ n \in Int /\ (1 > n => n = 0) /\ n - 1 + 1 = n
      BY <1>2
    <3>2. IsFiniteSet(1 .. n) /\ Cardinality(1 .. n) = IF 1 > n THEN 0 ELSE n - 1 + 1
      BY <3>1, FS_Interval
    <3> QED
      BY <3>1, <3>2
  <2>2. ExistsBijection(1 .. n, F)
    BY <1>7 DEF ExistsBijection
  <2> QED
    BY <2>1, <2>2, FS_Bijection
<1>9. {t[k] : k \in 1 .. n} = F
  BY <1>3, <1>4
<1> QED
  BY <1>8, <1>9 DEF t, n

-----------------------------------------------------------------------------
(* The blocks of a disk                                                    *)

\* The strings, among them (which the provers do not know) those of fsck.
Strings ==
  STRING \cup {"none", "stray", "directory", "linkmap", "mode", "size", "pointer", "block", "inodes", "twice", "length", "slash", "dot", "dotdot", "inode",
              "links", "useless", "detached"}
EntryType == [ino : Nat, name : NameType]
FsType ==
  [inode : [Inodes -> InodeType], disk : [Blocks -> BlockType], tinode : Int, tfree : Int,
   free : Seq(Nat), bitmap : SUBSET Nat, linkmap : [0 .. NL - 1 -> Int],
   asked : SUBSET Strings, panic : Strings]

\* What is in place u, and whether it belongs to the file.
Val(f, u) ==
  LET addr == f.inode[u[1]].addr
  IN IF u[2] <= ND THEN addr[u[2]]
     ELSE IF addr[Single] = 0 THEN 0 ELSE f.disk[addr[Single]][u[2] - (ND + 1)]
InFile(f, u) ==
  /\ HasBlocks(f, u[1])
  /\ u[2] < ND => u[2] <= Size(f, u[1])
  /\ u[2] > ND => u[2] <= Size(f, u[1]) + 1
At(f) == [u \in Places |-> IF InFile(f, u) THEN Val(f, u) ELSE 0]

\* Inode n as pass 1 leaves it, except for the values of its places.
Trim(f, n) ==
  HasBlocks(f, n) =>
    /\ f.inode[n].offset \in 0 .. BS - 1
    /\ f.inode[n].addr[Double] = 0
    /\ f.inode[n].addr[Single] # 0 => Size(f, n) >= ND
Fine(f, n) == Trim(f, n) /\ \A u \in Places : u[1] = n => At(f)[u] \in Numbers
AllFine(f) == (\A n \in Inodes : Trim(f, n)) /\ At(f) \in [Places -> Numbers]
\* Double indirect blocks that pass 1 takes away.
Shallow(f, n) ==
  HasBlocks(f, n) => ~(f.inode[n].addr[Double] \in DataBlocks /\ Ends(f.inode[n]) >= ND)

\* The places in which there is something, in a file or behind its end.
Filled(f) ==
  {u \in Places : /\ HasBlocks(f, u[1]) /\ Val(f, u) # 0
                  /\ Inner(u) => f.inode[u[1]].addr[Single] \in DataBlocks}
\* There are enough blocks for everything.
Roomy(d) == Cardinality(Filled(d)) <= Cardinality(DataBlocks)

\* The places where regular files of disk w have text, and that f has it there.
TextPlaces(w) ==
  {u \in Places : /\ Mode(w, u[1]) = "reg" /\ u[2] # ND /\ At(w)[u] \in DataBlocks \ Indirect(w)
                  /\ Inner(u) => At(w)[Root2(u)] \in DataBlocks}
KeptAt(f, w, u) ==
  Mode(f, u[1]) = "reg" =>
    /\ At(f)[u] \in DataBlocks \ Indirect(f)
    /\ Inner(u) => At(f)[Root2(u)] \in DataBlocks
    /\ f.disk[At(f)[u]] = w.disk[At(w)[u]]

LEMMA PlaceFacts ==
  /\ \A u \in Places : u[1] \in Inodes /\ u[2] \in 0 .. ND + NIND /\ u = <<u[1], u[2]>>
  /\ \A u, v \in Places : u[1] = v[1] /\ u[2] = v[2] => u = v
  /\ \A n \in Inodes, k \in 0 .. ND + NIND : <<n, k>> \in Places
  /\ \A u \in Places : Root2(u) \in Places /\ Root2(u)[1] = u[1] /\ Root2(u)[2] = ND /\ ~Inner(Root2(u))
  /\ Single \in 0 .. Double /\ Double \in 0 .. Double /\ Single = ND /\ Double = ND + 1
<1>1. \A u \in Places : u[1] \in Inodes /\ u[2] \in 0 .. ND + NIND /\ u = <<u[1], u[2]>>
  BY DEF Places
<1>2. \A n \in Inodes, k \in 0 .. ND + NIND : <<n, k>> \in Places
  BY DEF Places
<1>3. \A u, v \in Places : u[1] = v[1] /\ u[2] = v[2] => u = v
  BY <1>1
<1>4. Single \in 0 .. Double /\ Double \in 0 .. Double /\ Single = ND /\ Double = ND + 1
  BY Constants DEF Single, Double
<1>5. \A u \in Places : Root2(u) \in Places /\ Root2(u)[1] = u[1] /\ Root2(u)[2] = ND /\ ~Inner(Root2(u))
  <2>1. ND \in 0 .. ND + NIND
    BY Constants
  <2> QED
    BY <1>1, <1>2, <2>1, Constants DEF Root2, Inner
<1> QED
  BY <1>1, <1>2, <1>3, <1>4, <1>5

(* The types of what is in a state.                                        *)
LEMMA StateFacts ==
  ASSUME NEW f \in FsType
  PROVE  /\ f.inode \in [Inodes -> InodeType] /\ f.disk \in [Blocks -> BlockType] /\ f.free \in Seq(Nat)
         /\ f.bitmap \in SUBSET Nat /\ f.tfree \in Int /\ f.tinode \in Int
         /\ \A n \in Inodes : /\ f.inode[n] \in InodeType /\ f.inode[n].addr \in [0 .. Double -> Nat]
                              /\ f.inode[n].blkno \in Nat /\ f.inode[n].offset \in Int
                              /\ f.inode[n].mode \in Modes
                              /\ \A k \in 0 .. Double : f.inode[n].addr[k] \in Nat
         /\ \A b \in Blocks : /\ f.disk[b] \in BlockType /\ f.disk[b] \in [0 .. NIND - 1 -> Nat]
                              /\ \A k \in 0 .. NIND - 1 : f.disk[b][k] \in Nat
<1>1. /\ f.inode \in [Inodes -> InodeType] /\ f.disk \in [Blocks -> BlockType] /\ f.free \in Seq(Nat)
      /\ f.bitmap \in SUBSET Nat /\ f.tfree \in Int /\ f.tinode \in Int
  BY DEF FsType
<1>2. \A n \in Inodes : f.inode[n] \in InodeType
  BY <1>1
<1>3. \A b \in Blocks : f.disk[b] \in BlockType
  BY <1>1
<1>4. \A i \in InodeType : /\ i.addr \in [0 .. Double -> Nat] /\ i.blkno \in Nat /\ i.offset \in Int
                           /\ i.mode \in Modes
  BY DEF InodeType
<1>5. \A c \in BlockType : c \in [0 .. NIND - 1 -> Nat]
  BY DEF BlockType
<1> QED
  BY <1>1, <1>2, <1>3, <1>4, <1>5

(* The values in the places of a state that pass 1 is done with.           *)
LEMMA FineFacts ==
  ASSUME NEW f \in FsType, AllFine(f)
  PROVE  /\ \A u \in Places : At(f)[u] \in Numbers
         /\ \A u \in Places : At(f)[u] # 0 => InFile(f, u) /\ At(f)[u] = Val(f, u)
         /\ \A u \in Places : InFile(f, u) => At(f)[u] = Val(f, u)
         /\ \A u \in Places : HasBlocks(f, u[1]) => At(f)[Root2(u)] = f.inode[u[1]].addr[Single]
         /\ \A u \in Places : Inner(u) /\ At(f)[u] # 0 => At(f)[Root2(u)] # 0
         /\ Taking(At(f)) \subseteq Filled(f)
<1>1. \A u \in Places : At(f)[u] \in Numbers
  BY DEF AllFine
<1>2. \A u \in Places : At(f)[u] = IF InFile(f, u) THEN Val(f, u) ELSE 0
  BY DEF At
<1>3. ASSUME NEW u \in Places, HasBlocks(f, u[1]) PROVE At(f)[Root2(u)] = f.inode[u[1]].addr[Single]
  <2>1. InFile(f, Root2(u)) /\ Val(f, Root2(u)) = f.inode[u[1]].addr[Single]
    BY <1>3, PlaceFacts, Constants DEF InFile, Val
  <2> QED
    BY <1>2, <2>1, PlaceFacts
<1>4. ASSUME NEW u \in Places, At(f)[u] # 0
      PROVE  /\ HasBlocks(f, u[1]) /\ Val(f, u) # 0 /\ At(f)[u] = Val(f, u)
             /\ Inner(u) => At(f)[Root2(u)] # 0 /\ f.inode[u[1]].addr[Single] \in DataBlocks
  <2>1. HasBlocks(f, u[1]) /\ Val(f, u) # 0 /\ At(f)[u] = Val(f, u)
    BY <1>2, <1>4 DEF InFile
  <2>2. ASSUME Inner(u) PROVE f.inode[u[1]].addr[Single] # 0
    <3>1. ~(u[2] <= ND)
      BY <2>2, PlaceFacts, Constants DEF Inner
    <3> QED
      BY <2>1, <3>1 DEF Val
  <2>3. Root2(u) \in Places
    BY PlaceFacts
  <2> QED
    BY <1>1, <1>3, <2>1, <2>2, <2>3 DEF Numbers
<1>5. Taking(At(f)) \subseteq Filled(f)
  BY <1>4 DEF Taking, Filled
<1> QED
  BY <1>1, <1>2, <1>3, <1>4, <1>5

-----------------------------------------------------------------------------
(* Single changes of a state                                               *)

\* Inodes, apart from their block numbers and links; and there is no panic.
Heads(f, g) ==
  /\ g.panic = f.panic
  /\ \A n \in Inodes : /\ g.inode[n].mode = f.inode[n].mode /\ g.inode[n].blkno = f.inode[n].blkno
                       /\ g.inode[n].offset = f.inode[n].offset
\* What the properties need of the disk and the maps.
SameFree(f, g) == g.free = f.free /\ g.tfree = f.tfree
PutAddr(f, n, k, b) == [f EXCEPT !.inode[n].addr[k] = b]
PutPtr(f, c, k, b) == [f EXCEPT !.disk[c][k] = b]

HasAddr(f, g, n, k, b) ==
  /\ g \in FsType /\ g.disk = f.disk /\ SameFree(f, g) /\ g.bitmap = f.bitmap
  /\ \A m \in Inodes : m # n => g.inode[m] = f.inode[m]
  /\ Heads(f, g)
  /\ \A m \in Inodes, j \in 0 .. Double :
       g.inode[m].addr[j] = IF m = n /\ j = k THEN b ELSE f.inode[m].addr[j]
HasPtr(f, g, c, k, b) ==
  /\ g \in FsType /\ g.inode = f.inode /\ SameFree(f, g) /\ g.bitmap = f.bitmap /\ g.panic = f.panic
  /\ \A d \in Blocks : d # c => g.disk[d] = f.disk[d]
  /\ \A d \in Blocks, j \in 0 .. NIND - 1 :
       g.disk[d][j] = IF d = c /\ j = k THEN b ELSE f.disk[d][j]

LEMMA AddrPut ==
  ASSUME NEW f \in FsType, NEW n \in Inodes, NEW k \in 0 .. Double, NEW b \in Nat
  PROVE  HasAddr(f, PutAddr(f, n, k, b), n, k, b)
<1> DEFINE i == [f.inode[n] EXCEPT !.addr[k] = b]
           inode == [f.inode EXCEPT ![n] = i]
           g == PutAddr(f, n, k, b)
<1>1. f.inode[n] \in InodeType /\ f.inode \in [Inodes -> InodeType] /\ f.inode[n].addr \in [0 .. Double -> Nat]
  BY StateFacts
<1>2. /\ i \in InodeType /\ i.mode = f.inode[n].mode /\ i.blkno = f.inode[n].blkno
      /\ i.offset = f.inode[n].offset /\ i.addr = [f.inode[n].addr EXCEPT ![k] = b]
  BY <1>1 DEF InodeType
<1> HIDE DEF i
<1>3. inode \in [Inodes -> InodeType] /\ inode[n] = i /\ \A m \in Inodes : m # n => inode[m] = f.inode[m]
  BY <1>1, <1>2
<1>4. g = [f EXCEPT !.inode = inode]
  BY DEF PutAddr, i
<1> HIDE DEF inode, g
<1>5. /\ g \in FsType /\ g.inode = inode /\ g.disk = f.disk /\ g.free = f.free /\ g.tfree = f.tfree
      /\ g.bitmap = f.bitmap /\ g.panic = f.panic
  BY <1>3, <1>4 DEF FsType
<1>6. Heads(f, g)
  BY <1>2, <1>3, <1>5 DEF Heads
<1>7. \A m \in Inodes, j \in 0 .. Double :
        g.inode[m].addr[j] = IF m = n /\ j = k THEN b ELSE f.inode[m].addr[j]
  BY <1>1, <1>2, <1>3, <1>5
<1> QED
  BY <1>3, <1>5, <1>6, <1>7 DEF SameFree, HasAddr, g

LEMMA PtrPut ==
  ASSUME NEW f \in FsType, NEW c \in Blocks, NEW k \in 0 .. NIND - 1, NEW b \in Nat
  PROVE  HasPtr(f, PutPtr(f, c, k, b), c, k, b)
<1> DEFINE i == [f.disk[c] EXCEPT ![k] = b]
           disk == [f.disk EXCEPT ![c] = i]
           g == PutPtr(f, c, k, b)
<1>1. f.disk[c] \in BlockType /\ f.disk \in [Blocks -> BlockType]
  BY StateFacts
<1>2. i \in BlockType /\ \A j \in 0 .. NIND - 1 : i[j] = IF j = k THEN b ELSE f.disk[c][j]
  BY <1>1 DEF BlockType
<1> HIDE DEF i
<1>3. disk \in [Blocks -> BlockType] /\ disk[c] = i /\ \A m \in Blocks : m # c => disk[m] = f.disk[m]
  BY <1>1, <1>2
<1>4. g = [f EXCEPT !.disk = disk]
  BY DEF PutPtr, i
<1> HIDE DEF disk, g
<1>5. /\ g \in FsType /\ g.disk = disk /\ g.inode = f.inode /\ g.free = f.free /\ g.tfree = f.tfree
      /\ g.bitmap = f.bitmap /\ g.panic = f.panic
  BY <1>3, <1>4 DEF FsType
<1>6. \A d \in Blocks : d # c => g.disk[d] = f.disk[d]
  BY <1>3, <1>5
<1>7. \A d \in Blocks, j \in 0 .. NIND - 1 :
        g.disk[d][j] = IF d = c /\ j = k THEN b ELSE f.disk[d][j]
  BY <1>1, <1>2, <1>3, <1>5
<1> QED
  BY <1>5, <1>6, <1>7 DEF SameFree, HasPtr, g

\* Asking and marking change neither inodes nor blocks.
SameDisk(f, g) ==
  g.inode = f.inode /\ g.disk = f.disk /\ SameFree(f, g) /\ g.panic = f.panic
LEMMA AskedSame ==
  ASSUME NEW f \in FsType, NEW question \in Strings
  PROVE  LET g == Ask(f, question) IN g \in FsType /\ SameDisk(f, g) /\ g.bitmap = f.bitmap
BY DEF Ask, FsType, SameDisk, SameFree

LEMMA MarkedSame ==
  ASSUME NEW f \in FsType, NEW b \in Nat
  PROVE  LET g == Mark(f, b)
         IN g \in FsType /\ SameDisk(f, g) /\ g.bitmap = IF b = 0 THEN f.bitmap ELSE f.bitmap \cup {b}
<1>1. CASE b = 0
  BY <1>1 DEF Mark, SameDisk, SameFree
<1>2. CASE b # 0
  <2>1. Mark(f, b) = [f EXCEPT !.bitmap = f.bitmap \cup {b}] /\ f.bitmap \cup {b} \in SUBSET Nat
    BY <1>2 DEF Mark, FsType
  <2> QED
    BY <1>2, <2>1 DEF FsType, SameDisk, SameFree
<1> QED
  BY <1>1, <1>2

\* What is in the places depends on nothing else.
LEMMA AtSame ==
  ASSUME NEW f, NEW g, g.inode = f.inode, g.disk = f.disk
  PROVE  /\ At(g) = At(f) /\ Filled(g) = Filled(f)
         /\ \A n \in Inodes : (Fine(g, n) <=> Fine(f, n)) /\ (Shallow(g, n) <=> Shallow(f, n))
         /\ AllFine(g) <=> AllFine(f)
         /\ \A w : \A u \in Places : KeptAt(g, w, u) <=> KeptAt(f, w, u)
<1>1. \A u \in Places : /\ Val(g, u) = Val(f, u)
                        /\ InFile(g, u) <=> InFile(f, u)
                        /\ HasBlocks(g, u[1]) <=> HasBlocks(f, u[1])
  BY DEF Val, InFile, HasBlocks, Mode, Size
<1>2. At(g) = At(f) /\ Filled(g) = Filled(f)
  <2>1. \A u \in Places : (IF InFile(g, u) THEN Val(g, u) ELSE 0) = IF InFile(f, u) THEN Val(f, u) ELSE 0
    BY <1>1
  <2>2. At(g) = At(f)
    BY <2>1 DEF At
  <2>3. Filled(g) = Filled(f)
    BY <1>1 DEF Filled
  <2> QED
    BY <2>2, <2>3
<1>3. \A n : /\ Trim(g, n) <=> Trim(f, n)
             /\ Shallow(g, n) <=> Shallow(f, n)
  BY DEF Trim, Shallow, HasBlocks, Mode, Size
<1>4. Indirect(g) = Indirect(f)
  BY DEF Indirect, HasBlocks, Mode
<1> QED
  BY <1>2, <1>3, <1>4 DEF Fine, AllFine, KeptAt, Mode

-----------------------------------------------------------------------------
(* Pass 3: one place                                                       *)

\* A block is taken and has a copy of block b; it is in no place yet.
LEMMA CopyMade ==
  ASSUME NEW f \in FsType, NEW F, NEW K, Listing(f, F, K), F # {}, NEW b \in DataBlocks
  PROVE  LET g == Copied(f, b)
             x == NewBlk(f)
         IN /\ x \in F /\ x \in DataBlocks
            /\ g \in FsType /\ g.inode = f.inode /\ g.bitmap = f.bitmap /\ g.tfree = f.tfree - 1
            /\ g.panic = f.panic
            /\ \A d \in Blocks : g.disk[d] = IF d = x THEN f.disk[b] ELSE f.disk[d]
            /\ Listing(g, F \ {x}, K \ {x})
<1> DEFINE x == NewBlk(f)
           rest == Front(f.free)
           free == IF rest = <<>> THEN ListOf(f.disk[x]) ELSE rest
           g == Copied(f, b)
<1>1. /\ x \in F /\ Tidy(free, F \ {x}, K \ {x})
      /\ \A d \in K \ {x} : Tidy(ListOf(f.disk[d]), Above(F \ {x}, d), Above(K \ {x}, d))
  BY ListTaken
<1>2. F \subseteq DataBlocks /\ K \subseteq F
  BY DEF Listing
<1>3. free \in Seq(Nat)
  BY <1>1 DEF Tidy
<1>4. g = [f EXCEPT !.free = free, !.tfree = f.tfree - 1, !.disk = [f.disk EXCEPT ![x] = f.disk[b]]]
  BY DEF Copied, Taken
<1>5. /\ [f.disk EXCEPT ![x] = f.disk[b]] \in [Blocks -> BlockType]
      /\ \A d \in Blocks : [f.disk EXCEPT ![x] = f.disk[b]][d] = IF d = x THEN f.disk[b] ELSE f.disk[d]
  BY <1>1, <1>2, StateFacts, Constants
<1>6. f.tfree - 1 \in Int
  BY StateFacts
<1> HIDE DEF x, rest, free, g
<1>7. /\ g \in FsType /\ g.inode = f.inode /\ g.bitmap = f.bitmap /\ g.tfree = f.tfree - 1
      /\ g.free = free /\ g.disk = [f.disk EXCEPT ![x] = f.disk[b]] /\ g.panic = f.panic
  BY <1>3, <1>4, <1>5, <1>6 DEF FsType
<1>8. \A d \in Blocks : g.disk[d] = IF d = x THEN f.disk[b] ELSE f.disk[d]
  BY <1>5, <1>7
<1>9. Listing(g, F \ {x}, K \ {x})
  <2>1. \A d \in K \ {x} : ListOf(g.disk[d]) = ListOf(f.disk[d])
    BY <1>2, <1>8, Constants
  <2> QED
    BY <1>1, <1>2, <1>7, <2>1 DEF Listing
<1> QED
  BY <1>1, <1>2, <1>7, <1>8, <1>9 DEF x, g

\* Place u of f has block x in g, which has what was in that place before.
Replaced(f, g, u, x) ==
  /\ g \in FsType /\ Heads(f, g) /\ x \in DataBlocks
  /\ \A m \in Inodes, j \in 0 .. Double :
       g.inode[m].addr[j] = IF <<m, j>> = u /\ j <= ND THEN x ELSE f.inode[m].addr[j]
  /\ g.disk[x] = f.disk[At(f)[u]]
  /\ \A d \in Blocks \ {x} : (Inner(u) /\ d = At(f)[Root2(u)]) \/ g.disk[d] = f.disk[d]
  /\ \A d \in Blocks, j \in 0 .. NIND - 1 :
       g.disk[d][j] =
         CASE d = x                                                         -> f.disk[At(f)[u]][j]
           [] d # x /\ Inner(u) /\ d = At(f)[Root2(u)] /\ j = u[2] - (ND + 1) -> x
           [] OTHER                                                         -> f.disk[d][j]

LEMMA InnerFacts ==
  ASSUME NEW f \in FsType, AllFine(f), NEW u \in Places, Inner(u)
  PROVE  /\ ~(u[2] <= ND) /\ u[2] - (ND + 1) \in 0 .. NIND - 1 /\ u[2] > ND
         /\ \A v \in Places : u[2] - (ND + 1) = v[2] - (ND + 1) => u[2] = v[2]
         /\ HasBlocks(f, u[1]) =>
              /\ At(f)[Root2(u)] = f.inode[u[1]].addr[Single]
              /\ At(f)[Root2(u)] = 0 => Val(f, u) = 0
              /\ At(f)[Root2(u)] # 0 => /\ At(f)[Root2(u)] \in DataBlocks
                                        /\ Val(f, u) = f.disk[At(f)[Root2(u)]][u[2] - (ND + 1)]
<1>1. u[2] \in Nat /\ u[2] > ND /\ u[2] <= ND + NIND /\ ND \in Nat /\ NIND \in Nat
  BY PlaceFacts, Constants DEF Inner
<1>2. ~(u[2] <= ND) /\ u[2] - (ND + 1) \in 0 .. NIND - 1
  BY <1>1
<1>3. \A v \in Places : u[2] - (ND + 1) = v[2] - (ND + 1) => u[2] = v[2]
  <2> TAKE v \in Places
  <2>1. v[2] \in Nat
    BY PlaceFacts, Constants
  <2> QED
    BY <1>1, <2>1
<1>4. ASSUME HasBlocks(f, u[1])
      PROVE  /\ At(f)[Root2(u)] = f.inode[u[1]].addr[Single]
             /\ At(f)[Root2(u)] = 0 => Val(f, u) = 0
             /\ At(f)[Root2(u)] # 0 => /\ At(f)[Root2(u)] \in DataBlocks
                                       /\ Val(f, u) = f.disk[At(f)[Root2(u)]][u[2] - (ND + 1)]
  <2>1. At(f)[Root2(u)] = f.inode[u[1]].addr[Single]
    BY <1>4, FineFacts
  <2>2. At(f)[Root2(u)] \in Numbers
    BY FineFacts, PlaceFacts
  <2> QED
    BY <1>2, <2>1, <2>2 DEF Val, Numbers
<1> QED
  BY <1>1, <1>2, <1>3, <1>4

\* Then At(g) is At(f) with x moved to u, and all that was kept is.
LEMMA ReplacedMoves ==
  ASSUME NEW f \in FsType, NEW g, NEW u \in Places, NEW x, NEW F, AllFine(f), Replaced(f, g, u, x),
         At(f)[u] \in DataBlocks, Apart(At(f), F), x \in F
  PROVE  /\ AllFine(g) /\ Moved(At(f), At(g), u, x) /\ Filled(g) \subseteq Filled(f)
         /\ \A w : \A v \in Places : v[2] # ND /\ KeptAt(f, w, v) => KeptAt(g, w, v)
<1> DEFINE A == At(f)
           B == At(g)
           b == A[u]
           r == A[Root2(u)]
<1>1. /\ g \in FsType /\ Heads(f, g) /\ x \in DataBlocks /\ x # 0 /\ InFile(f, u) /\ HasBlocks(f, u[1])
      /\ Inner(u) => r # 0
  <2>1. x \in DataBlocks /\ x # 0 /\ b # 0
    BY Constants DEF Replaced
  <2> QED
    BY <2>1, FineFacts DEF Replaced, InFile
<1>2. \A v \in Places : A[v] # x
  BY DEF Apart
<1>3. /\ \A n \in Inodes : HasBlocks(g, n) = HasBlocks(f, n) /\ Size(g, n) = Size(f, n)
      /\ \A v \in Places : InFile(g, v) = InFile(f, v)
  <2>1. \A n \in Inodes : HasBlocks(g, n) = HasBlocks(f, n) /\ Size(g, n) = Size(f, n)
    BY <1>1 DEF Heads, HasBlocks, Mode, Size
  <2> QED
    BY <2>1, PlaceFacts DEF InFile
<1>4. ASSUME NEW v \in Places, HasBlocks(f, v[1])
      PROVE  g.inode[v[1]].addr[Single] = IF Root2(v) = u THEN x ELSE f.inode[v[1]].addr[Single]
  <2>1. v[1] \in Inodes /\ Single \in 0 .. Double /\ Root2(v) = <<v[1], Single>> /\ Single <= ND
    BY PlaceFacts, Constants DEF Root2
  <2> QED
    BY <2>1 DEF Replaced
<1>5. ASSUME NEW v \in Places, ~Inner(v)
      PROVE  Val(g, v) = IF v = u THEN x ELSE Val(f, v)
  <2>1. v[2] <= ND /\ v[2] \in 0 .. Double /\ v[1] \in Inodes /\ v = <<v[1], v[2]>>
    BY <1>5, PlaceFacts, Constants DEF Inner
  <2>2. g.inode[v[1]].addr[v[2]] = IF v = u THEN x ELSE f.inode[v[1]].addr[v[2]]
    BY <2>1 DEF Replaced
  <2> QED
    BY <2>1, <2>2 DEF Val
<1>6. ASSUME NEW v \in Places, Inner(v), HasBlocks(f, v[1])
      PROVE  Val(g, v) = IF v[2] = u[2] /\ Inner(u) /\ r = f.inode[v[1]].addr[Single] THEN x ELSE Val(f, v)
  <2> DEFINE s == f.inode[v[1]].addr[Single]
             k == v[2] - (ND + 1)
  <2>1. ~(v[2] <= ND) /\ k \in 0 .. NIND - 1 /\ s = A[Root2(v)] /\ s \in Numbers /\ Root2(v) \in Places
    BY <1>6, InnerFacts, FineFacts, PlaceFacts
  <2>2. CASE Root2(v) = u
    <3>1. g.inode[v[1]].addr[Single] = x /\ ~Inner(u) /\ s = b /\ s # 0
      BY <1>4, <1>6, <2>1, <2>2, PlaceFacts, Constants
    <3>2. x \in Blocks /\ g.disk[x][k] = f.disk[b][k]
      BY <1>1, <2>1, Constants DEF Replaced
    <3> QED
      BY <1>1, <2>1, <3>1, <3>2 DEF Val
  <2>3. CASE Root2(v) # u /\ s = 0
    <3>1. g.inode[v[1]].addr[Single] = 0
      BY <1>4, <1>6, <2>3
    <3> QED
      BY <1>1, <2>1, <2>3, <3>1 DEF Val
  <2>4. CASE Root2(v) # u /\ s # 0
    <3>1. g.inode[v[1]].addr[Single] = s /\ s # x /\ s \in Blocks
      BY <1>2, <1>4, <1>6, <2>1, <2>4, Constants DEF Numbers
    <3>2. Val(g, v) = g.disk[s][k] /\ Val(f, v) = f.disk[s][k]
      BY <2>1, <2>4, <3>1 DEF Val
    <3>3. g.disk[s][k] = IF Inner(u) /\ s = r /\ k = u[2] - (ND + 1) THEN x ELSE f.disk[s][k]
      BY <2>1, <3>1 DEF Replaced
    <3>4. k = u[2] - (ND + 1) <=> v[2] = u[2]
      BY <1>6, InnerFacts
    <3> QED
      BY <3>2, <3>3, <3>4
  <2> QED
    BY <2>2, <2>3, <2>4
<1>7. \A v \in Places : B[v] = (IF InFile(f, v) THEN Val(g, v) ELSE 0)
                        /\ A[v] = IF InFile(f, v) THEN Val(f, v) ELSE 0
  BY <1>3 DEF At
<1>8. ASSUME NEW v \in Places, Inner(v), HasBlocks(f, v[1]), v[2] = u[2], Inner(u),
              r = f.inode[v[1]].addr[Single]
       PROVE  Val(f, v) = b
  <2>1. v[2] - (ND + 1) = u[2] - (ND + 1)
    BY <1>8
  <2>2. Val(f, v) = f.disk[r][v[2] - (ND + 1)]
    BY <1>1, <1>8, InnerFacts
  <2>3. Val(f, u) = f.disk[r][u[2] - (ND + 1)] /\ b = Val(f, u)
    BY <1>1, <1>7, <1>8, InnerFacts
  <2> QED
    BY <2>1, <2>2, <2>3
<1>9. ASSUME NEW v \in Places
      PROVE  /\ v \in Same(A, u) => B[v] = x /\ A[v] = b
             /\ v \notin Same(A, u) => B[v] = A[v]
  <2>1. CASE v = u
    <3>1. Val(g, u) = x
      <4>1. CASE Inner(u)
        <5>1. r = f.inode[u[1]].addr[Single]
          BY <1>1, <4>1, InnerFacts
        <5> QED
          BY <1>1, <1>6, <4>1, <5>1
      <4>2. CASE ~Inner(u)
        BY <1>5, <4>2
      <4> QED
        BY <4>1, <4>2
    <3>2. u \in Same(A, u)
      BY DEF Same
    <3> QED
      BY <1>1, <1>7, <2>1, <3>1, <3>2
  <2>2. CASE v # u /\ ~Inner(v)
    <3>1. v \notin Same(A, u)
      BY <2>2 DEF Same, Inner
    <3> QED
      BY <1>5, <1>7, <2>2, <3>1
  <2>3. CASE v # u /\ Inner(v)
    <3>1. CASE InFile(f, v)
      <4>1. HasBlocks(f, v[1]) /\ A[Root2(v)] = f.inode[v[1]].addr[Single]
        BY <2>3, <3>1, InnerFacts DEF InFile
      <4>2. CASE v[2] = u[2] /\ Inner(u) /\ r = A[Root2(v)]
        <5>1. Val(f, v) = b
          BY <1>8, <2>3, <4>1, <4>2
        <5>2. v \in Same(A, u) /\ A[v] = b
          BY <1>7, <3>1, <4>2, <5>1, Constants DEF Same
        <5> QED
          BY <1>6, <1>7, <2>3, <3>1, <4>1, <4>2, <5>2
      <4>3. CASE ~(v[2] = u[2] /\ Inner(u) /\ r = A[Root2(v)])
        <5>1. v \notin Same(A, u)
          BY <2>3, <4>3 DEF Same
        <5> QED
          BY <1>6, <1>7, <2>3, <3>1, <4>1, <4>3, <5>1
      <4> QED
        BY <4>2, <4>3
    <3>2. CASE ~InFile(f, v)
      <4>1. A[v] = 0 /\ B[v] = 0
        BY <1>7, <3>2
      <4>2. v \notin Same(A, u)
        BY <2>3, <4>1 DEF Same
      <4> QED
        BY <4>1, <4>2
    <3> QED
      BY <3>1, <3>2
  <2> QED
    BY <2>1, <2>2, <2>3
<1>10. B \in [Places -> Numbers]
  <2>1. \A v \in Places : B[v] \in Numbers
    BY <1>1, <1>9, FineFacts DEF Numbers
  <2> QED
    BY <2>1 DEF At
<1>11. Moved(A, B, u, x)
  BY <1>9, <1>10 DEF Moved
<1>12. \A n \in Inodes : Trim(g, n)
  <2> TAKE n \in Inodes
  <2>1. Trim(f, n) /\ g.inode[n].offset = f.inode[n].offset
    BY <1>1 DEF AllFine, Heads
  <2>2. g.inode[n].addr[Double] = f.inode[n].addr[Double]
    <3>1. ~(Double <= ND)
      BY PlaceFacts, Constants
    <3> QED
      BY <3>1, PlaceFacts DEF Replaced
  <2>3. HasBlocks(f, n) /\ g.inode[n].addr[Single] # 0 => f.inode[n].addr[Single] # 0
    <3>1. <<n, ND>> \in Places /\ Root2(<<n, ND>>) = <<n, ND>> /\ <<n, ND>>[1] = n
      BY PlaceFacts, Constants DEF Root2
    <3>2. ASSUME HasBlocks(f, n), <<n, ND>> = u PROVE f.inode[n].addr[Single] # 0
      BY <3>1, <3>2, FineFacts, Constants
    <3>3. ASSUME HasBlocks(f, n), <<n, ND>> # u PROVE g.inode[n].addr[Single] = f.inode[n].addr[Single]
      BY <1>4, <3>1, <3>3
    <3> QED
      BY <3>2, <3>3
  <2> QED
    BY <1>3, <2>1, <2>2, <2>3 DEF Trim
<1>13. AllFine(g)
  BY <1>10, <1>12 DEF AllFine
<1>14. ASSUME NEW v \in Filled(g) PROVE v \in Filled(f)
  <2>1. /\ v \in Places /\ HasBlocks(f, v[1]) /\ Val(g, v) # 0 /\ v[1] \in Inodes
        /\ Inner(v) => g.inode[v[1]].addr[Single] \in DataBlocks
    BY <1>3, PlaceFacts DEF Filled
  <2>2. Val(f, v) # 0
    <3>1. b # 0 /\ b = Val(f, u)
      BY <1>1, <1>7, Constants
    <3>2. CASE ~Inner(v)
      BY <1>5, <2>1, <3>1, <3>2
    <3>3. CASE Inner(v)
      BY <1>6, <1>8, <2>1, <3>1, <3>3
    <3> QED
      BY <3>2, <3>3
  <2>3. ASSUME Inner(v) PROVE f.inode[v[1]].addr[Single] \in DataBlocks
    <3>1. CASE Root2(v) = u
      <4>1. f.inode[v[1]].addr[Single] = b
        BY <2>1, <3>1, FineFacts
      <4> QED
        BY <4>1
    <3>2. CASE Root2(v) # u
      BY <1>4, <2>1, <2>3, <3>2
    <3> QED
      BY <3>1, <3>2
  <2> QED
    BY <2>1, <2>2, <2>3 DEF Filled
<1>15. Indirect(g) \subseteq Indirect(f) \cup (IF Inner(u) \/ u[2] # ND THEN {} ELSE {x})
  <2> SUFFICES ASSUME NEW n \in Inodes, HasBlocks(g, n), Ends(g.inode[n]) >= ND
               PROVE  \/ g.inode[n].addr[Single] \in Indirect(f)
                      \/ u[2] = ND /\ ~Inner(u) /\ g.inode[n].addr[Single] = x
    BY DEF Indirect
  <2>1. HasBlocks(f, n) /\ Ends(f.inode[n]) >= ND
    BY <1>1, <1>3 DEF Heads, Ends
  <2>2. f.inode[n].addr[Single] \in Indirect(f)
    BY <2>1 DEF Indirect
  <2>3. <<n, ND>> \in Places /\ Root2(<<n, ND>>) = <<n, ND>> /\ <<n, ND>>[1] = n
    BY PlaceFacts, Constants DEF Root2
  <2>4. g.inode[n].addr[Single] = IF <<n, ND>> = u THEN x ELSE f.inode[n].addr[Single]
    BY <1>4, <2>1, <2>3
  <2>5. <<n, ND>> = u => u[2] = ND /\ ~Inner(u)
    BY Constants DEF Inner
  <2> QED
    BY <2>2, <2>4, <2>5
<1>16. \A d \in Indirect(f) : d # x
  <2> SUFFICES ASSUME NEW n \in Inodes, HasBlocks(f, n) PROVE f.inode[n].addr[Single] # x
    BY DEF Indirect
  <2>1. <<n, ND>> \in Places /\ Root2(<<n, ND>>) = <<n, ND>> /\ <<n, ND>>[1] = n
    BY PlaceFacts, Constants DEF Root2
  <2>2. A[<<n, ND>>] = f.inode[n].addr[Single]
    BY <2>1, FineFacts
  <2> QED
    BY <1>2, <2>1, <2>2
<1>17. Inner(u) => r \in Indirect(f)
  <2> SUFFICES ASSUME Inner(u) PROVE r \in Indirect(f)
    OBVIOUS
  <2>1. r = f.inode[u[1]].addr[Single] /\ r # 0 /\ u[1] \in Inodes
    BY <1>1, InnerFacts, PlaceFacts
  <2>2. Trim(f, u[1])
    BY <2>1 DEF AllFine
  <2>3. Ends(f.inode[u[1]]) >= ND
    <3>1. f.inode[u[1]].offset \in 0 .. BS - 1 /\ Size(f, u[1]) >= ND
      BY <1>1, <2>1, <2>2 DEF Trim
    <3>2. ~(f.inode[u[1]].offset >= BS)
      BY <3>1, BlockSize
    <3> QED
      BY <3>1, <3>2 DEF Ends, Size
  <2> QED
    BY <1>1, <2>1, <2>3 DEF Indirect
<1>18. ASSUME NEW w, NEW v \in Places, v[2] # ND, KeptAt(f, w, v), Mode(g, v[1]) = "reg"
       PROVE  /\ B[v] \in DataBlocks \ Indirect(g)
              /\ Inner(v) => B[Root2(v)] \in DataBlocks
              /\ g.disk[B[v]] = w.disk[At(w)[v]]
  <2>1. /\ A[v] \in DataBlocks /\ A[v] \notin Indirect(f)
        /\ Inner(v) => A[Root2(v)] \in DataBlocks
        /\ f.disk[A[v]] = w.disk[At(w)[v]]
    <3>1. Mode(f, v[1]) = "reg"
      BY <1>1, <1>18, PlaceFacts DEF Heads, Mode
    <3> QED
      BY <1>18, <3>1 DEF KeptAt
  <2>2. \A y \in Places : A[y] \in DataBlocks => B[y] \in DataBlocks
    BY <1>1, <1>9
  <2>3. g.disk[B[v]] = f.disk[A[v]]
    <3>1. CASE v \in Same(A, u)
      BY <1>1, <1>9, <3>1, Constants DEF Replaced
    <3>2. CASE v \notin Same(A, u)
      <4>1. B[v] = A[v] /\ A[v] # x /\ A[v] \in Blocks
        BY <1>2, <1>9, <2>1, <3>2, Constants
      <4>2. ~(Inner(u) /\ A[v] = r)
        BY <1>17, <2>1
      <4> QED
        BY <4>1, <4>2 DEF Replaced
    <3> QED
      BY <3>1, <3>2
  <2>4. B[v] \notin Indirect(g)
    <3>1. CASE v \in Same(A, u)
      <4>1. B[v] = x /\ (v = u \/ Inner(u))
        BY <1>9, <3>1 DEF Same
      <4> QED
        BY <1>15, <1>16, <1>18, <4>1
    <3>2. CASE v \notin Same(A, u)
      BY <1>2, <1>9, <1>15, <2>1, <3>2
    <3> QED
      BY <3>1, <3>2
  <2> QED
    BY <2>1, <2>2, <2>3, <2>4, PlaceFacts
<1>19. \A w : \A v \in Places : v[2] # ND /\ KeptAt(f, w, v) => KeptAt(g, w, v)
  BY <1>18 DEF KeptAt
<1> QED
  BY <1>11, <1>13, <1>14, <1>19

\* A disk as it is between the passes, or in pass 3, and its free blocks.
Sound(f, w) ==
  /\ AllFine(f) /\ Filled(f) \subseteq Filled(w)
  /\ \A u \in TextPlaces(w) : KeptAt(f, w, u)
Freed(f, F) ==
  /\ \E K : Listing(f, F, K)
  /\ f.tfree = Cardinality(F) /\ Apart(At(f), F)
\* When the places of P are looked at.  In the first run, r, the blocks that
\* are given out are not marked, so those of indirect blocks may stay shared.
Shares(f, w, F, P, r) ==
  Roomy(w) =>
    /\ Sharing(At(f), f.bitmap, P, r) /\ Met(At(f), f.bitmap, P) /\ Cover(At(f), F)
    /\ r \/ Separate(At(f))
Mid(f, w, P, r) ==
  {g \in FsType : Heads(f, g) /\ Sound(g, w) /\ \E F : Freed(g, F) /\ Shares(g, w, F, P, r)}

LEMMA SoundSame ==
  ASSUME NEW f, NEW g, SameDisk(f, g)
  PROVE  /\ At(g) = At(f) /\ Heads(f, g)
         /\ \A w : Sound(f, w) => Sound(g, w)
         /\ \A F : Freed(f, F) => Freed(g, F)
<1>1. /\ g.inode = f.inode /\ g.disk = f.disk /\ g.free = f.free /\ g.tfree = f.tfree
      /\ g.panic = f.panic
  BY DEF SameDisk, SameFree
<1>2. Heads(f, g)
  BY <1>1 DEF Heads
<1>3. /\ At(g) = At(f) /\ Filled(g) = Filled(f)
      /\ AllFine(g) <=> AllFine(f)
      /\ \A w : \A u \in Places : KeptAt(g, w, u) <=> KeptAt(f, w, u)
  BY <1>1, <1>2, AtSame
<1>4. \A w : Sound(f, w) => Sound(g, w)
  <2>1. \A w : TextPlaces(w) \subseteq Places
    BY DEF TextPlaces
  <2> QED
    BY <1>3, <2>1 DEF Sound
<1>5. \A F, K : Listing(f, F, K) => Listing(g, F, K)
  BY <1>1 DEF Listing
<1>6. \A F : Freed(f, F) => Freed(g, F)
  BY <1>1, <1>3, <1>5 DEF Freed
<1> QED
  BY <1>2, <1>3, <1>4, <1>6

LEMMA PlaceMarked ==
  ASSUME NEW f, NEW w, NEW r, NEW P, NEW u, NEW g \in Mid(f, w, P, r), Ordered(P, u),
         ~Second(g, At(g)[u])
  PROVE  Mark(g, At(g)[u]) \in Mid(f, w, P \cup {u}, r)
<1> DEFINE b == At(g)[u]
           h == Mark(g, b)
<1>1. g \in FsType /\ Heads(f, g) /\ Sound(g, w) /\ AllFine(g) /\ u \in Places
  BY DEF Mid, Sound, Ordered
<1>2. PICK F : Freed(g, F) /\ Shares(g, w, F, P, r)
  BY DEF Mid
<1>3. b \in Numbers /\ b \in Nat
  BY <1>1, FineFacts, Constants DEF Numbers
<1>4. h \in FsType /\ SameDisk(g, h) /\ h.bitmap = IF b = 0 THEN g.bitmap ELSE g.bitmap \cup {b}
  BY <1>1, <1>3, MarkedSame
<1> HIDE DEF h
<1>5. At(h) = At(g) /\ Heads(g, h) /\ Sound(h, w) /\ Freed(h, F)
  BY <1>1, <1>2, <1>4, SoundSame
<1>6. Heads(f, h)
  BY <1>1, <1>5 DEF Heads
<1>7. ASSUME Roomy(w)
      PROVE  Sharing(At(g), h.bitmap, P \cup {u}, r) /\ Met(At(g), h.bitmap, P \cup {u})
  <2>1. /\ Sharing(At(g), g.bitmap, P, r) /\ Met(At(g), g.bitmap, P)
        /\ b \notin g.bitmap \/ b = 0
    BY <1>2, <1>7 DEF Shares, Second
  <2> DEFINE m == g.bitmap \cup {b}
  <2>2. Sharing(At(g), m, P \cup {u}, r) /\ Met(At(g), m, P \cup {u})
    BY <2>1, MarkFirst
  <2>3. CASE b # 0
    BY <1>4, <2>2, <2>3
  <2>4. CASE b = 0
    <3>1. \A d : d # 0 => (d \in m <=> d \in g.bitmap)
      BY <2>4
    <3> HIDE DEF m
    <3>2. h.bitmap = g.bitmap
      BY <1>4, <2>4
    <3>3. Met(At(g), g.bitmap, P \cup {u})
      BY <2>2, <3>1, Constants DEF Met
    <3>4. Sharing(At(g), g.bitmap, P \cup {u}, r)
      BY <2>2, <3>1 DEF Sharing
    <3> QED
      BY <3>2, <3>3, <3>4
  <2> QED
    BY <2>3, <2>4
<1>8. Shares(h, w, F, P \cup {u}, r)
  BY <1>2, <1>5, <1>7 DEF Shares
<1> QED
  BY <1>4, <1>5, <1>6, <1>8 DEF Mid, h

LEMMA PlaceLeft ==
  ASSUME NEW f, NEW w, NEW r, NEW P, NEW u, NEW g \in Mid(f, w, P, r), Ordered(P, u),
         Second(g, At(g)[u]), NewBlk(g) = 0
  PROVE  Ask(g, "twice") \in Mid(f, w, P \cup {u}, r)
<1> DEFINE b == At(g)[u]
           h == Ask(g, "twice")
<1>1. g \in FsType /\ Heads(f, g) /\ Sound(g, w) /\ AllFine(g) /\ u \in Places
  BY DEF Mid, Sound, Ordered
<1>2. PICK F : Freed(g, F) /\ Shares(g, w, F, P, r)
  BY DEF Mid
<1>3. h \in FsType /\ SameDisk(g, h)
  <2>1. "twice" \in Strings
    BY DEF Strings
  <2> QED
    BY <1>1, <2>1, AskedSame
<1> HIDE DEF h
<1>4. Heads(g, h) /\ Sound(h, w) /\ Freed(h, F)
  BY <1>1, <1>2, <1>3, SoundSame
<1>5. Heads(f, h)
  BY <1>1, <1>4 DEF Heads
<1>6. ~Roomy(w)
  <2> SUFFICES ASSUME Roomy(w) PROVE FALSE
    OBVIOUS
  <2>1. F = {}
    BY <1>2, NothingFree DEF Freed
  <2>2. Met(At(g), g.bitmap, P) /\ Cover(At(g), F)
    BY <1>2 DEF Shares
  <2>3. b \in g.bitmap \cap DataBlocks /\ At(g) \in [Places -> Numbers]
    BY <1>1, FineFacts DEF Second, Numbers, AllFine
  <2>4. Cardinality(Taking(At(g))) <= Cardinality(DataBlocks)
    <3>1. Taking(At(g)) \subseteq Filled(w) /\ IsFiniteSet(Filled(w))
      <4>1. Filled(w) \subseteq Places
        BY DEF Filled
      <4>2. Taking(At(g)) \subseteq Filled(w)
        BY <1>1, FineFacts DEF Sound
      <4> QED
        BY <4>1, <4>2, Constants, FS_Subset
    <3> DEFINE c == Cardinality(Taking(At(g)))
               d == Cardinality(Filled(w))
               e == Cardinality(DataBlocks)
    <3>2. c <= d /\ d <= e /\ c \in Nat /\ d \in Nat /\ e \in Nat
      BY <3>1, Constants, FS_Subset, FS_CardinalityType DEF Roomy
    <3> HIDE DEF c, d, e
    <3>3. c <= e
      BY <3>2
    <3> QED
      BY <3>3 DEF c, e
  <2> QED
    BY <2>1, <2>2, <2>3, <2>4, OneIsFree
<1>7. Shares(h, w, F, P \cup {u}, r)
  BY <1>6 DEF Shares
<1> QED
  BY <1>3, <1>4, <1>5, <1>7 DEF Mid, h

\* The block in place u is copied, and the copy takes the place.
LEMMA PlaceGiven ==
  ASSUME NEW f, NEW w, NEW r, NEW P, NEW u, NEW g \in Mid(f, w, P, r), Ordered(P, u),
         Second(g, At(g)[u]), NewBlk(g) # 0,
         NEW h, SameFree(Copied(g, At(g)[u]), h), h.bitmap = g.bitmap, Replaced(g, h, u, NewBlk(g))
  PROVE  h \in Mid(f, w, P \cup {u}, r)
<1> DEFINE b == At(g)[u]
           x == NewBlk(g)
           c == Copied(g, b)
<1>1. g \in FsType /\ Heads(f, g) /\ Sound(g, w) /\ AllFine(g) /\ u \in Places
  BY DEF Mid, Sound, Ordered
<1>2. PICK F : Freed(g, F) /\ Shares(g, w, F, P, r)
  BY DEF Mid
<1>3. PICK K : Listing(g, F, K)
  BY <1>2 DEF Freed
<1>4. F # {} /\ b \in DataBlocks /\ b \in g.bitmap
  BY <1>1, <1>3, NothingFree, FineFacts DEF Second, Numbers
<1>5. /\ x \in F /\ x \in DataBlocks /\ c.tfree = g.tfree - 1
      /\ \A d \in Blocks : c.disk[d] = IF d = x THEN g.disk[b] ELSE g.disk[d]
      /\ Listing(c, F \ {x}, K \ {x})
  BY <1>1, <1>3, <1>4, CopyMade
<1>6. Apart(At(g), F) /\ g.tfree = Cardinality(F) /\ F \subseteq DataBlocks
  BY <1>2, <1>3 DEF Freed, Listing
<1>7. /\ AllFine(h) /\ Moved(At(g), At(h), u, x) /\ Filled(h) \subseteq Filled(g)
      /\ \A v \in Places : v[2] # ND /\ KeptAt(g, w, v) => KeptAt(h, w, v)
  BY <1>1, <1>4, <1>5, <1>6, ReplacedMoves
<1>8. h \in FsType /\ Heads(g, h)
  BY DEF Replaced
<1>9. Listing(h, F \ {x}, K \ {x})
  <2>1. h.free = c.free
    BY DEF SameFree
  <2> HIDE DEF c, x
  <2>2. ASSUME NEW d \in F \ {x} PROVE h.disk[d] = c.disk[d]
    <3>1. d \in Blocks \ {x} /\ Root2(u) \in Places
      BY <1>1, <1>6, Constants, PlaceFacts
    <3>2. d # At(g)[Root2(u)]
      BY <1>6, <3>1 DEF Apart
    <3>3. h.disk[d] = g.disk[d]
      BY <3>1, <3>2 DEF Replaced, x
    <3> QED
      BY <1>5, <3>1, <3>3
  <2> QED
    BY <1>3, <1>5, <2>1, <2>2 DEF Listing
<1>10. h.tfree = Cardinality(F \ {x})
  <2>1. IsFiniteSet(F)
    BY <1>6, Constants, FS_Subset
  <2>2. Cardinality(F \ {x}) = Cardinality(F) - 1
    BY <1>5, <2>1, FS_RemoveElement
  <2>3. h.tfree = g.tfree - 1
    BY <1>5 DEF SameFree
  <2> QED
    BY <1>6, <2>2, <2>3
<1>11. At(g) \in [Places -> Numbers] /\ \A v \in Places : Inner(v) /\ At(g)[v] # 0 => At(g)[Root2(v)] # 0
  BY <1>1, FineFacts DEF AllFine
<1> HIDE DEF x
<1>12. Apart(At(h), F \ {x})
  BY <1>5, <1>6, <1>7 DEF Moved, Apart
<1>13. Freed(h, F \ {x})
  BY <1>9, <1>10, <1>12 DEF Freed
<1>14. ASSUME Roomy(w)
       PROVE  /\ Sharing(At(h), h.bitmap, P \cup {u}, r) /\ Met(At(h), h.bitmap, P \cup {u})
              /\ Cover(At(h), F \ {x})
              /\ r \/ Separate(At(h))
  <2>1. /\ Sharing(At(g), g.bitmap, P, r) /\ Met(At(g), g.bitmap, P) /\ Cover(At(g), F)
        /\ r \/ Separate(At(g))
    BY <1>2, <1>14 DEF Shares
  <2>2. r \/ Exclusive(At(g))
    BY <2>1, SeparateExclusive
  <2>3. /\ Sharing(At(h), g.bitmap, P \cup {u}, r) /\ Met(At(h), g.bitmap, P \cup {u})
        /\ Cover(At(g), F) => Cover(At(h), F \ {x})
        /\ Exclusive(At(g)) /\ Separate(At(g)) => Separate(At(h))
    <3>1. x \in F \cap DataBlocks /\ b \in g.bitmap \cap DataBlocks
      BY <1>4, <1>5
    <3> QED
      BY <1>6, <1>7, <1>11, <2>1, <2>2, <3>1, MovedKeeps
  <2> QED
    BY <2>1, <2>2, <2>3, SeparateExclusive
<1>15. Shares(h, w, F \ {x}, P \cup {u}, r)
  BY <1>14 DEF Shares
<1>16. Sound(h, w) /\ Heads(f, h)
  <2>1. \A v \in TextPlaces(w) : v \in Places /\ v[2] # ND
    BY DEF TextPlaces
  <2> QED
    BY <1>1, <1>7, <1>8, <2>1 DEF Sound, Heads
<1> QED
  BY <1>8, <1>13, <1>15, <1>16 DEF Mid

-----------------------------------------------------------------------------
(* Pass 3: the places of an inode                                          *)

\* The place of block num of a file.
Place(n, num) == <<n, IF num < ND THEN num ELSE num + 1>>

LEMMA PlaceOf ==
  ASSUME NEW n \in Inodes, NEW num \in Nat, num < ND + NIND
  PROVE  LET u == Place(n, num)
         IN /\ u \in Places /\ u[1] = n /\ u[2] # ND
            /\ num < ND => ~Inner(u) /\ u[2] = num
            /\ num >= ND => Inner(u) /\ u[2] = num + 1 /\ u[2] - (ND + 1) = num - ND
            /\ \A f : HasBlocks(f, n) /\ Size(f, n) \in Nat => (InFile(f, u) <=> num <= Size(f, n))
<1> DEFINE k == IF num < ND THEN num ELSE num + 1
           u == Place(n, num)
<1>1. ND \in Nat /\ NIND \in Nat /\ ND > 0
  BY Constants
<1>2. k \in 0 .. ND + NIND /\ u[1] = n /\ u[2] = k /\ u = <<n, k>>
  BY <1>1 DEF Place
<1>3. u \in Places
  BY <1>2, PlaceFacts
<1> HIDE DEF u, k
<1>4. /\ k # ND
      /\ num < ND => k = num /\ ~(k > ND)
      /\ num >= ND => k = num + 1 /\ k > ND /\ k - (ND + 1) = num - ND
      /\ \A s \in Nat : (k < ND => k <= s) /\ (k > ND => k <= s + 1) <=> num <= s
  BY <1>1 DEF k
<1>5. \A f : HasBlocks(f, n) /\ Size(f, n) \in Nat => (InFile(f, u) <=> num <= Size(f, n))
  BY <1>2, <1>4 DEF InFile
<1>6. Inner(u) <=> k > ND
  BY <1>2 DEF Inner
<1>7. u[2] # ND /\ (num < ND => ~Inner(u) /\ u[2] = num)
  BY <1>2, <1>4, <1>6
<1>8. num >= ND => Inner(u) /\ u[2] = num + 1 /\ u[2] - (ND + 1) = num - ND
  BY <1>2, <1>4, <1>6
<1> QED
  BY <1>2, <1>3, <1>5, <1>7, <1>8 DEF u

LEMMA GetBlkIs ==
  ASSUME NEW f, NEW n \in Inodes, NEW num \in Nat
  PROVE  /\ num < ND + NIND => GetBlk(f, n, num) = Val(f, Place(n, num))
         /\ num >= ND + NIND => GetBlk(f, n, num) = 0
<1> DEFINE u == Place(n, num)
<1>1. ND \in Nat /\ NIND \in Nat /\ ND > 0 /\ NIND > 0
  BY Constants
<1>2. ASSUME num < ND + NIND PROVE GetBlk(f, n, num) = Val(f, u)
  <2>1. CASE num < ND
    <3>1. u[1] = n /\ u[2] = num /\ num <= ND
      BY <1>1, <2>1 DEF Place
    <3>2. Val(f, u) = f.inode[n].addr[num]
      <4> HIDE DEF u
      <4> QED
        BY <3>1 DEF Val
    <3>3. GetBlk(f, n, num) = f.inode[n].addr[num]
      <4>1. num \notin ND .. ND + NIND - 1
        BY <1>1, <2>1
      <4> QED
        BY <2>1, <4>1 DEF GetBlk
    <3> QED
      BY <3>2, <3>3
  <2>2. CASE ~(num < ND)
    <3>1. /\ u[1] = n /\ u[2] = num + 1 /\ ~(num + 1 <= ND)
          /\ num \in ND .. ND + NIND - 1 /\ (num + 1) - (ND + 1) = num - ND
      BY <1>1, <1>2, <2>2 DEF Place
    <3> HIDE DEF u
    <3>2. u[2] - (ND + 1) = num - ND /\ ~(u[2] <= ND)
      BY <3>1
    <3>3. Val(f, u) = IF f.inode[n].addr[Single] = 0 THEN 0 ELSE f.disk[f.inode[n].addr[Single]][num - ND]
      BY <3>1, <3>2 DEF Val
    <3>4. GetBlk(f, n, num) = IF f.inode[n].addr[Single] = 0 THEN 0 ELSE f.disk[f.inode[n].addr[Single]][num - ND]
      BY <2>2, <3>1 DEF GetBlk
    <3> QED
      BY <3>3, <3>4
  <2> QED
    BY <2>1, <2>2
<1>3. ASSUME num >= ND + NIND PROVE GetBlk(f, n, num) = 0
  <2>1. ~(num < ND) /\ num \notin ND .. ND + NIND - 1
    BY <1>1, <1>3
  <2> QED
    BY <1>3, <2>1 DEF GetBlk
<1> QED
  BY <1>2, <1>3

LEMMA AskedMid ==
  ASSUME NEW f, NEW w, NEW r, NEW P, NEW g \in Mid(f, w, P, r)
  PROVE  LET h == Ask(g, "twice")
         IN h \in Mid(f, w, P, r) /\ SameDisk(g, h) /\ h.bitmap = g.bitmap /\ At(h) = At(g)
<1> DEFINE h == Ask(g, "twice")
<1>1. g \in FsType /\ Heads(f, g) /\ Sound(g, w) /\ "twice" \in Strings
  BY DEF Mid, Strings
<1>2. PICK F : Freed(g, F) /\ Shares(g, w, F, P, r)
  BY DEF Mid
<1>3. h \in FsType /\ SameDisk(g, h) /\ h.bitmap = g.bitmap
  BY <1>1, AskedSame
<1> HIDE DEF h
<1>4. Heads(g, h) /\ Sound(h, w) /\ Freed(h, F) /\ At(h) = At(g)
  BY <1>1, <1>2, <1>3, SoundSame
<1>5. Heads(f, h) /\ Shares(h, w, F, P, r)
  BY <1>1, <1>2, <1>3, <1>4 DEF Heads, Shares
<1> QED
  BY <1>3, <1>4, <1>5 DEF Mid, h

(* The copy of a block and the change of one address or one pointer.       *)
LEMMA CopiedAddr ==
  ASSUME NEW f, NEW w, NEW r, NEW P, NEW g \in Mid(f, w, P, r), NEW n \in Inodes, NEW k \in 0 .. ND,
         Ordered(P, <<n, k>>), Second(g, At(g)[<<n, k>>]), NewBlk(g) # 0
  PROVE  PutAddr(Copied(g, At(g)[<<n, k>>]), n, k, NewBlk(g)) \in Mid(f, w, P \cup {<<n, k>>}, r)
<1> DEFINE u == <<n, k>>
           b == At(g)[u]
           x == NewBlk(g)
           c == Copied(g, b)
           h == PutAddr(c, n, k, x)
<1>1. g \in FsType /\ Sound(g, w) /\ AllFine(g) /\ u \in Places /\ k \in 0 .. Double /\ k <= ND /\ ~Inner(u)
  BY PlaceFacts, Constants DEF Mid, Sound, Ordered, Inner
<1>2. PICK F, K : Listing(g, F, K)
  BY DEF Mid, Freed
<1>3. b \in DataBlocks /\ F # {}
  BY <1>1, <1>2, NothingFree, FineFacts DEF Second, Numbers
<1>4. /\ x \in DataBlocks /\ c \in FsType /\ c.inode = g.inode /\ c.bitmap = g.bitmap
      /\ c.panic = g.panic
      /\ \A d \in Blocks : c.disk[d] = IF d = x THEN g.disk[b] ELSE g.disk[d]
  BY <1>1, <1>2, <1>3, CopyMade
<1> HIDE DEF c
<1>5. /\ h \in FsType /\ h.disk = c.disk /\ SameFree(c, h) /\ h.bitmap = c.bitmap /\ Heads(c, h)
      /\ \A m \in Inodes, j \in 0 .. Double :
           h.inode[m].addr[j] = IF m = n /\ j = k THEN x ELSE c.inode[m].addr[j]
  <2>1. x \in Nat
    BY <1>4, Constants
  <2> HIDE DEF x
  <2>2. HasAddr(c, h, n, k, x)
    BY <1>1, <1>4, <2>1, AddrPut
  <2> HIDE DEF h
  <2> QED
    BY <2>2 DEF HasAddr
<1> HIDE DEF h, x
<1>6. Replaced(g, h, u, x)
  <2>1. Heads(g, h)
    BY <1>4, <1>5 DEF Heads
  <2>2. \A m \in Inodes, j \in 0 .. Double :
          h.inode[m].addr[j] = IF <<m, j>> = u /\ j <= ND THEN x ELSE g.inode[m].addr[j]
    BY <1>1, <1>4, <1>5
  <2> HIDE DEF u, b
  <2>3. \A d \in Blocks : h.disk[d] = IF d = x THEN g.disk[b] ELSE g.disk[d]
    BY <1>4, <1>5
  <2> QED
    BY <1>1, <1>4, <1>5, <2>1, <2>2, <2>3, Constants DEF Replaced, b
<1> QED
  BY <1>4, <1>5, <1>6, PlaceGiven DEF c, h, x

LEMMA CopiedPtr ==
  ASSUME NEW f, NEW w, NEW r, NEW P, NEW g \in Mid(f, w, P, r), NEW u \in Places, Inner(u),
         Ordered(P, u), Second(g, At(g)[u]), NewBlk(g) # 0
  PROVE  PutPtr(Copied(g, At(g)[u]), At(g)[Root2(u)], u[2] - (ND + 1), NewBlk(g))
           \in Mid(f, w, P \cup {u}, r)
<1> DEFINE b == At(g)[u]
           s == At(g)[Root2(u)]
           k == u[2] - (ND + 1)
           x == NewBlk(g)
           c == Copied(g, b)
           h == PutPtr(c, s, k, x)
<1>1. g \in FsType /\ Sound(g, w) /\ AllFine(g) /\ k \in 0 .. NIND - 1
  BY InnerFacts DEF Mid, Sound
<1>2. PICK F : Freed(g, F)
  BY DEF Mid
<1>3. PICK K : Listing(g, F, K)
  BY <1>2 DEF Freed
<1>4. b \in DataBlocks /\ F # {}
  BY <1>1, <1>3, NothingFree, FineFacts DEF Second, Numbers
<1>5. /\ x \in F /\ x \in DataBlocks /\ c \in FsType /\ c.inode = g.inode /\ c.bitmap = g.bitmap
      /\ c.panic = g.panic
      /\ \A d \in Blocks : c.disk[d] = IF d = x THEN g.disk[b] ELSE g.disk[d]
  BY <1>1, <1>3, <1>4, CopyMade
<1>6. s \in DataBlocks /\ s # x
  <2>1. Root2(u) \in Places /\ s # 0 /\ s \in Numbers /\ s \notin F
    BY <1>1, <1>2, <1>4, FineFacts, PlaceFacts, Constants DEF Freed, Apart
  <2> QED
    BY <1>5, <2>1 DEF Numbers
<1> HIDE DEF c
<1>7. /\ h \in FsType /\ h.inode = c.inode /\ SameFree(c, h) /\ h.bitmap = c.bitmap
      /\ h.panic = c.panic
      /\ \A d \in Blocks : d # s => h.disk[d] = c.disk[d]
      /\ \A d \in Blocks, j \in 0 .. NIND - 1 :
           h.disk[d][j] = IF d = s /\ j = k THEN x ELSE c.disk[d][j]
  <2>1. x \in Nat /\ s \in Blocks /\ k \in 0 .. NIND - 1
    BY <1>1, <1>5, <1>6, Constants
  <2> HIDE DEF s, k, x
  <2>2. HasPtr(c, h, s, k, x)
    BY <1>5, <2>1, PtrPut
  <2> HIDE DEF h
  <2> QED
    BY <2>2 DEF HasPtr
<1> HIDE DEF h, x
<1>8. Replaced(g, h, u, x)
  <2>1. Heads(g, h)
    BY <1>5, <1>7 DEF Heads
  <2>2. \A m \in Inodes, j \in 0 .. Double : ~(<<m, j>> = u /\ j <= ND)
    BY Constants DEF Inner
  <2>3. \A m \in Inodes, j \in 0 .. Double :
          h.inode[m].addr[j] = IF <<m, j>> = u /\ j <= ND THEN x ELSE g.inode[m].addr[j]
    BY <1>5, <1>7, <2>2
  <2> HIDE DEF b, s, k
  <2>4. h.disk[x] = g.disk[b] /\ \A d \in Blocks \ {x} : d = s \/ h.disk[d] = g.disk[d]
    BY <1>5, <1>6, <1>7, Constants
  <2>5. \A d \in Blocks, j \in 0 .. NIND - 1 :
          h.disk[d][j] =
            CASE d = x                       -> g.disk[b][j]
              [] d # x /\ Inner(u) /\ d = s /\ j = k -> x
              [] OTHER                       -> g.disk[d][j]
    BY <1>5, <1>6, <1>7
  <2> QED
    BY <1>5, <1>7, <2>1, <2>3, <2>4, <2>5 DEF Replaced, b, s, k
<1> QED
  BY <1>5, <1>7, <1>8, PlaceGiven DEF c, h, x

LEMMA PointerShared ==
  ASSUME NEW f, NEW w, NEW r, NEW P, NEW g \in Mid(f, w, P, r), NEW n \in Inodes, HasBlocks(f, n),
         Ordered(P, <<n, ND>>)
  PROVE  /\ SharePointer(g, n, Single) \in Mid(f, w, P \cup {<<n, ND>>}, r)
         /\ SharePointer(g, n, Double) = g
<1> DEFINE u == <<n, ND>>
           h == Ask(g, "twice")
           x == NewBlk(g)
<1>1. /\ g \in FsType /\ Heads(f, g) /\ AllFine(g) /\ HasBlocks(g, n) /\ u \in Places
      /\ ND \in 0 .. ND /\ Root2(u) = u /\ u[1] = n /\ Single = ND
  <2>1. g \in FsType /\ Heads(f, g) /\ AllFine(g)
    BY DEF Mid, Sound
  <2>2. HasBlocks(g, n)
    BY <2>1 DEF Heads, HasBlocks, Mode
  <2> QED
    BY <2>1, <2>2, PlaceFacts, Constants DEF Root2
<1>2. g.inode[n].addr[Single] = At(g)[u]
  BY <1>1, FineFacts
<1>3. Ordered(P, u)
  OBVIOUS
<1> HIDE DEF u
<1>4. ASSUME ~Second(g, At(g)[u])
      PROVE  SharePointer(g, n, Single) \in Mid(f, w, P \cup {u}, r)
  <2>1. SharePointer(g, n, Single) = Mark(g, At(g)[u])
    BY <1>2, <1>4 DEF SharePointer, Resolved
  <2> QED
    BY <1>3, <1>4, <2>1, PlaceMarked
<1>5. ASSUME Second(g, At(g)[u]), x = 0
      PROVE  SharePointer(g, n, Single) \in Mid(f, w, P \cup {u}, r)
  <2>1. SharePointer(g, n, Single) = Ask(g, "twice")
    BY <1>2, <1>5 DEF SharePointer, Resolved
  <2> QED
    BY <1>3, <1>5, <2>1, PlaceLeft
<1>6. ASSUME Second(g, At(g)[u]), x # 0
      PROVE  SharePointer(g, n, Single) \in Mid(f, w, P \cup {u}, r)
  <2>1. h \in Mid(f, w, P, r) /\ h.bitmap = g.bitmap /\ At(h) = At(g) /\ h.free = g.free
    BY AskedMid DEF SameDisk, SameFree
  <2>2. NewBlk(h) = x /\ Second(h, At(h)[u])
    BY <1>6, <2>1 DEF NewBlk, Second
  <2>3. SharePointer(g, n, Single) = PutAddr(Copied(h, At(g)[u]), n, ND, x)
    BY <1>1, <1>2, <1>6 DEF SharePointer, Resolved, PutAddr
  <2> HIDE DEF h, x
  <2>4. PutAddr(Copied(h, At(h)[u]), n, ND, NewBlk(h)) \in Mid(f, w, P \cup {u}, r)
    BY <1>1, <1>6, <2>1, <2>2, CopiedAddr DEF u
  <2> QED
    BY <2>1, <2>2, <2>3, <2>4
<1>7. SharePointer(g, n, Double) = g
  <2>1. g.inode[n].addr[Double] = 0
    BY <1>1 DEF AllFine, Trim
  <2> QED
    BY <2>1 DEF SharePointer, Resolved, Second, Mark
<1>8. SharePointer(g, n, Single) \in Mid(f, w, P \cup {u}, r)
  BY <1>4, <1>5, <1>6
<1> QED
  BY <1>7, <1>8 DEF u

LEMMA BlockShared ==
  ASSUME NEW f, NEW w, NEW r, NEW P, NEW g \in Mid(f, w, P, r), NEW n \in Inodes, HasBlocks(f, n),
         NEW num \in Nat, num < ND + NIND, num <= Size(f, n), Ordered(P, Place(n, num))
  PROVE  ShareBlock(g, n, num) \in Mid(f, w, P \cup {Place(n, num)}, r)
<1> DEFINE u == Place(n, num)
           h == Ask(g, "twice")
           x == NewBlk(g)
<1>1. /\ g \in FsType /\ Heads(f, g) /\ AllFine(g) /\ HasBlocks(g, n) /\ Size(g, n) = Size(f, n)
      /\ Size(g, n) \in Nat
  <2>1. g \in FsType /\ Heads(f, g) /\ AllFine(g)
    BY DEF Mid, Sound
  <2> QED
    BY <2>1, StateFacts DEF Heads, HasBlocks, Mode, Size
<1>2. /\ u \in Places /\ u[1] = n /\ u[2] # ND
      /\ num < ND => ~Inner(u) /\ u[2] = num
      /\ num >= ND => Inner(u) /\ u[2] = num + 1 /\ u[2] - (ND + 1) = num - ND
      /\ InFile(g, u)
  BY <1>1, PlaceOf
<1>3. GetBlk(g, n, num) = At(g)[u]
  BY <1>1, <1>2, GetBlkIs, FineFacts
<1> HIDE DEF u
<1>4. CASE ~Second(g, At(g)[u])
  <2>1. ShareBlock(g, n, num) = Mark(g, At(g)[u])
    BY <1>3, <1>4 DEF ShareBlock, Resolved
  <2> QED
    BY <1>4, <2>1, PlaceMarked DEF u
<1>5. CASE Second(g, At(g)[u]) /\ x = 0
  <2>1. ShareBlock(g, n, num) = Ask(g, "twice")
    BY <1>3, <1>5 DEF ShareBlock, Resolved
  <2> QED
    BY <1>5, <2>1, PlaceLeft DEF u
<1>6. CASE Second(g, At(g)[u]) /\ x # 0
  <2> DEFINE c == Copied(h, At(g)[u])
  <2>1. h \in Mid(f, w, P, r) /\ h.bitmap = g.bitmap /\ At(h) = At(g) /\ h.free = g.free /\ h.inode = g.inode
    BY AskedMid DEF SameDisk, SameFree
  <2>2. NewBlk(h) = x /\ Second(h, At(h)[u])
    BY <1>6, <2>1 DEF NewBlk, Second
  <2>3. ShareBlock(g, n, num) = SetBlk(c, n, num, x)
    BY <1>3, <1>6 DEF ShareBlock, Resolved
  <2>4. c.inode = h.inode
    <3>1. h \in FsType /\ AllFine(h) /\ \E F : Freed(h, F)
      BY <2>1 DEF Mid, Sound
    <3>2. PICK F, K : Listing(h, F, K)
      BY <3>1 DEF Freed
    <3>3. F # {} /\ At(h)[u] \in DataBlocks
      BY <1>2, <1>6, <2>2, <3>1, <3>2, NothingFree, FineFacts DEF Second, Numbers
    <3> HIDE DEF h
    <3> QED
      BY <2>1, <3>1, <3>2, <3>3, CopyMade
  <2> HIDE DEF h, x, c
  <2>5. CASE num < ND
    <3>1. SetBlk(c, n, num, x) = PutAddr(c, n, num, x) /\ u = <<n, num>> /\ num \in 0 .. ND
      <4>1. num \notin ND .. ND + NIND - 1 /\ num \in 0 .. ND
        BY <2>5, Constants
      <4> QED
        BY <2>5, <4>1 DEF SetBlk, PutAddr, u, Place
    <3>2. PutAddr(Copied(h, At(h)[u]), n, num, NewBlk(h)) \in Mid(f, w, P \cup {u}, r)
      BY <1>6, <2>1, <2>2, <3>1, CopiedAddr DEF x, u
    <3> QED
      BY <2>1, <2>2, <2>3, <3>1, <3>2 DEF c, u
  <2>6. CASE ~(num < ND)
    <3>1. num \in ND .. ND + NIND - 1 /\ num >= ND
      BY <2>6, Constants
    <3>2. SetBlk(c, n, num, x) = PutPtr(c, c.inode[n].addr[Single], num - ND, x)
      BY <2>6, <3>1 DEF SetBlk, PutPtr
    <3>3. c.inode[n].addr[Single] = At(h)[Root2(u)]
      BY <1>1, <1>2, <2>1, <2>4, FineFacts
    <3>4. PutPtr(Copied(h, At(h)[u]), At(h)[Root2(u)], u[2] - (ND + 1), NewBlk(h))
            \in Mid(f, w, P \cup {u}, r)
      BY <1>2, <1>6, <2>1, <2>2, <3>1, CopiedPtr DEF x, u
    <3> QED
      BY <1>2, <2>1, <2>2, <2>3, <3>1, <3>2, <3>3, <3>4 DEF c, u
  <2> QED
    BY <2>5, <2>6
<1> QED
  BY <1>4, <1>5, <1>6 DEF u

\* Places with nothing in them may be added.
LEMMA MidWider ==
  ASSUME NEW f, NEW w, NEW r, NEW P, NEW Q, NEW g \in Mid(f, w, P, r), P \subseteq Q, Q \subseteq Places,
         \A u \in Q \ P : At(g)[u] = 0
  PROVE  g \in Mid(f, w, Q, r)
<1>1. PICK F : Freed(g, F) /\ Shares(g, w, F, P, r)
  BY DEF Mid
<1>2. ASSUME Roomy(w) PROVE Sharing(At(g), g.bitmap, Q, r) /\ Met(At(g), g.bitmap, Q)
  <2>1. Sharing(At(g), g.bitmap, P, r) /\ Met(At(g), g.bitmap, P)
    BY <1>1, <1>2 DEF Shares
  <2>2. Met(At(g), g.bitmap, Q)
    BY <2>1 DEF Met
  <2>3. Sharing(At(g), g.bitmap, Q, r)
    BY <2>1 DEF Sharing
  <2> QED
    BY <2>2, <2>3
<1>3. Shares(g, w, F, Q, r)
  BY <1>1, <1>2 DEF Shares
<1> QED
  BY <1>1, <1>3 DEF Mid

Before(n) == {u \in Places : u[1] < n}
\* Those of the earlier inodes, and of inode n what its blocks below num use.
Upto(n, num) ==
  Before(n) \cup
  {u \in Places : u[1] = n /\ (u[2] = ND \/ (u[2] < ND /\ u[2] < num) \/ (u[2] > ND /\ u[2] <= num))}

LEMMA UptoFacts ==
  ASSUME NEW n \in Inodes, NEW num \in Nat
  PROVE  /\ Upto(n, 0) = Before(n) \cup {<<n, ND>>} /\ Ordered(Before(n), <<n, ND>>)
         /\ num < ND + NIND => /\ Upto(n, num + 1) = Upto(n, num) \cup {Place(n, num)}
                               /\ Ordered(Upto(n, num), Place(n, num))
         /\ num >= ND + NIND => Upto(n, num + 1) = Upto(n, num)
         /\ Before(n) \subseteq Upto(n, num) /\ Upto(n, num) \subseteq Before(n + 1)
         /\ \A u \in Before(n + 1) : u[1] = n \/ u \in Before(n)
<1>1. ND \in Nat /\ NIND \in Nat /\ ND > 0 /\ n \in Nat
  BY Constants
<1>2. /\ \A u \in Places : u[1] \in Nat /\ u[2] \in Nat /\ u[2] <= ND + NIND /\ u = <<u[1], u[2]>>
      /\ \A u \in Places : /\ Root2(u) \in Places /\ Root2(u)[1] = u[1] /\ Root2(u)[2] = ND
      /\ \A u, v \in Places : u[1] = v[1] /\ u[2] = v[2] => u = v
  BY PlaceFacts, Constants
<1> DEFINE i == <<n, ND>>
<1>3. i \in Places /\ i[1] = n /\ i[2] = ND
  BY <1>1, PlaceFacts
<1> HIDE DEF i
<1>4. Upto(n, 0) = Before(n) \cup {i}
  <2>1. \A u \in Places : u[1] = n /\ (u[2] = ND \/ (u[2] < ND /\ u[2] < 0) \/ (u[2] > ND /\ u[2] <= 0)) <=> u = i
    BY <1>1, <1>2, <1>3
  <2> QED
    BY <1>3, <2>1 DEF Upto
<1>5. Ordered(Before(n), i)
  <2>1. i \notin Before(n) /\ ~Inner(i)
    BY <1>1, <1>3 DEF Before, Inner
  <2>2. \A v \in Before(n) : Root2(v) \in Before(n)
    BY <1>2 DEF Before
  <2> QED
    BY <1>3, <2>1, <2>2 DEF Ordered, Before
<1>6. ASSUME num < ND + NIND
      PROVE  Upto(n, num + 1) = Upto(n, num) \cup {Place(n, num)} /\ Ordered(Upto(n, num), Place(n, num))
  <2> DEFINE p == Place(n, num)
  <2>1. /\ p \in Places /\ p[1] = n /\ p[2] # ND
        /\ num < ND => p[2] = num
        /\ num >= ND => p[2] = num + 1
    BY <1>6, PlaceOf
  <2> HIDE DEF p
  <2>2. \A k \in Nat : (k < ND /\ k < num + 1) \/ (k > ND /\ k <= num + 1)
                       <=> (k < ND /\ k < num) \/ (k > ND /\ k <= num) \/ k = p[2]
    BY <1>1, <2>1
  <2>3. \A u \in Places : u[1] = n /\ u[2] = p[2] <=> u = p
    BY <1>2, <2>1
  <2>4. Upto(n, num + 1) = Upto(n, num) \cup {p}
    BY <1>2, <2>1, <2>2, <2>3 DEF Upto
  <2>5. p \notin Upto(n, num)
    BY <1>1, <2>1 DEF Upto, Before
  <2>6. \A v \in Upto(n, num) \cup {p} : Inner(v) => Root2(v) \in Upto(n, num)
    BY <1>2, <2>1 DEF Upto, Before
  <2>7. Ordered(Upto(n, num), p)
    BY <2>1, <2>5, <2>6 DEF Ordered, Upto, Before
  <2> QED
    BY <2>4, <2>7 DEF p
<1>7. ASSUME num >= ND + NIND PROVE Upto(n, num + 1) = Upto(n, num)
  <2>1. \A u \in Places : /\ u[2] < ND => (u[2] < num + 1 <=> u[2] < num)
                          /\ u[2] > ND => (u[2] <= num + 1 <=> u[2] <= num)
    BY <1>1, <1>2, <1>7
  <2> QED
    BY <2>1 DEF Upto
<1>8. /\ Before(n) \subseteq Upto(n, num) /\ Upto(n, num) \subseteq Before(n + 1)
      /\ \A u \in Before(n + 1) : u[1] = n \/ u \in Before(n)
  BY <1>1, <1>2 DEF Before, Upto
<1> QED
  BY <1>4, <1>5, <1>6, <1>7, <1>8 DEF i

LEMMA InodeShared ==
  ASSUME NEW f, NEW w, NEW r, NEW n \in Inodes, f \in Mid(f, w, Before(n), r)
  PROVE  Shared(f, n) \in Mid(f, w, Before(n + 1), r)
<1> DEFINE g1 == SharePointer(f, n, Single)
           g0 == SharePointer(g1, n, Double)
           N == Size(f, n) + 1
           I == [k \in 0 .. N |-> Mid(f, w, Upto(n, k), r)]
           On(x, k) == ShareBlock(x, n, k)
           T == [k \in 0 .. N - 1 |-> [x \in FsType |-> On(x, k)]]
           Eq(g) == g = [k \in 0 .. N |-> IF k = 0 THEN g0 ELSE On(g[k - 1], k - 1)]
           h == CHOOSE g : Eq(g)
<1>1. f \in FsType /\ AllFine(f) /\ Size(f, n) \in Nat /\ N \in Nat /\ N - 1 = Size(f, n) /\ N \in 0 .. N
  <2>1. f \in FsType /\ AllFine(f)
    BY DEF Mid, Sound
  <2>2. Size(f, n) \in Nat
    BY <2>1, StateFacts DEF Size
  <2> QED
    BY <2>1, <2>2
<1>2. \A P : \A g \in Mid(f, w, P, r) :
        g \in FsType /\ AllFine(g) /\ HasBlocks(g, n) = HasBlocks(f, n) /\ Size(g, n) = Size(f, n)
  BY DEF Mid, Sound, Heads, HasBlocks, Mode, Size
<1>3. CASE ~HasBlocks(f, n)
  <2>1. \A u \in Before(n + 1) \ Before(n) : At(f)[u] = 0
    <3> TAKE u \in Before(n + 1) \ Before(n)
    <3>1. u \in Places /\ u[1] = n
      BY UptoFacts DEF Before
    <3> QED
      BY <1>3, <3>1 DEF At, InFile
  <2>2. Before(n) \subseteq Before(n + 1) /\ Before(n + 1) \subseteq Places
    BY UptoFacts DEF Before
  <2>3. f \in Mid(f, w, Before(n + 1), r)
    BY <2>1, <2>2, MidWider
  <2> QED
    BY <1>3, <2>3 DEF Shared
<1>4. CASE HasBlocks(f, n)
  <2>1. g0 \in I[0] /\ Size(g0, n) = Size(f, n)
    <3>1. g1 \in Mid(f, w, Upto(n, 0), r)
      <4>1. 0 \in Nat
        OBVIOUS
      <4>2. Upto(n, 0) = Before(n) \cup {<<n, ND>>} /\ Ordered(Before(n), <<n, ND>>)
        BY <4>1, UptoFacts
      <4> QED
        BY <1>4, <4>2, PointerShared
    <3>2. g0 = g1
      <4>1. g1 \in FsType /\ AllFine(g1) /\ HasBlocks(g1, n)
        BY <1>2, <1>4, <3>1
      <4>2. g1.inode[n].addr[Double] = 0
        BY <4>1 DEF AllFine, Trim
      <4> HIDE DEF g1
      <4> QED
        BY <4>2 DEF SharePointer, Resolved, Second, Mark
    <3> HIDE DEF g0, g1
    <3> QED
      BY <1>1, <1>2, <3>1, <3>2
  <2>2. Shared(f, n) = h[N]
    <3>1. Shared(f, n) = Steps(LAMBDA x, num : ShareBlock(x, n, num), g0, Size(g0, n))
      BY <1>4 DEF Shared, Covered
    <3> HIDE DEF g0
    <3>2. Shared(f, n) = Steps(LAMBDA x, num : ShareBlock(x, n, num), g0, Size(f, n))
      BY <2>1, <3>1
    <3> QED
      BY <3>2 DEF Steps
  <2> HIDE DEF g0, g1
  <2>3. ASSUME NEW k \in 0 .. N - 1, NEW x \in I[k] PROVE On(x, k) \in I[k + 1]
    <3>1. k \in 0 .. N /\ k + 1 \in 0 .. N /\ k \in Nat /\ k <= Size(f, n)
      BY <1>1
    <3>2. x \in Mid(f, w, Upto(n, k), r)
      BY <3>1
    <3>3. CASE k < ND + NIND
      <4>1. On(x, k) \in Mid(f, w, Upto(n, k) \cup {Place(n, k)}, r)
        BY <1>4, <3>1, <3>2, <3>3, BlockShared, UptoFacts
      <4> HIDE DEF On
      <4> QED
        BY <3>1, <3>3, <4>1, UptoFacts
    <3>4. CASE k >= ND + NIND
      <4>1. x.inode[n].addr[Double] = 0
        BY <1>2, <1>4, <3>2 DEF AllFine, Trim
      <4>2. On(x, k) = x
        BY <3>1, <3>4, <4>1, GetBlkIs DEF ShareBlock, Resolved, Second, Mark
      <4> HIDE DEF On
      <4> QED
        BY <3>1, <3>2, <3>4, <4>2, UptoFacts
    <3> QED
      BY <3>1, <3>3, <3>4, Constants
  <2>4. \A k \in 0 .. N - 1 : \A x \in I[k] : x \in FsType /\ T[k][x] = On(x, k) /\ T[k][x] \in I[k + 1]
    <3> TAKE k \in 0 .. N - 1
    <3> TAKE x \in I[k]
    <3>1. x \in FsType
      BY <1>1 DEF Mid
    <3>2. T[k][x] = On(x, k)
      BY <3>1
    <3> HIDE DEF I, On, T
    <3> QED
      BY <2>3, <3>1, <3>2
  <2>5. I \in [0 .. N -> SUBSET FsType]
    BY DEF Mid
  <2>6. PICK g : Solves(N, FsType, I, g0, T, g)
    <3> HIDE DEF I, T, N, On
    <3>1. Leads(N, FsType, I, g0, T)
      BY <1>1, <2>1, <2>4, <2>5 DEF Leads
    <3> QED
      BY <3>1, RecursionSolved
  <2>7. Eq(g)
    <3> HIDE DEF I, T, On
    <3>1. \A k \in 0 .. N : g[k] = IF k = 0 THEN g0 ELSE On(g[k - 1], k - 1)
      <4> TAKE k \in 0 .. N
      <4>1. CASE k = 0
        BY <2>6, <4>1 DEF Solves
      <4>2. CASE k # 0
        <5>1. k - 1 \in 0 .. N - 1 /\ k - 1 \in 0 .. N /\ (k - 1) + 1 = k
          BY <1>1, <4>2
        <5> HIDE DEF N
        <5>2. g[(k - 1) + 1] = T[k - 1][g[k - 1]] /\ g[k - 1] \in I[k - 1]
          BY <2>6, <5>1 DEF Solves
        <5>3. T[k - 1][g[k - 1]] = On(g[k - 1], k - 1)
          BY <2>4, <5>1, <5>2
        <5> QED
          BY <4>2, <5>1, <5>2, <5>3
      <4> QED
        BY <4>1, <4>2
    <3> QED
      BY <2>6, <3>1 DEF Solves
  <2>8. Eq(h)
    <3> HIDE DEF Eq
    <3> QED
      BY <2>7
  <2>9. h[0] = g0 /\ \A k \in 0 .. N - 1 : h[k + 1] = On(h[k], k)
    <3> HIDE DEF h, On
    <3>1. \A k \in 0 .. N : h[k] = IF k = 0 THEN g0 ELSE On(h[k - 1], k - 1)
      BY <2>8
    <3>2. 0 \in 0 .. N
      BY <1>1
    <3>3. ASSUME NEW k \in 0 .. N - 1 PROVE h[k + 1] = On(h[k], k)
      <4>1. k + 1 \in 0 .. N /\ k + 1 # 0 /\ (k + 1) - 1 = k
        BY <1>1
      <4>2. h[k + 1] = IF k + 1 = 0 THEN g0 ELSE On(h[(k + 1) - 1], (k + 1) - 1)
        BY <3>1, <4>1
      <4> QED
        BY <4>1, <4>2
    <3> QED
      BY <3>1, <3>2, <3>3
  <2>10. h[N] \in I[N]
    <3> HIDE DEF h, On, I, Eq, N
    <3>1. Along(N, h, I)
      BY <1>1, <2>1, <2>3, <2>9 DEF Along
    <3> QED
      BY <3>1, AlongSteps
  <2> HIDE DEF h
  <2>11. h[N] \in Mid(f, w, Upto(n, N), r)
    BY <1>1, <2>10
  <2>12. \A u \in Before(n + 1) \ Upto(n, N) : At(h[N])[u] = 0
    <3> TAKE u \in Before(n + 1) \ Upto(n, N)
    <3>1. u \in Places /\ u[1] = n /\ u \notin Upto(n, N) /\ u[2] \in Nat /\ ND \in Nat
      <4>1. u \in Before(n + 1) /\ u \notin Before(n) /\ u \notin Upto(n, N)
        BY <1>1, UptoFacts
      <4>2. u \in Places /\ u[1] = n
        BY <1>1, <4>1, UptoFacts DEF Before
      <4> QED
        BY <4>1, <4>2, PlaceFacts, Constants
    <3>2. u[2] # ND /\ ~(u[2] < ND /\ u[2] < N) /\ ~(u[2] > ND /\ u[2] <= N)
      BY <3>1 DEF Upto
    <3>3. Size(h[N], n) = Size(f, n)
      BY <1>2, <2>11
    <3>4. ~InFile(h[N], u)
      BY <1>1, <3>1, <3>2, <3>3 DEF InFile
    <3> QED
      BY <3>1, <3>4 DEF At
  <2>13. Upto(n, N) \subseteq Before(n + 1) /\ Before(n + 1) \subseteq Places
    BY <1>1, UptoFacts DEF Before
  <2> QED
    BY <2>2, <2>11, <2>12, <2>13, MidWider
<1> QED
  BY <1>3, <1>4

-----------------------------------------------------------------------------
(* Pass 2: the free list                                                   *)

\* A full s_free is read back as it was stored.
LEMMA ListStored ==
  ASSUME NEW l \in Seq(Nat), Len(l) = FREEMAX
  PROVE  ListBlock(l) \in BlockType /\ ListOf(ListBlock(l)) = l
<1> DEFINE c == ListBlock(l)
<1>1. FREEMAX \in Nat /\ FREEMAX < NIND /\ NIND \in Nat /\ NIND > 0
  BY FsckAssumption
<1>2. \A k \in 1 .. FREEMAX : l[k] \in Nat
  OBVIOUS
<1>3. c = [k \in 0 .. NIND - 1 |->
             IF k = 0 THEN FREEMAX ELSE IF k \in 1 .. FREEMAX THEN l[k] ELSE 0]
  BY DEF ListBlock
<1>4. c \in BlockType
  BY <1>1, <1>2, <1>3 DEF BlockType
<1>5. c[0] = FREEMAX /\ \A k \in 1 .. FREEMAX : c[k] = l[k]
  BY <1>1, <1>3
<1>6. ListOf(c) = [k \in 1 .. FREEMAX |-> l[k]]
  BY <1>5 DEF ListOf
<1>7. l = [k \in 1 .. FREEMAX |-> l[k]]
  OBVIOUS
<1> QED
  BY <1>4, <1>6, <1>7

LEMMA OnList ==
  ASSUME NEW f \in FsType, NEW F, NEW K, Listing(f, F, K), NEW b \in DataBlocks, b \notin f.bitmap,
         \A y \in F : y > b
  PROVE  LET g == PutOnList(f, b)
         IN /\ g \in FsType /\ g.inode = f.inode /\ g.bitmap = f.bitmap /\ g.tfree = f.tfree + 1
            /\ g.panic = f.panic
            /\ \A d \in Blocks : d # b => g.disk[d] = f.disk[d]
            /\ \E K2 : Listing(g, F \cup {b}, K2)
<1> DEFINE full == Len(f.free) = FREEMAX
           block == IF full THEN ListBlock(f.free) ELSE f.disk[b]
           free == Append(IF full THEN <<>> ELSE f.free, b)
           K2 == IF full THEN K \cup {b} ELSE K
           g == PutOnList(f, b)
<1>1. /\ F \in SUBSET DataBlocks /\ K \in SUBSET F /\ Tidy(f.free, F, K) /\ b \in Blocks /\ b \in Nat
      /\ f.disk \in [Blocks -> BlockType] /\ f.free \in Seq(Nat) /\ f.tfree \in Int /\ F \subseteq Nat
  BY StateFacts, Constants DEF Listing
<1>2. ASSUME full PROVE ListBlock(f.free) \in BlockType /\ ListOf(ListBlock(f.free)) = f.free
  BY <1>1, <1>2, ListStored
<1>3. block \in BlockType /\ (full => ListOf(block) = f.free)
  <2>1. f.disk[b] \in BlockType
    BY <1>1
  <2> QED
    BY <1>2, <2>1
<1>4. free \in Seq(Nat) /\ Tidy(free, F \cup {b}, K2)
  <2>1. Tidy(Append(f.free, b), F \cup {b}, K) /\ Tidy(<<b>>, F \cup {b}, K \cup {b})
    BY <1>1, TidyAppend
  <2>2. CASE full
    <3>1. free = <<b>> /\ K2 = K \cup {b}
      BY <2>2
    <3> HIDE DEF free, K2
    <3> QED
      BY <2>1, <3>1 DEF Tidy
  <2>3. CASE ~full
    <3>1. free = Append(f.free, b) /\ K2 = K
      BY <2>3
    <3> HIDE DEF free, K2
    <3> QED
      BY <2>1, <3>1 DEF Tidy
  <2> QED
    BY <2>2, <2>3
<1>5. g = [f EXCEPT !.disk = [f.disk EXCEPT ![b] = block], !.free = free, !.tfree = f.tfree + 1]
  BY DEF PutOnList
<1> HIDE DEF block, free, g, full
<1>6. /\ [f.disk EXCEPT ![b] = block] \in [Blocks -> BlockType]
      /\ \A d \in Blocks : [f.disk EXCEPT ![b] = block][d] = IF d = b THEN block ELSE f.disk[d]
      /\ f.tfree + 1 \in Int
  BY <1>1, <1>3
<1>7. /\ g \in FsType /\ g.inode = f.inode /\ g.bitmap = f.bitmap /\ g.tfree = f.tfree + 1
      /\ g.free = free /\ g.disk = [f.disk EXCEPT ![b] = block] /\ g.panic = f.panic
  BY <1>4, <1>5, <1>6 DEF FsType
<1>8. \A d \in Blocks : g.disk[d] = IF d = b THEN block ELSE f.disk[d]
  BY <1>6, <1>7
<1>9. Listing(g, F \cup {b}, K2)
  <2>1. K2 \subseteq F \cup {b} /\ F \cup {b} \subseteq DataBlocks /\ Tidy(g.free, F \cup {b}, K2)
    BY <1>1, <1>4, <1>7
  <2>2. ASSUME NEW d \in K2 PROVE Tidy(ListOf(g.disk[d]), Above(F \cup {b}, d), Above(K2, d))
    <3>1. CASE d = b
      <4>1. ListOf(g.disk[d]) = f.free
        <5>1. full
          BY <1>1, <3>1 DEF K2
        <5> QED
          BY <1>1, <1>3, <1>8, <3>1, <5>1
      <4>2. \A y \in F : y > b /\ y \in Nat
        BY <1>1
      <4>3. K2 = K \cup {b}
        <5>1. full
          BY <1>1, <3>1, <4>2 DEF K2
        <5> QED
          BY <5>1 DEF K2
      <4>4. Above(F \cup {b}, d) = F
        <5>1. ~(b > d) /\ \A y \in F : y > d
          BY <1>1, <3>1, <4>2
        <5> QED
          BY <5>1 DEF Above
      <4>5. Above(K2, d) = K
        <5>1. \A y \in K : y > d
          BY <1>1, <3>1, <4>2
        <5>2. ~(b > d)
          BY <1>1, <3>1
        <5> HIDE DEF K2
        <5> QED
          BY <4>3, <5>1, <5>2 DEF Above
      <4> QED
        BY <1>1, <4>1, <4>4, <4>5
    <3>2. CASE d # b
      <4>1. d \in K /\ d \in Blocks /\ d > b
        BY <1>1, <3>2, Constants
      <4>2. Above(F \cup {b}, d) = Above(F, d) /\ Above(K2, d) = Above(K, d)
        BY <1>1, <4>1 DEF Above
      <4>3. ListOf(g.disk[d]) = ListOf(f.disk[d])
        BY <1>8, <3>2, <4>1
      <4> QED
        BY <4>1, <4>2, <4>3 DEF Listing
    <3> QED
      BY <3>1, <3>2
  <2> HIDE DEF K2
  <2> QED
    BY <2>1, <2>2 DEF Listing
<1> QED
  BY <1>7, <1>8, <1>9 DEF g

\* The blocks from FSize - k on that have no mark.
Last1(f, k) == {d \in DataBlocks : d \notin f.bitmap /\ d >= FSize - k}
OnListed(f, k) ==
  {g \in FsType : /\ g.inode = f.inode /\ g.bitmap = f.bitmap /\ g.panic = f.panic
                  /\ g.tfree = Cardinality(Last1(f, k))
                  /\ \E K : Listing(g, Last1(f, k), K)
                  /\ \A d \in Blocks : d \notin Last1(f, k) => g.disk[d] = f.disk[d]}

LEMMA OnListStep ==
  ASSUME NEW f \in FsType, NEW k \in 0 .. FSize - ISize - 1, NEW g \in OnListed(f, k)
  PROVE  PutOnList(g, FSize - 1 - k) \in OnListed(f, k + 1)
<1> DEFINE b == FSize - 1 - k
           F == Last1(f, k)
           h == PutOnList(g, b)
<1>1. /\ b \in DataBlocks /\ b \in Nat /\ k \in Nat /\ FSize - (k + 1) = b /\ FSize - k = b + 1
      /\ \A d \in DataBlocks : d \in Nat /\ (d >= FSize - k <=> d > b) /\ (d >= FSize - (k + 1) <=> d >= b)
  <2>1. FSize \in Nat /\ ISize \in Nat /\ ISize < FSize /\ DataBlocks \subseteq Nat
    BY Constants
  <2> QED
    BY <2>1 DEF DataBlocks
<1> HIDE DEF b
<1>2. b \notin F /\ \A y \in F : y > b
  BY <1>1 DEF Last1
<1>3. g \in FsType /\ g.bitmap = f.bitmap /\ g.tfree = Cardinality(F) /\ \E K : Listing(g, F, K)
  BY DEF OnListed
<1>4. CASE b \in f.bitmap
  <2>1. Last1(f, k + 1) = F
    <3>1. \A d \in DataBlocks : d # b => (d > b <=> d >= b)
      BY <1>1
    <3> QED
      BY <1>1, <1>4, <3>1 DEF Last1
  <2>2. h = g
    BY <1>3, <1>4 DEF PutOnList
  <2> HIDE DEF h
  <2> QED
    BY <2>1, <2>2 DEF OnListed, h, b
<1>5. CASE b \notin f.bitmap
  <2>1. Last1(f, k + 1) = F \cup {b}
    <3>1. \A d \in DataBlocks : d >= b <=> d > b \/ d = b
      BY <1>1
    <3>2. \A d : d \in Last1(f, k + 1) <=> d \in DataBlocks /\ d \notin f.bitmap /\ d >= b
      BY <1>1 DEF Last1
    <3>3. \A d : d \in F <=> d \in DataBlocks /\ d \notin f.bitmap /\ d > b
      BY <1>1 DEF Last1
    <3> HIDE DEF F
    <3> QED
      BY <1>1, <1>5, <3>1, <3>2, <3>3
  <2>2. PICK K : Listing(g, F, K)
    BY <1>3
  <2>3. /\ h \in FsType /\ h.inode = g.inode /\ h.bitmap = g.bitmap /\ h.tfree = g.tfree + 1
        /\ h.panic = g.panic
        /\ \A d \in Blocks : d # b => h.disk[d] = g.disk[d]
        /\ \E K2 : Listing(h, F \cup {b}, K2)
    BY <1>1, <1>2, <1>3, <1>5, <2>2, OnList
  <2>4. Cardinality(F \cup {b}) = Cardinality(F) + 1
    <3>1. IsFiniteSet(F)
      <4>1. F \subseteq DataBlocks
        BY DEF Last1
      <4> QED
        BY <4>1, Constants, FS_Subset
    <3> HIDE DEF F
    <3> QED
      BY <1>2, <3>1, FS_AddElement
  <2> HIDE DEF h, F
  <2>5. /\ h.inode = f.inode /\ h.bitmap = f.bitmap /\ h.panic = f.panic
        /\ h.tfree = Cardinality(F \cup {b})
    BY <1>3, <2>3, <2>4 DEF OnListed
  <2>6. \A d \in Blocks : d \notin F \cup {b} => h.disk[d] = f.disk[d]
    BY <2>3 DEF OnListed, F
  <2> QED
    BY <2>1, <2>3, <2>5, <2>6 DEF OnListed, h, b
<1> QED
  BY <1>4, <1>5

LEMMA ListRebuilt ==
  ASSUME NEW f \in FsType
  PROVE  Rebuilt(f) \in OnListed(f, FSize - ISize)
<1> DEFINE s0 == [f EXCEPT !.free = <<0>>, !.tfree = 0]
           N == FSize - 1 - ISize + 1
           I == [k \in 0 .. N |-> OnListed(f, k)]
           On(x, k) == PutOnList(x, FSize - 1 - k)
           T == [k \in 0 .. N - 1 |-> [x \in FsType |-> On(x, k)]]
           Eq(g) == g = [k \in 0 .. N |-> IF k = 0 THEN s0 ELSE On(g[k - 1], k - 1)]
           h == CHOOSE g : Eq(g)
<1>1. N \in Nat /\ N = FSize - ISize /\ N \in 0 .. N /\ 0 \in 0 .. N
  BY Constants
<1>2. s0 \in I[0]
  <2>1. /\ s0 \in FsType /\ s0.inode = f.inode /\ s0.bitmap = f.bitmap /\ s0.tfree = 0 /\ s0.free = <<0>>
        /\ s0.disk = f.disk /\ s0.panic = f.panic
    <3> DEFINE l == <<0>>
    <3>1. l \in Seq(Nat) /\ 0 \in Int
      OBVIOUS
    <3>2. s0 = [f EXCEPT !.free = l, !.tfree = 0]
      OBVIOUS
    <3>3. l = <<0>>
      OBVIOUS
    <3> HIDE DEF l, s0
    <3> QED
      BY <3>1, <3>2, <3>3 DEF FsType
  <2>2. Last1(f, 0) = {}
    BY Constants DEF Last1, DataBlocks
  <2>3. Listing(s0, {}, {})
    <3>1. Tidy(<<0>>, {}, {})
      BY DEF Tidy
    <3> QED
      BY <2>1, <3>1 DEF Listing
  <2>4. Cardinality({}) = 0
    BY FS_EmptySet
  <2> HIDE DEF s0
  <2>5. s0 \in OnListed(f, 0)
    BY <2>1, <2>2, <2>3, <2>4 DEF OnListed
  <2> QED
    BY <1>1, <2>5
<1>3. Rebuilt(f) = h[N]
  BY DEF Rebuilt, Steps
<1> HIDE DEF s0
<1>4. ASSUME NEW k \in 0 .. N - 1, NEW x \in I[k] PROVE On(x, k) \in I[k + 1]
  <2>1. k \in 0 .. N /\ k + 1 \in 0 .. N /\ k \in 0 .. FSize - ISize - 1
    BY <1>1, Constants
  <2>2. x \in OnListed(f, k)
    BY <2>1
  <2>3. On(x, k) \in OnListed(f, k + 1)
    BY <2>1, <2>2, OnListStep
  <2> HIDE DEF On
  <2> QED
    BY <2>1, <2>3
<1>5. \A k \in 0 .. N - 1 : \A x \in I[k] : x \in FsType /\ T[k][x] = On(x, k) /\ T[k][x] \in I[k + 1]
  <2> TAKE k \in 0 .. N - 1
  <2> TAKE x \in I[k]
  <2>1. x \in FsType
    BY <1>1 DEF OnListed
  <2>2. T[k][x] = On(x, k)
    BY <2>1
  <2> HIDE DEF I, On, T
  <2> QED
    BY <1>4, <2>1, <2>2
<1>6. I \in [0 .. N -> SUBSET FsType]
  BY DEF OnListed
<1>7. PICK g : Solves(N, FsType, I, s0, T, g)
  <2> HIDE DEF I, T, N, On
  <2>1. Leads(N, FsType, I, s0, T)
    BY <1>1, <1>2, <1>5, <1>6 DEF Leads
  <2> QED
    BY <2>1, RecursionSolved
<1>8. Eq(g)
  <2> HIDE DEF I, T, On
  <2>1. \A k \in 0 .. N : g[k] = IF k = 0 THEN s0 ELSE On(g[k - 1], k - 1)
    <3> TAKE k \in 0 .. N
    <3>1. CASE k = 0
      BY <1>7, <3>1 DEF Solves
    <3>2. CASE k # 0
      <4>1. k - 1 \in 0 .. N - 1 /\ k - 1 \in 0 .. N /\ (k - 1) + 1 = k
        BY <1>1, <3>2
      <4> HIDE DEF N
      <4>2. g[(k - 1) + 1] = T[k - 1][g[k - 1]] /\ g[k - 1] \in I[k - 1]
        BY <1>7, <4>1 DEF Solves
      <4>3. T[k - 1][g[k - 1]] = On(g[k - 1], k - 1)
        BY <1>5, <4>1, <4>2
      <4> QED
        BY <3>2, <4>1, <4>2, <4>3
    <3> QED
      BY <3>1, <3>2
  <2> QED
    BY <1>7, <2>1 DEF Solves
<1>9. Eq(h)
  <2> HIDE DEF Eq
  <2> QED
    BY <1>8
<1>10. h[0] = s0 /\ \A k \in 0 .. N - 1 : h[k + 1] = On(h[k], k)
  <2> HIDE DEF h, On
  <2>1. \A k \in 0 .. N : h[k] = IF k = 0 THEN s0 ELSE On(h[k - 1], k - 1)
    BY <1>9
  <2>2. ASSUME NEW k \in 0 .. N - 1 PROVE h[k + 1] = On(h[k], k)
    <3>1. k + 1 \in 0 .. N /\ k + 1 # 0 /\ (k + 1) - 1 = k
      BY <1>1
    <3>2. h[k + 1] = IF k + 1 = 0 THEN s0 ELSE On(h[(k + 1) - 1], (k + 1) - 1)
      BY <2>1, <3>1
    <3> QED
      BY <3>1, <3>2
  <2> QED
    BY <1>1, <2>1, <2>2
<1>11. h[N] \in I[N]
  <2> HIDE DEF h, On, I, Eq, N
  <2>1. Along(N, h, I)
    BY <1>1, <1>2, <1>4, <1>10 DEF Along
  <2> QED
    BY <2>1, AlongSteps
<1> HIDE DEF h
<1>12. h[N] \in OnListed(f, FSize - ISize)
  BY <1>1, <1>11
<1> QED
  BY <1>3, <1>12

(* After pass 2 the blocks without a mark are free and the others are in   *)
(* places, if the marked ones are.                                         *)
Mapped(f) ==
  /\ \A u \in Places : At(f)[u] \in f.bitmap \cup {0}
  /\ Met(At(f), f.bitmap, Places)
LEMMA FreeListMade ==
  ASSUME NEW f \in FsType, NEW w, NEW r, Sound(f, w), Mapped(f), Roomy(w) => r \/ Separate(At(f))
  PROVE  LET g == [Rebuilt(f) EXCEPT !.bitmap = @ \ DataBlocks]
         IN g \in Mid(g, w, Before(Root), r) /\ At(g) = At(f) /\ Heads(f, g)
<1> DEFINE h == Rebuilt(f)
           F == Last1(f, FSize - ISize)
           g == [h EXCEPT !.bitmap = @ \ DataBlocks]
<1>1. F = DataBlocks \ f.bitmap
  BY Constants DEF Last1, DataBlocks
<1>2. h \in OnListed(f, FSize - ISize)
  BY ListRebuilt
<1>3. /\ h \in FsType /\ h.inode = f.inode /\ h.tfree = Cardinality(F) /\ h.panic = f.panic
      /\ \A d \in Blocks : d \notin F => h.disk[d] = f.disk[d]
  BY <1>2 DEF OnListed
<1>4. PICK K : Listing(h, F, K)
  BY <1>2 DEF OnListed
<1> HIDE DEF h, F
<1>5. /\ g \in FsType /\ g.inode = f.inode /\ g.disk = h.disk /\ g.free = h.free
      /\ g.tfree = Cardinality(F) /\ g.bitmap = h.bitmap \ DataBlocks /\ g.panic = f.panic
  <2>1. h.bitmap \ DataBlocks \in SUBSET Nat
    BY <1>3, StateFacts
  <2> QED
    BY <1>3, <2>1 DEF FsType
<1> HIDE DEF g
<1>6. AllFine(f) /\ Heads(f, g)
  BY <1>5 DEF Sound, Heads
<1>7. \A u \in Places : At(f)[u] \in Blocks /\ At(f)[u] \notin F
  <2> TAKE u \in Places
  <2>1. At(f)[u] \in Numbers /\ At(f)[u] \in f.bitmap \cup {0}
    BY <1>6, FineFacts DEF Mapped
  <2> QED
    BY <1>1, <2>1, Constants DEF Numbers
<1>8. \A u \in Places : g.disk[At(f)[u]] = f.disk[At(f)[u]]
  BY <1>3, <1>5, <1>7
<1>9. /\ Heads(f, g) /\ \A u \in Places : HasBlocks(g, u[1]) <=> HasBlocks(f, u[1])
      /\ \A u \in Places : InFile(g, u) <=> InFile(f, u)
  BY <1>6 DEF Heads, HasBlocks, Mode, InFile, Size, Places
<1>10. \A u \in Places : HasBlocks(f, u[1]) => Val(g, u) = Val(f, u)
  <2> SUFFICES ASSUME NEW u \in Places, HasBlocks(f, u[1]) PROVE Val(g, u) = Val(f, u)
    OBVIOUS
  <2>1. At(f)[Root2(u)] = f.inode[u[1]].addr[Single] /\ Root2(u) \in Places
    BY <1>6, FineFacts, PlaceFacts
  <2>2. g.disk[f.inode[u[1]].addr[Single]] = f.disk[f.inode[u[1]].addr[Single]]
    BY <1>8, <2>1
  <2> QED
    BY <1>5, <2>2 DEF Val
<1>11. At(g) = At(f) /\ Filled(g) = Filled(f)
  <2>1. \A u \in Places : (IF InFile(g, u) THEN Val(g, u) ELSE 0) = IF InFile(f, u) THEN Val(f, u) ELSE 0
    BY <1>9, <1>10 DEF InFile
  <2>2. At(g) = At(f)
    BY <2>1 DEF At
  <2>3. Filled(g) = Filled(f)
    BY <1>5, <1>9, <1>10 DEF Filled
  <2> QED
    BY <2>2, <2>3
<1>12. Sound(g, w)
  <2>1. AllFine(g)
    BY <1>5, <1>6, <1>11 DEF AllFine, Trim, HasBlocks, Mode, Size
  <2>2. \A u \in TextPlaces(w) : KeptAt(g, w, u)
    <3> TAKE u \in TextPlaces(w)
    <3>1. u \in Places /\ KeptAt(f, w, u)
      BY DEF Sound, TextPlaces
    <3>2. Indirect(g) = Indirect(f)
      BY <1>5 DEF Indirect, HasBlocks, Mode
    <3> QED
      BY <1>5, <1>8, <1>11, <3>1, <3>2 DEF KeptAt, Mode
  <2> QED
    BY <1>11, <2>1, <2>2 DEF Sound
<1>13. Freed(g, F)
  <2>1. Listing(g, F, K)
    BY <1>4, <1>5 DEF Listing
  <2> QED
    BY <1>5, <1>7, <1>11, <2>1 DEF Freed, Apart
<1>14. Shares(g, w, F, Before(Root), r)
  <2>1. Before(Root) = {}
    BY PlaceFacts, Constants DEF Before, Inodes, Root
  <2>2. Sharing(At(g), g.bitmap, {}, r) /\ Met(At(g), g.bitmap, {})
    BY <1>5 DEF Sharing, Met
  <2>3. Cover(At(g), F)
    BY <1>1, <1>11 DEF Cover, Mapped, Met
  <2> QED
    BY <1>11, <2>1, <2>2, <2>3 DEF Shares
<1> QED
  BY <1>5, <1>9, <1>11, <1>12, <1>13, <1>14 DEF Mid, Heads, g, h

-----------------------------------------------------------------------------
(* Pass 1: the size of a file                                              *)

LEMMA AllFineIs ==
  ASSUME NEW f
  PROVE  AllFine(f) <=> \A n \in Inodes : Fine(f, n)
<1>1. At(f) = [u \in Places |-> At(f)[u]]
  BY DEF At
<1>2. (\A u \in Places : At(f)[u] \in Numbers) <=> At(f) \in [Places -> Numbers]
  BY <1>1
<1>3. \A u \in Places : u[1] \in Inodes
  BY PlaceFacts
<1> QED
  BY <1>2, <1>3 DEF AllFine, Fine

LEMMA FineShallow ==
  ASSUME NEW f, NEW n \in Inodes, Fine(f, n)
  PROVE  Shallow(f, n)
BY Constants DEF Fine, Trim, Shallow

\* What a look at inode n leaves as it is.
Keeps(f, g, n) ==
  /\ \A m \in Inodes \ {n} : (Fine(f, m) => Fine(g, m)) /\ (Shallow(f, m) => Shallow(g, m))
  /\ Filled(g) \subseteq Filled(f)
  /\ \A w : \A u \in TextPlaces(w) : KeptAt(f, w, u) => KeptAt(g, w, u)
  /\ AllFine(f) => AllFine(g) /\ Less(At(f), At(g))
\* The places of P are looked at: their blocks, and no others, are marked.
Seen(f, P) ==
  /\ \A u \in P : At(f)[u] \in Numbers /\ At(f)[u] \in f.bitmap \cup {0}
  /\ Met(At(f), f.bitmap, P)

LEMMA KeepsKeeps ==
  ASSUME NEW f, NEW g, NEW h, NEW n, Keeps(f, g, n), Keeps(g, h, n)
  PROVE  Keeps(f, h, n)
<1>1. AllFine(f) => AllFine(h) /\ Less(At(f), At(h))
  BY DEF Keeps, Less
<1>2. \A w : \A u \in TextPlaces(w) : KeptAt(f, w, u) => KeptAt(h, w, u)
  BY DEF Keeps
<1>3. Filled(h) \subseteq Filled(f)
  BY DEF Keeps
<1> QED
  BY <1>1, <1>2, <1>3 DEF Keeps

\* The inode of f, as CheckMode and CheckSize leave it in g.
Opened(f, g, n) ==
  /\ g \in FsType /\ g.disk = f.disk /\ g.bitmap = f.bitmap /\ g.panic = f.panic
  /\ \A m \in Inodes : m # n => g.inode[m] = f.inode[m]
  /\ g.inode[n].addr = f.inode[n].addr
  /\ g.inode[n].mode = f.inode[n].mode \/ g.inode[n].mode = "none"

PutSize(z, b, o) == [z EXCEPT !.blkno = b, !.offset = o]
PutMode(z, m, k) == [z EXCEPT !.mode = m, !.nlink = k]
PutLinks(z, k) == [z EXCEPT !.nlink = k]

IsPut(z, y) == y \in InodeType /\ y.addr = z.addr
LEMMA SizePut ==
  ASSUME NEW z \in InodeType, NEW b \in Nat, NEW o \in Int
  PROVE  LET y == PutSize(z, b, o)
         IN /\ IsPut(z, y) /\ y.mode = z.mode
            /\ y.blkno = b /\ y.offset = o
BY DEF InodeType, PutSize, IsPut

LEMMA ModePut ==
  ASSUME NEW z \in InodeType, NEW m \in Modes, NEW k \in Int
  PROVE  LET y == PutMode(z, m, k)
         IN IsPut(z, y) /\ y.mode = m /\ y.blkno = z.blkno /\ y.offset = z.offset
BY DEF InodeType, PutMode, IsPut

LEMMA LinksPut ==
  ASSUME NEW z \in InodeType, NEW k \in Int
  PROVE  LET y == PutLinks(z, k)
         IN IsPut(z, y) /\ y.mode = z.mode /\ y.blkno = z.blkno /\ y.offset = z.offset
BY DEF InodeType, PutLinks, IsPut

LEMMA ModeOpened ==
  ASSUME NEW f \in FsType, NEW n \in Inodes, NEW k \in Int
  PROVE  LET g == CheckMode([f EXCEPT !.linkmap[n] = k], n)
         IN /\ Opened(f, g, n) /\ Mode(g, n) # "bad"
            /\ g.inode[n].blkno = f.inode[n].blkno /\ g.inode[n].offset = f.inode[n].offset
            /\ Mode(f, n) # "bad" => g.inode[n] = f.inode[n]
<1> DEFINE e == [f EXCEPT !.linkmap[n] = k]
           a == Ask(e, "mode")
           i == PutMode(a.inode[n], "none", 0)
           inode == [a.inode EXCEPT ![n] = i]
           g == CheckMode(e, n)
<1>1. e \in FsType /\ e.inode = f.inode /\ e.disk = f.disk /\ e.bitmap = f.bitmap /\ e.panic = f.panic
  <2>1. [f.linkmap EXCEPT ![n] = k] \in [0 .. NL - 1 -> Int]
    BY DEF FsType
  <2>2. e = [f EXCEPT !.linkmap = [f.linkmap EXCEPT ![n] = k]]
    OBVIOUS
  <2> QED
    BY <2>1, <2>2 DEF FsType
<1> HIDE DEF e
<1>2. CASE Mode(e, n) # "bad"
  <2>1. g = e
    BY <1>2 DEF CheckMode
  <2> HIDE DEF g
  <2> QED
    BY <1>1, <1>2, <2>1 DEF Opened, g, e, Mode
<1>3. CASE Mode(e, n) = "bad"
  <2>1. a \in FsType /\ a.inode = f.inode /\ a.disk = f.disk /\ a.bitmap = f.bitmap /\ a.panic = f.panic
    BY <1>1, AskedSame DEF SameDisk, Strings
  <2>2. g = [a EXCEPT !.inode = inode]
    BY <1>3 DEF CheckMode, PutMode
  <2> HIDE DEF a
  <2>3. a.inode \in [Inodes -> InodeType] /\ a.inode[n] \in InodeType
    BY <2>1, StateFacts
  <2>4. /\ i \in InodeType /\ i.mode = "none" /\ i.addr = f.inode[n].addr
        /\ i.blkno = f.inode[n].blkno /\ i.offset = f.inode[n].offset
    <3>1. "none" \in Modes /\ 0 \in Int
      BY DEF Modes
    <3> QED
      BY <2>1, <2>3, <3>1, ModePut DEF IsPut
  <2> HIDE DEF i
  <2>5. inode \in [Inodes -> InodeType] /\ inode[n] = i /\ \A m \in Inodes : m # n => inode[m] = f.inode[m]
    BY <2>1, <2>3, <2>4
  <2> HIDE DEF inode, g
  <2>6. g \in FsType /\ g.inode = inode /\ g.disk = f.disk /\ g.bitmap = f.bitmap /\ g.panic = f.panic
    BY <2>1, <2>2, <2>5 DEF FsType
  <2> QED
    BY <1>1, <1>3, <2>4, <2>5, <2>6 DEF Opened, g, e, Mode
<1> QED
  BY <1>2, <1>3

LEMMA SizeOpened ==
  ASSUME NEW f \in FsType, NEW n \in Inodes, NEW k \in Int
  PROVE  LET g == CheckSize([f EXCEPT !.linkmap[n] = k], n)
         IN /\ Opened(f, g, n) /\ Mode(g, n) = Mode(f, n)
            /\ g.inode[n].blkno = Ends(f.inode[n]) /\ g.inode[n].offset \in 0 .. BS - 1
            /\ f.inode[n].offset \in 0 .. BS - 1 => g.inode[n] = f.inode[n]
<1> DEFINE e == [f EXCEPT !.linkmap[n] = k]
           a == Ask(e, "size")
           old == f.inode[n]
           g == CheckSize(e, n)
<1>1. e \in FsType /\ e.inode = f.inode /\ e.disk = f.disk /\ e.bitmap = f.bitmap /\ e.panic = f.panic
  <2>1. [f.linkmap EXCEPT ![n] = k] \in [0 .. NL - 1 -> Int]
    BY DEF FsType
  <2>2. e = [f EXCEPT !.linkmap = [f.linkmap EXCEPT ![n] = k]]
    OBVIOUS
  <2> QED
    BY <2>1, <2>2 DEF FsType
<1>2. old \in InodeType /\ old.offset \in Int /\ old.blkno \in Nat
  BY StateFacts
<1> HIDE DEF e
<1>3. a \in FsType /\ a.inode = f.inode /\ a.disk = f.disk /\ a.bitmap = f.bitmap /\ a.panic = f.panic
  BY <1>1, AskedSame DEF SameDisk, Strings
<1> HIDE DEF a
<1>4. ASSUME NEW b \in Nat, NEW o \in 0 .. BS - 1, NEW y, y = PutSize(old, b, o),
             g = [a EXCEPT !.inode = [a.inode EXCEPT ![n] = y]]
      PROVE  Opened(f, g, n) /\ Mode(g, n) = Mode(f, n) /\ g.inode[n].blkno = b /\ g.inode[n].offset = o
  <2>1. /\ y \in InodeType /\ y.mode = old.mode /\ y.addr = old.addr
        /\ y.blkno = b /\ y.offset = o
    <3>1. b \in Nat /\ o \in Int
      BY BlockSize
    <3> HIDE DEF g, old
    <3>2. \A u \in InodeType : LET x == PutSize(u, b, o)
                               IN IsPut(u, x) /\ x.mode = u.mode /\ x.blkno = b /\ x.offset = o
      BY <3>1, SizePut
    <3>3. y = PutSize(old, b, o) /\ old \in InodeType
      BY <1>2, <1>4
    <3> QED
      BY <3>2, <3>3 DEF IsPut
  <2> DEFINE inode == [a.inode EXCEPT ![n] = y]
  <2>2. inode \in [Inodes -> InodeType] /\ inode[n] = y /\ \A m \in Inodes : m # n => inode[m] = f.inode[m]
    BY <1>3, <2>1, StateFacts
  <2>3. g = [a EXCEPT !.inode = inode]
    BY <1>4
  <2> HIDE DEF inode, g
  <2>4. g \in FsType /\ g.inode = inode /\ g.disk = f.disk /\ g.bitmap = f.bitmap /\ g.panic = f.panic
    BY <1>3, <2>2, <2>3 DEF FsType
  <2> QED
    BY <2>1, <2>2, <2>4 DEF Opened, g, Mode
<1>5. CASE old.offset >= BS
  <2> DEFINE b == old.blkno + old.offset \div BS
             o == old.offset % BS
  <2>1. o \in 0 .. BS - 1 /\ b \in Nat
    BY <1>2, <1>5, BlockSize
  <2>2. g = [a EXCEPT !.inode = [a.inode EXCEPT ![n] = PutSize(old, b, o)]]
    <3>1. e.inode[n].offset >= BS /\ e.inode[n] = old
      BY <1>1, <1>5
    <3>2. g = [a EXCEPT !.inode[n] = PutSize(e.inode[n], b, o)]
      <4>1. g = [a EXCEPT !.inode[n] = Longer(e.inode[n])]
        <5> HIDE DEF old
        <5>1. ~(e.inode[n].offset < 0)
          BY <1>2, <3>1, BlockSize
        <5> QED
          BY <3>1, <5>1 DEF CheckSize, a
      <4>2. Longer(e.inode[n]) = PutSize(e.inode[n], b, o)
        <5> HIDE DEF old
        <5> QED
          BY <3>1 DEF PutSize, Longer, Ends
      <4> HIDE DEF b, o, old, g
      <4> QED
        BY <4>1, <4>2
    <3> HIDE DEF g, old, b, o
    <3> QED
      BY <3>1, <3>2
  <2>3. Ends(old) = b /\ ~(old.offset \in 0 .. BS - 1)
    BY <1>2, <1>5, BlockSize DEF Ends
  <2> HIDE DEF g, b, o, old
  <2> QED
    BY <1>4, <2>1, <2>2, <2>3 DEF g, e, old
<1>6. CASE old.offset < 0
  <2>1. g = [a EXCEPT !.inode = [a.inode EXCEPT ![n] = PutSize(old, old.blkno, 0)]]
    <3>1. g = [a EXCEPT !.inode[n].offset = 0]
      <4>1. e.inode[n].offset < 0 /\ ~(e.inode[n].offset >= BS)
        BY <1>1, <1>2, <1>6, BlockSize
      <4> QED
        BY <4>1 DEF CheckSize, a
    <3>2. a.inode[n] = old
      BY <1>3
    <3>3. a.inode \in [Inodes -> InodeType]
      BY <1>3, StateFacts
    <3> HIDE DEF g, old
    <3> QED
      BY <1>2, <1>3, <3>1, <3>2, <3>3 DEF FsType, InodeType, PutSize
  <2>2. Ends(old) = old.blkno /\ 0 \in 0 .. BS - 1 /\ ~(old.offset \in 0 .. BS - 1)
    BY <1>2, <1>6, BlockSize DEF Ends
  <2> HIDE DEF g, old
  <2> QED
    BY <1>2, <1>4, <2>1, <2>2 DEF g, e, old
<1>7. CASE old.offset \in 0 .. BS - 1
  <2>1. g = e
    BY <1>1, <1>2, <1>7, BlockSize DEF CheckSize
  <2>2. Ends(old) = old.blkno
    BY <1>2, <1>7, BlockSize DEF Ends
  <2> HIDE DEF g
  <2> QED
    BY <1>1, <1>7, <2>1, <2>2 DEF Opened, Mode, g, e, old
<1>8. old.offset >= BS \/ old.offset < 0 \/ old.offset \in 0 .. BS - 1
  BY <1>2, BlockSize
<1> QED
  BY <1>5, <1>6, <1>7, <1>8

(* Opening inode n keeps the others, and what its file had in its blocks.  *)
LEMMA OpenedKeeps ==
  ASSUME NEW f \in FsType, NEW n \in Inodes, NEW g, Opened(f, g, n),
         g.inode[n].mode # "none" => g.inode[n].blkno >= f.inode[n].blkno,
         HasBlocks(f, n) /\ Fine(f, n) =>
           g.inode[n].blkno = f.inode[n].blkno /\ g.inode[n].offset = f.inode[n].offset,
         Ends(g.inode[n]) = Ends(f.inode[n])
  PROVE  /\ Keeps(f, g, n)
         /\ \A P : Seen(f, P) /\ (\A u \in P : u \in Places /\ u[1] # n) => Seen(g, P)
<1>1. /\ g \in FsType /\ g.disk = f.disk /\ g.bitmap = f.bitmap
      /\ \A m \in Inodes : m # n => g.inode[m] = f.inode[m]
      /\ \A m \in Inodes : g.inode[m].addr = f.inode[m].addr
      /\ g.inode[n].mode = f.inode[n].mode \/ g.inode[n].mode = "none"
  BY DEF Opened
<1>2. \A m \in Inodes : g.inode[m].blkno \in Nat /\ f.inode[m].blkno \in Nat
  BY <1>1, StateFacts
<1>3. \A u \in Places : u[1] \in Inodes /\ u[2] \in Nat
  BY PlaceFacts, Constants
<1>4. \A u \in Places : Val(g, u) = Val(f, u)
  BY <1>1, <1>3 DEF Val
<1>5. \A u \in Places : HasBlocks(g, u[1]) => HasBlocks(f, u[1])
  BY <1>1, <1>3 DEF HasBlocks, Mode
<1>6. \A u \in Places : u[1] # n => (InFile(g, u) <=> InFile(f, u))
  BY <1>1, <1>3 DEF InFile, HasBlocks, Mode, Size
<1>7. \A u \in Places : HasBlocks(g, u[1]) /\ InFile(f, u) => InFile(g, u)
  <2> SUFFICES ASSUME NEW u \in Places, HasBlocks(g, u[1]), InFile(f, u), u[1] = n PROVE InFile(g, u)
    BY <1>6
  <2>1. g.inode[n].mode # "none"
    BY DEF HasBlocks, Mode
  <2>2. Size(g, n) >= Size(f, n) /\ Size(g, n) \in Nat /\ Size(f, n) \in Nat /\ u[2] \in Nat
    BY <1>2, <1>3, <2>1 DEF Size
  <2> QED
    BY <2>2 DEF InFile
<1>8. \A u \in Places : u[1] # n => At(g)[u] = At(f)[u]
  BY <1>4, <1>6 DEF At
<1>9. \A u \in Places : HasBlocks(g, u[1]) /\ InFile(f, u) => At(g)[u] = At(f)[u]
  BY <1>4, <1>7 DEF At
<1>10. \A m \in Inodes \ {n} : (Fine(f, m) => Fine(g, m)) /\ (Shallow(f, m) => Shallow(g, m))
  BY <1>1, <1>8 DEF Fine, Trim, Shallow, HasBlocks, Mode, Size
<1>11. Filled(g) \subseteq Filled(f)
  BY <1>1, <1>3, <1>4, <1>5 DEF Filled
<1>12. \A w : \A u \in TextPlaces(w) : KeptAt(f, w, u) => KeptAt(g, w, u)
  <2> SUFFICES ASSUME NEW w, NEW u \in TextPlaces(w), KeptAt(f, w, u), Mode(g, u[1]) = "reg"
               PROVE  KeptAt(g, w, u)
    BY DEF KeptAt
  <2>1. u \in Places /\ u[1] \in Inodes
    BY <1>3 DEF TextPlaces
  <2>2. Mode(f, u[1]) = "reg" /\ HasBlocks(g, u[1])
    BY <1>1, <2>1 DEF Mode, HasBlocks
  <2>3. /\ At(f)[u] \in DataBlocks \ Indirect(f) /\ f.disk[At(f)[u]] = w.disk[At(w)[u]]
        /\ Inner(u) => At(f)[Root2(u)] \in DataBlocks
    BY <2>2 DEF KeptAt
  <2>4. At(g)[u] = At(f)[u]
    BY <1>9, <2>1, <2>2, <2>3, Constants DEF At
  <2>5. Inner(u) => At(g)[Root2(u)] = At(f)[Root2(u)]
    BY <1>9, <2>1, <2>2, <2>3, Constants, PlaceFacts DEF At
  <2>6. Indirect(g) \subseteq Indirect(f)
    <3>1. ASSUME NEW m \in Inodes, HasBlocks(g, m), Ends(g.inode[m]) >= ND
          PROVE  HasBlocks(f, m) /\ Ends(f.inode[m]) >= ND /\ g.inode[m].addr[Single] = f.inode[m].addr[Single]
      <4>1. g.inode[m].mode = f.inode[m].mode
        BY <1>1, <3>1 DEF HasBlocks, Mode
      <4>2. Ends(g.inode[m]) = Ends(f.inode[m])
        BY <1>1
      <4> QED
        BY <1>1, <3>1, <4>1, <4>2 DEF HasBlocks, Mode
    <3> QED
      BY <3>1 DEF Indirect
  <2> QED
    BY <1>1, <2>3, <2>4, <2>5, <2>6 DEF KeptAt
<1>13. ASSUME AllFine(f) PROVE AllFine(g) /\ Less(At(f), At(g))
  <2>1. Fine(f, n) /\ \A m \in Inodes \ {n} : Fine(g, m)
    BY <1>10, <1>13, AllFineIs
  <2>2. HasBlocks(f, n) =>
          g.inode[n].blkno = f.inode[n].blkno /\ g.inode[n].offset = f.inode[n].offset
    BY <2>1
  <2>3. \A u \in Places : At(g)[u] = At(f)[u] \/ At(g)[u] = 0
    <3> SUFFICES ASSUME NEW u \in Places, u[1] = n, At(g)[u] # 0 PROVE At(g)[u] = At(f)[u]
      BY <1>8
    <3>1. InFile(g, u)
      BY DEF At
    <3>2. InFile(f, u)
      BY <1>5, <2>2, <3>1 DEF InFile, Size
    <3> QED
      BY <1>9, <3>1, <3>2 DEF InFile
  <2>4. Fine(g, n)
    <3>1. Trim(g, n)
      BY <1>1, <2>1, <2>2 DEF Fine, Trim, HasBlocks, Mode, Size
    <3>2. \A u \in Places : u[1] = n => At(g)[u] \in Numbers
      BY <2>1, <2>3 DEF Fine, Numbers
    <3> QED
      BY <3>1, <3>2 DEF Fine
  <2> QED
    BY <2>1, <2>3, <2>4, AllFineIs DEF Less
<1>14. \A P : Seen(f, P) /\ (\A u \in P : u \in Places /\ u[1] # n) => Seen(g, P)
  BY <1>1, <1>8 DEF Seen, Met
<1> QED
  BY <1>10, <1>11, <1>12, <1>13, <1>14 DEF Keeps

-----------------------------------------------------------------------------
(* Pass 1: the blocks of a file                                            *)

\* Bad numbers of inode n, and an indirect block that it is too short for,
\* are 0 in g; so are bad numbers in indirect blocks.  No other block has
\* changed.
Wiped(f, g, n) ==
  /\ g \in FsType /\ Heads(f, g)
  /\ \A m \in Inodes, k \in 0 .. Double :
       \/ g.inode[m].addr[k] = f.inode[m].addr[k]
       \/ /\ g.inode[m].addr[k] = 0 /\ m = n
          /\ Bad(f.inode[m].addr[k]) \/ (k >= ND /\ Size(f, n) < ND)
  /\ \A d \in Blocks, j \in 0 .. NIND - 1 :
       \/ g.disk[d][j] = f.disk[d][j]
       \/ g.disk[d][j] = 0 /\ Bad(f.disk[d][j])
  /\ \A d \in Blocks : g.disk[d] = f.disk[d] \/ d \in Indirect(f) \cup {0}

LEMMA WipedIndirect ==
  ASSUME NEW f, NEW g, NEW n \in Inodes, Wiped(f, g, n)
  PROVE  Indirect(g) \subseteq Indirect(f) \cup {0}
<1>1. ASSUME NEW m \in Inodes, HasBlocks(g, m), Ends(g.inode[m]) >= ND
      PROVE  /\ HasBlocks(f, m) /\ Ends(f.inode[m]) >= ND
             /\ g.inode[m].addr[Single] = f.inode[m].addr[Single] \/ g.inode[m].addr[Single] = 0
  <2>1. /\ g.inode[m].mode = f.inode[m].mode /\ g.inode[m].blkno = f.inode[m].blkno
        /\ g.inode[m].offset = f.inode[m].offset
    BY DEF Wiped, Heads
  <2>2. g.inode[m].addr[Single] = f.inode[m].addr[Single] \/ g.inode[m].addr[Single] = 0
    BY PlaceFacts DEF Wiped
  <2> QED
    BY <1>1, <2>1, <2>2 DEF HasBlocks, Mode, Ends
<1> QED
  BY <1>1 DEF Indirect

LEMMA WipedWiped ==
  ASSUME NEW f, NEW g, NEW h, NEW n \in Inodes, Wiped(f, g, n), Wiped(g, h, n)
  PROVE  Wiped(f, h, n)
<1>1. h \in FsType /\ Heads(f, h)
  BY DEF Wiped, Heads
<1>2. \A d \in Blocks : h.disk[d] = f.disk[d] \/ d \in Indirect(f) \cup {0}
  BY WipedIndirect DEF Wiped
<1>3. ASSUME NEW m \in Inodes, NEW k \in 0 .. Double
      PROVE  \/ h.inode[m].addr[k] = f.inode[m].addr[k]
             \/ /\ h.inode[m].addr[k] = 0 /\ m = n
                /\ Bad(f.inode[m].addr[k]) \/ (k >= ND /\ Size(f, n) < ND)
  <2>1. Size(g, n) = Size(f, n)
    BY DEF Wiped, Heads, Size
  <2>2. \/ h.inode[m].addr[k] = g.inode[m].addr[k]
        \/ /\ h.inode[m].addr[k] = 0 /\ m = n
           /\ Bad(g.inode[m].addr[k]) \/ (k >= ND /\ Size(f, n) < ND)
    BY <2>1 DEF Wiped
  <2>3. \/ g.inode[m].addr[k] = f.inode[m].addr[k]
        \/ /\ g.inode[m].addr[k] = 0 /\ m = n
           /\ Bad(f.inode[m].addr[k]) \/ (k >= ND /\ Size(f, n) < ND)
    BY DEF Wiped
  <2> QED
    BY <2>2, <2>3 DEF Bad
<1>4. ASSUME NEW d \in Blocks, NEW j \in 0 .. NIND - 1
      PROVE  \/ h.disk[d][j] = f.disk[d][j]
             \/ h.disk[d][j] = 0 /\ Bad(f.disk[d][j])
  BY DEF Wiped, Bad
<1> QED
  BY <1>1, <1>3, <1>4, <1>2 DEF Wiped

LEMMA WipedPlaces ==
  ASSUME NEW f \in FsType, NEW n \in Inodes, NEW g, Wiped(f, g, n)
  PROVE  /\ \A u \in Places : InFile(g, u) <=> InFile(f, u)
         /\ \A m \in Inodes : HasBlocks(g, m) <=> HasBlocks(f, m)
         /\ \A m \in Inodes : Trim(f, m) => Trim(g, m)
         /\ \A u \in Places :
              /\ At(f)[u] \in Numbers
              /\ Inner(u) => At(f)[Root2(u)] \in Numbers
              /\ u = <<n, ND>> => Size(f, n) >= ND
              => At(g)[u] = At(f)[u]
         /\ \A u \in Places :
              At(f)[u] \in Numbers /\ (Inner(u) => At(f)[Root2(u)] \in Numbers)
              => At(g)[u] = At(f)[u] \/ At(g)[u] = 0
<1>1. /\ g \in FsType /\ Heads(f, g)
      /\ \A m \in Inodes, k \in 0 .. Double :
           \/ g.inode[m].addr[k] = f.inode[m].addr[k]
           \/ /\ g.inode[m].addr[k] = 0 /\ m = n
              /\ Bad(f.inode[m].addr[k]) \/ (k >= ND /\ Size(f, n) < ND)
      /\ \A d \in Blocks, j \in 0 .. NIND - 1 :
           \/ g.disk[d][j] = f.disk[d][j]
           \/ g.disk[d][j] = 0 /\ Bad(f.disk[d][j])
  BY DEF Wiped
<1>2. /\ \A u \in Places : InFile(g, u) <=> InFile(f, u)
      /\ \A m \in Inodes : HasBlocks(g, m) <=> HasBlocks(f, m)
  BY <1>1, PlaceFacts DEF Heads, InFile, HasBlocks, Mode, Size
<1>3. \A m \in Inodes : Trim(f, m) => Trim(g, m)
  BY <1>1, <1>2, PlaceFacts DEF Trim, Heads, Size
<1>4. \A u \in Places : At(f)[u] = IF InFile(f, u) THEN Val(f, u) ELSE 0
  BY DEF At
<1>5. \A u \in Places : At(g)[u] = IF InFile(f, u) THEN Val(g, u) ELSE 0
  BY <1>2 DEF At
<1>6. \A x : x \in Numbers => ~Bad(x)
  BY DEF Bad, Numbers
<1>7. ASSUME NEW u \in Places, InFile(f, u), Val(f, u) \in Numbers,
             Inner(u) => f.inode[u[1]].addr[Single] \in Numbers
      PROVE  /\ Val(g, u) = Val(f, u) \/ Val(g, u) = 0
             /\ (u = <<n, ND>> => Size(f, n) >= ND) => Val(g, u) = Val(f, u)
  <2>1. /\ u[1] \in Inodes /\ u[2] \in 0 .. ND + NIND /\ u = <<u[1], u[2]>> /\ ND \in Nat /\ NIND \in Nat
        /\ Single \in 0 .. Double /\ Single = ND /\ Double = ND + 1
    BY PlaceFacts, Constants
  <2>2. CASE ~Inner(u)
    <3>1. u[2] <= ND /\ u[2] \in 0 .. Double
      BY <2>1, <2>2 DEF Inner
    <3>2. Val(g, u) = g.inode[u[1]].addr[u[2]] /\ Val(f, u) = f.inode[u[1]].addr[u[2]]
      BY <3>1 DEF Val
    <3>3. u[1] = n /\ u[2] >= ND => u = <<n, ND>>
      <4>1. u[2] >= ND => u[2] = ND
        BY <2>1, <3>1
      <4> QED
        BY <2>1, <4>1
    <3>4. \/ g.inode[u[1]].addr[u[2]] = f.inode[u[1]].addr[u[2]]
          \/ /\ g.inode[u[1]].addr[u[2]] = 0 /\ u[1] = n
             /\ Bad(f.inode[u[1]].addr[u[2]]) \/ (u[2] >= ND /\ Size(f, n) < ND)
      BY <1>1, <2>1, <3>1
    <3>5. ~Bad(f.inode[u[1]].addr[u[2]])
      BY <1>6, <1>7, <3>2
    <3>6. Size(f, n) \in Nat
      BY StateFacts DEF Size
    <3> QED
      BY <2>1, <3>2, <3>3, <3>4, <3>5, <3>6
  <2>3. CASE Inner(u)
    <3>1. ~(u[2] <= ND) /\ u[2] - (ND + 1) \in 0 .. NIND - 1
      BY <2>1, <2>3 DEF Inner
    <3>2. u[1] = n => Size(f, n) >= ND
      <4>1. u[2] <= Size(f, u[1]) + 1 /\ Size(f, u[1]) \in Nat
        BY <1>7, <2>1, <2>3, StateFacts DEF InFile, Inner, Size
      <4> QED
        BY <2>1, <3>1, <4>1
    <3> DEFINE s == f.inode[u[1]].addr[Single]
               k == u[2] - (ND + 1)
    <3>3. g.inode[u[1]].addr[Single] = s
      <4>1. ~Bad(s) /\ Size(f, n) \in Nat
        BY <1>6, <1>7, <2>3, StateFacts DEF Size
      <4>2. \/ g.inode[u[1]].addr[Single] = f.inode[u[1]].addr[Single]
            \/ u[1] = n /\ (Bad(s) \/ Size(f, n) < ND)
        BY <1>1, <2>1
      <4> QED
        BY <2>1, <3>2, <4>1, <4>2
    <3>4. s \in Blocks
      BY <1>7, <2>3, Constants DEF Numbers
    <3> HIDE DEF s
    <3>5. /\ Val(f, u) = IF s = 0 THEN 0 ELSE f.disk[s][k]
          /\ Val(g, u) = IF s = 0 THEN 0 ELSE g.disk[s][k]
      BY <3>1, <3>3 DEF Val, s
    <3>6. k \in 0 .. NIND - 1
      BY <3>1
    <3> HIDE DEF k
    <3>7. Val(g, u) = Val(f, u)
      BY <1>1, <1>6, <1>7, <3>4, <3>5, <3>6
    <3> QED
      BY <3>7
  <2> QED
    BY <2>2, <2>3
<1>8. ASSUME NEW u \in Places, InFile(f, u), Inner(u) PROVE At(f)[Root2(u)] = f.inode[u[1]].addr[Single]
  <2>1. InFile(f, Root2(u)) /\ Val(f, Root2(u)) = f.inode[u[1]].addr[Single]
    BY <1>8, PlaceFacts, Constants DEF InFile, Val
  <2> QED
    BY <1>4, <2>1, PlaceFacts
<1>9. \A u \in Places :
        /\ At(f)[u] \in Numbers
        /\ Inner(u) => At(f)[Root2(u)] \in Numbers
        /\ u = <<n, ND>> => Size(f, n) >= ND
        => At(g)[u] = At(f)[u]
  BY <1>4, <1>5, <1>7, <1>8
<1>10. \A u \in Places :
         At(f)[u] \in Numbers /\ (Inner(u) => At(f)[Root2(u)] \in Numbers)
         => At(g)[u] = At(f)[u] \/ At(g)[u] = 0
  BY <1>4, <1>5, <1>7, <1>8
<1> QED
  BY <1>2, <1>3, <1>9, <1>10

LEMMA WipedKeeps ==
  ASSUME NEW f \in FsType, NEW n \in Inodes, NEW g, Wiped(f, g, n)
  PROVE  Keeps(f, g, n)
<1>1. /\ \A u \in Places : u[1] \in Inodes /\ Root2(u) \in Places /\ Root2(u)[1] = u[1]
                           /\ Root2(u)[2] = ND /\ ~Inner(Root2(u))
      /\ Single \in 0 .. Double /\ Single = ND /\ Double = ND + 1 /\ 0 \notin DataBlocks
  BY PlaceFacts, Constants
<1>2. \A m \in Inodes \ {n} : (Fine(f, m) => Fine(g, m)) /\ (Shallow(f, m) => Shallow(g, m))
  <2> TAKE m \in Inodes \ {n}
  <2>1. ASSUME Fine(f, m) PROVE Fine(g, m)
    <3>1. Trim(g, m)
      BY <2>1, WipedPlaces DEF Fine
    <3>2. ASSUME NEW u \in Places, u[1] = m PROVE At(g)[u] \in Numbers
      <4>1. At(f)[u] \in Numbers /\ At(f)[Root2(u)] \in Numbers
        BY <1>1, <2>1, <3>2 DEF Fine
      <4> QED
        BY <4>1, WipedPlaces DEF Numbers
    <3> QED
      BY <3>1, <3>2 DEF Fine
  <2>2. ASSUME Shallow(f, m) PROVE Shallow(g, m)
    <3>1. /\ HasBlocks(g, m) <=> HasBlocks(f, m)
          /\ g.inode[m].addr[Double] = f.inode[m].addr[Double] \/ g.inode[m].addr[Double] = 0
          /\ Ends(g.inode[m]) = Ends(f.inode[m])
      <4>1. Double \in 0 .. Double
        BY PlaceFacts
      <4>2. HasBlocks(g, m) <=> HasBlocks(f, m)
        BY WipedPlaces
      <4>3. g.inode[m].addr[Double] = f.inode[m].addr[Double] \/ g.inode[m].addr[Double] = 0
        BY <4>1 DEF Wiped
      <4>4. g.inode[m].blkno = f.inode[m].blkno /\ g.inode[m].offset = f.inode[m].offset
        BY DEF Wiped, Heads
      <4> QED
        BY <4>2, <4>3, <4>4 DEF Ends
    <3> QED
      BY <1>1, <2>2, <3>1 DEF Shallow
  <2> QED
    BY <2>1, <2>2
<1>3. ASSUME NEW u \in Filled(g) PROVE u \in Filled(f)
  <2>1. /\ u \in Places /\ HasBlocks(f, u[1]) /\ Val(g, u) # 0
        /\ Inner(u) => g.inode[u[1]].addr[Single] \in DataBlocks
    BY <1>1, WipedPlaces DEF Filled
  <2>2. /\ u[1] \in Inodes /\ u[2] \in 0 .. ND + NIND /\ ND \in Nat /\ NIND \in Nat
    BY <2>1, PlaceFacts, Constants
  <2>3. CASE ~Inner(u)
    <3>1. u[2] <= ND /\ u[2] \in 0 .. Double
      BY <1>1, <2>2, <2>3 DEF Inner
    <3>2. g.inode[u[1]].addr[u[2]] = f.inode[u[1]].addr[u[2]] \/ g.inode[u[1]].addr[u[2]] = 0
      BY <2>2, <3>1 DEF Wiped
    <3> QED
      BY <2>1, <2>3, <3>1, <3>2 DEF Filled, Val
  <2>4. CASE Inner(u)
    <3>1. ~(u[2] <= ND) /\ u[2] - (ND + 1) \in 0 .. NIND - 1
      BY <2>2, <2>4 DEF Inner
    <3> DEFINE s == g.inode[u[1]].addr[Single]
               k == u[2] - (ND + 1)
    <3>2. s \in DataBlocks /\ s # 0 /\ s \in Blocks
      BY <1>1, <2>1, <2>4, Constants
    <3>3. f.inode[u[1]].addr[Single] = s
      BY <1>1, <2>2, <3>2 DEF Wiped
    <3> HIDE DEF s
    <3>4. Val(f, u) = f.disk[s][k] /\ Val(g, u) = g.disk[s][k]
      BY <3>1, <3>2, <3>3 DEF Val, s
    <3> HIDE DEF k
    <3>5. g.disk[s][k] = f.disk[s][k] \/ g.disk[s][k] = 0
      BY <3>1, <3>2 DEF Wiped, k
    <3> QED
      BY <2>1, <3>2, <3>3, <3>4, <3>5 DEF Filled
  <2> QED
    BY <2>3, <2>4
<1>4. \A w : \A u \in TextPlaces(w) : KeptAt(f, w, u) => KeptAt(g, w, u)
  <2> SUFFICES ASSUME NEW w, NEW u \in TextPlaces(w), KeptAt(f, w, u), Mode(g, u[1]) = "reg"
               PROVE  KeptAt(g, w, u)
    BY DEF KeptAt
  <2>1. u \in Places /\ u[1] \in Inodes /\ u[2] # ND
    BY <1>1 DEF TextPlaces
  <2>2. Mode(f, u[1]) = "reg"
    BY <2>1 DEF Wiped, Heads, Mode
  <2>3. /\ At(f)[u] \in DataBlocks \ Indirect(f) /\ f.disk[At(f)[u]] = w.disk[At(w)[u]]
        /\ Inner(u) => At(f)[Root2(u)] \in DataBlocks
    BY <2>2 DEF KeptAt
  <2>4. At(g)[u] = At(f)[u]
    <3>1. u # <<n, ND>>
      BY <2>1
    <3> QED
      BY <2>1, <2>3, <3>1, WipedPlaces DEF Numbers
  <2>5. ASSUME Inner(u) PROVE At(g)[Root2(u)] = At(f)[Root2(u)]
    <3>1. Root2(u) = <<n, ND>> => Size(f, n) >= ND
      <4> SUFFICES ASSUME u[1] = n PROVE Size(f, n) >= ND
        BY <2>1, <1>1 DEF Root2
      <4>1. InFile(f, u)
        BY <1>1, <2>1, <2>3 DEF At
      <4>2. u[2] > ND /\ u[2] <= Size(f, n) + 1 /\ Size(f, n) \in Nat /\ u[2] \in Nat /\ ND \in Nat
        BY <2>1, <2>5, <4>1, StateFacts, PlaceFacts, Constants DEF Inner, InFile, Size
      <4> QED
        BY <4>2
    <3> QED
      BY <1>1, <2>1, <2>3, <2>5, <3>1, WipedPlaces DEF Numbers
  <2>6. At(f)[u] \in Blocks /\ At(f)[u] \notin Indirect(f) \cup {0}
    BY <2>3, Constants
  <2>7. At(f)[u] \notin Indirect(g) /\ g.disk[At(f)[u]] = f.disk[At(f)[u]]
    BY <2>6, WipedIndirect DEF Wiped
  <2> QED
    BY <2>3, <2>4, <2>5, <2>7 DEF KeptAt
<1>5. ASSUME AllFine(f) PROVE AllFine(g) /\ Less(At(f), At(g))
  <2>1. /\ \A m \in Inodes : Trim(f, m)
        /\ \A u \in Places : At(f)[u] \in Numbers /\ At(f)[Root2(u)] \in Numbers
    BY <1>1, <1>5 DEF AllFine
  <2>2. \A u \in Places : At(g)[u] = At(f)[u] \/ At(g)[u] = 0
    BY <2>1, WipedPlaces
  <2>3. \A u \in Places : At(g)[u] \in Numbers
    BY <2>1, <2>2 DEF Numbers
  <2>4. \A m \in Inodes : Fine(g, m)
    BY <2>1, <2>3, WipedPlaces DEF Fine
  <2> QED
    BY <2>2, <2>4, AllFineIs DEF Less
<1> QED
  BY <1>2, <1>3, <1>4, <1>5 DEF Keeps

LEMMA WipedSame ==
  ASSUME NEW f, NEW g \in FsType, NEW n, SameDisk(f, g)
  PROVE  Wiped(f, g, n)
BY DEF Wiped, SameDisk, Heads

\* One address, or one pointer, is wiped.
LEMMA AddrWiped ==
  ASSUME NEW f \in FsType, NEW n \in Inodes, NEW k \in 0 .. Double, NEW question \in Strings,
         Bad(f.inode[n].addr[k]) \/ (k >= ND /\ Size(f, n) < ND)
  PROVE  LET g == PutAddr(Ask(f, question), n, k, 0)
         IN /\ Wiped(f, g, n) /\ g.bitmap = f.bitmap
            /\ \A j \in 0 .. Double : g.inode[n].addr[j] = IF j = k THEN 0 ELSE f.inode[n].addr[j]
<1> DEFINE a == Ask(f, question)
           g == PutAddr(a, n, k, 0)
<1>1. /\ a \in FsType /\ a.inode = f.inode /\ a.disk = f.disk /\ a.bitmap = f.bitmap
      /\ a.panic = f.panic
  BY AskedSame DEF SameDisk
<1> HIDE DEF a
<1>2. HasAddr(a, g, n, k, 0)
  BY <1>1, AddrPut
<1> HIDE DEF g
<1>3. /\ g \in FsType /\ g.disk = f.disk /\ g.bitmap = f.bitmap /\ Heads(f, g)
      /\ \A m \in Inodes, j \in 0 .. Double :
           g.inode[m].addr[j] = IF m = n /\ j = k THEN 0 ELSE f.inode[m].addr[j]
  BY <1>1, <1>2 DEF HasAddr, Heads
<1>4. Wiped(f, g, n)
  BY <1>3 DEF Wiped
<1> QED
  BY <1>3, <1>4 DEF g, a

LEMMA PtrWiped ==
  ASSUME NEW f \in FsType, NEW n \in Inodes, NEW c \in Blocks, NEW k \in 0 .. NIND - 1,
         NEW question \in Strings, Bad(f.disk[c][k]), c \in Indirect(f)
  PROVE  LET g == PutPtr(Ask(f, question), c, k, 0)
         IN Wiped(f, g, n) /\ g.bitmap = f.bitmap /\ g.inode = f.inode /\ g.disk[c][k] = 0
<1> DEFINE a == Ask(f, question)
           g == PutPtr(a, c, k, 0)
<1>1. /\ a \in FsType /\ a.inode = f.inode /\ a.disk = f.disk /\ a.bitmap = f.bitmap
      /\ a.panic = f.panic
  BY AskedSame DEF SameDisk
<1> HIDE DEF a
<1>2. HasPtr(a, g, c, k, 0)
  BY <1>1, PtrPut
<1> HIDE DEF g
<1>3. /\ g \in FsType /\ g.inode = f.inode /\ g.bitmap = f.bitmap /\ Heads(f, g)
      /\ \A d \in Blocks : d # c => g.disk[d] = f.disk[d]
      /\ \A d \in Blocks, j \in 0 .. NIND - 1 :
           g.disk[d][j] = IF d = c /\ j = k THEN 0 ELSE f.disk[d][j]
  BY <1>1, <1>2 DEF HasPtr, Heads
<1>4. Wiped(f, g, n)
  BY <1>3 DEF Wiped
<1> QED
  BY <1>3, <1>4 DEF g, a

(* What was seen stays as it is, and one more place is seen.               *)
NotShort(f, n) == f.inode[n].addr[Single] # 0 => Size(f, n) >= ND
Rooted(P) == P \subseteq Places /\ \A v \in P : Inner(v) => Root2(v) \in P
\* A data block has a mark in g, and nothing but it is new there.
MarkedBy(f, g, b) ==
  f.bitmap \subseteq g.bitmap /\ g.bitmap \subseteq f.bitmap \cup {b}
  /\ (b \in DataBlocks => b \in g.bitmap)
LEMMA AnyMarked ==
  ASSUME NEW f \in FsType, NEW b \in Nat
  PROVE  LET g == MarkAny(f, b) IN g \in FsType /\ SameDisk(f, g) /\ MarkedBy(f, g, b)
<1> DEFINE at == b - LinkAt
           k == at \div 2
           v == Poked(f.linkmap[k], at % 2 = 0)
           g == MarkAny(f, b)
<1>1. CASE b < FSize
  <2>1. g = Mark(f, b)
    <3>1. at \notin 0 .. 2 * NL - 1
      BY <1>1, FsckAssumption
    <3> QED
      BY <1>1, <3>1 DEF MarkAny
  <2>2. g \in FsType /\ SameDisk(f, g) /\ g.bitmap = IF b = 0 THEN f.bitmap ELSE f.bitmap \cup {b}
    BY <2>1, MarkedSame
  <2> HIDE DEF g
  <2> QED
    BY <2>2, Constants DEF MarkedBy, g
<1>2. CASE ~(b < FSize) /\ at \in 0 .. 2 * NL - 1
  <2>1. k \in 0 .. NL - 1
    <3>1. NL \in Nat
      BY FsckAssumption
    <3> QED
      BY <1>2, <3>1
  <2>2. v \in Int
    <3>1. f.linkmap[k] \in Int
      BY <2>1 DEF FsType
    <3> HIDE DEF k, at
    <3> QED
      BY <3>1 DEF Poked, BYTE
  <2>3. g = [f EXCEPT !.linkmap = [f.linkmap EXCEPT ![k] = v]]
    BY <1>2 DEF MarkAny
  <2> HIDE DEF g, v, k
  <2>4. g \in FsType /\ SameDisk(f, g) /\ g.bitmap = f.bitmap
    <3>1. [f.linkmap EXCEPT ![k] = v] \in [0 .. NL - 1 -> Int]
      BY <2>1, <2>2 DEF FsType
    <3> QED
      BY <2>3, <3>1 DEF FsType, SameDisk, SameFree
  <2>5. b \notin DataBlocks
    BY <1>2, Constants DEF DataBlocks
  <2> QED
    BY <2>4, <2>5 DEF MarkedBy, g
<1>3. CASE ~(b < FSize) /\ at \notin 0 .. 2 * NL - 1
  <2>1. g = f
    BY <1>3 DEF MarkAny
  <2>2. b \notin DataBlocks
    BY <1>3, Constants DEF DataBlocks
  <2> HIDE DEF g
  <2> QED
    BY <2>1, <2>2 DEF MarkedBy, SameDisk, SameFree, g
<1> QED
  BY <1>1, <1>2, <1>3

LEMMA SeenSame ==
  ASSUME NEW f \in FsType, NEW n \in Inodes, NEW g, Wiped(f, g, n), NEW P, Rooted(P), Seen(f, P),
         <<n, ND>> \notin P \/ NotShort(f, n)
  PROVE  \A v \in P : At(g)[v] = At(f)[v]
<1> TAKE v \in P
<1>1. At(f)[v] \in Numbers /\ (Inner(v) => At(f)[Root2(v)] \in Numbers) /\ v \in Places
  BY DEF Rooted, Seen
<1>2. CASE v = <<n, ND>> => Size(f, n) >= ND
  BY <1>1, <1>2, WipedPlaces
<1>3. CASE v = <<n, ND>> /\ ~(Size(f, n) >= ND)
  <2>1. f.inode[n].addr[Single] = 0
    BY <1>3 DEF NotShort
  <2>2. At(f)[v] = 0
    BY <1>1, <1>3, <2>1, PlaceFacts DEF At, Val
  <2> QED
    BY <1>1, <2>2, WipedPlaces
<1> QED
  BY <1>2, <1>3

LEMMA SeenMore ==
  ASSUME NEW f \in FsType, NEW n \in Inodes, NEW g, Wiped(f, g, n), NEW P, NEW u, Ordered(P, u),
         Seen(f, P), <<n, ND>> \notin P \/ NotShort(f, n),
         NEW b, MarkedBy(f, g, b), At(g)[u] = IF Bad(b) THEN 0 ELSE b
  PROVE  Seen(g, P \cup {u})
<1>1. Rooted(P) /\ \A v \in P : At(f)[v] \in Numbers /\ At(f)[v] \in f.bitmap \cup {0}
  BY DEF Ordered, Seen, Rooted
<1>2. \A v \in P : At(g)[v] = At(f)[v]
  BY <1>1, SeenSame
<1>3. At(g)[u] \in Numbers /\ At(g)[u] \in g.bitmap \cup {0}
  BY DEF Bad, Numbers, MarkedBy
<1>4. \A v \in P : At(g)[v] \in Numbers /\ At(g)[v] \in g.bitmap \cup {0}
  BY <1>1, <1>2 DEF MarkedBy
<1>5. Met(At(g), g.bitmap, P \cup {u})
  <2> SUFFICES ASSUME NEW d \in DataBlocks, d \in g.bitmap PROVE \E v \in P \cup {u} : At(g)[v] = d
    BY DEF Met
  <2>1. CASE d \in f.bitmap
    BY <1>2, <2>1 DEF Seen, Met
  <2>2. CASE d \notin f.bitmap
    BY <2>2, Constants DEF Bad, MarkedBy
  <2> QED
    BY <2>1, <2>2
<1> QED
  BY <1>3, <1>4, <1>5 DEF Seen

\* File n of f, whose end is mended, with the places of P seen.
Cleaned(f, n, P) == {g \in FsType : Wiped(f, g, n) /\ Trim(g, n) /\ Seen(g, P)}

LEMMA PointersChecked ==
  ASSUME NEW f \in FsType, NEW n \in Inodes, HasBlocks(f, n), f.inode[n].offset \in 0 .. BS - 1,
         Shallow(f, n), Seen(f, Before(n))
  PROVE  CheckPointer(CheckPointer(f, n, Single), n, Double) \in Cleaned(f, n, Upto(n, 0))
<1> DEFINE u == <<n, ND>>
           b == f.inode[n].addr[Single]
           g == CheckPointer(f, n, Single)
           h == CheckPointer(g, n, Double)
<1>1. /\ u \in Places /\ Single \in 0 .. Double /\ Double \in 0 .. Double /\ Single = ND
      /\ Double = ND + 1 /\ ND \in Nat /\ 0 \notin DataBlocks /\ "pointer" \in Strings
  BY PlaceFacts, Constants DEF Strings
<1>2. Ordered(Before(n), u) /\ Upto(n, 0) = Before(n) \cup {u}
  <2>1. 0 \in Nat
    OBVIOUS
  <2> QED
    BY <2>1, UptoFacts
<1>3. u \notin Before(n)
  BY <1>2 DEF Ordered
<1>4. b \in Nat /\ Size(f, n) \in Nat
  BY <1>1, StateFacts DEF Size
<1>5. \A x : Wiped(f, x, n) => At(x)[u] = x.inode[n].addr[Single] /\ Size(x, n) = Size(f, n)
  <2> SUFFICES ASSUME NEW x, Wiped(f, x, n)
               PROVE  At(x)[u] = x.inode[n].addr[Single] /\ Size(x, n) = Size(f, n)
    OBVIOUS
  <2>1. HasBlocks(x, n) /\ Size(x, n) = Size(f, n)
    BY WipedPlaces DEF Wiped, Heads, Size
  <2>2. InFile(x, u) /\ Val(x, u) = x.inode[n].addr[Single]
    BY <1>1, <2>1 DEF InFile, Val
  <2> QED
    BY <1>1, <2>1, <2>2 DEF At
<1>6. /\ Wiped(f, g, n) /\ g.inode[n].addr[Double] = f.inode[n].addr[Double]
      /\ g.inode[n].addr[Single] # 0 => Size(f, n) >= ND
      /\ Seen(g, Upto(n, 0))
  <2>1. CASE Wrong(f, n, b)
    <3>1. g = PutAddr(Ask(f, "pointer"), n, Single, 0)
      BY <2>1 DEF CheckPointer, PutAddr
    <3>2. Bad(f.inode[n].addr[Single]) \/ (Single >= ND /\ Size(f, n) < ND)
      BY <1>1, <2>1 DEF Wrong
    <3> HIDE DEF g
    <3>3. /\ Wiped(f, g, n) /\ g.bitmap = f.bitmap
          /\ \A j \in 0 .. Double : g.inode[n].addr[j] = IF j = Single THEN 0 ELSE f.inode[n].addr[j]
      BY <1>1, <3>1, <3>2, AddrWiped
    <3>4. g.inode[n].addr[Single] = 0 /\ g.inode[n].addr[Double] = f.inode[n].addr[Double]
      BY <1>1, <3>3
    <3>5. Seen(g, Before(n) \cup {u})
      <4>1. At(g)[u] = 0 /\ ~Bad(0) /\ MarkedBy(f, g, 0)
        BY <1>1, <1>5, <3>3, <3>4 DEF Bad, MarkedBy
      <4> HIDE DEF u
      <4> QED
        BY <1>2, <1>3, <3>3, <4>1, SeenMore DEF u
    <3> QED
      BY <1>2, <3>3, <3>4, <3>5
  <2>2. CASE ~Wrong(f, n, b)
    <3>1. g = Mark(f, b)
      BY <2>2 DEF CheckPointer
    <3> HIDE DEF g
    <3>2. g \in FsType /\ SameDisk(f, g) /\ g.bitmap = IF b = 0 THEN f.bitmap ELSE f.bitmap \cup {b}
      BY <1>4, <3>1, MarkedSame
    <3>3. Wiped(f, g, n) /\ g.inode = f.inode
      BY <3>2, WipedSame DEF SameDisk
    <3>4. b # 0 => Size(f, n) >= ND
      BY <1>1, <1>4, <2>2 DEF Wrong
    <3>5. Seen(g, Before(n) \cup {u})
      <4>1. At(g)[u] = b /\ ~Bad(b) /\ MarkedBy(f, g, b)
        BY <1>1, <1>5, <2>2, <3>2, <3>3 DEF Wrong, MarkedBy
      <4> HIDE DEF u, b
      <4> QED
        BY <1>2, <1>3, <3>2, <3>3, <4>1, SeenMore DEF u
    <3> QED
      BY <1>2, <3>3, <3>4, <3>5
  <2> QED
    BY <2>1, <2>2
<1> HIDE DEF g, b
<1>7. Wiped(f, h, n) /\ Seen(h, Upto(n, 0)) /\ h.inode[n].addr[Double] = 0
      /\ (h.inode[n].addr[Single] # 0 => Size(f, n) >= ND)
  <2> DEFINE d == g.inode[n].addr[Double]
  <2>1. g \in FsType /\ Size(g, n) = Size(f, n)
    BY <1>5, <1>6 DEF Wiped
  <2>2. CASE d = 0
    <3>1. h = g
      BY <2>2 DEF CheckPointer, Wrong, Bad, Mark
    <3> HIDE DEF h
    <3> QED
      BY <1>6, <2>2, <3>1
  <2>3. CASE d # 0
    <3>1. Wrong(g, n, d)
      <4>1. Ends(f.inode[n]) = Size(f, n)
        <5>1. ~(f.inode[n].offset >= BS)
          BY BlockSize
        <5> QED
          BY <5>1 DEF Ends, Size
      <4> QED
        BY <1>1, <1>4, <1>6, <2>1, <2>3, <4>1 DEF Wrong, Bad, Shallow
    <3>2. h = PutAddr(Ask(g, "pointer"), n, Double, 0)
      BY <3>1 DEF CheckPointer, PutAddr
    <3>3. Bad(g.inode[n].addr[Double]) \/ (Double >= ND /\ Size(g, n) < ND)
      BY <1>1, <3>1 DEF Wrong
    <3> HIDE DEF h, d
    <3>4. /\ Wiped(g, h, n) /\ h.bitmap = g.bitmap
          /\ \A j \in 0 .. Double : h.inode[n].addr[j] = IF j = Double THEN 0 ELSE g.inode[n].addr[j]
      BY <1>1, <2>1, <3>2, <3>3, AddrWiped
    <3>5. h.inode[n].addr[Single] = g.inode[n].addr[Single] /\ h.inode[n].addr[Double] = 0
      BY <1>1, <3>4
    <3>6. Seen(h, Upto(n, 0))
      <4>1. Rooted(Upto(n, 0))
        <5>1. ~Inner(u)
          BY <1>1 DEF Inner
        <5> QED
          BY <1>2, <5>1 DEF Ordered, Rooted
      <4>2. \A v \in Upto(n, 0) : At(h)[v] = At(g)[v]
        <5>1. <<n, ND>> \notin Upto(n, 0) \/ NotShort(g, n)
          BY <1>6, <2>1 DEF NotShort
        <5> QED
          BY <1>6, <2>1, <3>4, <4>1, <5>1, SeenSame
      <4> QED
        BY <1>6, <3>4, <4>2 DEF Seen, Met
    <3> QED
      BY <1>6, <3>4, <3>5, <3>6, WipedWiped
  <2> QED
    BY <2>2, <2>3
<1>8. h \in Cleaned(f, n, Upto(n, 0))
  <2> HIDE DEF h
  <2>1. h \in FsType /\ Size(h, n) = Size(f, n) /\ h.inode[n].offset = f.inode[n].offset
    BY <1>5, <1>7 DEF Wiped, Heads
  <2> QED
    BY <1>7, <2>1 DEF Cleaned, Trim
<1> QED
  BY <1>8 DEF g

LEMMA BlockChecked ==
  ASSUME NEW f \in FsType, NEW n \in Inodes, HasBlocks(f, n), NEW num \in Nat, num < ND + NIND,
         num <= Size(f, n), NEW x \in Cleaned(f, n, Upto(n, num))
  PROVE  CheckBlock(x, n, num) \in Cleaned(f, n, Upto(n, num + 1))
<1> DEFINE u == Place(n, num)
           b == GetBlk(x, n, num)
           y == IF Bad(b) THEN SetBlk(Ask(x, "block"), n, num, 0) ELSE x
           g == CheckBlock(x, n, num)
           s == x.inode[n].addr[Single]
<1>1. /\ x \in FsType /\ Wiped(f, x, n) /\ Trim(x, n) /\ Seen(x, Upto(n, num)) /\ HasBlocks(x, n)
      /\ Size(x, n) = Size(f, n) /\ Size(x, n) \in Nat
  <2>1. x \in FsType /\ Wiped(f, x, n) /\ Trim(x, n) /\ Seen(x, Upto(n, num))
    BY DEF Cleaned
  <2>2. HasBlocks(x, n) /\ Size(x, n) = Size(f, n)
    BY <2>1, WipedPlaces DEF Wiped, Heads, Size
  <2>3. Size(x, n) \in Nat
    BY <2>1, StateFacts DEF Size
  <2> QED
    BY <2>1, <2>2, <2>3
<1>2. /\ Upto(n, num + 1) = Upto(n, num) \cup {u} /\ Ordered(Upto(n, num), u)
      /\ <<n, ND>> \in Upto(n, num)
  <2>1. 0 \in Nat
    OBVIOUS
  <2>2. <<n, ND>> \in Upto(n, num)
    BY PlaceFacts, Constants DEF Upto
  <2> QED
    BY <2>2, UptoFacts
<1>3. /\ u \in Places /\ u[1] = n /\ u[2] # ND
      /\ num < ND => ~Inner(u) /\ u[2] = num
      /\ num >= ND => Inner(u) /\ u[2] = num + 1 /\ u[2] - (ND + 1) = num - ND
      /\ InFile(x, u)
  BY <1>1, PlaceOf
<1>4. b = Val(x, u)
  BY GetBlkIs
<1>5. /\ ND \in Nat /\ NIND \in Nat /\ Single = ND /\ Double = ND + 1 /\ Single \in 0 .. Double
      /\ 0 \notin DataBlocks /\ DataBlocks \subseteq Blocks /\ "block" \in Strings
  BY PlaceFacts, Constants DEF Strings
<1>6. s \in Numbers
  <2>1. At(x)[<<n, ND>>] \in Numbers /\ <<n, ND>> \in Places
    BY <1>1, <1>2, PlaceFacts, Constants DEF Seen, Upto
  <2>2. InFile(x, <<n, ND>>) /\ Val(x, <<n, ND>>) = s
    BY <1>1, <1>5 DEF InFile, Val
  <2> QED
    BY <2>1, <2>2 DEF At
<1>7. g = MarkAny(y, b)
  BY DEF CheckBlock
<1> HIDE DEF u, g
<1> DEFINE k == num - ND
<1>8. /\ num < ND => b = x.inode[n].addr[num] /\ num \in 0 .. Double
      /\ num >= ND => /\ b = IF s = 0 THEN 0 ELSE x.disk[s][k]
                      /\ k \in 0 .. NIND - 1 /\ num \in ND .. ND + NIND - 1 /\ ~(num < ND)
  <2>1. ASSUME num < ND PROVE b = x.inode[n].addr[num] /\ num \in 0 .. Double
    BY <1>3, <1>4, <1>5, <2>1 DEF Val
  <2>2. ASSUME num >= ND
        PROVE  /\ b = IF s = 0 THEN 0 ELSE x.disk[s][k]
               /\ k \in 0 .. NIND - 1 /\ num \in ND .. ND + NIND - 1 /\ ~(num < ND)
    BY <1>3, <1>4, <1>5, <2>2 DEF Val, Inner
  <2> QED
    BY <2>1, <2>2
<1>9. b \in Nat /\ (s # 0 => s \in Blocks)
  <2>1. s # 0 => s \in Blocks
    BY <1>5, <1>6 DEF Numbers
  <2> HIDE DEF b, s, k
  <2>2. CASE num < ND
    BY <1>1, <1>8, <2>1, <2>2, StateFacts
  <2>3. CASE num >= ND
    BY <1>1, <1>8, <2>1, <2>3, StateFacts
  <2> QED
    BY <1>5, <2>1, <2>2, <2>3
<1>10. Wiped(x, y, n) /\ y.bitmap = x.bitmap /\ Val(y, u) = IF Bad(b) THEN 0 ELSE b
  <2>1. CASE ~Bad(b)
    <3>1. y = x
      BY <2>1
    <3> HIDE DEF y, b
    <3> QED
      BY <1>1, <1>4, <2>1, <3>1, WipedSame DEF SameDisk, SameFree
  <2>2. CASE Bad(b) /\ num < ND
    <3>1. y = PutAddr(Ask(x, "block"), n, num, 0)
      BY <2>2 DEF SetBlk, PutAddr
    <3>2. num \in 0 .. Double /\ x.inode[n].addr[num] = b
      BY <1>8, <2>2
    <3> HIDE DEF y, b
    <3>3. /\ Wiped(x, y, n) /\ y.bitmap = x.bitmap
          /\ \A j \in 0 .. Double : y.inode[n].addr[j] = IF j = num THEN 0 ELSE x.inode[n].addr[j]
      BY <1>1, <1>5, <2>2, <3>1, <3>2, AddrWiped
    <3>4. Val(y, u) = 0
      BY <1>3, <1>5, <2>2, <3>2, <3>3 DEF Val
    <3> QED
      BY <2>2, <3>3, <3>4
  <2>3. CASE Bad(b) /\ num >= ND
    <3>1. /\ s # 0 /\ s \in Blocks /\ k \in 0 .. NIND - 1 /\ num \in ND .. ND + NIND - 1 /\ ~(num < ND)
          /\ b = x.disk[s][k]
      <4> HIDE DEF b, s, k
      <4> QED
        BY <1>8, <1>9, <2>3 DEF Bad
    <3>2. y = PutPtr(Ask(x, "block"), s, k, 0)
      <4>1. Ask(x, "block").inode[n].addr[Single] = s
        BY <1>1, <1>5, AskedSame DEF SameDisk
      <4> QED
        BY <2>3, <3>1, <4>1 DEF SetBlk, PutPtr
    <3>5. s \in Indirect(x)
      <4>1. Size(x, n) >= ND /\ ~(x.inode[n].offset >= BS)
        BY <1>1, <3>1, BlockSize DEF Trim
      <4> QED
        BY <1>1, <4>1 DEF Indirect, Ends, Size
    <3> HIDE DEF y, b, s, k
    <3>3. Wiped(x, y, n) /\ y.bitmap = x.bitmap /\ y.inode = x.inode /\ y.disk[s][k] = 0
      BY <1>1, <1>5, <2>3, <3>1, <3>2, <3>5, PtrWiped
    <3>4. Val(y, u) = 0
      <4>1. ~(u[2] <= ND) /\ u[2] - (ND + 1) = k /\ y.inode[u[1]].addr[Single] = s
        BY <1>3, <1>5, <2>3, <3>3 DEF s, k, Inner
      <4> QED
        BY <3>3, <4>1 DEF Val
    <3> QED
      BY <2>3, <3>3, <3>4
  <2> QED
    BY <1>5, <2>1, <2>2, <2>3
<1> HIDE DEF y, b, s, k
<1>11. g \in FsType /\ SameDisk(y, g) /\ MarkedBy(x, g, b)
  <2>1. y \in FsType /\ b \in Nat
    BY <1>10, <1>9 DEF Wiped
  <2>2. g \in FsType /\ SameDisk(y, g) /\ MarkedBy(y, g, b)
    BY <1>7, <2>1, AnyMarked
  <2> QED
    BY <1>10, <2>2 DEF MarkedBy
<1>12. Wiped(x, g, n) /\ Val(g, u) = Val(y, u)
  <2>1. Wiped(y, g, n)
    BY <1>11, WipedSame
  <2>2. Val(g, u) = Val(y, u)
    BY <1>11 DEF SameDisk, Val
  <2> QED
    BY <1>10, <2>1, <2>2, WipedWiped
<1>13. At(g)[u] = IF Bad(b) THEN 0 ELSE b
  BY <1>1, <1>3, <1>10, <1>12, WipedPlaces DEF At
<1>14. NotShort(x, n)
  BY <1>1 DEF Trim, NotShort
<1>15. Seen(g, Upto(n, num) \cup {u})
  BY <1>1, <1>2, <1>11, <1>12, <1>13, <1>14, SeenMore
<1>16. Trim(g, n)
  BY <1>1, <1>12, WipedPlaces
<1>17. Wiped(f, g, n)
  BY <1>1, <1>12, WipedWiped
<1> QED
  BY <1>2, <1>11, <1>15, <1>16, <1>17 DEF Cleaned, g

LEMMA BlocksChecked ==
  ASSUME NEW f \in FsType, NEW n \in Inodes, HasBlocks(f, n), f.inode[n].offset \in 0 .. BS - 1,
         Shallow(f, n), Seen(f, Before(n))
  PROVE  CheckBlocks(f, n) \in Cleaned(f, n, Before(n + 1))
<1> DEFINE s0 == CheckPointer(CheckPointer(f, n, Single), n, Double)
           N == Size(f, n) + 1
           I == [k \in 0 .. N |-> Cleaned(f, n, Upto(n, k))]
           On(x, k) == CheckBlock(x, n, k)
           T == [k \in 0 .. N - 1 |-> [x \in FsType |-> On(x, k)]]
           Eq(g) == g = [k \in 0 .. N |-> IF k = 0 THEN s0 ELSE On(g[k - 1], k - 1)]
           h == CHOOSE g : Eq(g)
<1>1. Size(f, n) \in Nat /\ N \in Nat /\ N - 1 = Size(f, n) /\ N \in 0 .. N /\ 0 \in 0 .. N
  <2>1. Size(f, n) \in Nat
    BY StateFacts DEF Size
  <2> QED
    BY <2>1
<1>2. \A P : \A x \in Cleaned(f, n, P) :
        /\ x \in FsType /\ HasBlocks(x, n) /\ Size(x, n) = Size(f, n) /\ x.inode[n].addr[Double] = 0
  <2> SUFFICES ASSUME NEW P, NEW x \in Cleaned(f, n, P)
               PROVE  /\ x \in FsType /\ HasBlocks(x, n) /\ Size(x, n) = Size(f, n)
                      /\ x.inode[n].addr[Double] = 0
    OBVIOUS
  <2>1. x \in FsType /\ Wiped(f, x, n) /\ Trim(x, n)
    BY DEF Cleaned
  <2>2. HasBlocks(x, n) /\ Size(x, n) = Size(f, n)
    BY <2>1, WipedPlaces DEF Wiped, Heads, Size
  <2> QED
    BY <2>1, <2>2 DEF Trim
<1>3. s0 \in I[0] /\ Size(s0, n) = Size(f, n)
  <2>1. s0 \in Cleaned(f, n, Upto(n, 0))
    BY PointersChecked
  <2> HIDE DEF s0
  <2> QED
    BY <1>1, <1>2, <2>1
<1>4. CheckBlocks(f, n) = h[N]
  <2>1. CheckBlocks(f, n) = Steps(LAMBDA x, num : CheckBlock(x, n, num), s0, Size(s0, n))
    BY DEF CheckBlocks, Covered
  <2> HIDE DEF s0
  <2>2. CheckBlocks(f, n) = Steps(LAMBDA x, num : CheckBlock(x, n, num), s0, Size(f, n))
    BY <1>3, <2>1
  <2> QED
    BY <2>2 DEF Steps
<1> HIDE DEF s0
<1>5. ASSUME NEW k \in 0 .. N - 1, NEW x \in I[k] PROVE On(x, k) \in I[k + 1]
  <2>1. k \in 0 .. N /\ k + 1 \in 0 .. N /\ k \in Nat /\ k <= Size(f, n)
    BY <1>1
  <2>2. x \in Cleaned(f, n, Upto(n, k))
    BY <2>1
  <2>3. CASE k < ND + NIND
    <3>1. On(x, k) \in Cleaned(f, n, Upto(n, k + 1))
      BY <2>1, <2>2, <2>3, BlockChecked
    <3> HIDE DEF On
    <3> QED
      BY <2>1, <3>1
  <2>4. CASE k >= ND + NIND
    <3>1. GetBlk(x, n, k) = 0
      BY <2>1, <2>4, GetBlkIs
    <3>2. 0 < FSize /\ ~(0 - LinkAt \in 0 .. 2 * NL - 1)
      BY FsckAssumption
    <3>3. On(x, k) = x
      BY <3>1, <3>2 DEF CheckBlock, Bad, MarkAny, Mark
    <3> HIDE DEF On
    <3>4. Upto(n, k + 1) = Upto(n, k)
      BY <2>1, <2>4, UptoFacts
    <3> QED
      BY <2>1, <2>2, <3>3, <3>4
  <2> QED
    BY <2>1, <2>3, <2>4, Constants
<1>6. \A k \in 0 .. N - 1 : \A x \in I[k] : x \in FsType /\ T[k][x] = On(x, k) /\ T[k][x] \in I[k + 1]
  <2> TAKE k \in 0 .. N - 1
  <2> TAKE x \in I[k]
  <2>1. x \in FsType
    BY <1>1 DEF Cleaned
  <2>2. T[k][x] = On(x, k)
    BY <2>1
  <2> HIDE DEF I, On, T
  <2> QED
    BY <1>5, <2>1, <2>2
<1>7. I \in [0 .. N -> SUBSET FsType]
  BY DEF Cleaned
<1>8. PICK g : Solves(N, FsType, I, s0, T, g)
  <2> HIDE DEF I, T, N, On
  <2>1. Leads(N, FsType, I, s0, T)
    BY <1>1, <1>3, <1>6, <1>7 DEF Leads
  <2> QED
    BY <2>1, RecursionSolved
<1>9. Eq(g)
  <2> HIDE DEF I, T, On
  <2>1. \A k \in 0 .. N : g[k] = IF k = 0 THEN s0 ELSE On(g[k - 1], k - 1)
    <3> TAKE k \in 0 .. N
    <3>1. CASE k = 0
      BY <1>8, <3>1 DEF Solves
    <3>2. CASE k # 0
      <4>1. k - 1 \in 0 .. N - 1 /\ k - 1 \in 0 .. N /\ (k - 1) + 1 = k
        BY <1>1, <3>2
      <4> HIDE DEF N
      <4>2. g[(k - 1) + 1] = T[k - 1][g[k - 1]] /\ g[k - 1] \in I[k - 1]
        BY <1>8, <4>1 DEF Solves
      <4>3. T[k - 1][g[k - 1]] = On(g[k - 1], k - 1)
        BY <1>6, <4>1, <4>2
      <4> QED
        BY <3>2, <4>1, <4>2, <4>3
    <3> QED
      BY <3>1, <3>2
  <2> QED
    BY <1>8, <2>1 DEF Solves
<1>10. Eq(h)
  <2> HIDE DEF Eq
  <2> QED
    BY <1>9
<1>11. h[0] = s0 /\ \A k \in 0 .. N - 1 : h[k + 1] = On(h[k], k)
  <2> HIDE DEF h, On
  <2>1. \A k \in 0 .. N : h[k] = IF k = 0 THEN s0 ELSE On(h[k - 1], k - 1)
    BY <1>10
  <2>2. ASSUME NEW k \in 0 .. N - 1 PROVE h[k + 1] = On(h[k], k)
    <3>1. k + 1 \in 0 .. N /\ k + 1 # 0 /\ (k + 1) - 1 = k
      BY <1>1
    <3>2. h[k + 1] = IF k + 1 = 0 THEN s0 ELSE On(h[(k + 1) - 1], (k + 1) - 1)
      BY <2>1, <3>1
    <3> QED
      BY <3>1, <3>2
  <2> QED
    BY <1>1, <2>1, <2>2
<1>12. h[N] \in I[N]
  <2> HIDE DEF h, On, I, Eq, N
  <2>1. Along(N, h, I)
    BY <1>1, <1>3, <1>5, <1>11 DEF Along
  <2> QED
    BY <2>1, AlongSteps
<1> HIDE DEF h
<1>13. h[N] \in Cleaned(f, n, Upto(n, N))
  BY <1>1, <1>12
<1>14. \A u \in Before(n + 1) \ Upto(n, N) : At(h[N])[u] = 0
  <2> TAKE u \in Before(n + 1) \ Upto(n, N)
  <2>1. u \in Places /\ u[1] = n /\ u \notin Upto(n, N) /\ u[2] \in Nat /\ ND \in Nat
    <3>1. u \in Before(n + 1) /\ u \notin Before(n) /\ u \notin Upto(n, N)
      BY <1>1, UptoFacts
    <3>2. u \in Places /\ u[1] = n
      BY <1>1, <3>1, UptoFacts DEF Before
    <3> QED
      BY <3>1, <3>2, PlaceFacts, Constants
  <2>2. u[2] # ND /\ ~(u[2] < ND /\ u[2] < N) /\ ~(u[2] > ND /\ u[2] <= N)
    BY <2>1 DEF Upto
  <2>3. Size(h[N], n) = Size(f, n)
    BY <1>2, <1>13
  <2>4. ~InFile(h[N], u)
    BY <1>1, <2>1, <2>2, <2>3 DEF InFile
  <2> QED
    BY <2>1, <2>4 DEF At
<1>15. Upto(n, N) \subseteq Before(n + 1)
  BY <1>1, UptoFacts
<1>16. Seen(h[N], Upto(n, N)) /\ h[N] \in FsType /\ Wiped(f, h[N], n) /\ Trim(h[N], n)
  BY <1>13 DEF Cleaned
<1>17. Seen(h[N], Before(n + 1))
  <2> DEFINE g1 == h[N]
             Q == Upto(n, N)
  <2>1. Seen(g1, Q) /\ Q \subseteq Before(n + 1) /\ \A u \in Before(n + 1) \ Q : At(g1)[u] = 0
    BY <1>14, <1>15, <1>16
  <2> HIDE DEF g1, Q
  <2>2. Seen(g1, Before(n + 1))
    BY <2>1 DEF Seen, Met, Numbers
  <2> QED
    BY <2>2 DEF g1
<1> QED
  BY <1>4, <1>16, <1>17 DEF Cleaned

\* The root is a directory, or was an empty one that pass 5 took away.
Grounded(f) ==
  \/ Mode(f, Root) = "dir"
  \/ Mode(f, Root) = "none" /\ f.inode[Root].blkno = 0 /\ f.inode[Root].offset = 0
LEMMA InodeChecked ==
  ASSUME NEW f \in FsType, NEW n \in Inodes, Shallow(f, n), Seen(f, Before(n))
  PROVE  LET g == Checked(f, n)
         IN /\ g \in FsType /\ Keeps(f, g, n) /\ Fine(g, n) /\ Seen(g, Before(n + 1))
            /\ g.panic = f.panic /\ (Grounded(f) => Grounded(g))
<1> DEFINE g == CheckMode([f EXCEPT !.linkmap[n] = -1], n)
           h == CheckSize([g EXCEPT !.linkmap[n] = 0], n)
           x == CheckBlocks(h, n)
<1>1. /\ Opened(f, g, n) /\ Mode(g, n) # "bad" /\ g \in FsType
      /\ g.inode[n].blkno = f.inode[n].blkno /\ g.inode[n].offset = f.inode[n].offset
      /\ Mode(f, n) # "bad" => g.inode[n] = f.inode[n]
  <2>1. -1 \in Int
    OBVIOUS
  <2> QED
    BY <2>1, ModeOpened DEF Opened
<1> HIDE DEF g
<1>2. /\ Opened(g, h, n) /\ Mode(h, n) = Mode(g, n) /\ h \in FsType
      /\ h.inode[n].blkno = Ends(g.inode[n]) /\ h.inode[n].offset \in 0 .. BS - 1
      /\ g.inode[n].offset \in 0 .. BS - 1 => h.inode[n] = g.inode[n]
  <2>1. 0 \in Int
    OBVIOUS
  <2> QED
    BY <1>1, <2>1, SizeOpened DEF Opened
<1> HIDE DEF h
<1>3. g.inode[n].blkno \in Nat /\ g.inode[n].offset \in Int /\ f.inode[n].blkno \in Nat
  BY <1>1, StateFacts
<1>4. \A u \in Before(n) : u \in Places /\ u[1] # n
  <2>1. n \in Nat
    BY Constants
  <2> QED
    BY <2>1 DEF Before
<1>5. Keeps(f, g, n) /\ Seen(g, Before(n))
  <2>1. g.inode[n].blkno >= f.inode[n].blkno
    BY <1>1, <1>3
  <2>2. Ends(g.inode[n]) = Ends(f.inode[n])
    BY <1>1 DEF Ends
  <2> QED
    BY <1>1, <1>4, <2>1, <2>2, OpenedKeeps
<1>6. h.inode[n].blkno >= g.inode[n].blkno
  <2>1. Ends(g.inode[n]) >= g.inode[n].blkno
    BY <1>3, BlockSize DEF Ends
  <2> QED
    BY <1>2, <2>1
<1>7. Keeps(g, h, n) /\ Seen(h, Before(n))
  <2>1. HasBlocks(g, n) /\ Fine(g, n)
          => h.inode[n].blkno = g.inode[n].blkno /\ h.inode[n].offset = g.inode[n].offset
    <3> SUFFICES ASSUME HasBlocks(g, n), Fine(g, n)
                 PROVE  h.inode[n] = g.inode[n]
      OBVIOUS
    <3>1. g.inode[n].offset \in 0 .. BS - 1
      BY DEF Fine, Trim
    <3> QED
      BY <1>2, <3>1
  <2>2. Ends(h.inode[n]) = Ends(g.inode[n])
    <3>1. ~(h.inode[n].offset >= BS)
      BY <1>2, BlockSize
    <3> QED
      BY <1>2, <3>1 DEF Ends
  <2> QED
    BY <1>1, <1>2, <1>4, <1>5, <1>6, <2>1, <2>2, OpenedKeeps
<1>8. \A y : ~HasBlocks(y, n) /\ Seen(y, Before(n)) => Fine(y, n) /\ Seen(y, Before(n + 1))
  <2> SUFFICES ASSUME NEW y, ~HasBlocks(y, n), Seen(y, Before(n))
               PROVE  Fine(y, n) /\ Seen(y, Before(n + 1))
    OBVIOUS
  <2>1. \A u \in Places : u[1] = n => At(y)[u] = 0
    BY DEF At, InFile
  <2>2. Before(n) \subseteq Before(n + 1) /\ \A u \in Before(n + 1) \ Before(n) : At(y)[u] = 0
    <3>1. 0 \in Nat
      OBVIOUS
    <3> QED
      BY <2>1, <3>1, UptoFacts DEF Before
  <2>3. Seen(y, Before(n + 1))
    BY <2>2 DEF Seen, Met, Numbers
  <2>4. Fine(y, n)
    BY <2>1 DEF Fine, Trim, Numbers
  <2> QED
    BY <2>3, <2>4
<1>9. Grounded(f) => Grounded(g)
  <2>1. Root \in Inodes /\ \A m \in Inodes : m # n => g.inode[m] = f.inode[m]
    BY <1>1, Constants, FsckAssumption DEF Opened, Inodes, Root
  <2>2. Grounded(f) => Mode(f, Root) # "bad"
    BY DEF Grounded
  <2> QED
    BY <1>1, <2>1, <2>2 DEF Grounded, Mode
<1>10. ASSUME Mode(g, n) # "none", Grounded(g) PROVE Grounded(h)
  <2>1. Root \in Inodes /\ \A m \in Inodes : m # n => h.inode[m] = g.inode[m]
    BY <1>2, FsckAssumption DEF Opened, Inodes, Root
  <2> QED
    BY <1>2, <1>10, <2>1 DEF Grounded, Mode
<1>11. CASE Mode(g, n) = "none"
  <2>1. Checked(f, n) = g
    BY <1>11 DEF Checked, g, HasBlocks, Mode
  <2>2. ~HasBlocks(g, n)
    BY <1>11 DEF HasBlocks
  <2> QED
    BY <1>1, <1>5, <1>8, <1>9, <2>1, <2>2 DEF Opened
<1>12. CASE Mode(g, n) # "none" /\ ~HasBlocks(g, n)
  <2>1. Checked(f, n) = h
    BY <1>12 DEF Checked, g, h
  <2>2. ~HasBlocks(h, n)
    BY <1>2, <1>12 DEF HasBlocks
  <2> QED
    BY <1>1, <1>2, <1>5, <1>7, <1>8, <1>12, <1>9, <1>10, <2>1, <2>2, KeepsKeeps DEF Opened
<1>13. CASE HasBlocks(g, n)
  <2>1. Checked(f, n) = x
    <3>1. Mode(g, n) # "none"
      BY <1>13 DEF HasBlocks
    <3> QED
      BY <1>13, <3>1 DEF Checked, g, h
  <2>2. HasBlocks(h, n) /\ Shallow(h, n)
    <3>1. HasBlocks(h, n) /\ HasBlocks(f, n)
      BY <1>1, <1>2, <1>13 DEF HasBlocks, Opened, Mode
    <3>2. h.inode[n].addr = f.inode[n].addr
      BY <1>1, <1>2 DEF Opened
    <3>3. Ends(h.inode[n]) = Ends(f.inode[n])
      <4>1. ~(h.inode[n].offset >= BS)
        BY <1>2, BlockSize
      <4> QED
        BY <1>1, <1>2, <4>1 DEF Ends
    <3> QED
      BY <3>1, <3>2, <3>3 DEF Shallow
  <2>3. x \in Cleaned(h, n, Before(n + 1))
    BY <1>2, <1>7, <2>2, BlocksChecked
  <2> HIDE DEF x
  <2>4. /\ x \in FsType /\ Keeps(h, x, n) /\ Trim(x, n) /\ Seen(x, Before(n + 1))
        /\ x.panic = h.panic
    BY <1>2, <2>3, WipedKeeps DEF Cleaned, Wiped, Heads
  <2>5. Fine(x, n)
    <3>1. n \in Nat
      BY Constants
    <3>2. \A u \in Places : u[1] = n => u \in Before(n + 1)
      BY <3>1 DEF Before
    <3> QED
      BY <2>4, <3>2 DEF Fine, Seen
  <2>6. Keeps(f, x, n)
    BY <1>5, <1>7, <2>4, KeepsKeeps
  <2>7. Grounded(f) => Grounded(x)
    <3>1. Heads(h, x) /\ Root \in Inodes
      BY <2>3, FsckAssumption DEF Cleaned, Wiped, Inodes, Root
    <3>2. Mode(g, n) # "none"
      BY <1>13 DEF HasBlocks
    <3>3. Grounded(h) => Grounded(x)
      BY <3>1 DEF Grounded, Heads, Mode
    <3> QED
      BY <1>9, <1>10, <3>2, <3>3
  <2> QED
    BY <1>1, <1>2, <2>1, <2>4, <2>5, <2>6, <2>7 DEF Opened
<1> QED
  BY <1>11, <1>12, <1>13

LEMMA InodesCounted ==
  ASSUME NEW f \in FsType
  PROVE  LET g == CountInodes(f) IN g \in FsType /\ SameDisk(f, g) /\ g.bitmap = f.bitmap
<1> DEFINE number == NI - Root - Cardinality(InUse(f))
           a == Ask(f, "inodes")
<1>1. number \in Int
  <2>1. IsFiniteSet(Inodes)
    BY FsckAssumption, FS_Interval DEF Inodes, Root
  <2>2. IsFiniteSet(InUse(f))
    BY <2>1, FS_Subset DEF InUse
  <2>3. Cardinality(InUse(f)) \in Nat /\ NI \in Nat /\ Root \in Nat
    BY <2>2, FS_CardinalityType, FsckAssumption DEF Root
  <2> QED
    BY <2>3
<1>2. a \in FsType /\ SameDisk(f, a) /\ a.bitmap = f.bitmap
  BY AskedSame DEF Strings
<1>3. CountInodes(f) = f \/ CountInodes(f) = [a EXCEPT !.tinode = number]
  BY DEF CountInodes
<1> HIDE DEF a, number
<1>4. CASE CountInodes(f) = f
  BY <1>4 DEF SameDisk, SameFree
<1>5. CASE CountInodes(f) = [a EXCEPT !.tinode = number]
  <2> DEFINE g == CountInodes(f)
  <2> HIDE DEF g
  <2>1. /\ g \in FsType /\ g.inode = a.inode /\ g.disk = a.disk /\ g.free = a.free /\ g.tfree = a.tfree
        /\ g.bitmap = a.bitmap /\ g.panic = a.panic
    BY <1>1, <1>2, <1>5 DEF FsType, g
  <2> QED
    BY <1>2, <2>1 DEF SameDisk, SameFree, g
<1> QED
  BY <1>3, <1>4, <1>5

-----------------------------------------------------------------------------
(* Passes 4 and 5: the blocks stay where they are                          *)

\* The first blocks of directories: ckdir and mkentry write to no others.
DirBlocks(f) == {f.inode[n].addr[0] : n \in {m \in Inodes : Mode(f, m) = "dir"}}
\* A length may change, and an inode without links and size be taken away.
Quiet(f, g) ==
  /\ g \in FsType /\ SameFree(f, g) /\ g.bitmap = f.bitmap
  /\ \A b \in Blocks : g.disk[b] = f.disk[b] \/ b \in DirBlocks(f)
  /\ \A n \in Inodes :
       /\ g.inode[n].addr = f.inode[n].addr /\ g.inode[n].blkno = f.inode[n].blkno
       /\ f.inode[n].offset \in 0 .. BS - 1 => g.inode[n].offset \in 0 .. BS - 1
       /\ \/ g.inode[n].mode = f.inode[n].mode
          \/ g.inode[n].mode = "none" /\ (HasBlocks(f, n) => Size(f, n) = 0)
  /\ Grounded(f) => Grounded(g)
\* In pass 4 none is taken away.
Steady(f, g) == Quiet(f, g) /\ \A n \in Inodes : g.inode[n].mode = f.inode[n].mode
\* What is in files that were taken away.
Gone(f) ==
  {d \in DataBlocks :
     \E n \in Inodes : ~HasBlocks(f, n) /\ \E k \in 0 .. Double : f.inode[n].addr[k] = d}
Left(f, F) == \A d \in DataBlocks : d \in F \/ d \in Gone(f) \/ \E v \in Places : At(f)[v] = d

LEMMA QuietQuiet ==
  ASSUME NEW f, NEW g, NEW h, Quiet(f, g), Quiet(g, h)
  PROVE  Quiet(f, h)
<1>1. h \in FsType /\ SameFree(f, h) /\ h.bitmap = f.bitmap /\ (Grounded(f) => Grounded(h))
  BY DEF Quiet, SameFree
<1>2. ASSUME NEW n \in Inodes
      PROVE  /\ h.inode[n].addr = f.inode[n].addr /\ h.inode[n].blkno = f.inode[n].blkno
             /\ f.inode[n].offset \in 0 .. BS - 1 => h.inode[n].offset \in 0 .. BS - 1
             /\ \/ h.inode[n].mode = f.inode[n].mode
                \/ h.inode[n].mode = "none" /\ (HasBlocks(f, n) => Size(f, n) = 0)
  BY DEF Quiet, HasBlocks, Mode, Size
<1>3. DirBlocks(g) \subseteq DirBlocks(f)
  <2>1. \A n \in Inodes : g.inode[n].addr = f.inode[n].addr
    BY DEF Quiet
  <2>2. \A n \in Inodes : Mode(g, n) = "dir" => Mode(f, n) = "dir"
    BY DEF Quiet, Mode
  <2> QED
    BY <2>1, <2>2 DEF DirBlocks
<1>4. \A b \in Blocks : h.disk[b] = f.disk[b] \/ b \in DirBlocks(f)
  BY <1>3 DEF Quiet
<1> QED
  BY <1>1, <1>2, <1>4 DEF Quiet

LEMMA SteadySteady ==
  ASSUME NEW f, NEW g, NEW h, Steady(f, g), Steady(g, h)
  PROVE  Steady(f, h)
BY QuietQuiet DEF Steady

LEMMA QuietSame ==
  ASSUME NEW f, NEW g \in FsType, SameDisk(f, g), g.bitmap = f.bitmap
  PROVE  Steady(f, g)
BY DEF SameDisk, Quiet, Steady, Grounded, Mode

\* A directory's first block is in no other place.
LEMMA DirApart ==
  ASSUME NEW f \in FsType, AllFine(f), Separate(At(f)), NEW d \in DirBlocks(f), d # 0
  PROVE  /\ \E v \in Places : At(f)[v] = d
         /\ \A u \in Places : At(f)[u] = d => u[2] = 0 /\ Mode(f, u[1]) = "dir"
<1>1. PICK n \in Inodes : Mode(f, n) = "dir" /\ d = f.inode[n].addr[0]
  BY DEF DirBlocks
<1> DEFINE v == <<n, 0>>
<1>2. ND \in Nat /\ ND > 0 /\ NIND \in Nat /\ 0 \in 0 .. ND + NIND /\ Size(f, n) \in Nat
  BY Constants, StateFacts DEF Size
<1>3. v \in Places /\ ~Inner(v) /\ InFile(f, v) /\ Val(f, v) = d
  BY <1>1, <1>2, PlaceFacts DEF InFile, HasBlocks, Val, Inner
<1>4. At(f)[v] = d
  BY <1>3, FineFacts
<1>5. \A u \in Places : At(f)[u] = d => u = v
  BY <1>3, <1>4 DEF Separate
<1> QED
  BY <1>1, <1>3, <1>4, <1>5

LEMMA QuietKeeps ==
  ASSUME NEW f \in FsType, NEW g, Quiet(f, g), AllFine(f), Separate(At(f))
  PROVE  /\ AllFine(g) /\ Less(At(f), At(g)) /\ Filled(g) \subseteq Filled(f)
         /\ \A w : Sound(f, w) => Sound(g, w)
         /\ \A F : Freed(f, F) => Freed(g, F)
         /\ \A F : Left(f, F) => Left(g, F)
<1>1. /\ g \in FsType /\ SameFree(f, g)
      /\ \A b \in Blocks : g.disk[b] = f.disk[b] \/ b \in DirBlocks(f)
      /\ \A n \in Inodes :
           /\ g.inode[n].addr = f.inode[n].addr /\ g.inode[n].blkno = f.inode[n].blkno
           /\ f.inode[n].offset \in 0 .. BS - 1 => g.inode[n].offset \in 0 .. BS - 1
           /\ \/ g.inode[n].mode = f.inode[n].mode
              \/ g.inode[n].mode = "none" /\ (HasBlocks(f, n) => Size(f, n) = 0)
  BY DEF Quiet
<1>2. \A u \in Places : u[1] \in Inodes /\ u[2] \in 0 .. ND + NIND
  BY PlaceFacts
<1>3. \A n \in Inodes : HasBlocks(g, n) => HasBlocks(f, n) /\ Mode(g, n) = Mode(f, n)
  BY <1>1 DEF HasBlocks, Mode
<1>4. \A n \in Inodes : HasBlocks(f, n) => HasBlocks(g, n) \/ Size(f, n) = 0
  BY <1>1 DEF HasBlocks, Mode
<1>5. \A u \in Places :
         /\ At(f)[u] \in DataBlocks /\ (u[2] # 0 \/ Mode(f, u[1]) # "dir")
         => g.disk[At(f)[u]] = f.disk[At(f)[u]]
  <2> SUFFICES ASSUME NEW u \in Places, At(f)[u] \in DataBlocks, u[2] # 0 \/ Mode(f, u[1]) # "dir"
               PROVE  At(f)[u] \in Blocks /\ At(f)[u] \notin DirBlocks(f)
    BY <1>1
  <2> QED
    BY Constants, DirApart
<1>6. \A u \in Places : HasBlocks(f, u[1]) /\ f.inode[u[1]].addr[Single] \in Numbers => Val(g, u) = Val(f, u)
  <2> SUFFICES ASSUME NEW u \in Places, HasBlocks(f, u[1]), f.inode[u[1]].addr[Single] \in Numbers
               PROVE  Val(g, u) = Val(f, u)
    OBVIOUS
  <2> DEFINE s == f.inode[u[1]].addr[Single]
  <2>1. s \in Numbers /\ g.inode[u[1]].addr = f.inode[u[1]].addr
    BY <1>1, <1>2
  <2>2. s \in DataBlocks => g.disk[s] = f.disk[s]
    <3>1. Root2(u) \in Places /\ Root2(u)[2] # 0 /\ At(f)[Root2(u)] = s
      BY FineFacts, PlaceFacts, Constants
    <3> QED
      BY <1>5, <3>1
  <2> QED
    BY <2>1, <2>2 DEF Val, Numbers
<1>7. \A u \in Places : HasBlocks(f, u[1]) => f.inode[u[1]].addr[Single] \in Numbers
  BY FineFacts, PlaceFacts
<1>8. \A u \in Places : HasBlocks(g, u[1]) => (InFile(g, u) <=> InFile(f, u))
  BY <1>1, <1>2, <1>3 DEF InFile, Size
<1>9. \A u \in Places : At(g)[u] = IF HasBlocks(g, u[1]) THEN At(f)[u] ELSE 0
  BY <1>2, <1>3, <1>6, <1>7, <1>8 DEF At, InFile
<1>10. Less(At(f), At(g))
  BY <1>9 DEF Less
<1>11. AllFine(g)
  <2>1. \A n \in Inodes : Trim(f, n) => Trim(g, n)
    BY <1>1, <1>3 DEF Trim, Size
  <2>2. \A u \in Places : At(g)[u] \in Numbers
    BY <1>9, FineFacts DEF Numbers
  <2>3. \A n \in Inodes : Fine(g, n)
    BY <2>1, <2>2 DEF AllFine, Fine
  <2> QED
    BY <2>3, AllFineIs
<1>12. Filled(g) \subseteq Filled(f)
  BY <1>1, <1>2, <1>3, <1>6, <1>7 DEF Filled
<1>13. Indirect(g) \subseteq Indirect(f)
  <2>1. ASSUME NEW m \in Inodes, HasBlocks(g, m), Ends(g.inode[m]) >= ND
        PROVE  HasBlocks(f, m) /\ Ends(f.inode[m]) >= ND /\ g.inode[m].addr[Single] = f.inode[m].addr[Single]
    <3>1. HasBlocks(f, m) /\ f.inode[m].offset \in 0 .. BS - 1
      BY <1>3, <2>1 DEF AllFine, Trim
    <3>2. ~(f.inode[m].offset >= BS) /\ ~(g.inode[m].offset >= BS)
      BY <1>1, <3>1, BlockSize
    <3> QED
      BY <1>1, <2>1, <3>1, <3>2 DEF Ends
  <2> QED
    BY <2>1 DEF Indirect
<1>14. ASSUME NEW w, Sound(f, w) PROVE Sound(g, w)
  <2>1. ASSUME NEW u \in TextPlaces(w) PROVE KeptAt(g, w, u)
    <3> SUFFICES ASSUME Mode(g, u[1]) = "reg" PROVE KeptAt(g, w, u)
      BY DEF KeptAt
    <3>1. u \in Places /\ Root2(u) \in Places /\ Root2(u)[1] = u[1] /\ u[1] \in Inodes
      BY <1>2, PlaceFacts DEF TextPlaces
    <3>2. HasBlocks(g, u[1])
      BY DEF HasBlocks
    <3>3. Mode(f, u[1]) = "reg"
      BY <1>3, <3>1, <3>2
    <3>4. KeptAt(f, w, u)
      BY <1>14 DEF Sound
    <3>5. /\ At(f)[u] \in DataBlocks \ Indirect(f) /\ f.disk[At(f)[u]] = w.disk[At(w)[u]]
          /\ Inner(u) => At(f)[Root2(u)] \in DataBlocks
      BY <3>3, <3>4 DEF KeptAt
    <3>6. At(g)[u] = At(f)[u] /\ At(g)[Root2(u)] = At(f)[Root2(u)]
      BY <1>9, <3>1, <3>2
    <3>7. g.disk[At(f)[u]] = f.disk[At(f)[u]]
      BY <1>5, <3>1, <3>3, <3>5
    <3> QED
      BY <1>13, <3>5, <3>6, <3>7 DEF KeptAt
  <2>2. Filled(g) \subseteq Filled(w)
    BY <1>12, <1>14 DEF Sound
  <2> QED
    BY <1>11, <2>1, <2>2 DEF Sound
<1>15. ASSUME NEW F, Freed(f, F) PROVE Freed(g, F)
  <2>1. PICK K : Listing(f, F, K)
    BY <1>15 DEF Freed
  <2>2. g.free = f.free /\ g.tfree = f.tfree
    BY <1>1 DEF SameFree
  <2>3. F \subseteq DataBlocks /\ K \subseteq Blocks /\ K \subseteq F
    BY <2>1, Constants DEF Listing
  <2>4. \A b \in K : g.disk[b] = f.disk[b]
    <3> SUFFICES ASSUME NEW b \in K PROVE b \notin DirBlocks(f)
      BY <1>1, <2>3
    <3>1. b # 0 /\ \A v \in Places : At(f)[v] # b
      BY <1>15, <2>3, Constants DEF Freed, Apart
    <3> QED
      BY <3>1, DirApart
  <2>5. Listing(g, F, K)
    BY <2>1, <2>2, <2>4 DEF Listing
  <2>6. Apart(At(g), F)
    BY <1>10, <1>15, <2>3, Constants, LessApart DEF Freed
  <2> QED
    BY <1>15, <2>2, <2>5, <2>6 DEF Freed
<1>16. ASSUME NEW F, Left(f, F) PROVE Left(g, F)
  <2>1. Gone(f) \subseteq Gone(g)
    BY <1>1, <1>3 DEF Gone
  <2>2. ASSUME NEW v \in Places, NEW d \in DataBlocks, At(f)[v] = d, At(g)[v] # d PROVE d \in Gone(g)
    <3>1. ~HasBlocks(g, v[1]) /\ HasBlocks(f, v[1]) /\ v[1] \in Inodes
      BY <1>2, <1>9, <2>2, Constants, FineFacts DEF InFile
    <3>2. Size(f, v[1]) = 0
      BY <1>4, <3>1
    <3>3. f.inode[v[1]].addr[Single] = 0
      <4>1. Trim(f, v[1])
        BY <3>1 DEF AllFine
      <4>2. ~(Size(f, v[1]) >= ND)
        BY <3>2, Constants
      <4> QED
        BY <3>1, <4>1, <4>2 DEF Trim
    <3>4. d # 0 /\ d = Val(f, v)
      BY <2>2, Constants, FineFacts
    <3>5. v[2] <= ND /\ v[2] \in 0 .. Double /\ f.inode[v[1]].addr[v[2]] = d
      <4>1. v[2] <= ND
        BY <3>3, <3>4 DEF Val
      <4>2. v[2] \in 0 .. Double
        BY <1>2, <4>1, Constants, PlaceFacts
      <4> QED
        BY <3>4, <4>1, <4>2 DEF Val
    <3> QED
      BY <1>1, <3>1, <3>5 DEF Gone
  <2> QED
    BY <1>16, <2>1, <2>2 DEF Left
<1> QED
  BY <1>10, <1>11, <1>12, <1>14, <1>15, <1>16

\* Entries of a block, and the words that they are made of.
LEMMA Words ==
  /\ EW \in Nat /\ EW > 1 /\ PER \in Nat /\ PER > 0 /\ NIND \in Nat /\ EW * PER = NIND
  /\ \A j \in 0 .. PER - 1 : /\ j \div PER = 0 /\ EW * j \in 0 .. NIND - 1
                             /\ \A k \in 1 .. EW - 1 : EW * j + k \in 0 .. NIND - 1
  /\ \A k \in 0 .. NIND - 1 : k \div EW \in 0 .. PER - 1 /\ k % EW \in 0 .. EW - 1
<1>1. EW \in Nat /\ EW > 1 /\ PER \in Nat /\ PER > 0 /\ NIND \in Nat /\ EW * PER = NIND
  BY FsckAssumption
<1> HIDE DEF PER
<1>2. ASSUME NEW j \in 0 .. PER - 1
      PROVE  /\ j \div PER = 0 /\ EW * j \in 0 .. EW * PER - 1
             /\ \A k \in 1 .. EW - 1 : EW * j + k \in 0 .. EW * PER - 1
  <2>1. j \div PER = 0
    BY <1>1
  <2>2. EW * j \in 0 .. EW * PER - 1 /\ \A k \in 1 .. EW - 1 : EW * j + k \in 0 .. EW * PER - 1
    BY <1>1
  <2> QED
    BY <2>1, <2>2
<1>3. ASSUME NEW k \in 0 .. EW * PER - 1 PROVE k \div EW \in 0 .. PER - 1 /\ k % EW \in 0 .. EW - 1
  BY <1>1
<1> QED
  BY <1>1, <1>2, <1>3

LEMMA EntryPut ==
  ASSUME NEW c \in BlockType, NEW j \in Nat, NEW e, j \in 0 .. PER - 1 => e \in EntryType
  PROVE  PutEntry(c, j, e) \in BlockType /\ (j \notin 0 .. PER - 1 => PutEntry(c, j, e) = c)
<1>1. \A k \in 0 .. NIND - 1 : c[k] \in Nat
  BY DEF BlockType
<1>2. ASSUME NEW k \in 0 .. NIND - 1, k \div EW = j
      PROVE  j \in 0 .. PER - 1 /\ e.ino \in Nat /\ (k % EW # 0 => e.name[k % EW] \in Nat)
  <2>1. k \div EW \in 0 .. PER - 1 /\ k % EW \in 0 .. EW - 1 /\ EW \in Nat
    BY Words
  <2>2. e \in EntryType
    BY <1>2, <2>1
  <2>3. e.ino \in Nat /\ \A x \in 1 .. EW - 1 : e.name[x] \in Nat
    BY <2>2 DEF EntryType, NameType
  <2> DEFINE x == k % EW
  <2>4. x \in 0 .. EW - 1
    BY <2>1
  <2> HIDE DEF x
  <2>5. x # 0 => x \in 1 .. EW - 1
    BY <2>1, <2>4
  <2> QED
    BY <1>2, <2>1, <2>3, <2>5 DEF x
<1> DEFINE p == PutEntry(c, j, e)
<1>3. p = [k \in 0 .. NIND - 1 |->
             IF k \div EW # j THEN c[k] ELSE IF k % EW = 0 THEN e.ino ELSE e.name[k % EW]]
  BY DEF PutEntry
<1>4. \A k \in 0 .. NIND - 1 :
        (IF k \div EW # j THEN c[k] ELSE IF k % EW = 0 THEN e.ino ELSE e.name[k % EW]) \in Nat
  BY <1>1, <1>2
<1> HIDE DEF p
<1>5. p \in BlockType
  BY <1>3, <1>4 DEF BlockType
<1>6. ASSUME j \notin 0 .. PER - 1 PROVE p = c
  <2>1. \A k \in 0 .. NIND - 1 : k \div EW # j
    BY <1>2, <1>6
  <2>2. p = [k \in 0 .. NIND - 1 |-> c[k]]
    BY <1>3, <2>1
  <2> QED
    BY <2>2 DEF BlockType
<1> QED
  BY <1>5, <1>6 DEF p

LEMMA LinkPut ==
  ASSUME NEW f \in FsType, NEW n, NEW k, n \in 0 .. NL - 1 => k \in Int
  PROVE  Steady(f, [f EXCEPT !.linkmap[n] = k])
<1> DEFINE map == [f.linkmap EXCEPT ![n] = k]
           g == [f EXCEPT !.linkmap = map]
<1>1. map \in [0 .. NL - 1 -> Int]
  BY DEF FsType
<1> HIDE DEF map
<1>2. /\ g \in FsType /\ g.inode = f.inode /\ g.disk = f.disk /\ g.free = f.free /\ g.tfree = f.tfree
      /\ g.bitmap = f.bitmap /\ g.panic = f.panic
  BY <1>1 DEF FsType
<1> HIDE DEF g
<1>3. Steady(f, g)
  BY <1>2, QuietSame DEF SameDisk, SameFree
<1> QED
  BY <1>3 DEF g, map

\* Inode n is changed to y, of the same file or of none.
LEMMA InodePut ==
  ASSUME NEW f \in FsType, NEW n \in Inodes, NEW y \in InodeType,
         y.addr = f.inode[n].addr, y.blkno = f.inode[n].blkno,
         f.inode[n].offset \in 0 .. BS - 1 => y.offset \in 0 .. BS - 1,
         \/ y.mode = f.inode[n].mode /\ (y.mode = "dir" \/ y.offset = f.inode[n].offset)
         \/ /\ y.mode = "none" /\ y.offset = f.inode[n].offset
            /\ HasBlocks(f, n) => Size(f, n) = 0 /\ f.inode[n].offset = 0
  PROVE  LET g == [f EXCEPT !.inode = [f.inode EXCEPT ![n] = y]]
         IN Quiet(f, g) /\ (y.mode = f.inode[n].mode => Steady(f, g))
<1> DEFINE inode == [f.inode EXCEPT ![n] = y]
           g == [f EXCEPT !.inode = inode]
<1>1. inode \in [Inodes -> InodeType] /\ \A m \in Inodes : inode[m] = IF m = n THEN y ELSE f.inode[m]
  BY StateFacts
<1> HIDE DEF inode
<1>2. /\ g \in FsType /\ g.inode = inode /\ g.disk = f.disk /\ g.free = f.free /\ g.tfree = f.tfree
      /\ g.bitmap = f.bitmap /\ g.panic = f.panic
  BY <1>1 DEF FsType
<1> HIDE DEF g
<1>3. Grounded(f) => Grounded(g)
  <2>1. Root \in Inodes
    BY FsckAssumption DEF Inodes, Root
  <2> QED
    BY <1>1, <1>2, <2>1 DEF Grounded, Mode, HasBlocks, Size
<1>4. Quiet(f, g)
  BY <1>1, <1>2, <1>3 DEF Quiet, SameFree
<1>5. y.mode = f.inode[n].mode => Steady(f, g)
  BY <1>1, <1>2, <1>4 DEF Steady
<1> QED
  BY <1>4, <1>5 DEF g, inode

LEMMA AskedQuiet ==
  ASSUME NEW f \in FsType, NEW question \in Strings
  PROVE  Steady(f, Ask(f, question))
BY AskedSame, QuietSame

LEMMA PanicQuiet ==
  ASSUME NEW f \in FsType, NEW why \in Strings
  PROVE  Steady(f, Panic(f, why))
<1>1. Panic(f, why) \in FsType
  BY DEF Panic, FsType
<1> QED
  BY <1>1 DEF Panic, Quiet, SameFree, Steady, Grounded, Mode

LEMMA QuietSelf ==
  ASSUME NEW f \in FsType
  PROVE  Steady(f, f)
BY DEF Quiet, SameFree, Steady

\* The entries that a program reads are what the type says, where there is one.
LEMMA EntryTyped ==
  ASSUME NEW f \in FsType, NEW d, NEW j, GetBlk(f, d, j \div PER) \in Blocks, j \in 0 .. PER - 1
  PROVE  EntryAt(f, d, j) \in EntryType
<1> DEFINE c == f.disk[GetBlk(f, d, j \div PER)]
<1>1. \A k \in 0 .. NIND - 1 : c[k] \in Nat
  BY StateFacts
<1> HIDE DEF c
<1>2. c[EW * j] \in Nat /\ \A k \in 1 .. EW - 1 : c[EW * j + k] \in Nat
  BY <1>1, Words
<1>3. EntryOf(c, j) \in EntryType
  BY <1>2 DEF EntryOf, EntryType, NameType
<1> QED
  BY <1>3 DEF EntryAt, c

\* An entry of a directory is changed.
LEMMA WriteQuiet ==
  ASSUME NEW f \in FsType, NEW d \in Inodes, Mode(f, d) = "dir", NEW j \in Nat, NEW e,
         GetBlk(f, d, j \div PER) \in Blocks /\ j \in 0 .. PER - 1 => e \in EntryType
  PROVE  Steady(f, Write(f, d, j, e)) /\ Write(f, d, j, e).inode = f.inode
<1> DEFINE b == GetBlk(f, d, j \div PER)
           p == PutEntry(f.disk[b], j, e)
           disk == [f.disk EXCEPT ![b] = p]
           g == [f EXCEPT !.disk = disk]
<1>1. f.disk \in [Blocks -> BlockType]
  BY StateFacts
<1>2. b \in Blocks => p \in BlockType /\ (j \notin 0 .. PER - 1 => p = f.disk[b])
  <2> SUFFICES ASSUME b \in Blocks PROVE p \in BlockType /\ (j \notin 0 .. PER - 1 => p = f.disk[b])
    OBVIOUS
  <2>1. f.disk[b] \in BlockType /\ (j \in 0 .. PER - 1 => e \in EntryType)
    BY <1>1
  <2> HIDE DEF b
  <2> QED
    BY <2>1, EntryPut
<1>3. j \in 0 .. PER - 1 => b \in DirBlocks(f)
  <2> SUFFICES ASSUME j \in 0 .. PER - 1 PROVE b \in DirBlocks(f)
    OBVIOUS
  <2>1. j \div PER = 0 /\ 0 < ND /\ ND \in Nat /\ NIND \in Nat
    BY Words, Constants
  <2>2. b = f.inode[d].addr[0]
    <3>1. b = GetBlk(f, d, 0) /\ 0 \notin ND .. ND + NIND - 1
      BY <2>1
    <3> HIDE DEF b
    <3> QED
      BY <2>1, <3>1 DEF GetBlk
  <2> QED
    BY <2>2 DEF DirBlocks
<1> HIDE DEF b, p
<1>4. disk \in [Blocks -> BlockType] /\ \A x \in Blocks : disk[x] = f.disk[x] \/ x \in DirBlocks(f)
  <2>1. disk \in [Blocks -> BlockType]
    BY <1>1, <1>2
  <2>2. \A x \in Blocks : disk[x] = IF x = b THEN p ELSE f.disk[x]
    BY <1>1
  <2> HIDE DEF disk
  <2> QED
    BY <1>2, <1>3, <2>1, <2>2
<1> HIDE DEF disk
<1>5. /\ g \in FsType /\ g.inode = f.inode /\ g.disk = disk /\ g.free = f.free /\ g.tfree = f.tfree
      /\ g.bitmap = f.bitmap
  BY <1>4 DEF FsType
<1> HIDE DEF g
<1>6. Steady(f, g)
  BY <1>4, <1>5 DEF Steady, Quiet, SameFree, Grounded, Mode
<1>7. Write(f, d, j, e) = g
  BY DEF Write, g, disk, p, b
<1> QED
  BY <1>5, <1>6, <1>7

\* A question is asked, and then the entry is changed by Op.
LEMMA EntryQuiet ==
  ASSUME NEW f \in FsType, NEW d \in Inodes, Mode(f, d) = "dir", NEW j \in Nat,
         NEW question \in Strings, NEW e, EntryAt(f, d, j) \in EntryType => e \in EntryType
  PROVE  LET g == Write(Ask(f, question), d, j, e) IN g \in FsType /\ Steady(f, g)
<1> DEFINE a == Ask(f, question)
<1>1. a \in FsType /\ Steady(f, a) /\ GetBlk(a, d, j \div PER) = GetBlk(f, d, j \div PER) /\ Mode(a, d) = "dir"
  <2>1. a \in FsType /\ SameDisk(f, a) /\ Steady(f, a)
    BY AskedSame, AskedQuiet
  <2> QED
    BY <2>1 DEF GetBlk, SameDisk, Mode
<1> HIDE DEF a
<1>2. GetBlk(a, d, j \div PER) \in Blocks /\ j \in 0 .. PER - 1 => e \in EntryType
  BY <1>1, EntryTyped
<1>3. Steady(a, Write(a, d, j, e))
  BY <1>1, <1>2, WriteQuiet
<1>4. Steady(f, Write(a, d, j, e))
  BY <1>1, <1>3, SteadySteady
<1> QED
  BY <1>4 DEF a, Steady, Quiet

LEMMA SlashQuiet ==
  ASSUME NEW f \in FsType, NEW d \in Inodes, Mode(f, d) = "dir", NEW j \in Nat
  PROVE  CheckSlash(f, d, j) \in FsType /\ Steady(f, CheckSlash(f, d, j))
<1> DEFINE e0 == EntryAt(f, d, j)
           e == [e0 EXCEPT !.name = Mended(e0.name)]
<1>1. \A name \in NameType : Mended(name) \in NameType
  <2> SUFFICES ASSUME NEW name \in NameType PROVE Mended(name) \in NameType
    OBVIOUS
  <2>1. \A k \in 1 .. EW - 1 : name[k] \in Nat
    BY DEF NameType
  <2>2. \A k \in 1 .. EW - 1 :
          name[k] + (IF IsSlash(name, 2 * k - 2) THEN 41 ELSE 0)
                  + (IF IsSlash(name, 2 * k - 1) THEN 41 * BYTE ELSE 0) \in Nat
    BY <2>1 DEF BYTE
  <2> QED
    BY <2>2 DEF Mended, NameType
<1>2. e0 \in EntryType => e \in EntryType
  BY <1>1 DEF EntryType
<1>3. CheckSlash(f, d, j) = f \/ CheckSlash(f, d, j) = Write(Ask(f, "slash"), d, j, e)
  BY DEF CheckSlash
<1> HIDE DEF e
<1>4. LET g == Write(Ask(f, "slash"), d, j, e) IN g \in FsType /\ Steady(f, g)
  BY <1>2, EntryQuiet DEF Strings
<1> QED
  BY <1>3, <1>4, QuietSelf

\* One entry, "." or "..", gets the number that is right for it.
LEMMA DotQuiet ==
  ASSUME NEW f \in FsType, NEW d \in Inodes, Mode(f, d) = "dir", NEW j \in Nat, NEW right \in Nat
  PROVE  /\ CheckDot(f, d, j, right, "dot") \in FsType
         /\ Steady(f, CheckDot(f, d, j, right, "dot"))
         /\ CheckDot(f, d, j, right, "dotdot") \in FsType
         /\ Steady(f, CheckDot(f, d, j, right, "dotdot"))
<1> DEFINE e0 == EntryAt(f, d, j)
           e == [e0 EXCEPT !.ino = right]
<1>1. e0 \in EntryType => e \in EntryType
  BY DEF EntryType
<1>2. /\ CheckDot(f, d, j, right, "dot") \in {f, Write(Ask(f, "dot"), d, j, e)}
      /\ CheckDot(f, d, j, right, "dotdot") \in {f, Write(Ask(f, "dotdot"), d, j, e)}
  BY DEF CheckDot
<1> HIDE DEF e
<1>3. \A q \in Strings : LET g == Write(Ask(f, q), d, j, e) IN g \in FsType /\ Steady(f, g)
  BY <1>1, EntryQuiet
<1>4. "dot" \in Strings /\ "dotdot" \in Strings
  BY DEF Strings
<1> QED
  BY <1>2, <1>3, <1>4, QuietSelf

LEMMA LengthQuiet ==
  ASSUME NEW f \in FsType, NEW d \in Inodes, Mode(f, d) = "dir"
  PROVE  Steady(f, CheckLength(f, d))
<1> DEFINE a == Ask(f, "length")
           i == f.inode[d]
           o == i.offset - (i.offset % ENTRY) + 1
           y == PutSize(i, i.blkno, o)
<1>1. a \in FsType /\ a.inode = f.inode /\ a.disk = f.disk /\ Steady(f, a)
  BY AskedSame, AskedQuiet DEF Strings, SameDisk
<1>2. i \in InodeType /\ i.offset \in Int /\ i.blkno \in Nat
  BY StateFacts
<1>3. SUFFICES ASSUME Length(f, d) % ENTRY # 0
               PROVE  Steady(f, CheckLength(f, d))
  BY QuietSelf DEF CheckLength
<1>4. o \in Int /\ (i.offset \in 0 .. BS - 1 => o \in 0 .. BS - 1)
  <2>1. ENTRY \in Nat /\ ENTRY > 0
    BY FsckAssumption DEF ENTRY
  <2> DEFINE m == i.offset % ENTRY
  <2>2. m \in 0 .. ENTRY - 1 /\ m # 0 /\ m \in Int
    BY <1>2, <1>3, <2>1 DEF Length
  <2>3. i.offset \in 0 .. BS - 1 => m <= i.offset
    BY <1>2, <2>1
  <2> HIDE DEF m
  <2>4. i.offset - m + 1 \in Int /\ (i.offset \in 0 .. BS - 1 => i.offset - m + 1 \in 0 .. BS - 1)
    BY <1>2, <2>2, <2>3, BlockSize
  <2> QED
    BY <2>4 DEF m
<1>5. CheckLength(f, d) = [a EXCEPT !.inode = [a.inode EXCEPT ![d] = y]]
  <2>1. CheckLength(f, d) = [a EXCEPT !.inode[d].offset = @ - (@ % ENTRY) + 1]
    BY <1>3 DEF CheckLength
  <2>2. a.inode \in [Inodes -> InodeType] /\ a.inode[d] = i
    BY <1>1, StateFacts
  <2> HIDE DEF a, i
  <2>3. [i EXCEPT !.offset = o] = y
    BY <1>2 DEF PutSize, InodeType
  <2> QED
    BY <2>1, <2>2, <2>3
<1> HIDE DEF a, i, o
<1>6. y \in InodeType /\ y.addr = i.addr /\ y.mode = i.mode /\ y.blkno = i.blkno /\ y.offset = o
  <2> DEFINE b == i.blkno
  <2>1. b \in Nat /\ o \in Int
    BY <1>2, <1>4
  <2>2. y = PutSize(i, b, o)
    OBVIOUS
  <2> HIDE DEF y, b
  <2>3. \A z \in InodeType : LET x == PutSize(z, b, o)
                             IN IsPut(z, x) /\ x.mode = z.mode /\ x.blkno = b /\ x.offset = o
    BY <2>1, SizePut
  <2> QED
    BY <1>2, <2>2, <2>3 DEF IsPut, b
<1> HIDE DEF y
<1>7. a.inode[d] = i /\ y.mode = a.inode[d].mode /\ y.mode = "dir"
  BY <1>1, <1>6 DEF i, Mode
<1>8. Steady(a, [a EXCEPT !.inode = [a.inode EXCEPT ![d] = y]])
  BY <1>1, <1>4, <1>6, <1>7, InodePut
<1> QED
  BY <1>1, <1>5, <1>8, SteadySteady

\* What ckdir does to an entry that it follows.
LEMMA FollowedQuiet ==
  ASSUME NEW f \in FsType, NEW d \in Inodes, Mode(f, d) = "dir", NEW parent \in Inodes,
         NEW j \in Nat, NEW k
  PROVE  LET a == CheckSlash(Counted(f, k), d, j)
             b == CheckDot(a, d, j, d, "dot")
             g == CheckDot(b, d, j, parent, "dotdot")
         IN g \in FsType /\ Steady(f, g)
<1> DEFINE c == Counted(f, k)
           a == CheckSlash(c, d, j)
           b == CheckDot(a, d, j, d, "dot")
           g == CheckDot(b, d, j, parent, "dotdot")
<1>1. c \in FsType /\ Steady(f, c) /\ Mode(c, d) = "dir"
  <2> DEFINE m == f.linkmap[k.ino] + 1
  <2>1. k.ino \in 0 .. NL - 1 => m \in Int
    <3>1. f.linkmap \in [0 .. NL - 1 -> Int]
      BY DEF FsType
    <3>2. \A x \in 0 .. NL - 1 : f.linkmap[x] \in Int /\ f.linkmap[x] + 1 \in Int
      <4> SUFFICES ASSUME NEW x \in 0 .. NL - 1 PROVE f.linkmap[x] \in Int /\ f.linkmap[x] + 1 \in Int
        OBVIOUS
      <4>1. f.linkmap[x] \in Int
        BY <3>1
      <4> QED
        BY <4>1
    <3> DEFINE x == k.ino
    <3> HIDE DEF x
    <3>3. x \in 0 .. NL - 1 => f.linkmap[x] + 1 \in Int
      BY <3>2
    <3> QED
      BY <3>3 DEF x
  <2>2. c = [f EXCEPT !.linkmap[k.ino] = m]
    BY DEF Counted
  <2> HIDE DEF m, c
  <2>3. Steady(f, c)
    BY <2>1, <2>2, LinkPut
  <2> QED
    BY <2>3 DEF Steady, Quiet, Mode
<1> HIDE DEF c
<1>2. a \in FsType /\ Steady(c, a) /\ Mode(a, d) = "dir"
  <2>1. a \in FsType /\ Steady(c, a)
    BY <1>1, SlashQuiet
  <2> QED
    BY <1>1, <2>1 DEF Steady, Mode
<1> HIDE DEF a
<1>3. d \in Nat /\ parent \in Nat
  BY Constants
<1>4. b \in FsType /\ Steady(a, b) /\ Mode(b, d) = "dir"
  <2>1. b \in FsType /\ Steady(a, b)
    BY <1>2, <1>3, DotQuiet
  <2> QED
    BY <1>2, <2>1 DEF Steady, Mode
<1> HIDE DEF b
<1>5. g \in FsType /\ Steady(b, g)
  BY <1>3, <1>4, DotQuiet
<1> HIDE DEF g
<1>6. Steady(f, g)
  BY <1>1, <1>2, <1>4, <1>5, SteadySteady
<1> QED
  BY <1>5, <1>6 DEF g, b, a, c

\* mkentry writes to the root, which is a directory or has no entries.
LEMMA EntryMade ==
  ASSUME NEW f \in FsType, NEW n \in Inodes, Grounded(f)
  PROVE  Quiet(f, MkEntry(f, n))
<1> DEFINE slot == CHOOSE j \in Slots(f) : \A k \in Slots(f) : j <= k
           e == [ino |-> n, name |-> LostName]
           M == RootEntries(f)
<1>1. "directory" \in Strings /\ e \in EntryType
  BY Constants, FsckAssumption DEF Strings, EntryType
<1>2. Quiet(f, f) /\ Quiet(f, Panic(f, "directory"))
  BY <1>1, QuietSelf, PanicQuiet DEF Steady
<1>3. SUFFICES ASSUME Slots(f) # {}, MkEntry(f, n) = Write(f, Root, slot, e)
               PROVE  Quiet(f, Write(f, Root, slot, e))
  BY <1>2 DEF MkEntry
<1>4. M \in Int /\ (Mode(f, Root) = "none" => M = 0 \/ Mode(f, Root) = "dir")
  <2>1. Root \in Inodes
    BY FsckAssumption DEF Inodes, Root
  <2>2. /\ f.inode[Root].offset \in Int /\ f.inode[Root].blkno \in Nat
        /\ PER \in Nat /\ ENTRY \in Nat /\ ENTRY > 0
    BY <2>1, StateFacts, Words DEF ENTRY
  <2> HIDE DEF PER
  <2>3. 0 \div ENTRY = 0 /\ f.inode[Root].offset \div ENTRY \in Int
    BY <2>2
  <2>4. PER * f.inode[Root].blkno \in Nat /\ PER * 0 = 0
    BY <2>2
  <2> QED
    BY <2>3, <2>4 DEF RootEntries, Size, Length, Grounded
<1> HIDE DEF M
<1>5. slot \in Slots(f) /\ Slots(f) \subseteq Nat /\ M # 0
  <2>1. Slots(f) \subseteq 0 .. M - 1
    BY DEF Slots, M
  <2>2. Slots(f) \subseteq Nat /\ M # 0
    BY <1>3, <1>4, <2>1
  <2>3. \E j \in Slots(f) : \A k \in Slots(f) : j <= k
    <3> DEFINE Below == {ss \in Nat \X Nat : ss[1] < ss[2]}
    <3>1. IsWellFoundedOn(Below, Nat)
      BY NatLessThanWellFounded DEF OpToRel
    <3>2. PICK j \in Slots(f) : \A k \in Slots(f) : <<k, j>> \notin Below
      <4> HIDE DEF Below
      <4> QED
        BY <1>3, <2>2, <3>1, WFMin
    <3>3. \A k \in Slots(f) : j \in Nat /\ k \in Nat /\ ~(k < j)
      BY <2>2, <3>2
    <3>4. \A k \in Slots(f) : j <= k
      BY <3>3
    <3> QED
      BY <3>4
  <2> QED
    BY <2>2, <2>3
<1> HIDE DEF slot, e
<1>6. Mode(f, Root) = "dir"
  BY <1>4, <1>5 DEF Grounded
<1>7. Root \in Inodes
  BY FsckAssumption DEF Inodes, Root
<1>8. slot \in Nat
  BY <1>5
<1>9. Steady(f, Write(f, Root, slot, e))
  BY <1>1, <1>6, <1>7, <1>8, WriteQuiet
<1> QED
  BY <1>9 DEF Steady

LEMMA LinkedQuiet ==
  ASSUME NEW f \in FsType, NEW n \in Inodes, Grounded(f)
  PROVE  Quiet(f, Linked(f, n))
<1> DEFINE i == f.inode[n]
<1>1. i \in InodeType /\ f.linkmap[n] \in Int
  <2>1. n \in 0 .. NL - 1
    BY FsckAssumption DEF Inodes, Root
  <2>2. f.linkmap \in [0 .. NL - 1 -> Int]
    BY DEF FsType
  <2> QED
    BY <2>1, <2>2, StateFacts
<1>2. "linkmap" \in Strings /\ "links" \in Strings /\ "useless" \in Strings /\ "detached" \in Strings
  BY DEF Strings
\* A question is asked, and then the inode is changed to y.
<1>3. ASSUME NEW q \in Strings, NEW y \in InodeType, y.addr = i.addr, y.blkno = i.blkno, y.offset = i.offset,
             \/ y.mode = i.mode
             \/ y.mode = "none" /\ (HasBlocks(f, n) => Size(f, n) = 0 /\ i.offset = 0)
      PROVE  LET a == Ask(f, q)
                 g == [a EXCEPT !.inode = [a.inode EXCEPT ![n] = y]]
             IN g \in FsType /\ Quiet(f, g)
  <2> DEFINE a == Ask(f, q)
             g == [a EXCEPT !.inode = [a.inode EXCEPT ![n] = y]]
  <2>1. a \in FsType /\ a.inode = f.inode /\ Quiet(f, a)
    BY AskedSame, AskedQuiet DEF SameDisk, Steady
  <2> HIDE DEF a
  <2>2. /\ HasBlocks(a, n) = HasBlocks(f, n) /\ Size(a, n) = Size(f, n)
        /\ a.inode[n] = i
    BY <2>1 DEF HasBlocks, Mode, Size
  <2> HIDE DEF i
  <2>3. Quiet(a, g)
    BY <1>3, <2>1, <2>2, InodePut
  <2> HIDE DEF g
  <2>4. Quiet(f, g)
    BY <2>1, <2>3, QuietQuiet
  <2> QED
    BY <2>4 DEF Quiet, g, a
<1>4. CASE (Mode(f, n) = "none") # (f.linkmap[n] = -1)
  BY <1>2, <1>4, PanicQuiet DEF Linked, Steady
<1>5. CASE ~((Mode(f, n) = "none") # (f.linkmap[n] = -1)) /\ Miscounted(f, n)
  <2> DEFINE a == Ask(f, "links")
             y == PutLinks(i, f.linkmap[n])
  <2>1. /\ y \in InodeType /\ y.addr = i.addr /\ y.blkno = i.blkno /\ y.offset = i.offset
        /\ y.mode = i.mode
    BY <1>1, LinksPut DEF IsPut
  <2>2. Linked(f, n) = [a EXCEPT !.inode[n].nlink = f.linkmap[n]]
    BY <1>5 DEF Linked, Miscounted
  <2>3. [a EXCEPT !.inode[n].nlink = f.linkmap[n]] = [a EXCEPT !.inode = [a.inode EXCEPT ![n] = y]]
    BY DEF Ask, PutLinks
  <2> HIDE DEF y, i
  <2> QED
    BY <1>2, <1>3, <2>1, <2>2, <2>3
<1>6. CASE /\ ~((Mode(f, n) = "none") # (f.linkmap[n] = -1)) /\ ~Miscounted(f, n)
           /\ f.linkmap[n] = 0 /\ Empty(f, n)
  <2> DEFINE a == Ask(f, "useless")
             y == PutMode(i, "none", 0)
             g == [a EXCEPT !.inode = [a.inode EXCEPT ![n] = y]]
             h == [g EXCEPT !.tinode = @ + 1]
  <2>1. /\ y \in InodeType /\ y.addr = i.addr /\ y.blkno = i.blkno /\ y.offset = i.offset
        /\ y.mode = "none"
    <3>1. "none" \in Modes /\ 0 \in Int
      BY DEF Modes
    <3>2. \A z \in InodeType : LET x == PutMode(z, "none", 0)
                               IN IsPut(z, x) /\ x.mode = "none" /\ x.blkno = z.blkno /\ x.offset = z.offset
      BY <3>1, ModePut
    <3> HIDE DEF i
    <3> QED
      BY <1>1, <3>2 DEF IsPut
  <2>2. HasBlocks(f, n) => Size(f, n) = 0 /\ i.offset = 0
    BY <1>6 DEF Empty, HasBlocks
  <2>3. Linked(f, n) = h
    <3>1. Linked(f, n) = [a EXCEPT !.inode[n].mode = "none", !.inode[n].nlink = 0, !.tinode = @ + 1]
      BY <1>6 DEF Linked
    <3>2. a \in FsType /\ a.inode \in [Inodes -> InodeType] /\ a.inode[n] = i
      <4>1. a \in FsType /\ a.inode = f.inode
        BY <1>2, AskedSame DEF SameDisk
      <4> QED
        BY <4>1, StateFacts
    <3> HIDE DEF a, i
    <3>3. y = [i EXCEPT !.mode = "none", !.nlink = 0]
      BY DEF PutMode
    <3> HIDE DEF y
    <3>4. [[a.inode EXCEPT ![n].mode = "none"] EXCEPT ![n].nlink = 0] = [a.inode EXCEPT ![n] = y]
      BY <1>1, <3>2, <3>3
    <3> QED
      BY <3>1, <3>2, <3>4
  <2> HIDE DEF y, i
  <2>4. g \in FsType /\ Quiet(f, g)
    BY <1>2, <1>3, <2>1, <2>2
  <2> HIDE DEF g
  <2>5. h \in FsType /\ SameDisk(g, h) /\ h.bitmap = g.bitmap
    <3>1. g.tinode + 1 \in Int
      BY <2>4, StateFacts
    <3> QED
      BY <2>4, <3>1 DEF FsType, SameDisk, SameFree
  <2> HIDE DEF h
  <2> QED
    BY <2>3, <2>4, <2>5, QuietSame, QuietQuiet DEF Steady
<1>7. CASE /\ ~((Mode(f, n) = "none") # (f.linkmap[n] = -1)) /\ ~Miscounted(f, n)
           /\ f.linkmap[n] = 0 /\ ~Empty(f, n)
  <2> DEFINE a == Ask(f, "detached")
             y == PutLinks(i, 1)
             g == [a EXCEPT !.inode[n].nlink = 1]
  <2>1. /\ y \in InodeType /\ y.addr = i.addr /\ y.blkno = i.blkno /\ y.offset = i.offset
        /\ y.mode = i.mode
    BY <1>1, LinksPut DEF IsPut
  <2>2. g = [a EXCEPT !.inode = [a.inode EXCEPT ![n] = y]]
    BY DEF Ask, PutLinks
  <2>3. Linked(f, n) = MkEntry(g, n)
    BY <1>7 DEF Linked
  <2> HIDE DEF y, i
  <2>4. g \in FsType /\ Quiet(f, g)
    BY <1>2, <1>3, <2>1, <2>2
  <2> HIDE DEF g
  <2> QED
    BY <2>3, <2>4, EntryMade, QuietQuiet DEF Quiet
<1>8. CASE /\ ~((Mode(f, n) = "none") # (f.linkmap[n] = -1)) /\ ~Miscounted(f, n)
           /\ f.linkmap[n] # 0
  BY <1>8, QuietSelf DEF Linked, Steady
<1> QED
  BY <1>4, <1>5, <1>6, <1>7, <1>8

-----------------------------------------------------------------------------
(* The invariant: what each pass finds and leaves                          *)

Frames == [dir : Inodes, parent : Inodes, j : Nat]
TypeInv ==
  /\ fs \in FsType /\ was \in Disks /\ run \in Nat /\ run >= 1 /\ stack \in Seq(Frames)
  /\ pc \in [pass : 1 .. 6, n : Nat] /\ (pc.pass \in {1, 3, 5} => pc.n \in Inodes)
  /\ fs.panic # "none" => pc.pass >= 4
\* The directories that ckdir is in.
Going(f, s) == \A k \in 1 .. Len(s) : Mode(f, s[k].dir) = "dir"
TreeInv ==
  /\ Grounded(fs)
  /\ pc.pass < 4 => stack = <<>>
  /\ pc.pass = 4 => Going(fs, stack)
\* Pass 1 was at inode n, in this run or in another.
Visited(n) == pc.pass >= 2 \/ run >= 2 \/ n < pc.n
Looked == \A n \in Inodes : IF Visited(n) THEN Fine(fs, n) ELSE Shallow(fs, n)
Kept == Filled(fs) \subseteq Filled(was) /\ \A u \in TextPlaces(was) : KeptAt(fs, was, u)
Marked == (pc.pass = 1 => Seen(fs, Before(pc.n))) /\ (pc.pass = 2 => Mapped(fs))
Splitting == pc.pass = 3 => fs \in Mid(fs, was, Before(pc.n), run = 1)
Freeing == pc.pass >= 4 => \E F : Freed(fs, F) /\ Left(fs, F)
Unshared ==
  /\ run >= 2 \/ pc.pass >= 4 => Separate(At(fs))
  /\ run >= 2 /\ pc.pass >= 4 => Distinct(At(fs))
Inv ==
  /\ TypeInv /\ Roomy(was)
  /\ TreeInv /\ Looked /\ Kept /\ Marked /\ Splitting /\ Freeing /\ Unshared

LEMMA AllLooked ==
  ASSUME Looked, TypeInv, pc.pass >= 2 \/ run >= 2
  PROVE  AllFine(fs)
BY AllFineIs DEF Looked, Visited

LEMMA Numbered ==
  /\ Root \in Inodes /\ Before(Root) = {} /\ Before(NI) = Places /\ NI - 1 \in Inodes
  /\ \A n \in Inodes : n \in Nat /\ n + 1 \in Nat /\ (n # NI - 1 => n + 1 \in Inodes) /\ n < NI
  /\ \A n \in Inodes : ~(n < Root)
<1>1. NI \in Nat /\ NI > 1
  BY FsckAssumption DEF Root
<1>2. /\ Root \in Inodes /\ NI - 1 \in Inodes
      /\ \A n \in Inodes : n \in Nat /\ n + 1 \in Nat /\ (n # NI - 1 => n + 1 \in Inodes) /\ n < NI
      /\ \A n \in Inodes : ~(n < Root)
  BY <1>1 DEF Inodes, Root
<1> QED
  BY <1>2, PlaceFacts DEF Before

LEMMA StartTyped ==
  ASSUME NEW d, d.inode \in [Inodes -> InodeType], d.disk \in [Blocks -> BlockType],
         d.tinode \in Int, d.tfree \in Int, d.free \in Seq(Nat)
  PROVE  LET g == Started(d)
         IN /\ g \in FsType /\ g.inode = d.inode /\ g.disk = d.disk /\ g.bitmap = {}
            /\ g.panic = "none" /\ Seen(g, Before(Root))
<1> DEFINE g == Started(d)
<1>1. NoLinks \in [0 .. NL - 1 -> Int] /\ "none" \in Strings
  BY DEF NoLinks, Strings
<1>2. /\ g \in FsType /\ g.inode = d.inode /\ g.disk = d.disk /\ g.bitmap = {} /\ g.panic = "none"
  BY <1>1 DEF Started, FsType
<1> HIDE DEF g
<1>3. Seen(g, Before(Root))
  BY <1>2, Numbered DEF Seen, Met
<1> QED
  BY <1>2, <1>3 DEF g

LEMMA DiskTyped ==
  ASSUME NEW d \in Disks
  PROVE  /\ d.inode \in [Inodes -> InodeType] /\ d.disk \in [Blocks -> BlockType]
         /\ d.tinode \in Int /\ d.tfree \in Int /\ d.free \in Seq(Nat)
<1>1. d \in DiskType
  BY FsckAssumption
<1> QED
  BY <1>1 DEF DiskType

LEMMA InitInv ==
  ASSUME Init, Roomy(was), Mode(was, Root) = "dir"
  PROVE  Inv
<1>1. /\ was \in Disks /\ fs = Started(was) /\ pc = [pass |-> 1, n |-> Root] /\ stack = <<>> /\ run = 1
  BY DEF Init
<1>2. /\ fs \in FsType /\ fs.inode = was.inode /\ fs.disk = was.disk /\ fs.bitmap = {}
      /\ fs.panic = "none" /\ Seen(fs, Before(Root))
  BY <1>1, DiskTyped, StartTyped
<1>3. /\ At(fs) = At(was) /\ Filled(fs) = Filled(was)
      /\ \A n \in Inodes : Shallow(fs, n) <=> Shallow(was, n)
      /\ \A u \in Places : KeptAt(fs, was, u) <=> KeptAt(was, was, u)
  BY <1>2, AtSame
<1>4. TypeInv
  <2>1. Root \in Nat /\ Root \in Inodes
    BY Numbered
  <2> QED
    BY <1>1, <1>2, <2>1 DEF TypeInv
<1>5. Looked
  <2>1. \A n \in Inodes : ~Visited(n)
    BY <1>1, Numbered DEF Visited
  <2>2. \A n \in Inodes : Shallow(was, n)
    BY <1>1, FsckAssumption DEF SecondLevel, Shallow, HasBlocks, Mode
  <2> QED
    BY <1>3, <2>1, <2>2 DEF Looked
<1>6. Kept
  <2>1. \A u \in TextPlaces(was) : u \in Places /\ KeptAt(was, was, u)
    BY DEF TextPlaces, KeptAt
  <2> QED
    BY <1>3, <2>1 DEF Kept
<1>7. Marked /\ Splitting /\ Freeing /\ Unshared
  BY <1>1, <1>2 DEF Marked, Splitting, Freeing, Unshared
<1>8. TreeInv
  BY <1>1, <1>2 DEF TreeInv, Grounded, Mode
<1> QED
  BY <1>4, <1>5, <1>6, <1>7, <1>8 DEF Inv

\* A run begins with the disk that is there.
LEMMA StartInv ==
  ASSUME Inv, fs' = Started(fs), Begin, was' = was, run' \in Nat, run' >= 1,
         run' >= 2 => run >= 2 \/ pc.pass >= 4
  PROVE  Inv'
<1>1. fs \in FsType /\ was \in Disks /\ TypeInv /\ Looked /\ Kept /\ Unshared /\ Grounded(fs)
  BY DEF Inv, TypeInv, TreeInv
<1>2. pc' = [pass |-> 1, n |-> Root] /\ stack' = <<>>
  BY DEF Begin
<1>3. /\ fs' \in FsType /\ fs'.inode = fs.inode /\ fs'.disk = fs.disk /\ fs'.bitmap = {}
      /\ fs'.panic = "none" /\ Seen(fs', Before(Root))
  BY <1>1, StateFacts, StartTyped
<1>4. /\ At(fs') = At(fs) /\ Filled(fs') = Filled(fs)
      /\ \A n \in Inodes : (Fine(fs', n) <=> Fine(fs, n)) /\ (Shallow(fs', n) <=> Shallow(fs, n))
      /\ \A u \in Places : KeptAt(fs', was, u) <=> KeptAt(fs, was, u)
  BY <1>3, AtSame
<1>5. TypeInv'
  <2>1. Root \in Nat /\ Root \in Inodes
    BY Numbered
  <2> QED
    BY <1>1, <1>2, <1>3, <2>1 DEF TypeInv
<1>6. Looked'
  <2>1. \A n \in Inodes : Visited(n)' => run' >= 2
    BY <1>2, Numbered DEF Visited
  <2>2. \A n \in Inodes : run' >= 2 => Fine(fs, n)
    <3>1. run' >= 2 => pc.pass >= 2 \/ run >= 2
      BY <1>1 DEF TypeInv
    <3> QED
      BY <1>1, <3>1 DEF Looked, Visited
  <2>3. \A n \in Inodes : Shallow(fs, n)
    BY <1>1, FineShallow DEF Looked
  <2> QED
    BY <1>4, <2>1, <2>2, <2>3 DEF Looked
<1>7. Kept'
  <2>1. TextPlaces(was) \subseteq Places
    BY DEF TextPlaces
  <2> QED
    BY <1>1, <1>4, <2>1 DEF Kept
<1>8. Marked' /\ Splitting' /\ Freeing'
  BY <1>2, <1>3 DEF Marked, Splitting, Freeing
<1>9. Unshared'
  BY <1>1, <1>2, <1>4 DEF Unshared
<1>10. TreeInv'
  BY <1>1, <1>2, <1>3 DEF TreeInv, Grounded, Mode
<1> QED
  BY <1>5, <1>6, <1>7, <1>8, <1>9, <1>10 DEF Inv

\* A step of pass 4 or 5.
LEMMA QuietInv ==
  ASSUME Inv, pc.pass >= 4, Quiet(fs, fs'), was' = was, run' = run, stack' \in Seq(Frames),
         pc' \in [pass : 4 .. 6, n : Nat], pc'.pass = 5 => pc'.n \in Inodes,
         pc'.pass = 4 => Going(fs', stack')
  PROVE  Inv'
<1>1. /\ fs \in FsType /\ fs' \in FsType /\ TypeInv /\ Looked /\ Kept /\ Freeing /\ Unshared
      /\ Grounded(fs')
  BY DEF Inv, TypeInv, Quiet, TreeInv
<1>2. /\ pc'.pass \in 4 .. 6 /\ pc'.pass >= 4 /\ pc'.pass >= 2 /\ pc'.pass \notin {1, 2, 3}
      /\ pc' \in [pass : 1 .. 6, n : Nat] /\ pc.pass >= 2
  BY <1>1 DEF TypeInv
<1>3. AllFine(fs) /\ Sound(fs, was) /\ Separate(At(fs))
  <2>1. AllFine(fs) /\ Separate(At(fs))
    BY <1>1, <1>2, AllLooked DEF Unshared
  <2> QED
    BY <1>1, <2>1 DEF Sound, Kept
<1>4. /\ AllFine(fs') /\ Less(At(fs), At(fs')) /\ Sound(fs', was)
      /\ \A F : Freed(fs, F) => Freed(fs', F)
      /\ \A F : Left(fs, F) => Left(fs', F)
  BY <1>1, <1>3, QuietKeeps
<1>5. TypeInv'
  BY <1>1, <1>2 DEF TypeInv
<1>6. Looked'
  BY <1>2, <1>4, AllFineIs DEF Looked, Visited
<1>7. Kept' /\ Marked' /\ Splitting'
  BY <1>2, <1>4 DEF Sound, Kept, Marked, Splitting
<1>8. Freeing'
  BY <1>1, <1>4 DEF Freeing
<1>9. Unshared'
  <2>1. /\ Separate(At(fs)) => Separate(At(fs'))
        /\ Distinct(At(fs)) => Distinct(At(fs'))
    BY <1>4 DEF Less, Separate, Distinct
  <2> QED
    BY <1>1, <2>1 DEF Unshared
<1>10. TreeInv'
  BY <1>1, <1>2 DEF TreeInv
<1> QED
  BY <1>5, <1>6, <1>7, <1>8, <1>9, <1>10 DEF Inv

LEMMA Pass1Inv ==
  ASSUME Inv, Pass1
  PROVE  Inv'
<1> DEFINE n == pc.n
           g == Checked(fs, n)
           last == n = NI - 1
<1>1. /\ pc.pass = 1 /\ fs' = (IF last THEN CountInodes(g) ELSE g)
      /\ pc' = (IF last THEN [pass |-> 2, n |-> Root] ELSE [pc EXCEPT !.n = n + 1])
      /\ stack' = stack /\ run' = run /\ was' = was /\ fs.panic = "none"
  BY DEF Pass1, InodePass
<1>2. /\ fs \in FsType /\ TypeInv /\ Looked /\ Kept /\ Unshared /\ Seen(fs, Before(n))
      /\ n \in Inodes /\ run \in Nat /\ pc \in [pass : 1 .. 6, n : Nat]
      /\ Grounded(fs) /\ stack = <<>>
  BY <1>1 DEF Inv, TypeInv, Marked, TreeInv
<1>3. n \in Nat /\ n + 1 \in Nat /\ (~last => n + 1 \in Inodes)
  BY <1>2, Numbered
<1>4. Shallow(fs, n)
  BY <1>2, FineShallow DEF Looked
<1>5. /\ g \in FsType /\ Keeps(fs, g, n) /\ Fine(g, n) /\ Seen(g, Before(n + 1))
      /\ g.panic = fs.panic /\ Grounded(g)
  BY <1>2, <1>4, InodeChecked
<1> HIDE DEF g
<1>6. /\ fs' \in FsType /\ fs'.inode = g.inode /\ fs'.disk = g.disk /\ fs'.bitmap = g.bitmap
      /\ fs'.panic = g.panic
  BY <1>1, <1>5, InodesCounted DEF SameDisk
<1>7. /\ At(fs') = At(g) /\ Filled(fs') = Filled(g)
      /\ \A m \in Inodes : (Fine(fs', m) <=> Fine(g, m)) /\ (Shallow(fs', m) <=> Shallow(g, m))
      /\ \A u \in Places : KeptAt(fs', was, u) <=> KeptAt(g, was, u)
  BY <1>6, AtSame
<1>8. Seen(fs', Before(n + 1))
  BY <1>5, <1>6, <1>7 DEF Seen
<1>9. /\ pc'.pass = (IF last THEN 2 ELSE 1) /\ pc'.n = (IF last THEN Root ELSE n + 1)
      /\ pc' \in [pass : 1 .. 6, n : Nat]
  <2>1. Root \in Nat
    BY Numbered
  <2> HIDE DEF last, n
  <2> QED
    BY <1>1, <1>2, <1>3, <2>1
<1>10. TypeInv'
  BY <1>1, <1>2, <1>3, <1>5, <1>6, <1>9 DEF TypeInv
<1>11. Looked'
  <2> SUFFICES ASSUME NEW m \in Inodes
               PROVE  IF Visited(m)' THEN Fine(fs', m) ELSE Shallow(fs', m)
    BY DEF Looked
  <2>1. CASE m = n
    BY <1>5, <1>7, <2>1, FineShallow
  <2>2. CASE m # n
    <3>1. (Fine(fs, m) => Fine(g, m)) /\ (Shallow(fs, m) => Shallow(g, m))
      BY <1>5, <2>2 DEF Keeps
    <3>2. Visited(m)' => Visited(m)
      <4>1. m \in Nat /\ m < NI /\ NI \in Nat
        BY Numbered, FsckAssumption
      <4>2. last => m < n
        BY <2>2, <4>1, <1>3
      <4>3. m < n + 1 => m < n
        BY <1>3, <2>2, <4>1
      <4> HIDE DEF last, n
      <4> QED
        BY <1>1, <1>9, <4>2, <4>3 DEF Visited, n
    <3> QED
      BY <1>2, <1>7, <3>1, <3>2, FineShallow DEF Looked
  <2> QED
    BY <2>1, <2>2
<1>12. Kept'
  <2>1. TextPlaces(was) \subseteq Places
    BY DEF TextPlaces
  <2> QED
    BY <1>1, <1>2, <1>5, <1>7, <2>1 DEF Kept, Keeps
<1>13. Marked'
  <2>1. ~last => pc'.pass = 1 /\ Seen(fs', Before(pc'.n))
    BY <1>8, <1>9
  <2>2. last => pc'.pass = 2 /\ Mapped(fs')
    <3>1. last => n + 1 = NI
      BY <1>3, FsckAssumption
    <3>2. last => Seen(fs', Places)
      BY <1>8, <3>1, Numbered
    <3> QED
      BY <1>9, <3>2 DEF Seen, Mapped
  <2> QED
    BY <2>1, <2>2 DEF Marked
<1>14. Splitting' /\ Freeing'
  BY <1>9 DEF Splitting, Freeing
<1>15. Unshared'
  <2> SUFFICES ASSUME run >= 2 PROVE Separate(At(fs'))
    BY <1>1, <1>9 DEF Unshared
  <2>1. AllFine(fs) /\ Separate(At(fs))
    BY <1>2, AllLooked DEF Unshared
  <2>2. Less(At(fs), At(g))
    BY <1>5, <2>1 DEF Keeps
  <2> QED
    BY <1>7, <2>1, <2>2 DEF Less, Separate
<1>16. TreeInv'
  BY <1>1, <1>2, <1>5, <1>6, <1>9 DEF TreeInv, Grounded, Mode
<1> QED
  BY <1>1, <1>10, <1>11, <1>12, <1>13, <1>14, <1>15, <1>16 DEF Inv

LEMMA Pass2Inv ==
  ASSUME Inv, Pass2
  PROVE  Inv'
<1>1. /\ pc.pass = 2 /\ fs' = [Rebuilt(fs) EXCEPT !.bitmap = @ \ DataBlocks] /\ fs.panic = "none"
      /\ pc' = [pass |-> 3, n |-> Root] /\ stack' = stack /\ run' = run /\ was' = was
  BY DEF Pass2
<1>2. /\ fs \in FsType /\ TypeInv /\ Looked /\ Kept /\ Unshared /\ Mapped(fs) /\ run \in Nat /\ run >= 1
      /\ Grounded(fs) /\ stack = <<>>
  BY <1>1 DEF Inv, TypeInv, Marked, TreeInv
<1>3. AllFine(fs) /\ Sound(fs, was)
  <2>1. AllFine(fs)
    BY <1>1, <1>2, AllLooked
  <2> QED
    BY <1>2, <2>1 DEF Sound, Kept
<1>4. Roomy(was) => run = 1 \/ Separate(At(fs))
  BY <1>2 DEF Unshared
<1>5. fs' \in Mid(fs', was, Before(Root), run = 1) /\ At(fs') = At(fs) /\ Heads(fs, fs')
  BY <1>1, <1>2, <1>3, <1>4, FreeListMade
<1>6. fs' \in FsType /\ Sound(fs', was) /\ fs'.panic = fs.panic
  BY <1>5 DEF Mid, Heads
<1>7. TypeInv'
  <2>1. Root \in Nat /\ Root \in Inodes
    BY Numbered
  <2> QED
    BY <1>1, <1>2, <1>5, <1>6, <2>1 DEF TypeInv
<1>8. Looked' /\ Kept'
  BY <1>1, <1>6, AllFineIs DEF Looked, Visited, Sound, Kept
<1>9. Marked' /\ Splitting' /\ Freeing'
  BY <1>1, <1>5 DEF Marked, Splitting, Freeing
<1>10. Unshared'
  BY <1>1, <1>2, <1>5 DEF Unshared
<1>11. TreeInv'
  BY <1>1, <1>2, <1>5, Numbered DEF TreeInv, Grounded, Mode, Heads
<1> QED
  BY <1>1, <1>7, <1>8, <1>9, <1>10, <1>11 DEF Inv

LEMMA Pass3Inv ==
  ASSUME Inv, Pass3
  PROVE  Inv'
<1> DEFINE n == pc.n
           r == run = 1
           last == n = NI - 1
<1>1. /\ pc.pass = 3 /\ fs' = Shared(fs, n) /\ fs.panic = "none"
      /\ pc' = (IF last THEN [pass |-> 4, n |-> Root] ELSE [pc EXCEPT !.n = n + 1])
      /\ stack' = stack /\ run' = run /\ was' = was
  BY DEF Pass3, InodePass
<1>2. /\ fs \in FsType /\ TypeInv /\ fs \in Mid(fs, was, Before(n), r) /\ n \in Inodes
      /\ run \in Nat /\ run >= 1 /\ pc \in [pass : 1 .. 6, n : Nat] /\ Grounded(fs)
      /\ Roomy(was) /\ stack = <<>>
  BY <1>1 DEF Inv, TypeInv, Splitting, TreeInv
<1>3. n \in Nat /\ n + 1 \in Nat /\ (~last => n + 1 \in Inodes)
  BY <1>2, Numbered
<1>4. fs' \in Mid(fs, was, Before(n + 1), r)
  BY <1>1, <1>2, InodeShared
<1>5. fs' \in FsType /\ Sound(fs', was) /\ fs'.panic = "none"
  BY <1>1, <1>4 DEF Mid, Heads
<1>6. PICK F : Freed(fs', F) /\ Shares(fs', was, F, Before(n + 1), r)
  BY <1>4 DEF Mid
<1>7. fs' \in Mid(fs', was, Before(n + 1), r)
  BY <1>5, <1>6 DEF Mid, Heads
<1>8. /\ pc'.pass = (IF last THEN 4 ELSE 3) /\ pc'.n = (IF last THEN Root ELSE n + 1)
      /\ pc' \in [pass : 1 .. 6, n : Nat]
  <2>1. Root \in Nat
    BY Numbered
  <2> HIDE DEF last, n
  <2> QED
    BY <1>1, <1>2, <1>3, <2>1
<1>9. TypeInv'
  BY <1>1, <1>2, <1>3, <1>5, <1>8 DEF TypeInv
<1>10. Looked' /\ Kept'
  BY <1>1, <1>5, <1>8, AllFineIs DEF Looked, Visited, Sound, Kept
<1>11. Marked'
  BY <1>8 DEF Marked
<1>12. Splitting'
  BY <1>1, <1>7, <1>8 DEF Splitting
<1>13. last => Before(n + 1) = Places
  <2>1. last => n + 1 = NI
    BY <1>3, FsckAssumption
  <2> QED
    BY <2>1, Numbered
<1>14. Freeing'
  <2> SUFFICES ASSUME last PROVE Freed(fs', F) /\ Left(fs', F)
    BY <1>1, <1>8 DEF Freeing
  <2> QED
    BY <1>2, <1>6 DEF Shares, Cover, Left
<1>15. Unshared'
  <2>1. ASSUME run >= 2 PROVE Separate(At(fs'))
    BY <1>2, <1>6, <2>1 DEF Shares
  <2>2. ASSUME last PROVE Separate(At(fs')) /\ (run >= 2 => Distinct(At(fs')))
    <3>1. Sharing(At(fs'), fs'.bitmap, Places, r)
      BY <1>2, <1>6, <1>13, <2>2 DEF Shares
    <3>2. run >= 2 => ~r
      BY <1>2
    <3> QED
      BY <3>1, <3>2, AllApart
  <2> QED
    BY <1>1, <1>8, <2>1, <2>2 DEF Unshared
<1>16. TreeInv'
  <2>1. Heads(fs, fs') /\ Root \in Inodes
    BY <1>4, Numbered DEF Mid
  <2>2. Grounded(fs')
    BY <1>2, <2>1 DEF Grounded, Mode, Heads
  <2>3. stack' = <<>> /\ Going(fs', <<>>)
    BY <1>1, <1>2 DEF Going
  <2> QED
    BY <2>2, <2>3 DEF TreeInv
<1> QED
  BY <1>1, <1>2, <1>9, <1>10, <1>11, <1>12, <1>14, <1>15, <1>16 DEF Inv

LEMMA GoingOn ==
  ASSUME NEW f, NEW g, Steady(f, g), NEW s \in Seq(Frames), Going(f, s)
  PROVE  Going(g, s)
<1> SUFFICES ASSUME NEW k \in 1 .. Len(s) PROVE Mode(g, s[k].dir) = "dir"
  BY DEF Going
<1>1. s[k] \in Frames
  <2> HIDE DEF Frames
  <2> QED
    OBVIOUS
<1>2. s[k].dir \in Inodes
  BY <1>1 DEF Frames
<1> QED
  BY <1>2 DEF Going, Steady, Mode

\* ckdir comes to a directory: its length may be mended, and a frame is added.
LEMMA ComeQuiet ==
  ASSUME NEW f \in FsType, NEW frames \in Seq(Frames), Going(f, frames), NEW dir,
         NEW parent \in Inodes, Come(f, frames, dir, parent)
  PROVE  Steady(f, fs') /\ stack' \in Seq(Frames) /\ Going(fs', stack')
<1>1. CASE fs' = CheckLength(f, dir) /\ stack' = Append(frames, Frame(dir, parent))
           /\ dir \in Inodes /\ Mode(f, dir) = "dir"
  <2> DEFINE x == Frame(dir, parent)
  <2>1. x \in Frames /\ x.dir = dir
    BY <1>1 DEF Frame, Frames
  <2> HIDE DEF Frames, x
  <2>2. Append(frames, x) \in Seq(Frames)
    BY <2>1
  <2>3. Going(f, Append(frames, x))
    <3>1. /\ Len(Append(frames, x)) = Len(frames) + 1 /\ Len(frames) \in Nat
          /\ \A k \in 1 .. Len(frames) : Append(frames, x)[k] = frames[k]
          /\ Append(frames, x)[Len(frames) + 1] = x
      BY <2>1
    <3>2. \A k \in 1 .. Len(frames) + 1 : k \in 1 .. Len(frames) \/ k = Len(frames) + 1
      BY <3>1
    <3> QED
      BY <1>1, <2>1, <3>1, <3>2 DEF Going
  <2>4. Steady(f, fs')
    BY <1>1, LengthQuiet
  <2> QED
    BY <1>1, <2>2, <2>3, <2>4, GoingOn DEF x
<1>2. CASE fs' = Panic(f, "stray") /\ stack' = frames
  BY <1>2, PanicQuiet, GoingOn DEF Strings
<1>3. CASE fs' = f /\ stack' = frames
  BY <1>3, QuietSelf
<1> QED
  BY <1>1, <1>2, <1>3 DEF Come

LEMMA FrameFacts ==
  ASSUME NEW s \in Seq(Frames), s # <<>>
  PROVE  LET t == [s EXCEPT ![Len(s)].j = Last(s).j + 1]
         IN /\ Last(s) \in Frames /\ Front(s) \in Seq(Frames) /\ t \in Seq(Frames)
            /\ \A f : Going(f, s) => Mode(f, Last(s).dir) = "dir" /\ Going(f, Front(s)) /\ Going(f, t)
<1> DEFINE t == [s EXCEPT ![Len(s)].j = Last(s).j + 1]
<1>1. Len(s) \in Nat /\ Len(s) >= 1 /\ Len(s) \in 1 .. Len(s) /\ s \in [1 .. Len(s) -> Frames]
  OBVIOUS
<1>2. Last(s) \in Frames /\ Last(s) = s[Len(s)]
  BY <1>1 DEF Last
<1>3. /\ Front(s) \in Seq(Frames) /\ Len(Front(s)) = Len(s) - 1
      /\ \A k \in 1 .. Len(s) - 1 : Front(s)[k] = s[k]
  <2> HIDE DEF Frames
  <2> QED
    BY <1>1 DEF Front
<1>4. t \in Seq(Frames) /\ Len(t) = Len(s) /\ \A k \in 1 .. Len(s) : t[k].dir = s[k].dir
  <2> DEFINE x == [s[Len(s)] EXCEPT !.j = Last(s).j + 1]
  <2>1. x \in Frames /\ x.dir = s[Len(s)].dir
    BY <1>2 DEF Frames
  <2>2. t = [s EXCEPT ![Len(s)] = x]
    OBVIOUS
  <2> HIDE DEF x, t, Frames
  <2>3. t \in [1 .. Len(s) -> Frames]
    BY <1>1, <2>1, <2>2
  <2>4. t \in Seq(Frames) /\ Len(t) = Len(s)
    BY <1>1, <2>3
  <2>5. \A k \in 1 .. Len(s) : t[k] = IF k = Len(s) THEN x ELSE s[k]
    BY <1>1, <2>2
  <2> QED
    BY <2>1, <2>4, <2>5
<1> HIDE DEF t
<1>5. ASSUME NEW f, Going(f, s)
      PROVE  Mode(f, Last(s).dir) = "dir" /\ Going(f, Front(s)) /\ Going(f, t)
  <2>1. \A k \in 1 .. Len(s) : Mode(f, s[k].dir) = "dir"
    BY <1>5 DEF Going
  <2>2. \A k \in 1 .. Len(s) - 1 : k \in 1 .. Len(s)
    BY <1>1
  <2> QED
    BY <1>1, <1>2, <1>3, <1>4, <2>1, <2>2 DEF Going
<1> QED
  BY <1>2, <1>3, <1>4, <1>5 DEF t

LEMMA Pass4Inv ==
  ASSUME Inv, Pass4
  PROVE  Inv'
<1> DEFINE f == [fs EXCEPT !.linkmap[Root] = 1]
<1>1. /\ pc = [pass |-> 4, n |-> Root] /\ Come(f, <<>>, Root, Root)
      /\ pc' = [pc EXCEPT !.n = Root + 1] /\ run' = run /\ was' = was
  BY DEF Pass4
<1>2. fs \in FsType
  BY DEF Inv, TypeInv
<1>3. f \in FsType /\ Steady(fs, f)
  <2>1. Root \in 0 .. NL - 1 => 1 \in Int
    OBVIOUS
  <2>2. \A n, k : (n \in 0 .. NL - 1 => k \in Int) => Steady(fs, [fs EXCEPT !.linkmap[n] = k])
    BY <1>2, LinkPut
  <2>3. Steady(fs, f)
    BY <2>1, <2>2
  <2> QED
    BY <2>3 DEF Steady, Quiet
<1> HIDE DEF f
<1>4. Quiet(fs, fs') /\ stack' \in Seq(Frames) /\ Going(fs', stack')
  <2>1. <<>> \in Seq(Frames) /\ Root \in Inodes /\ Going(f, <<>>)
    BY Numbered DEF Going
  <2>2. Steady(f, fs') /\ stack' \in Seq(Frames) /\ Going(fs', stack')
    BY <1>1, <1>3, <2>1, ComeQuiet
  <2> QED
    BY <1>3, <2>2, QuietQuiet DEF Steady
<1>5. pc.pass >= 4 /\ pc' \in [pass : 4 .. 6, n : Nat] /\ pc'.pass # 5
  <2>1. Root + 1 \in Nat
    BY Numbered
  <2> QED
    BY <1>1, <2>1
<1> QED
  BY <1>1, <1>4, <1>5, QuietInv

LEMMA EntryEmptied ==
  ASSUME NEW e \in EntryType
  PROVE  Emptied(e) \in EntryType
<1>1. e.name \in [1 .. EW - 1 -> Nat] /\ 1 \in 1 .. EW - 1
  BY FsckAssumption DEF EntryType, NameType
<1> DEFINE v == e.name[1] - (e.name[1] % BYTE)
<1>2. v \in Nat
  <2> DEFINE a == e.name[1]
  <2>1. a \in Nat
    BY <1>1
  <2> HIDE DEF a
  <2>2. a - (a % BYTE) \in Nat
    BY <2>1 DEF BYTE
  <2> QED
    BY <2>2 DEF a
<1> HIDE DEF v
<1> DEFINE w == [e.name EXCEPT ![1] = v]
<1>3. w \in NameType
  BY <1>1, <1>2 DEF NameType
<1>4. Emptied(e) = [e EXCEPT !.ino = 0, !.name = w]
  BY DEF Emptied, v
<1> HIDE DEF w
<1>5. [e EXCEPT !.ino = 0, !.name = w] \in EntryType
  BY <1>3 DEF EntryType
<1> QED
  BY <1>4, <1>5

LEMMA CheckEntryInv ==
  ASSUME Inv, CheckEntry
  PROVE  Inv'
<1> DEFINE d == Top.dir
           j == Top.j
           e == EntryAt(fs, d, j)
           f == CheckSlash(Counted(fs, e), d, j)
           g == CheckDot(CheckDot(f, d, j, d, "dot"), d, j, Top.parent, "dotdot")
           rest == [stack EXCEPT ![Len(stack)].j = j + 1]
<1>1. /\ pc = [pass |-> 4, n |-> Root + 1] /\ stack # <<>>
      /\ pc' = pc /\ run' = run /\ was' = was
  BY DEF CheckEntry, InPass4
<1>2. fs \in FsType /\ stack \in Seq(Frames) /\ Going(fs, stack)
  BY <1>1 DEF Inv, TypeInv, TreeInv
<1>3. /\ d \in Inodes /\ j \in Nat /\ Top.parent \in Inodes /\ rest \in Seq(Frames)
      /\ Mode(fs, d) = "dir" /\ Going(fs, rest)
  <2>1. Top \in Frames /\ rest \in Seq(Frames) /\ Mode(fs, d) = "dir" /\ Going(fs, rest)
    BY <1>1, <1>2, FrameFacts DEF Top
  <2> QED
    BY <2>1 DEF Frames
<1>4. Steady(fs, g) /\ g \in FsType
  BY <1>2, <1>3, FollowedQuiet
<1>5. \/ fs' = Panic(fs, "directory") /\ stack' = stack
      \/ fs' = fs /\ stack' = rest
      \/ fs' = Write(Ask(fs, "inode"), d, j, Emptied(e)) /\ stack' = rest
      \/ Followed(g, d, EntryAt(g, d, j).ino, rest)
  BY DEF CheckEntry
<1> HIDE DEF g, rest, f
<1>6. Steady(fs, fs') /\ stack' \in Seq(Frames) /\ Going(fs', stack')
  <2>1. CASE fs' = Panic(fs, "directory") /\ stack' = stack
    BY <1>2, <2>1, PanicQuiet, GoingOn DEF Strings
  <2>2. CASE fs' = fs /\ stack' = rest
    BY <1>2, <1>3, <2>2, QuietSelf
  <2>3. CASE fs' = Write(Ask(fs, "inode"), d, j, Emptied(e)) /\ stack' = rest
    <3> DEFINE x == Emptied(e)
    <3>1. e \in EntryType => x \in EntryType
      BY EntryEmptied
    <3>2. "inode" \in Strings
      BY DEF Strings
    <3> HIDE DEF x, d, j
    <3>3. Steady(fs, Write(Ask(fs, "inode"), d, j, x))
      BY <1>2, <1>3, <3>1, <3>2, EntryQuiet DEF e
    <3> QED
      BY <1>3, <2>3, <3>3, GoingOn DEF x
  <2>4. CASE Followed(g, d, EntryAt(g, d, j).ino, rest)
    <3> DEFINE to == EntryAt(g, d, j).ino
    <3>1. Come(g, rest, to, d) \/ (fs' = g /\ stack' = rest)
      BY <2>4 DEF Followed
    <3> HIDE DEF to, d
    <3>2. Going(g, rest)
      BY <1>3, <1>4, GoingOn
    <3>3. Come(g, rest, to, d) => Steady(g, fs') /\ stack' \in Seq(Frames) /\ Going(fs', stack')
      BY <1>3, <1>4, <3>2, ComeQuiet
    <3> QED
      BY <1>3, <1>4, <3>1, <3>2, <3>3, SteadySteady
  <2> QED
    BY <1>5, <2>1, <2>2, <2>3, <2>4
<1>7. pc.pass >= 4 /\ pc' \in [pass : 4 .. 6, n : Nat] /\ pc'.pass # 5
  <2>1. Root + 1 \in Nat
    BY Numbered
  <2> QED
    BY <1>1, <2>1
<1> QED
  BY <1>1, <1>6, <1>7, QuietInv DEF Steady

LEMMA CheckedDirInv ==
  ASSUME Inv, CheckedDir
  PROVE  Inv'
<1>1. /\ pc = [pass |-> 4, n |-> Root + 1] /\ stack # <<>> /\ stack' = Front(stack)
      /\ fs' = fs /\ pc' = pc /\ run' = run /\ was' = was
  BY DEF CheckedDir, InPass4
<1>2. fs \in FsType /\ stack \in Seq(Frames) /\ Going(fs, stack)
  BY <1>1 DEF Inv, TypeInv, TreeInv
<1>3. Quiet(fs, fs') /\ stack' \in Seq(Frames) /\ Going(fs', stack')
  BY <1>1, <1>2, FrameFacts, QuietSelf DEF Steady
<1>4. pc.pass >= 4 /\ pc' \in [pass : 4 .. 6, n : Nat] /\ pc'.pass # 5
  <2>1. Root + 1 \in Nat
    BY Numbered
  <2> QED
    BY <1>1, <2>1
<1> QED
  BY <1>1, <1>3, <1>4, QuietInv

LEMMA Pass4DoneInv ==
  ASSUME Inv, Pass4Done
  PROVE  Inv'
<1>1. /\ pc = [pass |-> 4, n |-> Root + 1] /\ pc' = [pass |-> 5, n |-> Root]
      /\ fs' = fs /\ stack' = stack /\ run' = run /\ was' = was
  BY DEF Pass4Done, InPass4
<1>2. Quiet(fs, fs') /\ stack' \in Seq(Frames)
  BY <1>1, QuietSelf DEF Inv, TypeInv, Steady
<1>3. pc.pass >= 4 /\ pc' \in [pass : 4 .. 6, n : Nat] /\ pc'.n \in Inodes /\ pc'.pass # 4
  <2>1. Root \in Nat /\ Root \in Inodes
    BY Numbered
  <2> QED
    BY <1>1, <2>1
<1> QED
  BY <1>1, <1>2, <1>3, QuietInv

LEMMA Pass5Inv ==
  ASSUME Inv, Pass5
  PROVE  Inv'
<1> DEFINE n == pc.n
           last == n = NI - 1
<1>1. /\ pc.pass = 5 /\ fs' = Linked(fs, n)
      /\ pc' = (IF last THEN [pass |-> 6, n |-> Root] ELSE [pc EXCEPT !.n = n + 1])
      /\ stack' = stack /\ run' = run /\ was' = was
  BY DEF Pass5, InodePass
<1>2. /\ fs \in FsType /\ stack \in Seq(Frames) /\ n \in Inodes /\ pc \in [pass : 1 .. 6, n : Nat]
      /\ Grounded(fs)
  BY <1>1 DEF Inv, TypeInv, TreeInv
<1>3. Quiet(fs, fs') /\ stack' \in Seq(Frames)
  BY <1>1, <1>2, LinkedQuiet
<1>4. pc' \in [pass : 4 .. 6, n : Nat] /\ (pc'.pass = 5 => pc'.n \in Inodes) /\ pc'.pass # 4
  <2>1. Root \in Nat /\ n + 1 \in Nat /\ (~last => n + 1 \in Inodes)
    BY <1>2, Numbered
  <2> HIDE DEF last, n
  <2>2. pc.pass = 5 /\ pc' = (IF last THEN [pass |-> 6, n |-> Root] ELSE [pc EXCEPT !.n = n + 1])
    BY <1>1
  <2> QED
    BY <1>2, <2>1, <2>2
<1> QED
  BY <1>1, <1>3, <1>4, QuietInv

LEMMA AgainInv ==
  ASSUME Inv, Again
  PROVE  Inv'
<1>1. Stopped /\ run' = run + 1 /\ Begin /\ fs' = Started(fs) /\ was' = was
  BY DEF Again
<1>2. run \in Nat /\ run >= 1 /\ (fs.panic # "none" => pc.pass >= 4)
  BY DEF Inv, TypeInv
<1>3. pc.pass >= 4
  BY <1>1, <1>2 DEF Stopped
<1>4. run' \in Nat /\ run' >= 1
  BY <1>1, <1>2
<1> QED
  BY <1>1, <1>3, <1>4, StartInv

LEMMA InterruptedInv ==
  ASSUME Inv, Interrupted
  PROVE  Inv'
<1>1. run' = run /\ Begin /\ fs' = Started(fs) /\ was' = was
  BY DEF Interrupted
<1>2. run \in Nat /\ run >= 1
  BY DEF Inv, TypeInv
<1> QED
  BY <1>1, <1>2, StartInv

LEMMA StepInv ==
  ASSUME Inv, [Next]_vars
  PROVE  Inv'
<1>1. CASE UNCHANGED vars
  <2>1. /\ fs' = fs /\ pc' = pc /\ stack' = stack /\ run' = run /\ was' = was
    BY <1>1 DEF vars
  <2> QED
    BY <2>1 DEF Inv, TypeInv, TreeInv, Looked, Visited, Kept, Marked, Splitting, Freeing, Unshared
<1>2. CASE Next
  BY <1>2, Pass1Inv, Pass2Inv, Pass3Inv, Pass4Inv, CheckEntryInv, CheckedDirInv, Pass4DoneInv,
     Pass5Inv, AgainInv, InterruptedInv DEF Next
<1> QED
  BY <1>1, <1>2

\* The invariant holds where there is room, if the root is a directory.
Sane == Roomy(was) /\ Mode(was, Root) = "dir"
OnSane == Sane => Inv
LEMMA SaneInvariant == Spec => []OnSane
<1>1. Init => OnSane
  BY InitInv DEF OnSane, Sane
<1>2. OnSane /\ [Next]_vars => OnSane'
  <2> SUFFICES ASSUME OnSane, [Next]_vars, Sane' PROVE Inv'
    BY DEF OnSane
  <2>1. was' = was
    BY DEF Next, vars, Pass1, Pass2, Pass3, Pass4, CheckEntry, CheckedDir, Pass4Done, Pass5,
           InodePass, Again, Interrupted
  <2> QED
    BY <2>1, StepInv DEF OnSane, Sane
<1> QED
  BY <1>1, <1>2, PTL DEF Spec

-----------------------------------------------------------------------------
(* The properties                                                          *)

LEMMA TextIn ==
  ASSUME Inv
  PROVE  TextKept
<1> SUFFICES ASSUME NEW n \in Inodes, NEW num \in 0 .. ND + NIND - 1,
                    Mode(was, n) = "reg", Mode(fs, n) = "reg", num <= Size(was, n),
                    num < ND \/ ~Bad(was.inode[n].addr[Single]),
                    GetBlk(was, n, num) \in DataBlocks \ Indirect(was)
             PROVE  fs.disk[GetBlk(fs, n, num)] = was.disk[GetBlk(was, n, num)]
  BY DEF TextKept
<1> DEFINE u == Place(n, num)
<1>1. num \in Nat /\ num < ND + NIND
  BY Constants
<1>2. Size(was, n) \in Nat
  <2>1. was.inode \in [Inodes -> InodeType]
    BY DiskTyped DEF Inv, TypeInv
  <2> QED
    BY <2>1 DEF InodeType, Size
<1>3. /\ u \in Places /\ u[1] = n /\ u[2] # ND
      /\ num < ND => ~Inner(u)
      /\ \A f : HasBlocks(f, n) /\ Size(f, n) \in Nat => (InFile(f, u) <=> num <= Size(f, n))
  BY <1>1, PlaceOf
<1>4. Val(was, u) = GetBlk(was, n, num) /\ Val(fs, u) = GetBlk(fs, n, num)
  BY <1>1, GetBlkIs
<1> HIDE DEF u
<1>5. At(was)[u] = GetBlk(was, n, num)
  <2>1. HasBlocks(was, n)
    BY DEF HasBlocks
  <2> QED
    BY <1>2, <1>3, <1>4, <2>1 DEF At
<1>6. Inner(u) => At(was)[Root2(u)] \in DataBlocks
  <2> SUFFICES ASSUME Inner(u) PROVE At(was)[Root2(u)] \in DataBlocks
    OBVIOUS
  <2>1. /\ Root2(u) \in Places /\ Root2(u)[1] = n /\ Root2(u)[2] = ND /\ ~(ND < ND) /\ ~(ND > ND)
        /\ ND <= ND /\ Single = ND
    BY <1>3, PlaceFacts, Constants
  <2>2. At(was)[Root2(u)] = was.inode[n].addr[Single]
    <3>1. HasBlocks(was, n)
      BY DEF HasBlocks
    <3> QED
      BY <2>1, <3>1 DEF At, InFile, Val
  <2>3. was.inode[n].addr[Single] # 0
    <3>1. ~(u[2] <= ND)
      BY <1>3, PlaceFacts, Constants DEF Inner
    <3>2. Val(was, u) # 0
      BY <1>4, Constants
    <3> QED
      BY <1>3, <3>1, <3>2 DEF Val
  <2> QED
    BY <1>3, <2>2, <2>3 DEF Bad
<1>7. KeptAt(fs, was, u)
  BY <1>3, <1>5, <1>6 DEF TextPlaces, Inv, Kept
<1>8. At(fs)[u] \in DataBlocks /\ fs.disk[At(fs)[u]] = was.disk[At(was)[u]]
  BY <1>3, <1>7 DEF KeptAt
<1>9. At(fs)[u] = GetBlk(fs, n, num)
  BY <1>3, <1>4, <1>8, Constants DEF At
<1> QED
  BY <1>5, <1>8, <1>9

(* What a file had in its direct blocks and in those of its indirect block *)
(* it still has after each run of fsck, whole or cut short before: pass 3  *)
(* gives each file a copy of what two have, and ckdir and mkentry write    *)
(* only to the first blocks of directories, which are then in no other     *)
(* place.  The exceptions are the blocks that are used as indirect ones,   *)
(* which pass 1 mends where they are.  It is so for a disk with a root     *)
(* directory, on which there are no fewer data blocks than places that     *)
(* want one, and up to a directory that lies in a data block.              *)
THEOREM TextIsKept == Spec => [](Roomy(was) /\ Mode(was, Root) = "dir" => TextKept)
<1>1. OnSane => (Roomy(was) /\ Mode(was, Root) = "dir" => TextKept)
  BY TextIn DEF OnSane, Sane
<1> QED
  BY <1>1, SaneInvariant, PTL

\* The place that a use of a block is about.
PlaceUsed(u) == IF u[2] = "pointer" THEN <<u[1], ND>> ELSE Place(u[1], u[3])

LEMMA UsesArePlaces ==
  ASSUME NEW f \in FsType, AllFine(f)
  PROVE  /\ \A u \in Uses(f) : /\ PlaceUsed(u) \in Places /\ BlockAt(f, u) # 0
                               /\ BlockAt(f, u) = At(f)[PlaceUsed(u)]
         /\ \A u, v \in Uses(f) : PlaceUsed(u) = PlaceUsed(v) => u = v
         /\ \A p \in Taking(At(f)) : \E u \in Uses(f) : PlaceUsed(u) = p
<1> DEFINE N == {n \in Inodes : HasBlocks(f, n)}
           M == ND + NIND
<1>1. /\ ND \in Nat /\ NIND \in Nat /\ ND > 0 /\ NIND > 0 /\ M \in Nat /\ ND + NIND <= M /\ ND <= M
      /\ Single = ND /\ Double = ND + 1 /\ 0 .. M \subseteq Nat
  BY Constants, PlaceFacts
<1> HIDE DEF M
<1>2. Used(f) = N \X {"pointer", "block"} \X (0 .. M)
  BY DEF Used, M
<1>3. \A n \in N : /\ f.inode[n].addr[Double] = 0 /\ Size(f, n) \in Nat
                   /\ <<n, ND>> \in Places /\ At(f)[<<n, ND>>] = f.inode[n].addr[Single]
  <2> TAKE n \in N
  <2>1. Trim(f, n) /\ Size(f, n) \in Nat
    BY StateFacts DEF AllFine, Size
  <2>2. <<n, ND>> \in Places /\ InFile(f, <<n, ND>>) /\ Val(f, <<n, ND>>) = f.inode[n].addr[Single]
    <3>1. <<n, ND>> \in Places
      <4>1. ND \in 0 .. ND + NIND
        BY <1>1
      <4> QED
        BY <4>1, PlaceFacts
    <3> QED
      BY <1>1, <3>1 DEF InFile, Val
  <2>3. At(f)[<<n, ND>>] = f.inode[n].addr[Single]
    BY <2>2 DEF At
  <2> QED
    BY <2>1, <2>2, <2>3 DEF Trim
\* A block of a file, that is not behind its indirect block.
<1>4. ASSUME NEW n \in N, NEW num \in 0 .. M, num <= Size(f, n), GetBlk(f, n, num) # 0
      PROVE  /\ num < ND + NIND /\ Place(n, num) \in Places /\ Place(n, num)[1] = n
             /\ Place(n, num)[2] # ND /\ At(f)[Place(n, num)] = GetBlk(f, n, num)
  <2>1. num \in Nat
    BY <1>1
  <2>2. num < ND + NIND
    <3>1. ~(num >= ND + NIND)
      BY <1>3, <1>4, <2>1, GetBlkIs
    <3> QED
      BY <1>1, <2>1, <3>1
  <2>3. GetBlk(f, n, num) = Val(f, Place(n, num))
    BY <2>1, <2>2, GetBlkIs
  <2>4. /\ Place(n, num) \in Places /\ Place(n, num)[1] = n /\ Place(n, num)[2] # ND
        /\ InFile(f, Place(n, num))
    BY <1>3, <1>4, <2>1, <2>2, PlaceOf
  <2> QED
    BY <2>2, <2>3, <2>4 DEF At
\* The uses are pointers and blocks.
<1>5. ASSUME NEW u \in Uses(f)
      PROVE  /\ u[1] \in N /\ u = <<u[1], u[2], u[3]>> /\ BlockAt(f, u) # 0
             /\ \/ /\ u[2] = "pointer" /\ u[3] = ND /\ BlockAt(f, u) = f.inode[u[1]].addr[Single]
                \/ /\ u[2] = "block" /\ u[3] \in 0 .. M /\ u[3] <= Size(f, u[1])
                   /\ BlockAt(f, u) = GetBlk(f, u[1], u[3])
  <2>1. u \in N \X {"pointer", "block"} \X (0 .. M) /\ BlockAt(f, u) # 0
    BY <1>2 DEF Uses
  <2>2. u[1] \in N /\ u[2] \in {"pointer", "block"} /\ u[3] \in 0 .. M /\ u = <<u[1], u[2], u[3]>>
    BY <2>1
  <2>3. CASE u[2] = "pointer"
    <3>1. u[3] \in {Single, Double} /\ BlockAt(f, u) = f.inode[u[1]].addr[u[3]]
      BY <2>1, <2>3 DEF BlockAt
    <3>2. u[3] # Double
      BY <1>3, <2>1, <2>2, <3>1
    <3> QED
      BY <1>1, <2>1, <2>2, <2>3, <3>1, <3>2
  <2>4. CASE u[2] = "block"
    <3>1. u[3] <= Size(f, u[1]) /\ BlockAt(f, u) = GetBlk(f, u[1], u[3])
      BY <2>1, <2>4 DEF BlockAt
    <3> QED
      BY <2>1, <2>2, <2>4, <3>1
  <2> QED
    BY <2>2, <2>3, <2>4
<1>6. ASSUME NEW u \in Uses(f)
      PROVE  /\ PlaceUsed(u) \in Places /\ BlockAt(f, u) # 0
             /\ BlockAt(f, u) = At(f)[PlaceUsed(u)] /\ PlaceUsed(u)[1] = u[1]
             /\ u[2] = "pointer" <=> PlaceUsed(u)[2] = ND
  <2>1. CASE u[2] = "pointer"
    BY <1>3, <1>5, <2>1 DEF PlaceUsed
  <2>2. CASE u[2] = "block"
    <3>1. /\ u[1] \in N /\ u[3] \in 0 .. M /\ u[3] <= Size(f, u[1])
          /\ BlockAt(f, u) = GetBlk(f, u[1], u[3]) /\ BlockAt(f, u) # 0
      BY <1>5, <2>2
    <3>2. PlaceUsed(u) = Place(u[1], u[3])
      BY <2>2 DEF PlaceUsed
    <3> QED
      BY <1>4, <2>2, <3>1, <3>2
  <2> QED
    BY <1>5, <2>1, <2>2
<1>7. ASSUME NEW u \in Uses(f), NEW v \in Uses(f), PlaceUsed(u) = PlaceUsed(v)
      PROVE  u = v
  <2>1. u[1] = v[1] /\ (u[2] = "pointer" <=> v[2] = "pointer")
    BY <1>6, <1>7
  <2>2. CASE u[2] = "pointer"
    BY <1>5, <2>1, <2>2
  <2>3. CASE u[2] # "pointer"
    <3>1. /\ u[2] = "block" /\ v[2] = "block" /\ u[3] \in Nat /\ v[3] \in Nat
      BY <1>1, <1>5, <2>1, <2>3
    <3>2. Place(u[1], u[3])[2] = Place(v[1], v[3])[2]
      BY <1>7, <3>1 DEF PlaceUsed
    <3>3. (IF u[3] < ND THEN u[3] ELSE u[3] + 1) = (IF v[3] < ND THEN v[3] ELSE v[3] + 1)
      BY <3>2 DEF Place
    <3>4. u[3] = v[3]
      BY <1>1, <3>1, <3>3
    <3> QED
      BY <1>5, <2>1, <3>1, <3>4
  <2> QED
    BY <2>2, <2>3
<1>8. ASSUME NEW p \in Taking(At(f))
      PROVE  \E u \in Uses(f) : PlaceUsed(u) = p
  <2>1. /\ p \in Places /\ p[1] \in N /\ p[2] \in 0 .. ND + NIND /\ p = <<p[1], p[2]>> /\ p[2] \in Nat
        /\ InFile(f, p) /\ Val(f, p) # 0
    <3>1. p \in Places /\ At(f)[p] # 0
      BY DEF Taking
    <3>2. InFile(f, p) /\ Val(f, p) # 0
      BY <3>1 DEF At
    <3>3. HasBlocks(f, p[1])
      BY <3>2 DEF InFile
    <3>4. p[1] \in Inodes /\ p[2] \in 0 .. ND + NIND /\ p = <<p[1], p[2]>>
      BY <3>1, PlaceFacts
    <3>5. p[2] \in Nat
      BY <1>1, <3>4
    <3> QED
      BY <3>1, <3>2, <3>3, <3>4, <3>5
  <2>2. CASE p[2] = ND
    <3> DEFINE u == <<p[1], "pointer", ND>>
    <3>1. u \in Used(f)
      <4>1. ND \in 0 .. M
        BY <1>1
      <4> QED
        BY <1>2, <2>1, <4>1
    <3>2. BlockAt(f, u) = f.inode[p[1]].addr[Single]
      BY <1>1 DEF BlockAt
    <3>3. Val(f, p) = f.inode[p[1]].addr[Single]
      BY <1>1, <2>2 DEF Val
    <3>4. PlaceUsed(u) = p
      BY <2>1, <2>2 DEF PlaceUsed
    <3>5. u \in Uses(f)
      BY <2>1, <3>1, <3>2, <3>3 DEF Uses
    <3> QED
      BY <3>4, <3>5
  <2>3. CASE p[2] # ND
    <3> DEFINE num == IF p[2] < ND THEN p[2] ELSE p[2] - 1
               u == <<p[1], "block", num>>
    <3>1. /\ num \in Nat /\ num < ND + NIND /\ num \in 0 .. M
          /\ (IF num < ND THEN num ELSE num + 1) = p[2]
      BY <1>1, <2>1, <2>3
    <3> HIDE DEF num
    <3>2. Place(p[1], num) = p
      BY <2>1, <3>1 DEF Place
    <3>3. num <= Size(f, p[1])
      <4>1. HasBlocks(f, p[1]) /\ Size(f, p[1]) \in Nat /\ p[1] \in Inodes
        BY <1>3, <2>1
      <4>2. InFile(f, Place(p[1], num)) <=> num <= Size(f, p[1])
        BY <3>1, <4>1, PlaceOf
      <4> QED
        BY <2>1, <3>2, <4>2
    <3>4. u \in Used(f)
      BY <1>2, <2>1, <3>1
    <3>5. BlockAt(f, u) = GetBlk(f, p[1], num)
      BY <3>3 DEF BlockAt
    <3>6. GetBlk(f, p[1], num) = Val(f, p)
      BY <2>1, <3>1, <3>2, GetBlkIs
    <3>7. u \in Uses(f)
      BY <2>1, <3>4, <3>5, <3>6 DEF Uses
    <3>8. PlaceUsed(u) = p
      BY <3>2 DEF PlaceUsed
    <3> QED
      BY <3>7, <3>8
  <2> QED
    BY <2>2, <2>3
<1> QED
  BY <1>6, <1>7, <1>8

LEMMA OnceIn ==
  ASSUME Inv, pc.pass >= 4, run >= 2
  PROVE  EachOnce
<1> DEFINE listed == Tail(Listed(fs))
           free == {listed[k] : k \in 1 .. Len(listed)}
           used == {BlockAt(fs, u) : u \in Uses(fs)}
           gone == UNION {{fs.inode[n].addr[k] : k \in 0 .. ND + 1} :
                           n \in {i \in Inodes : ~HasBlocks(fs, i)}}
           A == At(fs)
<1>1. fs \in FsType /\ AllFine(fs) /\ Distinct(A)
  BY AllLooked DEF Inv, TypeInv, Unshared
<1>2. PICK F : Freed(fs, F) /\ Left(fs, F)
  BY DEF Inv, Freeing
<1>3. PICK K : Listing(fs, F, K)
  BY <1>2 DEF Freed
<1>4. Listed(fs)[1] = 0 /\ free = F /\ Len(listed) = Cardinality(F) /\ F \subseteq DataBlocks
  <2>1. Tidy(Listed(fs), F, K) /\ Listed(fs)[1] = 0
    BY <1>3, ListRead
  <2>2. F \in SUBSET DataBlocks /\ K \in SUBSET F
    BY <1>3 DEF Listing
  <2> DEFINE l == Listed(fs)
  <2> HIDE DEF l
  <2>3. {Tail(l)[k] : k \in 1 .. Len(Tail(l))} = F /\ Len(Tail(l)) = Cardinality(F)
    BY <2>1, <2>2, ListComplete DEF l
  <2> QED
    BY <2>1, <2>2, <2>3 DEF l
<1>5. fs.tfree = Cardinality(F) /\ Apart(A, F)
  BY <1>2 DEF Freed
<1>6. /\ \A u \in Uses(fs) : /\ PlaceUsed(u) \in Places /\ BlockAt(fs, u) # 0
                             /\ BlockAt(fs, u) = A[PlaceUsed(u)]
      /\ \A u, v \in Uses(fs) : PlaceUsed(u) = PlaceUsed(v) => u = v
      /\ \A p \in Taking(A) : \E u \in Uses(fs) : PlaceUsed(u) = p
  BY <1>1, UsesArePlaces
<1>7. \A p \in Places : A[p] \in Numbers
  BY <1>1, FineFacts
<1> HIDE DEF A
<1>8. Cardinality(used) = Cardinality(Uses(fs))
  <2> DEFINE p == [u \in Uses(fs) |-> PlaceUsed(u)]
             h == [u \in Uses(fs) |-> BlockAt(fs, u)]
  <2>1. IsFiniteSet(Uses(fs))
    <3>1. p \in Injection(Uses(fs), Places)
      BY <1>6 DEF Injection, IsInjective
    <3> HIDE DEF p
    <3> QED
      BY <3>1, Constants, FS_Injection
  <2>2. h \in Surjection(Uses(fs), used)
    BY DEF Surjection
  <2>3. h \in Injection(Uses(fs), used)
    <3>1. \A u, v \in Uses(fs) : BlockAt(fs, u) = BlockAt(fs, v) => u = v
      <4> SUFFICES ASSUME NEW u \in Uses(fs), NEW v \in Uses(fs), BlockAt(fs, u) = BlockAt(fs, v)
                   PROVE  PlaceUsed(u) = PlaceUsed(v)
        BY <1>6
      <4> QED
        BY <1>1, <1>6 DEF Distinct
    <3>2. h \in [Uses(fs) -> used]
      OBVIOUS
    <3> QED
      BY <3>1, <3>2 DEF Injection, IsInjective
  <2> HIDE DEF h, used
  <2> QED
    BY <2>1, <2>2, <2>3, FS_Surjection
<1>9. used \cap free = {}
  BY <1>4, <1>5, <1>6 DEF Apart
<1>10. used \cup free \subseteq DataBlocks
  <2>1. \A u \in Uses(fs) : BlockAt(fs, u) \in DataBlocks
    BY <1>6, <1>7 DEF Numbers
  <2> QED
    BY <1>4, <2>1
<1>11. DataBlocks \subseteq used \cup free \cup gone
  <2> SUFFICES ASSUME NEW d \in DataBlocks, d \notin F
               PROVE  d \in used \/ d \in gone
    BY <1>4
  <2>1. CASE d \in Gone(fs)
    <3>1. PICK n \in Inodes, k \in 0 .. Double : ~HasBlocks(fs, n) /\ fs.inode[n].addr[k] = d
      BY <2>1 DEF Gone
    <3>2. k \in 0 .. ND + 1
      BY <3>1 DEF Double
    <3> QED
      BY <3>1, <3>2
  <2>2. ASSUME NEW v \in Places, A[v] = d PROVE d \in used
    <3>1. v \in Taking(A)
      BY <2>2, Constants DEF Taking
    <3>2. PICK u \in Uses(fs) : PlaceUsed(u) = v
      BY <1>6, <3>1
    <3> QED
      BY <1>6, <2>2, <3>2
  <2> QED
    BY <1>2, <2>1, <2>2 DEF Left, A
<1>12. Cardinality(free) = Len(listed) /\ fs.tfree = Len(listed)
  <2> HIDE DEF free, listed
  <2> QED
    BY <1>4, <1>5
<1> HIDE DEF listed, free, used, gone
<1>13. /\ Listed(fs)[1] = 0
       /\ Cardinality(free) = Len(listed) /\ fs.tfree = Len(listed)
       /\ Cardinality(used) = Cardinality(Uses(fs))
       /\ used \cap free = {}
       /\ used \cup free \subseteq DataBlocks
       /\ DataBlocks \subseteq used \cup free \cup gone
  BY <1>4, <1>8, <1>9, <1>10, <1>11, <1>12
<1> QED
  BY <1>13 DEF EachOnce, listed, free, used, gone

(* A second run of fsck leaves each data block in one place: in one file,  *)
(* at one place there, or in the free list, once.  Then no write to a file *)
(* changes another one, and no block in use is given out again.  That is   *)
(* so for each disk with a root directory on which there are no fewer data *)
(* blocks than places that want one: on a fuller disk fsck must leave two  *)
(* files the block that they share.                                        *)
THEOREM BlocksAreOnce == Spec => [](Roomy(was) /\ Mode(was, Root) = "dir" => BlocksOnce)
<1>1. OnSane => (Roomy(was) /\ Mode(was, Root) = "dir" => BlocksOnce)
  <2> SUFFICES ASSUME Inv, Done, run > 1 PROVE EachOnce
    BY DEF OnSane, Sane, BlocksOnce
  <2>1. pc.pass >= 4 /\ run >= 2
    BY DEF Inv, TypeInv, Done
  <2> QED
    BY <2>1, OnceIn
<1> QED
  BY <1>1, SaneInvariant, PTL


=============================================================================
