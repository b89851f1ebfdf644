---------------------------- MODULE FilesProofs ----------------------------
(***************************************************************************)
(* Proofs about Files, for any number of processes, descriptors, open file *)
(* entries, inodes and names: the counts of open files, inodes, links and  *)
(* free inode numbers, over every order of the system calls.               *)
(***************************************************************************)
EXTENDS Files, FiniteSetTheorems, SequenceTheorems, TLAPS

-----------------------------------------------------------------------------
(* Intervals, recursions and counting *)

(* A set with 0 that is closed under n + 1 below N has all of 0 .. N: of  *)
(* the numbers it misses there would be a least one.                      *)
LEMMA IntervalInduction ==
  ASSUME NEW N \in Nat, NEW S, 0 \in S, \A n \in 0 .. N - 1 : n \in S => n + 1 \in S
  PROVE  0 .. N \subseteq S
<1> DEFINE T == {n \in 0 .. N : n \notin S}
           Less == {ss \in Nat \X Nat : ss[1] < ss[2]}
<1> SUFFICES ASSUME T # {} PROVE FALSE
  OBVIOUS
<1>1. IsWellFoundedOn(Less, Nat) /\ T \subseteq Nat
  BY NatLessThanWellFounded DEF OpToRel
<1>2. PICK n \in T : \A m \in T : <<m, n>> \notin Less
  <2> HIDE DEF T, Less
  <2> QED
    BY <1>1, WFMin
<1>3. n - 1 \in T /\ <<n - 1, n>> \in Less
  OBVIOUS
<1> QED
  BY <1>2, <1>3

\* g is the sequence of states from s0, by the steps F.
Solves(g, N, St, s0, F) ==
  /\ g \in [0 .. N -> St]
  /\ g[0] = s0
  /\ \A k \in 1 .. N : g[k] = F[k][g[k - 1]]

(* A recursion whose steps stay in St has a solution in St: a recursive    *)
(* function that is one is what its equation says.                         *)
LEMMA RecursionSolved ==
  ASSUME NEW N \in Nat, NEW St, NEW s0 \in St, NEW F \in [1 .. N -> [St -> St]]
  PROVE  \E g : Solves(g, N, St, s0, F)
<1> DEFINE S == {n \in 0 .. N : \E g : Solves(g, n, St, s0, F)}
<1>1. 0 \in S
  <2>1. Solves([k \in 0 .. 0 |-> s0], 0, St, s0, F)
    BY DEF Solves
  <2> QED
    BY <2>1
<1>2. ASSUME NEW n \in 0 .. N - 1, n \in S PROVE n + 1 \in S
  <2>1. PICK g : Solves(g, n, St, s0, F)
    BY <1>2
  <2> DEFINE h == [k \in 0 .. n + 1 |-> IF k = n + 1 THEN F[n + 1][g[n]] ELSE g[k]]
  <2>2. g \in [0 .. n -> St] /\ g[n] \in St /\ n + 1 \in 1 .. N
    BY <2>1 DEF Solves
  <2>3. F[n + 1][g[n]] \in St
    BY <2>2
  <2>4. h \in [0 .. n + 1 -> St] /\ h[0] = s0
    BY <2>1, <2>2, <2>3 DEF Solves
  <2>5. ASSUME NEW k \in 1 .. n + 1 PROVE h[k] = F[k][h[k - 1]]
    <3>1. CASE k = n + 1
      <4>1. h[n + 1] = F[n + 1][g[n]] /\ h[n] = g[n]
        OBVIOUS
      <4>2. k - 1 = n
        BY <3>1
      <4> HIDE DEF h
      <4> QED
        BY <3>1, <4>1, <4>2
    <3>2. CASE k # n + 1
      <4>1. k \in 1 .. n /\ k \in 0 .. n + 1 /\ k - 1 \in 0 .. n + 1 /\ k - 1 # n + 1
        BY <3>2
      <4>2. h[k] = g[k] /\ h[k - 1] = g[k - 1]
        BY <4>1, <3>2
      <4>3. g[k] = F[k][g[k - 1]]
        BY <2>1, <4>1 DEF Solves
      <4> QED
        BY <4>2, <4>3
    <3> QED
      BY <3>1, <3>2
  <2>6. Solves(h, n + 1, St, s0, F)
    <3> HIDE DEF h
    <3> QED
      BY <2>4, <2>5 DEF Solves
  <2> QED
    BY <2>6
<1>3. N \in S
  <2> HIDE DEF S
  <2>1. 0 .. N \subseteq S
    BY <1>1, <1>2, IntervalInduction
  <2> QED
    BY <2>1
<1> QED
  BY <1>3

\* A set of numbers has a least one.
LEMMA LeastExists ==
  ASSUME NEW S \in SUBSET Nat, S # {}
  PROVE  \E k \in S : \A j \in S : k <= j
<1> DEFINE Less == {ss \in Nat \X Nat : ss[1] < ss[2]}
<1>1. IsWellFoundedOn(Less, Nat)
  BY NatLessThanWellFounded DEF OpToRel
<1>2. PICK x \in S : \A y \in S : ~ (<<y, x>> \in Less)
  <2> HIDE DEF Less
  <2> QED
    BY <1>1, WFMin
<1>3. ASSUME NEW y \in S PROVE x <= y
  <2>1. x \in Nat /\ y \in Nat /\ (y < x => <<y, x>> \in Less)
    OBVIOUS
  <2> QED
    BY <1>2, <2>1
<1> QED
  BY <1>3

\* How many of S are at n.
Count(S, f, n) == Cardinality({q \in S : f[q] = n})
\* p moves to v.
Moves(S, f, g, p, v) == \A q \in S : g[q] = IF q = p THEN v ELSE f[q]

LEMMA CountMoves ==
  ASSUME NEW S, IsFiniteSet(S), NEW f, NEW g, NEW p \in S, NEW v, Moves(S, f, g, p, v), NEW n
  PROVE  /\ Count(S, f, n) \in Nat /\ Count(S, g, n) \in Nat
         /\ Count(S, g, n)
            = Count(S, f, n) - (IF f[p] = n THEN 1 ELSE 0) + (IF v = n THEN 1 ELSE 0)
<1> DEFINE B == {q \in S : f[q] = n}
           A == {q \in S : g[q] = n}
           R == B \ {p}
<1>1. IsFiniteSet(B) /\ IsFiniteSet(A) /\ IsFiniteSet(R)
  <2>1. B \subseteq S /\ A \subseteq S /\ R \subseteq S
    OBVIOUS
  <2> HIDE DEF A, B, R
  <2> QED
    BY <2>1, FS_Subset
<1>2. B = IF f[p] = n THEN R \cup {p} ELSE R
  BY DEF Moves
<1>3. A = IF v = n THEN R \cup {p} ELSE R
  BY DEF Moves
<1>4. p \notin R
  OBVIOUS
<1> HIDE DEF A, B, R
<1>5. Cardinality(R) \in Nat /\ Cardinality(A) \in Nat /\ Cardinality(B) \in Nat
  BY <1>1, FS_CardinalityType
<1>6. Cardinality(R \cup {p}) = Cardinality(R) + 1
  BY <1>1, <1>4, FS_AddElement
<1>7. Cardinality(B) = Cardinality(R) + (IF f[p] = n THEN 1 ELSE 0)
  BY <1>2, <1>5, <1>6
<1>8. Cardinality(A) = Cardinality(R) + (IF v = n THEN 1 ELSE 0)
  BY <1>3, <1>5, <1>6
<1>9. Cardinality(A) = Cardinality(B) - (IF f[p] = n THEN 1 ELSE 0) + (IF v = n THEN 1 ELSE 0)
  BY <1>5, <1>7, <1>8
<1> QED
  BY <1>5, <1>9 DEF A, B, Count

\* Who is counted at all.

LEMMA CountZero ==
  ASSUME NEW S, IsFiniteSet(S), NEW f, NEW n
  PROVE  /\ Count(S, f, n) \in Nat
         /\ Count(S, f, n) = 0 <=> \A q \in S : f[q] # n
<1> DEFINE B == {q \in S : f[q] = n}
<1>1. IsFiniteSet(B)
  BY FS_Subset
<1>2. B = {} <=> \A q \in S : f[q] # n
  OBVIOUS
<1> HIDE DEF B
<1>3. Cardinality(B) \in Nat /\ (Cardinality(B) = 0 <=> B = {})
  BY <1>1, FS_CardinalityType, FS_EmptySet
<1> QED
  BY <1>2, <1>3 DEF B, Count

\* One more is counted.
Gains(S, T, p) == p \notin S /\ T = S \cup {p}
Agree(S, f, g) == \A q \in S : g[q] = f[q]
LEMMA CountGrows ==
  ASSUME NEW S, IsFiniteSet(S), NEW f, NEW g, Agree(S, f, g), NEW p, NEW T, Gains(S, T, p), NEW n
  PROVE  /\ Count(S, f, n) \in Nat
         /\ Count(T, g, n) = Count(S, f, n) + (IF g[p] = n THEN 1 ELSE 0)
<1> USE DEF Gains, Agree
<1> DEFINE B == {q \in S : f[q] = n}
           A == {q \in T : g[q] = n}
<1>1. IsFiniteSet(B)
  BY FS_Subset
<1>2. A = IF g[p] = n THEN B \cup {p} ELSE B
  OBVIOUS
<1>3. p \notin B
  OBVIOUS
<1> HIDE DEF A, B
<1>4. Cardinality(B) \in Nat /\ Cardinality(B \cup {p}) = Cardinality(B) + 1
  BY <1>1, <1>3, FS_AddElement, FS_CardinalityType
<1>5. Cardinality(A) = Cardinality(B) + (IF g[p] = n THEN 1 ELSE 0)
  BY <1>2, <1>4
<1> QED
  BY <1>4, <1>5 DEF A, B, Count

LEMMA CountBound ==
  ASSUME NEW S, IsFiniteSet(S), NEW f, NEW n
  PROVE  Count(S, f, n) \in Nat /\ Count(S, f, n) <= Cardinality(S)
<1>1. {q \in S : f[q] = n} \in SUBSET S
  OBVIOUS
<1> QED
  BY <1>1, FS_Subset, FS_CardinalityType DEF Count

\* A bijection keeps the number of elements.
LEMMA SameSize ==
  ASSUME NEW S, IsFiniteSet(S), NEW T, NEW r \in [S -> T],
         \A i, j \in S : r[i] = r[j] => i = j, \A t \in T : \E i \in S : r[i] = t
  PROVE  IsFiniteSet(T) /\ Cardinality(T) = Cardinality(S)
<1>1. r \in Injection(S, T)
  <2>1. IsInjective(r)
    BY DEF IsInjective
  <2> QED
    BY <2>1 DEF Injection
<1>2. r \in Surjection(S, T)
  BY DEF Surjection
<1>3. ExistsBijection(S, T)
  BY <1>1, <1>2 DEF ExistsBijection, Bijection
<1> QED
  BY <1>3, FS_Bijection

\* How many of S are not above i.  There is one for each number up to |S|.
Rank(S, i) == Cardinality({j \in S : j <= i})

LEMMA RankGrows ==
  ASSUME NEW S \in SUBSET Nat, IsFiniteSet(S), NEW i \in S
  PROVE  /\ Rank(S, i) \in 1 .. Cardinality(S)
         /\ \A j \in S : i < j => Rank(S, i) < Rank(S, j)
<1> DEFINE B(x) == {j \in S : j <= x}
<1>1. ASSUME NEW x \in S
      PROVE  IsFiniteSet(B(x)) /\ Cardinality(B(x)) \in Nat /\ Cardinality(B(x)) <= Cardinality(S)
  <2>1. B(x) \in SUBSET S
    OBVIOUS
  <2> QED
    BY <2>1, FS_Subset, FS_CardinalityType
<1>2. Cardinality(B(i)) # 0
  <2>1. i \in B(i)
    OBVIOUS
  <2> QED
    BY <1>1, <2>1, FS_EmptySet
<1>3. ASSUME NEW j \in S, i < j PROVE Cardinality(B(i)) < Cardinality(B(j))
  <2>0. i \in Nat /\ j \in Nat /\ \A x \in S : x \in Nat
    OBVIOUS
  <2>1. B(i) \cup {j} \in SUBSET B(j) /\ j \notin B(i)
    <3>1. j \in B(j) /\ j \notin B(i)
      BY <1>3, <2>0
    <3>2. ASSUME NEW x \in B(i) PROVE x \in B(j)
      BY <1>3, <2>0
    <3> HIDE DEF B
    <3>3. B(j) \subseteq S
      BY DEF B
    <3> QED
      BY <3>1, <3>2, <3>3
  <2>2. Cardinality(B(i) \cup {j}) = Cardinality(B(i)) + 1
    BY <1>1, <2>1, FS_AddElement
  <2>3. Cardinality(B(i) \cup {j}) <= Cardinality(B(j))
    BY <1>1, <2>1, FS_Subset
  <2> QED
    BY <1>1, <2>2, <2>3
<1>4. Cardinality(S) \in Nat
  BY FS_CardinalityType
<1> QED
  BY <1>1, <1>2, <1>3, <1>4 DEF Rank

LEMMA RankExists ==
  ASSUME NEW S \in SUBSET Nat, IsFiniteSet(S), NEW k \in 1 .. Cardinality(S)
  PROVE  \E i \in S : Rank(S, i) = k
<1> DEFINE N == Cardinality(S)
           T == {t \in 1 .. N : \E i \in S : Rank(S, i) = t}
           r == [i \in S |-> Rank(S, i)]
<1>1. r \in [S -> T] /\ \A i \in S : r[i] = Rank(S, i)
  BY RankGrows
<1>2. \A i, j \in S : r[i] = r[j] => i = j
  <2>1. ASSUME NEW i \in S, NEW j \in S, r[i] = r[j], i < j PROVE FALSE
    <3>1. Rank(S, i) < Rank(S, j) /\ Rank(S, i) \in Nat
      BY <2>1, RankGrows
    <3> QED
      BY <1>1, <2>1, <3>1
  <2> HIDE DEF r
  <2> QED
    BY <2>1
<1>3. \A t \in T : \E i \in S : r[i] = t
  BY <1>1
<1>4. T \in SUBSET (1 .. N) /\ N \in Nat
  BY FS_CardinalityType
<1> HIDE DEF r, T
<1>5. Cardinality(T) = N
  BY <1>1, <1>2, <1>3, SameSize
<1>6. IsFiniteSet(1 .. N) /\ Cardinality(1 .. N) = N
  BY <1>4, FS_Interval
<1>7. T = 1 .. N
  BY <1>4, <1>5, <1>6, FS_Subset
<1> QED
  BY <1>7 DEF T

-----------------------------------------------------------------------------
\* The limit of i_ref that nothing reaches: 2 * ITABSIZE is 40, OFTSIZE + PTABSIZE + 2 is less.
Roomy == MaxRefs > OFTSIZE + Cardinality(Procs) + 2

Sized(f) == f \in FsType /\ Len(f.inode) <= ICACHE /\ Len(f.dir) <= DIRMAX

RootKept(f) ==
  f.node[Root] = MadeInodes[Root] /\ f.disk[Root] = MadeInodes[Root] /\ ~f.dirty[Root]

\* What is not on the disk is marked, but for a pipe that is open.
Written(f) ==
  \A i \in Inodes :
    /\ f.refs[i] = 0 => ~f.dirty[i]
    /\ f.dirty[i] \/ f.disk[i] = f.node[i] \/ (f.refs[i] > 0 /\ f.node[i].nlink = 0)

\* Inodes are whole, but for one that i_open has just made.
Whole(f, made) ==
  \A i \in FileInodes :
    /\ f.node[i].type = "none" => f.node[i].nlink = 0
    /\ f.node[i].type = "REG" => f.node[i].dev = 0
    /\ f.refs[i] > 0 /\ i \notin made => f.node[i].type # "none"

\* A slot of the directory has a name if and only if it has an inode.
DirSound(f) == \A k \in 1 .. Len(f.dir) : f.dir[k].name = NoName <=> f.dir[k].ino = 0

InoAt(dir) == [k \in 1 .. Len(dir) |-> dir[k].ino]
EntriesOf(dir, i) == Count(1 .. Len(dir), InoAt(dir), i)
LinksCounted(f) ==
  f.slips = 0 => \A i \in FileInodes : f.node[i].nlink = EntriesOf(f.dir, i)

\* s_inode and s_tinode, but for numbers that are taken.
Unused(f) == {i \in FileInodes : f.node[i].type = "none"}
Distinct(seq) == \A j, k \in 1 .. Len(seq) : seq[j] = seq[k] => j = k
Numbers(f, S) ==
  f.slips = 0 => /\ f.mounted /\ f.tinode = Cardinality(S)
                 /\ Elements(f.inode) \subseteq S /\ Distinct(f.inode)

\* Devices that are gone, but for the block that f_trunc was to free.
Undone(f) == {i \in FileInodes : f.node[i].type = "none" /\ Stray(f.node[i].dev)}
Fresh(f) == Roomy /\ f.slips = 0 => f.panic = "none"
Calm(f) ==
  Roomy /\ f.slips = 0 => f.panic = "none" \/ (f.panic = "invalid blk" /\ Undone(f) # {})

FsOK(f) ==
  /\ Sized(f) /\ RootKept(f) /\ Written(f) /\ Whole(f, {}) /\ DirSound(f)
  /\ LinksCounted(f) /\ Numbers(f, Unused(f)) /\ Calm(f)

-----------------------------------------------------------------------------
(* Changes of counts and marks alone. *)

LEMMA CalmKept ==
  ASSUME NEW f \in FsType, Calm(f), NEW g \in FsType, g.panic = f.panic, g.slips >= f.slips,
         \A i \in FileInodes : f.node[i].type = "none" => g.node[i] = f.node[i]
  PROVE  Calm(g)
<1>1. f.slips \in Nat /\ g.slips \in Nat
  BY DEF FsType
<1>2. Undone(f) # {} => Undone(g) # {}
  BY DEF Undone
<1>3. g.slips = 0 => f.slips = 0
  BY <1>1
<1> QED
  BY <1>2, <1>3 DEF Calm

LEMMA FreshKept ==
  ASSUME NEW f \in FsType, Fresh(f), NEW g \in FsType, g.panic = f.panic, g.slips >= f.slips
  PROVE  Fresh(g)
<1>1. f.slips \in Nat /\ g.slips \in Nat
  BY DEF FsType
<1> QED
  BY <1>1 DEF Fresh

LEMMA Constants ==
  /\ Root \in Inodes /\ FileInodes \subseteq Inodes /\ Root \notin FileInodes
  /\ \A i \in Inodes : i # Root => i \in FileInodes
  /\ 0 \notin Inodes /\ Inodes \subseteq Nat /\ IsFiniteSet(Inodes) /\ IsFiniteSet(FileInodes)
  /\ MadeInodes[Root] = [type |-> "DIR", nlink |-> 3, dev |-> 0]
  /\ MaxRefs \in Nat /\ DIRMAX \in Nat /\ ICACHE \in Nat
<1>1. NI \in Nat /\ NI > 1
  BY FilesAssumption
<1>2. IsFiniteSet(1 .. NI) /\ IsFiniteSet(2 .. NI)
  BY <1>1, FS_Interval
<1>3. Root \in Inodes
  BY <1>1 DEF Root, Inodes
<1> QED
  BY <1>1, <1>2, <1>3, FilesAssumption DEF Root, Inodes, FileInodes, MadeInodes

LEMMA SlipGives ==
  ASSUME NEW f \in FsType
  PROVE  /\ Slip(f) \in FsType /\ Slip(f).slips = f.slips + 1
         /\ Slip(f).refs = f.refs /\ Slip(f).node = f.node /\ Slip(f).dirty = f.dirty
         /\ Slip(f).disk = f.disk /\ Slip(f).inode = f.inode /\ Slip(f).tinode = f.tinode
         /\ Slip(f).mounted = f.mounted /\ Slip(f).dir = f.dir /\ Slip(f).error = f.error
         /\ Slip(f).panic = f.panic
<1>1. f.slips \in Nat /\ f.slips + 1 \in Nat
  BY DEF FsType
<1> QED
  BY <1>1 DEF FsType, Slip

LEMMA PanicGives ==
  ASSUME NEW f \in FsType, NEW why \in Panics, NEW g, g = Panic(f, why)
  PROVE  /\ g \in FsType
         /\ g.refs = f.refs /\ g.node = f.node /\ g.dirty = f.dirty
         /\ g.disk = f.disk /\ g.inode = f.inode /\ g.tinode = f.tinode
         /\ g.mounted = f.mounted /\ g.dir = f.dir /\ g.error = f.error
         /\ g.slips = f.slips
  BY DEF FsType, Panic

\* g has the inodes, the numbers and the directory of f.
Alike(f, g) ==
  /\ g \in FsType
  /\ g.node = f.node /\ g.dirty = f.dirty /\ g.disk = f.disk /\ g.inode = f.inode
  /\ g.tinode = f.tinode /\ g.mounted = f.mounted /\ g.dir = f.dir

LEMMA AlikeOK ==
  ASSUME NEW f, NEW g, FsOK(f), Alike(f, g), g.slips >= f.slips, Calm(g),
         \A i \in FileInodes : /\ g.refs[i] = 0 => f.refs[i] = 0
                               /\ g.refs[i] > 0 => f.refs[i] > 0 \/ f.node[i].type # "none"
  PROVE  FsOK(g)
<1>1. Sized(f) /\ f.slips \in Nat /\ g.slips \in Nat
  BY DEF FsOK, Sized, Alike, FsType
<1>2. Sized(g) /\ RootKept(g) /\ DirSound(g)
  BY <1>1 DEF FsOK, Sized, Alike, RootKept, DirSound
<1>3. Written(g)
  <2>1. \A i \in FileInodes : f.refs[i] \in Nat /\ g.refs[i] \in Nat
    BY Constants DEF FsOK, Sized, Alike, FsType
  <2>2. ASSUME NEW i \in FileInodes
        PROVE  /\ g.refs[i] = 0 => ~g.dirty[i]
               /\ g.dirty[i] \/ g.disk[i] = g.node[i] \/ (g.refs[i] > 0 /\ g.node[i].nlink = 0)
    <3>1. /\ f.refs[i] = 0 => ~f.dirty[i]
          /\ f.dirty[i] \/ f.disk[i] = f.node[i] \/ (f.refs[i] > 0 /\ f.node[i].nlink = 0)
      BY Constants DEF FsOK, Written
    <3>2. g.dirty = f.dirty /\ g.disk = f.disk /\ g.node = f.node
      BY DEF Alike
    <3> QED
      BY <2>1, <3>1, <3>2
  <2> QED
    BY <1>2, <2>2, Constants DEF Written, RootKept
<1>4. Whole(g, {})
  BY DEF FsOK, Alike, Whole
<1>5. g.slips = 0 => f.slips = 0
  BY <1>1
<1>6. Unused(g) = Unused(f)
  BY DEF Alike, Unused
<1>7. LinksCounted(g) /\ Numbers(g, Unused(g))
  BY <1>5, <1>6 DEF FsOK, Alike, LinksCounted, Numbers
<1> QED
  BY <1>2, <1>3, <1>4, <1>7 DEF FsOK

LEMMA IRefGives ==
  ASSUME NEW f \in FsType, NEW i \in Inodes, NEW g, g = IRef(f, i)
  PROVE  /\ Alike(f, g) /\ g.error = f.error /\ g.slips = f.slips
         /\ g.refs = [f.refs EXCEPT ![i] = @ + 1]
         /\ f.refs[i] + 1 # MaxRefs => g.panic = f.panic
<1> DEFINE h == [f EXCEPT !.refs[i] = @ + 1]
<1>1. f.refs \in [Inodes -> Nat]
  BY DEF FsType
<1>2. [f.refs EXCEPT ![i] = @ + 1] \in [Inodes -> Nat] /\ [f.refs EXCEPT ![i] = @ + 1][i] = f.refs[i] + 1
  BY <1>1
<1>3. /\ h \in FsType /\ Alike(f, h) /\ h.error = f.error /\ h.slips = f.slips /\ h.panic = f.panic
      /\ h.refs = [f.refs EXCEPT ![i] = @ + 1]
  BY <1>2 DEF FsType, Alike
<1>4. g = IF h.refs[i] = MaxRefs THEN Panic(h, "too many i-refs") ELSE h
  BY DEF IRef
<1> HIDE DEF h
<1>5. CASE h.refs[i] = MaxRefs
  <2>1. g = Panic(h, "too many i-refs") /\ "too many i-refs" \in Panics
    BY <1>4, <1>5 DEF Panics
  <2>2. /\ g \in FsType
        /\ g.refs = h.refs /\ g.node = h.node /\ g.dirty = h.dirty
        /\ g.disk = h.disk /\ g.inode = h.inode /\ g.tinode = h.tinode
        /\ g.mounted = h.mounted /\ g.dir = h.dir /\ g.error = h.error
        /\ g.slips = h.slips
    <3>1. h \in FsType
      BY <1>3
    <3> QED
      BY <2>1, <3>1, PanicGives, ZenonT(30)
  <2> QED
    BY <1>2, <1>3, <1>5, <2>2 DEF Alike
<1> QED
  BY <1>3, <1>4, <1>5

\* The root stays in the table's numbers: only its count changes.
LEMMA RootDeref ==
  ASSUME NEW f \in FsType, RootKept(f), NEW g, g = IDeref(f, Root)
  PROVE  /\ Alike(f, g) /\ g.error = f.error /\ g.slips = f.slips
         /\ f.refs[Root] = 0 => g.refs = f.refs
         /\ f.refs[Root] > 0 => g.refs = [f.refs EXCEPT ![Root] = @ - 1] /\ g.panic = f.panic
<1>1. f.refs \in [Inodes -> Nat] /\ Root \in Inodes /\ f.refs[Root] \in Nat
  BY Constants DEF FsType
<1>2. CASE f.refs[Root] = 0
  <2>1. g = Panic(f, "inode freed") /\ "inode freed" \in Panics
    BY <1>2 DEF IDeref, Panics
  <2>2. /\ g \in FsType
        /\ g.refs = f.refs /\ g.node = f.node /\ g.dirty = f.dirty
        /\ g.disk = f.disk /\ g.inode = f.inode /\ g.tinode = f.tinode
        /\ g.mounted = f.mounted /\ g.dir = f.dir /\ g.error = f.error
        /\ g.slips = f.slips
    BY <2>1, PanicGives
  <2> QED
    BY <1>2, <2>2 DEF Alike
<1>3. CASE f.refs[Root] # 0
  <2> DEFINE h == [f EXCEPT !.refs[Root] = @ - 1]
  <2>1. f.refs[Root] - 1 \in Nat /\ [f.refs EXCEPT ![Root] = @ - 1] \in [Inodes -> Nat]
    BY <1>1, <1>3
  <2>2. /\ h \in FsType /\ Alike(f, h) /\ h.error = f.error /\ h.slips = f.slips /\ h.panic = f.panic
        /\ h.refs = [f.refs EXCEPT ![Root] = @ - 1]
    BY <2>1 DEF FsType, Alike
  <2>3. g = Dropped(h, Root)
    BY <1>3 DEF IDeref
  <2> HIDE DEF h
  <2>4. h.node[Root].nlink = 3 /\ ~h.dirty[Root]
    BY <2>2, Constants DEF RootKept, Alike
  <2>5. g = h
    BY <2>3, <2>4 DEF Dropped, Last, WriteBack
  <2> QED
    BY <1>3, <2>2, <2>5
<1> QED
  BY <1>2, <1>3

-----------------------------------------------------------------------------
(* i_deref of a file: it goes when its last reference and its last name    *)
(* are gone, and is written if it changed.                                 *)

LEMMA WrInodeGives ==
  ASSUME NEW f \in FsType, NEW i \in Inodes, NEW g, g = WrInode(f, i)
  PROVE  /\ g \in FsType
         /\ g.disk = [f.disk EXCEPT ![i] = f.node[i]] /\ g.dirty = [f.dirty EXCEPT ![i] = FALSE]
         /\ g.refs = f.refs /\ g.node = f.node /\ g.inode = f.inode /\ g.tinode = f.tinode
         /\ g.mounted = f.mounted /\ g.dir = f.dir /\ g.error = f.error /\ g.panic = f.panic
         /\ g.slips = f.slips
<1>1. /\ [f.disk EXCEPT ![i] = f.node[i]] \in [Inodes -> Nodes]
      /\ [f.dirty EXCEPT ![i] = FALSE] \in [Inodes -> BOOLEAN]
  BY DEF FsType
<1> QED
  BY <1>1 DEF FsType, WrInode

\* f_trunc either clears the device number, or panics where that is no data block.
Cleared(f, i) ==
  IF f.mounted /\ Stray(f.node[i].dev) THEN f.node[i] ELSE [f.node[i] EXCEPT !.dev = 0]
FreesNothing(f, i, g) ==
  \/ g.panic = f.panic
  \/ Stray(f.node[i].dev) /\ f.mounted /\ f.panic = "none" /\ g.panic = "invalid blk"

LEMMA FTruncGives ==
  ASSUME NEW f \in FsType, NEW i \in Inodes, NEW g, g = FTrunc(f, i)
  PROVE  /\ g \in FsType
         /\ g.node = [f.node EXCEPT ![i] = Cleared(f, i)]
         /\ g.dirty = [f.dirty EXCEPT ![i] = TRUE]
         /\ g.refs = f.refs /\ g.disk = f.disk /\ g.inode = f.inode /\ g.tinode = f.tinode
         /\ g.mounted = f.mounted /\ g.dir = f.dir /\ g.error = f.error /\ g.slips = f.slips
         /\ FreesNothing(f, i, g)
<1> DEFINE h == [f EXCEPT !.dirty[i] = TRUE]
           k == [h EXCEPT !.node[i].dev = 0]
<1>1. f.node \in [Inodes -> Nodes] /\ f.dirty \in [Inodes -> BOOLEAN] /\ f.node[i] \in Nodes
  BY DEF FsType
<1>2. [f.node[i] EXCEPT !.dev = 0] \in Nodes
  BY <1>1 DEF Nodes
<1>3. /\ [f.node EXCEPT ![i] = [@ EXCEPT !.dev = 0]] \in [Inodes -> Nodes]
      /\ [f.dirty EXCEPT ![i] = TRUE] \in [Inodes -> BOOLEAN]
  BY <1>1, <1>2
<1>4. /\ h \in FsType /\ h.node = f.node
      /\ h.dirty = [f.dirty EXCEPT ![i] = TRUE]
      /\ h.refs = f.refs /\ h.disk = f.disk /\ h.inode = f.inode /\ h.tinode = f.tinode
      /\ h.mounted = f.mounted /\ h.dir = f.dir /\ h.error = f.error /\ h.slips = f.slips
      /\ h.panic = f.panic
  BY <1>3 DEF FsType
<1>5. g = IF f.mounted /\ Stray(f.node[i].dev) THEN Panic(h, "invalid blk") ELSE k
  BY DEF FTrunc
<1>6. /\ k \in FsType /\ k.node = [f.node EXCEPT ![i] = [@ EXCEPT !.dev = 0]]
      /\ k.dirty = h.dirty /\ k.refs = h.refs /\ k.disk = h.disk /\ k.inode = h.inode
      /\ k.tinode = h.tinode /\ k.mounted = h.mounted /\ k.dir = h.dir /\ k.error = h.error
      /\ k.slips = h.slips /\ k.panic = h.panic
  BY <1>3, <1>4 DEF FsType
<1> HIDE DEF h, k
<1>7. CASE ~(f.mounted /\ Stray(f.node[i].dev))
  <2>1. g = k /\ Cleared(f, i) = [f.node[i] EXCEPT !.dev = 0]
    BY <1>5, <1>7 DEF Cleared
  <2>2. g.node = [f.node EXCEPT ![i] = Cleared(f, i)] /\ FreesNothing(f, i, g)
    BY <1>4, <1>6, <2>1 DEF FreesNothing
  <2> QED
    BY <1>4, <1>6, <2>1, <2>2
<1>8. CASE f.mounted /\ Stray(f.node[i].dev)
  <2>1. g = Panic(h, "invalid blk") /\ "invalid blk" \in Panics /\ Cleared(f, i) = f.node[i]
    BY <1>5, <1>8 DEF Panics, Cleared
  <2>2. /\ g \in FsType
        /\ g.refs = h.refs /\ g.node = h.node /\ g.dirty = h.dirty
        /\ g.disk = h.disk /\ g.inode = h.inode /\ g.tinode = h.tinode
        /\ g.mounted = h.mounted /\ g.dir = h.dir /\ g.error = h.error
        /\ g.slips = h.slips
    <3>1. h \in FsType
      BY <1>4
    <3> QED
      BY <2>1, <3>1, PanicGives, ZenonT(30)
  <2>3. g.panic = f.panic \/ (f.panic = "none" /\ g.panic = "invalid blk")
    BY <1>4, <2>1 DEF Panic, FsType
  <2>4. g.node = [f.node EXCEPT ![i] = Cleared(f, i)]
    BY <1>1, <1>4, <2>1, <2>2
  <2>5. FreesNothing(f, i, g)
    BY <1>8, <2>3 DEF FreesNothing
  <2> QED
    BY <1>4, <2>2, <2>4, <2>5
<1> QED
  BY <1>7, <1>8
LEMMA AppendGives ==
  ASSUME NEW S, NEW seq \in Seq(S), NEW x \in S, NEW res, res = Append(seq, x)
  PROVE  /\ res \in Seq(S) /\ Len(res) = Len(seq) + 1 /\ Len(seq) \in Nat
         /\ res[Len(seq) + 1] = x /\ \A k \in 1 .. Len(seq) : res[k] = seq[k]
  BY AppendProperties

LEMMA ListedGives ==
  ASSUME NEW seq \in Seq(FileInodes), Len(seq) <= ICACHE, NEW i \in FileInodes,
         NEW res, res = Listed(seq, i)
  PROVE  /\ res \in Seq(FileInodes) /\ Len(res) <= ICACHE
         /\ Elements(res) \subseteq Elements(seq) \cup {i}
         /\ i \notin Elements(seq) /\ Distinct(seq) => Distinct(res)
<1>1. CASE Len(seq) < ICACHE
  <2>1. res = Append(seq, i)
    BY <1>1 DEF Listed
  <2>2. /\ res \in Seq(FileInodes) /\ Len(res) = Len(seq) + 1 /\ Len(seq) \in Nat
        /\ res[Len(seq) + 1] = i /\ \A k \in 1 .. Len(seq) : res[k] = seq[k]
    BY <2>1, AppendGives
  <2>3. \A k \in 1 .. Len(res) : k \in 1 .. Len(seq) \/ k = Len(seq) + 1
    BY <2>2
  <2>4. Elements(res) \subseteq Elements(seq) \cup {i}
    BY <2>2, <2>3 DEF Elements
  <2>5. ASSUME i \notin Elements(seq), Distinct(seq) PROVE Distinct(res)
    <3>1. \A k \in 1 .. Len(seq) : seq[k] # i
      BY <2>5 DEF Elements
    <3> QED
      BY <2>2, <2>3, <2>5, <3>1 DEF Distinct
  <2>6. Len(res) <= ICACHE
    BY <1>1, <2>2, Constants
  <2> QED
    BY <2>2, <2>4, <2>5, <2>6
<1>2. CASE ~(Len(seq) < ICACHE)
  BY <1>2 DEF Listed
<1> QED
  BY <1>1, <1>2

LEMMA IFreeGives ==
  ASSUME NEW f, Sized(f), NEW i \in FileInodes, NEW g, g = IFree(f, i)
  PROVE  /\ Sized(g)
         /\ g.refs = f.refs /\ g.node = f.node /\ g.dirty = f.dirty /\ g.disk = f.disk
         /\ g.mounted = f.mounted /\ g.dir = f.dir /\ g.error = f.error /\ g.panic = f.panic
         /\ g.slips = f.slips
         /\ f.mounted => g.tinode = f.tinode + 1 /\ g.inode = Listed(f.inode, i)
<1>1. f.inode \in Seq(FileInodes) /\ Len(f.inode) <= ICACHE /\ f.tinode \in Nat /\ f.mounted \in BOOLEAN
  BY DEF Sized, FsType
<1>2. Listed(f.inode, i) \in Seq(FileInodes) /\ Len(Listed(f.inode, i)) <= ICACHE /\ f.tinode + 1 \in Nat
  BY <1>1, ListedGives
<1>3. CASE f.mounted
  <2>1. g = [f EXCEPT !.tinode = f.tinode + 1, !.inode = Listed(f.inode, i)]
    BY <1>3 DEF IFree
  <2> QED
    BY <1>2, <1>3, <2>1 DEF Sized, FsType
<1>4. CASE ~f.mounted
  BY <1>4 DEF IFree
<1> QED
  BY <1>3, <1>4

\* The count goes down, and nothing else that a caller looks at changes.
LowerBy1(f, g, i) ==
  /\ g.refs = [f.refs EXCEPT ![i] = @ - 1]
  /\ g.dir = f.dir /\ g.error = f.error /\ g.slips = f.slips

\* What i_deref leaves of an inode that goes.
Gone(f, i) == [Cleared(f, i) EXCEPT !.type = "none"]

LEMMA EmptiedGives ==
  ASSUME NEW f, Sized(f), NEW i \in FileInodes, NEW g, g = Emptied(f, i)
  PROVE  /\ Sized(g)
         /\ g.node = [f.node EXCEPT ![i] = Gone(f, i)]
         /\ g.dirty = [f.dirty EXCEPT ![i] = TRUE]
         /\ g.refs = f.refs /\ g.disk = f.disk /\ g.mounted = f.mounted /\ g.dir = f.dir
         /\ g.error = f.error /\ g.slips = f.slips /\ FreesNothing(f, i, g)
         /\ f.mounted => g.tinode = f.tinode + 1 /\ g.inode = Listed(f.inode, i)
<1> DEFINE t == FTrunc(f, i)
           h == [t EXCEPT !.node[i].type = "none"]
<1>1. i \in Inodes /\ f \in FsType
  BY Constants DEF Sized
<1>2. /\ t \in FsType
      /\ t.node = [f.node EXCEPT ![i] = Cleared(f, i)]
      /\ t.dirty = [f.dirty EXCEPT ![i] = TRUE]
      /\ t.refs = f.refs /\ t.disk = f.disk /\ t.inode = f.inode /\ t.tinode = f.tinode
      /\ t.mounted = f.mounted /\ t.dir = f.dir /\ t.error = f.error /\ t.slips = f.slips
      /\ FreesNothing(f, i, t)
  BY <1>1, FTruncGives
<1>3. g = IFree(h, i)
  BY DEF Emptied
<1> HIDE DEF t
<1>4. t.node \in [Inodes -> Nodes]
  BY <1>2 DEF FsType
<1>5. [t.node[i] EXCEPT !.type = "none"] \in Nodes
  BY <1>1, <1>4 DEF Nodes, Types
<1>6. [t.node EXCEPT ![i] = [@ EXCEPT !.type = "none"]] \in [Inodes -> Nodes]
  BY <1>4, <1>5
<1>7. /\ h \in FsType /\ h.node = [t.node EXCEPT ![i] = [@ EXCEPT !.type = "none"]]
      /\ h.dirty = t.dirty /\ h.refs = t.refs /\ h.disk = t.disk /\ h.inode = t.inode
      /\ h.tinode = t.tinode /\ h.mounted = t.mounted /\ h.dir = t.dir /\ h.error = t.error
      /\ h.slips = t.slips /\ h.panic = t.panic
  BY <1>2, <1>6 DEF FsType
<1> HIDE DEF h
<1>8. Sized(h)
  BY <1>2, <1>7 DEF Sized
<1>9. /\ Sized(g)
      /\ g.refs = h.refs /\ g.node = h.node /\ g.dirty = h.dirty /\ g.disk = h.disk
      /\ g.mounted = h.mounted /\ g.dir = h.dir /\ g.error = h.error /\ g.panic = h.panic
      /\ g.slips = h.slips
      /\ h.mounted => g.tinode = h.tinode + 1 /\ g.inode = Listed(h.inode, i)
  BY <1>3, <1>8, IFreeGives
<1>10. [t.node EXCEPT ![i] = [@ EXCEPT !.type = "none"]]
       = [f.node EXCEPT ![i] = Gone(f, i)]
  <2>1. f.node \in [Inodes -> Nodes]
    BY <1>1 DEF FsType
  <2>2. t.node = [f.node EXCEPT ![i] = Cleared(f, i)]
    BY <1>2
  <2> QED
    BY <1>1, <2>1, <2>2 DEF Gone
<1>11. FreesNothing(f, i, g)
  BY <1>2, <1>7, <1>9 DEF FreesNothing
<1> QED
  BY <1>2, <1>7, <1>9, <1>10, <1>11
LEMMA DerefGives ==
  ASSUME NEW f, FsOK(f), NEW i \in FileInodes, f.refs[i] > 0, NEW g, g = IDeref(f, i)
  PROVE  FsOK(g) /\ LowerBy1(f, g, i)
<1> DEFINE h == [f EXCEPT !.refs[i] = @ - 1]
           e == IF Last(h, i) THEN Emptied(h, i) ELSE h
<1>1. f \in FsType /\ i \in Inodes /\ f.refs \in [Inodes -> Nat] /\ f.refs[i] \in Nat
      /\ f.refs[i] - 1 \in Nat /\ Sized(f)
  <2>1. f \in FsType /\ Sized(f) /\ i \in Inodes
    BY Constants DEF FsOK, Sized
  <2> QED
    BY <2>1 DEF FsType
<1>2. [f.refs EXCEPT ![i] = @ - 1] \in [Inodes -> Nat]
  BY <1>1
<1>3. /\ h.refs = [f.refs EXCEPT ![i] = @ - 1]
      /\ h.node = f.node /\ h.dirty = f.dirty /\ h.disk = f.disk /\ h.inode = f.inode
      /\ h.tinode = f.tinode /\ h.mounted = f.mounted /\ h.dir = f.dir /\ h.error = f.error
      /\ h.slips = f.slips /\ h.panic = f.panic
  BY <1>1 DEF FsType
<1>4. Sized(h)
  BY <1>1, <1>2 DEF Sized, FsType
<1>5. g = WriteBack(e, i)
  <2>1. g = Dropped(h, i)
    <3>1. f.refs[i] # 0
      BY <1>1
    <3> HIDE DEF e
    <3> QED
      BY <3>1 DEF IDeref
  <2> QED
    BY <2>1 DEF Dropped
<1> HIDE DEF h
<1>6. f.node[i] \in Nodes /\ f.node[i].nlink \in Nat /\ f.node[i].type # "none"
  BY <1>1 DEF FsOK, Whole, FsType, Nodes
<1>7. h.refs[i] = f.refs[i] - 1 /\ h.refs[i] \in Nat
  BY <1>1, <1>3
<1>8. CASE Last(h, i)
  <2> DEFINE n == Gone(f, i)
  <2>1. h.refs[i] = 0 /\ f.node[i].nlink = 0 /\ e = Emptied(h, i)
    BY <1>3, <1>8 DEF Last
  <2> HIDE DEF e
  <2>2. /\ Sized(e)
        /\ e.node = [f.node EXCEPT ![i] = Gone(f, i)]
        /\ e.dirty = [f.dirty EXCEPT ![i] = TRUE]
        /\ e.refs = h.refs /\ e.disk = f.disk /\ e.mounted = f.mounted /\ e.dir = f.dir
        /\ e.error = f.error /\ e.slips = f.slips /\ FreesNothing(f, i, e)
        /\ f.mounted => e.tinode = f.tinode + 1 /\ e.inode = Listed(f.inode, i)
    <3>1. /\ Sized(e)
          /\ e.node = [h.node EXCEPT ![i] = Gone(h, i)]
          /\ e.dirty = [h.dirty EXCEPT ![i] = TRUE]
          /\ e.refs = h.refs /\ e.disk = h.disk /\ e.mounted = h.mounted /\ e.dir = h.dir
          /\ e.error = h.error /\ e.slips = h.slips /\ FreesNothing(h, i, e)
          /\ h.mounted => e.tinode = h.tinode + 1 /\ e.inode = Listed(h.inode, i)
      BY <1>4, <2>1, EmptiedGives
    <3>2. Gone(h, i) = Gone(f, i) /\ (FreesNothing(h, i, e) <=> FreesNothing(f, i, e))
      BY <1>3 DEF Gone, Cleared, FreesNothing
    <3> QED
      BY <1>3, <3>1, <3>2
  <2>3. e.node = [f.node EXCEPT ![i] = n] /\ n.type = "none" /\ n.nlink = 0
    BY <1>6, <2>1, <2>2 DEF Nodes, Gone, Cleared
  <2>4. f.mounted /\ Stray(f.node[i].dev) => n.dev = f.node[i].dev
    BY <1>6 DEF Nodes, Gone, Cleared
  <2> HIDE DEF n
  <2>5. g = WrInode(e, i) /\ e \in FsType
    <3>1. e.dirty[i] /\ e.refs[i] = 0
      BY <1>1, <2>1, <2>2 DEF FsType
    <3> QED
      BY <1>5, <2>2, <3>1 DEF WriteBack, Sized
  <2>6. /\ g \in FsType
        /\ g.disk = [e.disk EXCEPT ![i] = e.node[i]] /\ g.dirty = [e.dirty EXCEPT ![i] = FALSE]
        /\ g.refs = e.refs /\ g.node = e.node /\ g.inode = e.inode /\ g.tinode = e.tinode
        /\ g.mounted = e.mounted /\ g.dir = e.dir /\ g.error = e.error /\ g.panic = e.panic
        /\ g.slips = e.slips
    BY <1>1, <2>5, WrInodeGives, SMTT(30)
  <2>7. LowerBy1(f, g, i)
    BY <1>3, <2>2, <2>6 DEF LowerBy1
  <2>8. Sized(g)
    BY <2>2, <2>6 DEF Sized
  <2>9. /\ f.node \in [Inodes -> Nodes] /\ f.dirty \in [Inodes -> BOOLEAN] /\ f.disk \in [Inodes -> Nodes]
    BY <1>1 DEF FsType
  <2>10. /\ g.node[i] = n /\ g.disk[i] = n /\ g.dirty[i] = FALSE /\ g.refs[i] = 0
        /\ \A j \in Inodes : j # i => /\ g.node[j] = f.node[j] /\ g.disk[j] = f.disk[j]
                                      /\ g.dirty[j] = f.dirty[j] /\ g.refs[j] = f.refs[j]
    BY <1>1, <1>3, <2>1, <2>2, <2>3, <2>6, <2>9
  <2>11. RootKept(g) /\ Written(g) /\ Whole(g, {})
    BY <2>3, <2>10, Constants DEF FsOK, RootKept, Written, Whole
  <2>12. DirSound(g) /\ LinksCounted(g)
    BY <2>1, <2>2, <2>3, <2>6, <2>10, Constants DEF FsOK, DirSound, LinksCounted
  <2>13. Calm(g)
    <3>1. FreesNothing(f, i, g) /\ g.slips = f.slips
      BY <2>2, <2>6 DEF FreesNothing
    <3>2. CASE g.panic = f.panic
      <4>1. \A j \in FileInodes : f.node[j].type = "none" => g.node[j] = f.node[j]
        BY <1>6, <2>10, Constants
      <4>2. g.slips >= f.slips /\ Calm(f)
        BY <1>1, <3>1 DEF FsType, FsOK
      <4> QED
        BY <1>1, <2>6, <3>2, <4>1, <4>2, CalmKept
    <3>3. CASE f.mounted /\ Stray(f.node[i].dev) /\ g.panic = "invalid blk"
      <4>1. i \in Undone(g)
        BY <2>3, <2>10, <2>4, <3>3 DEF Undone
      <4> QED
        BY <3>3, <4>1 DEF Calm
    <3> QED
      BY <3>1, <3>2, <3>3 DEF FreesNothing
  <2>14. Unused(g) = Unused(f) \cup {i} /\ i \notin Unused(f)
    <3>1. g.node[i].type = "none" /\ \A j \in FileInodes : j # i => g.node[j] = f.node[j]
      BY <2>3, <2>10, Constants
    <3> QED
      BY <1>6, <3>1 DEF Unused
  <2>15. Numbers(g, Unused(g))
    <3> SUFFICES ASSUME g.slips = 0
                 PROVE  /\ g.mounted /\ g.tinode = Cardinality(Unused(g))
                        /\ Elements(g.inode) \subseteq Unused(g) /\ Distinct(g.inode)
      BY DEF Numbers
    <3>1. /\ f.mounted /\ f.tinode = Cardinality(Unused(f))
          /\ Elements(f.inode) \subseteq Unused(f) /\ Distinct(f.inode)
      BY <2>2, <2>6 DEF FsOK, Numbers
    <3>2. Cardinality(Unused(f) \cup {i}) = Cardinality(Unused(f)) + 1
      <4>1. IsFiniteSet(Unused(f))
        BY Constants, FS_Subset DEF Unused
      <4> QED
        BY <2>14, <4>1, FS_AddElement
    <3>3. f.inode \in Seq(FileInodes) /\ Len(f.inode) <= ICACHE
      BY <1>1 DEF Sized, FsType
    <3>4. g.inode = Listed(f.inode, i) /\ g.tinode = f.tinode + 1 /\ g.mounted
      BY <2>2, <2>6, <3>1
    <3>5. Elements(g.inode) \subseteq Elements(f.inode) \cup {i} /\ Distinct(g.inode)
      BY <2>14, <3>1, <3>3, <3>4, ListedGives
    <3> QED
      BY <2>14, <3>1, <3>2, <3>4, <3>5
  <2> QED
    BY <2>7, <2>8, <2>11, <2>12, <2>15, <2>13 DEF FsOK
<1>9. CASE ~Last(h, i)
  <2>1. e = h
    BY <1>9
  <2> HIDE DEF e
  <2>2. h.refs[i] = 0 => f.node[i].nlink # 0
    BY <1>3, <1>9 DEF Last
  <2>3. /\ g \in FsType /\ g.refs = h.refs /\ g.node = f.node /\ g.inode = f.inode /\ g.tinode = f.tinode
        /\ g.mounted = f.mounted /\ g.dir = f.dir /\ g.error = f.error /\ g.panic = f.panic
        /\ g.slips = f.slips
        /\ \A j \in Inodes : j # i => g.disk[j] = f.disk[j] /\ g.dirty[j] = f.dirty[j]
        /\ h.refs[i] = 0 => ~g.dirty[i] /\ g.disk[i] = f.node[i]
        /\ h.refs[i] # 0 => g.dirty[i] = f.dirty[i] /\ g.disk[i] = f.disk[i]
    <3>1. CASE h.refs[i] = 0 /\ h.dirty[i]
      <4>1. g = WrInode(h, i) /\ h \in FsType
        BY <1>4, <1>5, <2>1, <3>1 DEF WriteBack, Sized
      <4>2. /\ g \in FsType
            /\ g.disk = [h.disk EXCEPT ![i] = h.node[i]] /\ g.dirty = [h.dirty EXCEPT ![i] = FALSE]
            /\ g.refs = h.refs /\ g.node = h.node /\ g.inode = h.inode /\ g.tinode = h.tinode
            /\ g.mounted = h.mounted /\ g.dir = h.dir /\ g.error = h.error /\ g.panic = h.panic
            /\ g.slips = h.slips
        BY <1>1, <4>1, WrInodeGives
      <4>3. h.disk \in [Inodes -> Nodes] /\ h.dirty \in [Inodes -> BOOLEAN]
        BY <4>1 DEF FsType
      <4>4. /\ g.disk[i] = h.node[i] /\ g.dirty[i] = FALSE
            /\ \A j \in Inodes : j # i => g.disk[j] = h.disk[j] /\ g.dirty[j] = h.dirty[j]
        BY <1>1, <4>2, <4>3
      <4>5. /\ g.disk[i] = f.node[i] /\ ~g.dirty[i]
            /\ \A j \in Inodes : j # i => g.disk[j] = f.disk[j] /\ g.dirty[j] = f.dirty[j]
        BY <1>3, <4>4
      <4>6. /\ g \in FsType /\ g.refs = h.refs /\ g.node = f.node /\ g.inode = f.inode
            /\ g.tinode = f.tinode /\ g.mounted = f.mounted /\ g.dir = f.dir
            /\ g.error = f.error /\ g.panic = f.panic /\ g.slips = f.slips
        BY <1>3, <4>2
      <4> QED
        BY <3>1, <4>5, <4>6
    <3>2. CASE ~(h.refs[i] = 0 /\ h.dirty[i])
      <4>1. g = h /\ h \in FsType
        BY <1>4, <1>5, <2>1, <3>2 DEF WriteBack, Sized
      <4>2. h.refs[i] = 0 => f.disk[i] = f.node[i] /\ ~f.dirty[i]
        BY <1>1, <1>3, <2>2, <3>2 DEF FsOK, Written
      <4> QED
        BY <1>3, <4>1, <4>2
    <3> QED
      BY <3>1, <3>2
  <2>4. LowerBy1(f, g, i)
    BY <1>3, <2>3 DEF LowerBy1
  <2>5. Sized(g)
    BY <1>1, <2>3 DEF Sized
  <2>6. \A j \in Inodes : j # i => g.refs[j] = f.refs[j]
    BY <1>1, <1>3, <2>3
  <2>7. RootKept(g)
    BY <2>3, Constants DEF FsOK, RootKept
  <2>8. Written(g)
    <3>1. ASSUME NEW j \in Inodes, j # i
          PROVE  /\ g.refs[j] = 0 => ~g.dirty[j]
                 /\ g.dirty[j] \/ g.disk[j] = g.node[j] \/ (g.refs[j] > 0 /\ g.node[j].nlink = 0)
      BY <2>3, <2>6, <3>1 DEF FsOK, Written
    <3>2. /\ g.refs[i] = 0 => ~g.dirty[i]
          /\ g.dirty[i] \/ g.disk[i] = g.node[i] \/ (g.refs[i] > 0 /\ g.node[i].nlink = 0)
      BY <1>1, <1>7, <2>3 DEF FsOK, Written
    <3> QED
      BY <3>1, <3>2 DEF Written
  <2>9. Whole(g, {})
    BY <1>6, <2>3, <2>6, Constants DEF FsOK, Whole
  <2>10. Unused(g) = Unused(f)
    BY <2>3 DEF Unused
  <2>11. Calm(g)
    BY <2>3 DEF FsOK, Calm, Undone
  <2>12. DirSound(g) /\ LinksCounted(g) /\ Calm(g) /\ Numbers(g, Unused(g))
    BY <2>3, <2>10, <2>11 DEF FsOK, DirSound, LinksCounted, Numbers
  <2> QED
    BY <2>4, <2>5, <2>7, <2>8, <2>9, <2>12 DEF FsOK
<1> QED
  BY <1>8, <1>9
-----------------------------------------------------------------------------
(* n_open *)

LEMMA LeastOf ==
  ASSUME NEW S \in SUBSET Nat, S # {}
  PROVE  Least(S) \in S
<1>1. \E k \in S : \A j \in S : k <= j
  BY LeastExists
<1> QED
  BY <1>1, Zenon DEF Least

LEMMA SlotsGive ==
  ASSUME NEW f, Sized(f), NEW name, Slots(f, name) # {}
  PROVE  /\ Least(Slots(f, name)) \in 1 .. Len(f.dir)
         /\ f.dir[Least(Slots(f, name))].name = name
         /\ f.dir[Least(Slots(f, name))].ino \in FileInodes \cup {0}
         /\ f.dir \in Seq(Entries) /\ Len(f.dir) \in Nat
<1>1. f.dir \in Seq(Entries) /\ Len(f.dir) \in Nat
  BY DEF Sized, FsType
<1>2. Slots(f, name) \in SUBSET Nat
  BY <1>1 DEF Slots
<1>3. Least(Slots(f, name)) \in Slots(f, name)
  BY <1>2, LeastOf
<1>4. Least(Slots(f, name)) \in 1 .. Len(f.dir) /\ f.dir[Least(Slots(f, name))].name = name
  BY <1>3 DEF Slots
<1>5. \A k \in 1 .. Len(f.dir) : f.dir[k] \in Entries
  BY <1>1
<1>6. f.dir[Least(Slots(f, name))] \in Entries
  BY <1>4, <1>5
<1> QED
  BY <1>1, <1>4, <1>6 DEF Entries

\* A search changes counts, the mark of an error and the panic, if any.
Searched(f, g) == Alike(f, g) /\ g.slips = f.slips
RaisedBy1(f, g, i) == g.refs = [f.refs EXCEPT ![i] = @ + 1]
Found(f, g, i) ==
  /\ i \in FileInodes /\ f.node[i].type # "none" /\ f.node[i].nlink # 0
  /\ RaisedBy1(f, g, i) /\ g.error = f.error

LEMMA RaisedGives ==
  ASSUME NEW f \in FsType, NEW i \in Inodes, NEW g, g = [f EXCEPT !.refs[i] = @ + 1]
  PROVE  /\ Searched(f, g) /\ RaisedBy1(f, g, i) /\ g.error = f.error /\ g.panic = f.panic
<1>1. f.refs \in [Inodes -> Nat]
  BY DEF FsType
<1>2. [f.refs EXCEPT ![i] = @ + 1] \in [Inodes -> Nat]
  BY <1>1
<1> QED
  BY <1>2 DEF FsType, Searched, Alike, RaisedBy1

LEMMA ErrorGives ==
  ASSUME NEW f \in FsType, NEW b \in BOOLEAN, NEW g, g = [f EXCEPT !.error = b]
  PROVE  /\ Searched(f, g) /\ g.refs = f.refs /\ g.panic = f.panic /\ g.error = b
  BY DEF FsType, Searched, Alike

LEMMA IOpenGives ==
  ASSUME NEW f \in FsType, NEW i \in FileInodes, NEW n, n = IOpen(f, i)
  PROVE  /\ Searched(f, n.f) /\ n.f.panic = f.panic
         /\ n.ino \in {0, i}
         /\ n.ino = 0 => n.f.refs = f.refs
         /\ n.ino # 0 => Found(f, n.f, i)
<1>1. i # 0 /\ i \in Inodes
  BY Constants
<1>2. CASE ~HasSlot(f, i)
  <2>1. n = [f |-> [f EXCEPT !.error = TRUE], ino |-> 0]
    BY <1>2 DEF IOpen
  <2>2. n.ino = 0 /\ n.f = [f EXCEPT !.error = TRUE]
    BY <2>1
  <2> QED
    BY <2>2, ErrorGives
<1>3. CASE HasSlot(f, i) /\ (f.node[i].nlink = 0 \/ f.node[i].type = "none")
  <2>1. n = [f |-> f, ino |-> 0]
    BY <1>3 DEF IOpen
  <2>2. n.ino = 0 /\ n.f = f
    BY <2>1
  <2> QED
    BY <2>2 DEF Searched, Alike
<1>4. CASE HasSlot(f, i) /\ ~(f.node[i].nlink = 0 \/ f.node[i].type = "none")
  <2>1. n = [f |-> [f EXCEPT !.refs[i] = @ + 1], ino |-> i]
    BY <1>4 DEF IOpen, Opened
  <2>2. n.ino = i /\ n.f = [f EXCEPT !.refs[i] = @ + 1]
    BY <2>1
  <2>3. Searched(f, n.f) /\ RaisedBy1(f, n.f, i) /\ n.f.error = f.error /\ n.f.panic = f.panic
    BY <1>1, <2>2, RaisedGives
  <2> QED
    BY <1>1, <1>4, <2>2, <2>3 DEF Found
<1> QED
  BY <1>2, <1>3, <1>4

LEMMA SearchGives ==
  ASSUME NEW f, Sized(f), DirSound(f), NEW name \in Names, NEW n, n = Search(f, name)
  PROVE  /\ Searched(f, n.f) /\ n.f.panic = f.panic
         /\ n.ino = 0 => n.f.refs = f.refs
         /\ n.ino # 0 => /\ Found(f, n.f, n.ino) /\ Slots(f, name) # {}
                         /\ n.ino = f.dir[Least(Slots(f, name))].ino
<1>1. f \in FsType
  BY DEF Sized
<1>2. CASE Slots(f, name) = {}
  <2>1. n = [f |-> f, ino |-> 0]
    BY <1>2 DEF Search
  <2>2. n.ino = 0 /\ n.f = f
    BY <2>1
  <2> QED
    BY <1>1, <2>2 DEF Searched, Alike
<1>3. CASE Slots(f, name) # {}
  <2> DEFINE k == Least(Slots(f, name))
             i == f.dir[k].ino
  <2>1. k \in 1 .. Len(f.dir) /\ f.dir[k].name = name /\ i \in FileInodes \cup {0}
    BY <1>3, SlotsGive
  <2>2. name # NoName
    BY FilesAssumption
  <2>3. i \in FileInodes
    BY <2>1, <2>2 DEF DirSound
  <2>4. n = IOpen(f, i)
    BY <1>3 DEF Search
  <2> HIDE DEF i
  <2>5. /\ Searched(f, n.f) /\ n.f.panic = f.panic
        /\ n.ino \in {0, i}
        /\ n.ino = 0 => n.f.refs = f.refs
        /\ n.ino # 0 => Found(f, n.f, i)
    BY <1>1, <2>3, <2>4, IOpenGives
  <2> QED
    BY <1>3, <2>5 DEF i
<1> QED
  BY <1>2, <1>3
LEMMA AlikeKeeps ==
  ASSUME NEW f, NEW g, FsOK(f), Alike(f, g)
  PROVE  /\ Sized(g) /\ RootKept(g) /\ DirSound(g) /\ g \in FsType /\ f \in FsType
         /\ \A name : Slots(g, name) = Slots(f, name)
  BY DEF FsOK, Sized, RootKept, DirSound, Alike, Slots

LEMMA NOpenGives ==
  ASSUME NEW f, FsOK(f), NEW name \in Names \cup {NoName}, NEW n, n = NOpen(f, name),
         Roomy /\ f.slips = 0 => f.refs[Root] + 2 < MaxRefs
  PROVE  /\ FsOK(n.f) /\ Searched(f, n.f) /\ (Fresh(f) => Fresh(n.f))
         /\ name = NoName => /\ n.ino = Root /\ n.f.refs[Root] = f.refs[Root] + 2
                             /\ \A i \in FileInodes : n.f.refs[i] = f.refs[i]
         /\ name # NoName => /\ n.f.refs[Root] = f.refs[Root] + 1
                             /\ \A i \in FileInodes :
                                  n.f.refs[i] = f.refs[i] + (IF i = n.ino THEN 1 ELSE 0)
                             /\ n.ino # 0 => /\ n.ino \in FileInodes /\ n.f.error = f.error
                                             /\ f.node[n.ino].type # "none"
                                             /\ f.node[n.ino].nlink # 0
                                             /\ Slots(f, name) # {}
                                             /\ n.ino = f.dir[Least(Slots(f, name))].ino
<1> DEFINE g1 == IRef(f, Root)
           g2 == IRef(g1, Root)
           g3 == IDeref(g2, Root)
<1>1. f \in FsType /\ f.refs \in [Inodes -> Nat] /\ f.slips \in Nat /\ Root \in Inodes /\ f.refs[Root] \in Nat
  BY Constants DEF FsOK, Sized, FsType
<1>2. n = IF name = NoName THEN [f |-> g2, ino |-> Root] ELSE Search(g3, name)
  BY DEF NOpen, FromRoot
<1>3. /\ Alike(f, g1) /\ g1.error = f.error /\ g1.slips = f.slips
      /\ g1.refs = [f.refs EXCEPT ![Root] = @ + 1]
      /\ f.refs[Root] + 1 # MaxRefs => g1.panic = f.panic
  BY <1>1, IRefGives
<1> HIDE DEF g1
<1>4. g1 \in FsType /\ g1.refs[Root] = f.refs[Root] + 1 /\ \A i \in FileInodes : g1.refs[i] = f.refs[i]
  BY <1>1, <1>3, Constants DEF Alike
<1>5. /\ Alike(g1, g2) /\ g2.error = g1.error /\ g2.slips = g1.slips
      /\ g2.refs = [g1.refs EXCEPT ![Root] = @ + 1]
      /\ g1.refs[Root] + 1 # MaxRefs => g2.panic = g1.panic
  BY <1>1, <1>4, IRefGives
<1> HIDE DEF g2
<1>6. Searched(f, g2) /\ g2.error = f.error
  BY <1>3, <1>5 DEF Alike, Searched
<1>7. g2.refs[Root] = f.refs[Root] + 2 /\ \A i \in FileInodes : g2.refs[i] = f.refs[i]
  <2>1. g1.refs \in [Inodes -> Nat] /\ g2.refs \in [Inodes -> Nat]
    BY <1>4, <1>6 DEF FsType, Alike, Searched
  <2> QED
    BY <1>1, <1>4, <1>5, <2>1, Constants
<1>8. Roomy /\ f.slips = 0 => g2.panic = f.panic
  <2>1. Roomy /\ f.slips = 0 => f.refs[Root] + 1 # MaxRefs /\ g1.refs[Root] + 1 # MaxRefs
    BY <1>1, <1>4, Constants
  <2> QED
    BY <1>3, <1>5, <2>1
<1>9. Calm(g2) /\ (Fresh(f) => Fresh(g2))
  <2>1. g2.slips = f.slips /\ g2.node = f.node
    BY <1>6 DEF Searched, Alike
  <2> QED
    BY <1>8, <2>1 DEF Calm, Undone, Fresh, FsOK
<1>10. FsOK(g2)
  <2>1. Alike(f, g2) /\ g2.slips >= f.slips
    BY <1>1, <1>6 DEF Searched
  <2>2. \A i \in FileInodes : g2.refs[i] = f.refs[i]
    BY <1>7
  <2> QED
    BY <1>9, <2>1, <2>2, AlikeOK
<1>11. CASE name = NoName
  <2>1. n.f = g2 /\ n.ino = Root
    BY <1>2, <1>11
  <2> QED
    BY <1>6, <1>7, <1>9, <1>10, <1>11, <2>1
<1>12. CASE name # NoName
  <2>1. n = Search(g3, name) /\ name \in Names
    BY <1>2, <1>12
  <2>2. g2 \in FsType /\ RootKept(g2)
    BY <1>10 DEF FsOK, Sized
  <2>3. /\ Alike(g2, g3) /\ g3.error = g2.error /\ g3.slips = g2.slips
        /\ g2.refs[Root] = 0 => g3.refs = g2.refs
        /\ g2.refs[Root] > 0 => g3.refs = [g2.refs EXCEPT ![Root] = @ - 1] /\ g3.panic = g2.panic
    BY <2>2, RootDeref
  <2> HIDE DEF g3
  <2>4. g3.refs = [g2.refs EXCEPT ![Root] = @ - 1] /\ g3.panic = g2.panic
    BY <1>1, <1>7, <2>3
  <2>5. g3.refs[Root] = f.refs[Root] + 1 /\ \A i \in FileInodes : g3.refs[i] = f.refs[i]
    <3>1. g2.refs \in [Inodes -> Nat]
      BY <2>2 DEF FsType
    <3> QED
      BY <1>1, <1>7, <2>4, <3>1, Constants
  <2>6. Sized(g3) /\ DirSound(g3) /\ g3 \in FsType
    BY <1>10, <2>3, AlikeKeeps
  <2>7. /\ Searched(g3, n.f) /\ n.f.panic = g3.panic
        /\ n.ino = 0 => n.f.refs = g3.refs
        /\ n.ino # 0 => /\ Found(g3, n.f, n.ino) /\ Slots(g3, name) # {}
                        /\ n.ino = g3.dir[Least(Slots(g3, name))].ino
    BY <2>1, <2>6, SearchGives
  <2>8. Searched(f, g3) /\ g3.error = f.error
    BY <1>6, <2>3 DEF Alike, Searched
  <2>9. Searched(f, n.f)
    BY <2>7, <2>8 DEF Alike, Searched
  <2>10. g3.node = f.node /\ g3.dir = f.dir /\ Slots(g3, name) = Slots(f, name)
    BY <2>8 DEF Searched, Alike, Slots
  <2>11. /\ n.f.refs[Root] = f.refs[Root] + 1
         /\ \A i \in FileInodes : n.f.refs[i] = f.refs[i] + (IF i = n.ino THEN 1 ELSE 0)
    <3>0. g3.refs \in [Inodes -> Nat]
      BY <2>6 DEF FsType
    <3>1. CASE n.ino = 0
      <4>1. \A i \in FileInodes : i # 0 /\ f.refs[i] + 0 = f.refs[i]
        BY <1>1, Constants
      <4> QED
        BY <2>5, <2>7, <3>1, <4>1
    <3>2. CASE n.ino # 0
      <4>1. n.f.refs = [g3.refs EXCEPT ![n.ino] = @ + 1] /\ n.ino \in FileInodes
        BY <2>7, <3>2 DEF Found, RaisedBy1
      <4>2. \A i \in FileInodes : i \in Inodes /\ f.refs[i] \in Nat
        BY <1>1, Constants
      <4> QED
        BY <1>1, <2>5, <3>0, <4>1, <4>2, Constants
    <3> QED
      BY <3>1, <3>2
  <2>12. n.ino # 0 => /\ n.ino \in FileInodes /\ n.f.error = f.error
                      /\ f.node[n.ino].type # "none" /\ f.node[n.ino].nlink # 0
    BY <2>7, <2>8, <2>10 DEF Found
  <2>13. Calm(n.f) /\ (Fresh(f) => Fresh(n.f))
    <3>1. n.f.panic = g2.panic /\ n.f.slips = g2.slips /\ n.f.node = g2.node
      BY <1>6, <2>4, <2>7, <2>9 DEF Searched, Alike
    <3> QED
      BY <1>9, <3>1 DEF Calm, Undone, Fresh
  <2>14. FsOK(n.f)
    <3>1. Alike(f, n.f) /\ n.f.slips >= f.slips
      BY <1>1, <2>9 DEF Searched
    <3>2. \A i \in FileInodes : /\ n.f.refs[i] = 0 => f.refs[i] = 0
                                /\ n.f.refs[i] > 0 => f.refs[i] > 0 \/ f.node[i].type # "none"
      <4>1. \A i \in FileInodes : f.refs[i] \in Nat
        BY <1>1, Constants
      <4>2. ASSUME NEW i \in FileInodes
            PROVE  /\ n.f.refs[i] = 0 => f.refs[i] = 0
                   /\ n.f.refs[i] > 0 => f.refs[i] > 0 \/ f.node[i].type # "none"
        BY <2>11, <2>12, <4>1, Constants
      <4> QED
        BY <4>2
    <3> QED
      BY <2>13, <3>1, <3>2, AlikeOK
  <2> QED
    BY <1>12, <2>7, <2>9, <2>10, <2>11, <2>12, <2>13, <2>14
<1> QED
  BY <1>11, <1>12
-----------------------------------------------------------------------------
(* i_alloc *)

\* All is in order, and the numbers in s_inode and s_tinode are those of S.
FsBut(f, S) ==
  /\ Sized(f) /\ RootKept(f) /\ Written(f) /\ Whole(f, {}) /\ DirSound(f)
  /\ LinksCounted(f) /\ Numbers(f, S) /\ Calm(f)

LEMMA FsButUnused == \A f : FsOK(f) <=> FsBut(f, Unused(f))
  BY DEF FsOK, FsBut

\* All but the numbers is the same; a call may slip.
Steady(f, g) ==
  /\ g \in FsType /\ g.refs = f.refs /\ g.node = f.node /\ g.dir = f.dir /\ g.panic = f.panic
  /\ g.slips >= f.slips

LEMMA ButKeeps ==
  ASSUME NEW f, NEW S, FsBut(f, S), NEW g, Steady(f, g), g.dirty = f.dirty, g.disk = f.disk,
         Len(g.inode) <= ICACHE, NEW T, Numbers(g, T)
  PROVE  FsBut(g, T)
<1>1. f.slips \in Nat /\ g.slips \in Nat /\ (g.slips = 0 => f.slips = 0)
  BY DEF FsBut, Sized, FsType, Steady
<1>2. Sized(g) /\ RootKept(g) /\ DirSound(g)
  BY DEF FsBut, Sized, RootKept, DirSound, Steady
<1>3. Written(g) /\ Whole(g, {})
  BY DEF FsBut, Written, Whole, Steady
<1>4. LinksCounted(g) /\ Calm(g)
  BY <1>1 DEF FsBut, LinksCounted, Calm, Undone, Steady
<1> QED
  BY <1>2, <1>3, <1>4 DEF FsBut

LEMMA SyncedGives ==
  ASSUME NEW f, FsOK(f), NEW g, g = Synced(f)
  PROVE  /\ FsOK(g) /\ Steady(f, g) /\ g.slips = f.slips /\ g.error = f.error
         /\ g.mounted = f.mounted /\ g.tinode = f.tinode /\ g.inode = f.inode
<1> DEFINE D == [i \in Inodes |-> IF i \in InUse(f) /\ f.dirty[i] THEN f.node[i] ELSE f.disk[i]]
           M == [i \in Inodes |-> f.dirty[i] /\ i \notin InUse(f)]
<1>1. /\ f \in FsType /\ f.slips \in Nat /\ f.node \in [Inodes -> Nodes] /\ f.disk \in [Inodes -> Nodes]
      /\ f.dirty \in [Inodes -> BOOLEAN] /\ f.refs \in [Inodes -> Nat]
  BY DEF FsOK, Sized, FsType
<1>2. D \in [Inodes -> Nodes] /\ M \in [Inodes -> BOOLEAN]
  BY <1>1
<1>3. \A i \in Inodes : i \in InUse(f) <=> f.refs[i] > 0
  BY DEF InUse
<1>4. \A i \in Inodes : /\ D[i] = IF f.refs[i] > 0 /\ f.dirty[i] THEN f.node[i] ELSE f.disk[i]
                        /\ M[i] <=> f.dirty[i] /\ ~(f.refs[i] > 0)
  BY <1>3
<1>5. g = [f EXCEPT !.disk = D, !.dirty = M]
  BY DEF Synced
<1> HIDE DEF D, M
<1>6. /\ g \in FsType /\ g.disk = D /\ g.dirty = M
      /\ g.refs = f.refs /\ g.node = f.node /\ g.inode = f.inode /\ g.tinode = f.tinode
      /\ g.mounted = f.mounted /\ g.dir = f.dir /\ g.error = f.error /\ g.panic = f.panic
      /\ g.slips = f.slips
  BY <1>1, <1>2, <1>5 DEF FsType
<1>7. Steady(f, g)
  BY <1>1, <1>6 DEF Steady
<1>8. Sized(g) /\ RootKept(g) /\ DirSound(g)
  <2>1. D[Root] = f.disk[Root] /\ ~M[Root]
    BY <1>4, Constants DEF FsOK, RootKept
  <2> QED
    BY <1>6, <2>1 DEF FsOK, Sized, RootKept, DirSound
<1>9. Written(g)
  <2>1. ASSUME NEW i \in Inodes
        PROVE  /\ g.refs[i] = 0 => ~g.dirty[i]
               /\ g.dirty[i] \/ g.disk[i] = g.node[i] \/ (g.refs[i] > 0 /\ g.node[i].nlink = 0)
    <3>1. f.refs[i] \in Nat
      BY <1>1
    <3>2. /\ f.refs[i] = 0 => ~f.dirty[i]
          /\ f.dirty[i] \/ f.disk[i] = f.node[i] \/ (f.refs[i] > 0 /\ f.node[i].nlink = 0)
      BY DEF FsOK, Written
    <3> QED
      BY <1>4, <1>6, <3>1, <3>2
  <2> QED
    BY <2>1 DEF Written
<1>10. Whole(g, {}) /\ LinksCounted(g) /\ Calm(g)
  BY <1>6 DEF FsOK, Whole, LinksCounted, Calm, Undone
<1>11. Unused(g) = Unused(f)
  BY <1>6 DEF Unused
<1>12. Numbers(g, Unused(g))
  BY <1>6, <1>11 DEF FsOK, Numbers
<1> QED
  BY <1>6, <1>7, <1>8, <1>9, <1>10, <1>12 DEF FsOK

\* The numbers that are free on the disk.
FreeOnDisk(f) == {i \in FileInodes : f.disk[i].type = "none" /\ f.disk[i].nlink = 0}

LEMMA ScanFindsGives ==
  ASSUME NEW f \in FsType, NEW found, found = ScanFinds(f)
  PROVE  /\ found \in Seq(FileInodes) /\ Len(found) <= ICACHE /\ Distinct(found)
         /\ Elements(found) \subseteq FreeOnDisk(f)
         /\ found = <<>> => FreeOnDisk(f) = {}
<1> DEFINE S == FreeOnDisk(f)
           n == IF Cardinality(S) < ICACHE THEN Cardinality(S) ELSE ICACHE
<1>1. S \in SUBSET Nat /\ S \subseteq FileInodes /\ IsFiniteSet(S)
  <2>1. S \in SUBSET FileInodes
    BY DEF FreeOnDisk
  <2>2. IsFiniteSet(S)
    BY <2>1, Constants, FS_Subset
  <2> QED
    BY <2>1, <2>2, Constants
<1>2. found = [k \in 1 .. n |-> CHOOSE i \in S : Rank(S, i) = k]
  BY DEF ScanFinds, FreeOnDisk, Rank
<1> HIDE DEF S
<1>3. Cardinality(S) \in Nat /\ ICACHE \in Nat \ {0}
  BY <1>1, FS_CardinalityType, FilesAssumption
<1>4. n \in Nat /\ n <= ICACHE /\ 1 .. n \subseteq 1 .. Cardinality(S) /\ (n = 0 => Cardinality(S) = 0)
  BY <1>3
<1> HIDE DEF n
<1>5. ASSUME NEW k \in 1 .. n PROVE found[k] \in S /\ Rank(S, found[k]) = k
  <2>1. \E i \in S : Rank(S, i) = k
    BY <1>1, <1>4, RankExists
  <2>2. found[k] = CHOOSE i \in S : Rank(S, i) = k
    BY <1>2
  <2> QED
    BY <2>1, <2>2, Zenon
<1>6. found \in [1 .. n -> FileInodes]
  BY <1>1, <1>2, <1>5
<1>7. found \in Seq(FileInodes) /\ Len(found) = n
  BY <1>4, <1>6
<1>8. Distinct(found)
  BY <1>5, <1>7 DEF Distinct
<1>9. Elements(found) \subseteq S
  BY <1>5, <1>7 DEF Elements
<1>10. found = <<>> => S = {}
  BY <1>1, <1>4, <1>7, FS_EmptySet
<1> QED
  BY <1>4, <1>7, <1>8, <1>9, <1>10 DEF S
LEMMA CorruptGives ==
  ASSUME NEW f, NEW S, FsBut(f, S), f.slips # 0, NEW a, a = Corrupt(f)
  PROVE  a.ino = 0 /\ Steady(f, a.f) /\ FsBut(a.f, S)
<1> DEFINE g == [f EXCEPT !.mounted = FALSE, !.error = TRUE]
<1>1. f \in FsType /\ Len(f.inode) <= ICACHE /\ f.slips \in Nat
  BY DEF FsBut, Sized, FsType
<1>2. a.ino = 0 /\ a.f = g
  BY DEF Corrupt
<1>3. /\ g \in FsType /\ g.refs = f.refs /\ g.node = f.node /\ g.dir = f.dir /\ g.panic = f.panic
      /\ g.slips = f.slips /\ g.dirty = f.dirty /\ g.disk = f.disk /\ g.inode = f.inode
  BY <1>1 DEF FsType
<1> HIDE DEF g
<1>4. Steady(f, g)
  BY <1>1, <1>3 DEF Steady
<1>5. Numbers(g, S)
  BY <1>3 DEF Numbers
<1> QED
  BY <1>1, <1>2, <1>3, <1>4, <1>5, ButKeeps

LEMMA NoInodeGives ==
  ASSUME NEW f, NEW S, FsBut(f, S), NEW a, a = NoInode(f)
  PROVE  a.ino = 0 /\ Steady(f, a.f) /\ FsBut(a.f, S)
<1> DEFINE g == [f EXCEPT !.error = TRUE]
<1>1. f \in FsType /\ Len(f.inode) <= ICACHE /\ f.slips \in Nat
  BY DEF FsBut, Sized, FsType
<1>2. a.ino = 0 /\ a.f = g
  BY DEF NoInode
<1>3. /\ g \in FsType /\ g.refs = f.refs /\ g.node = f.node /\ g.dir = f.dir /\ g.panic = f.panic
      /\ g.slips = f.slips /\ g.dirty = f.dirty /\ g.disk = f.disk /\ g.inode = f.inode
      /\ g.mounted = f.mounted /\ g.tinode = f.tinode
  BY <1>1 DEF FsType
<1> HIDE DEF g
<1>4. Steady(f, g)
  BY <1>1, <1>3 DEF Steady
<1>5. Numbers(g, S)
  BY <1>3 DEF FsBut, Numbers
<1> QED
  BY <1>1, <1>2, <1>3, <1>4, <1>5, ButKeeps

\* The last of the numbers listed, and the rest.
Popped(seq, last, rest) ==
  /\ last \in FileInodes /\ last \in Elements(seq)
  /\ rest \in Seq(FileInodes) /\ Len(rest) <= ICACHE
  /\ Distinct(seq) => /\ Distinct(rest) /\ Elements(rest) \subseteq Elements(seq)
                      /\ last \notin Elements(rest)

LEMMA LastListed ==
  ASSUME NEW seq \in Seq(FileInodes), seq # <<>>, Len(seq) <= ICACHE,
         NEW last, last = seq[Len(seq)], NEW rest, rest = SubSeq(seq, 1, Len(seq) - 1)
  PROVE  Popped(seq, last, rest)
<1>1. Len(seq) \in Nat /\ Len(seq) > 0 /\ Len(seq) \in 1 .. Len(seq)
  <2>1. Len(seq) \in Nat /\ Len(seq) # 0
    BY EmptySeq
  <2> QED
    BY <2>1
<1>2. last \in FileInodes /\ last \in Elements(seq)
  BY <1>1 DEF Elements
<1>3. /\ rest \in Seq(FileInodes) /\ Len(rest) = Len(seq) - 1
      /\ \A k \in 1 .. Len(seq) - 1 : rest[k] = seq[k]
  <2>1. 1 \in 1 .. Len(seq) + 1 /\ Len(seq) - 1 \in 1 - 1 .. Len(seq)
    BY <1>1
  <2>2. /\ rest \in Seq(FileInodes)
        /\ Len(rest) = IF 1 <= Len(seq) - 1 THEN Len(seq) - 1 - 1 + 1 ELSE 0
        /\ \A k \in 1 .. Len(seq) - 1 - 1 + 1 : rest[k] = seq[1 + k - 1]
    BY <2>1, SubSeqProperties
  <2>3. \A k \in 1 .. Len(seq) - 1 : k \in 1 .. Len(seq) - 1 - 1 + 1 /\ 1 + k - 1 = k
    BY <1>1
  <2>4. Len(rest) = Len(seq) - 1
    <3>1. Len(rest) = IF 1 <= Len(seq) - 1 THEN Len(seq) - 1 - 1 + 1 ELSE 0
      BY <2>2
    <3> DEFINE n == Len(seq)
               m == Len(rest)
    <3>2. n \in Nat /\ n > 0 /\ m = IF 1 <= n - 1 THEN n - 1 - 1 + 1 ELSE 0
      BY <1>1, <3>1
    <3> HIDE DEF n, m
    <3>3. m = n - 1
      BY <3>2
    <3> QED
      BY <3>3 DEF m, n
  <2>5. ASSUME NEW k \in 1 .. Len(seq) - 1 PROVE rest[k] = seq[k]
    <3>1. k \in 1 .. Len(seq) - 1 - 1 + 1 /\ 1 + k - 1 = k
      BY <2>3
    <3> QED
      BY <2>2, <3>1
  <2> QED
    BY <2>2, <2>4, <2>5
<1>4. Len(rest) <= ICACHE
  BY <1>1, <1>3, Constants
<1>5. ASSUME Distinct(seq)
      PROVE  Distinct(rest) /\ Elements(rest) \subseteq Elements(seq) /\ last \notin Elements(rest)
  <2>1. \A k \in 1 .. Len(rest) : k \in 1 .. Len(seq) /\ k # Len(seq) /\ rest[k] = seq[k]
    BY <1>1, <1>3
  <2>2. \A k \in 1 .. Len(rest) : rest[k] # last
    BY <1>1, <1>5, <2>1 DEF Distinct
  <2>3. Distinct(rest)
    BY <1>5, <2>1 DEF Distinct
  <2>4. Elements(rest) \subseteq Elements(seq)
    BY <2>1 DEF Elements
  <2>5. last \notin Elements(rest)
    BY <2>2 DEF Elements
  <2> QED
    BY <2>3, <2>4, <2>5
<1> QED
  BY <1>2, <1>3, <1>4, <1>5 DEF Popped

LEMMA TakeGives ==
  ASSUME NEW f, NEW S \in SUBSET FileInodes, FsBut(f, S), f.inode # <<>>, NEW a, a = TakeNumber(f)
  PROVE  /\ Steady(f, a.f)
         /\ a.ino = 0 => FsBut(a.f, S)
         /\ a.ino # 0 => /\ a.ino \in FileInodes /\ FsBut(a.f, S \ {a.ino})
                         /\ f.slips = 0 => a.ino \in S
                         /\ a.f.error = f.error /\ a.f.slips = f.slips
<1>1. /\ f \in FsType /\ f.inode \in Seq(FileInodes) /\ Len(f.inode) <= ICACHE
      /\ f.tinode \in Nat /\ f.slips \in Nat
  BY DEF FsBut, Sized, FsType
<1> DEFINE last == f.inode[Len(f.inode)]
           rest == SubSeq(f.inode, 1, Len(f.inode) - 1)
<1>2. Popped(f.inode, last, rest)
  <2>1. last = f.inode[Len(f.inode)] /\ rest = SubSeq(f.inode, 1, Len(f.inode) - 1)
    OBVIOUS
  <2> HIDE DEF last, rest
  <2> QED
    BY <1>1, <2>1, LastListed
<1>3. IsFiniteSet(S)
  BY Constants, FS_Subset
<1>4. CASE f.tinode = 0
  <2>1. a = Corrupt(f)
    BY <1>4 DEF TakeNumber
  <2>2. f.slips # 0
    <3>1. SUFFICES ASSUME f.slips = 0 PROVE FALSE
      OBVIOUS
    <3>2. Cardinality(S) = 0 /\ last \in S
      BY <1>2, <1>4, <3>1 DEF FsBut, Numbers, Popped
    <3> QED
      BY <1>3, <3>2, FS_EmptySet
  <2> QED
    BY <2>1, <2>2, CorruptGives
<1>5. CASE f.tinode # 0
  <2> DEFINE g == [f EXCEPT !.inode = rest, !.tinode = @ - 1]
  <2>1. a.ino = last /\ a.f = g
    BY <1>5 DEF TakeNumber
  <2>2. f.tinode - 1 \in Nat
    BY <1>1, <1>5
  <2> HIDE DEF rest, last
  <2>3. /\ g \in FsType /\ g.refs = f.refs /\ g.node = f.node /\ g.dir = f.dir /\ g.panic = f.panic
        /\ g.slips = f.slips /\ g.dirty = f.dirty /\ g.disk = f.disk /\ g.inode = rest
        /\ g.mounted = f.mounted /\ g.tinode = f.tinode - 1 /\ g.error = f.error
    BY <1>1, <1>2, <2>2 DEF FsType, Popped
  <2> HIDE DEF g
  <2>4. Steady(f, g)
    BY <1>1, <2>3 DEF Steady
  <2>5. Numbers(g, S \ {last}) /\ (f.slips = 0 => last \in S)
    <3>1. SUFFICES ASSUME f.slips = 0
                   PROVE  last \in S /\ g.mounted /\ g.tinode = Cardinality(S \ {last})
                          /\ Elements(g.inode) \subseteq S \ {last} /\ Distinct(g.inode)
      BY <2>3 DEF Numbers
    <3>2. /\ f.mounted /\ f.tinode = Cardinality(S) /\ Elements(f.inode) \subseteq S /\ Distinct(f.inode)
      BY <3>1 DEF FsBut, Numbers
    <3>3. last \in S /\ Cardinality(S \ {last}) = Cardinality(S) - 1
      BY <1>2, <1>3, <3>2, FS_RemoveElement DEF Popped
    <3>4. Elements(g.inode) \subseteq S \ {last} /\ Distinct(g.inode)
      BY <1>2, <2>3, <3>2 DEF Popped
    <3> QED
      BY <2>3, <3>2, <3>3, <3>4
  <2>6. FsBut(g, S \ {last})
    BY <1>2, <2>3, <2>4, <2>5, ButKeeps DEF Popped
  <2>7. last # 0 /\ last \in FileInodes
    BY <1>2, Constants DEF Popped
  <2> QED
    BY <2>7, <2>1, <2>3, <2>4, <2>5, <2>6, <2>7
<1> QED
  BY <1>4, <1>5

LEMMA ListingGives ==
  ASSUME NEW f, FsOK(f), \A i \in Inodes : f.refs[i] > 0 \/ f.disk[i] = f.node[i],
         NEW found, found = ScanFinds(f), NEW g, g = Listing(f, found)
  PROVE  /\ FsBut(g, Unused(f)) /\ Steady(f, g) /\ g.inode = found /\ g.error = f.error
<1> DEFINE h == [f EXCEPT !.inode = found]
<1>1. f \in FsType /\ f.slips \in Nat /\ f.refs \in [Inodes -> Nat]
  BY DEF FsOK, Sized, FsType
<1>2. /\ found \in Seq(FileInodes) /\ Len(found) <= ICACHE /\ Distinct(found)
      /\ Elements(found) \subseteq FreeOnDisk(f)
  BY <1>1, ScanFindsGives
<1>3. /\ h \in FsType /\ h.refs = f.refs /\ h.node = f.node /\ h.dir = f.dir /\ h.panic = f.panic
      /\ h.slips = f.slips /\ h.dirty = f.dirty /\ h.disk = f.disk /\ h.inode = found
      /\ h.mounted = f.mounted /\ h.tinode = f.tinode /\ h.error = f.error
  BY <1>1, <1>2 DEF FsType
<1>4. g = IF Elements(found) \cap InUse(f) # {} THEN Slip(h) ELSE h
  BY DEF Listing
<1> HIDE DEF h
<1>5. FsBut(f, Unused(f))
  BY FsButUnused
<1>6. CASE Elements(found) \cap InUse(f) # {}
  <2>1. /\ Slip(h) \in FsType /\ Slip(h).slips = h.slips + 1
        /\ Slip(h).refs = h.refs /\ Slip(h).node = h.node /\ Slip(h).dirty = h.dirty
        /\ Slip(h).disk = h.disk /\ Slip(h).inode = h.inode /\ Slip(h).dir = h.dir
        /\ Slip(h).error = h.error /\ Slip(h).panic = h.panic
    BY <1>3, SlipGives
  <2>2. Steady(f, Slip(h))
    BY <1>1, <1>3, <2>1 DEF Steady
  <2>3. Numbers(Slip(h), Unused(f))
    BY <1>1, <1>3, <2>1 DEF Numbers
  <2>4. FsBut(Slip(h), Unused(f))
    BY <1>2, <1>3, <1>5, <2>1, <2>2, <2>3, ButKeeps
  <2> QED
    BY <1>3, <1>4, <1>6, <2>1, <2>2, <2>4
<1>7. CASE Elements(found) \cap InUse(f) = {}
  <2>1. Steady(f, h)
    BY <1>1, <1>3 DEF Steady
  <2>2. Elements(found) \subseteq Unused(f)
    <3>1. ASSUME NEW i \in Elements(found) PROVE i \in Unused(f)
      <4>1. i \in FileInodes /\ f.disk[i].type = "none" /\ i \in Inodes
        BY <1>2, Constants DEF FreeOnDisk
      <4>2. f.refs[i] \in Nat /\ ~(f.refs[i] > 0)
        BY <1>1, <1>7, <4>1 DEF InUse
      <4>3. f.disk[i] = f.node[i]
        BY <4>1, <4>2
      <4> QED
        BY <4>1, <4>3 DEF Unused
    <3> QED
      BY <3>1
  <2>3. Numbers(h, Unused(f))
    BY <1>2, <1>3, <2>2 DEF FsOK, Numbers
  <2>4. FsBut(h, Unused(f))
    BY <1>2, <1>3, <1>5, <2>1, <2>3, ButKeeps
  <2> QED
    BY <1>3, <1>4, <1>7, <2>1, <2>4
<1> QED
  BY <1>6, <1>7

\* What i_alloc answers: a number that is not counted any more, or none.
Taking(f, a) ==
  /\ Steady(f, a.f)
  /\ a.ino = 0 => FsBut(a.f, Unused(f))
  /\ a.ino # 0 => /\ a.ino \in FileInodes /\ FsBut(a.f, Unused(f) \ {a.ino})
                  /\ a.f.error = f.error

LEMMA SteadyTrans ==
  ASSUME NEW f, f \in FsType, NEW g, NEW h, Steady(f, g), Steady(g, h)
  PROVE  Steady(f, h) /\ Unused(g) = Unused(f)
<1>1. f.slips \in Nat /\ g.slips \in Nat /\ h.slips \in Nat
  BY DEF Steady, FsType
<1> QED
  BY <1>1 DEF Steady, Unused

LEMMA AllocGives ==
  ASSUME NEW f, FsOK(f), NEW a, a = IAlloc(f)
  PROVE  Taking(f, a)
<1>1. f \in FsType /\ f.slips \in Nat /\ FsBut(f, Unused(f)) /\ Unused(f) \in SUBSET FileInodes
  BY FsButUnused DEF FsOK, Sized, FsType, Unused
<1>2. CASE ~f.mounted
  <2>1. a = NoInode(f)
    BY <1>2 DEF IAlloc
  <2> QED
    BY <1>1, <2>1, NoInodeGives DEF Taking
<1>3. CASE f.mounted /\ f.inode # <<>>
  <2>1. a = TakeNumber(f)
    BY <1>3 DEF IAlloc
  <2>2. /\ Steady(f, a.f)
        /\ a.ino = 0 => FsBut(a.f, Unused(f))
        /\ a.ino # 0 => /\ a.ino \in FileInodes /\ FsBut(a.f, Unused(f) \ {a.ino})
                        /\ a.f.error = f.error
    BY <1>1, <1>3, <2>1, TakeGives
  <2> QED
    BY <2>2 DEF Taking
<1>4. CASE f.mounted /\ ~(f.inode # <<>>)
  <2> DEFINE g == Synced(f)
             found == ScanFinds(g)
  <2>1. a = Scanned(g, found)
    BY <1>4 DEF IAlloc
  <2>2. FsOK(g) /\ Steady(f, g) /\ g.slips = f.slips /\ g.error = f.error
    BY SyncedGives
  <2>3. \A i \in Inodes : g.refs[i] > 0 \/ g.disk[i] = g.node[i]
    <3>1. ASSUME NEW i \in Inodes, ~(g.refs[i] > 0) PROVE g.disk[i] = g.node[i]
      <4>1. g.refs[i] \in Nat
        BY <2>2 DEF FsOK, Sized, FsType
      <4>2. g.refs[i] = 0
        BY <3>1, <4>1
      <4> QED
        BY <2>2, <3>1, <4>2 DEF FsOK, Written
    <3> QED
      BY <3>1
  <2> HIDE DEF g
  <2>4. Unused(g) = Unused(f) /\ g \in FsType
    BY <2>2 DEF Steady, Unused
  <2>5. CASE found # <<>>
    <3> DEFINE h == Listing(g, found)
    <3>1. a = TakeNumber(h)
      BY <2>1, <2>5 DEF Scanned
    <3>2. FsBut(h, Unused(g)) /\ Steady(g, h) /\ h.inode = found /\ h.error = g.error
      BY <2>2, <2>3, ListingGives
    <3> HIDE DEF h, found
    <3>3. /\ Steady(h, a.f)
          /\ a.ino = 0 => FsBut(a.f, Unused(f))
          /\ a.ino # 0 => /\ a.ino \in FileInodes /\ FsBut(a.f, Unused(f) \ {a.ino})
                          /\ a.f.error = h.error
      BY <1>1, <2>4, <2>5, <3>1, <3>2, TakeGives
    <3>4. Steady(f, h)
      BY <1>1, <2>2, <3>2, SteadyTrans
    <3>5. Steady(f, a.f)
      BY <1>1, <3>3, <3>4, SteadyTrans
    <3> QED
      BY <2>2, <3>2, <3>3, <3>5 DEF Taking
  <2>6. CASE found = <<>> /\ g.tinode # 0
    <3>1. a = Corrupt(g)
      BY <2>1, <2>6 DEF Scanned
    <3>2. FreeOnDisk(g) = {}
      BY <2>4, <2>6, ScanFindsGives
    <3>3. g.slips # 0
      <4>1. SUFFICES ASSUME g.slips = 0 PROVE FALSE
        OBVIOUS
      <4>2. Cardinality(Unused(g)) # 0
        BY <2>2, <2>6, <4>1 DEF FsOK, Numbers
      <4>3. Unused(g) # {}
        BY <4>2, FS_EmptySet
      <4>4. PICK i \in Unused(g) : TRUE
        BY <4>3
      <4>5. i \in FileInodes /\ i \in Inodes /\ g.node[i].type = "none" /\ g.node[i].nlink = 0 /\ ~(g.refs[i] > 0)
        BY <2>2, Constants DEF Unused, FsOK, Whole
      <4>6. i \in FreeOnDisk(g)
        BY <2>3, <4>5 DEF FreeOnDisk
      <4> QED
        BY <3>2, <4>6
    <3>4. a.ino = 0 /\ Steady(g, a.f) /\ FsBut(a.f, Unused(g))
      BY <2>2, <3>1, <3>3, CorruptGives, FsButUnused
    <3>5. Steady(f, a.f)
      BY <1>1, <2>2, <3>4, SteadyTrans
    <3> QED
      BY <2>4, <3>4, <3>5 DEF Taking
  <2>7. CASE found = <<>> /\ g.tinode = 0
    <3>1. a = NoInode(g)
      BY <2>1, <2>7 DEF Scanned
    <3>2. a.ino = 0 /\ Steady(g, a.f) /\ FsBut(a.f, Unused(g))
      BY <2>2, <3>1, NoInodeGives, FsButUnused
    <3>3. Steady(f, a.f)
      BY <1>1, <2>2, <3>2, SteadyTrans
    <3> QED
      BY <2>4, <3>2, <3>3 DEF Taking
  <2> QED
    BY <2>5, <2>6, <2>7
<1> QED
  BY <1>2, <1>3, <1>4

\* A new inode that is open and not made yet.
Made(g, i) ==
  /\ i \in FileInodes
  /\ Sized(g) /\ RootKept(g) /\ Written(g) /\ Whole(g, {i}) /\ DirSound(g)
  /\ LinksCounted(g) /\ Numbers(g, Unused(g) \ {i}) /\ Calm(g)
  /\ g.refs[i] = 1 /\ g.node[i].type = "none" /\ g.node[i].nlink = 0

LEMMA IOpenNewGives ==
  ASSUME NEW f, FsOK(f), NEW o, o = IOpenNew(f)
  PROVE  /\ o.f \in FsType /\ o.f.dir = f.dir /\ o.f.slips >= f.slips /\ o.f.panic = f.panic
         /\ o.ino = 0 => FsOK(o.f) /\ o.f.refs = f.refs
         /\ o.ino # 0 => /\ Made(o.f, o.ino) /\ f.refs[o.ino] = 0 /\ RaisedBy1(f, o.f, o.ino)
                         /\ o.f.error = f.error
<1> DEFINE a == IAlloc(f)
           g == a.f
           i == a.ino
<1>1. f \in FsType /\ f.slips \in Nat /\ f.refs \in [Inodes -> Nat]
  BY DEF FsOK, Sized, FsType
<1>2. Taking(f, a)
  BY AllocGives
<1>3. o = OpenNumber(g, i)
  BY DEF IOpenNew, Allocated
<1> HIDE DEF a
<1>4. Steady(f, g) /\ g \in FsType /\ g.slips \in Nat /\ Unused(g) = Unused(f)
  BY <1>2 DEF Taking, Steady, FsType, Unused
<1>5. CASE i = 0
  <2>1. o = [f |-> g, ino |-> 0]
    BY <1>3, <1>5 DEF OpenNumber
  <2>2. o.f = g /\ o.ino = 0
    BY <2>1
  <2>3. FsOK(g)
    BY <1>2, <1>4, <1>5, FsButUnused DEF Taking
  <2> QED
    BY <1>4, <2>2, <2>3 DEF Steady
<1>6. ASSUME i # 0 PROVE i \in FileInodes /\ i \in Inodes /\ FsBut(g, Unused(g) \ {i}) /\ g.error = f.error
  BY <1>2, <1>4, <1>6, Constants DEF Taking
<1>7. ASSUME i # 0, NEW h, h = g \/ h = [g EXCEPT !.error = TRUE], o = [f |-> Slip(h), ino |-> 0]
      PROVE  o.ino = 0 /\ FsOK(o.f) /\ Steady(f, o.f)
  <2>1. /\ h \in FsType /\ h.refs = g.refs /\ h.node = g.node /\ h.dir = g.dir /\ h.panic = g.panic
        /\ h.slips = g.slips /\ h.dirty = g.dirty /\ h.disk = g.disk /\ h.inode = g.inode
    BY <1>4, <1>7 DEF FsType
  <2>2. o.ino = 0 /\ o.f = Slip(h)
    BY <1>7
  <2>3. /\ o.f \in FsType /\ o.f.slips = h.slips + 1
        /\ o.f.refs = h.refs /\ o.f.node = h.node /\ o.f.dirty = h.dirty
        /\ o.f.disk = h.disk /\ o.f.inode = h.inode /\ o.f.dir = h.dir /\ o.f.panic = h.panic
    BY <2>1, <2>2, SlipGives
  <2>4. Steady(g, o.f)
    BY <1>4, <2>1, <2>3 DEF Steady
  <2>5. Numbers(o.f, Unused(o.f))
    BY <1>4, <2>1, <2>3 DEF Numbers
  <2>6. Len(o.f.inode) <= ICACHE
    BY <1>6, <1>7, <2>1, <2>3 DEF FsBut, Sized
  <2>7. FsBut(o.f, Unused(o.f))
    BY <1>6, <1>7, <2>1, <2>3, <2>4, <2>5, <2>6, ButKeeps
  <2>8. Steady(f, o.f)
    BY <1>1, <1>4, <2>4, SteadyTrans
  <2> QED
    BY <2>2, <2>7, <2>8, FsButUnused
<1>8. CASE i # 0 /\ ~HasSlot(g, i)
  <2>1. o = [f |-> Slip([g EXCEPT !.error = TRUE]), ino |-> 0]
    BY <1>3, <1>8 DEF OpenNumber
  <2> QED
    BY <1>7, <1>8, <2>1 DEF Steady
<1>9. CASE i # 0 /\ HasSlot(g, i) /\ (g.node[i].nlink # 0 \/ g.node[i].type # "none")
  <2>1. o = [f |-> Slip(g), ino |-> 0]
    BY <1>3, <1>9 DEF OpenNumber
  <2> QED
    BY <1>7, <1>9, <2>1 DEF Steady
<1>10. CASE i # 0 /\ HasSlot(g, i) /\ g.node[i].nlink = 0 /\ g.node[i].type = "none"
  <2> DEFINE h == [g EXCEPT !.refs[i] = @ + 1]
  <2>1. o = [f |-> h, ino |-> i]
    BY <1>3, <1>10 DEF OpenNumber, Opened
  <2>2. o.f = h /\ o.ino = i
    BY <2>1
  <2>3. i \in FileInodes /\ i \in Inodes /\ FsBut(g, Unused(g) \ {i}) /\ g.error = f.error
    BY <1>6, <1>10
  <2>4. Searched(g, h) /\ RaisedBy1(g, h, i) /\ h.error = g.error /\ h.panic = g.panic
    BY <1>4, <2>3, RaisedGives
  <2> HIDE DEF h, i, g
  <2>5. g.refs = f.refs /\ g.node = f.node /\ g.dir = f.dir
    BY <1>4 DEF Steady
  <2>6. f.refs[i] = 0 /\ f.node[i].type = "none" /\ f.refs[i] \in Nat
    <3>1. ~(f.refs[i] > 0)
      BY <1>10, <2>3, <2>5 DEF FsOK, Whole
    <3>2. f.refs[i] \in Nat
      BY <1>1, <2>3
    <3> QED
      BY <1>10, <2>5, <3>1, <3>2
  <2>7. h.refs = [f.refs EXCEPT ![i] = @ + 1] /\ h.refs[i] = 1
    BY <1>1, <2>3, <2>4, <2>5, <2>6 DEF RaisedBy1
  <2>8. \A j \in Inodes : j # i => h.refs[j] = g.refs[j]
    BY <1>1, <2>3, <2>5, <2>7
  <2>9. /\ h \in FsType /\ h.node = g.node /\ h.dirty = g.dirty /\ h.disk = g.disk /\ h.inode = g.inode
        /\ h.tinode = g.tinode /\ h.mounted = g.mounted /\ h.dir = g.dir /\ h.slips = g.slips
    BY <2>4 DEF Searched, Alike
  <2>10. Sized(h) /\ RootKept(h) /\ DirSound(h) /\ LinksCounted(h) /\ Calm(h)
    BY <2>3, <2>4, <2>9 DEF FsBut, Sized, RootKept, DirSound, LinksCounted, Calm, Undone
  <2>11. Written(h)
    <3>1. g.refs[i] = 0
      BY <2>5, <2>6
    <3>2. ~g.dirty[i] /\ g.disk[i] = g.node[i]
      BY <2>3, <3>1 DEF FsBut, Written
    <3> QED
      BY <2>3, <2>7, <2>8, <2>9, <3>2 DEF FsBut, Written
  <2>12. Whole(h, {i})
    BY <2>3, <2>8, <2>9, Constants DEF FsBut, Whole
  <2>13. Numbers(h, Unused(h) \ {i})
    <3>1. Unused(h) = Unused(g)
      BY <2>9 DEF Unused
    <3> QED
      BY <2>3, <2>9, <3>1 DEF FsBut, Numbers
  <2>14. Made(h, i)
    BY <1>10, <2>3, <2>7, <2>9, <2>10, <2>11, <2>12, <2>13 DEF Made
  <2>15. h.slips >= f.slips /\ h.panic = f.panic
    BY <1>4, <2>4, <2>9 DEF Steady
  <2> QED
    BY <1>10, <2>2, <2>3, <2>4, <2>5, <2>6, <2>7, <2>9, <2>14, <2>15 DEF RaisedBy1
<1> QED
  BY <1>5, <1>8, <1>9, <1>10

-----------------------------------------------------------------------------
(* ch_link and newfile *)

\* All is in order but perhaps the count of links.
FsButLinks(f) ==
  /\ Sized(f) /\ RootKept(f) /\ Written(f) /\ Whole(f, {}) /\ DirSound(f)
  /\ Numbers(f, Unused(f)) /\ Calm(f)

LEMMA FsLinks == \A f : FsOK(f) <=> FsButLinks(f) /\ LinksCounted(f)
  BY DEF FsOK, FsButLinks

\* The directory alone changes.
Relinked(f, g) ==
  /\ g.refs = f.refs /\ g.node = f.node /\ g.dirty = f.dirty /\ g.disk = f.disk
  /\ g.inode = f.inode /\ g.tinode = f.tinode /\ g.mounted = f.mounted /\ g.error = f.error
  /\ g.panic = f.panic /\ g.slips = f.slips

LEMMA RelinkedKeeps ==
  ASSUME NEW f, FsButLinks(f), NEW g, Relinked(f, g), Sized(g), DirSound(g)
  PROVE  FsButLinks(g)
<1>1. Unused(g) = Unused(f)
  BY DEF Relinked, Unused
<1> QED
  BY <1>1 DEF FsButLinks, Relinked, RootKept, Written, Whole, Numbers, Calm, Undone

\* One entry is put over another, or at the end.
LEMMA EntryOver ==
  ASSUME NEW dir \in Seq(Entries), NEW k \in 1 .. Len(dir), NEW entry \in Entries,
         NEW res, res = [dir EXCEPT ![k] = entry], NEW i
  PROVE  EntriesOf(res, i)
         = EntriesOf(dir, i) - (IF dir[k].ino = i THEN 1 ELSE 0) + (IF entry.ino = i THEN 1 ELSE 0)
<1> DEFINE n == Len(dir)
<1>1. n \in Nat /\ IsFiniteSet(1 .. n) /\ dir \in [1 .. n -> Entries]
  <2>1. n \in Nat /\ dir \in [1 .. n -> Entries]
    OBVIOUS
  <2> QED
    BY <2>1, FS_Interval
<1>2. res \in Seq(Entries) /\ Len(res) = n
  BY <1>1
<1>3. Moves(1 .. n, InoAt(dir), InoAt(res), k, entry.ino)
  BY <1>1, <1>2 DEF Moves, InoAt
<1>4. InoAt(dir)[k] = dir[k].ino
  BY DEF InoAt
<1>5. Count(1 .. n, InoAt(res), i) = Count(1 .. n, InoAt(dir), i)
        - (IF InoAt(dir)[k] = i THEN 1 ELSE 0) + (IF entry.ino = i THEN 1 ELSE 0)
  BY <1>1, <1>3, CountMoves
<1> QED
  BY <1>2, <1>4, <1>5 DEF EntriesOf

LEMMA EntryAdded ==
  ASSUME NEW dir \in Seq(Entries), NEW entry \in Entries, NEW res \in Seq(Entries),
         Len(res) = Len(dir) + 1, res[Len(dir) + 1] = entry,
         \A k \in 1 .. Len(dir) : res[k] = dir[k], NEW i
  PROVE  EntriesOf(res, i) = EntriesOf(dir, i) + (IF entry.ino = i THEN 1 ELSE 0)
<1>1. Len(dir) \in Nat /\ IsFiniteSet(1 .. Len(dir))
  <2>1. Len(dir) \in Nat
    OBVIOUS
  <2> QED
    BY <2>1, FS_Interval
<1>2. Gains(1 .. Len(dir), 1 .. Len(res), Len(dir) + 1)
  BY <1>1 DEF Gains
<1>3. Agree(1 .. Len(dir), InoAt(dir), InoAt(res))
  BY <1>1 DEF Agree, InoAt
<1>4. InoAt(res)[Len(dir) + 1] = entry.ino
  BY <1>1 DEF InoAt
<1>5. Count(1 .. Len(res), InoAt(res), i)
      = Count(1 .. Len(dir), InoAt(dir), i) + (IF InoAt(res)[Len(dir) + 1] = i THEN 1 ELSE 0)
  BY <1>1, <1>2, <1>3, CountGrows
<1> QED
  BY <1>4, <1>5 DEF EntriesOf

LEMMA DirChanged ==
  ASSUME NEW f \in FsType, NEW dir \in Seq(Entries), NEW g, g = [f EXCEPT !.dir = dir]
  PROVE  g \in FsType /\ Relinked(f, g) /\ g.dir = dir
  BY DEF FsType, Relinked

\* What ch_link does to the entries, and when it answers that it did.
Replaced(f, g, k, i) ==
  \A j \in FileInodes :
    EntriesOf(g.dir, j) = EntriesOf(f.dir, j) - (IF f.dir[k].ino = j THEN 1 ELSE 0)
                          + (IF i = j THEN 1 ELSE 0)
Added(f, g, i) ==
  \A j \in FileInodes : EntriesOf(g.dir, j) = EntriesOf(f.dir, j) + (IF i = j THEN 1 ELSE 0)

ChLinked(f, oldname, i, c) ==
  /\ Sized(c.f) /\ DirSound(c.f) /\ Relinked(f, c.f)
  /\ Slots(f, oldname) # {} => /\ Replaced(f, c.f, Least(Slots(f, oldname)), i)
                               /\ c.ok = ~f.error
  /\ oldname = NoName /\ c.ok => Added(f, c.f, i)

LEMMA ChLinkGives ==
  ASSUME NEW f, Sized(f), DirSound(f),
         NEW oldname \in Names \cup {NoName}, NEW newname \in Names \cup {NoName},
         NEW i \in FileInodes \cup {0}, newname = NoName <=> i = 0,
         NEW c, c = ChLink(f, oldname, newname, i)
  PROVE  ChLinked(f, oldname, i, c)
<1> DEFINE slots == Slots(f, oldname)
           k == Least(slots)
           entry == [name |-> newname, ino |-> i]
           over == [f.dir EXCEPT ![k] = entry]
           more == Append(f.dir, entry)
<1>1. f \in FsType /\ f.dir \in Seq(Entries) /\ Len(f.dir) \in Nat /\ Len(f.dir) <= DIRMAX /\ DIRMAX \in Nat
  BY Constants DEF Sized, FsType
<1>2. entry \in Entries /\ entry.ino = i /\ (entry.name = NoName <=> entry.ino = 0)
  BY DEF Entries
<1>3. \A j \in FileInodes : j # 0
  BY Constants
<1>4. CASE slots # {}
  <2>1. k \in 1 .. Len(f.dir) /\ f.dir[k].name = oldname
    BY <1>4, SlotsGive
  <2>2. c = [f |-> [f EXCEPT !.dir = over], ok |-> ~f.error]
    BY <1>4 DEF ChLink
  <2>3. c.f = [f EXCEPT !.dir = over] /\ c.ok = ~f.error
    BY <2>2
  <2> HIDE DEF k, entry
  <2>4. over \in Seq(Entries) /\ Len(over) = Len(f.dir)
        /\ \A l \in 1 .. Len(f.dir) : over[l] = IF l = k THEN entry ELSE f.dir[l]
    BY <1>1, <1>2, <2>1
  <2>5. ASSUME NEW j
        PROVE  EntriesOf(over, j)
               = EntriesOf(f.dir, j) - (IF f.dir[k].ino = j THEN 1 ELSE 0) + (IF entry.ino = j THEN 1 ELSE 0)
    BY <1>1, <1>2, <2>1, EntryOver
  <2> HIDE DEF over
  <2>6. c.f \in FsType /\ Relinked(f, c.f) /\ c.f.dir = over
    BY <1>1, <2>3, <2>4, DirChanged
  <2>7. Sized(c.f)
    BY <1>1, <2>4, <2>6 DEF Sized, Relinked
  <2>8. DirSound(c.f)
    BY <1>2, <2>4, <2>6 DEF DirSound
  <2>9. Replaced(f, c.f, k, i)
    BY <1>2, <2>5, <2>6 DEF Replaced
  <2>10. ASSUME oldname = NoName PROVE Added(f, c.f, i)
    <3>1. f.dir[k].ino = 0
      BY <2>1, <2>10 DEF DirSound
    <3>2. ASSUME NEW j \in FileInodes
          PROVE  EntriesOf(over, j) = EntriesOf(f.dir, j) + (IF i = j THEN 1 ELSE 0)
      <4>1. EntriesOf(f.dir, j) \in Nat /\ f.dir[k].ino # j
        <5>1. IsFiniteSet(1 .. Len(f.dir))
          BY <1>1, FS_Interval
        <5> QED
          BY <1>3, <3>1, <5>1, CountBound DEF EntriesOf
      <4> QED
        BY <1>2, <2>5, <4>1
    <3> QED
      BY <2>6, <3>2 DEF Added
  <2> QED
    BY <1>4, <2>3, <2>6, <2>7, <2>8, <2>9, <2>10 DEF ChLinked, k
<1>5. CASE slots = {} /\ oldname = NoName /\ Len(f.dir) < DIRMAX
  <2>1. c = [f |-> [f EXCEPT !.dir = more], ok |-> ~f.error]
    BY <1>5 DEF ChLink
  <2>2. c.f = [f EXCEPT !.dir = more]
    BY <2>1
  <2> HIDE DEF entry
  <2>3. /\ more \in Seq(Entries) /\ Len(more) = Len(f.dir) + 1
        /\ more[Len(f.dir) + 1] = entry /\ \A l \in 1 .. Len(f.dir) : more[l] = f.dir[l]
    BY <1>1, <1>2, AppendGives
  <2>4. ASSUME NEW j
        PROVE  EntriesOf(more, j) = EntriesOf(f.dir, j) + (IF entry.ino = j THEN 1 ELSE 0)
    <3> HIDE DEF more
    <3> QED
      BY <1>1, <1>2, <2>3, EntryAdded
  <2> HIDE DEF more
  <2>5. c.f \in FsType /\ Relinked(f, c.f) /\ c.f.dir = more
    BY <1>1, <2>2, <2>3, DirChanged
  <2>6. Sized(c.f)
    BY <1>1, <1>5, <2>3, <2>5 DEF Sized, Relinked
  <2>7. DirSound(c.f)
    <3>1. \A l \in 1 .. Len(more) : l \in 1 .. Len(f.dir) \/ l = Len(f.dir) + 1
      BY <1>1, <2>3
    <3> QED
      BY <1>2, <2>3, <2>5, <3>1 DEF DirSound
  <2>8. Added(f, c.f, i)
    BY <1>2, <2>4, <2>5 DEF Added
  <2> QED
    BY <1>5, <2>5, <2>6, <2>7, <2>8 DEF ChLinked
<1>6. CASE slots = {} /\ ~(oldname = NoName /\ Len(f.dir) < DIRMAX)
  <2>1. c = [f |-> f, ok |-> FALSE]
    BY <1>6 DEF ChLink
  <2>2. c.f = f /\ c.ok = FALSE
    BY <2>1
  <2> QED
    BY <1>6, <2>2 DEF ChLinked, Relinked
<1> QED
  BY <1>4, <1>5, <1>6

-----------------------------------------------------------------------------
(* References taken and given back. *)

Takes(f, g, i) ==
  /\ f \in FsType /\ g \in FsType /\ g.slips >= f.slips
  /\ \A j \in FileInodes : g.refs[j] = f.refs[j] + (IF j = i THEN 1 ELSE 0)
  /\ g.slips = 0 => g.refs[Root] = f.refs[Root] + (IF i = Root THEN 1 ELSE 0)
Drops(f, g, i) ==
  /\ g.slips = f.slips /\ g.error = f.error
  /\ \A j \in FileInodes : g.refs[j] = f.refs[j] - (IF j = i THEN 1 ELSE 0)
  /\ g.slips = 0 => g.refs[Root] = f.refs[Root] - (IF i = Root THEN 1 ELSE 0)
Held(f, i) == IF i = Root THEN f.slips = 0 => f.refs[Root] > 0 ELSE f.refs[i] > 0

LEMMA FsTyped ==
  ASSUME NEW f, FsOK(f)
  PROVE  /\ f \in FsType /\ f.slips \in Nat /\ f.error \in BOOLEAN /\ f.refs \in [Inodes -> Nat]
         /\ \A i \in Inodes : f.refs[i] \in Nat /\ f.node[i] \in Nodes
         /\ \A i \in FileInodes : i \in Inodes /\ i # Root /\ i # 0
  BY Constants DEF FsOK, Sized, FsType

LEMMA RootDropped ==
  ASSUME NEW f, FsOK(f), Held(f, Root), NEW g, g = IDeref(f, Root)
  PROVE  FsOK(g) /\ Drops(f, g, Root) /\ g.node = f.node /\ g.dir = f.dir
<1>1. f \in FsType /\ RootKept(f) /\ f.refs \in [Inodes -> Nat] /\ Root \in Inodes
  BY FsTyped, Constants DEF FsOK
<1>2. /\ Alike(f, g) /\ g.error = f.error /\ g.slips = f.slips
      /\ f.refs[Root] = 0 => g.refs = f.refs
      /\ f.refs[Root] > 0 => g.refs = [f.refs EXCEPT ![Root] = @ - 1] /\ g.panic = f.panic
  BY <1>1, RootDeref
<1>3. f.refs[Root] \in Nat
  BY <1>1
<1>4. \A j \in FileInodes : g.refs[j] = f.refs[j] /\ f.refs[j] \in Nat
  BY <1>1, <1>2, <1>3, Constants
<1>5. g.slips = 0 => g.refs[Root] = f.refs[Root] - 1
  BY <1>1, <1>2 DEF Held
<1>6. Calm(f) /\ f.slips \in Nat
  BY FsTyped DEF FsOK
<1>7. Calm(g)
  <2>1. CASE f.slips = 0
    BY <1>2, <1>6, <2>1 DEF Calm, Undone, Held, Alike
  <2>2. CASE f.slips # 0
    BY <1>2, <2>2 DEF Calm
  <2> QED
    BY <2>1, <2>2
<1>8. FsOK(g)
  BY <1>2, <1>4, <1>6, <1>7, AlikeOK
<1>9. \A j \in FileInodes : g.refs[j] = f.refs[j] - (IF j = Root THEN 1 ELSE 0)
  BY <1>4, Constants
<1> QED
  BY <1>2, <1>5, <1>8, <1>9 DEF Drops, Alike

LEMMA Dropping ==
  ASSUME NEW f, FsOK(f), NEW i \in Inodes, Held(f, i), NEW g, g = IDeref(f, i)
  PROVE  FsOK(g) /\ Drops(f, g, i) /\ g.dir = f.dir
<1>1. CASE i = Root
  BY <1>1, RootDropped
<1>2. CASE i # Root
  <2>1. i \in FileInodes /\ f.refs[i] > 0
    BY <1>2, Constants DEF Held
  <2>2. FsOK(g) /\ LowerBy1(f, g, i)
    BY <2>1, DerefGives
  <2>3. f.refs \in [Inodes -> Nat]
    BY FsTyped
  <2>4. g.refs = [f.refs EXCEPT ![i] = @ - 1] /\ g.slips = f.slips /\ g.error = f.error /\ g.dir = f.dir
    BY <2>2 DEF LowerBy1
  <2>5. \A j \in Inodes : g.refs[j] = (IF j = i THEN f.refs[j] - 1 ELSE f.refs[j]) /\ f.refs[j] \in Nat
    BY <2>3, <2>4
  <2>6. \A j \in Inodes : g.refs[j] = f.refs[j] - (IF j = i THEN 1 ELSE 0)
    BY <2>5
  <2> QED
    BY <1>2, <2>2, <2>4, <2>6, Constants DEF Drops
<1> QED
  BY <1>1, <1>2

\* All is in order but for the type of i, which is open, and the count of links.
FsOpen(f, i) ==
  /\ Sized(f) /\ RootKept(f) /\ Written(f) /\ Whole(f, {i}) /\ DirSound(f)
  /\ Numbers(f, Unused(f) \ {i}) /\ Calm(f)

\* Only the inode i and its count change.
Edited(f, g, i) ==
  /\ g \in FsType
  /\ g.inode = f.inode /\ g.tinode = f.tinode /\ g.mounted = f.mounted /\ g.dir = f.dir
  /\ g.slips = f.slips
  /\ \A j \in Inodes : j # i => /\ g.refs[j] = f.refs[j] /\ g.node[j] = f.node[j]
                                /\ g.dirty[j] = f.dirty[j] /\ g.disk[j] = f.disk[j]

LEMMA OpenInodes ==
  ASSUME NEW f, NEW i \in FileInodes
  PROVE  /\ Made(f, i) => FsOpen(f, i) /\ LinksCounted(f)
         /\ FsButLinks(f) /\ f.refs[i] > 0 => FsOpen(f, i) /\ f.node[i].type # "none"
<1>1. Made(f, i) => FsOpen(f, i) /\ LinksCounted(f)
  BY DEF Made, FsOpen
<1>2. ASSUME FsButLinks(f), f.refs[i] > 0 PROVE FsOpen(f, i) /\ f.node[i].type # "none"
  <2>1. f.node[i].type # "none"
    BY <1>2 DEF FsButLinks, Whole
  <2>2. Unused(f) \ {i} = Unused(f)
    BY <2>1 DEF Unused
  <2>3. Whole(f, {i})
    BY <1>2 DEF FsButLinks, Whole
  <2> QED
    BY <1>2, <2>1, <2>2, <2>3 DEF FsButLinks, FsOpen
<1> QED
  BY <1>1, <1>2

LEMMA EditedOK ==
  ASSUME NEW f, NEW i \in FileInodes, FsOpen(f, i), NEW g, Edited(f, g, i), Calm(g),
         g.refs[i] > 0, g.node[i].type # "none", g.node[i].type = "REG" => g.node[i].dev = 0,
         g.dirty[i] \/ g.disk[i] = g.node[i] \/ g.node[i].nlink = 0
  PROVE  FsButLinks(g)
<1>1. i # Root /\ FileInodes \subseteq Inodes /\ Root \in Inodes
  BY Constants
<1>2. Sized(g) /\ RootKept(g) /\ DirSound(g)
  BY <1>1 DEF FsOpen, Edited, Sized, RootKept, DirSound
<1>3. g.refs[i] # 0
  BY DEF FsOpen
<1>4. Written(g)
  BY <1>3 DEF FsOpen, Edited, Written
<1>5. Whole(g, {})
  BY <1>1 DEF FsOpen, Edited, Whole
<1>6. Unused(g) = Unused(f) \ {i}
  BY <1>1 DEF Edited, Unused
<1>7. Numbers(g, Unused(g))
  BY <1>6 DEF FsOpen, Edited, Numbers
<1> QED
  BY <1>2, <1>4, <1>5, <1>7 DEF FsButLinks

\* After a slip nothing is said of the links and the numbers.
LEMMA Slipped ==
  ASSUME NEW f, FsButLinks(f), NEW g, g = Slip(f)
  PROVE  FsOK(g) /\ g.slips = f.slips + 1 /\ g.slips # 0 /\ g.refs = f.refs /\ f.slips \in Nat
<1>1. f \in FsType /\ f.slips \in Nat
  BY DEF FsButLinks, Sized, FsType
<1>2. /\ g \in FsType /\ g.slips = f.slips + 1
      /\ g.refs = f.refs /\ g.node = f.node /\ g.dirty = f.dirty
      /\ g.disk = f.disk /\ g.inode = f.inode /\ g.tinode = f.tinode
      /\ g.mounted = f.mounted /\ g.dir = f.dir
  BY <1>1, SlipGives
<1>3. g.slips # 0
  BY <1>1, <1>2
<1>4. Sized(g) /\ RootKept(g) /\ Written(g) /\ Whole(g, {}) /\ DirSound(g)
  BY <1>2 DEF FsButLinks, Sized, RootKept, Written, Whole, DirSound
<1>5. LinksCounted(g) /\ Numbers(g, Unused(g)) /\ Calm(g)
  BY <1>3 DEF LinksCounted, Numbers, Calm
<1> QED
  BY <1>1, <1>2, <1>3, <1>4, <1>5 DEF FsOK

-----------------------------------------------------------------------------
(* The calls, on the state of the file system. *)

\* A call begins: what it may assume of the root.
Ready(f) ==
  /\ f.error = FALSE
  /\ f.slips = 0 => f.refs[Root] > 0 /\ (Roomy => f.refs[Root] + 2 < MaxRefs)

\* n is what n_open answers, and g is n.f without the parent.
LookedUp(f, name, n, g) ==
  /\ FsOK(n.f) /\ FsOK(g) /\ n.f.slips = f.slips /\ Searched(f, n.f) /\ Held(n.f, Root)
  /\ Fresh(f) => Fresh(n.f)
  /\ Takes(f, g, n.ino) /\ Drops(n.f, g, Root) /\ g.slips = f.slips
  /\ g.node = f.node /\ g.dir = f.dir /\ g.error = n.f.error
  /\ n.ino = 0 \/ (n.ino \in Inodes /\ Held(g, n.ino))
  /\ name # NoName /\ n.ino # 0 => /\ n.ino \in FileInodes /\ g.error = FALSE
                                   /\ f.node[n.ino].type # "none"
                                   /\ f.node[n.ino].nlink # 0
                                   /\ Slots(f, name) # {}
                                   /\ n.ino = f.dir[Least(Slots(f, name))].ino

LEMMA LookupGives ==
  ASSUME NEW f, FsOK(f), Ready(f), NEW name \in Names \cup {NoName}, NEW n, n = NOpen(f, name)
  PROVE  LookedUp(f, name, n, IDeref(n.f, Root))
<1> DEFINE g == IDeref(n.f, Root)
<1>0. f \in FsType /\ f.slips \in Nat /\ f.refs \in [Inodes -> Nat] /\ Root \in Inodes
  BY FsTyped, Constants
<1>1. Roomy /\ f.slips = 0 => f.refs[Root] + 2 < MaxRefs
  BY DEF Ready
<1>2. /\ FsOK(n.f) /\ Searched(f, n.f) /\ (Fresh(f) => Fresh(n.f))
      /\ name = NoName => /\ n.ino = Root /\ n.f.refs[Root] = f.refs[Root] + 2
                          /\ \A i \in FileInodes : n.f.refs[i] = f.refs[i]
      /\ name # NoName => /\ n.f.refs[Root] = f.refs[Root] + 1
                          /\ \A i \in FileInodes :
                               n.f.refs[i] = f.refs[i] + (IF i = n.ino THEN 1 ELSE 0)
                          /\ n.ino # 0 => /\ n.ino \in FileInodes /\ n.f.error = f.error
                                          /\ f.node[n.ino].type # "none"
                                          /\ f.node[n.ino].nlink # 0
                                          /\ Slots(f, name) # {}
                                          /\ n.ino = f.dir[Least(Slots(f, name))].ino
  BY <1>1, NOpenGives
<1>3. n.f.slips = f.slips /\ Alike(f, n.f)
  BY <1>2 DEF Searched
<1>4. f.refs[Root] \in Nat
  BY <1>0
<1>5. n.f.refs[Root] > 0
  BY <1>2, <1>4
<1>6. Held(n.f, Root)
  BY <1>5 DEF Held
<1>7. FsOK(g) /\ Drops(n.f, g, Root) /\ g.node = n.f.node /\ g.dir = n.f.dir
  BY <1>2, <1>6, RootDropped
<1> HIDE DEF g
<1>8. g \in FsType /\ g.slips = f.slips /\ g.error = n.f.error
  BY <1>3, <1>7, FsTyped DEF Drops
<1>9. g.node = f.node /\ g.dir = f.dir
  BY <1>3, <1>7 DEF Alike
<1>10. \A j \in FileInodes : j # Root /\ j \in Inodes /\ j # 0 /\ f.refs[j] \in Nat /\ n.f.refs[j] \in Nat
  BY <1>0, <1>2, FsTyped
<1>11. /\ \A j \in FileInodes : g.refs[j] = n.f.refs[j]
       /\ g.slips = 0 => g.refs[Root] = n.f.refs[Root] - 1
  BY <1>7, <1>10 DEF Drops
<1>12. Takes(f, g, n.ino)
  <2>1. CASE name = NoName
    <3>1. \A j \in FileInodes : g.refs[j] = f.refs[j] + (IF j = n.ino THEN 1 ELSE 0)
      BY <1>2, <1>10, <1>11, <2>1
    <3>2. g.slips = 0 => g.refs[Root] = f.refs[Root] + (IF n.ino = Root THEN 1 ELSE 0)
      BY <1>2, <1>4, <1>11, <2>1
    <3> QED
      BY <1>0, <1>8, <3>1, <3>2 DEF Takes
  <2>2. CASE name # NoName
    <3>1. \A j \in FileInodes : g.refs[j] = f.refs[j] + (IF j = n.ino THEN 1 ELSE 0)
      BY <1>2, <1>11, <2>2
    <3>2. n.ino # Root
      BY <1>2, <1>10, <2>2, Constants
    <3>3. g.slips = 0 => g.refs[Root] = f.refs[Root] + (IF n.ino = Root THEN 1 ELSE 0)
      BY <1>2, <1>4, <1>11, <2>2, <3>2
    <3> QED
      BY <1>0, <1>8, <3>1, <3>3 DEF Takes
  <2> QED
    BY <2>1, <2>2
<1>13. n.ino = 0 \/ (n.ino \in Inodes /\ Held(g, n.ino))
  <2>1. CASE name = NoName
    <3>1. g.slips = 0 => g.refs[Root] = f.refs[Root] + 1
      BY <1>2, <1>12, <2>1 DEF Takes
    <3> QED
      BY <1>0, <1>2, <1>4, <2>1, <3>1 DEF Held
  <2>2. CASE name # NoName /\ n.ino # 0
    <3>1. n.ino \in FileInodes
      BY <1>2, <2>2
    <3>2. g.refs[n.ino] = f.refs[n.ino] + 1 /\ f.refs[n.ino] \in Nat
      BY <1>10, <1>12, <3>1 DEF Takes
    <3> QED
      BY <1>10, <3>1, <3>2 DEF Held
  <2> QED
    BY <2>1, <2>2
<1>14. name # NoName /\ n.ino # 0 => g.error = FALSE
  BY <1>2, <1>8 DEF Ready
<1> QED
  BY <1>2, <1>3, <1>6, <1>7, <1>8, <1>9, <1>12, <1>13, <1>14 DEF LookedUp, g

\* The links that are counted depend on the inodes' counts and the entries.
LEMMA LinksSame ==
  ASSUME NEW f, LinksCounted(f), NEW g, g.slips = 0 => f.slips = 0, g.dir = f.dir,
         \A j \in FileInodes : g.node[j].nlink = f.node[j].nlink
  PROVE  LinksCounted(g)
  BY DEF LinksCounted

LEMMA NewNodeGives ==
  ASSUME NEW f, NEW i \in FileInodes, Made(f, i), Fresh(f), NEW g, g = NewNode(f, i)
  PROVE  /\ FsButLinks(g) /\ g.refs = f.refs /\ g.dir = f.dir /\ g.error = f.error
         /\ g.slips = f.slips
         /\ g.node = [f.node EXCEPT ![i] = [type |-> "REG", nlink |-> 1, dev |-> 0]]
<1> DEFINE reg == [type |-> "REG", nlink |-> 1, dev |-> 0]
           h == [f EXCEPT !.node[i] = reg]
<1>1. f \in FsType /\ i \in Inodes /\ f.refs[i] = 1
  BY Constants DEF Made, Sized
<1>2. reg \in Nodes /\ reg.type = "REG" /\ reg.nlink = 1 /\ reg.dev = 0
  BY DEF Nodes, Types
<1>3. g = WrInode(h, i)
  BY DEF NewNode
<1> HIDE DEF reg
<1>4. /\ h \in FsType /\ h.node = [f.node EXCEPT ![i] = reg]
      /\ h.refs = f.refs /\ h.dirty = f.dirty /\ h.disk = f.disk /\ h.inode = f.inode
      /\ h.tinode = f.tinode /\ h.mounted = f.mounted /\ h.dir = f.dir /\ h.error = f.error
      /\ h.panic = f.panic /\ h.slips = f.slips
  BY <1>1, <1>2 DEF FsType
<1> HIDE DEF h
<1>5. /\ g \in FsType
      /\ g.disk = [h.disk EXCEPT ![i] = h.node[i]] /\ g.dirty = [h.dirty EXCEPT ![i] = FALSE]
      /\ g.refs = h.refs /\ g.node = h.node /\ g.inode = h.inode /\ g.tinode = h.tinode
      /\ g.mounted = h.mounted /\ g.dir = h.dir /\ g.error = h.error /\ g.panic = h.panic
      /\ g.slips = h.slips
  <2>1. h \in FsType /\ i \in Inodes
    BY <1>1, <1>4
  <2> QED
    BY <1>3, <2>1, WrInodeGives
<1>6. f.node \in [Inodes -> Nodes] /\ f.disk \in [Inodes -> Nodes] /\ f.dirty \in [Inodes -> BOOLEAN]
  BY <1>1 DEF FsType
<1>7. g.node[i] = reg /\ g.disk[i] = reg
  BY <1>1, <1>4, <1>5, <1>6
<1>8. Edited(f, g, i)
  BY <1>1, <1>4, <1>5, <1>6 DEF Edited
<1>9. FsOpen(f, i)
  BY OpenInodes
<1>10. Calm(g)
  BY <1>4, <1>5 DEF Fresh, Calm
<1>11. FsButLinks(g)
  <2>1. g.refs[i] > 0 /\ g.node[i].type # "none" /\ g.node[i].dev = 0
    BY <1>1, <1>2, <1>4, <1>5, <1>7
  <2> QED
    BY <1>7, <1>8, <1>9, <1>10, <2>1, EditedOK
<1> QED
  BY <1>4, <1>5, <1>11 DEF reg

\* newfile gives a file with one link, or nothing.
LEMMA NewFileGives ==
  ASSUME NEW f, FsOK(f), Fresh(f), Held(f, Root), NEW name \in Names, NEW m, m = NewFile(f, name)
  PROVE  /\ FsOK(m.f) /\ m.f.slips >= f.slips
         /\ \A j \in FileInodes : m.f.refs[j] = f.refs[j] + (IF j = m.ino THEN 1 ELSE 0)
         /\ m.f.slips = 0 => m.f.refs[Root] = f.refs[Root] - 1
         /\ m.ino = 0 \/ (m.ino \in FileInodes /\ m.f.refs[m.ino] = 1)
<1>0. /\ f \in FsType /\ f.slips \in Nat /\ f.refs \in [Inodes -> Nat]
      /\ \A j \in FileInodes : j \in Inodes /\ j # Root /\ j # 0
  BY FsTyped
<1> DEFINE o == IOpenNew(f)
<1>1. /\ o.f \in FsType /\ o.f.dir = f.dir /\ o.f.slips >= f.slips /\ o.f.panic = f.panic
      /\ o.ino = 0 => FsOK(o.f) /\ o.f.refs = f.refs
      /\ o.ino # 0 => /\ Made(o.f, o.ino) /\ f.refs[o.ino] = 0 /\ RaisedBy1(f, o.f, o.ino)
                      /\ o.f.error = f.error
  BY IOpenNewGives
<1>2. m = Filled(o.f, o.ino, name)
  BY DEF NewFile, Named
<1> HIDE DEF o
<1>3. o.f.slips \in Nat
  BY <1>1 DEF FsType
<1>4. CASE o.ino = 0
  <2>1. m = [f |-> IDeref(o.f, Root), ino |-> 0]
    BY <1>2, <1>4 DEF Filled
  <2>2. m.f = IDeref(o.f, Root) /\ m.ino = 0
    BY <2>1
  <2>3. FsOK(o.f) /\ o.f.refs = f.refs
    BY <1>1, <1>4
  <2>4. Held(o.f, Root)
    BY <1>0, <1>1, <1>3, <2>3 DEF Held
  <2>5. FsOK(m.f) /\ Drops(o.f, m.f, Root)
    BY <2>2, <2>3, <2>4, RootDropped
  <2>6. \A j \in FileInodes : m.f.refs[j] = f.refs[j] + (IF j = m.ino THEN 1 ELSE 0)
    BY <1>0, <2>2, <2>3, <2>5 DEF Drops
  <2> QED
    BY <1>1, <2>2, <2>3, <2>5, <2>6 DEF Drops
<1>5. CASE o.ino # 0
  <2> DEFINE i == o.ino
             g == NewNode(o.f, i)
             c == ChLink(g, NoName, name, i)
  <2>1. Made(o.f, i) /\ f.refs[i] = 0 /\ o.f.refs = [f.refs EXCEPT ![i] = @ + 1] /\ i \in FileInodes
    BY <1>1, <1>5 DEF RaisedBy1, Made
  <2>2. m = Entered(c, i)
    BY <1>2, <1>5 DEF Filled
  <2>3. /\ FsButLinks(g) /\ g.refs = o.f.refs /\ g.dir = o.f.dir /\ g.slips = o.f.slips
        /\ g.node = [o.f.node EXCEPT ![i] = [type |-> "REG", nlink |-> 1, dev |-> 0]]
    <3>1. i \in FileInodes /\ Made(o.f, i)
      BY <2>1
    <3>2. Fresh(o.f)
      BY <1>0, <1>1, FreshKept
    <3> QED
      BY <3>1, <3>2, NewNodeGives
  <2> HIDE DEF g
  <2>4. /\ Sized(c.f) /\ DirSound(c.f) /\ Relinked(g, c.f)
        /\ c.ok => Added(g, c.f, i)
    <3>1. Sized(g) /\ DirSound(g)
      BY <2>3 DEF FsButLinks
    <3>2. name # NoName /\ i # 0 /\ i \in FileInodes \cup {0} /\ name \in Names \cup {NoName}
          /\ NoName \in Names \cup {NoName}
      BY <1>5, <2>1, FilesAssumption
    <3>3. c = ChLink(g, NoName, name, i)
      OBVIOUS
    <3> HIDE DEF i, c
    <3>4. ChLinked(g, NoName, i, c)
      BY <3>1, <3>2, <3>3, ChLinkGives
    <3> QED
      BY <3>4 DEF ChLinked
  <2> HIDE DEF c, i
  <2>5. FsButLinks(c.f)
    BY <2>3, <2>4, RelinkedKeeps
  <2>6. c.f.refs = o.f.refs /\ c.f.slips = o.f.slips /\ c.f.node = g.node
    BY <2>3, <2>4 DEF Relinked
  <2>7. i \in Inodes /\ i # 0 /\ i # Root /\ f.refs[i] \in Nat
        /\ \A j \in Inodes : o.f.refs[j] = (IF j = i THEN 1 ELSE f.refs[j]) /\ f.refs[j] \in Nat
    BY <1>0, <2>1
  <2>8. o.f.refs[Root] = f.refs[Root] /\ o.f.refs[i] = 1
    BY <2>7, Constants
  <2>9. CASE c.ok
    <3>1. LinksCounted(c.f)
      <4>1. LinksCounted(o.f) /\ o.f.node[i].nlink = 0 /\ o.f.node \in [Inodes -> Nodes]
        BY <1>1, <2>1 DEF Made, FsType
      <4>2. SUFFICES ASSUME c.f.slips = 0, NEW j \in FileInodes
                     PROVE  c.f.node[j].nlink = EntriesOf(c.f.dir, j)
        BY DEF LinksCounted
      <4>3. o.f.node[j].nlink = EntriesOf(o.f.dir, j)
        BY <2>6, <4>1, <4>2 DEF LinksCounted
      <4>4. EntriesOf(c.f.dir, j) = EntriesOf(g.dir, j) + (IF i = j THEN 1 ELSE 0)
        BY <2>4, <2>9 DEF Added
      <4>5. c.f.node[j].nlink = IF j = i THEN 1 ELSE o.f.node[j].nlink
        BY <1>0, <2>3, <2>6, <4>1
      <4>6. o.f.node[j].nlink \in Nat
        BY <1>0, <4>1 DEF Nodes
      <4> QED
        BY <2>3, <4>1, <4>3, <4>4, <4>5, <4>6
    <3>2. FsOK(c.f)
      BY <2>5, <3>1, FsLinks
    <3>3. Held(c.f, Root)
      BY <1>0, <1>1, <1>3, <2>6, <2>8 DEF Held
    <3>4. m = [f |-> IDeref(c.f, Root), ino |-> i]
      BY <2>2, <2>9 DEF Entered
    <3>5. m.f = IDeref(c.f, Root) /\ m.ino = i
      BY <3>4
    <3>6. FsOK(m.f) /\ Drops(c.f, m.f, Root)
      BY <3>2, <3>3, <3>5, RootDropped
    <3>7. \A j \in FileInodes : m.f.refs[j] = o.f.refs[j]
      BY <1>0, <2>6, <2>7, <3>6 DEF Drops
    <3>8. \A j \in FileInodes : m.f.refs[j] = f.refs[j] + (IF j = m.ino THEN 1 ELSE 0)
      BY <1>0, <2>1, <2>7, <3>5, <3>7
    <3>9. m.f.slips = 0 => m.f.refs[Root] = f.refs[Root] - 1
      BY <2>6, <2>8, <3>6 DEF Drops
    <3> QED
      BY <1>1, <2>1, <2>6, <2>8, <3>5, <3>6, <3>7, <3>8, <3>9 DEF Drops
  <2>10. CASE ~c.ok
    <3> DEFINE s == Slip(c.f)
               d == IDeref(s, i)
    <3>1. FsOK(s) /\ s.slips = c.f.slips + 1 /\ s.slips # 0 /\ s.refs = c.f.refs /\ c.f.slips \in Nat
      BY <2>5, Slipped
    <3>2. m = [f |-> IDeref(d, Root), ino |-> 0]
      BY <2>2, <2>10 DEF Entered
    <3>3. m.f = IDeref(d, Root) /\ m.ino = 0
      BY <3>2
    <3>4. d = IDeref(s, i)
      OBVIOUS
    <3> HIDE DEF s, d
    <3>5. Held(s, i)
      BY <2>6, <2>7, <2>8, <3>1 DEF Held
    <3>6. FsOK(d) /\ Drops(s, d, i)
      BY <2>7, <3>1, <3>4, <3>5, Dropping
    <3>7. d.slips # 0 /\ d.slips = s.slips
      BY <3>1, <3>6 DEF Drops
    <3>8. Held(d, Root)
      BY <3>7 DEF Held
    <3>9. FsOK(m.f) /\ Drops(d, m.f, Root)
      BY <3>3, <3>6, <3>8, RootDropped
    <3>10. m.f.slips # 0 /\ m.f.slips >= f.slips
      BY <1>0, <1>1, <1>3, <2>6, <3>1, <3>7, <3>9 DEF Drops
    <3>11. ASSUME NEW j \in FileInodes PROVE m.f.refs[j] = f.refs[j] + (IF j = m.ino THEN 1 ELSE 0)
      <4>1. m.f.refs[j] = d.refs[j] - 0 /\ d.refs[j] = s.refs[j] - (IF j = i THEN 1 ELSE 0)
        BY <1>0, <3>6, <3>9 DEF Drops
      <4>2. s.refs[j] = IF j = i THEN 1 ELSE f.refs[j]
        BY <1>0, <2>6, <2>7, <3>1
      <4> QED
        BY <1>0, <2>1, <2>7, <3>3, <4>1, <4>2
    <3> QED
      BY <3>3, <3>9, <3>10, <3>11
  <2> QED
    BY <2>9, <2>10
<1> QED
  BY <1>4, <1>5

LEMMA TakesDrops ==
  ASSUME NEW f, FsOK(f), NEW g, FsOK(g), NEW h, FsOK(h), NEW i \in Inodes \cup {0},
         Takes(f, g, i), Drops(g, h, i)
  PROVE  Takes(f, h, 0)
<1>1. /\ f \in FsType /\ h \in FsType /\ f.slips \in Nat /\ f.refs \in [Inodes -> Nat]
      /\ \A j \in FileInodes : f.refs[j] \in Nat /\ j # 0
  BY FsTyped
<1>2. g.slips >= f.slips /\ h.slips = g.slips
  BY DEF Takes, Drops
<1>3. \A j \in FileInodes : h.refs[j] = f.refs[j] + (IF j = 0 THEN 1 ELSE 0)
  BY <1>1 DEF Takes, Drops
<1>4. f.refs[Root] \in Nat /\ Root # 0
  BY <1>1, Constants
<1>5. h.slips = 0 => h.refs[Root] = f.refs[Root] + (IF Root = 0 THEN 1 ELSE 0)
  BY <1>2, <1>4 DEF Takes, Drops
<1> QED
  BY <1>1, <1>2, <1>3, <1>5 DEF Takes

LEMMA TakesNothing ==
  ASSUME NEW f, FsOK(f), NEW g, FsOK(g), g.slips >= f.slips,
         \A j \in FileInodes : g.refs[j] = f.refs[j], g.slips = 0 => g.refs[Root] = f.refs[Root]
  PROVE  Takes(f, g, 0)
<1>1. /\ f \in FsType /\ g \in FsType /\ f.refs[Root] \in Nat /\ Root # 0
      /\ \A j \in FileInodes : f.refs[j] \in Nat /\ j # 0
  BY FsTyped, Constants
<1>2. \A j \in FileInodes : g.refs[j] = f.refs[j] + (IF j = 0 THEN 1 ELSE 0)
  BY <1>1
<1>3. g.slips = 0 => g.refs[Root] = f.refs[Root] + (IF Root = 0 THEN 1 ELSE 0)
  BY <1>1
<1> QED
  BY <1>1, <1>2, <1>3 DEF Takes

LEMMA TakesNone ==
  ASSUME NEW f, FsOK(f), NEW g, FsOK(g), NEW i \in Inodes \cup {0}, Takes(f, g, i),
         NEW h, FsOK(h), h.refs = g.refs, h.slips >= g.slips
  PROVE  Takes(f, h, i)
<1>1. f.slips \in Nat /\ g.slips \in Nat /\ h.slips \in Nat /\ h \in FsType
  BY FsTyped
<1> QED
  BY <1>1 DEF Takes

\* What is written in an inode that is made leaves the devices that are gone.
LEMMA EditedCalm ==
  ASSUME NEW f \in FsType, Calm(f), NEW i \in FileInodes, f.node[i].type # "none",
         NEW g, Edited(f, g, i), g.panic = f.panic
  PROVE  Calm(g)
<1>1. \A j \in FileInodes : f.node[j].type = "none" => g.node[j] = f.node[j]
  BY Constants DEF Edited
<1>2. g \in FsType /\ g.slips >= f.slips
  BY DEF Edited, FsType
<1> QED
  BY <1>1, <1>2, CalmKept

\* What a call writes in an inode that is open changes neither counts nor links.
LEMMA Rewritten ==
  ASSUME NEW f, FsOK(f), NEW i \in FileInodes, f.refs[i] > 0, NEW g, Edited(f, g, i),
         g.refs = f.refs, Calm(g), g.node[i].type # "none", g.node[i].nlink = f.node[i].nlink,
         g.node[i].type = "REG" => g.node[i].dev = 0,
         g.dirty[i] \/ g.disk[i] = g.node[i]
  PROVE  FsOK(g)
<1>1. FsButLinks(f) /\ LinksCounted(f)
  BY FsLinks
<1>2. FsOpen(f, i)
  BY <1>1, OpenInodes
<1>3. FsButLinks(g)
  BY <1>2, EditedOK
<1>4. \A j \in FileInodes : g.node[j].nlink = f.node[j].nlink
  BY Constants DEF Edited
<1>5. LinksCounted(g)
  BY <1>1, <1>4, LinksSame DEF Edited
<1> QED
  BY <1>3, <1>5, FsLinks

LEMMA WrInodeOK ==
  ASSUME NEW f, FsOK(f), NEW i \in FileInodes, f.refs[i] > 0, NEW g, g = WrInode(f, i)
  PROVE  FsOK(g) /\ g.refs = f.refs /\ g.slips = f.slips /\ g.node = f.node
<1>1. f \in FsType /\ i \in Inodes /\ f.node[i].type # "none" /\ Calm(f)
  BY FsTyped DEF FsOK, Whole
<1>2. /\ g \in FsType
      /\ g.disk = [f.disk EXCEPT ![i] = f.node[i]] /\ g.dirty = [f.dirty EXCEPT ![i] = FALSE]
      /\ g.refs = f.refs /\ g.node = f.node /\ g.inode = f.inode /\ g.tinode = f.tinode
      /\ g.mounted = f.mounted /\ g.dir = f.dir /\ g.error = f.error /\ g.panic = f.panic
      /\ g.slips = f.slips
  BY <1>1, WrInodeGives
<1>3. f.disk \in [Inodes -> Nodes] /\ f.dirty \in [Inodes -> BOOLEAN]
  BY <1>1 DEF FsType
<1>4. Edited(f, g, i) /\ g.disk[i] = g.node[i]
  BY <1>1, <1>2, <1>3 DEF Edited
<1>5. Calm(g) /\ (g.node[i].type = "REG" => g.node[i].dev = 0)
  BY <1>1, <1>2, <1>4, EditedCalm DEF FsOK, Whole
<1> QED
  BY <1>1, <1>2, <1>4, <1>5, Rewritten

LEMMA TouchGives ==
  ASSUME NEW f \in FsType, NEW i \in FileInodes, NEW g, g = Touch(f, i)
  PROVE  /\ g \in FsType /\ g.dirty = [f.dirty EXCEPT ![i] = TRUE] /\ g.disk = f.disk
         /\ g.refs = f.refs /\ g.node = f.node /\ g.inode = f.inode /\ g.tinode = f.tinode
         /\ g.mounted = f.mounted /\ g.dir = f.dir /\ g.error = f.error /\ g.panic = f.panic
         /\ g.slips = f.slips
<1>1. i \in Inodes /\ i # Root
  BY Constants
<1> DEFINE dirty == [f.dirty EXCEPT ![i] = TRUE]
<1>2. g = [f EXCEPT !.dirty = dirty]
  BY <1>1 DEF Touch
<1>3. dirty \in [Inodes -> BOOLEAN]
  BY <1>1 DEF FsType
<1>4. dirty = [f.dirty EXCEPT ![i] = TRUE]
  OBVIOUS
<1> HIDE DEF dirty
<1> QED
  BY <1>2, <1>3, <1>4 DEF FsType

LEMMA TouchOK ==
  ASSUME NEW f, FsOK(f), NEW i \in FileInodes, f.refs[i] > 0, NEW g, g = Touch(f, i)
  PROVE  FsOK(g) /\ g.refs = f.refs /\ g.slips = f.slips /\ g.node = f.node /\ g.error = f.error
<1>1. f \in FsType /\ i \in Inodes /\ f.node[i].type # "none" /\ Calm(f) /\ i # Root
  BY FsTyped DEF FsOK, Whole
<1>2. /\ g \in FsType /\ g.dirty = [f.dirty EXCEPT ![i] = TRUE] /\ g.disk = f.disk
      /\ g.refs = f.refs /\ g.node = f.node /\ g.inode = f.inode /\ g.tinode = f.tinode
      /\ g.mounted = f.mounted /\ g.dir = f.dir /\ g.error = f.error /\ g.panic = f.panic
      /\ g.slips = f.slips
  BY <1>1, TouchGives
<1>3. f.dirty \in [Inodes -> BOOLEAN]
  BY <1>1 DEF FsType
<1>4. Edited(f, g, i) /\ g.dirty[i]
  BY <1>1, <1>2, <1>3 DEF Edited
<1>5. Calm(g) /\ (g.node[i].type = "REG" => g.node[i].dev = 0)
  BY <1>1, <1>2, <1>4, EditedCalm DEF FsOK, Whole
<1> QED
  BY <1>1, <1>2, <1>4, <1>5, Rewritten

LEMMA FTruncOK ==
  ASSUME NEW f, FsOK(f), NEW i \in FileInodes, f.refs[i] > 0, f.node[i].type = "REG",
         NEW g, g = FTrunc(f, i)
  PROVE  FsOK(g) /\ g.refs = f.refs /\ g.slips = f.slips /\ g.error = f.error
<1>1. f \in FsType /\ i \in Inodes /\ f.node[i].dev = 0 /\ Calm(f)
  BY FsTyped DEF FsOK, Whole
<1>2. /\ g \in FsType
      /\ g.node = [f.node EXCEPT ![i] = Cleared(f, i)]
      /\ g.dirty = [f.dirty EXCEPT ![i] = TRUE]
      /\ g.refs = f.refs /\ g.disk = f.disk /\ g.inode = f.inode /\ g.tinode = f.tinode
      /\ g.mounted = f.mounted /\ g.dir = f.dir /\ g.error = f.error /\ g.slips = f.slips
      /\ FreesNothing(f, i, g)
  BY <1>1, FTruncGives, SMTT(30)
<1>3. ~Stray(f.node[i].dev)
  BY <1>1 DEF Stray
<1>4. f.dirty \in [Inodes -> BOOLEAN] /\ f.node \in [Inodes -> Nodes] /\ f.node[i] \in Nodes
  BY <1>1 DEF FsType
<1>5. g.node[i] = [f.node[i] EXCEPT !.dev = 0] /\ g.dirty[i]
  BY <1>1, <1>2, <1>4, <1>3 DEF Cleared
<1>6. g.node[i].type = "REG" /\ g.node[i].nlink = f.node[i].nlink /\ g.node[i].dev = 0
  BY <1>4, <1>5 DEF Nodes
<1>7. Edited(f, g, i)
  BY <1>1, <1>2, <1>4 DEF Edited
<1>8. Calm(g)
  BY <1>1, <1>2, <1>7, <1>3, EditedCalm DEF FreesNothing
<1> QED
  BY <1>1, <1>2, <1>5, <1>6, <1>7, <1>8, Rewritten

\* A name is looked up and not there, and newfile is called.
LEMMA CreateGives ==
  ASSUME NEW f, FsOK(f), Ready(f), Fresh(f), NEW name \in Names,
         NEW n, n = NOpen(f, name), n.ino = 0, NEW m, m = NewFile(n.f, name)
  PROVE  /\ FsOK(m.f) /\ Takes(f, m.f, m.ino) /\ Held(m.f, Root)
         /\ m.ino = 0 \/ (m.ino \in FileInodes /\ m.f.refs[m.ino] = 1)
<1>0. /\ f \in FsType /\ f.slips \in Nat /\ f.refs \in [Inodes -> Nat]
      /\ \A j \in FileInodes : j \in Inodes /\ j # Root /\ j # 0 /\ f.refs[j] \in Nat
  BY FsTyped
<1> DEFINE g == IDeref(n.f, Root)
<1>1. /\ FsOK(n.f) /\ n.f.slips = f.slips /\ Held(n.f, Root) /\ Fresh(n.f)
      /\ Takes(f, g, n.ino) /\ Drops(n.f, g, Root) /\ g.slips = f.slips
  <2>1. LookedUp(f, name, n, g)
    BY LookupGives
  <2> HIDE DEF g
  <2> QED
    BY <2>1 DEF LookedUp
<1> HIDE DEF g
<1>2. /\ \A j \in FileInodes : n.f.refs[j] \in Nat
      /\ n.f.refs \in [Inodes -> Nat] /\ n.f.slips \in Nat
  BY <1>1, FsTyped
<1>3. n.f.refs[Root] \in Nat /\ f.refs[Root] \in Nat /\ Root # 0
  BY <1>0, <1>2, Constants
<1>4. \A j \in FileInodes : n.f.refs[j] = f.refs[j]
  BY <1>0, <1>1, <1>2 DEF Takes, Drops
<1>5. f.slips = 0 => n.f.refs[Root] = f.refs[Root] + 1
  BY <1>1, <1>3 DEF Takes, Drops
<1>6. /\ FsOK(m.f) /\ m.f.slips >= n.f.slips
      /\ \A j \in FileInodes : m.f.refs[j] = n.f.refs[j] + (IF j = m.ino THEN 1 ELSE 0)
      /\ m.f.slips = 0 => m.f.refs[Root] = n.f.refs[Root] - 1
      /\ m.ino = 0 \/ (m.ino \in FileInodes /\ m.f.refs[m.ino] = 1)
  BY <1>1, NewFileGives
<1>7. m.f.slips \in Nat /\ m.f \in FsType
  BY <1>6, FsTyped
<1>8. m.ino # Root
  BY <1>0, <1>3, <1>6
<1>9. m.f.slips = 0 => m.f.refs[Root] = f.refs[Root]
  BY <1>0, <1>1, <1>3, <1>5, <1>6, <1>7
<1>10. m.f.slips = 0 => f.slips = 0
  BY <1>0, <1>1, <1>6, <1>7
<1>11. Held(m.f, Root)
  BY <1>9, <1>10 DEF Held, Ready
<1>12. m.f.slips >= f.slips
  BY <1>1, <1>6
<1>13. \A j \in FileInodes : m.f.refs[j] = f.refs[j] + (IF j = m.ino THEN 1 ELSE 0)
  BY <1>4, <1>6
<1>14. m.f.slips = 0 => m.f.refs[Root] = f.refs[Root] + (IF m.ino = Root THEN 1 ELSE 0)
  BY <1>3, <1>8, <1>9
<1> QED
  BY <1>0, <1>6, <1>7, <1>11, <1>12, <1>13, <1>14 DEF Takes

\* creat and mknod, if nothing was made.
LEMMA CreateFails ==
  ASSUME NEW f, FsOK(f), NEW m, FsOK(m.f), m.ino = 0, Takes(f, m.f, m.ino), Held(m.f, Root),
         NEW g, g = Slip(IDeref(m.f, Root))
  PROVE  FsOK(g) /\ Takes(f, g, 0)
<1> DEFINE d == IDeref(m.f, Root)
<1>1. FsOK(d) /\ Drops(m.f, d, Root)
  BY RootDropped
<1>2. g = Slip(d)
  OBVIOUS
<1> HIDE DEF d
<1>3. FsButLinks(d)
  BY <1>1, FsLinks
<1>4. FsOK(g) /\ g.slips = d.slips + 1 /\ g.slips # 0 /\ g.refs = d.refs /\ d.slips \in Nat
  BY <1>2, <1>3, Slipped
<1>5. /\ f \in FsType /\ g \in FsType /\ f.slips \in Nat /\ m.f.slips \in Nat
      /\ \A j \in FileInodes : f.refs[j] \in Nat /\ j # 0 /\ j # Root
  BY <1>4, FsTyped
<1>6. \A j \in FileInodes : g.refs[j] = f.refs[j] + (IF j = 0 THEN 1 ELSE 0)
  BY <1>1, <1>4, <1>5 DEF Takes, Drops
<1>7. g.slips >= f.slips
  BY <1>1, <1>4, <1>5 DEF Takes, Drops
<1> QED
  BY <1>4, <1>5, <1>6, <1>7 DEF Takes

AsNod(f, i, nod) == WrInode([f EXCEPT !.node[i] = [@ EXCEPT !.type = nod[1], !.dev = nod[2]]], i)

LEMMA NodeMade ==
  ASSUME NEW f, FsOK(f), NEW i \in FileInodes, f.refs[i] > 0, NEW nod \in Nods,
         NEW g, g = AsNod(f, i, nod)
  PROVE  FsOK(g) /\ g.refs = f.refs /\ g.slips = f.slips
<1> DEFINE node == [f.node[i] EXCEPT !.type = nod[1], !.dev = nod[2]]
           e == [f EXCEPT !.node[i] = node]
<1>1. i \in Inodes /\ f \in FsType /\ Calm(f)
  BY FsTyped DEF FsOK
<1>2. f.node \in [Inodes -> Nodes] /\ f.node[i] \in Nodes /\ f.disk \in [Inodes -> Nodes]
      /\ f.dirty \in [Inodes -> BOOLEAN]
  BY <1>1 DEF FsType
<1>3. /\ node \in Nodes /\ node.type \notin {"none", "REG"} /\ node.nlink = f.node[i].nlink
      /\ f.node[i].type # "none"
  <2>1. nod[1] \in {"DIR", "DEV"} /\ nod[2] \in {nn[2] : nn \in Nods} /\ f.node[i].type # "none"
    BY FilesAssumption DEF FsOK, Whole
  <2> QED
    BY <1>2, <2>1 DEF Nodes, Types
<1>4. g = WrInode(e, i)
  BY DEF AsNod
<1> HIDE DEF node
<1>5. /\ e \in FsType /\ e.node = [f.node EXCEPT ![i] = node]
      /\ e.refs = f.refs /\ e.dirty = f.dirty /\ e.disk = f.disk /\ e.inode = f.inode
      /\ e.tinode = f.tinode /\ e.mounted = f.mounted /\ e.dir = f.dir
      /\ e.error = f.error /\ e.panic = f.panic /\ e.slips = f.slips
  BY <1>1, <1>3 DEF FsType
<1> HIDE DEF e
<1>6. /\ g \in FsType
      /\ g.disk = [e.disk EXCEPT ![i] = e.node[i]] /\ g.dirty = [e.dirty EXCEPT ![i] = FALSE]
      /\ g.refs = e.refs /\ g.node = e.node /\ g.inode = e.inode /\ g.tinode = e.tinode
      /\ g.mounted = e.mounted /\ g.dir = e.dir /\ g.error = e.error /\ g.panic = e.panic
      /\ g.slips = e.slips
  <2>1. e \in FsType /\ i \in Inodes
    BY <1>1, <1>5
  <2> QED
    BY <1>4, <2>1, WrInodeGives
<1>7. g.node[i] = node /\ g.disk[i] = node
  BY <1>1, <1>2, <1>5, <1>6
<1>8. Edited(f, g, i)
  BY <1>1, <1>2, <1>5, <1>6 DEF Edited
<1>9. Calm(g)
  BY <1>1, <1>3, <1>5, <1>6, <1>8, EditedCalm
<1>10. g.refs = f.refs /\ g.slips = f.slips
  BY <1>5, <1>6
<1> QED
  BY <1>3, <1>7, <1>8, <1>9, <1>10, Rewritten

LEMMA MknodGives ==
  ASSUME NEW f, FsOK(f), Ready(f), Fresh(f), NEW name \in Names, NEW nod \in Nods,
         NOpen(f, name).ino = 0, NEW m, m = NewFile(NOpen(f, name).f, name),
         NEW w, w = AsNod(m.f, m.ino, nod),
         NEW g, g = IF m.ino # 0 THEN IDeref(w, m.ino) ELSE Slip(IDeref(m.f, Root))
  PROVE  FsOK(g) /\ Takes(f, g, 0)
<1>1. /\ FsOK(m.f) /\ Takes(f, m.f, m.ino) /\ Held(m.f, Root)
      /\ m.ino = 0 \/ (m.ino \in FileInodes /\ m.f.refs[m.ino] = 1)
  BY CreateGives
<1>2. CASE m.ino = 0
  BY <1>1, <1>2, CreateFails
<1>3. CASE m.ino # 0
  <2>1. m.ino \in FileInodes /\ m.ino \in Inodes /\ m.f.refs[m.ino] = 1
    BY <1>1, <1>3, FsTyped
  <2>2. m.f.refs[m.ino] > 0 /\ FsOK(m.f)
    BY <1>1, <2>1
  <2>3. FsOK(w) /\ w.refs = m.f.refs /\ w.slips = m.f.slips
    BY <2>1, <2>2, NodeMade
  <2>4. Held(w, m.ino)
    BY <2>1, <2>2, <2>3, Constants DEF Held
  <2>5. FsOK(g) /\ Drops(w, g, m.ino)
    BY <1>3, <2>1, <2>3, <2>4, Dropping
  <2>6. Takes(f, m.f, m.ino) /\ m.f.slips \in Nat
    BY <1>1, FsTyped
  <2>7. Takes(f, w, m.ino)
    BY <1>1, <2>1, <2>3, <2>6, TakesNone
  <2> QED
    BY <2>1, <2>3, <2>5, <2>7, TakesDrops
<1> QED
  BY <1>1, <1>2, <1>3

\* The root and one file are let go, as most calls end.
DropsBoth(f, g, i) ==
  /\ FsOK(g) /\ g.slips = f.slips
  /\ \A j \in FileInodes : g.refs[j] = f.refs[j] - (IF j = i THEN 1 ELSE 0)
  /\ g.slips = 0 => g.refs[Root] = f.refs[Root] - 1

LEMMA RootThen ==
  ASSUME NEW f, FsOK(f), NEW i \in FileInodes, f.refs[i] > 0, Held(f, Root)
  PROVE  DropsBoth(f, IDeref(IDeref(f, Root), i), i)
<1> DEFINE d == IDeref(f, Root)
           g == IDeref(d, i)
<1>1. FsOK(d) /\ Drops(f, d, Root)
  BY RootDropped
<1>2. g = IDeref(d, i)
  OBVIOUS
<1> HIDE DEF d, g
<1>3. /\ i # Root /\ i \in Inodes
      /\ \A j \in FileInodes : j # Root /\ f.refs[j] \in Nat
  BY FsTyped
<1>4. /\ d.slips = f.slips
      /\ \A j \in FileInodes : d.refs[j] = f.refs[j]
      /\ d.slips = 0 => d.refs[Root] = f.refs[Root] - 1
  BY <1>1, <1>3 DEF Drops
<1>5. Held(d, i)
  BY <1>3, <1>4 DEF Held
<1>6. FsOK(g) /\ Drops(d, g, i)
  BY <1>1, <1>2, <1>3, <1>5, Dropping
<1>7. d.slips = 0 => g.refs[Root] = d.refs[Root] - 0
  BY <1>3, <1>6 DEF Drops
<1>8. d.slips = 0 => d.refs[Root] - 0 = f.refs[Root] - 1
  <2>1. f.refs[Root] \in Nat
    BY FsTyped, Constants
  <2> QED
    BY <1>4, <2>1
<1>9. DropsBoth(f, g, i)
  BY <1>3, <1>4, <1>6, <1>7, <1>8 DEF Drops, DropsBoth
<1> QED
  BY <1>9 DEF g, d

LEMMA ChmodGives ==
  ASSUME NEW f, FsOK(f), Ready(f), NEW name \in Names, NEW n, n = NOpen(f, name), n.ino # 0,
         NEW d, d = IDeref(n.f, Root), NEW g, g = IDeref(Touch(d, n.ino), n.ino)
  PROVE  FsOK(g) /\ Takes(f, g, 0)
<1>1. LookedUp(f, name, n, d)
  BY LookupGives
<1>2. FsOK(d) /\ Takes(f, d, n.ino) /\ n.ino \in FileInodes /\ n.ino \in Inodes /\ Held(d, n.ino)
  <2>1. name # NoName
    BY FilesAssumption
  <2> QED
    BY <1>1, <2>1 DEF LookedUp
<1>3. d.refs[n.ino] > 0
  BY <1>2, Constants DEF Held
<1> DEFINE t == Touch(d, n.ino)
<1>4. FsOK(t) /\ t.refs = d.refs /\ t.slips = d.slips
  BY <1>2, <1>3, TouchOK
<1>5. g = IDeref(t, n.ino)
  OBVIOUS
<1> HIDE DEF t
<1>6. Held(t, n.ino) /\ t.slips >= d.slips /\ d.slips \in Nat
  <2>1. d.slips \in Nat
    BY <1>2, FsTyped
  <2> QED
    BY <1>2, <1>4, <2>1 DEF Held
<1>7. FsOK(g) /\ Drops(t, g, n.ino)
  BY <1>2, <1>4, <1>5, <1>6, Dropping
<1>8. n.ino \in Inodes \cup {0}
  BY <1>2
<1>9. Takes(f, t, n.ino)
  BY <1>2, <1>4, <1>6, <1>8, TakesNone
<1> QED
  BY <1>4, <1>7, <1>8, <1>9, TakesDrops

\* link counts one more before it lets go.
LEMMA LinkedGives ==
  ASSUME NEW f, FsButLinks(f), NEW i \in FileInodes, f.refs[i] > 0, NEW g, g = Linked(f, i)
  PROVE  /\ FsButLinks(g) /\ g.refs = f.refs /\ g.slips = f.slips /\ g.dir = f.dir
         /\ \A j \in FileInodes : /\ g.node[j].nlink = f.node[j].nlink + (IF j = i THEN 1 ELSE 0)
                                  /\ f.node[j].nlink \in Nat
<1> DEFINE node == [f.node[i] EXCEPT !.nlink = @ + 1]
           e == [f EXCEPT !.node[i] = node]
           w == WrInode(e, i)
<1>1. f \in FsType /\ i \in Inodes /\ i # Root /\ FsOpen(f, i) /\ f.node[i].type # "none"
  BY Constants, OpenInodes DEF FsButLinks, Sized
<1>2. f.node \in [Inodes -> Nodes] /\ f.node[i] \in Nodes /\ f.disk \in [Inodes -> Nodes]
      /\ f.dirty \in [Inodes -> BOOLEAN]
  BY <1>1 DEF FsType
<1>3. /\ node \in Nodes /\ node.type # "none" /\ node.nlink = f.node[i].nlink + 1
      /\ node.type = "REG" => node.dev = 0
  BY <1>1, <1>2 DEF Nodes, Types, FsButLinks, Whole
<1>4. e = [f EXCEPT !.node[i].nlink = @ + 1]
  OBVIOUS
<1>5. g = Touch(w, i)
  BY <1>4 DEF Linked
<1> HIDE DEF node
<1>6. /\ e \in FsType /\ e.node = [f.node EXCEPT ![i] = node]
      /\ e.refs = f.refs /\ e.dirty = f.dirty /\ e.disk = f.disk /\ e.inode = f.inode
      /\ e.tinode = f.tinode /\ e.mounted = f.mounted /\ e.dir = f.dir
      /\ e.error = f.error /\ e.panic = f.panic /\ e.slips = f.slips
  BY <1>1, <1>3 DEF FsType
<1> HIDE DEF e
<1>7. /\ w \in FsType
      /\ w.disk = [e.disk EXCEPT ![i] = e.node[i]] /\ w.dirty = [e.dirty EXCEPT ![i] = FALSE]
      /\ w.refs = e.refs /\ w.node = e.node /\ w.inode = e.inode /\ w.tinode = e.tinode
      /\ w.mounted = e.mounted /\ w.dir = e.dir /\ w.error = e.error /\ w.panic = e.panic
      /\ w.slips = e.slips
  <2>1. e \in FsType /\ i \in Inodes
    BY <1>1, <1>6
  <2> QED
    BY <2>1, WrInodeGives
<1> HIDE DEF w
<1>8. /\ g \in FsType /\ g.dirty = [w.dirty EXCEPT ![i] = TRUE] /\ g.disk = w.disk
      /\ g.refs = w.refs /\ g.node = w.node /\ g.inode = w.inode /\ g.tinode = w.tinode
      /\ g.mounted = w.mounted /\ g.dir = w.dir /\ g.error = w.error /\ g.panic = w.panic
      /\ g.slips = w.slips
  <2>1. w \in FsType
    BY <1>7
  <2> QED
    BY <1>5, <2>1, TouchGives
<1>9. g.node[i] = node /\ g.dirty[i]
  BY <1>1, <1>2, <1>6, <1>7, <1>8
<1>10. Edited(f, g, i)
  BY <1>1, <1>2, <1>6, <1>7, <1>8 DEF Edited
<1>11. Calm(g)
  BY <1>1, <1>6, <1>7, <1>8, <1>10, EditedCalm DEF FsOpen
<1>12. g.refs = f.refs /\ g.slips = f.slips /\ g.dir = f.dir
  BY <1>6, <1>7, <1>8
<1>13. FsButLinks(g)
  BY <1>1, <1>3, <1>9, <1>10, <1>11, <1>12, EditedOK
<1>14. \A j \in FileInodes : f.node[j].nlink \in Nat
  BY <1>2, Constants DEF Nodes
<1>15. \A j \in FileInodes : j # i => g.node[j] = f.node[j]
  BY <1>10, Constants DEF Edited
<1>16. \A j \in FileInodes : g.node[j].nlink = f.node[j].nlink + (IF j = i THEN 1 ELSE 0)
  BY <1>3, <1>9, <1>14, <1>15
<1> QED
  BY <1>12, <1>13, <1>14, <1>16

\* unlink counts one less.
LEMMA UnlinkedGives ==
  ASSUME NEW f, FsButLinks(f), NEW i \in FileInodes, f.refs[i] > 0, f.node[i].nlink # 0,
         NEW g, g = Unlinked(f, i)
  PROVE  /\ FsButLinks(g) /\ g.refs = f.refs /\ g.slips = f.slips /\ g.dir = f.dir
         /\ \A j \in FileInodes : /\ g.node[j].nlink = f.node[j].nlink - (IF j = i THEN 1 ELSE 0)
                                  /\ f.node[j].nlink \in Nat
<1> DEFINE node == [f.node[i] EXCEPT !.nlink = IF @ = 0 THEN 1 ELSE @ - 1]
           e == [f EXCEPT !.node[i] = node]
<1>1. f \in FsType /\ i \in Inodes /\ i # Root /\ FsOpen(f, i) /\ f.node[i].type # "none"
  BY Constants, OpenInodes DEF FsButLinks, Sized
<1>2. f.node \in [Inodes -> Nodes] /\ f.node[i] \in Nodes /\ f.disk \in [Inodes -> Nodes]
      /\ f.dirty \in [Inodes -> BOOLEAN]
  BY <1>1 DEF FsType
<1>3. /\ node \in Nodes /\ node.type # "none" /\ node.nlink = f.node[i].nlink - 1
      /\ node.type = "REG" => node.dev = 0
  <2>1. f.node[i].nlink - 1 \in Nat
    BY <1>2 DEF Nodes
  <2>2. node = [f.node[i] EXCEPT !.nlink = f.node[i].nlink - 1]
    OBVIOUS
  <2> QED
    BY <1>1, <1>2, <2>1, <2>2 DEF Nodes, Types, FsButLinks, Whole
<1>4. e = [f EXCEPT !.node[i].nlink = IF @ = 0 THEN 1 ELSE @ - 1]
  OBVIOUS
<1>5. g = Touch(e, i)
  BY <1>4 DEF Unlinked
<1> HIDE DEF node
<1>6. /\ e \in FsType /\ e.node = [f.node EXCEPT ![i] = node]
      /\ e.refs = f.refs /\ e.dirty = f.dirty /\ e.disk = f.disk /\ e.inode = f.inode
      /\ e.tinode = f.tinode /\ e.mounted = f.mounted /\ e.dir = f.dir
      /\ e.error = f.error /\ e.panic = f.panic /\ e.slips = f.slips
  BY <1>1, <1>3 DEF FsType
<1> HIDE DEF e
<1>8. /\ g \in FsType /\ g.dirty = [e.dirty EXCEPT ![i] = TRUE] /\ g.disk = e.disk
      /\ g.refs = e.refs /\ g.node = e.node /\ g.inode = e.inode /\ g.tinode = e.tinode
      /\ g.mounted = e.mounted /\ g.dir = e.dir /\ g.error = e.error /\ g.panic = e.panic
      /\ g.slips = e.slips
  <2>1. e \in FsType
    BY <1>6
  <2> QED
    BY <1>5, <2>1, TouchGives
<1>9. g.node[i] = node /\ g.dirty[i]
  BY <1>1, <1>2, <1>6, <1>8
<1>10. Edited(f, g, i)
  BY <1>1, <1>2, <1>6, <1>8 DEF Edited
<1>11. Calm(g)
  BY <1>1, <1>6, <1>8, <1>10, EditedCalm DEF FsOpen
<1>12. g.refs = f.refs /\ g.slips = f.slips /\ g.dir = f.dir
  BY <1>6, <1>8
<1>13. FsButLinks(g)
  BY <1>1, <1>3, <1>9, <1>10, <1>11, <1>12, EditedOK
<1>14. \A j \in FileInodes : f.node[j].nlink \in Nat
  BY <1>2, Constants DEF Nodes
<1>15. \A j \in FileInodes : j # i => g.node[j] = f.node[j]
  BY <1>10, Constants DEF Edited
<1>16. \A j \in FileInodes : g.node[j].nlink = f.node[j].nlink - (IF j = i THEN 1 ELSE 0)
  BY <1>3, <1>9, <1>14, <1>15
<1> QED
  BY <1>12, <1>13, <1>14, <1>16

\* h is f with a file and the root found, c.f is h with or without a new entry for the file.
Entering(f, h, i, c) ==
  /\ FsOK(f) /\ FsOK(h) /\ i \in FileInodes /\ h.refs[i] > 0 /\ Held(h, Root) /\ h.slips = f.slips
  /\ \A j \in FileInodes : h.refs[j] = f.refs[j] + (IF j = i THEN 1 ELSE 0)
  /\ h.slips = 0 => h.refs[Root] = f.refs[Root] + 1
  /\ FsButLinks(c.f) /\ Relinked(h, c.f) /\ (c.ok => Added(h, c.f, i))

LEMMA EnteringGives ==
  ASSUME NEW f, NEW h, NEW i, NEW c, Entering(f, h, i, c)
  PROVE  /\ f \in FsType /\ f.slips \in Nat /\ i \in FileInodes /\ i \in Inodes /\ i # Root
         /\ \A j \in FileInodes : f.refs[j] \in Nat
         /\ f.refs[Root] \in Nat
         /\ c.f.refs = h.refs /\ c.f.slips = f.slips /\ c.f.node = h.node
         /\ c.f.refs[i] > 0 /\ Held(c.f, Root)
<1>1. FsOK(f) /\ i \in FileInodes
  BY DEF Entering
<1>2. /\ f \in FsType /\ f.slips \in Nat /\ i \in Inodes /\ i # Root
      /\ \A j \in FileInodes : f.refs[j] \in Nat
      /\ f.refs[Root] \in Nat
  BY <1>1, FsTyped, Constants
<1>3. c.f.refs = h.refs /\ c.f.slips = h.slips /\ c.f.node = h.node /\ h.slips = f.slips
  BY DEF Entering, Relinked
<1>4. c.f.refs[i] > 0 /\ Held(c.f, Root)
  BY <1>3 DEF Entering, Held
<1> QED
  BY <1>1, <1>2, <1>3, <1>4

LEMMA LinkMade ==
  ASSUME NEW f, NEW h, NEW i, NEW c, Entering(f, h, i, c), c.ok,
         NEW g, g = IDeref(IDeref(Linked(c.f, i), Root), i)
  PROVE  FsOK(g) /\ Takes(f, g, 0)
<1> DEFINE l == Linked(c.f, i)
<1>1. /\ f \in FsType /\ f.slips \in Nat /\ i \in FileInodes
      /\ \A j \in FileInodes : f.refs[j] \in Nat
      /\ f.refs[Root] \in Nat
      /\ c.f.refs = h.refs /\ c.f.slips = f.slips /\ c.f.node = h.node
      /\ c.f.refs[i] > 0 /\ Held(c.f, Root)
  BY EnteringGives
<1>2. FsButLinks(c.f) /\ FsOK(f) /\ FsOK(h) /\ Added(h, c.f, i)
  BY DEF Entering
<1>3. /\ FsButLinks(l) /\ l.refs = c.f.refs /\ l.slips = c.f.slips /\ l.dir = c.f.dir
      /\ \A j \in FileInodes : /\ l.node[j].nlink = c.f.node[j].nlink + (IF j = i THEN 1 ELSE 0)
                               /\ c.f.node[j].nlink \in Nat
  BY <1>1, <1>2, LinkedGives
<1>4. g = IDeref(IDeref(l, Root), i)
  OBVIOUS
<1> HIDE DEF l
<1>5. LinksCounted(l)
  <2>1. SUFFICES ASSUME l.slips = 0, NEW j \in FileInodes
                 PROVE  l.node[j].nlink = EntriesOf(l.dir, j)
    BY DEF LinksCounted
  <2>2. h.slips = 0 /\ h.node[j].nlink = EntriesOf(h.dir, j)
    <3>1. h.slips = f.slips
      BY DEF Entering
    <3> QED
      BY <1>1, <1>2, <1>3, <2>1, <3>1 DEF FsOK, LinksCounted
  <2>3. EntriesOf(c.f.dir, j) = EntriesOf(h.dir, j) + (IF i = j THEN 1 ELSE 0)
    BY <1>2 DEF Added
  <2>4. l.node[j].nlink = h.node[j].nlink + (IF j = i THEN 1 ELSE 0)
    BY <1>1, <1>3
  <2> QED
    BY <1>3, <2>2, <2>3, <2>4
<1>6. FsOK(l)
  BY <1>3, <1>5, FsLinks
<1>7. Held(l, Root) /\ l.refs[i] > 0
  BY <1>1, <1>3 DEF Held
<1>8. DropsBoth(l, g, i)
  <2>1. DropsBoth(l, IDeref(IDeref(l, Root), i), i)
    BY <1>1, <1>6, <1>7, RootThen
  <2> QED
    BY <1>4, <2>1
<1>9. FsOK(g) /\ g.slips = f.slips
  BY <1>1, <1>3, <1>8 DEF DropsBoth
<1>10. ASSUME NEW j \in FileInodes PROVE g.refs[j] = f.refs[j]
  <2>1. l.refs[j] = f.refs[j] + (IF j = i THEN 1 ELSE 0) /\ f.refs[j] \in Nat
    BY <1>1, <1>3 DEF Entering
  <2>2. g.refs[j] = l.refs[j] - (IF j = i THEN 1 ELSE 0)
    BY <1>8 DEF DropsBoth
  <2> QED
    BY <2>1, <2>2
<1>11. ASSUME g.slips = 0 PROVE g.refs[Root] = f.refs[Root]
  <2>1. l.refs[Root] = f.refs[Root] + 1
    BY <1>1, <1>3, <1>9, <1>11 DEF Entering
  <2>2. g.refs[Root] = l.refs[Root] - 1
    BY <1>8, <1>11 DEF DropsBoth
  <2> QED
    BY <1>1, <2>1, <2>2
<1>12. g.slips >= f.slips
  BY <1>1, <1>9
<1> QED
  BY <1>2, <1>9, <1>10, <1>11, <1>12, TakesNothing

LEMMA LinkNotMade ==
  ASSUME NEW f, NEW h, NEW i, NEW c, Entering(f, h, i, c), NEW g, g = IDeref(Slip(c.f), i)
  PROVE  FsOK(g) /\ Takes(f, g, 0)
<1> DEFINE r == Slip(c.f)
<1>1. /\ f \in FsType /\ f.slips \in Nat /\ i \in FileInodes /\ i \in Inodes /\ i # Root
      /\ \A j \in FileInodes : f.refs[j] \in Nat
      /\ c.f.refs = h.refs /\ c.f.slips = f.slips /\ c.f.refs[i] > 0
  BY EnteringGives
<1>2. FsButLinks(c.f) /\ FsOK(f)
  BY DEF Entering
<1>3. FsOK(r) /\ r.slips = f.slips + 1 /\ r.slips # 0 /\ r.refs = h.refs
  BY <1>1, <1>2, Slipped
<1>4. g = IDeref(r, i)
  OBVIOUS
<1> HIDE DEF r
<1>5. Held(r, i)
  BY <1>1, <1>3 DEF Held
<1>6. FsOK(g) /\ Drops(r, g, i)
  BY <1>1, <1>3, <1>4, <1>5, Dropping
<1>7. ASSUME NEW j \in FileInodes PROVE g.refs[j] = f.refs[j]
  <2>1. r.refs[j] = f.refs[j] + (IF j = i THEN 1 ELSE 0) /\ f.refs[j] \in Nat
    BY <1>1, <1>3 DEF Entering
  <2>2. g.refs[j] = r.refs[j] - (IF j = i THEN 1 ELSE 0)
    BY <1>6 DEF Drops
  <2> QED
    BY <2>1, <2>2
<1>8. g.slips = r.slips
  BY <1>6 DEF Drops
<1>9. g.slips >= f.slips /\ g.slips # 0
  BY <1>1, <1>3, <1>8
<1> QED
  BY <1>2, <1>6, <1>7, <1>9, TakesNothing

\* link: the new name is made, or the call slips.
LEMMA LinkGives ==
  ASSUME NEW f, FsOK(f), Ready(f), NEW name1 \in Names, NEW name2 \in Names,
         NEW n1, n1 = NOpen(f, name1), n1.ino # 0,
         NEW d, d = IDeref(n1.f, Root), NEW n2, n2 = NOpen(d, name2), n2.ino = 0,
         NEW c, c = ChLink(n2.f, NoName, name2, n1.ino),
         NEW r, r = IF c.ok THEN IDeref(Linked(c.f, n1.ino), Root) ELSE Slip(c.f),
         NEW g, g = IDeref(r, n1.ino)
  PROVE  FsOK(g) /\ Takes(f, g, 0)
<1> DEFINE i == n1.ino
<1>0. /\ f \in FsType /\ f.slips \in Nat /\ f.refs \in [Inodes -> Nat]
      /\ \A j \in FileInodes : j \in Inodes /\ j # Root /\ j # 0 /\ f.refs[j] \in Nat
      /\ f.refs[Root] \in Nat /\ Root # 0 /\ name1 # NoName /\ name2 # NoName
  BY FsTyped, Constants, FilesAssumption
<1>1. /\ FsOK(d) /\ Takes(f, d, i) /\ d.slips = f.slips /\ d.error = FALSE
      /\ i \in FileInodes /\ i \in Inodes
  <2>1. LookedUp(f, name1, n1, d)
    BY LookupGives
  <2> QED
    BY <1>0, <2>1 DEF LookedUp
<1> HIDE DEF i
<1>2. /\ \A j \in FileInodes : d.refs[j] = f.refs[j] + (IF j = i THEN 1 ELSE 0)
      /\ d.slips = 0 => d.refs[Root] = f.refs[Root]
  BY <1>0, <1>1 DEF Takes
<1>3. Ready(d)
  BY <1>1, <1>2 DEF Ready
<1> DEFINE e == IDeref(n2.f, Root)
<1>4. /\ FsOK(n2.f) /\ n2.f.slips = d.slips /\ Held(n2.f, Root) /\ n2.f.node = d.node
      /\ n2.f.dir = d.dir
      /\ Takes(d, e, 0) /\ Drops(n2.f, e, Root) /\ e.slips = d.slips
  <2>1. LookedUp(d, name2, n2, e)
    BY <1>1, <1>3, LookupGives
  <2> HIDE DEF e
  <2> QED
    BY <2>1 DEF LookedUp, Searched, Alike
<1> HIDE DEF e
<1>5. /\ n2.f.refs \in [Inodes -> Nat] /\ n2.f.slips \in Nat
      /\ \A j \in FileInodes : n2.f.refs[j] \in Nat /\ d.refs[j] \in Nat
      /\ n2.f.refs[Root] \in Nat /\ d.refs[Root] \in Nat
  BY <1>1, <1>4, FsTyped, Constants
<1>6. /\ \A j \in FileInodes : n2.f.refs[j] = d.refs[j]
      /\ d.slips = 0 => n2.f.refs[Root] = d.refs[Root] + 1
  BY <1>0, <1>4, <1>5 DEF Takes, Drops
<1>7. n2.f.refs[i] > 0
  BY <1>0, <1>1, <1>2, <1>6
<1>8. /\ Sized(c.f) /\ DirSound(c.f) /\ Relinked(n2.f, c.f)
      /\ c.ok => Added(n2.f, c.f, i)
  <2>1. Sized(n2.f) /\ DirSound(n2.f)
    BY <1>4 DEF FsOK
  <2>2. /\ i # 0 /\ i \in FileInodes \cup {0} /\ name2 \in Names \cup {NoName}
        /\ NoName \in Names \cup {NoName} /\ (name2 = NoName <=> i = 0)
    BY <1>0, <1>1
  <2>3. c = ChLink(n2.f, NoName, name2, i)
    BY DEF i
  <2>4. ChLinked(n2.f, NoName, i, c)
    BY <2>1, <2>2, <2>3, ChLinkGives
  <2> QED
    BY <2>4 DEF ChLinked
<1>9. FsButLinks(c.f)
  BY <1>4, <1>8, FsLinks, RelinkedKeeps, SMTT(30)
<1>10. Entering(f, n2.f, i, c)
  <2>1. n2.f.slips = f.slips /\ FsOK(f)
    BY <1>1, <1>4
  <2>2. ASSUME NEW j \in FileInodes
        PROVE  n2.f.refs[j] = f.refs[j] + (IF j = i THEN 1 ELSE 0)
    BY <1>2, <1>6
  <2>3. n2.f.slips = 0 => n2.f.refs[Root] = f.refs[Root] + 1
    BY <1>2, <1>4, <1>6
  <2> QED
    BY <1>1, <1>4, <1>7, <1>8, <1>9, <2>1, <2>2, <2>3 DEF Entering
<1>11. CASE c.ok
  <2>1. g = IDeref(IDeref(Linked(c.f, i), Root), i)
    BY <1>11 DEF i
  <2> QED
    BY <1>10, <1>11, <2>1, LinkMade
<1>12. CASE ~c.ok
  <2>1. g = IDeref(Slip(c.f), i)
    BY <1>12 DEF i
  <2> QED
    BY <1>10, <2>1, LinkNotMade
<1> QED
  BY <1>11, <1>12

\* unlink: the name goes, or the call slips.
LEMMA UnlinkGives ==
  ASSUME NEW f, FsOK(f), Ready(f), NEW name \in Names, NEW n, n = NOpen(f, name),
         NEW c, c = ChLink(n.f, name, NoName, 0),
         NEW r, r = IF c.ok THEN Unlinked(c.f, n.ino) ELSE c.f,
         NEW g, g = IF n.ino = 0 THEN Slip(n.f) ELSE IDeref(IDeref(r, Root), n.ino)
  PROVE  FsOK(g) /\ Takes(f, g, 0)
<1> DEFINE d == IDeref(n.f, Root)
<1>0. /\ f \in FsType /\ f.slips \in Nat /\ f.refs \in [Inodes -> Nat]
      /\ \A j \in FileInodes : j \in Inodes /\ j # Root /\ j # 0 /\ f.refs[j] \in Nat
      /\ f.refs[Root] \in Nat /\ Root # 0 /\ name # NoName
  BY FsTyped, Constants, FilesAssumption
<1>1. LookedUp(f, name, n, d)
  BY LookupGives
<1> HIDE DEF d
<1>2. /\ FsOK(n.f) /\ n.f.slips = f.slips /\ Held(n.f, Root) /\ n.f.node = f.node
      /\ n.f.dir = f.dir /\ FsButLinks(n.f) /\ LinksCounted(n.f)
      /\ Takes(f, d, n.ino) /\ Drops(n.f, d, Root) /\ d.slips = f.slips
  BY <1>1, FsLinks DEF LookedUp, Searched, Alike
<1>3. /\ n.f.slips \in Nat
      /\ \A j \in FileInodes : n.f.refs[j] \in Nat
      /\ n.f.refs[Root] \in Nat
  BY <1>2, FsTyped, Constants
<1>4. /\ \A j \in FileInodes : n.f.refs[j] = f.refs[j] + (IF j = n.ino THEN 1 ELSE 0)
      /\ n.ino # Root /\ f.slips = 0 => n.f.refs[Root] = f.refs[Root] + 1
  BY <1>0, <1>2, <1>3, SMTT(30) DEF Takes, Drops
<1>5. CASE n.ino = 0
  <2>1. FsOK(g) /\ g.slips = n.f.slips + 1 /\ g.slips # 0 /\ g.refs = n.f.refs /\ g \in FsType
    BY <1>2, <1>5, Slipped, FsTyped
  <2>2. \A j \in FileInodes : g.refs[j] = f.refs[j] + (IF j = 0 THEN 1 ELSE 0)
    BY <1>4, <1>5, <2>1
  <2>3. g.slips >= f.slips
    BY <1>2, <1>3, <2>1
  <2> QED
    BY <1>0, <2>1, <2>2, <2>3 DEF Takes
<1>6. CASE n.ino # 0
  <2> DEFINE i == n.ino
             k == Least(Slots(f, name))
  <2>1. /\ i \in FileInodes /\ i \in Inodes /\ d.error = FALSE /\ d.error = n.f.error
        /\ f.node[i].type # "none" /\ f.node[i].nlink # 0
        /\ Slots(f, name) # {} /\ i = f.dir[k].ino
    BY <1>0, <1>1, <1>6 DEF LookedUp
  <2>2. /\ Sized(c.f) /\ DirSound(c.f) /\ Relinked(n.f, c.f)
        /\ Slots(n.f, name) # {} => /\ Replaced(n.f, c.f, Least(Slots(n.f, name)), 0)
                                    /\ c.ok = ~n.f.error
    <3>1. Sized(n.f) /\ DirSound(n.f)
      BY <1>2 DEF FsOK
    <3>2. /\ 0 \in FileInodes \cup {0} /\ name \in Names \cup {NoName}
          /\ NoName \in Names \cup {NoName}
      OBVIOUS
    <3>3. ChLinked(n.f, name, 0, c)
      BY <3>1, <3>2, ChLinkGives
    <3> QED
      BY <3>3 DEF ChLinked
  <2>3. Slots(n.f, name) = Slots(f, name)
    BY <1>2 DEF Slots
  <2>4. Replaced(n.f, c.f, k, 0) /\ c.ok
    BY <2>1, <2>2, <2>3
  <2> HIDE DEF i, k
  <2>5. r = Unlinked(c.f, i) /\ g = IDeref(IDeref(r, Root), i)
    BY <1>6, <2>4 DEF i
  <2>6. FsButLinks(c.f)
    BY <1>2, <2>2, RelinkedKeeps
  <2>7. c.f.refs = n.f.refs /\ c.f.slips = n.f.slips /\ c.f.node = n.f.node
    BY <2>2 DEF Relinked
  <2>8. n.f.refs[i] > 0
    BY <1>0, <1>4, <2>1 DEF i
  <2>9. /\ FsButLinks(r) /\ r.refs = c.f.refs /\ r.slips = c.f.slips /\ r.dir = c.f.dir
        /\ \A j \in FileInodes : /\ r.node[j].nlink = c.f.node[j].nlink - (IF j = i THEN 1 ELSE 0)
                                 /\ c.f.node[j].nlink \in Nat
    <3>1. c.f.refs[i] > 0 /\ c.f.node[i].nlink # 0
      BY <1>2, <2>1, <2>7, <2>8
    <3>2. r = Unlinked(c.f, i) /\ i \in FileInodes
      BY <2>1, <2>5
    <3> QED
      BY <2>6, <3>1, <3>2, UnlinkedGives
  <2>10. LinksCounted(r)
    <3>1. SUFFICES ASSUME r.slips = 0, NEW j \in FileInodes
                   PROVE  r.node[j].nlink = EntriesOf(r.dir, j)
      BY DEF LinksCounted
    <3>2. n.f.node[j].nlink = EntriesOf(n.f.dir, j)
      BY <1>2, <2>7, <2>9, <3>1 DEF LinksCounted
    <3>3. EntriesOf(c.f.dir, j) = EntriesOf(n.f.dir, j) - (IF n.f.dir[k].ino = j THEN 1 ELSE 0)
                                  + (IF 0 = j THEN 1 ELSE 0)
      BY <2>4 DEF Replaced
    <3>4. r.node[j].nlink = n.f.node[j].nlink - (IF j = i THEN 1 ELSE 0)
      BY <2>7, <2>9
    <3>5. n.f.dir[k].ino = i /\ j # 0
      BY <1>0, <1>2, <2>1
    <3> QED
      BY <2>7, <2>9, <3>2, <3>3, <3>4, <3>5
  <2>11. FsOK(r)
    BY <2>9, <2>10, FsLinks
  <2>12. Held(r, Root) /\ r.refs[i] > 0
    BY <1>2, <2>7, <2>8, <2>9, SMTT(30) DEF Held
  <2>13. /\ FsOK(g) /\ g.slips = r.slips
         /\ \A j \in FileInodes : g.refs[j] = r.refs[j] - (IF j = i THEN 1 ELSE 0)
         /\ g.slips = 0 => g.refs[Root] = r.refs[Root] - 1
    <3>1. DropsBoth(r, IDeref(IDeref(r, Root), i), i)
      BY <2>1, <2>5, <2>11, <2>12, RootThen, SMTT(30)
    <3> QED
      BY <2>1, <2>5, <3>1 DEF DropsBoth
  <2>14. g \in FsType /\ g.slips = f.slips
    BY <1>2, <2>7, <2>9, <2>13, FsTyped
  <2>15. ASSUME NEW j \in FileInodes PROVE g.refs[j] = f.refs[j]
    <3>1. r.refs[j] = n.f.refs[j] /\ f.refs[j] \in Nat
      BY <1>0, <2>7, <2>9
    <3>2. n.f.refs[j] = f.refs[j] + (IF j = i THEN 1 ELSE 0)
      BY <1>4 DEF i
    <3>3. g.refs[j] = r.refs[j] - (IF j = i THEN 1 ELSE 0)
      BY <2>13
    <3> QED
      BY <3>1, <3>2, <3>3
  <2>16. i # Root
    BY <1>0, <2>1
  <2>17. ASSUME g.slips = 0 PROVE g.refs[Root] = f.refs[Root]
    <3>1. r.refs[Root] = n.f.refs[Root] /\ f.slips = 0
      BY <2>7, <2>9, <2>14, <2>17
    <3>2. n.f.refs[Root] = f.refs[Root] + 1
      BY <1>4, <2>16, <3>1 DEF i
    <3>3. g.refs[Root] = r.refs[Root] - 1
      BY <2>13, <2>17
    <3> QED
      BY <1>0, <3>1, <3>2, <3>3
  <2>18. g.slips >= f.slips
    BY <1>0, <2>14
  <2> QED
    BY <2>13, <2>15, <2>17, <2>18, TakesNothing
<1> QED
  BY <1>5, <1>6

LEMMA CreatNewGives ==
  ASSUME NEW f, FsOK(f), Ready(f), Fresh(f), NEW name \in Names, NOpen(f, name).ino = 0,
         NEW m, m = NewFile(NOpen(f, name).f, name),
         NEW g, g = IF m.ino # 0 THEN WrInode(m.f, m.ino) ELSE Slip(IDeref(m.f, Root))
  PROVE  FsOK(g) /\ Takes(f, g, m.ino) /\ (m.ino = 0 \/ m.ino \in FileInodes)
<1>1. /\ FsOK(m.f) /\ Takes(f, m.f, m.ino) /\ Held(m.f, Root)
      /\ m.ino = 0 \/ (m.ino \in FileInodes /\ m.f.refs[m.ino] = 1)
  BY CreateGives
<1>2. CASE m.ino = 0
  BY <1>1, <1>2, CreateFails
<1>3. CASE m.ino # 0
  <2>1. m.ino \in FileInodes /\ m.f.refs[m.ino] > 0 /\ m.ino \in Inodes \cup {0}
    BY <1>1, <1>3, FsTyped
  <2>2. FsOK(g) /\ g.refs = m.f.refs /\ g.slips = m.f.slips
    BY <1>1, <1>3, <2>1, WrInodeOK
  <2>3. g.slips >= m.f.slips
    BY <1>1, <2>2, FsTyped
  <2> QED
    BY <1>1, <2>1, <2>2, <2>3, TakesNone
<1> QED
  BY <1>1, <1>2, <1>3

LEMMA CreatOldGives ==
  ASSUME NEW f, FsOK(f), Ready(f), NEW name \in Names, NEW n, n = NOpen(f, name), n.ino # 0,
         NEW d, d = IDeref(n.f, Root),
         NEW g, g = IF d.node[n.ino].type = "REG" THEN FTrunc(d, n.ino) ELSE d
  PROVE  FsOK(g) /\ Takes(f, g, n.ino) /\ n.ino \in FileInodes
<1>1. LookedUp(f, name, n, d)
  BY LookupGives
<1>2. FsOK(d) /\ Takes(f, d, n.ino) /\ n.ino \in FileInodes /\ n.ino \in Inodes /\ Held(d, n.ino)
  <2>1. name # NoName
    BY FilesAssumption
  <2> QED
    BY <1>1, <2>1 DEF LookedUp
<1>3. d.refs[n.ino] > 0 /\ d.slips \in Nat /\ n.ino \in Inodes \cup {0}
  BY <1>2, Constants, FsTyped DEF Held
<1>4. CASE d.node[n.ino].type # "REG"
  BY <1>2, <1>4
<1>5. CASE d.node[n.ino].type = "REG"
  <2>1. FsOK(g) /\ g.refs = d.refs /\ g.slips = d.slips
    BY <1>2, <1>3, <1>5, FTruncOK
  <2>2. g.slips >= d.slips
    BY <1>3, <2>1
  <2> QED
    BY <1>2, <1>3, <2>1, <2>2, TakesNone
<1> QED
  BY <1>4, <1>5

\* The inode of a pipe is taken for both ends.
AsPipe(f, i) == [BothEnds(f, i) EXCEPT !.node[i] = [@ EXCEPT !.type = "PIPE", !.nlink = 0]]
TakesTwo(f, g, i) ==
  /\ g.slips >= f.slips
  /\ \A j \in FileInodes : g.refs[j] = f.refs[j] + (IF j = i THEN 2 ELSE 0)
  /\ g.slips = 0 => g.refs[Root] = f.refs[Root]

LEMMA PipeMade ==
  ASSUME NEW f, NEW i \in FileInodes, Made(f, i), Fresh(f), NEW g, g = AsPipe(f, i)
  PROVE  FsOK(g) /\ g.slips = f.slips /\ g.refs = [f.refs EXCEPT ![i] = 2]
<1> DEFINE node == [f.node[i] EXCEPT !.type = "PIPE", !.nlink = 0]
           refs == [f.refs EXCEPT ![i] = @ + 1]
<1>1. f \in FsType /\ i \in Inodes /\ f.refs[i] = 1 /\ FsOpen(f, i) /\ LinksCounted(f)
      /\ f.node[i].nlink = 0
  BY Constants, OpenInodes DEF Made, Sized
<1>2. f.node \in [Inodes -> Nodes] /\ f.node[i] \in Nodes /\ f.refs \in [Inodes -> Nat]
  BY <1>1 DEF FsType
<1>3. node \in Nodes /\ node.type = "PIPE" /\ node.nlink = 0
  BY <1>2 DEF Nodes, Types
<1>4. refs \in [Inodes -> Nat] /\ refs = [f.refs EXCEPT ![i] = 2] /\ refs[i] = 2
  BY <1>1, <1>2
<1>5. g = [f EXCEPT !.refs = refs, !.node[i] = node]
  <2>1. BothEnds(f, i) = [f EXCEPT !.refs = refs]
    BY <1>1 DEF BothEnds, FsType
  <2>2. [f EXCEPT !.refs = refs].node = f.node
    BY <1>1 DEF FsType
  <2> QED
    BY <1>1, <2>1, <2>2 DEF AsPipe, FsType
<1> HIDE DEF node, refs
<1>6. /\ g \in FsType /\ g.node = [f.node EXCEPT ![i] = node] /\ g.refs = refs
      /\ g.dirty = f.dirty /\ g.disk = f.disk /\ g.inode = f.inode
      /\ g.tinode = f.tinode /\ g.mounted = f.mounted /\ g.dir = f.dir
      /\ g.panic = f.panic /\ g.slips = f.slips
  <2> DEFINE nodes == [f.node EXCEPT ![i] = node]
  <2>1. nodes \in [Inodes -> Nodes]
    BY <1>2, <1>3
  <2>2. g = [f EXCEPT !.refs = refs, !.node = nodes]
    BY <1>1, <1>5 DEF FsType
  <2>3. nodes = [f.node EXCEPT ![i] = node]
    OBVIOUS
  <2> HIDE DEF nodes
  <2> QED
    BY <1>1, <1>4, <2>1, <2>2, <2>3 DEF FsType
<1>7. g.node[i] = node
  BY <1>1, <1>2, <1>6
<1>8. Edited(f, g, i)
  BY <1>1, <1>2, <1>4, <1>6 DEF Edited
<1>9. Calm(g)
  BY <1>6 DEF Fresh, Calm
<1>10. g.refs[i] > 0 /\ g.node[i].type \notin {"none", "REG"} /\ g.node[i].nlink = 0
  BY <1>3, <1>4, <1>6, <1>7
<1>11. FsButLinks(g)
  BY <1>1, <1>8, <1>9, <1>10, EditedOK
<1>12. \A j \in FileInodes : g.node[j].nlink = f.node[j].nlink
  BY <1>1, <1>8, <1>10, Constants DEF Edited
<1>13. LinksCounted(g)
  BY <1>1, <1>6, <1>12, LinksSame, ZenonT(30)
<1> QED
  BY <1>4, <1>6, <1>11, <1>13, FsLinks

LEMMA PipeGives ==
  ASSUME NEW f, FsOK(f), Fresh(f), NEW o, o = IOpenNew(f)
  PROVE  /\ o.ino = 0 => FsOK(o.f) /\ Takes(f, o.f, 0)
         /\ o.ino # 0 => /\ o.ino \in FileInodes /\ FsOK(AsPipe(o.f, o.ino))
                         /\ TakesTwo(f, AsPipe(o.f, o.ino), o.ino)
<1>0. /\ f.refs \in [Inodes -> Nat] /\ f.slips \in Nat
      /\ \A j \in FileInodes : j \in Inodes /\ j # Root /\ j # 0 /\ f.refs[j] \in Nat
  BY FsTyped
<1>1. /\ o.f \in FsType /\ o.f.dir = f.dir /\ o.f.slips >= f.slips /\ o.f.panic = f.panic
      /\ o.ino = 0 => FsOK(o.f) /\ o.f.refs = f.refs
      /\ o.ino # 0 => /\ Made(o.f, o.ino) /\ f.refs[o.ino] = 0 /\ RaisedBy1(f, o.f, o.ino)
                      /\ o.f.error = f.error
  BY IOpenNewGives
<1>2. Fresh(o.f)
  BY <1>1, FsTyped, FreshKept
<1>3. ASSUME o.ino = 0 PROVE FsOK(o.f) /\ Takes(f, o.f, 0)
  BY <1>1, <1>3, TakesNothing
<1>4. ASSUME o.ino # 0
      PROVE  o.ino \in FileInodes /\ FsOK(AsPipe(o.f, o.ino)) /\ TakesTwo(f, AsPipe(o.f, o.ino), o.ino)
  <2> DEFINE i == o.ino
             g == AsPipe(o.f, i)
  <2>1. Made(o.f, i) /\ i \in FileInodes /\ f.refs[i] = 0 /\ o.f.refs = [f.refs EXCEPT ![i] = @ + 1]
    BY <1>1, <1>4 DEF Made, RaisedBy1
  <2>2. g = AsPipe(o.f, i)
    OBVIOUS
  <2> HIDE DEF i, g
  <2>3. FsOK(g) /\ g.slips = o.f.slips /\ g.refs = [o.f.refs EXCEPT ![i] = 2]
    BY <1>2, <2>1, <2>2, PipeMade DEF i
  <2>4. \A j \in Inodes : g.refs[j] = IF j = i THEN 2 ELSE f.refs[j]
    BY <1>0, <2>1, <2>3
  <2>5. \A j \in FileInodes : g.refs[j] = f.refs[j] + (IF j = i THEN 2 ELSE 0)
    BY <1>0, <2>1, <2>4
  <2>6. g.refs[Root] = f.refs[Root]
    BY <1>0, <2>1, <2>4, Constants
  <2>7. TakesTwo(f, g, i)
    BY <1>1, <2>3, <2>5, <2>6 DEF TakesTwo
  <2> QED
    BY <2>1, <2>3, <2>7 DEF g, i
<1> QED
  BY <1>3, <1>4

\* The mark of an error is cleared as a call returns.
LEMMA ReturnGives ==
  ASSUME NEW f, FsOK(f), NEW g, g = [f EXCEPT !.error = FALSE]
  PROVE  FsOK(g) /\ g.error = FALSE /\ g.refs = f.refs /\ g.slips = f.slips
<1>1. f \in FsType /\ f.slips \in Nat /\ f.refs \in [Inodes -> Nat]
  BY FsTyped
<1>2. Searched(f, g) /\ g.refs = f.refs /\ g.panic = f.panic /\ g.error = FALSE
  BY <1>1, ErrorGives
<1>3. Alike(f, g) /\ g.slips = f.slips
  BY <1>2 DEF Searched
<1>4. Calm(g)
  BY <1>2, <1>3 DEF FsOK, Calm, Undone, Alike
<1>5. \A i \in FileInodes : f.refs[i] \in Nat
  BY FsTyped
<1> QED
  <2>1. g.slips >= f.slips
    BY <1>1, <1>3
  <2>2. FsOK(g)
    BY <1>2, <1>3, <1>4, <2>1, AlikeOK
  <2> QED
    BY <1>2, <1>3, <2>2

-----------------------------------------------------------------------------
(* The invariant: the open file table and the inode table count what the   *)
(* processes hold.                                                         *)

Pairs == Procs \X Fds
OftEntry == [refs : Nat, ino : FileInodes \cup {0}]
Flat(files) == [pd \in Pairs |-> files[pd[1]][pd[2]]]
InodeOf(ofts) == [o \in Ofts |-> ofts[o].ino]

\* The descriptors that share an entry of the open file table.
Sharers(files, o) == Count(Pairs, Flat(files), o)
SharesOK(ofts, files, clean) ==
  \A o \in Ofts : /\ ofts[o].refs >= Sharers(files, o)
                  /\ Sharers(files, o) > 0 => ofts[o].ino # 0
                  /\ clean /\ o # 0 => ofts[o].refs = Sharers(files, o)
                  /\ ofts[o].refs = 0 => ofts[o].ino = 0

\* The open files and the directories that refer to an inode.
Opens(ofts, i) == Count(Ofts, InodeOf(ofts), i)
RefsOK(f, ofts, cwd, lv) ==
  /\ \A i \in FileInodes : f.refs[i] = Opens(ofts, i) + Count(lv, cwd, i)
  /\ f.slips = 0 => f.refs[Root] = Count(lv, cwd, Root) + 1

Tables(ofts, files, cwd, lv) ==
  /\ ofts \in [Ofts -> OftEntry] /\ files \in [Procs -> [Fds -> Ofts \cup {None}]]
  /\ cwd \in [Procs -> Inodes] /\ lv \subseteq Procs
  /\ \A p \in Procs : p \notin lv => files[p] = NoFiles

Sound(f, ofts, files, cwd, lv) ==
  /\ FsOK(f) /\ Tables(ofts, files, cwd, lv)
  /\ SharesOK(ofts, files, f.slips = 0) /\ RefsOK(f, ofts, cwd, lv)

IInv == Sound(fs, of_tab, u_files, u_cwd, live) /\ fs.error = FALSE

LEMMA TableConstants ==
  /\ IsFiniteSet(Pairs) /\ IsFiniteSet(Ofts) /\ IsFiniteSet(Fds) /\ IsFiniteSet(Procs)
  /\ None \notin Ofts /\ 0 \in Ofts /\ Ofts \subseteq Nat /\ Fds \subseteq Nat /\ InitProc \in Procs
  /\ Cardinality(Ofts) = OFTSIZE /\ OFTSIZE \in Nat /\ OFTSIZE > 0 /\ Cardinality(Procs) \in Nat
  /\ Fds # {} /\ 0 \notin FileInodes /\ FileInodes \cup {0} \subseteq Nat
<1>1. IsFiniteSet(Ofts) /\ IsFiniteSet(Fds) /\ IsFiniteSet(Procs)
  BY FilesAssumption, FS_Interval DEF Ofts, Fds
<1>2. IsFiniteSet(Pairs)
  BY <1>1, FS_Product DEF Pairs
<1>3. Cardinality(Ofts) = OFTSIZE
  <2>1. OFTSIZE - 1 \in Int /\ 0 \in Int /\ OFTSIZE - 1 - 0 + 1 = OFTSIZE /\ 0 <= OFTSIZE - 1
    BY FilesAssumption
  <2> QED
    BY <2>1, FS_Interval DEF Ofts
<1>4. Cardinality(Procs) \in Nat
  BY <1>1, FS_CardinalityType
<1>5. None \notin Ofts /\ 0 \in Ofts /\ Ofts \subseteq Nat /\ Fds \subseteq Nat /\ Fds # {}
  <2>1. UFTSIZE \in Nat \ {0} /\ OFTSIZE \in Nat \ {0}
    BY FilesAssumption
  <2> QED
    BY <2>1 DEF Ofts, Fds, None
<1> QED
  BY <1>1, <1>2, <1>3, <1>4, <1>5, FilesAssumption, Constants

LEMMA SharersCount == \A files, o : Sharers(files, o) \in Nat
  BY TableConstants, CountZero DEF Sharers

\* A descriptor is set: one entry has a sharer less, another one more.
ShareMoves(files, res, v, w) ==
  \A o : Sharers(res, o) = Sharers(files, o) - (IF v = o THEN 1 ELSE 0) + (IF w = o THEN 1 ELSE 0)

LEMMA FdSet ==
  ASSUME NEW files \in [Procs -> [Fds -> Ofts \cup {None}]], NEW p \in Procs, NEW d \in Fds,
         NEW v \in Ofts \cup {None}, NEW res, res = [files EXCEPT ![p][d] = v]
  PROVE  /\ res \in [Procs -> [Fds -> Ofts \cup {None}]]
         /\ \A q \in Procs : q # p => res[q] = files[q]
         /\ res[p] = [files[p] EXCEPT ![d] = v]
         /\ ShareMoves(files, res, files[p][d], v)
<1>1. <<p, d>> \in Pairs /\ IsFiniteSet(Pairs)
  BY TableConstants DEF Pairs
<1>2. Moves(Pairs, Flat(files), Flat(res), <<p, d>>, v)
  <2>1. ASSUME NEW pd \in Pairs PROVE Flat(res)[pd] = IF pd = <<p, d>> THEN v ELSE Flat(files)[pd]
    <3>1. PICK a \in Procs, b \in Fds : pd = <<a, b>>
      BY DEF Pairs
    <3>2. Flat(res)[pd] = res[a][b] /\ Flat(files)[pd] = files[a][b]
      BY <3>1 DEF Flat
    <3>3. res[a][b] = IF a = p /\ b = d THEN v ELSE files[a][b]
      OBVIOUS
    <3>4. pd = <<p, d>> <=> a = p /\ b = d
      BY <3>1
    <3> QED
      BY <3>2, <3>3, <3>4
  <2> QED
    BY <2>1 DEF Moves
<1>3. Flat(files)[<<p, d>>] = files[p][d]
  BY <1>1 DEF Flat
<1>4. ASSUME NEW o
      PROVE Sharers(res, o) = Sharers(files, o) - (IF files[p][d] = o THEN 1 ELSE 0)
                              + (IF v = o THEN 1 ELSE 0)
  <2>1. Count(Pairs, Flat(res), o) = Count(Pairs, Flat(files), o)
          - (IF Flat(files)[<<p, d>>] = o THEN 1 ELSE 0) + (IF v = o THEN 1 ELSE 0)
    BY <1>1, <1>2, CountMoves
  <2> QED
    BY <1>3, <2>1 DEF Sharers
<1>5. res \in [Procs -> [Fds -> Ofts \cup {None}]]
  OBVIOUS
<1>6. res[p] = [files[p] EXCEPT ![d] = v] /\ \A q \in Procs : q # p => res[q] = files[q]
  OBVIOUS
<1>7. ShareMoves(files, res, files[p][d], v)
  BY <1>4 DEF ShareMoves
<1> QED
  BY <1>5, <1>6, <1>7

\* A descriptor that is open counts.
LEMMA SharerCounts ==
  ASSUME NEW files \in [Procs -> [Fds -> Ofts \cup {None}]], NEW p \in Procs, NEW d \in Fds
  PROVE  Sharers(files, files[p][d]) > 0
<1> DEFINE o == files[p][d]
<1>1. <<p, d>> \in Pairs /\ Flat(files)[<<p, d>>] = o
  BY DEF Pairs, Flat
<1>2. Count(Pairs, Flat(files), o) \in Nat /\ Count(Pairs, Flat(files), o) # 0
  BY <1>1, TableConstants, CountZero
<1> HIDE DEF o
<1>3. Sharers(files, o) > 0
  BY <1>2 DEF Sharers
<1> QED
  BY <1>3 DEF o

\* An entry of the open file table is set: one inode is open less, another one more.
OpenMoves(ofts, res, v, w) ==
  \A i : /\ Opens(res, i) = Opens(ofts, i) - (IF v = i THEN 1 ELSE 0) + (IF w = i THEN 1 ELSE 0)
         /\ Opens(ofts, i) \in Nat

LEMMA OftSet ==
  ASSUME NEW ofts \in [Ofts -> OftEntry], NEW o \in Ofts, NEW e \in OftEntry,
         NEW res, res = [ofts EXCEPT ![o] = e]
  PROVE  /\ res \in [Ofts -> OftEntry]
         /\ \A q \in Ofts : res[q] = IF q = o THEN e ELSE ofts[q]
         /\ OpenMoves(ofts, res, ofts[o].ino, e.ino)
<1>1. res \in [Ofts -> OftEntry] /\ \A q \in Ofts : res[q] = IF q = o THEN e ELSE ofts[q]
  OBVIOUS
<1>2. Moves(Ofts, InodeOf(ofts), InodeOf(res), o, e.ino)
  BY <1>1 DEF Moves, InodeOf
<1>3. InodeOf(ofts)[o] = ofts[o].ino
  BY DEF InodeOf
<1>4. ASSUME NEW i
      PROVE  /\ Opens(res, i) = Opens(ofts, i) - (IF ofts[o].ino = i THEN 1 ELSE 0)
                                + (IF e.ino = i THEN 1 ELSE 0)
             /\ Opens(ofts, i) \in Nat
  <2>1. Count(Ofts, InodeOf(res), i) = Count(Ofts, InodeOf(ofts), i)
          - (IF InodeOf(ofts)[o] = i THEN 1 ELSE 0) + (IF e.ino = i THEN 1 ELSE 0)
        /\ Count(Ofts, InodeOf(ofts), i) \in Nat
    BY <1>2, TableConstants, CountMoves
  <2> QED
    BY <1>3, <2>1 DEF Opens
<1>5. OpenMoves(ofts, res, ofts[o].ino, e.ino)
  BY <1>4 DEF OpenMoves
<1> QED
  BY <1>1, <1>5

LEMMA EntryTyped ==
  ASSUME NEW ofts \in [Ofts -> OftEntry], NEW o \in Ofts
  PROVE  /\ ofts[o].refs \in Nat /\ ofts[o].ino \in FileInodes \cup {0}
         /\ [ofts[o] EXCEPT !.refs = @ + 1] \in OftEntry
         /\ [ofts[o] EXCEPT !.refs = @ + 1].refs = ofts[o].refs + 1
         /\ [ofts[o] EXCEPT !.refs = @ + 1].ino = ofts[o].ino
<1>1. ofts[o] \in OftEntry
  OBVIOUS
<1> QED
  BY <1>1 DEF OftEntry

LEMMA OpensCount ==
  ASSUME NEW ofts, NEW o \in Ofts
  PROVE  \A i : /\ Opens(ofts, i) \in Nat /\ Opens(ofts, i) <= OFTSIZE
                /\ ofts[o].ino = i => Opens(ofts, i) > 0
<1>1. ASSUME NEW i
      PROVE  /\ Opens(ofts, i) \in Nat /\ Opens(ofts, i) <= OFTSIZE
             /\ ofts[o].ino = i => Opens(ofts, i) > 0
  <2>1. Count(Ofts, InodeOf(ofts), i) \in Nat /\ Count(Ofts, InodeOf(ofts), i) <= OFTSIZE
    BY TableConstants, CountBound
  <2>2. InodeOf(ofts)[o] = i => Count(Ofts, InodeOf(ofts), i) # 0
    BY TableConstants, CountZero
  <2>3. InodeOf(ofts)[o] = ofts[o].ino
    BY DEF InodeOf
  <2> QED
    BY <2>1, <2>2, <2>3 DEF Opens
<1> QED
  BY <1>1

LEMMA CwdCount ==
  ASSUME NEW cwd, NEW lv \in SUBSET Procs, NEW p \in lv
  PROVE  \A i : /\ Count(lv, cwd, i) \in Nat /\ Count(lv, cwd, i) <= Cardinality(Procs)
                /\ cwd[p] = i => Count(lv, cwd, i) > 0
<1>1. IsFiniteSet(lv) /\ Cardinality(lv) \in Nat /\ Cardinality(lv) <= Cardinality(Procs)
  BY TableConstants, FS_Subset, FS_CardinalityType
<1>2. ASSUME NEW i
      PROVE  /\ Count(lv, cwd, i) \in Nat /\ Count(lv, cwd, i) <= Cardinality(Procs)
             /\ cwd[p] = i => Count(lv, cwd, i) > 0
  <2>1. Count(lv, cwd, i) \in Nat /\ Count(lv, cwd, i) <= Cardinality(lv)
    BY <1>1, CountBound
  <2>2. cwd[p] = i => Count(lv, cwd, i) # 0
    BY <1>1, CountZero
  <2> QED
    BY <1>1, <2>1, <2>2, TableConstants
<1> QED
  BY <1>2

-----------------------------------------------------------------------------
(* What the steps of the calls make of the tables. *)

LEMMA SharesMono ==
  ASSUME NEW ofts, NEW files, NEW c1 \in BOOLEAN, NEW c2 \in BOOLEAN, SharesOK(ofts, files, c1),
         c2 => c1
  PROVE  SharesOK(ofts, files, c2)
  BY DEF SharesOK

LEMMA NothingGives ==
  ASSUME NEW f, NEW ofts, NEW files, NEW cwd, NEW lv, Sound(f, ofts, files, cwd, lv),
         NEW g, FsOK(g), Takes(f, g, 0)
  PROVE  Sound(g, ofts, files, cwd, lv)
<1>1. /\ FsOK(f) /\ Tables(ofts, files, cwd, lv)
      /\ SharesOK(ofts, files, f.slips = 0) /\ RefsOK(f, ofts, cwd, lv)
  BY DEF Sound
<1>2. /\ f.slips \in Nat /\ g.slips \in Nat /\ Root # 0 /\ f.refs[Root] \in Nat
      /\ \A j \in FileInodes : j # 0 /\ f.refs[j] \in Nat
  BY <1>1, FsTyped, Constants
<1>3. g.slips = 0 => f.slips = 0
  BY <1>2 DEF Takes
<1>4. SharesOK(ofts, files, g.slips = 0)
  BY <1>1, <1>3, SharesMono
<1>5. RefsOK(g, ofts, cwd, lv)
  BY <1>1, <1>2, <1>3 DEF RefsOK, Takes
<1> QED
  BY <1>1, <1>4, <1>5 DEF Sound

LEMMA TablesSet ==
  ASSUME NEW ofts, NEW files, NEW cwd, NEW lv, Tables(ofts, files, cwd, lv), NEW p \in lv,
         NEW d \in Fds, NEW v \in Ofts \cup {None}, NEW ofts2 \in [Ofts -> OftEntry]
  PROVE  Tables(ofts2, [files EXCEPT ![p][d] = v], cwd, lv)
<1> DEFINE res == [files EXCEPT ![p][d] = v]
<1>1. p \in Procs /\ files \in [Procs -> [Fds -> Ofts \cup {None}]]
  BY DEF Tables
<1>2. /\ res \in [Procs -> [Fds -> Ofts \cup {None}]]
      /\ \A q \in Procs : q # p => res[q] = files[q]
  BY <1>1, FdSet
<1> HIDE DEF res
<1>3. Tables(ofts2, res, cwd, lv)
  BY <1>2 DEF Tables
<1> QED
  BY <1>3 DEF res

\* A descriptor takes an entry that nobody has.
LEMMA InstallGives ==
  ASSUME NEW f, NEW ofts, NEW files, NEW cwd, NEW lv, Sound(f, ofts, files, cwd, lv),
         NEW g, FsOK(g), NEW i \in FileInodes, Takes(f, g, i),
         NEW p \in lv, NEW d \in Fds, files[p][d] = None, NEW o \in Ofts, ofts[o].refs = 0
  PROVE  Sound(g, [ofts EXCEPT ![o] = [refs |-> 1, ino |-> i]], [files EXCEPT ![p][d] = o], cwd, lv)
<1> DEFINE e == [refs |-> 1, ino |-> i]
           ofts2 == [ofts EXCEPT ![o] = e]
           files2 == [files EXCEPT ![p][d] = o]
<1>1. /\ FsOK(f) /\ Tables(ofts, files, cwd, lv)
      /\ SharesOK(ofts, files, f.slips = 0) /\ RefsOK(f, ofts, cwd, lv)
  BY DEF Sound
<1>2. /\ p \in Procs /\ files \in [Procs -> [Fds -> Ofts \cup {None}]]
      /\ ofts \in [Ofts -> OftEntry] /\ None \notin Ofts
  BY <1>1, TableConstants DEF Tables
<1>3. e \in OftEntry /\ e.refs = 1 /\ e.ino = i /\ i # 0
  BY TableConstants DEF OftEntry
<1> HIDE DEF e
<1>4. /\ ofts2 \in [Ofts -> OftEntry]
      /\ \A q \in Ofts : ofts2[q] = IF q = o THEN e ELSE ofts[q]
      /\ \A j : /\ Opens(ofts2, j) = Opens(ofts, j) - (IF ofts[o].ino = j THEN 1 ELSE 0)
                                     + (IF e.ino = j THEN 1 ELSE 0)
                /\ Opens(ofts, j) \in Nat
  <2>1. e \in OftEntry /\ ofts2 = [ofts EXCEPT ![o] = e]
    BY <1>3
  <2> HIDE DEF ofts2
  <2>2. /\ ofts2 \in [Ofts -> OftEntry]
        /\ \A q \in Ofts : ofts2[q] = IF q = o THEN e ELSE ofts[q]
        /\ OpenMoves(ofts, ofts2, ofts[o].ino, e.ino)
    BY <1>2, <2>1, OftSet, ZenonT(30)
  <2> QED
    BY <2>2 DEF OpenMoves
<1>5. \A q : Sharers(files2, q) = Sharers(files, q) - (IF files[p][d] = q THEN 1 ELSE 0)
                                  + (IF o = q THEN 1 ELSE 0)
  <2>1. o \in Ofts \cup {None} /\ files2 = [files EXCEPT ![p][d] = o]
    OBVIOUS
  <2> HIDE DEF files2
  <2>2. ShareMoves(files, files2, files[p][d], o)
    BY <1>2, <2>1, FdSet
  <2> QED
    BY <2>2 DEF ShareMoves
<1> HIDE DEF ofts2, files2
<1>6. ofts[o].ino = 0 /\ Sharers(files, o) = 0
  <2>1. ofts[o].refs >= Sharers(files, o) /\ Sharers(files, o) \in Nat
    BY <1>1, SharersCount DEF SharesOK
  <2> QED
    BY <1>1, <2>1 DEF SharesOK
<1>7. f.slips \in Nat /\ g.slips \in Nat /\ (g.slips = 0 => f.slips = 0)
  <2>1. f.slips \in Nat /\ g.slips \in Nat
    BY <1>1, FsTyped
  <2> QED
    BY <2>1 DEF Takes
<1>8. SharesOK(ofts2, files2, g.slips = 0)
  <2>1. ASSUME NEW q \in Ofts
        PROVE  /\ ofts2[q].refs >= Sharers(files2, q)
               /\ Sharers(files2, q) > 0 => ofts2[q].ino # 0
               /\ g.slips = 0 /\ q # 0 => ofts2[q].refs = Sharers(files2, q)
               /\ ofts2[q].refs = 0 => ofts2[q].ino = 0
    <3>1. Sharers(files2, q) = Sharers(files, q) + (IF o = q THEN 1 ELSE 0) /\ Sharers(files, q) \in Nat
      BY <1>2, <1>5, SharersCount
    <3>2. CASE q = o
      BY <1>3, <1>4, <1>6, <3>1, <3>2
    <3>3. CASE q # o
      BY <1>1, <1>4, <1>7, <3>1, <3>3 DEF SharesOK
    <3> QED
      BY <3>2, <3>3
  <2> QED
    BY <2>1 DEF SharesOK
<1>9. RefsOK(g, ofts2, cwd, lv)
  <2>1. ASSUME NEW j \in FileInodes PROVE g.refs[j] = Opens(ofts2, j) + Count(lv, cwd, j)
    <3>1. g.refs[j] = f.refs[j] + (IF j = i THEN 1 ELSE 0)
      BY DEF Takes
    <3>2. f.refs[j] = Opens(ofts, j) + Count(lv, cwd, j)
      BY <1>1 DEF RefsOK
    <3>3. Opens(ofts2, j) = Opens(ofts, j) + (IF i = j THEN 1 ELSE 0) /\ j # 0
      BY <1>3, <1>4, <1>6, FsTyped, <1>1
    <3>4. Count(lv, cwd, j) \in Nat /\ Opens(ofts, j) \in Nat
      BY <1>1, <1>4, CwdCount DEF Tables
    <3> QED
      BY <3>1, <3>2, <3>3, <3>4
  <2>2. ASSUME g.slips = 0 PROVE g.refs[Root] = Count(lv, cwd, Root) + 1
    <3>1. i # Root /\ f.refs[Root] \in Nat
      BY <1>1, FsTyped, Constants
    <3> QED
      BY <1>1, <1>7, <2>2, <3>1 DEF Takes, RefsOK
  <2> QED
    BY <2>1, <2>2 DEF RefsOK
<1>10. Tables(ofts2, files2, cwd, lv)
  BY <1>1, <1>4, TablesSet DEF files2
<1>11. Sound(g, ofts2, files2, cwd, lv)
  BY <1>8, <1>9, <1>10 DEF Sound
<1> QED
  BY <1>11 DEF ofts2, files2, e

\* A descriptor shares an entry that another has.
LEMMA ShareGives ==
  ASSUME NEW f, NEW ofts, NEW files, NEW cwd, NEW lv, Sound(f, ofts, files, cwd, lv),
         NEW p \in lv, NEW d \in Fds, files[p][d] = None, NEW o \in Ofts, Sharers(files, o) > 0
  PROVE  Sound(f, [ofts EXCEPT ![o].refs = @ + 1], [files EXCEPT ![p][d] = o], cwd, lv)
<1> DEFINE e == [ofts[o] EXCEPT !.refs = @ + 1]
           ofts2 == [ofts EXCEPT ![o] = e]
           files2 == [files EXCEPT ![p][d] = o]
<1>1. /\ FsOK(f) /\ Tables(ofts, files, cwd, lv)
      /\ SharesOK(ofts, files, f.slips = 0) /\ RefsOK(f, ofts, cwd, lv)
  BY DEF Sound
<1>2. /\ p \in Procs /\ files \in [Procs -> [Fds -> Ofts \cup {None}]]
      /\ ofts \in [Ofts -> OftEntry] /\ None \notin Ofts
  BY <1>1, TableConstants DEF Tables
<1>3. e \in OftEntry /\ e.refs = ofts[o].refs + 1 /\ e.ino = ofts[o].ino /\ ofts[o].refs \in Nat
  BY <1>2, EntryTyped
<1> HIDE DEF e
<1>4. /\ ofts2 \in [Ofts -> OftEntry]
      /\ \A q \in Ofts : ofts2[q] = IF q = o THEN e ELSE ofts[q]
      /\ \A j : /\ Opens(ofts2, j) = Opens(ofts, j) - (IF ofts[o].ino = j THEN 1 ELSE 0)
                                     + (IF e.ino = j THEN 1 ELSE 0)
                /\ Opens(ofts, j) \in Nat
  <2>1. e \in OftEntry /\ ofts2 = [ofts EXCEPT ![o] = e]
    BY <1>3
  <2> HIDE DEF ofts2
  <2>2. /\ ofts2 \in [Ofts -> OftEntry]
        /\ \A q \in Ofts : ofts2[q] = IF q = o THEN e ELSE ofts[q]
        /\ OpenMoves(ofts, ofts2, ofts[o].ino, e.ino)
    BY <1>2, <2>1, OftSet, ZenonT(30)
  <2> QED
    BY <2>2 DEF OpenMoves
<1>5. \A q : Sharers(files2, q) = Sharers(files, q) - (IF files[p][d] = q THEN 1 ELSE 0)
                                  + (IF o = q THEN 1 ELSE 0)
  <2>1. o \in Ofts \cup {None} /\ files2 = [files EXCEPT ![p][d] = o]
    OBVIOUS
  <2> HIDE DEF files2
  <2>2. ShareMoves(files, files2, files[p][d], o)
    BY <1>2, <2>1, FdSet
  <2> QED
    BY <2>2 DEF ShareMoves
<1> HIDE DEF ofts2, files2
<1>6. SharesOK(ofts2, files2, f.slips = 0)
  <2>1. ASSUME NEW q \in Ofts
        PROVE  /\ ofts2[q].refs >= Sharers(files2, q)
               /\ Sharers(files2, q) > 0 => ofts2[q].ino # 0
               /\ f.slips = 0 /\ q # 0 => ofts2[q].refs = Sharers(files2, q)
               /\ ofts2[q].refs = 0 => ofts2[q].ino = 0
    <3>1. Sharers(files2, q) = Sharers(files, q) + (IF o = q THEN 1 ELSE 0) /\ Sharers(files, q) \in Nat
      BY <1>2, <1>5, SharersCount
    <3>2. /\ ofts[q].refs >= Sharers(files, q)
          /\ Sharers(files, q) > 0 => ofts[q].ino # 0
          /\ f.slips = 0 /\ q # 0 => ofts[q].refs = Sharers(files, q)
          /\ ofts[q].refs = 0 => ofts[q].ino = 0
      BY <1>1 DEF SharesOK
    <3>3. CASE q = o
      BY <1>3, <1>4, <3>1, <3>2, <3>3
    <3>4. CASE q # o
      BY <1>4, <3>1, <3>2, <3>4
    <3> QED
      BY <3>3, <3>4
  <2> QED
    BY <2>1 DEF SharesOK
<1>7. \A j : Opens(ofts2, j) = Opens(ofts, j)
  BY <1>3, <1>4
<1>8. RefsOK(f, ofts2, cwd, lv)
  BY <1>1, <1>7 DEF RefsOK
<1>9. Tables(ofts2, files2, cwd, lv)
  BY <1>1, <1>4, TablesSet DEF files2
<1>10. Sound(f, ofts2, files2, cwd, lv)
  BY <1>1, <1>6, <1>8, <1>9 DEF Sound
<1>11. ofts2 = [ofts EXCEPT ![o].refs = @ + 1]
  BY DEF ofts2, e
<1> QED
  BY <1>10, <1>11 DEF files2

\* A descriptor lets its entry go, and the last one the inode.
\* A descriptor d of p that is open is closed: c and res are what is left.
Closes(s, files, p, d, c, res) ==
  /\ p \in Procs /\ d \in Fds /\ files[p][d] # None
  /\ c = OftDeref(s, files[p][d]) /\ res = [files EXCEPT ![p][d] = None]

SoundPair(s, files, cwd, lv) == Sound(s.f, s.ofts, files, cwd, lv)

LEMMA CloseGives ==
  ASSUME NEW s, NEW files, NEW cwd, NEW lv, SoundPair(s, files, cwd, lv),
         NEW p, NEW d, NEW c, NEW res, Closes(s, files, p, d, c, res)
  PROVE  /\ SoundPair(c, res, cwd, lv)
         /\ c.f.error = s.f.error /\ c.f.slips = s.f.slips
<1> USE DEF SoundPair
<1> DEFINE f == s.f
           ofts == s.ofts
           o == files[p][d]
           last == ofts[o].refs = 1 /\ ofts[o].ino # 0
           i == ofts[o].ino
           e == [refs |-> ofts[o].refs - 1, ino |-> IF last THEN 0 ELSE i]
           ofts2 == [ofts EXCEPT ![o] = e]
           files2 == [files EXCEPT ![p][d] = None]
<1>0. p \in Procs /\ d \in Fds /\ o # None /\ c = OftDeref(s, o) /\ res = files2
  BY DEF Closes
<1>1. /\ FsOK(f) /\ Tables(ofts, files, cwd, lv)
      /\ SharesOK(ofts, files, f.slips = 0) /\ RefsOK(f, ofts, cwd, lv)
  BY DEF Sound
<1> USE <1>0
<1>2. /\ files \in [Procs -> [Fds -> Ofts \cup {None}]] /\ o \in Ofts
      /\ ofts \in [Ofts -> OftEntry] /\ None \notin Ofts /\ p \in lv
  BY <1>1, TableConstants DEF Tables, NoFiles
<1>3. Sharers(files, o) > 0 /\ Sharers(files, o) \in Nat
  BY <1>2, SharerCounts, SharersCount
<1>4. /\ ofts[o].refs >= Sharers(files, o) /\ i # 0
      /\ f.slips = 0 /\ o # 0 => ofts[o].refs = Sharers(files, o)
  BY <1>1, <1>2, <1>3 DEF SharesOK
<1>5. ofts[o].refs \in Nat /\ ofts[o].refs > 0 /\ i \in FileInodes /\ ofts[o] \in OftEntry
  <2>1. ofts[o].refs \in Nat /\ i \in FileInodes \cup {0} /\ ofts[o] \in OftEntry
    BY <1>2, SMTT(30) DEF OftEntry
  <2> QED
    BY <1>3, <1>4, <2>1
<1>6. /\ c.f = (IF last THEN IDeref(f, i) ELSE f)
      /\ c.ofts = [ofts EXCEPT ![o].refs = @ - 1, ![o].ino = IF last THEN 0 ELSE @]
  BY ZenonT(30) DEF OftDeref
<1>7. c.ofts = ofts2
  BY <1>2, <1>5, <1>6 DEF OftEntry
<1>8. e \in OftEntry /\ e.refs = ofts[o].refs - 1 /\ e.ino = IF last THEN 0 ELSE i
  <2>1. ofts[o].refs - 1 \in Nat /\ (IF last THEN 0 ELSE i) \in FileInodes \cup {0}
    BY <1>5
  <2> QED
    BY <2>1 DEF OftEntry
<1> HIDE DEF e
<1>9. /\ ofts2 \in [Ofts -> OftEntry]
      /\ \A q \in Ofts : ofts2[q] = IF q = o THEN e ELSE ofts[q]
      /\ \A j : /\ Opens(ofts2, j) = Opens(ofts, j) - (IF ofts[o].ino = j THEN 1 ELSE 0)
                                     + (IF e.ino = j THEN 1 ELSE 0)
                /\ Opens(ofts, j) \in Nat
  <2>1. ofts \in [Ofts -> OftEntry] /\ o \in Ofts /\ e \in OftEntry /\ ofts2 = [ofts EXCEPT ![o] = e]
    BY <1>2, <1>8
  <2> HIDE DEF ofts2, ofts, o
  <2>2. /\ ofts2 \in [Ofts -> OftEntry]
        /\ \A q \in Ofts : ofts2[q] = IF q = o THEN e ELSE ofts[q]
        /\ OpenMoves(ofts, ofts2, ofts[o].ino, e.ino)
    BY <2>1, OftSet
  <2> QED
    BY <2>2 DEF OpenMoves
<1>10. \A q : Sharers(files2, q) = Sharers(files, q) - (IF o = q THEN 1 ELSE 0)
                                   + (IF None = q THEN 1 ELSE 0)
  <2>1. None \in Ofts \cup {None} /\ files2 = [files EXCEPT ![p][d] = None]
    OBVIOUS
  <2> HIDE DEF files2
  <2>2. ShareMoves(files, files2, files[p][d], None)
    BY <1>2, <2>1, FdSet
  <2> QED
    BY <2>2 DEF ShareMoves
<1> HIDE DEF ofts2, files2
<1>11. /\ c.f.slips = f.slips /\ c.f.error = f.error /\ FsOK(c.f)
       /\ \A j \in FileInodes : c.f.refs[j] = f.refs[j] - (IF last /\ j = i THEN 1 ELSE 0)
       /\ f.slips = 0 => c.f.refs[Root] = f.refs[Root]
  <2>1. CASE ~last
    <3>1. c.f = f
      BY <1>6, <2>1
    <3>2. \A j \in FileInodes : f.refs[j] \in Nat
      BY <1>1, FsTyped
    <3> QED
      BY <1>1, <2>1, <3>1, <3>2, SMTT(30)
  <2>2. CASE last
    <3>1. c.f = IDeref(f, i) /\ i \in Inodes /\ i # Root
      BY <1>1, <1>5, <1>6, <2>2, FsTyped
    <3>2. f.refs[i] > 0
      <4>1. f.refs[i] = Opens(ofts, i) + Count(lv, cwd, i)
        BY <1>1, <1>5 DEF RefsOK
      <4>2. Opens(ofts, i) > 0 /\ Opens(ofts, i) \in Nat
        BY <1>2, OpensCount
      <4>3. Count(lv, cwd, i) \in Nat
        BY <1>1, <1>2, CwdCount DEF Tables
      <4> QED
        BY <4>1, <4>2, <4>3
    <3>3. Held(f, i)
      BY <3>1, <3>2 DEF Held
    <3>4. FsOK(c.f) /\ Drops(f, c.f, i)
      BY <1>1, <3>1, <3>3, Dropping, SMTT(30)
    <3>5. f.slips = 0 => c.f.refs[Root] = f.refs[Root] - 0
      BY <3>1, <3>4 DEF Drops
    <3>6. f.refs[Root] \in Nat
      BY <1>1, FsTyped, Constants
    <3> HIDE DEF last
    <3> QED
      BY <2>2, <3>4, <3>5, <3>6 DEF Drops
  <2> QED
    BY <2>1, <2>2
<1>12. SharesOK(ofts2, files2, f.slips = 0)
  <2>1. ASSUME NEW q \in Ofts
        PROVE  /\ ofts2[q].refs >= Sharers(files2, q)
               /\ Sharers(files2, q) > 0 => ofts2[q].ino # 0
               /\ f.slips = 0 /\ q # 0 => ofts2[q].refs = Sharers(files2, q)
               /\ ofts2[q].refs = 0 => ofts2[q].ino = 0
    <3>1. Sharers(files2, q) = Sharers(files, q) - (IF o = q THEN 1 ELSE 0) /\ Sharers(files, q) \in Nat
      BY <1>2, <1>10, SharersCount
    <3>2. /\ ofts[q].refs >= Sharers(files, q)
          /\ Sharers(files, q) > 0 => ofts[q].ino # 0
          /\ f.slips = 0 /\ q # 0 => ofts[q].refs = Sharers(files, q)
          /\ ofts[q].refs = 0 => ofts[q].ino = 0
      BY <1>1, SMTT(30) DEF SharesOK
    <3>3. CASE q = o
      BY <1>3, <1>4, <1>5, <1>8, <1>9, <3>1, <3>2, <3>3
    <3>4. CASE q # o
      BY <1>9, <3>1, <3>2, <3>4
    <3> QED
      BY <3>3, <3>4
  <2> QED
    BY <2>1 DEF SharesOK
<1>13. RefsOK(c.f, ofts2, cwd, lv)
  <2>1. ASSUME NEW j \in FileInodes PROVE c.f.refs[j] = Opens(ofts2, j) + Count(lv, cwd, j)
    <3>1. c.f.refs[j] = f.refs[j] - (IF last /\ j = i THEN 1 ELSE 0)
      <4> HIDE DEF last, i, f
      <4> QED
        BY <1>11
    <3>2. f.refs[j] = Opens(ofts, j) + Count(lv, cwd, j)
      BY <1>1 DEF RefsOK
    <3>3. Opens(ofts2, j) = Opens(ofts, j) - (IF last /\ j = i THEN 1 ELSE 0)
      <4>1. j # 0 /\ Opens(ofts, j) \in Nat
        BY <1>1, <1>9, FsTyped
      <4>2. Opens(ofts2, j) = Opens(ofts, j) - (IF i = j THEN 1 ELSE 0) + (IF e.ino = j THEN 1 ELSE 0)
        BY <1>9
      <4>3. e.ino = IF last THEN 0 ELSE i
        BY <1>8
      <4> HIDE DEF last, i
      <4> QED
        BY <4>1, <4>2, <4>3
    <3>4. Count(lv, cwd, j) \in Nat /\ Opens(ofts, j) \in Nat
      BY <1>1, <1>2, <1>9, CwdCount DEF Tables
    <3> HIDE DEF last, i
    <3> QED
      BY <3>1, <3>2, <3>3, <3>4
  <2>2. c.f.slips = 0 => c.f.refs[Root] = Count(lv, cwd, Root) + 1
    <3>1. f.slips = 0 => f.refs[Root] = Count(lv, cwd, Root) + 1
      BY <1>1 DEF RefsOK
    <3>2. c.f.slips = f.slips /\ (f.slips = 0 => c.f.refs[Root] = f.refs[Root])
      BY <1>11
    <3> QED
      BY <3>1, <3>2
  <2> QED
    BY <2>1, <2>2 DEF RefsOK
<1>14. Tables(ofts2, files2, cwd, lv)
  <2>1. None \in Ofts \cup {None}
    OBVIOUS
  <2> QED
    BY <1>1, <1>2, <1>9, <2>1, TablesSet DEF files2
<1>15. Sound(c.f, ofts2, files2, cwd, lv)
  <2>1. SharesOK(ofts2, files2, c.f.slips = 0)
    BY <1>11, <1>12
  <2> QED
    BY <1>11, <1>13, <1>14, <2>1 DEF Sound
<1> QED
  BY <1>7, <1>11, <1>15 DEF files2

\* A pipe takes two entries and two descriptors for one inode.
LEMMA PipeInstalled ==
  ASSUME NEW f, NEW ofts, NEW files, NEW cwd, NEW lv, Sound(f, ofts, files, cwd, lv),
         NEW g, FsOK(g), NEW i \in FileInodes, TakesTwo(f, g, i),
         NEW p \in lv, NEW d1 \in Fds, NEW d2 \in Fds, d1 # d2,
         files[p][d1] = None, files[p][d2] = None,
         NEW o1 \in Ofts, NEW o2 \in Ofts, o1 # o2, ofts[o1].refs = 0, ofts[o2].refs = 0
  PROVE  Sound(g, [ofts EXCEPT ![o1] = [refs |-> 1, ino |-> i], ![o2] = [refs |-> 1, ino |-> i]],
               [files EXCEPT ![p][d1] = o1, ![p][d2] = o2], cwd, lv)
<1> DEFINE e == [refs |-> 1, ino |-> i]
           ofts1 == [ofts EXCEPT ![o1] = e]
           ofts2 == [ofts1 EXCEPT ![o2] = e]
           files1 == [files EXCEPT ![p][d1] = o1]
           files2 == [files1 EXCEPT ![p][d2] = o2]
<1>1. /\ FsOK(f) /\ Tables(ofts, files, cwd, lv)
      /\ SharesOK(ofts, files, f.slips = 0) /\ RefsOK(f, ofts, cwd, lv)
  BY DEF Sound
<1>2. /\ p \in Procs /\ files \in [Procs -> [Fds -> Ofts \cup {None}]]
      /\ ofts \in [Ofts -> OftEntry] /\ None \notin Ofts
  BY <1>1, TableConstants DEF Tables
<1>3. e \in OftEntry /\ e.refs = 1 /\ e.ino = i /\ i # 0
  BY TableConstants DEF OftEntry
<1> HIDE DEF e
<1>4. /\ ofts1 \in [Ofts -> OftEntry]
      /\ \A q \in Ofts : ofts1[q] = IF q = o1 THEN e ELSE ofts[q]
      /\ \A j : /\ Opens(ofts1, j) = Opens(ofts, j) - (IF ofts[o1].ino = j THEN 1 ELSE 0)
                                     + (IF e.ino = j THEN 1 ELSE 0)
                /\ Opens(ofts, j) \in Nat
  <2>1. e \in OftEntry /\ ofts1 = [ofts EXCEPT ![o1] = e]
    BY <1>3
  <2> HIDE DEF ofts1
  <2>2. /\ ofts1 \in [Ofts -> OftEntry]
        /\ \A q \in Ofts : ofts1[q] = IF q = o1 THEN e ELSE ofts[q]
        /\ OpenMoves(ofts, ofts1, ofts[o1].ino, e.ino)
    BY <1>2, <2>1, OftSet
  <2> QED
    BY <2>2 DEF OpenMoves
<1>5. ofts[o1].ino = 0 /\ ofts[o2].ino = 0 /\ Sharers(files, o1) = 0 /\ Sharers(files, o2) = 0
  <2>1. \A o \in Ofts : ofts[o].refs >= Sharers(files, o) /\ Sharers(files, o) \in Nat
    BY <1>1, SharersCount DEF SharesOK
  <2> QED
    BY <1>1, <2>1 DEF SharesOK
<1>6. ofts1[o2] = ofts[o2]
  BY <1>4
<1> HIDE DEF ofts1
<1>7. /\ ofts2 \in [Ofts -> OftEntry]
      /\ \A q \in Ofts : ofts2[q] = IF q = o2 THEN e ELSE ofts1[q]
      /\ \A j : Opens(ofts2, j) = Opens(ofts1, j) - (IF ofts1[o2].ino = j THEN 1 ELSE 0)
                                  + (IF e.ino = j THEN 1 ELSE 0)
  <2>1. ofts1 \in [Ofts -> OftEntry] /\ e \in OftEntry /\ ofts2 = [ofts1 EXCEPT ![o2] = e]
    BY <1>3, <1>4
  <2> HIDE DEF ofts2
  <2>2. /\ ofts2 \in [Ofts -> OftEntry]
        /\ \A q \in Ofts : ofts2[q] = IF q = o2 THEN e ELSE ofts1[q]
        /\ OpenMoves(ofts1, ofts2, ofts1[o2].ino, e.ino)
    BY <2>1, OftSet
  <2> QED
    BY <2>2 DEF OpenMoves
<1> HIDE DEF ofts2
<1>8. /\ files1 \in [Procs -> [Fds -> Ofts \cup {None}]] /\ files1[p][d2] = None
      /\ ShareMoves(files, files1, None, o1)
  <2>1. o1 \in Ofts \cup {None} /\ files1 = [files EXCEPT ![p][d1] = o1]
    OBVIOUS
  <2> HIDE DEF files1
  <2>2. /\ files1 \in [Procs -> [Fds -> Ofts \cup {None}]]
        /\ files1[p] = [files[p] EXCEPT ![d1] = o1]
        /\ ShareMoves(files, files1, files[p][d1], o1)
    BY <1>2, <2>1, FdSet
  <2> QED
    BY <1>2, <2>2
<1> HIDE DEF files1
<1>9. ShareMoves(files1, files2, None, o2)
  <2>1. o2 \in Ofts \cup {None} /\ files2 = [files1 EXCEPT ![p][d2] = o2]
    OBVIOUS
  <2> HIDE DEF files2
  <2>2. ShareMoves(files1, files2, files1[p][d2], o2)
    BY <1>2, <1>8, <2>1, FdSet
  <2> QED
    BY <1>8, <2>2
<1> HIDE DEF files2
<1>10. f.slips \in Nat /\ g.slips \in Nat /\ (g.slips = 0 => f.slips = 0)
  <2>1. f.slips \in Nat /\ g.slips \in Nat
    BY <1>1, FsTyped
  <2> QED
    BY <2>1 DEF TakesTwo
<1>11. SharesOK(ofts2, files2, g.slips = 0)
  <2>1. ASSUME NEW q \in Ofts
        PROVE  /\ ofts2[q].refs >= Sharers(files2, q)
               /\ Sharers(files2, q) > 0 => ofts2[q].ino # 0
               /\ g.slips = 0 /\ q # 0 => ofts2[q].refs = Sharers(files2, q)
               /\ ofts2[q].refs = 0 => ofts2[q].ino = 0
    <3>1. /\ Sharers(files2, q) = Sharers(files, q) + (IF o1 = q THEN 1 ELSE 0)
                                  + (IF o2 = q THEN 1 ELSE 0)
          /\ Sharers(files, q) \in Nat
      <4>1. q # None /\ Sharers(files, q) \in Nat
        BY <1>2, SharersCount
      <4>2. Sharers(files1, q) = Sharers(files, q) - (IF None = q THEN 1 ELSE 0) + (IF o1 = q THEN 1 ELSE 0)
        BY <1>8 DEF ShareMoves
      <4>3. Sharers(files2, q) = Sharers(files1, q) - (IF None = q THEN 1 ELSE 0) + (IF o2 = q THEN 1 ELSE 0)
        BY <1>9 DEF ShareMoves
      <4> QED
        BY <4>1, <4>2, <4>3
    <3>2. CASE q = o1 \/ q = o2
      <4>1. Sharers(files2, q) = 1 /\ ofts2[q] = e
        BY <1>4, <1>5, <1>7, <3>1, <3>2
      <4> QED
        BY <1>3, <4>1
    <3>3. CASE q # o1 /\ q # o2
      <4>1. Sharers(files2, q) = Sharers(files, q) /\ ofts2[q] = ofts[q]
        BY <1>4, <1>7, <3>1, <3>3
      <4> QED
        BY <1>1, <1>10, <4>1 DEF SharesOK
    <3> QED
      BY <3>2, <3>3
  <2> QED
    BY <2>1 DEF SharesOK
<1>12. RefsOK(g, ofts2, cwd, lv)
  <2>1. ASSUME NEW j \in FileInodes PROVE g.refs[j] = Opens(ofts2, j) + Count(lv, cwd, j)
    <3>1. g.refs[j] = f.refs[j] + (IF j = i THEN 2 ELSE 0)
      BY DEF TakesTwo
    <3>2. f.refs[j] = Opens(ofts, j) + Count(lv, cwd, j)
      BY <1>1 DEF RefsOK
    <3>3. Opens(ofts2, j) = Opens(ofts, j) + (IF i = j THEN 2 ELSE 0)
      <4>1. j # 0 /\ Opens(ofts, j) \in Nat
        BY <1>1, <1>4, FsTyped
      <4>2. Opens(ofts1, j) = Opens(ofts, j) - (IF 0 = j THEN 1 ELSE 0) + (IF i = j THEN 1 ELSE 0)
        BY <1>3, <1>4, <1>5
      <4>3. Opens(ofts2, j) = Opens(ofts1, j) - (IF 0 = j THEN 1 ELSE 0) + (IF i = j THEN 1 ELSE 0)
        BY <1>3, <1>5, <1>6, <1>7
      <4> QED
        BY <4>1, <4>2, <4>3
    <3>4. Count(lv, cwd, j) \in Nat /\ Opens(ofts, j) \in Nat
      BY <1>1, <1>4, CwdCount DEF Tables
    <3> QED
      BY <3>1, <3>2, <3>3, <3>4
  <2>2. ASSUME g.slips = 0 PROVE g.refs[Root] = Count(lv, cwd, Root) + 1
    BY <1>1, <1>10, <2>2 DEF TakesTwo, RefsOK
  <2> QED
    BY <2>1, <2>2 DEF RefsOK
<1>13. Tables(ofts2, files2, cwd, lv)
  <2>1. Tables(ofts1, files1, cwd, lv)
    BY <1>1, <1>4, TablesSet DEF files1
  <2> QED
    BY <1>7, <2>1, TablesSet DEF files2
<1>14. Sound(g, ofts2, files2, cwd, lv)
  BY <1>11, <1>12, <1>13 DEF Sound
<1>15. ofts2 = [ofts EXCEPT ![o1] = [refs |-> 1, ino |-> i], ![o2] = [refs |-> 1, ino |-> i]]
  BY DEF ofts2, ofts1, e
<1>16. files2 = [files EXCEPT ![p][d1] = o1, ![p][d2] = o2]
  BY DEF files2, files1
<1> QED
  BY <1>14, <1>15, <1>16

\* The directory of a process is held.
LEMMA CwdHeld ==
  ASSUME NEW f, NEW ofts, NEW files, NEW cwd, NEW lv, Sound(f, ofts, files, cwd, lv), NEW p \in lv
  PROVE  /\ cwd[p] \in Inodes /\ Held(f, cwd[p])
         /\ f.slips = 0 => f.refs[Root] > 0
         /\ f.slips = 0 => f.refs[Root] <= Cardinality(Procs) + 1
         /\ f.slips = 0 => f.refs[cwd[p]] <= OFTSIZE + Cardinality(Procs)
<1>1. FsOK(f) /\ Tables(ofts, files, cwd, lv) /\ RefsOK(f, ofts, cwd, lv)
  BY DEF Sound
<1>2. cwd[p] \in Inodes /\ lv \in SUBSET Procs
  BY <1>1 DEF Tables
<1>3. \A i : /\ Count(lv, cwd, i) \in Nat /\ Count(lv, cwd, i) <= Cardinality(Procs)
             /\ cwd[p] = i => Count(lv, cwd, i) > 0
  BY <1>2, CwdCount
<1>4. \A i : Opens(ofts, i) \in Nat /\ Opens(ofts, i) <= OFTSIZE
  BY TableConstants, OpensCount
<1>5. ASSUME f.slips = 0
      PROVE  f.refs[Root] > 0 /\ f.refs[Root] <= Cardinality(Procs) + 1
  <2>1. f.refs[Root] = Count(lv, cwd, Root) + 1
    BY <1>1, <1>5 DEF RefsOK
  <2>2. Count(lv, cwd, Root) \in Nat /\ Count(lv, cwd, Root) <= Cardinality(Procs)
    BY <1>3
  <2> QED
    BY <2>1, <2>2, TableConstants
<1>6. CASE cwd[p] = Root
  <2>1. OFTSIZE + Cardinality(Procs) >= Cardinality(Procs) + 1
    BY TableConstants
  <2>2. f.slips = 0 => f.refs[Root] <= OFTSIZE + Cardinality(Procs)
    <3>1. f.refs[Root] \in Nat
      BY <1>1, FsTyped, Constants
    <3> QED
      BY <1>5, <2>1, <3>1, TableConstants
  <2> QED
    BY <1>2, <1>5, <1>6, <2>2 DEF Held
<1>7. CASE cwd[p] # Root
  <2> DEFINE i == cwd[p]
  <2>1. i \in FileInodes
    BY <1>2, <1>7, Constants
  <2>2. f.refs[i] = Opens(ofts, i) + Count(lv, cwd, i)
    BY <1>1, <2>1 DEF RefsOK
  <2>3. /\ Opens(ofts, i) \in Nat /\ Opens(ofts, i) <= OFTSIZE
        /\ Count(lv, cwd, i) \in Nat /\ Count(lv, cwd, i) <= Cardinality(Procs) /\ Count(lv, cwd, i) > 0
    BY <1>3, <1>4
  <2>4. f.refs[i] > 0 /\ f.refs[i] <= OFTSIZE + Cardinality(Procs)
    BY <2>2, <2>3, TableConstants
  <2> QED
    BY <1>2, <1>5, <1>7, <2>4 DEF Held
<1> QED
  BY <1>6, <1>7

\* A process goes to another directory.
LEMMA ChdirGives ==
  ASSUME NEW f, NEW ofts, NEW files, NEW cwd, NEW lv, Sound(f, ofts, files, cwd, lv), NEW p \in lv,
         NEW d, FsOK(d), NEW i \in Inodes, Takes(f, d, i), NEW g, g = IDeref(d, cwd[p])
  PROVE  Sound(g, ofts, files, [cwd EXCEPT ![p] = i], lv)
<1> DEFINE old == cwd[p]
           cwd2 == [cwd EXCEPT ![p] = i]
<1>1. /\ FsOK(f) /\ Tables(ofts, files, cwd, lv)
      /\ SharesOK(ofts, files, f.slips = 0) /\ RefsOK(f, ofts, cwd, lv)
  BY DEF Sound
<1>2. old \in Inodes /\ Held(f, old) /\ lv \in SUBSET Procs /\ IsFiniteSet(lv)
      /\ cwd \in [Procs -> Inodes]
  BY <1>1, CwdHeld, TableConstants, FS_Subset DEF Tables
<1>3. /\ \A j \in FileInodes : j # Root /\ f.refs[j] \in Nat /\ d.refs[j] \in Nat /\ j \in Inodes
      /\ f.refs[Root] \in Nat /\ d.refs[Root] \in Nat /\ f.slips \in Nat /\ d.slips \in Nat
  BY <1>1, FsTyped, Constants
<1>4. d.slips = 0 => f.slips = 0
  BY <1>3 DEF Takes
<1> HIDE DEF old
<1>5. Held(d, old)
  <2>1. CASE old = Root
    BY <1>2, <1>3, <1>4, <2>1 DEF Held, Takes
  <2>2. CASE old # Root
    <3>1. old \in FileInodes /\ f.refs[old] > 0
      BY <1>2, <2>2, Constants DEF Held
    <3>2. d.refs[old] = f.refs[old] + (IF old = i THEN 1 ELSE 0)
      BY <3>1 DEF Takes
    <3>3. d.refs[old] > 0
      BY <1>3, <3>1, <3>2
    <3> QED
      BY <2>2, <3>3 DEF Held
  <2> QED
    BY <2>1, <2>2
<1>6. FsOK(g) /\ Drops(d, g, old)
  <2>1. g = IDeref(d, old)
    BY DEF old
  <2> QED
    BY <1>2, <1>5, <2>1, Dropping
<1>7. g.slips = d.slips
  BY <1>6 DEF Drops
<1>8. SharesOK(ofts, files, g.slips = 0)
  BY <1>1, <1>4, <1>7, SharesMono
<1>9. cwd2 \in [Procs -> Inodes] /\ Moves(lv, cwd, cwd2, p, i)
  BY <1>2 DEF Moves
<1>10. ASSUME NEW j
       PROVE  /\ Count(lv, cwd2, j) = Count(lv, cwd, j) - (IF old = j THEN 1 ELSE 0) + (IF i = j THEN 1 ELSE 0)
              /\ Count(lv, cwd, j) \in Nat
  BY <1>2, <1>9, CountMoves DEF old
<1> HIDE DEF cwd2
<1>11. RefsOK(g, ofts, cwd2, lv)
  <2>1. ASSUME NEW j \in FileInodes PROVE g.refs[j] = Opens(ofts, j) + Count(lv, cwd2, j)
    <3>1. g.refs[j] = d.refs[j] - (IF j = old THEN 1 ELSE 0)
      BY <1>6 DEF Drops
    <3>2. d.refs[j] = f.refs[j] + (IF j = i THEN 1 ELSE 0)
      BY DEF Takes
    <3>3. f.refs[j] = Opens(ofts, j) + Count(lv, cwd, j) /\ f.refs[j] \in Nat
      BY <1>1, <1>3 DEF RefsOK
    <3>4. Count(lv, cwd2, j) = Count(lv, cwd, j) - (IF old = j THEN 1 ELSE 0) + (IF i = j THEN 1 ELSE 0)
          /\ Count(lv, cwd, j) \in Nat
      BY <1>10
    <3>5. Opens(ofts, j) \in Nat
      BY TableConstants, OpensCount
    <3> QED
      BY <3>1, <3>2, <3>3, <3>4, <3>5
  <2>2. ASSUME g.slips = 0 PROVE g.refs[Root] = Count(lv, cwd2, Root) + 1
    <3>1. g.refs[Root] = d.refs[Root] - (IF Root = old THEN 1 ELSE 0)
      BY <1>6, <2>2 DEF Drops
    <3>2. d.refs[Root] = f.refs[Root] + (IF Root = i THEN 1 ELSE 0)
      BY <1>7, <2>2 DEF Takes
    <3>3. f.refs[Root] = Count(lv, cwd, Root) + 1
      BY <1>1, <1>4, <1>7, <2>2 DEF RefsOK
    <3>4. Count(lv, cwd2, Root) = Count(lv, cwd, Root) - (IF old = Root THEN 1 ELSE 0)
                                  + (IF i = Root THEN 1 ELSE 0)
          /\ Count(lv, cwd, Root) \in Nat
      BY <1>10
    <3> QED
      BY <3>1, <3>2, <3>3, <3>4
  <2> QED
    BY <2>1, <2>2 DEF RefsOK
<1>12. Tables(ofts, files, cwd2, lv)
  BY <1>1, <1>9 DEF Tables
<1>13. Sound(g, ofts, files, cwd2, lv)
  BY <1>6, <1>8, <1>11, <1>12 DEF Sound
<1> QED
  BY <1>13 DEF cwd2

\* A process without open files leaves.
LEMMA LeaveGives ==
  ASSUME NEW f, NEW ofts, NEW files, NEW cwd, NEW lv, Sound(f, ofts, files, cwd, lv), NEW p \in lv,
         files[p] = NoFiles, NEW g, g = IDeref(f, cwd[p])
  PROVE  Sound(g, ofts, files, [cwd EXCEPT ![p] = Root], lv \ {p})
<1> DEFINE old == cwd[p]
           cwd2 == [cwd EXCEPT ![p] = Root]
           rest == lv \ {p}
<1>1. /\ FsOK(f) /\ Tables(ofts, files, cwd, lv)
      /\ SharesOK(ofts, files, f.slips = 0) /\ RefsOK(f, ofts, cwd, lv)
  BY DEF Sound
<1>2. old \in Inodes /\ Held(f, old) /\ lv \in SUBSET Procs /\ IsFiniteSet(lv)
      /\ cwd \in [Procs -> Inodes]
  BY <1>1, CwdHeld, TableConstants, FS_Subset DEF Tables
<1>3. FsOK(g) /\ Drops(f, g, old)
  BY <1>1, <1>2, Dropping
<1>4. g.slips = f.slips
  BY <1>3 DEF Drops
<1>5. cwd2 \in [Procs -> Inodes] /\ Agree(rest, cwd2, cwd) /\ Gains(rest, lv, p)
  BY <1>2, Constants DEF Agree, Gains
<1>6. IsFiniteSet(rest)
  BY <1>2, FS_Subset
<1> HIDE DEF rest, cwd2
<1>7. ASSUME NEW j
      PROVE  /\ Count(rest, cwd2, j) \in Nat
             /\ Count(lv, cwd, j) = Count(rest, cwd2, j) + (IF old = j THEN 1 ELSE 0)
  BY <1>5, <1>6, CountGrows
<1> HIDE DEF old
<1>8. RefsOK(g, ofts, cwd2, rest)
  <2>1. ASSUME NEW j \in FileInodes PROVE g.refs[j] = Opens(ofts, j) + Count(rest, cwd2, j)
    <3>1. g.refs[j] = f.refs[j] - (IF j = old THEN 1 ELSE 0)
      BY <1>3 DEF Drops
    <3>2. f.refs[j] = Opens(ofts, j) + Count(lv, cwd, j)
      BY <1>1 DEF RefsOK
    <3>3. Opens(ofts, j) \in Nat
      BY TableConstants, OpensCount
    <3>4. Count(lv, cwd, j) = Count(rest, cwd2, j) + (IF old = j THEN 1 ELSE 0)
          /\ Count(rest, cwd2, j) \in Nat
      BY <1>7
    <3> QED
      BY <3>1, <3>2, <3>3, <3>4
  <2>2. ASSUME g.slips = 0 PROVE g.refs[Root] = Count(rest, cwd2, Root) + 1
    <3>1. g.refs[Root] = f.refs[Root] - (IF Root = old THEN 1 ELSE 0)
      BY <1>3, <2>2 DEF Drops
    <3>2. f.refs[Root] = Count(lv, cwd, Root) + 1
      BY <1>1, <1>4, <2>2 DEF RefsOK
    <3>3. Count(lv, cwd, Root) = Count(rest, cwd2, Root) + (IF old = Root THEN 1 ELSE 0)
          /\ Count(rest, cwd2, Root) \in Nat
      BY <1>7
    <3> QED
      BY <3>1, <3>2, <3>3
  <2> QED
    BY <2>1, <2>2 DEF RefsOK
<1>9. Tables(ofts, files, cwd2, rest)
  BY <1>1, <1>5 DEF Tables, rest
<1>10. Sound(g, ofts, files, cwd2, rest)
  <2>1. SharesOK(ofts, files, g.slips = 0)
    BY <1>1, <1>4
  <2> QED
    BY <1>3, <1>8, <1>9, <2>1 DEF Sound
<1> QED
  BY <1>10 DEF cwd2, rest

\* The child has each open file that the parent has.
LEMMA SharersFork ==
  ASSUME NEW files \in [Procs -> [Fds -> Ofts \cup {None}]], NEW p \in Procs, NEW q \in Procs,
         files[q] = NoFiles, p # q, NEW o \in Ofts,
         NEW res, res = [files EXCEPT ![q] = files[p]]
  PROVE  /\ Sharers(res, o) = Sharers(files, o) + Count(Fds, files[p], o)
         /\ Count(Fds, files[p], o) \in Nat
<1> DEFINE A == {pd \in Pairs : Flat(files)[pd] = o}
           D == {d \in Fds : files[p][d] = o}
           B == {<<q, d>> : d \in D}
           C == {pd \in Pairs : Flat(res)[pd] = o}
           r == [d \in D |-> <<q, d>>]
<1>1. None # o /\ \A d \in Fds : files[q][d] = None
  BY TableConstants DEF NoFiles
<1>2. IsFiniteSet(A) /\ IsFiniteSet(D)
  BY TableConstants, FS_Subset
<1>3. IsFiniteSet(B) /\ Cardinality(B) = Cardinality(D)
  <2>1. r \in [D -> B] /\ \A d1, d2 \in D : r[d1] = r[d2] => d1 = d2
    OBVIOUS
  <2>2. \A b \in B : \E d \in D : r[d] = b
    OBVIOUS
  <2> HIDE DEF r, B, D
  <2> QED
    BY <1>2, <2>1, <2>2, SameSize
<1>4. C = A \cup B
  <2>1. \A a \in Procs, b \in Fds : /\ <<a, b>> \in Pairs /\ Flat(files)[<<a, b>>] = files[a][b]
                                    /\ Flat(res)[<<a, b>>] = IF a = q THEN files[p][b] ELSE files[a][b]
    BY DEF Pairs, Flat
  <2>2. \A pd \in Pairs : \E a \in Procs, b \in Fds : pd = <<a, b>>
    BY DEF Pairs
  <2>3. ASSUME NEW pd \in C PROVE pd \in A \cup B
    <3>1. pd \in Pairs /\ Flat(res)[pd] = o
      OBVIOUS
    <3>2. PICK a \in Procs, b \in Fds : pd = <<a, b>>
      BY <2>2, <3>1
    <3>3. CASE a = q
      <4>1. b \in D
        BY <2>1, <3>1, <3>2, <3>3
      <4> QED
        BY <3>2, <3>3, <4>1
    <3>4. CASE a # q
      BY <2>1, <3>1, <3>2, <3>4
    <3> QED
      BY <3>3, <3>4
  <2>4. ASSUME NEW pd \in A PROVE pd \in C
    <3>1. pd \in Pairs /\ Flat(files)[pd] = o
      OBVIOUS
    <3>2. PICK a \in Procs, b \in Fds : pd = <<a, b>>
      BY <2>2, <3>1
    <3>3. a # q
      BY <1>1, <2>1, <3>1, <3>2
    <3> QED
      BY <2>1, <3>1, <3>2, <3>3
  <2>5. ASSUME NEW pd \in B PROVE pd \in C
    <3>1. PICK d \in D : pd = <<q, d>>
      OBVIOUS
    <3> QED
      BY <2>1, <3>1
  <2> QED
    BY <2>3, <2>4, <2>5
<1>5. A \cap B = {}
  <2>1. ASSUME NEW pd \in A, pd \in B PROVE FALSE
    <3>1. PICK d \in D : pd = <<q, d>>
      BY <2>1
    <3>2. Flat(files)[<<q, d>>] = files[q][d]
      BY <3>1 DEF Pairs, Flat
    <3> QED
      BY <1>1, <2>1, <3>1, <3>2
  <2> QED
    BY <2>1
<1> HIDE DEF A, B, C, D
<1>6. Cardinality(A \cup B) = Cardinality(A) + Cardinality(B) - Cardinality(A \cap B)
  BY <1>2, <1>3, FS_Union
<1>7. Cardinality(A \cap B) = 0 /\ Cardinality(A) \in Nat /\ Cardinality(D) \in Nat
  BY <1>2, <1>5, FS_EmptySet, FS_CardinalityType
<1>8. Cardinality(C) = Cardinality(A) + Cardinality(D)
  BY <1>3, <1>4, <1>6, <1>7
<1>9. Sharers(files, o) = Cardinality(A) /\ Sharers(res, o) = Cardinality(C)
      /\ Count(Fds, files[p], o) = Cardinality(D)
  BY DEF Sharers, Count, A, C, D
<1> QED
  BY <1>7, <1>8, <1>9

\* A child of p refers to the directory of p and to its entries.
Forked(f, ofts, files, cwd, p, g, ofts2) ==
  /\ g = IRef(f, cwd[p])
  /\ ofts2 = [o \in Ofts |-> [ofts[o] EXCEPT !.refs = @ + Count(Fds, files[p], o)]]

LEMMA ForkGives ==
  ASSUME NEW f, NEW ofts, NEW files, NEW cwd, NEW lv, Sound(f, ofts, files, cwd, lv), NEW p \in lv,
         NEW q \in Procs, q \notin lv, NEW g, NEW ofts2, Forked(f, ofts, files, cwd, p, g, ofts2)
  PROVE  Sound(g, ofts2, [files EXCEPT ![q] = files[p]], [cwd EXCEPT ![q] = cwd[p]], lv \cup {q})
<1> DEFINE i == cwd[p]
           files2 == [files EXCEPT ![q] = files[p]]
           cwd2 == [cwd EXCEPT ![q] = i]
           more == lv \cup {q}
<1>0. /\ g = IRef(f, cwd[p])
      /\ ofts2 = [o \in Ofts |-> [ofts[o] EXCEPT !.refs = @ + Count(Fds, files[p], o)]]
  BY DEF Forked
<1> USE <1>0
<1>1. /\ FsOK(f) /\ Tables(ofts, files, cwd, lv)
      /\ SharesOK(ofts, files, f.slips = 0) /\ RefsOK(f, ofts, cwd, lv)
  BY DEF Sound
<1>2. /\ i \in Inodes /\ Held(f, i)
      /\ f.slips = 0 => f.refs[i] <= OFTSIZE + Cardinality(Procs)
  BY CwdHeld
<1>3. /\ files \in [Procs -> [Fds -> Ofts \cup {None}]] /\ p \in Procs /\ p # q
      /\ ofts \in [Ofts -> OftEntry] /\ cwd \in [Procs -> Inodes] /\ files[q] = NoFiles
      /\ lv \in SUBSET Procs /\ IsFiniteSet(lv)
  BY <1>1, TableConstants, FS_Subset DEF Tables
<1>4. f \in FsType /\ f.slips \in Nat /\ f.refs \in [Inodes -> Nat] /\ Calm(f)
  BY <1>1, FsTyped DEF FsOK
<1> HIDE DEF i
<1>5. /\ Alike(f, g) /\ g.error = f.error /\ g.slips = f.slips
      /\ g.refs = [f.refs EXCEPT ![i] = @ + 1]
      /\ f.refs[i] + 1 # MaxRefs => g.panic = f.panic
  BY <1>2, <1>4, IRefGives DEF i
<1>6. FsOK(g)
  <2>1. Calm(g)
    <3>1. g.node = f.node
      BY <1>5 DEF Alike
    <3>2. ASSUME Roomy, f.slips = 0 PROVE f.refs[i] + 1 # MaxRefs
      <4>1. MaxRefs > OFTSIZE + Cardinality(Procs) + 2
        BY <3>2 DEF Roomy
      <4>2. f.refs[i] \in Nat /\ MaxRefs \in Nat
        BY <1>2, <1>4, Constants
      <4> QED
        BY <1>2, <3>2, <4>1, <4>2, TableConstants
    <3> QED
      BY <1>4, <1>5, <3>2, <3>1 DEF Calm, Undone
  <2>2. ASSUME NEW j \in FileInodes
        PROVE  /\ g.refs[j] = 0 => f.refs[j] = 0
               /\ g.refs[j] > 0 => f.refs[j] > 0 \/ f.node[j].type # "none"
    <3>1. f.refs[j] \in Nat /\ j \in Inodes /\ j # Root
      BY <1>1, FsTyped
    <3>2. g.refs[j] = IF j = i THEN f.refs[j] + 1 ELSE f.refs[j]
      BY <1>4, <1>5, <3>1
    <3>3. j = i => f.refs[j] > 0
      BY <1>2, <3>1 DEF Held
    <3> QED
      BY <3>1, <3>2, <3>3
  <2>3. g.slips >= f.slips
    BY <1>4, <1>5
  <2> QED
    BY <1>1, <1>5, <2>1, <2>2, <2>3, AlikeOK
<1>7. ASSUME NEW o \in Ofts
      PROVE  /\ ofts2[o].refs = ofts[o].refs + Count(Fds, files[p], o) /\ ofts2[o].ino = ofts[o].ino
             /\ ofts2[o] \in OftEntry /\ ofts[o].refs \in Nat
             /\ Sharers(files2, o) = Sharers(files, o) + Count(Fds, files[p], o)
             /\ Count(Fds, files[p], o) \in Nat
  <2> DEFINE more2 == Count(Fds, files[p], o)
  <2>1. Sharers(files2, o) = Sharers(files, o) + more2 /\ more2 \in Nat
    BY <1>3, SharersFork
  <2>2. ofts2[o] = [ofts[o] EXCEPT !.refs = @ + more2] /\ ofts[o] \in OftEntry
    BY <1>3
  <2> HIDE DEF more2
  <2>3. /\ ofts2[o].refs = ofts[o].refs + more2 /\ ofts2[o].ino = ofts[o].ino
        /\ ofts2[o] \in OftEntry /\ ofts[o].refs \in Nat
    BY <2>1, <2>2 DEF OftEntry
  <2> QED
    BY <2>1, <2>3 DEF more2
<1> HIDE DEF files2
<1>8. ofts2 \in [Ofts -> OftEntry]
  BY <1>7
<1>9. SharesOK(ofts2, files2, g.slips = 0)
  <2>1. ASSUME NEW o \in Ofts
        PROVE  /\ ofts2[o].refs >= Sharers(files2, o)
               /\ Sharers(files2, o) > 0 => ofts2[o].ino # 0
               /\ g.slips = 0 /\ o # 0 => ofts2[o].refs = Sharers(files2, o)
               /\ ofts2[o].refs = 0 => ofts2[o].ino = 0
    <3>1. /\ ofts[o].refs >= Sharers(files, o)
          /\ Sharers(files, o) > 0 => ofts[o].ino # 0
          /\ f.slips = 0 /\ o # 0 => ofts[o].refs = Sharers(files, o)
          /\ ofts[o].refs = 0 => ofts[o].ino = 0
      BY <1>1 DEF SharesOK
    <3>2. Sharers(files, o) \in Nat
      BY SharersCount
    <3>3. Count(Fds, files[p], o) > 0 => Sharers(files, o) > 0
      <4>1. SUFFICES ASSUME Count(Fds, files[p], o) > 0 PROVE Sharers(files, o) > 0
        OBVIOUS
      <4>2. Count(Fds, files[p], o) # 0
        BY <1>7, <4>1
      <4>3. PICK d \in Fds : files[p][d] = o
        BY <4>2, TableConstants, CountZero
      <4> QED
        BY <1>3, <4>3, SharerCounts
    <3> QED
      BY <1>5, <1>7, <3>1, <3>2, <3>3
  <2> QED
    BY <2>1 DEF SharesOK
<1>10. \A j : Opens(ofts2, j) = Opens(ofts, j) /\ Opens(ofts, j) \in Nat
  <2>1. InodeOf(ofts2) = InodeOf(ofts)
    BY <1>7 DEF InodeOf
  <2> QED
    BY <2>1, TableConstants, OpensCount DEF Opens
<1>11. cwd2 \in [Procs -> Inodes] /\ Agree(lv, cwd, cwd2) /\ Gains(lv, more, q) /\ cwd2[q] = i
  BY <1>2, <1>3 DEF Agree, Gains
<1> HIDE DEF cwd2, more
<1>12. ASSUME NEW j
       PROVE  /\ Count(lv, cwd, j) \in Nat
              /\ Count(more, cwd2, j) = Count(lv, cwd, j) + (IF i = j THEN 1 ELSE 0)
  BY <1>3, <1>11, CountGrows
<1>13. RefsOK(g, ofts2, cwd2, more)
  <2>1. ASSUME NEW j \in FileInodes PROVE g.refs[j] = Opens(ofts2, j) + Count(more, cwd2, j)
    <3>1. j \in Inodes
      BY Constants
    <3>2. g.refs[j] = IF j = i THEN f.refs[j] + 1 ELSE f.refs[j]
      BY <1>4, <1>5, <3>1
    <3>3. f.refs[j] = Opens(ofts, j) + Count(lv, cwd, j)
      BY <1>1 DEF RefsOK
    <3> QED
      BY <1>10, <1>12, <3>2, <3>3
  <2>2. ASSUME g.slips = 0 PROVE g.refs[Root] = Count(more, cwd2, Root) + 1
    <3>1. g.refs[Root] = IF Root = i THEN f.refs[Root] + 1 ELSE f.refs[Root]
      BY <1>4, <1>5, Constants
    <3>2. f.refs[Root] = Count(lv, cwd, Root) + 1
      BY <1>1, <1>5, <2>2 DEF RefsOK
    <3> QED
      BY <1>12, <3>1, <3>2
  <2> QED
    BY <2>1, <2>2 DEF RefsOK
<1>14. Tables(ofts2, files2, cwd2, more)
  <2>1. files2 \in [Procs -> [Fds -> Ofts \cup {None}]] /\ \A a \in Procs : a # q => files2[a] = files[a]
    BY <1>3 DEF files2
  <2> QED
    BY <1>1, <1>8, <1>11, <2>1 DEF Tables, more
<1>15. Sound(g, ofts2, files2, cwd2, more)
  BY <1>6, <1>9, <1>13, <1>14 DEF Sound
<1> QED
  BY <1>15 DEF files2, cwd2, more, i

-----------------------------------------------------------------------------
(* doexit closes the descriptors one after another. *)

\* The descriptors of p when those below k are closed.
FilesAt(p, k) ==
  [u_files EXCEPT ![p] = [d \in Fds |-> IF d < k THEN None ELSE u_files[p][d]]]
Stage(s, p, k) ==
  /\ s \in [f : FsType, ofts : [Ofts -> OftEntry]]
  /\ Sound(s.f, s.ofts, FilesAt(p, k), u_cwd, live) /\ s.f.error = FALSE

LEMMA StageGives ==
  ASSUME NEW p \in Procs, NEW k \in 1 .. UFTSIZE, NEW s, Stage(s, p, k - 1),
         u_files \in [Procs -> [Fds -> Ofts \cup {None}]]
  PROVE  Stage(ClosedOne(s, p, k - 1), p, k)
<1> DEFINE d == k - 1
           was == FilesAt(p, d)
           c == OftDeref(s, u_files[p][d])
<1>1. d \in Fds /\ \A e \in Fds : (e < k <=> e < d \/ e = d) /\ ~(d < d)
  BY FilesAssumption DEF Fds
<1>2. FilesAt(p, k) = [was EXCEPT ![p][d] = None]
  <2>1. was \in [Procs -> [Fds -> Ofts \cup {None}]]
    BY DEF FilesAt
  <2>2. was[p] = [e \in Fds |-> IF e < d THEN None ELSE u_files[p][e]]
    BY DEF FilesAt
  <2>3. [was[p] EXCEPT ![d] = None] = [e \in Fds |-> IF e < k THEN None ELSE u_files[p][e]]
    BY <1>1, <2>2
  <2>4. [was EXCEPT ![p][d] = None] = [was EXCEPT ![p] = [was[p] EXCEPT ![d] = None]]
    OBVIOUS
  <2>5. [was EXCEPT ![p] = [e \in Fds |-> IF e < k THEN None ELSE u_files[p][e]]] = FilesAt(p, k)
    BY DEF FilesAt
  <2> HIDE DEF was, d
  <2> QED
    BY <2>3, <2>4, <2>5
<1>3. was[p][d] = u_files[p][d]
  BY <1>1 DEF FilesAt
<1>4. /\ s \in [f : FsType, ofts : [Ofts -> OftEntry]]
      /\ Sound(s.f, s.ofts, was, u_cwd, live) /\ s.f.error = FALSE
  BY DEF Stage
<1>5. CASE u_files[p][d] = None
  <2>1. ClosedOne(s, p, k - 1) = s
    BY <1>5 DEF ClosedOne, IsOpen
  <2>2. [was EXCEPT ![p][d] = None] = was
    <3>1. was \in [Procs -> [Fds -> Ofts \cup {None}]]
      BY DEF FilesAt
    <3> HIDE DEF was, d
    <3> QED
      BY <1>1, <1>3, <1>5, <3>1
  <2> QED
    BY <1>2, <1>4, <2>1, <2>2 DEF Stage
<1>6. CASE u_files[p][d] # None
  <2>1. ClosedOne(s, p, k - 1) = c
    BY <1>6 DEF ClosedOne, IsOpen
  <2> HIDE DEF was
  <2>2. /\ Sound(c.f, c.ofts, [was EXCEPT ![p][d] = None], u_cwd, live)
        /\ c.f.error = s.f.error
    <3>1. was[p][d] # None /\ c = OftDeref(s, was[p][d])
      BY <1>3, <1>6
    <3>2. d \in Fds /\ Sound(s.f, s.ofts, was, u_cwd, live)
      BY <1>1, <1>4
    <3>3. Closes(s, was, p, d, c, [was EXCEPT ![p][d] = None])
      BY <3>1, <3>2 DEF Closes
    <3> DEFINE res == [was EXCEPT ![p][d] = None]
    <3> HIDE DEF c, d, res
    <3>4. Sound(c.f, c.ofts, res, u_cwd, live) /\ c.f.error = s.f.error
      <4>1. Closes(s, was, p, d, c, res)
        BY <3>3 DEF res
      <4>2. SoundPair(s, was, u_cwd, live)
        BY <3>2 DEF SoundPair
      <4>3. SoundPair(c, res, u_cwd, live) /\ c.f.error = s.f.error
        BY <4>1, <4>2, CloseGives
      <4> QED
        BY <4>3 DEF SoundPair
    <3> QED
      BY <3>4 DEF res
  <2>3. c \in [f : FsType, ofts : [Ofts -> OftEntry]]
    <3>1. c.f \in FsType /\ c.ofts \in [Ofts -> OftEntry]
      BY <2>2, FsTyped DEF Sound, Tables
    <3>2. c = [f |-> c.f, ofts |-> c.ofts]
      BY DEF OftDeref
    <3> QED
      BY <3>1, <3>2
  <2> HIDE DEF c
  <2>4. c.f.error = FALSE /\ Sound(c.f, c.ofts, FilesAt(p, k), u_cwd, live)
    BY <1>2, <1>4, <2>2
  <2> QED
    BY <2>1, <2>3, <2>4 DEF Stage
<1> QED
  BY <1>5, <1>6

LEMMA ClosedAllGives ==
  ASSUME IInv, NEW p \in Procs, NEW c, c = ClosedAll(p)
  PROVE  /\ Sound(c.f, c.ofts, [u_files EXCEPT ![p] = NoFiles], u_cwd, live)
         /\ c.f.error = FALSE
<1> DEFINE N == UFTSIZE
           St == [f : FsType, ofts : [Ofts -> OftEntry]]
           s0 == [f |-> fs, ofts |-> of_tab]
           F == [k \in 1 .. N |->
                  [s \in St |-> IF Stage(s, p, k - 1) THEN ClosedOne(s, p, k - 1) ELSE s]]
           closed == CHOOSE g : g = [d \in 0 .. N |-> IF d = 0 THEN s0
                                                      ELSE ClosedOne(g[d - 1], p, d - 1)]
<1>1. N \in Nat /\ u_files \in [Procs -> [Fds -> Ofts \cup {None}]]
  BY FilesAssumption DEF IInv, Sound, Tables
<1>2. s0 \in St /\ Stage(s0, p, 0)
  <2>1. FilesAt(p, 0) = u_files
    <3>1. [d \in Fds |-> IF d < 0 THEN None ELSE u_files[p][d]] = u_files[p]
      BY <1>1 DEF Fds
    <3> QED
      BY <1>1, <3>1 DEF FilesAt
  <2>2. fs \in FsType /\ of_tab \in [Ofts -> OftEntry]
    BY FsTyped DEF IInv, Sound, Tables
  <2>3. s0.f = fs /\ s0.ofts = of_tab /\ s0 \in St
    BY <2>2
  <2> HIDE DEF s0, St
  <2> QED
    BY <2>1, <2>3 DEF IInv, Stage, St
<1>3. \A s : \A k \in 1 .. N : Stage(s, p, k - 1) => Stage(ClosedOne(s, p, k - 1), p, k)
  BY <1>1, StageGives
<1>4. \A s, k : Stage(s, p, k) => s \in St
  BY DEF Stage
<1> HIDE DEF St, s0
<1>5. F \in [1 .. N -> [St -> St]]
  BY <1>3, <1>4
<1>6. PICK g : Solves(g, N, St, s0, F)
  <2> HIDE DEF F, N
  <2> QED
    BY <1>1, <1>2, <1>5, RecursionSolved
<1>7. g \in [0 .. N -> St] /\ g[0] = s0 /\ \A k \in 1 .. N : g[k] = F[k][g[k - 1]]
  BY <1>6 DEF Solves
<1>8. \A k \in 0 .. N : Stage(g[k], p, k)
  <2> DEFINE S == {k \in 0 .. N : Stage(g[k], p, k)}
  <2>1. 0 \in S
    BY <1>1, <1>2, <1>7
  <2>2. ASSUME NEW n \in 0 .. N - 1, n \in S PROVE n + 1 \in S
    <3>1. n + 1 \in 1 .. N /\ (n + 1) - 1 = n /\ n + 1 \in 0 .. N
      BY <1>1
    <3>2. Stage(g[n], p, n) /\ g[n] \in St
      BY <1>4, <2>2
    <3>3. g[n + 1] = ClosedOne(g[n], p, n)
      BY <1>7, <3>1, <3>2
    <3>4. Stage(ClosedOne(g[n], p, n), p, n + 1)
      BY <1>3, <3>1, <3>2
    <3> QED
      BY <3>1, <3>3, <3>4
  <2> HIDE DEF S
  <2>3. 0 .. N \subseteq S
    BY <1>1, <2>1, <2>2, IntervalInduction
  <2> QED
    BY <2>3 DEF S
<1>9. \A k \in 1 .. N : g[k] = ClosedOne(g[k - 1], p, k - 1)
  <2>1. \A k \in 1 .. N : k - 1 \in 0 .. N
    BY <1>1
  <2> QED
    BY <1>4, <1>7, <1>8, <2>1
<1>10. g = [d \in 0 .. N |-> IF d = 0 THEN s0 ELSE ClosedOne(g[d - 1], p, d - 1)]
  <2>1. \A d \in 0 .. N : g[d] = IF d = 0 THEN s0 ELSE ClosedOne(g[d - 1], p, d - 1)
    BY <1>1, <1>7, <1>9
  <2> HIDE DEF F, N
  <2> QED
    BY <1>7, <2>1
<1>11. closed = [d \in 0 .. N |-> IF d = 0 THEN s0 ELSE ClosedOne(closed[d - 1], p, d - 1)]
  <2> HIDE DEF F, N
  <2> QED
    BY <1>10, Zenon
<1>12. c = closed[N]
  BY Zenon DEF ClosedAll, s0
<1> HIDE DEF closed
<1>13. \A k \in 0 .. N : closed[k] = g[k]
  <2> DEFINE S == {k \in 0 .. N : closed[k] = g[k]}
  <2>1. 0 \in S
    BY <1>1, <1>7, <1>11
  <2>2. ASSUME NEW n \in 0 .. N - 1, n \in S PROVE n + 1 \in S
    <3>1. n + 1 \in 1 .. N /\ (n + 1) - 1 = n /\ n + 1 \in 0 .. N /\ n + 1 # 0
      BY <1>1
    <3>2. closed[n] = g[n]
      BY <2>2
    <3>3. closed[n + 1] = ClosedOne(closed[n], p, n)
      BY <1>11, <3>1
    <3>4. g[n + 1] = ClosedOne(g[n], p, n)
      BY <1>9, <3>1
    <3> QED
      BY <3>1, <3>2, <3>3, <3>4
  <2> HIDE DEF S
  <2>3. 0 .. N \subseteq S
    BY <1>1, <2>1, <2>2, IntervalInduction
  <2> QED
    BY <2>3 DEF S
<1>14. Stage(c, p, N)
  BY <1>1, <1>8, <1>12, <1>13
<1>15. FilesAt(p, N) = [u_files EXCEPT ![p] = NoFiles]
  <2>1. [d \in Fds |-> IF d < N THEN None ELSE u_files[p][d]] = NoFiles
    BY <1>1 DEF Fds, NoFiles
  <2> QED
    BY <2>1 DEF FilesAt
<1> QED
  BY <1>14, <1>15 DEF Stage

-----------------------------------------------------------------------------
(* The invariant begins and every call keeps it. *)

LEMMA InitGives == Init => IInv
<1> SUFFICES ASSUME Init PROVE IInv
  OBVIOUS
<1>1. /\ MadeInodes[Root] = [type |-> "DIR", nlink |-> 3, dev |-> 0]
      /\ \A i \in FileInodes : MadeInodes[i] = Free /\ i \in Inodes
      /\ MadeInodes \in [Inodes -> Nodes] /\ Root \in Inodes
  <2>1. Free \in Nodes /\ [type |-> "DIR", nlink |-> 3, dev |-> 0] \in Nodes
    BY DEF Free, Nodes, Types
  <2> QED
    BY <2>1, Constants DEF MadeInodes
<1>2. /\ fs.refs \in [Inodes -> Nat] /\ fs.refs[Root] = 2
      /\ \A i \in FileInodes : fs.refs[i] = 0
  BY <1>1, Constants DEF Init
<1>3. /\ fs.node = MadeInodes /\ fs.disk = MadeInodes /\ fs.mounted = TRUE
      /\ fs.dirty = [i \in Inodes |-> FALSE] /\ fs.inode = <<>> /\ fs.tinode = NI - 1
      /\ fs.dir = <<>> /\ fs.error = FALSE /\ fs.panic = "none" /\ fs.slips = 0
  BY DEF Init
<1>4. NI - 1 \in Nat /\ Cardinality(FileInodes) = NI - 1
  <2>1. NI \in Nat /\ NI > 1
    BY FilesAssumption
  <2>2. Cardinality(2 .. NI) = NI - 2 + 1
    BY <2>1, FS_Interval
  <2> QED
    BY <2>1, <2>2 DEF FileInodes
<1>5. <<>> \in Seq(FileInodes) /\ <<>> \in Seq(Entries) /\ Len(<<>>) = 0
  OBVIOUS
<1>6. fs \in FsType
  <2>1. fs = [refs |-> fs.refs, node |-> fs.node, dirty |-> fs.dirty, disk |-> fs.disk,
              inode |-> fs.inode, tinode |-> fs.tinode, mounted |-> fs.mounted,
              dir |-> fs.dir, error |-> fs.error, panic |-> fs.panic, slips |-> fs.slips]
    BY DEF Init
  <2>2. fs.dirty \in [Inodes -> BOOLEAN] /\ fs.panic \in Panics
    BY <1>3 DEF Panics
  <2>3. /\ fs.refs \in [Inodes -> Nat] /\ fs.node \in [Inodes -> Nodes]
        /\ fs.dirty \in [Inodes -> BOOLEAN] /\ fs.disk \in [Inodes -> Nodes]
    BY <1>1, <1>2, <1>3, <2>2
  <2>4. fs.inode \in Seq(FileInodes) /\ fs.dir \in Seq(Entries)
    BY <1>3, <1>5
  <2>5. fs.tinode \in Nat /\ fs.slips \in Nat
    BY <1>3, <1>4
  <2>6. fs.mounted \in BOOLEAN /\ fs.error \in BOOLEAN
    BY <1>3
  <2> QED
    BY <2>1, <2>2, <2>3, <2>4, <2>5, <2>6 DEF FsType
<1>7. FsOK(fs)
  <2>1. Sized(fs) /\ RootKept(fs) /\ DirSound(fs) /\ Calm(fs)
    BY <1>1, <1>3, <1>5, <1>6, FilesAssumption DEF Sized, RootKept, DirSound, Calm
  <2>2. Written(fs)
    BY <1>3 DEF Written
  <2>3. Whole(fs, {})
    BY <1>1, <1>2, <1>3 DEF Whole, Free
  <2>4. LinksCounted(fs)
    <3>1. ASSUME NEW i \in FileInodes PROVE EntriesOf(fs.dir, i) = 0
      <4>1. 1 .. Len(fs.dir) = {}
        BY <1>3, <1>5
      <4> QED
        BY <4>1, FS_EmptySet DEF EntriesOf, Count
    <3> QED
      BY <1>1, <1>3, <3>1 DEF LinksCounted, Free
  <2>5. Numbers(fs, Unused(fs))
    <3>1. Unused(fs) = FileInodes
      BY <1>1, <1>3 DEF Unused, Free
    <3>2. 1 .. Len(fs.inode) = {}
      BY <1>3, <1>5
    <3> QED
      BY <1>3, <1>4, <3>1, <3>2 DEF Numbers, Elements, Distinct
  <2> QED
    BY <2>1, <2>2, <2>3, <2>4, <2>5 DEF FsOK
<1>8. \A p \in Procs : u_files[p] = NoFiles /\ u_cwd[p] = Root
  BY DEF Init
<1>9. /\ \A o \in Ofts : of_tab[o].refs = (IF o = 0 THEN UFTSIZE ELSE 0) /\ of_tab[o].ino = 0
      /\ of_tab \in [Ofts -> OftEntry]
  BY FilesAssumption DEF Init, OftEntry
<1>10. Tables(of_tab, u_files, u_cwd, live)
  <2>1. NoFiles \in [Fds -> Ofts \cup {None}]
    BY DEF NoFiles
  <2>2. u_files \in [Procs -> [Fds -> Ofts \cup {None}]] /\ u_cwd \in [Procs -> Inodes]
    BY <1>1, <2>1 DEF Init
  <2>3. live \subseteq Procs
    BY TableConstants DEF Init
  <2> QED
    BY <1>8, <1>9, <2>2, <2>3 DEF Tables
<1>11. SharesOK(of_tab, u_files, fs.slips = 0)
  <2>1. ASSUME NEW o \in Ofts PROVE Sharers(u_files, o) = 0
    <3>1. o # None
      BY TableConstants
    <3>2. \A pd \in Pairs : Flat(u_files)[pd] # o
      BY <1>8, <3>1 DEF Pairs, Flat, NoFiles
    <3> QED
      BY <3>2, TableConstants, CountZero DEF Sharers
  <2> QED
    BY <1>9, <2>1, FilesAssumption DEF SharesOK
<1>12. RefsOK(fs, of_tab, u_cwd, live)
  <2>1. live = {InitProc} /\ InitProc \in Procs
    BY TableConstants DEF Init
  <2>2. ASSUME NEW i \in FileInodes PROVE Opens(of_tab, i) = 0 /\ Count(live, u_cwd, i) = 0
    <3>1. i # 0 /\ i # Root
      BY TableConstants, Constants
    <3>2. \A o \in Ofts : InodeOf(of_tab)[o] # i
      BY <1>9, <3>1 DEF InodeOf
    <3>3. \A q \in live : u_cwd[q] # i
      BY <1>8, <2>1, <3>1
    <3>4. IsFiniteSet(live)
      BY <2>1, FS_Singleton
    <3> QED
      BY <3>2, <3>3, <3>4, TableConstants, CountZero DEF Opens
  <2>3. Count(live, u_cwd, Root) = 1
    <3>1. {q \in live : u_cwd[q] = Root} = {InitProc}
      BY <1>8, <2>1
    <3> QED
      BY <3>1, FS_Singleton DEF Count
  <2> QED
    BY <1>2, <2>2, <2>3 DEF RefsOK
<1> QED
  BY <1>3, <1>7, <1>10, <1>11, <1>12 DEF IInv, Sound

\* What a running process finds.
LEMMA RunningGives ==
  ASSUME IInv, NEW p \in live
  PROVE  /\ FsOK(fs) /\ Ready(fs) /\ p \in Procs
         /\ Sound(fs, of_tab, u_files, u_cwd, live) /\ Tables(of_tab, u_files, u_cwd, live)
         /\ u_files[p] \in [Fds -> Ofts \cup {None}]
<1>1. /\ FsOK(fs) /\ p \in Procs /\ fs.error = FALSE
      /\ Sound(fs, of_tab, u_files, u_cwd, live) /\ Tables(of_tab, u_files, u_cwd, live)
      /\ u_files[p] \in [Fds -> Ofts \cup {None}]
  BY DEF IInv, Sound, Tables
<1>2. fs.slips = 0 => fs.refs[Root] > 0 /\ fs.refs[Root] <= Cardinality(Procs) + 1
  BY <1>1, CwdHeld
<1>3. fs.refs[Root] \in Nat
  BY <1>1, Constants, FsTyped
<1>4. Roomy /\ fs.slips = 0 => fs.refs[Root] + 2 < MaxRefs
  BY <1>2, <1>3, TableConstants, Constants DEF Roomy
<1> QED
  BY <1>1, <1>2, <1>4 DEF Ready

LEMMA Returned ==
  ASSUME NEW g, Returns(g), Sound(g, of_tab', u_files', u_cwd', live')
  PROVE  IInv'
<1>1. FsOK(fs') /\ fs'.error = FALSE /\ fs'.refs = g.refs /\ fs'.slips = g.slips
  BY ReturnGives DEF Returns, Sound
<1>2. Sound(fs', of_tab', u_files', u_cwd', live')
  BY <1>1 DEF Sound, RefsOK
<1> QED
  BY <1>1, <1>2 DEF IInv

LEMMA NothingStep ==
  ASSUME IInv, NEW g, FsOK(g), Takes(fs, g, 0), Returns(g), UNCHANGED <<of_tab, u_files, u_cwd, live>>
  PROVE  IInv'
<1>1. Sound(g, of_tab, u_files, u_cwd, live)
  BY NothingGives DEF IInv
<1>2. Sound(g, of_tab', u_files', u_cwd', live')
  BY <1>1
<1> QED
  BY <1>2, Returned

\* The least free descriptor and the least free entry.
LEMMA FreeGives ==
  ASSUME IInv, NEW p \in live
  PROVE  /\ FreeFds(u_files[p]) # {} => NewFd(p) \in Fds /\ u_files[p][NewFd(p)] = None
         /\ FreeOfts # {} => NewOft \in Ofts /\ of_tab[NewOft].refs = 0
<1>1. FreeFds(u_files[p]) \in SUBSET Nat /\ FreeOfts \in SUBSET Nat
  BY TableConstants DEF FreeFds, FreeOfts
<1>2. FreeFds(u_files[p]) # {} => NewFd(p) \in FreeFds(u_files[p])
  BY <1>1, LeastOf DEF NewFd
<1>3. FreeOfts # {} => NewOft \in FreeOfts
  BY <1>1, LeastOf DEF NewOft
<1> QED
  BY <1>2, <1>3 DEF FreeFds, FreeOfts

LEMMA InstallStep ==
  ASSUME IInv, NEW p \in live, CanOpen(p), NEW g, FsOK(g), NEW i \in FileInodes, Takes(fs, g, i),
         Returns(g), Installed(p, i), UNCHANGED <<u_cwd, live>>
  PROVE  IInv'
<1> DEFINE d == NewFd(p)
           o == NewOft
<1>1. d \in Fds /\ u_files[p][d] = None /\ o \in Ofts /\ of_tab[o].refs = 0
  BY FreeGives DEF CanOpen
<1>2. of_tab' = [of_tab EXCEPT ![o] = [refs |-> 1, ino |-> i]] /\ u_files' = [u_files EXCEPT ![p][d] = o]
  BY DEF Installed
<1> HIDE DEF d, o
<1>3. Sound(g, [of_tab EXCEPT ![o] = [refs |-> 1, ino |-> i]], [u_files EXCEPT ![p][d] = o], u_cwd, live)
  BY <1>1, InstallGives DEF IInv
<1>4. Sound(g, of_tab', u_files', u_cwd', live')
  BY <1>2, <1>3
<1> QED
  BY <1>4, Returned

\* The inode of an entry of the open file table is in use.
LEMMA OftHeld ==
  ASSUME IInv, NEW o \in Ofts, of_tab[o].ino \in FileInodes
  PROVE  fs.refs[of_tab[o].ino] > 0
<1> DEFINE i == of_tab[o].ino
<1>1. Opens(of_tab, i) \in Nat /\ Opens(of_tab, i) > 0
  BY OpensCount
<1>2. fs.refs[i] = Opens(of_tab, i) + Count(live, u_cwd, i)
  BY DEF IInv, Sound, RefsOK
<1>3. Count(live, u_cwd, i) \in Nat
  <2>1. IsFiniteSet(live)
    BY TableConstants, FS_Subset DEF IInv, Sound, Tables
  <2> QED
    BY <2>1, CountZero
<1> QED
  BY <1>1, <1>2, <1>3

\* A descriptor that is open leads to an inode that is in use.
LEMMA OpenHeld ==
  ASSUME IInv, NEW p \in Procs, NEW d \in Fds, u_files[p][d] # None
  PROVE  /\ u_files[p][d] \in Ofts /\ Sharers(u_files, u_files[p][d]) > 0
         /\ of_tab[u_files[p][d]].ino \in FileInodes
         /\ fs.refs[of_tab[u_files[p][d]].ino] > 0
<1> DEFINE o == u_files[p][d]
<1>1. o \in Ofts /\ Sharers(u_files, o) > 0
  BY SharerCounts DEF IInv, Sound, Tables
<1>2. of_tab[o].ino \in FileInodes /\ o \in Ofts
  <2>1. of_tab[o].ino # 0
    BY <1>1 DEF IInv, Sound, SharesOK
  <2> QED
    BY <1>1, <2>1, EntryTyped DEF IInv, Sound, Tables
<1> HIDE DEF o
<1>3. fs.refs[of_tab[o].ino] > 0
  BY <1>2, OftHeld
<1> QED
  BY <1>1, <1>2, <1>3 DEF o

LEMMA OpenStep ==
  ASSUME IInv, NEW p \in Procs, NEW name \in Names, Open(p, name)
  PROVE  IInv'
<1> DEFINE n == NOpen(fs, name)
           g == IDeref(n.f, Root)
<1>1. /\ p \in live /\ CanOpen(p) /\ Returns(g)
      /\ n.ino # 0 => Installed(p, n.ino)
      /\ n.ino = 0 => UNCHANGED <<of_tab, u_files>>
      /\ UNCHANGED <<u_cwd, live>>
  BY DEF Open, Running
<1>2. LookedUp(fs, name, n, g) /\ name # NoName
  <2>1. FsOK(fs) /\ Ready(fs) /\ name \in Names \cup {NoName} /\ name # NoName
    BY <1>1, RunningGives, FilesAssumption
  <2> QED
    BY <2>1, LookupGives
<1> HIDE DEF n, g
<1>3. FsOK(g) /\ Takes(fs, g, n.ino) /\ (n.ino # 0 => n.ino \in FileInodes)
  BY <1>2 DEF LookedUp
<1>4. CASE n.ino = 0
  BY <1>1, <1>3, <1>4, NothingStep
<1>5. CASE n.ino # 0
  BY <1>1, <1>3, <1>5, InstallStep
<1> QED
  BY <1>4, <1>5

LEMMA CreatOldStep ==
  ASSUME IInv, NEW p \in Procs, NEW name \in Names, CreatOld(p, name)
  PROVE  IInv'
<1> DEFINE n == NOpen(fs, name)
           d == IDeref(n.f, Root)
           g == IF d.node[n.ino].type = "REG" THEN FTrunc(d, n.ino) ELSE d
<1>1. /\ p \in live /\ CanOpen(p) /\ n.ino # 0 /\ Returns(g) /\ Installed(p, n.ino)
      /\ UNCHANGED <<u_cwd, live>>
  BY DEF CreatOld, Running
<1>2. FsOK(fs) /\ Ready(fs)
  BY <1>1, RunningGives
<1>3. FsOK(g) /\ Takes(fs, g, n.ino) /\ n.ino \in FileInodes
  BY <1>1, <1>2, CreatOldGives
<1> HIDE DEF n, g
<1> QED
  BY <1>1, <1>3, InstallStep

LEMMA CreatNewStep ==
  ASSUME IInv, NEW p \in Procs, NEW name \in Names, CreatNew(p, name)
  PROVE  IInv'
<1> DEFINE m == NewFile(NOpen(fs, name).f, name)
           g == IF m.ino # 0 THEN WrInode(m.f, m.ino) ELSE Slip(IDeref(m.f, Root))
<1>1. /\ p \in live /\ CanOpen(p) /\ NOpen(fs, name).ino = 0 /\ Returns(g)
      /\ m.ino # 0 => Installed(p, m.ino)
      /\ m.ino = 0 => UNCHANGED <<of_tab, u_files>>
      /\ UNCHANGED <<u_cwd, live>>
  BY DEF CreatNew, Running
<1>2. FsOK(fs) /\ Ready(fs) /\ Fresh(fs)
  BY <1>1, RunningGives DEF CreatNew, Running, Fresh
<1>3. FsOK(g) /\ Takes(fs, g, m.ino) /\ (m.ino = 0 \/ m.ino \in FileInodes)
  BY <1>1, <1>2, CreatNewGives
<1> HIDE DEF m, g
<1>4. CASE m.ino = 0
  BY <1>1, <1>3, <1>4, NothingStep
<1>5. CASE m.ino # 0
  BY <1>1, <1>3, <1>5, InstallStep
<1> QED
  BY <1>4, <1>5

LEMMA MknodStep ==
  ASSUME IInv, NEW p \in Procs, NEW name \in Names, NEW nod \in Nods,
         Mknod(p, name, nod[1], nod[2])
  PROVE  IInv'
<1> DEFINE m == NewFile(NOpen(fs, name).f, name)
           w == AsNod(m.f, m.ino, nod)
           g == IF m.ino # 0 THEN IDeref(w, m.ino) ELSE Slip(IDeref(m.f, Root))
<1>1. /\ p \in live /\ NOpen(fs, name).ino = 0 /\ Returns(g)
      /\ UNCHANGED <<of_tab, u_files, u_cwd, live>>
  BY DEF Mknod, Running, AsNod
<1>2. FsOK(fs) /\ Ready(fs) /\ Fresh(fs)
  BY <1>1, RunningGives DEF Mknod, Running, Fresh
<1>3. FsOK(g) /\ Takes(fs, g, 0)
  BY <1>1, <1>2, MknodGives
<1> HIDE DEF g
<1> QED
  BY <1>1, <1>3, NothingStep

LEMMA LinkStep ==
  ASSUME IInv, NEW p \in Procs, NEW name1 \in Names, NEW name2 \in Names, Link(p, name1, name2)
  PROVE  IInv'
<1> DEFINE n1 == NOpen(fs, name1)
           d == IDeref(n1.f, Root)
           n2 == NOpen(d, name2)
           c == ChLink(n2.f, NoName, name2, n1.ino)
           r == IF c.ok THEN IDeref(Linked(c.f, n1.ino), Root) ELSE Slip(c.f)
           g == IDeref(r, n1.ino)
<1>1. /\ p \in live /\ n1.ino # 0 /\ n2.ino = 0 /\ Returns(g)
      /\ UNCHANGED <<of_tab, u_files, u_cwd, live>>
  BY DEF Link, Running
<1>2. FsOK(fs) /\ Ready(fs)
  BY <1>1, RunningGives
<1>3. FsOK(g) /\ Takes(fs, g, 0)
  BY <1>1, <1>2, LinkGives
<1> HIDE DEF g
<1> QED
  BY <1>1, <1>3, NothingStep

LEMMA UnlinkStep ==
  ASSUME IInv, NEW p \in Procs, NEW name \in Names, Unlink(p, name)
  PROVE  IInv'
<1> DEFINE n == NOpen(fs, name)
           c == ChLink(n.f, name, NoName, 0)
           r == IF c.ok THEN Unlinked(c.f, n.ino) ELSE c.f
           g == IF n.ino = 0 THEN Slip(n.f) ELSE IDeref(IDeref(r, Root), n.ino)
<1>1. p \in live /\ Returns(g) /\ UNCHANGED <<of_tab, u_files, u_cwd, live>>
  BY DEF Unlink, Running
<1>2. FsOK(fs) /\ Ready(fs)
  BY <1>1, RunningGives
<1>3. FsOK(g) /\ Takes(fs, g, 0)
  BY <1>1, <1>2, UnlinkGives
<1> HIDE DEF g
<1> QED
  BY <1>1, <1>3, NothingStep

LEMMA ChmodStep ==
  ASSUME IInv, NEW p \in Procs, NEW name \in Names, Chmod(p, name)
  PROVE  IInv'
<1> DEFINE n == NOpen(fs, name)
           d == IDeref(n.f, Root)
           g == IDeref(Touch(d, n.ino), n.ino)
<1>1. p \in live /\ n.ino # 0 /\ Returns(g) /\ UNCHANGED <<of_tab, u_files, u_cwd, live>>
  BY DEF Chmod, Running
<1>2. FsOK(fs) /\ Ready(fs)
  BY <1>1, RunningGives
<1>3. FsOK(g) /\ Takes(fs, g, 0)
  BY <1>1, <1>2, ChmodGives
<1> HIDE DEF g
<1> QED
  BY <1>1, <1>3, NothingStep

LEMMA SyncStep ==
  ASSUME IInv, NEW p \in Procs, Sync(p)
  PROVE  IInv'
<1>1. FsOK(fs) /\ fs' = Synced(fs) /\ UNCHANGED <<of_tab, u_files, u_cwd, live>>
  BY DEF Sync, IInv, Sound
<1>2. /\ FsOK(fs') /\ Steady(fs, fs') /\ fs'.slips = fs.slips /\ fs'.error = fs.error
  BY <1>1, SyncedGives
<1>3. Sound(fs', of_tab', u_files', u_cwd', live')
  BY <1>1, <1>2 DEF IInv, Sound, RefsOK, Steady
<1> QED
  BY <1>2, <1>3 DEF IInv

LEMMA ReadWriteStep ==
  ASSUME IInv, NEW p \in Procs, NEW d \in Fds, ReadWrite(p, d)
  PROVE  IInv'
<1>1. /\ p \in live /\ u_files[p][d] # None /\ fs' = Touch(fs, of_tab[u_files[p][d]].ino)
      /\ UNCHANGED <<of_tab, u_files, u_cwd, live>>
  BY DEF ReadWrite, Running, IsOpen, FileOf
<1>2. /\ of_tab[u_files[p][d]].ino \in FileInodes /\ fs.refs[of_tab[u_files[p][d]].ino] > 0
  BY <1>1, OpenHeld
<1>3. FsOK(fs') /\ fs'.refs = fs.refs /\ fs'.slips = fs.slips /\ fs'.error = fs.error
  BY <1>1, <1>2, TouchOK DEF IInv, Sound
<1>4. Sound(fs', of_tab', u_files', u_cwd', live')
  BY <1>1, <1>3 DEF IInv, Sound, RefsOK
<1> QED
  BY <1>3, <1>4 DEF IInv

\* A descriptor takes one more reference to an entry that is shared.
LEMMA SharedStep ==
  ASSUME NEW f, NEW ofts, NEW files, Sound(f, ofts, files, u_cwd, live), Returns(f),
         NEW p \in live, NEW d \in Fds, files[p][d] = None, NEW o \in Ofts, Sharers(files, o) > 0,
         of_tab' = [ofts EXCEPT ![o].refs = @ + 1], u_files' = [files EXCEPT ![p][d] = o],
         UNCHANGED <<u_cwd, live>>
  PROVE  IInv'
<1>1. Sound(f, [ofts EXCEPT ![o].refs = @ + 1], [files EXCEPT ![p][d] = o], u_cwd, live)
  BY ShareGives
<1>2. Sound(f, of_tab', u_files', u_cwd', live')
  BY <1>1
<1> QED
  BY <1>2, Returned

LEMMA DupStep ==
  ASSUME IInv, NEW p \in Procs, NEW d \in Fds, Dup(p, d)
  PROVE  IInv'
<1> DEFINE e == NewFd(p)
           o == u_files[p][d]
<1>1. /\ p \in live /\ o # None /\ FreeFds(u_files[p]) # {}
      /\ u_files' = [u_files EXCEPT ![p][e] = o] /\ of_tab' = [of_tab EXCEPT ![o].refs = @ + 1]
      /\ UNCHANGED <<fs, u_cwd, live>>
  BY DEF Dup, Running, IsOpen
<1>2. e \in Fds /\ u_files[p][e] = None
  BY <1>1, FreeGives
<1>3. o \in Ofts /\ Sharers(u_files, o) > 0
  BY <1>1, OpenHeld
<1>4. Returns(fs) /\ Sound(fs, of_tab, u_files, u_cwd, live)
  <2>1. fs \in FsType /\ fs.error = FALSE
    BY FsTyped DEF IInv, Sound
  <2> QED
    BY <1>1, <2>1 DEF IInv, Returns, FsType
<1> HIDE DEF e, o
<1> QED
  BY <1>1, <1>2, <1>3, <1>4, SharedStep

\* What closing a descriptor that is open leaves.
LEMMA ClosedGives ==
  ASSUME IInv, NEW p \in Procs, NEW d \in Fds, u_files[p][d] # None,
         NEW c, c = OftDeref([f |-> fs, ofts |-> of_tab], u_files[p][d]),
         NEW res, res = [u_files EXCEPT ![p][d] = None]
  PROVE  Sound(c.f, c.ofts, res, u_cwd, live)
<1> DEFINE s == [f |-> fs, ofts |-> of_tab]
<1>1. SoundPair(s, u_files, u_cwd, live)
  BY DEF IInv, SoundPair
<1>2. Closes(s, u_files, p, d, c, res)
  BY DEF Closes
<1> HIDE DEF s
<1>3. SoundPair(c, res, u_cwd, live)
  BY <1>1, <1>2, CloseGives
<1> QED
  BY <1>3 DEF SoundPair

LEMMA CloseStep ==
  ASSUME IInv, NEW p \in Procs, NEW d \in Fds, Close(p, d)
  PROVE  IInv'
<1> DEFINE c == OftDeref([f |-> fs, ofts |-> of_tab], u_files[p][d])
           res == [u_files EXCEPT ![p][d] = None]
<1>1. /\ u_files[p][d] # None /\ Returns(c.f) /\ of_tab' = c.ofts /\ u_files' = res
      /\ UNCHANGED <<u_cwd, live>>
  BY DEF Close, IsOpen
<1>2. Sound(c.f, c.ofts, res, u_cwd, live)
  BY <1>1, ClosedGives
<1> HIDE DEF c, res
<1>3. Sound(c.f, of_tab', u_files', u_cwd', live')
  BY <1>1, <1>2
<1> QED
  BY <1>1, <1>3, Returned

LEMMA Dup2Step ==
  ASSUME IInv, NEW p \in Procs, NEW d \in Fds, NEW e \in Fds, Dup2(p, d, e)
  PROVE  IInv'
<1> DEFINE s == [f |-> fs, ofts |-> of_tab]
           c == IF IsOpen(p, e) THEN OftDeref(s, u_files[p][e]) ELSE s
           res == [u_files EXCEPT ![p][e] = None]
           o == u_files[p][d]
<1>1. /\ p \in live /\ o # None /\ Returns(c.f) /\ UNCHANGED <<u_cwd, live>>
      /\ d = e => of_tab' = c.ofts /\ u_files' = res
      /\ d # e => /\ of_tab' = [c.ofts EXCEPT ![o].refs = @ + 1]
                  /\ u_files' = [u_files EXCEPT ![p][e] = o]
  BY DEF Dup2, Running, IsOpen
<1>2. Tables(of_tab, u_files, u_cwd, live)
  BY DEF IInv, Sound
<1>3. /\ res \in [Procs -> [Fds -> Ofts \cup {None}]]
      /\ res[p][e] = None /\ (d # e => res[p][d] = o)
      /\ [res EXCEPT ![p][e] = o] = [u_files EXCEPT ![p][e] = o]
  BY <1>2 DEF Tables
<1>4. Sound(c.f, c.ofts, res, u_cwd, live)
  <2>1. CASE IsOpen(p, e)
    <3>1. u_files[p][e] # None /\ c = OftDeref(s, u_files[p][e])
      BY <2>1 DEF IsOpen
    <3> HIDE DEF c, res
    <3>2. res = [u_files EXCEPT ![p][e] = None]
      BY DEF res
    <3> QED
      BY <3>1, <3>2, ClosedGives
  <2>2. CASE ~IsOpen(p, e)
    <3>1. c.f = fs /\ c.ofts = of_tab
      BY <2>2
    <3>2. res = u_files
      BY <1>2, <2>2 DEF Tables, IsOpen
    <3> QED
      BY <3>1, <3>2 DEF IInv
  <2> QED
    BY <2>1, <2>2
<1>5. o \in Ofts
  BY <1>1, OpenHeld
<1>6. d # e => Sharers(res, o) > 0
  <2> HIDE DEF res, o
  <2> QED
    BY <1>3, SharerCounts
<1> HIDE DEF c, res, o
<1>7. CASE d = e
  <2>1. Sound(c.f, of_tab', u_files', u_cwd', live')
    BY <1>1, <1>4, <1>7
  <2> QED
    BY <1>1, <2>1, Returned
<1>8. CASE d # e
  <2>1. of_tab' = [c.ofts EXCEPT ![o].refs = @ + 1] /\ u_files' = [res EXCEPT ![p][e] = o]
    BY <1>1, <1>3, <1>8
  <2> QED
    BY <1>1, <1>3, <1>4, <1>5, <1>6, <1>8, <2>1, SharedStep
<1> QED
  BY <1>7, <1>8

\* An entry that is taken without an inode is lost.
LEMMA LostEntry ==
  ASSUME IInv, NEW o \in Ofts, of_tab[o].refs = 0
  PROVE  Sound(Slip(fs), [of_tab EXCEPT ![o].refs = 1], u_files, u_cwd, live)
<1> DEFINE ofts == [of_tab EXCEPT ![o].refs = 1]
<1>1. /\ FsOK(fs) /\ Tables(of_tab, u_files, u_cwd, live) /\ of_tab \in [Ofts -> OftEntry]
      /\ SharesOK(of_tab, u_files, fs.slips = 0) /\ RefsOK(fs, of_tab, u_cwd, live)
  BY DEF IInv, Sound, Tables
<1>2. FsOK(Slip(fs)) /\ Slip(fs).refs = fs.refs /\ Slip(fs).slips # 0
  <2>1. fs \in FsType /\ fs.slips \in Nat
    BY <1>1, FsTyped
  <2>2. Slip(fs).refs = fs.refs /\ Slip(fs).slips = fs.slips + 1
    BY <2>1, SlipGives
  <2> QED
    BY <1>1, <2>1, <2>2, Slipped, FsLinks
<1>3. of_tab[o].ino = 0 /\ Sharers(u_files, o) = 0
  <2>1. Sharers(u_files, o) \in Nat /\ of_tab[o].refs >= Sharers(u_files, o)
    BY <1>1, SharersCount DEF SharesOK
  <2> QED
    BY <1>1, <2>1 DEF SharesOK
<1>4. /\ ofts \in [Ofts -> OftEntry] /\ ofts[o].refs = 1 /\ ofts[o].ino = 0
      /\ \A q \in Ofts : q # o => ofts[q] = of_tab[q]
  BY <1>1, <1>3 DEF OftEntry
<1>5. InodeOf(ofts) = InodeOf(of_tab)
  BY <1>3, <1>4 DEF InodeOf
<1> HIDE DEF ofts
<1>6. Tables(ofts, u_files, u_cwd, live)
  BY <1>1, <1>4 DEF Tables
<1>7. SharesOK(ofts, u_files, Slip(fs).slips = 0)
  <2>1. ASSUME NEW q \in Ofts
        PROVE  /\ ofts[q].refs >= Sharers(u_files, q)
               /\ Sharers(u_files, q) > 0 => ofts[q].ino # 0
               /\ ofts[q].refs = 0 => ofts[q].ino = 0
    BY <1>1, <1>3, <1>4 DEF SharesOK
  <2> QED
    BY <1>2, <2>1 DEF SharesOK
<1>8. RefsOK(Slip(fs), ofts, u_cwd, live)
  BY <1>1, <1>2, <1>5 DEF RefsOK, Opens
<1> QED
  BY <1>2, <1>6, <1>7, <1>8 DEF Sound, ofts

LEMMA ChdirStep ==
  ASSUME IInv, NEW p \in Procs, NEW name \in Names \cup {NoName}, Chdir(p, name)
  PROVE  IInv'
<1> DEFINE n == NOpen(fs, name)
           d == IDeref(n.f, Root)
           g == IDeref(d, u_cwd[p])
<1>1. /\ p \in live /\ n.ino # 0 /\ Returns(g) /\ u_cwd' = [u_cwd EXCEPT ![p] = n.ino]
      /\ UNCHANGED <<of_tab, u_files, live>>
  BY DEF Chdir, Running
<1>2. LookedUp(fs, name, n, d)
  <2>1. FsOK(fs) /\ Ready(fs)
    BY <1>1, RunningGives
  <2> QED
    BY <2>1, LookupGives
<1>3. g = IDeref(d, u_cwd[p])
  OBVIOUS
<1> HIDE DEF n, d, g
<1>4. FsOK(d) /\ Takes(fs, d, n.ino) /\ n.ino \in Inodes
  BY <1>1, <1>2 DEF LookedUp
<1>5. Sound(g, of_tab, u_files, [u_cwd EXCEPT ![p] = n.ino], live)
  BY <1>1, <1>3, <1>4, ChdirGives DEF IInv
<1>6. Sound(g, of_tab', u_files', u_cwd', live')
  BY <1>1, <1>5
<1> QED
  BY <1>1, <1>6, Returned

LEMMA ForkStep ==
  ASSUME IInv, NEW p \in Procs, NEW q \in Procs, Fork(p, q)
  PROVE  IInv'
<1> DEFINE g == IRef(fs, u_cwd[p])
           ofts == [o \in Ofts |-> [of_tab[o] EXCEPT !.refs = @ + Count(Fds, u_files[p], o)]]
<1>1. /\ p \in live /\ q \notin live /\ Returns(g) /\ of_tab' = Shared(p)
      /\ u_files' = [u_files EXCEPT ![q] = u_files[p]]
      /\ u_cwd' = [u_cwd EXCEPT ![q] = u_cwd[p]] /\ live' = live \cup {q}
  BY DEF Fork, Running, ChildCwd
<1>2. Shared(p) = ofts
  BY DEF Shared, Holders, Count
<1>3. g = IRef(fs, u_cwd[p])
      /\ ofts = [o \in Ofts |-> [of_tab[o] EXCEPT !.refs = @ + Count(Fds, u_files[p], o)]]
  OBVIOUS
<1> HIDE DEF g, ofts
<1>4. Sound(g, ofts, [u_files EXCEPT ![q] = u_files[p]], [u_cwd EXCEPT ![q] = u_cwd[p]],
            live \cup {q})
  <2>1. /\ p \in live /\ q \in Procs /\ q \notin live
        /\ Sound(fs, of_tab, u_files, u_cwd, live)
    BY <1>1 DEF IInv
  <2>2. Forked(fs, of_tab, u_files, u_cwd, p, g, ofts)
    BY <1>3 DEF Forked
  <2> QED
    BY <2>1, <2>2, ForkGives
<1>5. Sound(g, of_tab', u_files', u_cwd', live')
  BY <1>1, <1>2, <1>4
<1> QED
  BY <1>1, <1>5, Returned

LEMMA ExitStep ==
  ASSUME IInv, NEW p \in Procs, Exit(p)
  PROVE  IInv'
<1> DEFINE c == ClosedAll(p)
           files == [u_files EXCEPT ![p] = NoFiles]
           g == IDeref(c.f, u_cwd[p])
<1>1. /\ p \in live /\ Returns(g) /\ of_tab' = c.ofts /\ u_files' = files
      /\ u_cwd' = [u_cwd EXCEPT ![p] = Root] /\ live' = live \ {p}
  BY DEF Exit, Running
<1>2. Sound(c.f, c.ofts, files, u_cwd, live)
  BY ClosedAllGives
<1>3. files[p] = NoFiles
  BY DEF IInv, Sound, Tables
<1>4. g = IDeref(c.f, u_cwd[p])
  OBVIOUS
<1> HIDE DEF c, files, g
<1>5. Sound(g, c.ofts, files, [u_cwd EXCEPT ![p] = Root], live \ {p})
  BY <1>1, <1>2, <1>3, <1>4, LeaveGives
<1>6. Sound(g, of_tab', u_files', u_cwd', live')
  BY <1>1, <1>5
<1> QED
  BY <1>1, <1>6, Returned

LEMMA PipeStep ==
  ASSUME IInv, NEW p \in Procs, PipeCall(p)
  PROVE  IInv'
<1> DEFINE o == IOpenNew(fs)
           i == o.ino
           u1 == NewFd(p)
           oft1 == NewOft
           left == FreeFds(u_files[p]) \ {u1}
           ofts == FreeOfts \ {oft1}
           u2 == Least(left)
           oft2 == Least(ofts)
           entry == [refs |-> 1, ino |-> i]
           g == AsPipe(o.f, i)
<1>1. /\ p \in live /\ CanOpen(p) /\ UNCHANGED <<u_cwd, live>>
      /\ \/ /\ left = {} /\ Returns(Slip(fs))
            /\ of_tab' = [of_tab EXCEPT ![oft1].refs = 1] /\ UNCHANGED u_files
         \/ /\ left # {} /\ ofts # {} /\ i = 0
            /\ Returns(o.f) /\ UNCHANGED <<of_tab, u_files>>
         \/ /\ left # {} /\ ofts # {} /\ i # 0 /\ Returns(g)
            /\ of_tab' = [of_tab EXCEPT ![oft1] = entry, ![oft2] = entry]
            /\ u_files' = [u_files EXCEPT ![p][u1] = oft1, ![p][u2] = oft2]
  BY Zenon DEF PipeCall, Running, AsPipe
<1>2. FsOK(fs) /\ Fresh(fs)
  BY DEF IInv, Sound, PipeCall, Running, Fresh
<1>3. /\ i = 0 => FsOK(o.f) /\ Takes(fs, o.f, 0)
      /\ i # 0 => i \in FileInodes /\ FsOK(g) /\ TakesTwo(fs, g, i)
  BY <1>2, PipeGives
<1>4. u1 \in Fds /\ u_files[p][u1] = None /\ oft1 \in Ofts /\ of_tab[oft1].refs = 0
  BY <1>1, FreeGives DEF CanOpen
<1> HIDE DEF o, g, u1, oft1
<1>5. CASE left = {}
  <2>1. Returns(Slip(fs)) /\ of_tab' = [of_tab EXCEPT ![oft1].refs = 1] /\ UNCHANGED u_files
    BY <1>1, <1>5
  <2>2. Sound(Slip(fs), [of_tab EXCEPT ![oft1].refs = 1], u_files, u_cwd, live)
    BY <1>4, LostEntry
  <2>3. Sound(Slip(fs), of_tab', u_files', u_cwd', live')
    BY <1>1, <2>1, <2>2
  <2> QED
    BY <2>1, <2>3, Returned
<1>6. CASE left # {} /\ i = 0
  BY <1>1, <1>3, <1>6, NothingStep
<1>7. CASE left # {} /\ i # 0
  <2>1. /\ ofts # {} /\ Returns(g)
        /\ of_tab' = [of_tab EXCEPT ![oft1] = entry, ![oft2] = entry]
        /\ u_files' = [u_files EXCEPT ![p][u1] = oft1, ![p][u2] = oft2]
    BY <1>1, <1>7
  <2>2. u2 \in left /\ oft2 \in ofts
    <3>1. left \in SUBSET Nat /\ ofts \in SUBSET Nat
      BY TableConstants DEF FreeFds, FreeOfts
    <3> HIDE DEF left, ofts
    <3> QED
      BY <1>7, <2>1, <3>1, LeastOf
  <2>3. /\ u2 \in Fds /\ u2 # u1 /\ u_files[p][u2] = None
        /\ oft2 \in Ofts /\ oft2 # oft1 /\ of_tab[oft2].refs = 0
    BY <2>2 DEF FreeFds, FreeOfts
  <2> HIDE DEF u2, oft2, i
  <2>4. Sound(g, [of_tab EXCEPT ![oft1] = entry, ![oft2] = entry],
              [u_files EXCEPT ![p][u1] = oft1, ![p][u2] = oft2], u_cwd, live)
    BY <1>1, <1>3, <1>4, <1>7, <2>3, PipeInstalled DEF IInv
  <2>5. Sound(g, of_tab', u_files', u_cwd', live')
    BY <1>1, <2>1, <2>4
  <2> QED
    BY <2>1, <2>5, Returned
<1> QED
  BY <1>5, <1>6, <1>7

LEMMA StepGives == IInv /\ [Next]_vars => IInv'
<1> SUFFICES ASSUME IInv, [Next]_vars PROVE IInv'
  OBVIOUS
<1>1. CASE UNCHANGED vars
  BY <1>1 DEF IInv, vars
<1>2. ASSUME NEW p \in Procs, NEW name \in Names \cup {NoName}, Chdir(p, name) PROVE IInv'
  BY <1>2, ChdirStep
<1>3. ASSUME NEW p \in Procs, NEW name \in Names,
             \/ Open(p, name)
             \/ CreatOld(p, name) \/ CreatNew(p, name) \/ Unlink(p, name) \/ Chmod(p, name)
             \/ \E nod \in Nods : Mknod(p, name, nod[1], nod[2])
             \/ \E old \in Names : Link(p, old, name)
      PROVE  IInv'
  BY <1>3, OpenStep, CreatOldStep, CreatNewStep, UnlinkStep, ChmodStep, MknodStep, LinkStep
<1>4. ASSUME NEW p \in Procs, PipeCall(p) PROVE IInv'
  BY <1>4, PipeStep
<1>5. ASSUME NEW p \in Procs, NEW d \in Fds, Dup(p, d) \/ Close(p, d) \/ ReadWrite(p, d)
      PROVE  IInv'
  BY <1>5, DupStep, CloseStep, ReadWriteStep
<1>6. ASSUME NEW p \in Procs, NEW d \in Fds, NEW e \in Fds, Dup2(p, d, e) PROVE IInv'
  BY <1>6, Dup2Step
<1>7. ASSUME NEW p \in Procs, Sync(p) PROVE IInv'
  BY <1>7, SyncStep
<1>8. ASSUME NEW p \in Procs, NEW q \in Procs, Fork(p, q) PROVE IInv'
  BY <1>8, ForkStep
<1>9. ASSUME NEW p \in Procs, Exit(p) PROVE IInv'
  BY <1>9, ExitStep
<1>10. CASE Next
  BY <1>2, <1>3, <1>4, <1>5, <1>6, <1>7, <1>8, <1>9, <1>10, Zenon DEF Next
<1> QED
  BY <1>1, <1>10

(* In every reachable state the tables are sound: what kernel/scall1.c,    *)
(* scall1b.c and scall2.c leave of the inode table, the open file table,   *)
(* the descriptors and the current directories agree with each other.      *)
THEOREM Invariance == Spec => []IInv
<1>1. Init => IInv
  BY InitGives
<1>2. IInv /\ [Next]_vars => IInv'
  BY StepGives
<1> QED
  BY <1>1, <1>2, PTL DEF Spec

-----------------------------------------------------------------------------
(* What it gives. *)

LEMMA Typed == IInv => TypeOK
<1> SUFFICES ASSUME IInv PROVE TypeOK
  OBVIOUS
<1>1. Sized(fs) /\ Tables(of_tab, u_files, u_cwd, live)
  BY DEF IInv, Sound, FsOK
<1> QED
  BY <1>1 DEF TypeOK, Sized, Tables, OftEntry

LEMMA SharingGives == ASSUME IInv, NEW o \in Ofts PROVE Sharing(o) = Sharers(u_files, o)
<1>1. /\ live \subseteq Procs /\ None # o
      /\ \A p \in Procs : p \notin live => u_files[p] = NoFiles
  BY TableConstants DEF IInv, Sound, Tables
<1>2. \A pd \in Pairs : Flat(u_files)[pd] = u_files[pd[1]][pd[2]]
  BY DEF Flat
<1>3. {pd \in live \X Fds : u_files[pd[1]][pd[2]] = o} = {pd \in Pairs : Flat(u_files)[pd] = o}
  <2>1. ASSUME NEW pd \in Pairs, u_files[pd[1]][pd[2]] = o PROVE pd \in live \X Fds
    <3>1. pd[1] \in Procs /\ pd[2] \in Fds /\ pd = <<pd[1], pd[2]>>
      BY DEF Pairs
    <3>2. pd[1] \in live
      BY <1>1, <2>1, <3>1 DEF NoFiles
    <3> QED
      BY <3>1, <3>2
  <2>2. live \X Fds \subseteq Pairs
    BY <1>1 DEF Pairs
  <2> QED
    BY <1>2, <2>1, <2>2
<1> QED
  BY <1>3 DEF Sharing, Sharers, Count

LEMMA FilesShared == IInv => OpenFilesShared
<1> SUFFICES ASSUME IInv, NEW o \in Ofts
             PROVE  /\ of_tab[o].refs >= Sharing(o)
                    /\ Sharing(o) > 0 => of_tab[o].ino # 0
                    /\ fs.slips = 0 /\ o # 0 => of_tab[o].refs = Sharing(o)
  BY DEF OpenFilesShared
<1>1. SharesOK(of_tab, u_files, fs.slips = 0)
  BY DEF IInv, Sound
<1> QED
  BY <1>1, SharingGives DEF SharesOK

LEMMA UsesGives ==
  ASSUME IInv, NEW i \in Inodes
  PROVE  Cardinality({o \in Ofts : of_tab[o].refs > 0 /\ of_tab[o].ino = i}) = Opens(of_tab, i)
<1>1. \A o \in Ofts : of_tab[o].refs \in Nat /\ (of_tab[o].refs = 0 => of_tab[o].ino = 0)
  BY EntryTyped DEF IInv, Sound, SharesOK, Tables
<1>2. \A o \in Ofts : of_tab[o].ino = i => of_tab[o].refs > 0
  BY <1>1, Constants
<1>3. {o \in Ofts : of_tab[o].refs > 0 /\ of_tab[o].ino = i} = {o \in Ofts : InodeOf(of_tab)[o] = i}
  BY <1>2 DEF InodeOf
<1> QED
  BY <1>3 DEF Opens, Count

LEMMA Counted == IInv => InodesCounted
<1> SUFFICES ASSUME IInv, fs.slips = 0, NEW i \in Inodes PROVE fs.refs[i] = Uses(i)
  BY DEF InodesCounted
<1>1. Uses(i) = Opens(of_tab, i) + Count(live, u_cwd, i) + (IF i = Root THEN 1 ELSE 0)
  BY UsesGives DEF Uses, Count
<1>2. RefsOK(fs, of_tab, u_cwd, live) /\ Tables(of_tab, u_files, u_cwd, live)
  BY DEF IInv, Sound
<1>3. Opens(of_tab, i) \in Nat /\ Count(live, u_cwd, i) \in Nat
  <2>1. IsFiniteSet(live)
    BY <1>2, TableConstants, FS_Subset DEF Tables
  <2> QED
    BY <2>1, TableConstants, CountZero DEF Opens
<1>4. CASE i = Root
  <2>1. \A o \in Ofts : InodeOf(of_tab)[o] # Root
    <3>1. \A o \in Ofts : of_tab[o].ino \in FileInodes \cup {0}
      BY <1>2, EntryTyped DEF Tables
    <3>2. Root \notin FileInodes \cup {0}
      BY Constants
    <3> QED
      BY <3>1, <3>2 DEF InodeOf
  <2>2. Opens(of_tab, Root) = 0
    BY <2>1, TableConstants, CountZero DEF Opens
  <2>3. fs.refs[Root] = Count(live, u_cwd, Root) + 1
    BY <1>2 DEF RefsOK
  <2> QED
    BY <1>1, <1>3, <1>4, <2>2, <2>3
<1>5. CASE i # Root
  <2>1. i \in FileInodes
    BY <1>5, Constants
  <2>2. fs.refs[i] = Opens(of_tab, i) + Count(live, u_cwd, i)
    BY <1>2, <2>1 DEF RefsOK
  <2> QED
    BY <1>1, <1>3, <1>5, <2>2
<1> QED
  BY <1>4, <1>5

LEMMA FilesExist == IInv => OpenFilesExist
<1> SUFFICES ASSUME IInv, NEW o \in Ofts, of_tab[o].ino # 0
             PROVE  fs.refs[of_tab[o].ino] > 0 /\ fs.node[of_tab[o].ino].type # "none"
  BY DEF OpenFilesExist
<1>1. of_tab[o].ino \in FileInodes
  BY EntryTyped DEF IInv, Sound, Tables
<1>2. fs.refs[of_tab[o].ino] > 0
  BY <1>1, OftHeld
<1> QED
  BY <1>1, <1>2 DEF IInv, Sound, FsOK, Whole

LEMMA LinksNamed == IInv => LinksAreNames
<1> SUFFICES ASSUME IInv, fs.slips = 0, NEW i \in FileInodes
             PROVE  /\ fs.node[i].nlink = NamesOf(i)
                    /\ NamesOf(i) > 0 => fs.node[i].type # "none"
  BY DEF LinksAreNames
<1>1. LinksCounted(fs) /\ Whole(fs, {})
  BY DEF IInv, Sound, FsOK
<1>2. NamesOf(i) = EntriesOf(fs.dir, i)
  <2>1. {k \in 1 .. Len(fs.dir) : fs.dir[k].ino = i} = {k \in 1 .. Len(fs.dir) : InoAt(fs.dir)[k] = i}
    BY DEF InoAt
  <2> QED
    BY <2>1 DEF NamesOf, EntriesOf, Count
<1>3. fs.node[i].nlink = NamesOf(i)
  BY <1>1, <1>2 DEF LinksCounted
<1>4. fs.node[i].type = "none" => fs.node[i].nlink = 0
  BY <1>1 DEF Whole
<1> QED
  BY <1>3, <1>4

LEMMA Wrote == IInv => ClosedIsWritten
<1> SUFFICES ASSUME IInv, NEW i \in Inodes, fs.refs[i] = 0
             PROVE  ~fs.dirty[i] /\ fs.disk[i] = fs.node[i]
  BY DEF ClosedIsWritten
<1>1. Written(fs)
  BY DEF IInv, Sound, FsOK
<1> QED
  BY <1>1 DEF Written

LEMMA Calmed == Roomy /\ IInv => NoPanic
  BY DEF IInv, Sound, FsOK, Calm, Undone, GoneDevices, Numbers, NoPanic

(* The tables keep their types: no count of references or links falls      *)
(* below zero, and s_inode and the directory stay within their room.       *)
THEOREM TypeIsKept == Spec => []TypeOK
  BY Invariance, Typed, PTL

(* An entry of the open file table has an inode and counts at least the    *)
(* descriptors that share it, exactly so until a call slips: dup, dup2,    *)
(* newproc, doclose and doexit never close a file under another's feet.    *)
THEOREM FilesAreShared == Spec => []OpenFilesShared
  BY Invariance, FilesShared, PTL

(* Until a call slips, c_refs is the number of open files and current      *)
(* directories that refer to the inode: i_open, i_ref and i_deref balance. *)
THEOREM InodesAreCounted == Spec => []InodesCounted
  BY Invariance, Counted, PTL

(* An open file's inode is in use and is not freed, whether or not calls   *)
(* slipped: i_deref frees only what nothing refers to.                     *)
THEOREM OpenFilesLast == Spec => []OpenFilesExist
  BY Invariance, FilesExist, PTL

(* Until a call slips, i_nlink is the number of names of an inode, and no  *)
(* name leads to a free one, over creat, mknod, link, unlink and pipe.     *)
THEOREM LinksAreCounted == Spec => []LinksAreNames
  BY Invariance, LinksNamed, PTL

(* An inode that nothing refers to is on the disk as it was left: i_deref  *)
(* and the calls that write an inode at once lose no change of it.         *)
THEOREM ClosedAreWritten == Spec => []ClosedIsWritten
  BY Invariance, Wrote, PTL

(* Until a call slips the only panic is that of a device that goes while   *)
(* its number, which f_trunc frees as a block, is no data block, and       *)
(* i_alloc trusts the superblock.  The limit of i_ref must be above what   *)
(* open files, directories and a search can add up to, and it is:          *)
(* 2 * ITABSIZE, OFTSIZE and PTABSIZE are 40, 15 and 20.                   *)
THEOREM NeverPanics == ASSUME Roomy PROVE Spec => []NoPanic
<1>1. IInv => NoPanic
  BY Calmed
<1> QED
  BY <1>1, Invariance, PTL
=============================================================================
