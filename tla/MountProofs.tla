---------------------------- MODULE MountProofs ----------------------------
(***************************************************************************)
(* Proofs about Mount, for any number of processes, open files, disks and  *)
(* any trees of directories: the counts are right, no disk is left hanging *)
(* under another, and an absolute path leads n_open to what it means.      *)
(***************************************************************************)
EXTENDS Mount, FiniteSetTheorems, SequenceTheorems, TLAPS

-----------------------------------------------------------------------------
(* Intervals, recursions and counting *)

(* A set with 0 that is closed under n + 1 below N has all of 0 .. N: of  *)
(* the numbers it misses there would be a least one.                      *)
LEMMA IntervalInduction ==
  ASSUME NEW N \in Nat, NEW S, 0 \in S, \A n \in 0 .. N - 1 : n \in S => n + 1 \in S
  PROVE  0 .. N \subseteq S
<1> DEFINE T == {n \in 0 .. N : n \notin S}
           Less == {ss \in Nat \X Nat : ss[1] < ss[2]}
<1> SUFFICES ASSUME T # {} PROVE FALSE
  OBVIOUS
<1>1. IsWellFoundedOn(Less, Nat) /\ T \subseteq Nat
  BY NatLessThanWellFounded DEF OpToRel
<1>2. PICK n \in T : \A m \in T : <<m, n>> \notin Less
  <2> HIDE DEF T, Less
  <2> QED
    BY <1>1, WFMin
<1>3. n - 1 \in T /\ <<n - 1, n>> \in Less
  OBVIOUS
<1> QED
  BY <1>2, <1>3

\* g is the sequence of states from s0, by the steps F.
Solves(g, N, St, s0, F) ==
  /\ g \in [0 .. N -> St]
  /\ g[0] = s0
  /\ \A k \in 1 .. N : g[k] = F[k][g[k - 1]]

(* A recursion whose steps stay in St has a solution in St: a recursive    *)
(* function that is one is what its equation says.                         *)
LEMMA RecursionSolved ==
  ASSUME NEW N \in Nat, NEW St, NEW s0 \in St, NEW F \in [1 .. N -> [St -> St]]
  PROVE  \E g : Solves(g, N, St, s0, F)
<1> DEFINE S == {n \in 0 .. N : \E g : Solves(g, n, St, s0, F)}
<1>1. 0 \in S
  <2>1. Solves([k \in 0 .. 0 |-> s0], 0, St, s0, F)
    BY DEF Solves
  <2> QED
    BY <2>1
<1>2. ASSUME NEW n \in 0 .. N - 1, n \in S PROVE n + 1 \in S
  <2>1. PICK g : Solves(g, n, St, s0, F)
    BY <1>2
  <2> DEFINE h == [k \in 0 .. n + 1 |-> IF k = n + 1 THEN F[n + 1][g[n]] ELSE g[k]]
  <2>2. g \in [0 .. n -> St] /\ g[n] \in St /\ n + 1 \in 1 .. N
    BY <2>1 DEF Solves
  <2>3. F[n + 1][g[n]] \in St
    BY <2>2
  <2>4. h \in [0 .. n + 1 -> St] /\ h[0] = s0
    BY <2>1, <2>2, <2>3 DEF Solves
  <2>5. ASSUME NEW k \in 1 .. n + 1 PROVE h[k] = F[k][h[k - 1]]
    <3>1. CASE k = n + 1
      <4>1. h[n + 1] = F[n + 1][g[n]] /\ h[n] = g[n]
        OBVIOUS
      <4>2. k - 1 = n
        BY <3>1
      <4> HIDE DEF h
      <4> QED
        BY <3>1, <4>1, <4>2
    <3>2. CASE k # n + 1
      <4>1. k \in 1 .. n /\ k \in 0 .. n + 1 /\ k - 1 \in 0 .. n + 1 /\ k - 1 # n + 1
        BY <3>2
      <4>2. h[k] = g[k] /\ h[k - 1] = g[k - 1]
        BY <4>1, <3>2
      <4>3. g[k] = F[k][g[k - 1]]
        BY <2>1, <4>1 DEF Solves
      <4> QED
        BY <4>2, <4>3
    <3> QED
      BY <3>1, <3>2
  <2>6. Solves(h, n + 1, St, s0, F)
    <3> HIDE DEF h
    <3> QED
      BY <2>4, <2>5 DEF Solves
  <2> QED
    BY <2>6
<1>3. N \in S
  <2> HIDE DEF S
  <2>1. 0 .. N \subseteq S
    BY <1>1, <1>2, IntervalInduction
  <2> QED
    BY <2>1
<1> QED
  BY <1>3

\* How many of S are at n.
Count(S, f, n) == Cardinality({q \in S : f[q] = n})
\* p moves to v.
Moves(S, f, g, p, v) == \A q \in S : g[q] = IF q = p THEN v ELSE f[q]

LEMMA CountMoves ==
  ASSUME NEW S, IsFiniteSet(S), NEW f, NEW g, NEW p \in S, NEW v, Moves(S, f, g, p, v), NEW n
  PROVE  /\ Count(S, f, n) \in Nat /\ Count(S, g, n) \in Nat
         /\ Count(S, g, n)
            = Count(S, f, n) - (IF f[p] = n THEN 1 ELSE 0) + (IF v = n THEN 1 ELSE 0)
<1> DEFINE B == {q \in S : f[q] = n}
           A == {q \in S : g[q] = n}
           R == B \ {p}
<1>1. IsFiniteSet(B) /\ IsFiniteSet(A) /\ IsFiniteSet(R)
  <2>1. B \subseteq S /\ A \subseteq S /\ R \subseteq S
    OBVIOUS
  <2> HIDE DEF A, B, R
  <2> QED
    BY <2>1, FS_Subset
<1>2. B = IF f[p] = n THEN R \cup {p} ELSE R
  BY DEF Moves
<1>3. A = IF v = n THEN R \cup {p} ELSE R
  BY DEF Moves
<1>4. p \notin R
  OBVIOUS
<1> HIDE DEF A, B, R
<1>5. Cardinality(R) \in Nat /\ Cardinality(A) \in Nat /\ Cardinality(B) \in Nat
  BY <1>1, FS_CardinalityType
<1>6. Cardinality(R \cup {p}) = Cardinality(R) + 1
  BY <1>1, <1>4, FS_AddElement
<1>7. Cardinality(B) = Cardinality(R) + (IF f[p] = n THEN 1 ELSE 0)
  BY <1>2, <1>5, <1>6
<1>8. Cardinality(A) = Cardinality(R) + (IF v = n THEN 1 ELSE 0)
  BY <1>3, <1>5, <1>6
<1>9. Cardinality(A) = Cardinality(B) - (IF f[p] = n THEN 1 ELSE 0) + (IF v = n THEN 1 ELSE 0)
  BY <1>5, <1>7, <1>8
<1> QED
  BY <1>5, <1>9 DEF A, B, Count

\* Who is counted at all.

LEMMA CountZero ==
  ASSUME NEW S, IsFiniteSet(S), NEW f, NEW n
  PROVE  /\ Count(S, f, n) \in Nat
         /\ Count(S, f, n) = 0 <=> \A q \in S : f[q] # n
<1> DEFINE B == {q \in S : f[q] = n}
<1>1. IsFiniteSet(B)
  BY FS_Subset
<1>2. B = {} <=> \A q \in S : f[q] # n
  OBVIOUS
<1> HIDE DEF B
<1>3. Cardinality(B) \in Nat /\ (Cardinality(B) = 0 <=> B = {})
  BY <1>1, FS_CardinalityType, FS_EmptySet
<1> QED
  BY <1>2, <1>3 DEF B, Count

-----------------------------------------------------------------------------
Inode == Nodes \cup {NULLINODE}

TypeOK ==
  /\ refs \in [Nodes -> Int]
  /\ fs_tab \in [Devs -> [mounted : {"SMOUNTED", "no", "other"}, mntpt : Inode \cup {Garbage}]]
  /\ u_cwd \in [Procs -> Dirs]
  /\ of_tab \in [Ofts -> Inode]
  /\ panicked \in BOOLEAN

RootMounted == fs_tab[ROOTDEV] = [mounted |-> "SMOUNTED", mntpt |-> NULLINODE]

\* A mounted disk holds a file system and lies on a directory of another mounted one.
LiesOn(d, n) == d \in FileSystems /\ n \in Dirs /\ n[1] # d /\ n[2] # ROOTINODE /\ Mounted(n[1])
MountsSound ==
  /\ \A d \in Devs \ {ROOTDEV} : Mounted(d) => LiesOn(d, fs_tab[d].mntpt)
  /\ \A d, e \in Devs \ {ROOTDEV} : Mounted(d) /\ Mounted(e) /\ fs_tab[d].mntpt = fs_tab[e].mntpt => d = e
  /\ \A d \in Devs : fs_tab[d].mounted = "other" => fs_tab[d].mntpt = Garbage

\* What processes hold lies on mounted disks and is not hidden by another.
HoldersSound ==
  /\ \A p \in Procs : Mounted(u_cwd[p][1]) /\ u_cwd[p] \notin Covered
  /\ \A o \in Ofts : of_tab[o] # NULLINODE => Mounted(of_tab[o][1]) /\ of_tab[o] \notin Covered

Counted ==
  \A n \in Nodes :
    refs[n] = Count(Procs, u_cwd, n) + Count(Ofts, of_tab, n)
              + (IF n \in Covered THEN 1 ELSE 0) + (IF n = root THEN 1 ELSE 0)

TableOK == TypeOK /\ RootMounted /\ MountsSound
IInv == TypeOK /\ (panicked \/ (RootMounted /\ MountsSound /\ HoldersSound /\ Counted))

-----------------------------------------------------------------------------
(* The table of mounted disks. *)

LEMMA Constants ==
  /\ NULLINODE \notin Nodes /\ Garbage \notin Nodes /\ Garbage # NULLINODE
  /\ \A n \in Nodes : n[1] \in Devs /\ n[2] \in Nat /\ n = <<n[1], n[2]>>
  /\ Dirs \subseteq Nodes /\ root \in Dirs /\ ROOTDEV \in Devs
  /\ \A d \in FileSystems : RootOf(d) \in Dirs
  /\ root[1] = ROOTDEV /\ root[2] = ROOTINODE
<1>1. Nodes \subseteq Devs \X Nat /\ Dirs \subseteq Nodes
  BY MountAssumption
<1>2. NULLINODE \notin Nodes /\ Garbage \notin Nodes /\ Garbage # NULLINODE
  BY <1>1 DEF NULLINODE, Garbage
<1> QED
  BY <1>1, <1>2, MountAssumption DEF root, RootOf, ROOTDEV, ROOTINODE, Devs

\* Which disk hides an inode, and where a search goes on that finds it.
LEMMA TopGives ==
  ASSUME TableOK, NEW n \in Nodes
  PROVE  /\ Top(n) \in Nodes /\ Top(n) \notin Covered
         /\ n \notin Covered => MountedOn(n) = {} /\ Top(n) = n
         /\ n \in Covered => /\ MountedOn(n) # {} /\ n \in Dirs /\ Top(n) \in Dirs
                             /\ \E d \in Devs \ {ROOTDEV} : /\ Mounted(d) /\ fs_tab[d].mntpt = n
                                                            /\ Top(n) = RootOf(d)
         /\ Mounted(n[1]) => Mounted(Top(n)[1])
<1> USE DEF TableOK
<1>1. MountedOn(n) = {d \in Devs \ {ROOTDEV} : Mounted(d) /\ fs_tab[d].mntpt = n}
  BY Constants DEF MountedOn, Mounted, RootMounted
<1>2. CASE MountedOn(n) = {}
  <2>1. n \notin Covered
    BY <1>1, <1>2 DEF Covered
  <2> QED
    BY <1>2, <2>1 DEF Top
<1>3. CASE MountedOn(n) # {}
  <2>1. PICK d \in Devs \ {ROOTDEV} : Mounted(d) /\ fs_tab[d].mntpt = n
    BY <1>1, <1>3
  <2>2. MountedOn(n) = {d}
    BY <1>1, <2>1 DEF MountsSound, LiesOn
  <2>3. First(MountedOn(n)) = d
    <3>1. \A e \in {d} : d <= e
      BY DEF Devs
    <3>2. \A c \in {d} : c = d
      OBVIOUS
    <3> QED
      BY <2>2, <3>1, <3>2 DEF First
  <2>4. Top(n) = RootOf(d)
    BY <1>3, <2>3 DEF Top
  <2>5. d \in FileSystems /\ n \in Dirs /\ n \in Covered
    BY <2>1 DEF MountsSound, LiesOn, Covered
  <2>6. RootOf(d) \in Dirs /\ RootOf(d)[1] = d /\ RootOf(d)[2] = ROOTINODE
    BY <2>5, Constants DEF RootOf
  <2>7. \A m \in Covered : m[2] # ROOTINODE
    BY DEF Covered, MountsSound, LiesOn
  <2> QED
    BY <1>3, <2>1, <2>4, <2>5, <2>6, <2>7, Constants
<1> QED
  BY <1>2, <1>3

-----------------------------------------------------------------------------
(* A search, from the counts r of before it. *)

SearchType ==
  [refs : [Nodes -> Int], wd : Nodes, ino : Inode, stop : BOOLEAN, full : BOOLEAN]

\* A search under way holds the directory it is in and the inode it found.
Walking(r, s) ==
  /\ s \in SearchType
  /\ \A n \in Nodes : s.refs[n] = r[n] + (IF ~s.stop /\ n = s.wd THEN 1 ELSE 0)
                                       + (IF n = s.ino THEN 1 ELSE 0)
  /\ s.stop \/ s.full => s.ino = NULLINODE
  /\ ~s.stop => s.wd \in Dirs /\ Mounted(s.wd[1])
  /\ s.ino # NULLINODE => Mounted(s.ino[1])

LEMMA IRefGives ==
  ASSUME NEW s \in SearchType, NEW n \in Nodes
  PROVE  IRef(s, n) = [refs |-> [s.refs EXCEPT ![n] = @ + 1], wd |-> s.wd, ino |-> s.ino,
                       stop |-> s.stop, full |-> s.full]
<1>1. IRef(s, n) = [s EXCEPT !.refs = [s.refs EXCEPT ![n] = @ + 1]]
  BY DEF IRef, SearchType
<1> QED
  BY <1>1 DEF SearchType

LEMMA IOpenGives ==
  ASSUME NEW s \in SearchType, NEW n \in Nodes
  PROVE  /\ IOpen(s, n) \in SearchType
         /\ IOpen(s, n).wd = s.wd /\ IOpen(s, n).stop = s.stop
         /\ \/ /\ IOpen(s, n).ino = n /\ IOpen(s, n).full = s.full
               /\ IOpen(s, n).refs = [s.refs EXCEPT ![n] = @ + 1]
            \/ /\ IOpen(s, n).ino = NULLINODE /\ IOpen(s, n).full
               /\ IOpen(s, n).refs = s.refs
<1>1. CASE n \in InUse(s) \/ Cardinality(InUse(s)) < ITABSIZE
  <2>1. IOpen(s, n) = [s EXCEPT !.refs = [s.refs EXCEPT ![n] = @ + 1], !.ino = n]
    BY <1>1 DEF IOpen, IRef, SearchType
  <2> DEFINE counts == [s.refs EXCEPT ![n] = @ + 1]
             t == [s EXCEPT !.refs = counts, !.ino = n]
  <2>2. counts \in [Nodes -> Int]
    BY DEF SearchType
  <2>3. t \in SearchType /\ t.wd = s.wd /\ t.stop = s.stop /\ t.refs = counts
        /\ t.ino = n /\ t.full = s.full
    <3> HIDE DEF counts
    <3> QED
      BY <2>2 DEF SearchType, Inode
  <2> QED
    BY <2>1, <2>3
<1>2. CASE ~(n \in InUse(s) \/ Cardinality(InUse(s)) < ITABSIZE)
  <2>1. IOpen(s, n) = [s EXCEPT !.ino = NULLINODE, !.full = TRUE]
    BY <1>2 DEF IOpen
  <2> DEFINE t == [s EXCEPT !.ino = NULLINODE, !.full = TRUE]
  <2>2. t \in SearchType /\ t.wd = s.wd /\ t.stop = s.stop /\ t.refs = s.refs
        /\ t.ino = NULLINODE /\ t.full
    BY DEF SearchType, Inode
  <2> QED
    BY <2>1, <2>2
<1> QED
  BY <1>1, <1>2

LEMMA SrchMtGives ==
  ASSUME TableOK, NEW r \in [Nodes -> Int], NEW s, Walking(r, s)
  PROVE  /\ Walking(r, SrchMt(s))
         /\ SrchMt(s).wd = s.wd /\ SrchMt(s).stop = s.stop
         /\ s.ino = NULLINODE => SrchMt(s) = s
         /\ SrchMt(s).ino # NULLINODE => SrchMt(s).ino \notin Covered
         /\ s.ino # NULLINODE => \/ SrchMt(s).ino = Top(s.ino) /\ SrchMt(s).full = s.full
                                 \/ SrchMt(s).ino = NULLINODE /\ SrchMt(s).full
<1>1. CASE s.ino = NULLINODE
  BY <1>1 DEF SrchMt
<1>2. CASE s.ino # NULLINODE /\ MountedOn(s.ino) = {}
  <2>1. s.ino \in Nodes
    BY <1>2 DEF Walking, SearchType, Inode
  <2>2. s.ino \notin Covered /\ Top(s.ino) = s.ino
    BY <2>1, <1>2, TopGives
  <2> QED
    BY <1>2, <2>2 DEF SrchMt
<1>3. CASE s.ino # NULLINODE /\ MountedOn(s.ino) # {}
  <2>1. s.ino \in Nodes
    BY <1>3 DEF Walking, SearchType, Inode
  <2> DEFINE n == RootOf(First(MountedOn(s.ino)))
             d == IDeref(s, s.ino)
  <2>2. n = Top(s.ino) /\ n \in Nodes /\ n \notin Covered /\ Mounted(n[1])
    BY <2>1, <1>3, TopGives DEF Top, Walking
  <2>3. d = [s EXCEPT !.refs = [s.refs EXCEPT ![s.ino] = @ - 1]] /\ d \in SearchType
    BY <2>1 DEF IDeref, Walking, SearchType
  <2>4. d.wd = s.wd /\ d.stop = s.stop /\ d.full = s.full
        /\ \A m \in Nodes : d.refs[m] = s.refs[m] - (IF m = s.ino THEN 1 ELSE 0)
    BY <2>1, <2>3 DEF Walking, SearchType
  <2>5. SrchMt(s) = IOpen(d, n)
    BY <1>3 DEF SrchMt
  <2>6. ~s.stop /\ ~s.full
    BY <1>3 DEF Walking
  <2> HIDE DEF n, d
  <2>7. /\ IOpen(d, n) \in SearchType
        /\ IOpen(d, n).wd = d.wd /\ IOpen(d, n).stop = d.stop
        /\ \/ /\ IOpen(d, n).ino = n /\ IOpen(d, n).full = d.full
              /\ IOpen(d, n).refs = [d.refs EXCEPT ![n] = @ + 1]
           \/ /\ IOpen(d, n).ino = NULLINODE /\ IOpen(d, n).full
              /\ IOpen(d, n).refs = d.refs
    BY <2>2, <2>3, IOpenGives
  <2>8. Walking(r, IOpen(d, n))
    <3>1. \A m \in Nodes : d.refs[m] = r[m] + (IF m = s.wd THEN 1 ELSE 0)
      BY <2>4, <2>6, <2>1 DEF Walking, SearchType
    <3>2. NULLINODE \notin Nodes /\ d.refs \in [Nodes -> Int]
      BY Constants, <2>3 DEF SearchType
    <3>3. \A m \in Nodes : IOpen(d, n).refs[m] = d.refs[m] + (IF m = IOpen(d, n).ino THEN 1 ELSE 0)
      BY <2>7, <2>2, <3>2 
    <3> QED
      BY <3>1, <3>3, <2>2, <2>4, <2>6, <2>7 DEF Walking
  <2> QED
    BY <1>3, <2>2, <2>4, <2>5, <2>7, <2>8
<1> QED
  BY <1>1, <1>2, <1>3

\* A search that holds only the directory it is in.
Inside(r, s) ==
  /\ s \in SearchType /\ ~s.stop /\ Mounted(s.wd[1])
  /\ \A n \in Nodes : s.refs[n] = r[n] + (IF n = s.wd THEN 1 ELSE 0)

LEMMA EnteredGives ==
  ASSUME NEW r \in [Nodes -> Int], NEW s, Walking(r, s), ~s.stop, s.ino # NULLINODE
  PROVE  Inside(r, Entered(s)) /\ Entered(s).wd = s.ino /\ Entered(s).full = FALSE
<1> DEFINE counts == [s.refs EXCEPT ![s.wd] = @ - 1]
           t == [s EXCEPT !.refs = counts, !.wd = s.ino]
<1>1. s.ino \in Nodes /\ s.wd \in Nodes /\ s.refs \in [Nodes -> Int]
  BY DEF Walking, SearchType, Inode
<1>2. Entered(s) = t
  BY DEF Entered, IDeref, Walking, SearchType
<1>3. counts \in [Nodes -> Int]
      /\ \A n \in Nodes : counts[n] = s.refs[n] - (IF n = s.wd THEN 1 ELSE 0)
  BY <1>1
<1> HIDE DEF counts
<1>4. t \in SearchType /\ t.refs = counts /\ t.wd = s.ino /\ t.stop = s.stop /\ t.full = s.full
  BY <1>1, <1>3 DEF Walking, SearchType
<1> HIDE DEF t
<1> QED
  BY <1>1, <1>2, <1>3, <1>4 DEF Inside, Walking, SearchType

LEMMA NoDirGives ==
  ASSUME NEW r \in [Nodes -> Int], NEW s \in SearchType,
         \A n \in Nodes : s.refs[n] = r[n] + (IF n = s.wd THEN 1 ELSE 0)
  PROVE  /\ Walking(r, NoDir(s)) /\ NoDir(s).stop
         /\ NoDir(s).ino = NULLINODE /\ NoDir(s).full = s.full
<1> DEFINE counts == [s.refs EXCEPT ![s.wd] = @ - 1]
           t == [s EXCEPT !.refs = counts, !.ino = NULLINODE, !.stop = TRUE]
<1>1. s.wd \in Nodes /\ s.refs \in [Nodes -> Int]
  BY DEF SearchType
<1>2. NoDir(s) = t
  BY DEF NoDir, IDeref, SearchType
<1>3. counts \in [Nodes -> Int] /\ \A n \in Nodes : counts[n] = r[n]
  BY <1>1
<1> HIDE DEF counts
<1>4. t \in SearchType /\ t.refs = counts /\ t.ino = NULLINODE /\ t.stop /\ t.full = s.full
  BY <1>3 DEF SearchType, Inode
<1> HIDE DEF t
<1> QED
  BY <1>2, <1>3, <1>4, Constants DEF Walking, SearchType

\* Where the search of a name goes on from a directory.
Base(n, name) == IF GoesUp(n, name) THEN fs_tab[n[1]].mntpt ELSE n

LEMMA BaseGives ==
  ASSUME TableOK, NEW n \in Dirs, Mounted(n[1]), NEW name
  PROVE  Base(n, name) \in Dirs /\ Mounted(Base(n, name)[1])
BY Constants DEF TableOK, MountsSound, LiesOn, Base, GoesUp

LEMMA UncoveredGives ==
  ASSUME TableOK, NEW r \in [Nodes -> Int], NEW s, Inside(r, s), s.wd \in Dirs, NEW name
  PROVE  /\ Inside(r, Uncovered(s, name)) /\ Uncovered(s, name).wd = Base(s.wd, name)
         /\ Uncovered(s, name).wd \in Dirs /\ Uncovered(s, name).full = s.full
<1>1. CASE ~GoesUp(s.wd, name)
  BY <1>1 DEF Uncovered, Base
<1>2. CASE GoesUp(s.wd, name)
  <2> DEFINE temp == fs_tab[s.wd[1]].mntpt
             counts == [[s.refs EXCEPT ![temp] = @ + 1] EXCEPT ![s.wd] = @ - 1]
             t == [s EXCEPT !.refs = counts, !.wd = temp]
  <2>1. s.wd \in Nodes /\ s.refs \in [Nodes -> Int] /\ Mounted(s.wd[1])
    BY DEF Inside, SearchType
  <2>2. temp \in Dirs /\ Mounted(temp[1]) /\ temp = Base(s.wd, name) /\ temp \in Nodes
    BY <1>2, <2>1, BaseGives, Constants DEF Base
  <2>3. temp # s.wd
    BY <1>2, <2>1, Constants DEF GoesUp, TableOK, MountsSound, LiesOn
  <2>4. Uncovered(s, name) = t
    BY <1>2 DEF Uncovered, IRef, IDeref, Inside, SearchType
  <2>5. counts \in [Nodes -> Int] /\ \A n \in Nodes : counts[n] = r[n] + (IF n = temp THEN 1 ELSE 0)
    <3> HIDE DEF temp
    <3> QED
      BY <2>1, <2>2, <2>3 DEF Inside
  <2> HIDE DEF counts
  <2>6. t \in SearchType /\ t.refs = counts /\ t.wd = temp /\ ~t.stop /\ t.full = s.full
    <3> HIDE DEF temp
    <3> QED
      BY <2>2, <2>5 DEF Inside, SearchType
  <2> HIDE DEF t, temp
  <2> QED
    BY <2>2, <2>4, <2>5, <2>6 DEF Inside
<1> QED
  BY <1>1, <1>2

LEMMA SrchDirGives ==
  ASSUME TableOK, NEW r \in [Nodes -> Int], NEW s, Inside(r, s), s.wd \in Dirs, ~s.full, NEW name
  PROVE  LET t == SrchDir(s, name)
         IN /\ Walking(r, t) /\ ~t.stop
            /\ IF name \in DOMAIN Entries[s.wd]
               THEN t.full \/ (t.ino = Entries[s.wd][name])
               ELSE t.ino = NULLINODE
<1>1. CASE name \notin DOMAIN Entries[s.wd]
  <2> DEFINE t == [s EXCEPT !.ino = NULLINODE]
  <2>1. SrchDir(s, name) = t
    BY <1>1 DEF SrchDir
  <2>2. t \in SearchType /\ t.refs = s.refs /\ t.wd = s.wd /\ t.ino = NULLINODE
        /\ ~t.stop /\ ~t.full
    BY DEF Inside, SearchType, Inode
  <2> HIDE DEF t
  <2> QED
    BY <1>1, <2>1, <2>2, Constants DEF Walking, Inside
<1>2. CASE name \in DOMAIN Entries[s.wd]
  <2> DEFINE n == Entries[s.wd][name]
             t == IOpen(s, n)
  <2>1. SrchDir(s, name) = t
    BY <1>2 DEF SrchDir
  <2>2. n \in Nodes /\ n[1] = s.wd[1]
    BY <1>2, MountAssumption
  <2> HIDE DEF n
  <2>3. /\ t \in SearchType
        /\ t.wd = s.wd /\ t.stop = s.stop
        /\ \/ t.ino = n /\ t.full = s.full /\ t.refs = [s.refs EXCEPT ![n] = @ + 1]
           \/ t.ino = NULLINODE /\ t.full /\ t.refs = s.refs
    BY <2>2, IOpenGives DEF Inside
  <2> HIDE DEF t
  <2>4. \A m \in Nodes : t.refs[m] = s.refs[m] + (IF m = t.ino THEN 1 ELSE 0)
    BY <2>2, <2>3, Constants DEF Inside, SearchType
  <2>5. Walking(r, t)
    BY <2>2, <2>3, <2>4, Constants DEF Walking, Inside, SearchType
  <2> QED
    BY <1>2, <2>1, <2>3, <2>5 DEF Inside, n
<1> QED
  BY <1>1, <1>2

\* What a component of a path does, by the way it takes through the code.
LEMMA ComponentGives ==
  ASSUME TableOK, NEW r \in [Nodes -> Int], NEW s, Walking(r, s), NEW name
  PROVE  LET t == Component(s, name)
             e == Top(s.ino)
         IN /\ Walking(r, t)
            /\ s.stop => t = s
            /\ ~s.stop /\ s.ino = NULLINODE => t.ino = NULLINODE /\ t.full = s.full
            /\ ~s.stop /\ s.ino # NULLINODE =>
                 \/ t.full
                 \/ e \notin Dirs /\ t.ino = NULLINODE
                 \/ /\ e \in Dirs /\ name \notin DOMAIN Entries[Base(e, name)]
                    /\ t.ino = NULLINODE
                 \/ /\ e \in Dirs /\ name \in DOMAIN Entries[Base(e, name)]
                    /\ t.ino = Entries[Base(e, name)][name]
<1> DEFINE m == SrchMt(s)
           t == Component(s, name)
<1>1. CASE s.stop
  <2>1. t = s
    BY <1>1 DEF Component
  <2> QED
    BY <1>1, <2>1
<1>2. CASE ~s.stop
  <2>1. /\ Walking(r, m) /\ ~m.stop
        /\ s.ino = NULLINODE => m = s
        /\ s.ino # NULLINODE => \/ m.ino = Top(s.ino) /\ m.full = s.full
                                \/ m.ino = NULLINODE /\ m.full
    BY <1>2, SrchMtGives
  <2>2. s.ino # NULLINODE => ~s.full
    BY DEF Walking
  <2>3. CASE m.ino = NULLINODE
    <3>1. t = NoDir(m)
      BY <1>2, <2>3 DEF Component
    <3>2. m \in SearchType /\ \A n \in Nodes : m.refs[n] = r[n] + (IF n = m.wd THEN 1 ELSE 0)
      BY <2>1, <2>3, Constants DEF Walking
    <3>3. Walking(r, NoDir(m)) /\ NoDir(m).ino = NULLINODE /\ NoDir(m).full = m.full
      BY <3>2, NoDirGives
    <3>4. s.ino # NULLINODE => m.full
      <4>1. s.ino # NULLINODE => Top(s.ino) \in Nodes
        BY TopGives DEF Walking, SearchType, Inode
      <4> QED
        BY <2>1, <2>3, <4>1, Constants
    <3> HIDE DEF m
    <3> QED
      BY <1>2, <2>1, <3>1, <3>3, <3>4
  <2>4. CASE m.ino # NULLINODE
    <3>1. s.ino # NULLINODE /\ m.ino = Top(s.ino)
      BY <2>1, <2>4 DEF Walking
    <3>2. Inside(r, Entered(m)) /\ Entered(m).wd = m.ino /\ ~Entered(m).full
      BY <2>1, <2>4, EnteredGives
    <3>3. CASE m.ino \notin Dirs
      <4>1. t = NoDir(Entered(m))
        BY <1>2, <2>4, <3>3 DEF Component
      <4>2. Walking(r, t) /\ t.ino = NULLINODE
        BY <3>2, <4>1, NoDirGives DEF Inside
      <4> HIDE DEF m
      <4> QED
        BY <1>2, <3>1, <3>3, <4>2
    <3>4. CASE m.ino \in Dirs
      <4> DEFINE u == Uncovered(Entered(m), name)
      <4>1. t = SrchDir(u, name)
        BY <1>2, <2>4, <3>4 DEF Component
      <4>2. Inside(r, u) /\ u.wd = Base(m.ino, name) /\ u.wd \in Dirs /\ ~u.full
        BY <3>2, <3>4, UncoveredGives
      <4> HIDE DEF u, m
      <4>3. /\ Walking(r, t)
            /\ IF name \in DOMAIN Entries[u.wd] THEN t.full \/ (t.ino = Entries[u.wd][name])
               ELSE t.ino = NULLINODE
        BY <4>1, <4>2, SrchDirGives
      <4> QED
        BY <1>2, <3>1, <3>4, <4>2, <4>3
    <3> QED
      BY <3>3, <3>4
  <2> QED
    BY <2>3, <2>4
<1> QED
  BY <1>1, <1>2

\* The searches of a path: one per component, in the order of the names.
Searches(r, s0, names, g) ==
  /\ g[0] = s0 /\ Search(s0, names) = g[Len(names)]
  /\ \A k \in 0 .. Len(names) : Walking(r, g[k])
  /\ \A k \in 1 .. Len(names) : g[k] = Component(g[k - 1], names[k])

LEMMA SearchSteps ==
  ASSUME TableOK, NEW r \in [Nodes -> Int], NEW s0, Walking(r, s0), NEW X, NEW names \in Seq(X)
  PROVE  \E g : Searches(r, s0, names, g)
<1> DEFINE N == Len(names)
           St == {s \in SearchType : Walking(r, s)}
           F == [k \in 1 .. N |-> [s \in St |-> Component(s, names[k])]]
           at == CHOOSE g : g = [k \in 0 .. N |-> IF k = 0 THEN s0 ELSE Component(g[k - 1], names[k])]
<1>1. N \in Nat
  OBVIOUS
<1>2. s0 \in St /\ \A s \in St : Walking(r, s)
  BY DEF Walking
<1>3. \A name : \A s \in St : Component(s, name) \in St
  <2>1. ASSUME NEW s \in St, NEW name PROVE Walking(r, Component(s, name))
    BY <1>2, ComponentGives
  <2> QED
    BY <2>1 DEF Walking
<1> HIDE DEF St
<1>4. F \in [1 .. N -> [St -> St]]
  BY <1>3
<1>5. PICK g : Solves(g, N, St, s0, F)
  <2> HIDE DEF F, N
  <2> QED
    BY <1>1, <1>2, <1>4, RecursionSolved
<1>6. \A k \in 1 .. N : k - 1 \in 0 .. N /\ g[k - 1] \in St /\ g[k] = Component(g[k - 1], names[k])
  <2>1. ASSUME NEW k \in 1 .. N PROVE k - 1 \in 0 .. N /\ g[k - 1] \in St /\ g[k] = F[k][g[k - 1]]
    <3> HIDE DEF F, N
    <3> QED
      BY <1>1, <1>5 DEF Solves
  <2>2. ASSUME NEW k \in 1 .. N, NEW q \in St PROVE F[k][q] = Component(q, names[k])
    OBVIOUS
  <2> HIDE DEF F, N
  <2> QED
    BY <2>1, <2>2
<1>7. g = [k \in 0 .. N |-> IF k = 0 THEN s0 ELSE Component(g[k - 1], names[k])]
  <2> HIDE DEF F, N
  <2>1. \A k \in 0 .. N : g[k] = IF k = 0 THEN s0 ELSE Component(g[k - 1], names[k])
    BY <1>1, <1>5, <1>6 DEF Solves
  <2>2. g \in [0 .. N -> St]
    BY <1>5 DEF Solves
  <2> QED
    BY <2>1, <2>2
<1>8. at = [k \in 0 .. N |-> IF k = 0 THEN s0 ELSE Component(at[k - 1], names[k])]
  <2> HIDE DEF F, N
  <2> QED
    BY <1>7, Zenon
<1>9. Search(s0, names) = at[N]
  BY Zenon DEF Search
<1> HIDE DEF at, F
<1>10. at[0] = s0 /\ \A k \in 1 .. N : at[k] = Component(at[k - 1], names[k])
  BY <1>1, <1>8
<1>11. \A k \in 0 .. N : at[k] \in St
  <2> DEFINE S == {k \in 0 .. N : at[k] \in St}
  <2>1. 0 \in S
    BY <1>1, <1>2, <1>10
  <2>2. ASSUME NEW k \in 0 .. N - 1, k \in S PROVE k + 1 \in S
    <3>1. k + 1 \in 1 .. N /\ (k + 1) - 1 = k
      BY <1>1
    <3>2. at[k + 1] = Component(at[k], names[k + 1])
      BY <1>10, <3>1
    <3> QED
      BY <1>3, <2>2, <3>1, <3>2
  <2> HIDE DEF S
  <2>3. 0 .. N \subseteq S
    BY <1>1, <2>1, <2>2, IntervalInduction
  <2> QED
    BY <2>3 DEF S
<1>12. Searches(r, s0, names, at)
  BY <1>2, <1>9, <1>10, <1>11 DEF Searches
<1> QED
  BY <1>12

LEMMA BeginGives ==
  ASSUME TableOK, NEW r \in [Nodes -> Int], NEW cwd \in Dirs, Mounted(cwd[1]),
         NEW X, NEW path \in Seq(X), path # <<>>
  PROVE  /\ Walking(r, Begin(r, cwd, path))
         /\ Begin(r, cwd, path).ino = IF Head(path) = AtRoot THEN root ELSE cwd
         /\ ~Begin(r, cwd, path).full /\ ~Begin(r, cwd, path).stop
         /\ Components(path) \in Seq(X)
<1> DEFINE wd == IF Head(path) = AtRoot THEN root ELSE cwd
           once == [r EXCEPT ![wd] = @ + 1]
           counts == [once EXCEPT ![wd] = @ + 1]
           t0 == [refs |-> r, wd |-> wd, ino |-> wd, stop |-> FALSE, full |-> FALSE]
           t1 == [refs |-> once, wd |-> wd, ino |-> wd, stop |-> FALSE, full |-> FALSE]
           t == [refs |-> counts, wd |-> wd, ino |-> wd, stop |-> FALSE, full |-> FALSE]
<1>1. wd \in Dirs /\ Mounted(wd[1]) /\ wd \in Nodes
  BY Constants DEF TableOK, RootMounted, Mounted
<1>2. Begin(r, cwd, path) = IRef(IRef(t0, wd), wd)
  BY DEF Begin
<1>3. Components(path) \in Seq(X)
  BY HeadTailProperties DEF Components
<1> HIDE DEF wd
<1>4. once \in [Nodes -> Int] /\ \A n \in Nodes : once[n] = r[n] + (IF n = wd THEN 1 ELSE 0)
  BY <1>1
<1>5. IRef(t0, wd) = t1
  <2>1. t0 \in SearchType
    BY <1>1 DEF SearchType, Inode
  <2> QED
    BY <1>1, <2>1, IRefGives
<1> HIDE DEF once
<1>6. counts \in [Nodes -> Int] /\ \A n \in Nodes : counts[n] = r[n] + (IF n = wd THEN 2 ELSE 0)
  BY <1>1, <1>4
<1>7. IRef(t1, wd) = t
  <2>1. t1 \in SearchType
    BY <1>1, <1>4 DEF SearchType, Inode
  <2> QED
    BY <1>1, <2>1, IRefGives
<1> HIDE DEF counts
<1>8. Walking(r, t)
  BY <1>1, <1>6, Constants DEF Walking, SearchType, Inode
<1> QED
  BY <1>2, <1>3, <1>5, <1>7, <1>8 DEF wd

(* n_open gives back all that it took but the inode that is its answer,    *)
(* and the answer is on a mounted disk and not hidden by another.          *)
LEMMA NOpenGives ==
  ASSUME TableOK, NEW r \in [Nodes -> Int], NEW cwd \in Dirs, Mounted(cwd[1]),
         NEW X, NEW path \in Seq(X), path # <<>>
  PROVE  LET t == NOpen(r, cwd, path)
         IN /\ t \in SearchType
            /\ \A n \in Nodes : t.refs[n] = r[n] + (IF n = t.ino THEN 1 ELSE 0)
            /\ t.ino # NULLINODE => Mounted(t.ino[1]) /\ t.ino \notin Covered
<1> DEFINE s == Search(Begin(r, cwd, path), Components(path))
           end == SrchMt(s)
           t == NOpen(r, cwd, path)
<1>1. Walking(r, s)
  <2>1. Walking(r, Begin(r, cwd, path)) /\ Components(path) \in Seq(X)
    BY BeginGives
  <2>2. Len(Components(path)) \in 0 .. Len(Components(path))
    BY <2>1
  <2> QED
    <3>1. PICK g : Searches(r, Begin(r, cwd, path), Components(path), g)
      BY <2>1, SearchSteps
    <3> QED
      BY <2>2, <3>1 DEF Searches
<1>2. t = IF s.stop THEN s ELSE IDeref(end, end.wd)
  BY DEF NOpen
<1> HIDE DEF s, t
<1>3. CASE s.stop
  BY <1>1, <1>2, <1>3, Constants DEF Walking, t
<1>4. CASE ~s.stop
  <2>1. /\ Walking(r, end) /\ ~end.stop
        /\ end.ino # NULLINODE => end.ino \notin Covered
    BY <1>1, <1>4, SrchMtGives
  <2> DEFINE counts == [end.refs EXCEPT ![end.wd] = @ - 1]
             u == [end EXCEPT !.refs = counts]
  <2>2. t = u
    BY <1>2, <1>4, <2>1 DEF IDeref, Walking, SearchType
  <2> HIDE DEF end
  <2>3. end \in SearchType /\ end.wd \in Nodes /\ end.refs \in [Nodes -> Int]
    BY <2>1 DEF Walking, SearchType
  <2>4. counts \in [Nodes -> Int]
        /\ \A n \in Nodes : counts[n] = end.refs[n] - (IF n = end.wd THEN 1 ELSE 0)
    BY <2>3
  <2> HIDE DEF counts
  <2>5. u \in SearchType /\ u.refs = counts /\ u.ino = end.ino
    BY <2>3, <2>4 DEF SearchType
  <2>6. \A n \in Nodes : counts[n] = r[n] + (IF n = end.ino THEN 1 ELSE 0)
    BY <2>1, <2>3, <2>4 DEF Walking
  <2> HIDE DEF u
  <2> QED
    BY <2>1, <2>2, <2>5, <2>6 DEF Walking, t
<1> QED
  BY <1>3, <1>4

-----------------------------------------------------------------------------
(* What a path means. *)

\* Where ".." leads from a directory: on a mounted disk's root, up from what it covers.
Up(n) == Top(Entries[Base(n, "..")][".."])

\* A way from the root down: each step is where ".." leads from the next one.
Chain(way) ==
  /\ way \in Seq(Nodes) /\ way # <<>> /\ way[1] = root
  /\ \A i \in 1 .. Len(way) : way[i] \notin Covered /\ Mounted(way[i][1])
  /\ \A i \in 2 .. Len(way) :
       /\ way[i] # root /\ way[i - 1] \in Dirs
       /\ way[i] \in Dirs => Up(way[i]) = way[i - 1]

\* A search leads where the way does, or has met a full table.
Leads(s, way) ==
  \/ s.full
  \/ way = <<>> /\ s.ino = NULLINODE
  \/ Chain(way) /\ s.ino # NULLINODE /\ Top(s.ino) = Last(way)

LEMMA ChainLast ==
  ASSUME NEW way, Chain(way)
  PROVE  /\ Len(way) \in Nat \ {0} /\ Last(way) = way[Len(way)] /\ Last(way) \in Nodes
         /\ Last(way) \notin Covered /\ Mounted(Last(way)[1])
BY DEF Chain, Last

LEMMA RootChain ==
  ASSUME TableOK
  PROVE  /\ Chain(<<root>>) /\ Top(root) = root /\ root \notin Covered /\ Up(root) = root
<1>1. root \notin Covered
  BY Constants DEF TableOK, MountsSound, LiesOn, Covered
<1>2. Top(root) = root
  BY <1>1, TopGives, Constants
<1>3. Base(root, "..") = root /\ Entries[root][".."] = root
  BY Constants, MountAssumption DEF Base, GoesUp, root
<1>4. Mounted(root[1])
  BY Constants DEF TableOK, RootMounted, Mounted
<1> QED
  BY <1>1, <1>2, <1>3, <1>4, Constants DEF Chain, Up

\* One level down.
LEMMA ChainDown ==
  ASSUME TableOK, NEW way, Chain(way), Last(way) \in Dirs,
         NEW name \in DOMAIN Entries[Last(way)], name \notin {".", ".."}
  PROVE  Chain(Append(way, Top(Entries[Last(way)][name])))
         /\ Last(Append(way, Top(Entries[Last(way)][name]))) = Top(Entries[Last(way)][name])
<1> DEFINE e == Last(way)
           c == Entries[e][name]
           n == Top(c)
           down == Append(way, n)
<1>1. /\ Len(way) \in Nat \ {0} /\ e = way[Len(way)] /\ e \in Nodes
      /\ e \notin Covered /\ Mounted(e[1])
  BY ChainLast
<1>2. c \in Nodes /\ c[1] = e[1] /\ c[2] # ROOTINODE
      /\ (c \in Dirs => Entries[c][".."] = e)
  BY MountAssumption, TreeAssumption
<1>3. n \in Nodes /\ n \notin Covered /\ Mounted(n[1])
  <2> HIDE DEF e, c
  <2> QED
    BY <1>1, <1>2, TopGives
<1>4. Top(e) = e
  BY <1>1, TopGives
<1>5. n # root /\ (n \in Dirs => Up(n) = e)
  <2>1. CASE c \notin Covered
    <3>1. n = c
      BY <1>2, <2>1, TopGives
    <3>2. c # root
      BY <1>2, Constants
    <3>3. Base(c, "..") = c
      BY <1>2 DEF Base, GoesUp
    <3> QED
      BY <1>2, <1>4, <3>1, <3>2, <3>3 DEF Up
  <2>2. CASE c \in Covered
    <3> HIDE DEF e, c
    <3>1. PICK d \in Devs \ {ROOTDEV} : Mounted(d) /\ fs_tab[d].mntpt = c /\ Top(c) = RootOf(d)
      BY <1>2, <2>2, TopGives
    <3>2. c \in Dirs
      BY <1>2, <2>2, TopGives
    <3>3. RootOf(d)[1] = d /\ RootOf(d)[2] = ROOTINODE
      BY DEF RootOf
    <3>4. Base(RootOf(d), "..") = c
      BY <3>1, <3>3, MountAssumption DEF Base, GoesUp
    <3> QED
      BY <1>2, <1>4, <3>1, <3>2, <3>3, <3>4, Constants DEF Up
  <2> QED
    BY <2>1, <2>2
<1> HIDE DEF n
<1>6. down \in Seq(Nodes) /\ Len(down) = Len(way) + 1 /\ down[Len(way) + 1] = n
      /\ \A i \in 1 .. Len(way) : down[i] = way[i]
  BY <1>3 DEF Chain
<1>7. down # <<>> /\ Last(down) = n
  BY <1>1, <1>6 DEF Last
<1>8. way[Len(way)] \in Dirs
  BY <1>1
<1> HIDE DEF down, e
<1>9. Chain(down)
  <2>1. \A i \in 1 .. Len(down) : down[i] \notin Covered /\ Mounted(down[i][1])
    BY <1>1, <1>3, <1>6 DEF Chain
  <2>2. ASSUME NEW i \in 2 .. Len(down)
        PROVE  down[i] # root /\ down[i - 1] \in Dirs
               /\ (down[i] \in Dirs => Up(down[i]) = down[i - 1])
    <3>1. CASE i = Len(way) + 1
      <4>1. i - 1 = Len(way) /\ down[i] = n /\ down[i - 1] = way[Len(way)]
        BY <3>1, <1>1, <1>6
      <4> QED
        BY <4>1, <1>1, <1>5, <1>8
    <3>2. CASE i # Len(way) + 1
      <4>1. i \in 2 .. Len(way) /\ i - 1 \in 1 .. Len(way)
        BY <3>2, <1>1, <1>6
      <4>2. down[i] = way[i] /\ down[i - 1] = way[i - 1]
        BY <4>1, <1>1, <1>6
      <4> QED
        BY <4>1, <4>2 DEF Chain
    <3> QED
      BY <3>1, <3>2
  <2> QED
    BY <2>1, <2>2, <1>1, <1>6, <1>7 DEF Chain
<1> QED
  BY <1>7, <1>9 DEF down, n, e

\* One level up.
LEMMA ChainUp ==
  ASSUME NEW way, Chain(way), Len(way) # 1
  PROVE  /\ Chain(Front(way)) /\ Last(Front(way)) = way[Len(way) - 1]
         /\ Last(way) \in Dirs => Up(Last(way)) = Last(Front(way))
<1> DEFINE front == Front(way)
<1>1. Len(way) \in Nat /\ Len(way) >= 2 /\ Last(way) = way[Len(way)] /\ way \in Seq(Nodes)
  <2>1. Len(way) \in Nat \ {0} /\ Last(way) = way[Len(way)]
    BY ChainLast
  <2>2. way \in Seq(Nodes)
    BY DEF Chain
  <2> QED
    BY <2>1, <2>2
<1>2. front = SubSeq(way, 1, Len(way) - 1)
  BY DEF Front
<1>3. front \in Seq(Nodes) /\ Len(front) = Len(way) - 1
      /\ \A i \in 1 .. Len(way) - 1 : front[i] = way[i]
  BY <1>1, <1>2
<1> HIDE DEF front
<1>4. Last(front) = way[Len(way) - 1] /\ front # <<>>
  BY <1>1, <1>3 DEF Last
<1>5. Chain(front)
  <2>1. ASSUME NEW i \in 2 .. Len(front) PROVE i \in 2 .. Len(way) /\ front[i] = way[i] /\ front[i - 1] = way[i - 1]
    BY <1>1, <1>3
  <2> QED
    BY <2>1, <1>1, <1>3, <1>4 DEF Chain
<1> QED
  BY <1>1, <1>4, <1>5 DEF Chain, front

\* A component of the search and a step of the way keep together.
LEMMA LeadsOn ==
  ASSUME TableOK, NEW r \in [Nodes -> Int], NEW s, Walking(r, s), NEW way, Leads(s, way),
         NEW name, name \in DotNames => name = ".."
  PROVE  Leads(Component(s, name), Follow(way, name))
<1> DEFINE t == Component(s, name)
           e == Top(s.ino)
<1>1. /\ Walking(r, t)
      /\ s.stop => t = s
      /\ ~s.stop /\ s.ino = NULLINODE => t.ino = NULLINODE /\ t.full = s.full
      /\ ~s.stop /\ s.ino # NULLINODE =>
           \/ t.full
           \/ e \notin Dirs /\ t.ino = NULLINODE
           \/ e \in Dirs /\ name \notin DOMAIN Entries[Base(e, name)] /\ t.ino = NULLINODE
           \/ e \in Dirs /\ name \in DOMAIN Entries[Base(e, name)]
              /\ t.ino = Entries[Base(e, name)][name]
  BY ComponentGives
<1>2. s.stop \/ s.full => s.ino = NULLINODE
  BY DEF Walking
<1> HIDE DEF t, e
<1>3. CASE s.full
  BY <1>1, <1>2, <1>3 DEF Leads, t
<1>4. CASE way = <<>> /\ s.ino = NULLINODE
  <2>1. Follow(way, name) = <<>>
    BY <1>4 DEF Follow
  <2> QED
    BY <1>1, <1>4, <2>1 DEF Leads, t
<1>5. CASE Chain(way) /\ s.ino # NULLINODE /\ Top(s.ino) = Last(way) /\ ~t.full
  <2>1. ~s.stop /\ way # <<>> /\ e = Last(way)
    BY <1>2, <1>5 DEF Chain, e
  <2>2. /\ Len(way) \in Nat \ {0} /\ e = way[Len(way)] /\ e \in Nodes
        /\ e \notin Covered /\ Mounted(e[1]) /\ Top(e) = e
    BY <1>5, <2>1, ChainLast, TopGives
  <2>3. CASE e \notin Dirs
    <3>1. Follow(way, name) = <<>> /\ t.ino = NULLINODE
      BY <1>1, <1>5, <2>1, <2>3 DEF Follow
    <3> QED
      BY <3>1 DEF Leads, t
  <2>4. CASE e \in Dirs /\ name = ".."
    <3>1. Base(e, "..") \in Dirs
      BY <2>2, <2>4, BaseGives
    <3>2. t.ino = Entries[Base(e, "..")][".."] /\ t.ino \in Nodes
      BY <1>1, <1>5, <2>1, <2>4, <3>1, MountAssumption
    <3>3. Top(t.ino) = Up(e) /\ t.ino # NULLINODE
      BY <3>2, Constants DEF Up
    <3>4. CASE Len(way) = 1
      <4>1. Follow(way, name) = way /\ e = root
        BY <1>5, <2>1, <2>2, <2>4, <3>4 DEF Follow, Chain
      <4> QED
        BY <1>5, <2>1, <3>3, <4>1, RootChain DEF Leads, t
    <3>5. CASE Len(way) # 1
      <4>1. Follow(way, name) = Front(way)
        BY <2>1, <2>4, <3>5 DEF Follow
      <4>2. Chain(Front(way)) /\ Up(e) = Last(Front(way))
        BY <1>5, <2>1, <2>4, <3>5, ChainUp
      <4> QED
        BY <3>3, <4>1, <4>2 DEF Leads, t
    <3> QED
      BY <3>4, <3>5
  <2>5. CASE e \in Dirs /\ name # ".."
    <3>1. Base(e, name) = e
      BY <2>5 DEF Base, GoesUp
    <3>2. CASE name \notin DOMAIN Entries[e]
      <4>1. Follow(way, name) = <<>> /\ t.ino = NULLINODE
        BY <1>1, <1>5, <2>1, <2>5, <3>1, <3>2 DEF Follow
      <4> QED
        BY <4>1 DEF Leads, t
    <3>3. CASE name \in DOMAIN Entries[e]
      <4>1. t.ino = Entries[e][name] /\ t.ino \in Nodes
        BY <1>1, <1>5, <2>1, <2>5, <3>1, <3>3, MountAssumption
      <4>2. CASE name = "."
        <5>1. Follow(way, name) = way /\ t.ino = e
          BY <2>1, <2>5, <3>3, <4>1, <4>2, TreeAssumption DEF Follow
        <5> QED
          BY <1>5, <2>1, <2>2, <4>1, <5>1, Constants DEF Leads, t
      <4>3. CASE name # "."
        <5>1. Follow(way, name) = Append(way, Top(Entries[Last(way)][name]))
          BY <2>1, <2>5, <3>3, <4>3 DEF Follow
        <5>2. /\ Chain(Append(way, Top(Entries[Last(way)][name])))
              /\ Last(Append(way, Top(Entries[Last(way)][name]))) = Top(Entries[Last(way)][name])
          BY <1>5, <2>1, <2>5, <3>3, <4>3, ChainDown
        <5> QED
          BY <2>1, <4>1, <5>1, <5>2, Constants DEF Leads, t
      <4> QED
        BY <4>2, <4>3
    <3> QED
      BY <3>2, <3>3
  <2> QED
    BY <2>3, <2>4, <2>5
<1>6. CASE t.full
  BY <1>6 DEF Leads, t
<1> QED
  BY <1>3, <1>4, <1>5, <1>6 DEF Leads

LEMMA FollowType ==
  ASSUME TableOK, NEW way \in Seq(Nodes), NEW name
  PROVE  Follow(way, name) \in Seq(Nodes)
<1>1. CASE way = <<>> \/ Last(way) \notin Dirs
  BY <1>1, EmptySeq DEF Follow
<1>2. CASE way # <<>> /\ Last(way) \in Dirs
  <2>1. Front(way) \in Seq(Nodes)
    BY <1>2 DEF Front
  <2>2. ASSUME name \in DOMAIN Entries[Last(way)]
        PROVE  Append(way, Top(Entries[Last(way)][name])) \in Seq(Nodes)
    <3>1. Entries[Last(way)][name] \in Nodes
      BY <1>2, <2>2, MountAssumption
    <3>2. Top(Entries[Last(way)][name]) \in Nodes
      BY <3>1, TopGives
    <3> QED
      BY <3>2
  <2> QED
    BY <1>2, <2>1, <2>2, EmptySeq DEF Follow
<1> QED
  BY <1>1, <1>2

\* The way of a path: one step per name.
Ways(names, g) ==
  /\ g[0] = <<root>> /\ Way(names) = g[Len(names)]
  /\ \A k \in 1 .. Len(names) : g[k] = Follow(g[k - 1], names[k])

LEMMA WaySteps ==
  ASSUME TableOK, NEW X, NEW names \in Seq(X)
  PROVE  \E g : Ways(names, g)
<1> DEFINE N == Len(names)
           St == Seq(Nodes)
           F == [k \in 1 .. N |-> [way \in St |-> Follow(way, names[k])]]
           at == CHOOSE g : g = [k \in 0 .. N |-> IF k = 0 THEN <<root>> ELSE Follow(g[k - 1], names[k])]
<1>1. N \in Nat
  OBVIOUS
<1>2. <<root>> \in St
  BY Constants
<1>3. \A name : \A way \in St : Follow(way, name) \in St
  BY FollowType
<1> HIDE DEF St
<1>4. F \in [1 .. N -> [St -> St]]
  BY <1>3
<1>5. PICK g : Solves(g, N, St, <<root>>, F)
  <2> HIDE DEF F, N
  <2> QED
    BY <1>1, <1>2, <1>4, RecursionSolved
<1>6. \A k \in 1 .. N : k - 1 \in 0 .. N /\ g[k - 1] \in St /\ g[k] = Follow(g[k - 1], names[k])
  <2>1. ASSUME NEW k \in 1 .. N PROVE k - 1 \in 0 .. N /\ g[k - 1] \in St /\ g[k] = F[k][g[k - 1]]
    <3> HIDE DEF F, N
    <3> QED
      BY <1>1, <1>5 DEF Solves
  <2>2. ASSUME NEW k \in 1 .. N, NEW way \in St PROVE F[k][way] = Follow(way, names[k])
    OBVIOUS
  <2> HIDE DEF F, N
  <2> QED
    BY <2>1, <2>2
<1>7. g = [k \in 0 .. N |-> IF k = 0 THEN <<root>> ELSE Follow(g[k - 1], names[k])]
  <2> HIDE DEF F, N
  <2>1. \A k \in 0 .. N : g[k] = IF k = 0 THEN <<root>> ELSE Follow(g[k - 1], names[k])
    BY <1>1, <1>5, <1>6 DEF Solves
  <2>2. g \in [0 .. N -> St]
    BY <1>5 DEF Solves
  <2> QED
    BY <2>1, <2>2
<1>8. at = [k \in 0 .. N |-> IF k = 0 THEN <<root>> ELSE Follow(at[k - 1], names[k])]
  <2> HIDE DEF F, N
  <2> QED
    BY <1>7, Zenon
<1>9. Way(names) = at[N]
  BY Zenon DEF Way
<1> HIDE DEF at, F
<1>10. at[0] = <<root>> /\ \A k \in 1 .. N : at[k] = Follow(at[k - 1], names[k])
  BY <1>1, <1>8
<1>11. Ways(names, at)
  BY <1>9, <1>10 DEF Ways
<1> QED
  BY <1>11

-----------------------------------------------------------------------------
(* The invariant, by action. *)

Calm == IInv /\ ~panicked

LEMMA CalmGives ==
  ASSUME Calm
  PROVE  /\ TableOK /\ HoldersSound /\ Counted
         /\ \A p \in Procs : u_cwd[p] \in Dirs /\ Mounted(u_cwd[p][1])
         /\ \A path \in Paths : path \in Seq(STRING) /\ path # <<>>
         /\ refs \in [Nodes -> Int]
BY MountAssumption DEF Calm, IInv, TableOK, HoldersSound, TypeOK

\* Nobody holds an inode whose count is zero.
LEMMA Unheld ==
  ASSUME Calm, NEW n \in Nodes
  PROVE  /\ refs[n] \in Nat
         /\ refs[n] = 0 => /\ \A p \in Procs : u_cwd[p] # n
                           /\ \A o \in Ofts : of_tab[o] # n
                           /\ n \notin Covered /\ n # root
<1>1. refs[n] = Count(Procs, u_cwd, n) + Count(Ofts, of_tab, n)
                + (IF n \in Covered THEN 1 ELSE 0) + (IF n = root THEN 1 ELSE 0)
  BY CalmGives DEF Counted
<1>2. /\ Count(Procs, u_cwd, n) \in Nat
      /\ Count(Procs, u_cwd, n) = 0 <=> \A p \in Procs : u_cwd[p] # n
  BY CountZero, MountAssumption
<1>3. /\ Count(Ofts, of_tab, n) \in Nat
      /\ Count(Ofts, of_tab, n) = 0 <=> \A o \in Ofts : of_tab[o] # n
  BY CountZero, MountAssumption
<1> DEFINE a == Count(Procs, u_cwd, n)
           b == Count(Ofts, of_tab, n)
<1> HIDE DEF a, b
<1>4. a \in Nat /\ b \in Nat
      /\ refs[n] = a + b + (IF n \in Covered THEN 1 ELSE 0) + (IF n = root THEN 1 ELSE 0)
  BY <1>1, <1>2, <1>3 DEF a, b
<1>5. refs[n] \in Nat /\ (refs[n] = 0 => a = 0 /\ b = 0 /\ n \notin Covered /\ n # root)
  BY <1>4
<1> QED
  BY <1>2, <1>3, <1>5 DEF a, b

\* A search of a process whose answer is given back has changed nothing.
LEMMA ReleasedGives ==
  ASSUME TableOK, NEW r \in [Nodes -> Int], NEW cwd \in Dirs, Mounted(cwd[1]),
         NEW X, NEW path \in Seq(X), path # <<>>
  PROVE  /\ Released(NOpen(r, cwd, path)) = r
         /\ NOpen(r, cwd, path).ino = NULLINODE => NOpen(r, cwd, path).refs = r
         /\ NOpen(r, cwd, path).ino # NULLINODE =>
              /\ IDeref(NOpen(r, cwd, path), NOpen(r, cwd, path).ino).refs = r
              /\ NOpen(r, cwd, path).ino \in Nodes
<1> DEFINE t == NOpen(r, cwd, path)
<1>1. /\ t \in SearchType
      /\ \A n \in Nodes : t.refs[n] = r[n] + (IF n = t.ino THEN 1 ELSE 0)
  BY NOpenGives
<1> HIDE DEF t
<1>2. ASSUME t.ino = NULLINODE PROVE t.refs = r
  <2>1. t.refs \in [Nodes -> Int] /\ \A n \in Nodes : t.refs[n] = r[n]
    <3>1. NULLINODE \notin Nodes
      BY Constants
    <3> QED
      BY <1>1, <1>2, <3>1 DEF SearchType
  <2> QED
    BY <2>1
<1>3. ASSUME t.ino # NULLINODE PROVE t.ino \in Nodes /\ IDeref(t, t.ino).refs = r
  <2>1. t.ino \in Nodes
    BY <1>1, <1>3 DEF SearchType, Inode
  <2>2. IDeref(t, t.ino).refs = [t.refs EXCEPT ![t.ino] = @ - 1]
    BY <1>1 DEF IDeref, SearchType
  <2>3. t.refs \in [Nodes -> Int]
    BY <1>1 DEF SearchType
  <2>4. [t.refs EXCEPT ![t.ino] = @ - 1] \in [Nodes -> Int]
        /\ \A n \in Nodes : [t.refs EXCEPT ![t.ino] = @ - 1][n] = r[n]
    BY <1>1, <2>1, <2>3
  <2> QED
    BY <2>1, <2>2, <2>4
<1> QED
  BY <1>2, <1>3 DEF Released, t

LEMMA ChdirInv ==
  ASSUME Calm, NEW p \in Procs, NEW path \in Paths, Chdir(p, path)
  PROVE  IInv'
<1> DEFINE s == NOpen(refs, u_cwd[p], path)
<1>1. TableOK /\ HoldersSound /\ Counted /\ refs \in [Nodes -> Int]
  BY CalmGives
<1>2. u_cwd[p] \in Dirs /\ Mounted(u_cwd[p][1]) /\ path \in Seq(STRING) /\ path # <<>>
  BY CalmGives
<1>3. /\ s \in SearchType
      /\ \A n \in Nodes : s.refs[n] = refs[n] + (IF n = s.ino THEN 1 ELSE 0)
      /\ s.ino # NULLINODE => Mounted(s.ino[1]) /\ s.ino \notin Covered
  BY <1>1, <1>2, NOpenGives
<1>4. Released(s) = refs
  BY <1>1, <1>2, ReleasedGives
<1>5. UNCHANGED <<fs_tab, of_tab, panicked>>
      /\ (s.ino \in Dirs => refs' = IDeref(s, u_cwd[p]).refs /\ u_cwd' = [u_cwd EXCEPT ![p] = s.ino])
      /\ (s.ino \notin Dirs => refs' = Released(s) /\ UNCHANGED u_cwd)
  BY DEF Chdir
<1> HIDE DEF s
<1>6. CASE s.ino \notin Dirs
  BY <1>4, <1>5, <1>6 DEF Calm, IInv, TypeOK, RootMounted, MountsSound, LiesOn, HoldersSound, Counted, Mounted, Covered
<1>7. CASE s.ino \in Dirs
  <2>1. s.ino \in Nodes /\ s.ino # NULLINODE /\ u_cwd[p] \in Nodes /\ s.refs \in [Nodes -> Int]
    BY <1>2, <1>3, <1>7, Constants DEF SearchType
  <2>2. refs' = [s.refs EXCEPT ![u_cwd[p]] = @ - 1]
    BY <1>3, <1>5, <1>7 DEF IDeref, SearchType
  <2>3. refs' \in [Nodes -> Int]
        /\ \A n \in Nodes : refs'[n] = refs[n] + (IF n = s.ino THEN 1 ELSE 0) - (IF n = u_cwd[p] THEN 1 ELSE 0)
    BY <1>1, <1>3, <2>1, <2>2
  <2>4. u_cwd \in [Procs -> Dirs] /\ u_cwd' = [u_cwd EXCEPT ![p] = s.ino]
    BY <1>1, <1>5, <1>7 DEF TableOK, TypeOK
  <2>5. TypeOK'
    BY <1>1, <1>5, <1>7, <2>3, <2>4 DEF TableOK, TypeOK
  <2>6. Covered' = Covered /\ \A d : Mounted(d)' = Mounted(d)
    BY <1>5 DEF Covered, Mounted
  <2>7. RootMounted' /\ MountsSound'
    BY <1>1, <1>5, <2>6 DEF TableOK, RootMounted, MountsSound, LiesOn
  <2>8. HoldersSound'
    BY <1>1, <1>3, <1>5, <2>1, <2>4, <2>6 DEF HoldersSound
  <2>9. Counted'
    <3> SUFFICES ASSUME NEW n \in Nodes
                 PROVE  refs'[n] = Count(Procs, u_cwd', n)
                                   + Count(Ofts, of_tab', n)
                                   + (IF n \in Covered' THEN 1 ELSE 0) + (IF n = root THEN 1 ELSE 0)
      BY DEF Counted
    <3>1. /\ Count(Procs, u_cwd, n) \in Nat
          /\ Count(Procs, u_cwd', n) \in Nat
          /\ Count(Procs, u_cwd', n)
             = Count(Procs, u_cwd, n) - (IF u_cwd[p] = n THEN 1 ELSE 0) + (IF s.ino = n THEN 1 ELSE 0)
      <4>1. IsFiniteSet(Procs)
        BY MountAssumption
      <4>2. Moves(Procs, u_cwd, u_cwd', p, s.ino)
        BY <2>4 DEF Moves
      <4> QED
        BY <4>1, <4>2, CountMoves
    <3>2. Count(Ofts, of_tab, n) \in Nat
      BY CountZero, MountAssumption
    <3>3. refs[n] = Count(Procs, u_cwd, n) + Count(Ofts, of_tab, n)
                    + (IF n \in Covered THEN 1 ELSE 0) + (IF n = root THEN 1 ELSE 0)
      BY <1>1 DEF Counted
    <3>4. of_tab' = of_tab
      BY <1>5
    <3> QED
      BY <2>3, <2>6, <3>1, <3>2, <3>3, <3>4
  <2> QED
    BY <2>5, <2>7, <2>8, <2>9 DEF IInv
<1> QED
  BY <1>6, <1>7

\* One open file entry changes from an inode or nothing to another one or nothing.
LEMMA OftMoves ==
  ASSUME Calm, NEW o \in Ofts, NEW v \in Inode,
         v # NULLINODE => Mounted(v[1]) /\ v \notin Covered,
         refs' \in [Nodes -> Int],
         \A n \in Nodes : refs'[n] = refs[n] + (IF n = v THEN 1 ELSE 0) - (IF n = of_tab[o] THEN 1 ELSE 0),
         of_tab' = [of_tab EXCEPT ![o] = v], UNCHANGED <<fs_tab, u_cwd, panicked>>
  PROVE  IInv'
<1>1. TableOK /\ HoldersSound /\ Counted /\ of_tab \in [Ofts -> Inode]
  BY CalmGives DEF TableOK, TypeOK
<1>2. TypeOK'
  BY <1>1 DEF TableOK, TypeOK
<1>3. Covered' = Covered /\ \A d : Mounted(d)' = Mounted(d)
  BY DEF Covered, Mounted
<1>4. RootMounted' /\ MountsSound'
  BY <1>1, <1>3 DEF TableOK, RootMounted, MountsSound, LiesOn
<1>5. HoldersSound'
  BY <1>1, <1>3 DEF HoldersSound
<1>6. Counted'
  <2> SUFFICES ASSUME NEW n \in Nodes
               PROVE  refs'[n] = Count(Procs, u_cwd', n) + Count(Ofts, of_tab', n)
                                 + (IF n \in Covered' THEN 1 ELSE 0) + (IF n = root THEN 1 ELSE 0)
    BY DEF Counted
  <2>1. Moves(Ofts, of_tab, of_tab', o, v)
    BY <1>1 DEF Moves
  <2>2. /\ Count(Ofts, of_tab, n) \in Nat /\ Count(Ofts, of_tab', n) \in Nat
        /\ Count(Ofts, of_tab', n)
           = Count(Ofts, of_tab, n) - (IF of_tab[o] = n THEN 1 ELSE 0) + (IF v = n THEN 1 ELSE 0)
    <3>1. IsFiniteSet(Ofts)
      BY MountAssumption
    <3> QED
      BY <2>1, <3>1, CountMoves
  <2>3. Count(Procs, u_cwd, n) \in Nat
    BY CountZero, MountAssumption
  <2>4. refs[n] = Count(Procs, u_cwd, n) + Count(Ofts, of_tab, n)
                  + (IF n \in Covered THEN 1 ELSE 0) + (IF n = root THEN 1 ELSE 0)
    BY <1>1 DEF Counted
  <2>5. u_cwd' = u_cwd
    OBVIOUS
  <2>6. refs'[n] = refs[n] + (IF n = v THEN 1 ELSE 0) - (IF n = of_tab[o] THEN 1 ELSE 0)
    OBVIOUS
  <2> QED
    BY <1>3, <2>2, <2>3, <2>4, <2>5, <2>6
<1> QED
  BY <1>2, <1>4, <1>5, <1>6 DEF IInv

LEMMA OpenInv ==
  ASSUME Calm, NEW p \in Procs, NEW o \in Ofts, NEW path \in Paths, Open(p, o, path)
  PROVE  IInv'
<1> DEFINE s == NOpen(refs, u_cwd[p], path)
<1>1. /\ s \in SearchType
      /\ \A n \in Nodes : s.refs[n] = refs[n] + (IF n = s.ino THEN 1 ELSE 0)
      /\ s.ino # NULLINODE => Mounted(s.ino[1]) /\ s.ino \notin Covered
  BY CalmGives, NOpenGives
<1>2. /\ of_tab[o] = NULLINODE /\ refs' = s.refs /\ of_tab' = [of_tab EXCEPT ![o] = s.ino]
      /\ UNCHANGED <<fs_tab, u_cwd, panicked>>
  BY DEF Open
<1> HIDE DEF s
<1>3. NULLINODE \notin Nodes /\ refs \in [Nodes -> Int]
  BY Constants, CalmGives
<1>4. refs' \in [Nodes -> Int] /\ s.ino \in Inode
      /\ \A n \in Nodes : refs'[n] = refs[n] + (IF n = s.ino THEN 1 ELSE 0) - (IF n = of_tab[o] THEN 1 ELSE 0)
  BY <1>1, <1>2, <1>3 DEF SearchType
<1> QED
  BY <1>1, <1>2, <1>4, OftMoves

LEMMA CloseInv ==
  ASSUME Calm, NEW o \in Ofts, Close(o)
  PROVE  IInv'
<1>1. /\ of_tab[o] # NULLINODE /\ refs' = [refs EXCEPT ![of_tab[o]] = @ - 1]
      /\ of_tab' = [of_tab EXCEPT ![o] = NULLINODE]
      /\ UNCHANGED <<fs_tab, u_cwd, panicked>>
  BY DEF Close
<1>2. NULLINODE \notin Nodes /\ NULLINODE \in Inode /\ refs \in [Nodes -> Int]
  BY Constants, CalmGives DEF Inode
<1>3. of_tab[o] \in Nodes
  BY <1>1, CalmGives DEF TableOK, TypeOK, Inode
<1>4. refs' \in [Nodes -> Int]
      /\ \A n \in Nodes : refs'[n] = refs[n] + (IF n = NULLINODE THEN 1 ELSE 0) - (IF n = of_tab[o] THEN 1 ELSE 0)
  BY <1>1, <1>2, <1>3
<1> QED
  BY <1>1, <1>2, <1>4, OftMoves

\* A disk that is not mounted is put on a directory that nobody holds.
LEMMA MountMounts ==
  ASSUME Calm, NEW d \in FileSystems, NEW n \in Dirs, fs_tab[d].mounted = "no",
         refs[n] = 0, n[2] # ROOTINODE, Mounted(n[1]),
         refs' = [refs EXCEPT ![n] = @ + 1],
         fs_tab' = [fs_tab EXCEPT ![d] = [mounted |-> "SMOUNTED", mntpt |-> n]],
         UNCHANGED <<u_cwd, of_tab, panicked>>
  PROVE  IInv'
<1>1. TableOK /\ HoldersSound /\ Counted /\ refs \in [Nodes -> Int]
  BY CalmGives
<1>2. d \in Devs /\ d # ROOTDEV /\ n \in Nodes /\ n[1] # d
  BY <1>1, Constants, MountAssumption DEF TableOK, RootMounted, Mounted
<1>3. /\ \A p \in Procs : u_cwd[p] # n
      /\ \A o \in Ofts : of_tab[o] # n
      /\ n \notin Covered /\ n # root
  BY <1>2, Unheld
<1>4. fs_tab \in [Devs -> [mounted : {"SMOUNTED", "no", "other"}, mntpt : Inode \cup {Garbage}]]
  BY <1>1 DEF TableOK, TypeOK
<1>5. /\ \A e \in Devs : Mounted(e)' <=> Mounted(e) \/ e = d
      /\ \A e \in Devs : fs_tab'[e].mntpt = IF e = d THEN n ELSE fs_tab[e].mntpt
      /\ \A e \in Devs : e # d => fs_tab'[e] = fs_tab[e]
      /\ fs_tab'[d] = [mounted |-> "SMOUNTED", mntpt |-> n]
  BY <1>2, <1>4 DEF Mounted
<1>6. Covered' = Covered \cup {n}
  <2>1. ~Mounted(d)
    BY DEF Mounted
  <2> QED
    BY <1>2, <1>5, <2>1 DEF Covered
<1>7. TypeOK'
  <2>1. [mounted |-> "SMOUNTED", mntpt |-> n]
          \in [mounted : {"SMOUNTED", "no", "other"}, mntpt : Inode \cup {Garbage}]
    BY <1>2 DEF Inode
  <2> QED
    BY <1>1, <1>2, <1>4, <2>1 DEF TableOK, TypeOK
<1>8. RootMounted' /\ MountsSound'
  <2>1. RootMounted'
    BY <1>1, <1>2, <1>5, Constants DEF TableOK, RootMounted
  <2>2. \A e \in Devs \ {ROOTDEV} : Mounted(e) => fs_tab[e].mntpt \in Covered
    BY DEF Covered
  <2>3. ASSUME NEW e \in Devs \ {ROOTDEV}, Mounted(e)' PROVE LiesOn(e, fs_tab[e].mntpt)'
    <3>1. CASE e = d
      <4>1. n[1] \in Devs
        BY <1>2, Constants
      <4> QED
        BY <1>2, <1>5, <3>1, <4>1 DEF LiesOn
    <3>2. CASE e # d
      <4>1. fs_tab'[e].mntpt = fs_tab[e].mntpt /\ Mounted(e)
        BY <1>5, <2>3, <3>2
      <4>2. LiesOn(e, fs_tab[e].mntpt)
        BY <1>1, <4>1 DEF TableOK, MountsSound
      <4>3. fs_tab[e].mntpt[1] \in Devs
        BY <4>2, Constants DEF LiesOn
      <4> QED
        BY <1>5, <4>1, <4>2, <4>3 DEF LiesOn
    <3> QED
      BY <3>1, <3>2
  <2>4. \A a, b \in Devs \ {ROOTDEV} :
          Mounted(a)' /\ Mounted(b)' /\ fs_tab'[a].mntpt = fs_tab'[b].mntpt => a = b
    BY <1>1, <1>3, <1>5, <2>2 DEF TableOK, MountsSound
  <2>5. \A e \in Devs : fs_tab'[e].mounted = "other" => fs_tab'[e].mntpt = Garbage
    BY <1>1, <1>5 DEF TableOK, MountsSound
  <2> QED
    BY <2>1, <2>3, <2>4, <2>5 DEF MountsSound
<1>9. HoldersSound'
  <2>1. \A p \in Procs : Mounted(u_cwd[p][1])' /\ u_cwd[p] \notin Covered'
    <3>1. \A p \in Procs : u_cwd[p][1] \in Devs
      BY CalmGives, Constants
    <3> QED
      BY <1>1, <1>3, <1>5, <1>6, <3>1 DEF HoldersSound
  <2>2. \A o \in Ofts : of_tab[o] # NULLINODE => Mounted(of_tab[o][1])' /\ of_tab[o] \notin Covered'
    <3>1. \A o \in Ofts : of_tab[o] # NULLINODE => of_tab[o][1] \in Devs
      BY <1>1, Constants DEF TableOK, TypeOK, Inode
    <3> QED
      BY <1>1, <1>3, <1>5, <1>6, <3>1 DEF HoldersSound
  <2> QED
    BY <2>1, <2>2 DEF HoldersSound
<1>10. Counted'
  <2> SUFFICES ASSUME NEW m \in Nodes
               PROVE  refs'[m] = Count(Procs, u_cwd', m) + Count(Ofts, of_tab', m)
                                 + (IF m \in Covered' THEN 1 ELSE 0) + (IF m = root THEN 1 ELSE 0)
    BY DEF Counted
  <2>1. Count(Procs, u_cwd, m) \in Nat /\ Count(Ofts, of_tab, m) \in Nat
    BY CountZero, MountAssumption
  <2>2. refs[m] = Count(Procs, u_cwd, m) + Count(Ofts, of_tab, m)
                  + (IF m \in Covered THEN 1 ELSE 0) + (IF m = root THEN 1 ELSE 0)
    BY <1>1 DEF Counted
  <2>3. refs'[m] = refs[m] + (IF m = n THEN 1 ELSE 0)
    BY <1>1, <1>2
  <2>4. u_cwd' = u_cwd /\ of_tab' = of_tab
    OBVIOUS
  <2> QED
    BY <1>3, <1>6, <2>1, <2>2, <2>3, <2>4
<1> QED
  BY <1>7, <1>8, <1>9, <1>10 DEF IInv

\* An entry of the table that stands for no mounted disk changes to another such.
LEMMA FailedMount ==
  ASSUME Calm, NEW d \in Devs, fs_tab[d].mounted = "no",
         NEW e \in {[mounted |-> "no", mntpt |-> NULLINODE], [mounted |-> "other", mntpt |-> Garbage]},
         fs_tab' = [fs_tab EXCEPT ![d] = e], UNCHANGED <<refs, u_cwd, of_tab, panicked>>
  PROVE  IInv'
<1>1. TableOK /\ HoldersSound /\ Counted /\ d # ROOTDEV
  BY CalmGives, Constants DEF TableOK, RootMounted
<1>2. fs_tab \in [Devs -> [mounted : {"SMOUNTED", "no", "other"}, mntpt : Inode \cup {Garbage}]]
  BY <1>1 DEF TableOK, TypeOK
<1>3. e \in [mounted : {"SMOUNTED", "no", "other"}, mntpt : Inode \cup {Garbage}]
      /\ e.mounted # "SMOUNTED" /\ (e.mounted = "other" => e.mntpt = Garbage)
  BY DEF Inode
<1>4. /\ \A c \in Devs : Mounted(c)' <=> Mounted(c)
      /\ \A c \in Devs : c # d => fs_tab'[c] = fs_tab[c]
      /\ fs_tab'[d] = e /\ ~Mounted(d)
  BY <1>2, <1>3 DEF Mounted
<1>5. TypeOK'
  BY <1>1, <1>2, <1>3 DEF TableOK, TypeOK
<1>6. Covered' = Covered
  BY <1>4 DEF Covered
<1>7. RootMounted'
  BY <1>1, <1>4, Constants DEF TableOK, RootMounted
<1>8. MountsSound'
  <2>1. ASSUME NEW c \in Devs \ {ROOTDEV}, Mounted(c)' PROVE LiesOn(c, fs_tab[c].mntpt)'
    <3>1. Mounted(c) /\ fs_tab'[c] = fs_tab[c]
      BY <1>4, <2>1
    <3>2. LiesOn(c, fs_tab[c].mntpt)
      BY <1>1, <3>1 DEF TableOK, MountsSound
    <3>3. fs_tab[c].mntpt[1] \in Devs
      BY <3>2, Constants DEF LiesOn
    <3> QED
      BY <1>4, <3>1, <3>2, <3>3 DEF LiesOn
  <2>2. \A a, b \in Devs \ {ROOTDEV} :
          Mounted(a)' /\ Mounted(b)' /\ fs_tab'[a].mntpt = fs_tab'[b].mntpt => a = b
    BY <1>1, <1>4 DEF TableOK, MountsSound
  <2>3. \A c \in Devs : fs_tab'[c].mounted = "other" => fs_tab'[c].mntpt = Garbage
    BY <1>1, <1>3, <1>4 DEF TableOK, MountsSound
  <2> QED
    BY <2>1, <2>2, <2>3 DEF MountsSound
<1>9. HoldersSound'
  <2>1. /\ \A p \in Procs : u_cwd[p][1] \in Devs
        /\ \A o \in Ofts : of_tab[o] # NULLINODE => of_tab[o][1] \in Devs
    BY <1>1, Constants DEF TableOK, TypeOK, Inode
  <2> QED
    BY <1>1, <1>4, <1>6, <2>1 DEF HoldersSound
<1>10. Counted'
  BY <1>1, <1>6 DEF Counted
<1> QED
  BY <1>5, <1>7, <1>8, <1>9, <1>10 DEF IInv

LEMMA NothingMoves ==
  ASSUME Calm, UNCHANGED vars
  PROVE  IInv'
BY DEF Calm, IInv, TypeOK, RootMounted, MountsSound, LiesOn, HoldersSound, Counted, Mounted, Covered, vars

LEMMA MountInv ==
  ASSUME Calm, NEW p \in Procs, NEW spec \in Paths, NEW dir \in Paths, Mount(p, spec, dir)
  PROVE  IInv'
<1> DEFINE s == NOpen(refs, u_cwd[p], spec)
           t == NOpen(s.refs, u_cwd[p], dir)
           given == [t EXCEPT !.refs = IF t.ino = NULLINODE THEN @ ELSE IDeref(t, t.ino).refs]
           d == Specials[s.ino]
<1>1. TableOK /\ refs \in [Nodes -> Int] /\ u_cwd[p] \in Dirs /\ Mounted(u_cwd[p][1])
      /\ spec \in Seq(STRING) /\ spec # <<>> /\ dir \in Seq(STRING) /\ dir # <<>>
  BY CalmGives
<1>2. /\ s \in SearchType
      /\ \A n \in Nodes : s.refs[n] = refs[n] + (IF n = s.ino THEN 1 ELSE 0)
      /\ s.ino = NULLINODE => s.refs = refs
      /\ s.ino # NULLINODE => IDeref(s, s.ino).refs = refs /\ s.ino \in Nodes
  BY <1>1, NOpenGives, ReleasedGives
<1> HIDE DEF s
<1>3. s.refs \in [Nodes -> Int]
  BY <1>2 DEF SearchType
<1>4. /\ t \in SearchType
      /\ \A n \in Nodes : t.refs[n] = s.refs[n] + (IF n = t.ino THEN 1 ELSE 0)
      /\ t.ino # NULLINODE => Mounted(t.ino[1]) /\ t.ino \notin Covered
      /\ t.ino = NULLINODE => t.refs = s.refs
      /\ t.ino # NULLINODE => IDeref(t, t.ino).refs = s.refs
  <2>1. /\ t.ino = NULLINODE => t.refs = s.refs
        /\ t.ino # NULLINODE => IDeref(t, t.ino).refs = s.refs
    BY <1>1, <1>3, ReleasedGives
  <2>2. /\ t \in SearchType
        /\ \A n \in Nodes : t.refs[n] = s.refs[n] + (IF n = t.ino THEN 1 ELSE 0)
        /\ t.ino # NULLINODE => Mounted(t.ino[1]) /\ t.ino \notin Covered
    BY <1>1, <1>3, NOpenGives
  <2> QED
    BY <2>1, <2>2
<1> HIDE DEF t
<1>5. given \in SearchType /\ given.refs = s.refs
  BY <1>3, <1>4 DEF SearchType
<1> HIDE DEF given
<1>6. s.ino # NULLINODE => IDeref(given, s.ino).refs = refs
  BY <1>2, <1>5 DEF IDeref, SearchType
<1>7. UNCHANGED <<u_cwd, of_tab, panicked>>
  BY DEF Mount
<1>8. \/ refs' = refs /\ UNCHANGED fs_tab
      \/ /\ s.ino # NULLINODE /\ t.ino \in Dirs /\ IsDisk(s.ino)
         /\ fs_tab[d].mounted = "no" /\ Unused(t, t.ino)
         /\ \E e \in FMount(d, t.ino) : fs_tab' = [fs_tab EXCEPT ![d] = e]
         /\ refs' = IDeref(IF d \in FileSystems THEN IRef(given, t.ino) ELSE given, s.ino).refs
  <2>1. Mount(p, spec, dir) =>
          IF s.ino = NULLINODE THEN refs' = s.refs /\ UNCHANGED fs_tab
          ELSE IF /\ t.ino \in Dirs /\ IsDisk(s.ino)
                  /\ fs_tab[d].mounted = "no" /\ Unused(t, t.ino)
          THEN /\ \E e \in FMount(d, t.ino) : fs_tab' = [fs_tab EXCEPT ![d] = e]
               /\ refs' = IDeref(IF d \in FileSystems THEN IRef(given, t.ino) ELSE given, s.ino).refs
          ELSE refs' = IDeref(given, s.ino).refs /\ UNCHANGED fs_tab
    BY DEF Mount, s, t, given
  <2> QED
    BY <1>2, <1>6, <2>1
<1>9. CASE refs' = refs /\ UNCHANGED fs_tab
  BY <1>7, <1>9, NothingMoves DEF vars
<1>10. CASE /\ s.ino # NULLINODE /\ t.ino \in Dirs /\ IsDisk(s.ino)
            /\ fs_tab[d].mounted = "no" /\ Unused(t, t.ino)
            /\ \E e \in FMount(d, t.ino) : fs_tab' = [fs_tab EXCEPT ![d] = e]
            /\ refs' = IDeref(IF d \in FileSystems THEN IRef(given, t.ino) ELSE given, s.ino).refs
  <2>1. d \in Devs /\ s.ino \notin Dirs
    BY <1>10, MountAssumption DEF IsDisk
  <2>2. t.ino \in Nodes /\ t.ino # NULLINODE /\ t.ino # s.ino
    BY <1>10, <2>1, Constants
  <2>3. refs[t.ino] = 0 /\ t.ino[2] # ROOTINODE /\ Mounted(t.ino[1])
    <3>1. t.refs[t.ino] = 1 /\ t.ino[2] # ROOTINODE
      BY <1>10 DEF Unused
    <3>2. s.refs[t.ino] = 0
      BY <1>3, <1>4, <2>2, <3>1
    <3>3. refs[t.ino] = 0
      BY <1>1, <1>2, <2>2, <3>2
    <3> QED
      BY <1>4, <2>2, <3>1, <3>3
  <2> HIDE DEF d
  <2>4. CASE d \in FileSystems
    <3>1. fs_tab' = [fs_tab EXCEPT ![d] = [mounted |-> "SMOUNTED", mntpt |-> t.ino]]
      BY <1>10, <2>4 DEF FMount
    <3>2. refs' = IDeref(IRef(given, t.ino), s.ino).refs
      BY <1>10, <2>4
    <3>3. IRef(given, t.ino) = [refs |-> [s.refs EXCEPT ![t.ino] = @ + 1], wd |-> given.wd,
                                ino |-> given.ino, stop |-> given.stop, full |-> given.full]
      BY <1>5, <2>2, IRefGives
    <3>4. refs' = [[s.refs EXCEPT ![t.ino] = @ + 1] EXCEPT ![s.ino] = @ - 1]
      BY <3>2, <3>3 DEF IDeref
    <3>5. refs' = [refs EXCEPT ![t.ino] = @ + 1]
      <4> DEFINE a == [s.refs EXCEPT ![t.ino] = @ + 1]
                 b == [refs EXCEPT ![t.ino] = @ + 1]
      <4>1. s.ino \in Nodes
        BY <1>2, <1>10
      <4>2. a \in [Nodes -> Int] /\ \A n \in Nodes : a[n] = s.refs[n] + (IF n = t.ino THEN 1 ELSE 0)
        BY <1>3, <2>2
      <4>3. b \in [Nodes -> Int] /\ \A n \in Nodes : b[n] = refs[n] + (IF n = t.ino THEN 1 ELSE 0)
        BY <1>1, <2>2
      <4>4. refs' = [a EXCEPT ![s.ino] = @ - 1]
        BY <3>4
      <4> HIDE DEF a, b
      <4>5. refs' \in [Nodes -> Int] /\ \A n \in Nodes : refs'[n] = a[n] - (IF n = s.ino THEN 1 ELSE 0)
        BY <4>1, <4>2, <4>4
      <4>6. ASSUME NEW n \in Nodes PROVE refs'[n] = b[n]
        <5>1. refs[n] \in Int /\ s.refs[n] = refs[n] + (IF n = s.ino THEN 1 ELSE 0)
          BY <1>1, <1>2
        <5>2. refs'[n] = s.refs[n] + (IF n = t.ino THEN 1 ELSE 0) - (IF n = s.ino THEN 1 ELSE 0)
          BY <1>3, <4>2, <4>5
        <5>3. b[n] = refs[n] + (IF n = t.ino THEN 1 ELSE 0)
          BY <4>3
        <5> QED
          BY <5>1, <5>2, <5>3
      <4> QED
        BY <4>3, <4>5, <4>6 DEF b
    <3> QED
      BY <1>7, <1>10, <2>3, <2>4, <3>1, <3>5, MountMounts
  <2>5. CASE d \notin FileSystems
    <3>1. PICK e \in {[mounted |-> "no", mntpt |-> NULLINODE], [mounted |-> "other", mntpt |-> Garbage]} :
            fs_tab' = [fs_tab EXCEPT ![d] = e]
      BY <1>10, <2>5 DEF FMount
    <3>2. refs' = refs
      BY <1>6, <1>10, <2>5
    <3> QED
      BY <1>7, <1>10, <2>1, <3>1, <3>2, FailedMount
  <2> QED
    BY <2>4, <2>5
<1> QED
  BY <1>8, <1>9, <1>10

\* A disk that nobody uses goes.
LEMMA Unmounts ==
  ASSUME Calm, NEW d \in Devs \ {ROOTDEV}, Mounted(d), NEW n, n = fs_tab[d].mntpt,
         \A m \in Nodes : refs[m] > 0 => m[1] # d,
         refs' = [refs EXCEPT ![n] = @ - 1],
         fs_tab' = [fs_tab EXCEPT ![d].mounted = "no"],
         UNCHANGED <<u_cwd, of_tab, panicked>>
  PROVE  IInv'
<1>1. TableOK /\ HoldersSound /\ Counted /\ refs \in [Nodes -> Int]
  BY CalmGives
<1>2. n \in Nodes /\ n \in Covered /\ n \in Dirs
  BY <1>1, Constants DEF TableOK, MountsSound, LiesOn, Covered
<1>3. fs_tab \in [Devs -> [mounted : {"SMOUNTED", "no", "other"}, mntpt : Inode \cup {Garbage}]]
  BY <1>1 DEF TableOK, TypeOK
<1>4. /\ \A e \in Devs : Mounted(e)' <=> Mounted(e) /\ e # d
      /\ \A e \in Devs : fs_tab'[e].mntpt = fs_tab[e].mntpt
      /\ \A e \in Devs : e # d => fs_tab'[e] = fs_tab[e]
      /\ fs_tab'[d].mounted = "no"
  BY <1>3 DEF Mounted
<1>5. TypeOK'
  <2>1. [fs_tab[d] EXCEPT !.mounted = "no"]
          \in [mounted : {"SMOUNTED", "no", "other"}, mntpt : Inode \cup {Garbage}]
    BY <1>3
  <2>2. fs_tab' = [fs_tab EXCEPT ![d] = [fs_tab[d] EXCEPT !.mounted = "no"]]
    BY <1>3
  <2>3. fs_tab' \in [Devs -> [mounted : {"SMOUNTED", "no", "other"}, mntpt : Inode \cup {Garbage}]]
    BY <1>3, <2>1, <2>2
  <2> QED
    BY <1>1, <1>2, <2>3 DEF TableOK, TypeOK
<1>6. Covered' = Covered \ {n}
  <2>1. \A e \in Devs \ {ROOTDEV} : Mounted(e) /\ fs_tab[e].mntpt = n => e = d
    BY <1>1 DEF TableOK, MountsSound
  <2> QED
    BY <1>4, <2>1 DEF Covered
<1>7. ASSUME NEW m \in Nodes, m[1] = d
      PROVE  /\ \A p \in Procs : u_cwd[p] # m
             /\ \A o \in Ofts : of_tab[o] # m
             /\ m \notin Covered
  <2>1. refs[m] \in Nat
    BY Unheld
  <2>2. refs[m] = 0
    BY <1>7, <2>1
  <2> QED
    BY <2>2, Unheld
<1>8. RootMounted' /\ MountsSound'
  <2>1. RootMounted'
    BY <1>1, <1>4, Constants DEF TableOK, RootMounted
  <2>2. ASSUME NEW e \in Devs \ {ROOTDEV}, Mounted(e)' PROVE LiesOn(e, fs_tab[e].mntpt)'
    <3>1. Mounted(e) /\ fs_tab'[e].mntpt = fs_tab[e].mntpt
      BY <1>4, <2>2
    <3>2. LiesOn(e, fs_tab[e].mntpt) /\ fs_tab[e].mntpt \in Covered
      BY <1>1, <3>1 DEF TableOK, MountsSound, Covered
    <3>3. fs_tab[e].mntpt[1] \in Devs /\ fs_tab[e].mntpt[1] # d
      BY <1>7, <3>2, Constants DEF LiesOn
    <3> QED
      BY <1>4, <3>1, <3>2, <3>3 DEF LiesOn
  <2>3. \A a, b \in Devs \ {ROOTDEV} :
          Mounted(a)' /\ Mounted(b)' /\ fs_tab'[a].mntpt = fs_tab'[b].mntpt => a = b
    BY <1>1, <1>4 DEF TableOK, MountsSound
  <2>4. \A e \in Devs : fs_tab'[e].mounted = "other" => fs_tab'[e].mntpt = Garbage
    BY <1>1, <1>4 DEF TableOK, MountsSound
  <2> QED
    BY <2>1, <2>2, <2>3, <2>4 DEF MountsSound
<1>9. HoldersSound'
  <2>1. ASSUME NEW p \in Procs PROVE Mounted(u_cwd[p][1])' /\ u_cwd[p] \notin Covered'
    <3>1. u_cwd[p] \in Nodes /\ u_cwd[p][1] \in Devs
      BY CalmGives, Constants
    <3>2. u_cwd[p][1] # d
      BY <1>7, <3>1
    <3> QED
      BY <1>1, <1>4, <1>6, <3>1, <3>2 DEF HoldersSound
  <2>2. ASSUME NEW o \in Ofts, of_tab[o] # NULLINODE
        PROVE  Mounted(of_tab[o][1])' /\ of_tab[o] \notin Covered'
    <3>1. of_tab[o] \in Nodes /\ of_tab[o][1] \in Devs
      BY <1>1, <2>2, Constants DEF TableOK, TypeOK, Inode
    <3>2. of_tab[o][1] # d
      BY <1>7, <3>1
    <3> QED
      BY <1>1, <1>4, <1>6, <2>2, <3>1, <3>2 DEF HoldersSound
  <2> QED
    BY <2>1, <2>2 DEF HoldersSound
<1>10. Counted'
  <2> SUFFICES ASSUME NEW m \in Nodes
               PROVE  refs'[m] = Count(Procs, u_cwd', m) + Count(Ofts, of_tab', m)
                                 + (IF m \in Covered' THEN 1 ELSE 0) + (IF m = root THEN 1 ELSE 0)
    BY DEF Counted
  <2>1. Count(Procs, u_cwd, m) \in Nat /\ Count(Ofts, of_tab, m) \in Nat
    BY CountZero, MountAssumption
  <2>2. refs[m] = Count(Procs, u_cwd, m) + Count(Ofts, of_tab, m)
                  + (IF m \in Covered THEN 1 ELSE 0) + (IF m = root THEN 1 ELSE 0)
    BY <1>1 DEF Counted
  <2>3. refs'[m] = refs[m] - (IF m = n THEN 1 ELSE 0)
    BY <1>1, <1>2
  <2>4. u_cwd' = u_cwd /\ of_tab' = of_tab
    OBVIOUS
  <2> QED
    BY <1>2, <1>6, <2>1, <2>2, <2>3, <2>4
<1> QED
  BY <1>5, <1>8, <1>9, <1>10 DEF IInv

LEMMA UmountInv ==
  ASSUME Calm, NEW p \in Procs, NEW spec \in Paths, Umount(p, spec)
  PROVE  IInv'
<1> DEFINE s == NOpen(refs, u_cwd[p], spec)
           d == Specials[s.ino]
           n == fs_tab[d].mntpt
<1>1. TableOK /\ refs \in [Nodes -> Int] /\ u_cwd[p] \in Dirs /\ Mounted(u_cwd[p][1])
      /\ spec \in Seq(STRING) /\ spec # <<>>
  BY CalmGives
<1>2. /\ s.ino = NULLINODE => s.refs = refs
      /\ s.ino # NULLINODE => IDeref(s, s.ino).refs = refs /\ s.ino \in Nodes
  BY <1>1, ReleasedGives
<1>3. /\ s \in SearchType
      /\ \A m \in Nodes : s.refs[m] = refs[m] + (IF m = s.ino THEN 1 ELSE 0)
  BY <1>1, NOpenGives
<1>4. UNCHANGED <<u_cwd, of_tab>>
  BY DEF Umount
<1>5. \/ refs' = refs /\ UNCHANGED <<fs_tab, panicked>>
      \/ /\ s.ino # NULLINODE /\ IsDisk(s.ino) /\ fs_tab[d].mounted # "no" /\ ~Busy(s, d)
         /\ fs_tab' = [fs_tab EXCEPT ![d].mounted = "no"]
         /\ panicked' = (n = Garbage)
         /\ refs' = IF n = Garbage THEN s.refs ELSE IDeref(IDeref(s, n), s.ino).refs
  <2>1. Umount(p, spec) =>
          IF s.ino = NULLINODE THEN refs' = s.refs /\ UNCHANGED <<fs_tab, panicked>>
          ELSE IF IsDisk(s.ino) /\ fs_tab[d].mounted # "no" /\ ~Busy(s, d)
          THEN /\ fs_tab' = [fs_tab EXCEPT ![d].mounted = "no"]
               /\ panicked' = (n = Garbage)
               /\ refs' = IF n = Garbage THEN s.refs ELSE IDeref(IDeref(s, n), s.ino).refs
          ELSE refs' = IDeref(s, s.ino).refs /\ UNCHANGED <<fs_tab, panicked>>
    BY DEF Umount
  <2> HIDE DEF s, n
  <2> QED
    BY <1>2, <2>1
<1> HIDE DEF s
<1>6. CASE refs' = refs /\ UNCHANGED <<fs_tab, panicked>>
  BY <1>4, <1>6, NothingMoves DEF vars
<1>7. CASE /\ s.ino # NULLINODE /\ IsDisk(s.ino) /\ fs_tab[d].mounted # "no" /\ ~Busy(s, d)
           /\ fs_tab' = [fs_tab EXCEPT ![d].mounted = "no"]
           /\ panicked' = (n = Garbage)
           /\ refs' = IF n = Garbage THEN s.refs ELSE IDeref(IDeref(s, n), s.ino).refs
  <2>1. d \in Devs /\ s.ino \in Nodes /\ s.ino \notin Dirs /\ s.refs \in [Nodes -> Int]
    BY <1>2, <1>3, <1>7, MountAssumption DEF IsDisk, SearchType
  <2>2. \A m \in Nodes : s.refs[m] > 0 => m[1] # d
    BY <1>7 DEF Busy, InUse
  <2>3. d # ROOTDEV
    <3>1. refs[root] \in Nat /\ refs[root] # 0
      BY Constants, Unheld
    <3>2. s.refs[root] > 0
      BY <1>3, <3>1, Constants
    <3> QED
      BY <2>2, <3>2, Constants
  <2>4. CASE n = Garbage
    <3>1. fs_tab \in [Devs -> [mounted : {"SMOUNTED", "no", "other"}, mntpt : Inode \cup {Garbage}]]
      BY <1>1 DEF TableOK, TypeOK
    <3>2. [fs_tab[d] EXCEPT !.mounted = "no"]
            \in [mounted : {"SMOUNTED", "no", "other"}, mntpt : Inode \cup {Garbage}]
      BY <2>1, <3>1
    <3>3. fs_tab' = [fs_tab EXCEPT ![d] = [fs_tab[d] EXCEPT !.mounted = "no"]]
      BY <1>7, <2>1, <3>1
    <3>4. fs_tab' \in [Devs -> [mounted : {"SMOUNTED", "no", "other"}, mntpt : Inode \cup {Garbage}]]
      BY <2>1, <3>1, <3>2, <3>3
    <3>5. refs' = s.refs /\ panicked' = TRUE
      BY <1>7, <2>4
    <3> QED
      BY <1>1, <1>4, <2>1, <3>4, <3>5 DEF TableOK, TypeOK, IInv
  <2>5. CASE n # Garbage
    <3>1. Mounted(d) /\ n \in Dirs /\ n \in Nodes
      <4>1. fs_tab[d].mounted \in {"SMOUNTED", "no", "other"}
        BY <1>1, <2>1 DEF TableOK, TypeOK
      <4>2. Mounted(d)
        BY <1>1, <1>7, <2>1, <2>5, <4>1 DEF TableOK, MountsSound, Mounted
      <4> QED
        BY <1>1, <2>1, <2>3, <4>2, Constants DEF TableOK, MountsSound, LiesOn
    <3> HIDE DEF d, n
    <3>2. refs' = [[s.refs EXCEPT ![n] = @ - 1] EXCEPT ![s.ino] = @ - 1]
      <4>1. refs' = IDeref(IDeref(s, n), s.ino).refs
        BY <1>7, <2>5
      <4>2. IDeref(s, n) = [s EXCEPT !.refs = [s.refs EXCEPT ![n] = @ - 1]]
        BY <1>3 DEF IDeref, SearchType
      <4>3. IDeref(s, n).refs = [s.refs EXCEPT ![n] = @ - 1]
        BY <1>3, <4>2 DEF SearchType
      <4> QED
        BY <1>3, <4>1, <4>2, <4>3 DEF IDeref, SearchType
    <3>3. refs' = [refs EXCEPT ![n] = @ - 1]
      <4> DEFINE a == [s.refs EXCEPT ![n] = @ - 1]
                 b == [refs EXCEPT ![n] = @ - 1]
      <4>1. a \in [Nodes -> Int] /\ \A m \in Nodes : a[m] = s.refs[m] - (IF m = n THEN 1 ELSE 0)
        BY <2>1, <3>1
      <4>2. b \in [Nodes -> Int] /\ \A m \in Nodes : b[m] = refs[m] - (IF m = n THEN 1 ELSE 0)
        BY <1>1, <3>1
      <4>3. refs' = [a EXCEPT ![s.ino] = @ - 1]
        BY <3>2
      <4> HIDE DEF a, b
      <4>4. refs' \in [Nodes -> Int] /\ \A m \in Nodes : refs'[m] = a[m] - (IF m = s.ino THEN 1 ELSE 0)
        BY <2>1, <4>1, <4>3
      <4>5. ASSUME NEW m \in Nodes PROVE refs'[m] = b[m]
        <5>1. refs[m] \in Int /\ s.refs[m] = refs[m] + (IF m = s.ino THEN 1 ELSE 0)
          BY <1>1, <1>3
        <5>2. refs'[m] = s.refs[m] - (IF m = n THEN 1 ELSE 0) - (IF m = s.ino THEN 1 ELSE 0)
          BY <4>1, <4>4
        <5>3. b[m] = refs[m] - (IF m = n THEN 1 ELSE 0)
          BY <4>2
        <5> QED
          BY <5>1, <5>2, <5>3
      <4> QED
        BY <4>2, <4>4, <4>5 DEF b
    <3>4. \A m \in Nodes : refs[m] > 0 => m[1] # d
      <4>1. \A m \in Nodes : refs[m] > 0 => s.refs[m] > 0
        BY <1>1, <1>3
      <4> QED
        BY <2>2, <4>1
    <3>5. UNCHANGED panicked
      <4>1. panicked = FALSE
        BY DEF Calm, IInv, TypeOK
      <4>2. panicked' = FALSE
        BY <1>7, <2>5
      <4> QED
        BY <4>1, <4>2
    <3> QED
      BY <1>4, <1>7, <2>1, <2>3, <3>1, <3>3, <3>4, <3>5, Unmounts DEF n
  <2> QED
    BY <2>4, <2>5
<1> QED
  BY <1>5, <1>6, <1>7

-----------------------------------------------------------------------------
(* Theorems *)

LEMMA InitInv == Init => IInv
<1> SUFFICES ASSUME Init PROVE IInv
  OBVIOUS
<1>1. refs = [n \in Nodes |-> IF n = root THEN 1 + Cardinality(Procs) ELSE 0]
  BY DEF Init
<1>2. /\ fs_tab = [d \in Devs |-> [mounted |-> IF d = ROOTDEV THEN "SMOUNTED" ELSE "no",
                                   mntpt |-> NULLINODE]]
      /\ u_cwd = [p \in Procs |-> root]
      /\ of_tab = [o \in Ofts |-> NULLINODE]
      /\ panicked = FALSE
  BY DEF Init
<1>3. Cardinality(Procs) \in Nat
  BY FS_CardinalityType, MountAssumption
<1>4. \A d \in Devs : Mounted(d) <=> d = ROOTDEV
  BY <1>2 DEF Mounted
<1>5. Covered = {}
  BY <1>4 DEF Covered
<1>6. TypeOK
  <2>1. refs \in [Nodes -> Int]
    BY <1>1, <1>3
  <2>2. fs_tab \in [Devs -> [mounted : {"SMOUNTED", "no", "other"}, mntpt : Inode \cup {Garbage}]]
    BY <1>2 DEF Inode
  <2> QED
    BY <1>2, <2>1, <2>2, Constants DEF TypeOK, Inode
<1>7. RootMounted /\ MountsSound
  BY <1>2, <1>4, Constants DEF RootMounted, MountsSound
<1>8. HoldersSound
  BY <1>2, <1>4, <1>5, Constants DEF HoldersSound
<1>9. Counted
  <2> SUFFICES ASSUME NEW n \in Nodes
               PROVE  refs[n] = Count(Procs, u_cwd, n) + Count(Ofts, of_tab, n)
                                + (IF n \in Covered THEN 1 ELSE 0) + (IF n = root THEN 1 ELSE 0)
    BY DEF Counted
  <2>1. Count(Ofts, of_tab, n) = 0
    <3>1. \A o \in Ofts : of_tab[o] # n
      BY <1>2, Constants
    <3> QED
      BY <3>1, CountZero, MountAssumption
  <2>2. Count(Procs, u_cwd, n) = IF n = root THEN Cardinality(Procs) ELSE 0
    <3>1. CASE n = root
      <4>1. {q \in Procs : u_cwd[q] = n} = Procs
        BY <1>2, <3>1
      <4> QED
        BY <3>1, <4>1 DEF Count
    <3>2. CASE n # root
      <4>1. \A p \in Procs : u_cwd[p] # n
        BY <1>2, <3>2
      <4> QED
        BY <3>2, <4>1, CountZero, MountAssumption
    <3> QED
      BY <3>1, <3>2
  <2>3. refs[n] = IF n = root THEN 1 + Cardinality(Procs) ELSE 0
    BY <1>1
  <2>4. n \notin Covered
    BY <1>5
  <2> QED
    BY <1>3, <2>1, <2>2, <2>3, <2>4
<1> QED
  BY <1>6, <1>7, <1>8, <1>9 DEF IInv

LEMMA NextInv == IInv /\ [Next]_vars => IInv'
<1> SUFFICES ASSUME IInv, [Next]_vars PROVE IInv'
  OBVIOUS
<1>1. CASE UNCHANGED vars
  BY <1>1 DEF IInv, TypeOK, RootMounted, MountsSound, LiesOn, HoldersSound, Counted, Mounted, Covered, vars
<1>2. CASE Next
  <2>1. Calm
    BY <1>2 DEF Next, Calm
  <2> QED
    BY <1>2, <2>1, ChdirInv, UmountInv, OpenInv, CloseInv, MountInv DEF Next
<1> QED
  BY <1>1, <1>2

(* Invariance, for any number of processes and disks. *)
THEOREM Invariance == Spec => []IInv
<1> QED
  BY InitInv, NextInv, PTL DEF Spec

(* c_refs is the number of those who hold an inode: the walks of n_open    *)
(* (fs/filesys.c) give back what they took on every way out, also when the *)
(* inode table is full or a mount fails.                                   *)
THEOREM RefsAreCounted == Spec => []RefsCounted
<1>1. IInv => RefsCounted
  BY DEF IInv, Counted, Count, RefsCounted
<1> QED
  BY <1>1, Invariance, PTL

(* No order of mount and umount (kernel/scall1b.c) leaves a disk hanging   *)
(* under one that is gone, or somebody under a mount point.                *)
THEOREM MountsAreHeld == Spec => []MountsHeld
<1>1. IInv => MountsHeld
  <2> SUFFICES ASSUME Calm PROVE MountsHeld
    BY DEF Calm, MountsHeld
  <2>1. TableOK /\ HoldersSound /\ Counted
    BY CalmGives
  <2>2. ASSUME NEW n \in Nodes, refs[n] > 0 PROVE Mounted(n[1])
    <3>1. refs[n] = Count(Procs, u_cwd, n) + Count(Ofts, of_tab, n)
                    + (IF n \in Covered THEN 1 ELSE 0) + (IF n = root THEN 1 ELSE 0)
      BY <2>1 DEF Counted
    <3>2. CASE n \in Covered
      BY <2>1, <3>2 DEF Covered, TableOK, MountsSound, LiesOn
    <3>3. CASE n = root
      BY <2>1, <3>3, Constants DEF TableOK, RootMounted, Mounted
    <3>4. CASE Count(Procs, u_cwd, n) # 0
      <4>1. \E p \in Procs : u_cwd[p] = n
        BY <3>4, CountZero, MountAssumption
      <4> QED
        BY <2>1, <4>1 DEF HoldersSound
    <3>5. CASE Count(Ofts, of_tab, n) # 0
      <4>1. \E o \in Ofts : of_tab[o] = n
        BY <3>5, CountZero, MountAssumption
      <4> QED
        BY <2>1, <4>1, Constants DEF HoldersSound
    <3> QED
      BY <2>2, <3>1, <3>2, <3>3, <3>4, <3>5
  <2>3. ASSUME NEW d \in Devs \ {ROOTDEV}, Mounted(d)
        PROVE  LET n == fs_tab[d].mntpt
               IN n \in Dirs /\ n[1] # d /\ n[2] # ROOTINODE /\ refs[n] = 1
    <3> DEFINE n == fs_tab[d].mntpt
    <3>1. LiesOn(d, n) /\ n \in Covered
      BY <2>1, <2>3 DEF TableOK, MountsSound, Covered
    <3>2. n \in Nodes /\ n # root
      BY <3>1, Constants DEF LiesOn
    <3> HIDE DEF n
    <3>3. Count(Procs, u_cwd, n) = 0
      <4>1. \A p \in Procs : u_cwd[p] # n
        BY <2>1, <3>1 DEF HoldersSound
      <4> QED
        BY <4>1, CountZero, MountAssumption
    <3>4. Count(Ofts, of_tab, n) = 0
      <4>1. \A o \in Ofts : of_tab[o] # n
        BY <2>1, <3>1, <3>2, Constants DEF HoldersSound
      <4> QED
        BY <4>1, CountZero, MountAssumption
    <3>5. refs[n] = Count(Procs, u_cwd, n) + Count(Ofts, of_tab, n)
                    + (IF n \in Covered THEN 1 ELSE 0) + (IF n = root THEN 1 ELSE 0)
      BY <2>1, <3>2 DEF Counted
    <3>6. refs[n] = 1
      BY <3>1, <3>2, <3>3, <3>4, <3>5
    <3> QED
      BY <3>1, <3>6 DEF LiesOn, n
  <2> QED
    BY <2>1, <2>2, <2>3 DEF MountsHeld, TableOK, MountsSound
<1> QED
  BY <1>1, Invariance, PTL

(* Through mount points and back up by "..", a path leads n_open to what   *)
(* it means, whatever is mounted where: the walk of the code and the way   *)
(* of the path keep together from one name to the next.                    *)
LEMMA Resolved == Calm => NamesResolve
<1> SUFFICES ASSUME Calm, NEW way \in BoundedSeq(Plain, Longest)
             PROVE  LET s == NOpen(refs, root, <<AtRoot>> \o way)
                    IN s.ino = Meaning(<<AtRoot>> \o way) \/ (s.full /\ s.ino = NULLINODE)
  BY DEF NamesResolve, Absolute
<1> DEFINE path == <<AtRoot>> \o way
           X == Plain \cup {AtRoot}
           N == Len(way)
           s0 == Begin(refs, root, path)
           s == Search(s0, way)
           end == SrchMt(s)
           t == NOpen(refs, root, path)
<1>1. TableOK /\ refs \in [Nodes -> Int] /\ root \in Dirs /\ Mounted(root[1])
  BY CalmGives, Constants DEF TableOK, RootMounted, Mounted
<1>2. way \in Seq(Plain) /\ N \in Nat /\ \A k \in 1 .. N : way[k] \in Plain
  <2>1. PICK m \in 0 .. Longest : way \in [1 .. m -> Plain]
    BY MountAssumption DEF BoundedSeq, SeqOf
  <2>2. way \in Seq(Plain)
    BY <2>1, SeqDef, MountAssumption
  <2> QED
    BY <2>2
<1>3. /\ path \in Seq(X) /\ path # <<>> /\ Head(path) = AtRoot /\ Tail(path) = way
  <2>1. <<AtRoot>> \in Seq(X) /\ Len(<<AtRoot>>) = 1 /\ way \in Seq(X)
    BY <1>2, SeqMonotonic
  <2>2. /\ path \in Seq(X) /\ Len(path) = 1 + N
        /\ \A i \in 1 .. 1 + N : path[i] = IF i <= 1 THEN <<AtRoot>>[i] ELSE way[i - 1]
    BY <1>2, <2>1, ConcatProperties
  <2> HIDE DEF path, N, X
  <2>3. path # <<>> /\ Head(path) = AtRoot
    BY <1>2, <2>2
  <2>4. /\ Tail(path) \in Seq(X) /\ Len(Tail(path)) = N
        /\ \A i \in 1 .. N : Tail(path)[i] = way[i]
    BY <1>2, <2>2, <2>3, HeadTailProperties
  <2>5. Tail(path) = way
    BY <1>2, <2>4, SeqEqual DEF N
  <2> QED
    BY <2>2, <2>3, <2>5
<1> HIDE DEF path
<1>4. Components(path) = way
  BY <1>3 DEF Components
<1>5. Walking(refs, s0) /\ s0.ino = root /\ ~s0.full
  BY <1>1, <1>3, BeginGives
<1> HIDE DEF s0
<1>6. PICK g : Searches(refs, s0, way, g)
  BY <1>1, <1>2, <1>5, SearchSteps
<1>7. PICK h : Ways(way, h)
  BY <1>1, <1>2, WaySteps
<1>8. Leads(g[N], h[N])
  <2> DEFINE S == {k \in 0 .. N : Leads(g[k], h[k])}
  <2>1. 0 \in S
    <3>1. Chain(<<root>>) /\ Top(root) = root
      BY <1>1, RootChain
    <3>2. Last(<<root>>) = root
      BY DEF Last
    <3> QED
      BY <1>2, <1>5, <1>6, <1>7, <3>1, <3>2, Constants DEF Leads, Searches, Ways
  <2>2. ASSUME NEW k \in 0 .. N - 1, k \in S PROVE k + 1 \in S
    <3>1. k \in 0 .. N /\ k + 1 \in 1 .. N /\ k + 1 \in 0 .. N /\ (k + 1) - 1 = k
      BY <1>2
    <3>2. g[k + 1] = Component(g[k], way[k + 1]) /\ h[k + 1] = Follow(h[k], way[k + 1])
      BY <1>6, <1>7, <3>1 DEF Searches, Ways
    <3>3. way[k + 1] \in DotNames => way[k + 1] = ".."
      BY <1>2, <3>1 DEF Plain
    <3>4. Walking(refs, g[k]) /\ Leads(g[k], h[k])
      BY <1>6, <2>2, <3>1 DEF Searches
    <3>5. Leads(Component(g[k], way[k + 1]), Follow(h[k], way[k + 1]))
      BY <1>1, <3>3, <3>4, LeadsOn
    <3> QED
      BY <3>1, <3>2, <3>5
  <2> HIDE DEF S
  <2>3. 0 .. N \subseteq S
    BY <1>2, <2>1, <2>2, IntervalInduction
  <2> QED
    BY <1>2, <2>3 DEF S
<1>9. Leads(s, Way(way)) /\ Walking(refs, s)
  BY <1>2, <1>6, <1>7, <1>8 DEF Searches, Ways, s
<1>10. Meaning(path) = IF Way(way) = <<>> THEN NULLINODE ELSE Last(Way(way))
  BY <1>3 DEF Meaning
<1>11. (t.ino = end.ino /\ t.full = end.full) \/ (s.stop /\ t = s)
  <2>1. t = IF s.stop THEN s ELSE IDeref(end, end.wd)
    BY <1>4 DEF NOpen, s, s0
  <2>2. end \in SearchType
    BY <1>1, <1>9, SrchMtGives DEF Walking
  <2> HIDE DEF end, t
  <2>3. IDeref(end, end.wd).ino = end.ino /\ IDeref(end, end.wd).full = end.full
    BY <2>2 DEF IDeref, SearchType
  <2>4. CASE s.stop
    BY <2>1, <2>4
  <2>5. CASE ~s.stop
    <3>1. t = IDeref(end, end.wd)
      BY <2>1, <2>5
    <3> QED
      BY <2>3, <3>1
  <2> QED
    BY <2>4, <2>5
<1>12. /\ s.ino = NULLINODE => end = s
       /\ s.ino # NULLINODE => \/ end.ino = Top(s.ino) /\ end.full = s.full
                               \/ end.ino = NULLINODE /\ end.full
  BY <1>1, <1>9, SrchMtGives
<1>13. s.stop \/ s.full => s.ino = NULLINODE
  BY <1>9 DEF Walking
<1> HIDE DEF end, t
<1>14. t.ino = Meaning(path) \/ (t.full /\ t.ino = NULLINODE)
  BY <1>9, <1>10, <1>11, <1>12, <1>13 DEF Leads, Chain
<1> QED
  BY <1>14 DEF t, path

(* An absolute path leads where it means (fs/filesys.c, n_open): for any   *)
(* trees and any mounted disks, and a path of any length.                  *)
THEOREM NamesAreResolved == Spec => []NamesResolve
<1>1. IInv => NamesResolve
  BY Resolved DEF Calm, NamesResolve
<1> QED
  BY <1>1, Invariance, PTL

=============================================================================
