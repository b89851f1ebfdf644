-------------------------------- MODULE Fsck --------------------------------
(***************************************************************************)
(* The file system checker (src/uzi-nes-utils/fs/fsck.c): five passes over *)
(* a disk with faults, every question answered with yes.  It may be        *)
(* interrupted and is run again.  Each step looks at one inode, or at one  *)
(* entry of a directory, and writes what it mends at once.                 *)
(*                                                                         *)
(* A block is a row of words.  It is read as text, as pointers, as entries *)
(* of a directory or as a part of the free list, whatever it was written   *)
(* for.  Offsets are in bytes.                                             *)
(*                                                                         *)
(* Files so long that they have double indirect blocks are left out.       *)
(***************************************************************************)
EXTENDS Integers, Sequences, FiniteSets, SequencesExt

CONSTANTS
  NI,        \* 8 * (s_isize - 2), the inode numbers are 1 .. NI - 1
  NL,        \* 8 * s_isize, the entries of linkmap
  ISize,     \* s_isize
  FSize,     \* s_fsize
  IPB,       \* 8, the inodes in a block
  IW,        \* 32, the words of an inode
  DirModes,  \* the words that are the mode of a directory
  LinkAt,    \* where linkmap lies in memory, in bytes behind the start of bitmap
  ND,        \* 18, the direct blocks of an inode
  NIND,      \* 256, the words of a block
  EW,        \* 8, the words of an entry
  LostName,  \* "l+f" and a number, as words
  SEEN,      \* 8, the entries of a block that ckdir looks at
  FREEMAX,   \* 50, the entries of s_free
  MAXDEPTH,  \* 20
  Disks,     \* the disks to begin with
  MaxRuns    \* bound: the runs that are completed

ENTRY == 2 * EW         \* sizeof(struct direct)
PER == NIND \div EW     \* the entries that a block has
BS == ENTRY * PER
BYTE == 256
Root == 1
Inodes == Root .. NI - 1
Blocks == 0 .. FSize - 1
DataBlocks == ISize .. FSize - 1

Single == ND
Double == ND + 1
Bad(b) == b # 0 /\ b \notin DataBlocks

Modes == {"none", "reg", "dir", "dev", "bad"}
InodeType ==
  [mode : Modes, nlink : Int, blkno : Nat, offset : Int, addr : [0 .. Double -> Nat]]
NameType == [1 .. EW - 1 -> Nat]
BlockType == [0 .. NIND - 1 -> Nat]
DiskType ==
  [inode : [Inodes -> InodeType], disk : [Blocks -> BlockType],
   tinode : Int, tfree : Int, free : Seq(Nat)]

\* The block at which a file ends, once its offset is mended.
Ends(i) == IF i.offset >= BS THEN i.blkno + i.offset \div BS ELSE i.blkno
\* A file has double indirect blocks, and pass 1 will not take them away.
SecondLevel(d) ==
  \E n \in Inodes :
    /\ d.inode[n].mode \in {"reg", "dir"}
    /\ d.inode[n].addr[Double] \in DataBlocks /\ Ends(d.inode[n]) >= ND

ASSUME FsckAssumption ==
  /\ Disks \subseteq DiskType /\ \A d \in Disks : ~SecondLevel(d)
  /\ NI \in Nat /\ Root < NI
  /\ ISize \in Nat /\ FSize \in Nat /\ 2 < ISize /\ ISize + 2 <= FSize
  /\ IPB \in Nat \ {0} /\ IW \in Nat \ {0} /\ IPB * IW <= NIND
  /\ NI = IPB * (ISize - 2) /\ NL = IPB * ISize /\ NL \in Nat
  /\ LinkAt \in Nat /\ FSize <= LinkAt
  /\ ND \in Nat \ {0} /\ NIND \in Nat \ {0} /\ FREEMAX \in Nat \ {0} /\ FREEMAX < NIND
  /\ EW \in Nat \ {0, 1} /\ EW * PER = NIND /\ PER \in Nat \ {0} /\ LostName \in NameType
  /\ SEEN \in 1 .. PER
  /\ MAXDEPTH \in Nat \ {0} /\ MaxRuns \in Nat \ {0}

VARIABLES
  fs,      \* the disk, bitmap and linkmap, and what was asked in this run
  pc,      \* the pass, and the inode it is at
  stack,   \* the calls of ckdir: the directory, its parent, the next entry
  run,     \* the number of the run
  cut,     \* a run was interrupted
  was      \* the disk in the beginning: a history variable

vars == <<fs, pc, stack, run, cut, was>>

NoLinks == [n \in 0 .. NL - 1 |-> 0]
Started(d) ==
  [inode |-> d.inode, disk |-> d.disk, tinode |-> d.tinode, tfree |-> d.tfree, free |-> d.free,
   bitmap |-> {}, linkmap |-> NoLinks, asked |-> {}, panic |-> "none"]
Begin == pc' = [pass |-> 1, n |-> Root] /\ stack' = <<>>

Init ==
  /\ was \in Disks
  /\ fs = Started(was)
  /\ pc = [pass |-> 1, n |-> Root] /\ stack = <<>>
  /\ run = 1 /\ cut = FALSE

-----------------------------------------------------------------------------
(* Blocks of files.  These operators take the state f and return the one   *)
(* they leave.                                                             *)

Ask(f, question) == [f EXCEPT !.asked = @ \cup {question}]
Panic(f, why) == IF f.panic = "none" THEN [f EXCEPT !.panic = why] ELSE f
\* Op for 0, 1, ..., last, starting from f.
Steps(Op(_, _), f, last) ==
  LET g[k \in 0 .. last + 1] == IF k = 0 THEN f ELSE Op(g[k - 1], k - 1)
  IN g[last + 1]
Mode(f, n) == f.inode[n].mode
HasBlocks(f, n) == Mode(f, n) \in {"reg", "dir"}
Size(f, n) == f.inode[n].blkno

\* Behind the blocks of the indirect one there is nothing.
GetBlk(f, n, num) ==
  LET addr == f.inode[n].addr
  IN CASE num < ND -> addr[num]
       [] num \in ND .. ND + NIND - 1 /\ addr[Single] # 0 -> f.disk[addr[Single]][num - ND]
       [] OTHER -> 0

\* A pointer is a word of its block, whatever else the block is used for.
SetBlk(f, n, num, b) ==
  IF num < ND THEN [f EXCEPT !.inode[n].addr[num] = b]
  ELSE [f EXCEPT !.disk[f.inode[n].addr[Single]][num - ND] = b]

-----------------------------------------------------------------------------
(* Pass 1: each inode by itself *)

CheckMode(f, n) ==
  IF Mode(f, n) = "bad"
  THEN [Ask(f, "mode") EXCEPT !.inode[n].mode = "none", !.inode[n].nlink = 0]
  ELSE f

Longer(i) == [i EXCEPT !.blkno = Ends(i), !.offset = @ % BS]
CheckSize(f, n) ==
  LET size == f.inode[n]
  IN CASE size.offset >= BS ->
            [Ask(f, "size") EXCEPT !.inode[n] = Longer(size)]
       [] size.offset < 0 -> [Ask(f, "size") EXCEPT !.inode[n].offset = 0]
       [] OTHER -> f

Mark(f, b) == IF b = 0 THEN f ELSE [f EXCEPT !.bitmap = @ \cup {b}]

\* An indirect block out of range, or in a file that is too short for it.
Wrong(f, n, b) == Bad(b) \/ (b # 0 /\ Size(f, n) < ND)
CheckPointer(f, n, k) ==
  LET b == f.inode[n].addr[k]
  IN IF Wrong(f, n, b) THEN [Ask(f, "pointer") EXCEPT !.inode[n].addr[k] = 0] ELSE Mark(f, b)

(* bitmap[b] = 1 for a number behind bitmap: a byte of linkmap may be hit. *)
Poked(v, low) == IF low THEN v - (v % BYTE) + 1 ELSE (v % BYTE) + BYTE
MarkAny(f, b) ==
  LET at == b - LinkAt k == at \div 2
  IN CASE b < FSize -> Mark(f, b)
       [] at \in 0 .. 2 * NL - 1 -> [f EXCEPT !.linkmap[k] = Poked(@, at % 2 = 0)]
       [] OTHER -> f

\* The number that is taken away is marked, too.
CheckBlock(f, n, num) ==
  LET b == GetBlk(f, n, num)
  IN MarkAny(IF Bad(b) THEN SetBlk(Ask(f, "block"), n, num, 0) ELSE f, b)

Covered(f, n) == Size(f, n)

CheckBlocks(f, n) ==
  LET g == CheckPointer(CheckPointer(f, n, Single), n, Double)
  IN Steps(LAMBDA x, num : CheckBlock(x, n, num), g, Covered(g, n))

Checked(f, n) ==
  LET g == CheckMode([f EXCEPT !.linkmap[n] = -1], n)
      h == CheckSize([g EXCEPT !.linkmap[n] = 0], n)
  IN CASE Mode(g, n) = "none" -> g
       [] HasBlocks(g, n)     -> CheckBlocks(h, n)
       [] OTHER               -> h

\* icount: the inodes that are in use
InUse(f) == {n \in Inodes : Mode(f, n) # "none"}
CountInodes(f) ==
  LET number == NI - Root - Cardinality(InUse(f))
  IN IF f.tinode = number THEN f ELSE [Ask(f, "inodes") EXCEPT !.tinode = number]

-----------------------------------------------------------------------------
(* Pass 2: the free list *)

\* A part of the list in a block: s_nfree and s_free.  What lies behind them
\* in memory is written, too, and is taken to be 0.
ListBlock(list) ==
  [k \in 0 .. NIND - 1 |->
     CASE k = 0 -> Len(list) [] k \in 1 .. Len(list) -> list[k] [] OTHER -> 0]
ListOf(c) == [k \in 1 .. c[0] |-> c[k]]

PutOnList(f, b) ==
  LET full == Len(f.free) = FREEMAX
  IN IF b \in f.bitmap THEN f
     ELSE [f EXCEPT !.disk[b] = IF full THEN ListBlock(f.free) ELSE @,
                    !.free = Append(IF full THEN <<>> ELSE @, b),
                    !.tfree = @ + 1]

Rebuilt(f) ==
  Steps(LAMBDA x, k : PutOnList(x, FSize - 1 - k), [f EXCEPT !.free = <<0>>, !.tfree = 0],
        FSize - 1 - ISize)

-----------------------------------------------------------------------------
(* Pass 3: blocks that are allocated twice *)

\* blk_alloc: 0 when there is none.
NewBlk(f) == Last(f.free)
Taken(f) ==
  LET b == NewBlk(f) rest == Front(f.free)
  IN [f EXCEPT !.free = IF rest = <<>> THEN ListOf(f.disk[b]) ELSE rest, !.tfree = @ - 1]

(* A block that was met before is copied to a new one, which is not marked.*)
Second(f, b) == b # 0 /\ b \in f.bitmap
\* Bug: the block is not copied.
BugCopied(f, b) == Taken(f)
Copied(f, b) == [Taken(f) EXCEPT !.disk[NewBlk(f)] = f.disk[b]]

Resolved(f, b, replaced) ==
  CASE ~Second(f, b)                  -> Mark(f, b)
    [] Second(f, b) /\ NewBlk(f) = 0  -> Ask(f, "twice")
    [] OTHER                          -> replaced

SharePointer(f, n, k) ==
  LET b == f.inode[n].addr[k]
  IN Resolved(f, b, [Copied(Ask(f, "twice"), b) EXCEPT !.inode[n].addr[k] = NewBlk(f)])
ShareBlock(f, n, num) ==
  LET b == GetBlk(f, n, num)
  IN Resolved(f, b, SetBlk(Copied(Ask(f, "twice"), b), n, num, NewBlk(f)))

\* Bug: the indirect block is not looked at.
BugShared(f, n) ==
  IF HasBlocks(f, n) THEN Steps(LAMBDA x, num : ShareBlock(x, n, num), f, Covered(f, n)) ELSE f
Shared(f, n) ==
  LET g == SharePointer(SharePointer(f, n, Single), n, Double)
  IN IF HasBlocks(f, n)
     THEN Steps(LAMBDA x, num : ShareBlock(x, n, num), g, Covered(g, n))
     ELSE f

-----------------------------------------------------------------------------
(* Pass 4: the names *)

Frame(dir, parent) == [dir |-> dir, parent |-> parent, j |-> 0]
Top == Last(stack)

\* A length that does not fit is made one byte too long.
Length(f, d) == f.inode[d].offset
CheckLength(f, d) ==
  IF Length(f, d) % ENTRY = 0 THEN f
  ELSE [Ask(f, "length") EXCEPT !.inode[d].offset = @ - (@ % ENTRY) + 1]

(* The inodes NI .. NL - 1 lie in data blocks.                             *)
ModeWord(f, n) == f.disk[n \div IPB + 2][IW * (n % IPB)]
Stray(f, n) == n \in NI .. NL - 1 /\ ModeWord(f, n) \in DirModes

(* ckdir comes to a directory.  One that lies in a data block is not gone  *)
(* through: the model stops there for good.                                *)
Come(f, frames, dir, parent) ==
  CASE Stray(f, dir) -> fs' = Panic(f, "stray") /\ stack' = frames
    [] dir \in Inodes /\ Mode(f, dir) = "dir" ->
         fs' = CheckLength(f, dir) /\ stack' = Append(frames, Frame(dir, parent))
    [] OTHER -> fs' = f /\ stack' = frames

EntryOf(c, j) == [ino |-> c[EW * j], name |-> [k \in 1 .. EW - 1 |-> c[EW * j + k]]]
PutEntry(c, j, e) ==
  [k \in 0 .. NIND - 1 |->
     IF k \div EW # j THEN c[k] ELSE IF k % EW = 0 THEN e.ino ELSE e.name[k % EW]]

(* dirread and dirwrite.  They look for entry j at buf + 16 * j, which is  *)
(* behind the block when j is PER or more; on none of the disks is there a *)
(* directory so long that ckdir or mkentry comes to such an entry.         *)
EntryAt(f, d, j) == EntryOf(f.disk[GetBlk(f, d, j \div PER)], j)
\* Bug: a changed entry is not written back.
BugWrite(f, d, j, e) == f
Write(f, d, j, e) == [f EXCEPT !.disk[GetBlk(f, d, j \div PER)] = PutEntry(@, j, e)]

\* Names: the bytes up to the first that is 0, two of them in a word.
Byte(name, c) ==
  IF c % 2 = 0 THEN name[c \div 2 + 1] % BYTE ELSE name[c \div 2 + 1] \div BYTE
IsDot(name) == name[1] = 46
IsDotDot(name) == name[1] = 46 + 46 * BYTE /\ (EW > 2 => Byte(name, 2) = 0)
IsEmpty(name) == Byte(name, 0) = 0
Emptied(e) == [e EXCEPT !.ino = 0, !.name[1] = @ - (@ % BYTE)]
IsSlash(name, c) == Byte(name, c) = 47 /\ \A i \in 0 .. c : Byte(name, i) # 0
\* Each slash, 47, becomes an X, 88.
Mended(name) ==
  [k \in 1 .. EW - 1 |->
     name[k] + (IF IsSlash(name, 2 * k - 2) THEN 41 ELSE 0)
             + (IF IsSlash(name, 2 * k - 1) THEN 41 * BYTE ELSE 0)]

NEntries(f, d) == SEEN * Size(f, d) + Length(f, d) \div ENTRY

Zapped(f, e) == e.ino >= NL \/ f.linkmap[e.ino] = -1

CheckSlash(f, d, j) ==
  LET e == EntryAt(f, d, j)
  IN IF Mended(e.name) = e.name THEN f
     ELSE Write(Ask(f, "slash"), d, j, [e EXCEPT !.name = Mended(@)])

IsNamed(name, question) == IF question = "dot" THEN IsDot(name) ELSE IsDotDot(name)
CheckDot(f, d, j, right, question) ==
  LET e == EntryAt(f, d, j)
  IN IF IsNamed(e.name, question) /\ e.ino # right
     THEN Write(Ask(f, question), d, j, [e EXCEPT !.ino = right])
     ELSE f

Counted(f, e) == [f EXCEPT !.linkmap[e.ino] = @ + 1]

Deeper == Len(stack) < MAXDEPTH

Followed(f, d, to, rest) ==
  IF to \notin {d, Top.parent} /\ Deeper THEN Come(f, rest, to, d)
  ELSE fs' = f /\ stack' = rest

InPass4 == pc = [pass |-> 4, n |-> Root + 1] /\ fs.panic = "none"

CheckEntry ==
  /\ InPass4 /\ stack # <<>> /\ Top.j < NEntries(fs, Top.dir)
  /\ LET d == Top.dir j == Top.j
         e == EntryAt(fs, d, j)
         f == CheckSlash(Counted(fs, e), d, j)
         g == CheckDot(CheckDot(f, d, j, d, "dot"), d, j, Top.parent, "dotdot")
         rest == [stack EXCEPT ![Len(stack)].j = j + 1]
     IN IF GetBlk(fs, d, j \div PER) = 0 THEN fs' = Panic(fs, "directory") /\ UNCHANGED stack
        ELSE CASE e.ino = 0 -> UNCHANGED fs /\ stack' = rest
               [] e.ino # 0 /\ Zapped(fs, e) ->
                    fs' = Write(Ask(fs, "inode"), d, j, Emptied(e)) /\ stack' = rest
               [] OTHER -> Followed(g, d, EntryAt(g, d, j).ino, rest)
  /\ UNCHANGED <<pc, run, cut, was>>

CheckedDir ==
  /\ InPass4 /\ stack # <<>> /\ Top.j >= NEntries(fs, Top.dir)
  /\ stack' = Front(stack)
  /\ UNCHANGED <<fs, pc, run, cut, was>>

-----------------------------------------------------------------------------
(* Pass 5: the links *)

\* The entries of the root directory that mkentry may use.
RootEntries(f) == PER * Size(f, Root) + Length(f, Root) \div ENTRY
Slots(f) ==
  {j \in 0 .. RootEntries(f) - 1 :
     j < PER /\ EntryAt(f, Root, j).ino = 0 /\ IsEmpty(EntryAt(f, Root, j).name)}
MkEntry(f, n) ==
  IF RootEntries(f) > 0 /\ GetBlk(f, Root, 0) = 0 THEN Panic(f, "directory")
  ELSE IF Slots(f) = {} THEN f
  ELSE Write(f, Root, CHOOSE j \in Slots(f) : \A k \in Slots(f) : j <= k,
             [ino |-> n, name |-> LostName])

Empty(f, n) == Mode(f, n) = "dev" \/ (Size(f, n) = 0 /\ f.inode[n].offset = 0)

\* Bug: a count that is too large is left alone.
BugMiscounted(f, n) == f.inode[n].nlink < f.linkmap[n]
Miscounted(f, n) == f.linkmap[n] > 0 /\ f.inode[n].nlink # f.linkmap[n]

Linked(f, n) ==
  IF (Mode(f, n) = "none") # (f.linkmap[n] = -1) THEN Panic(f, "linkmap")
  ELSE CASE Miscounted(f, n) -> [Ask(f, "links") EXCEPT !.inode[n].nlink = f.linkmap[n]]
         [] f.linkmap[n] = 0 /\ Empty(f, n) ->
              [Ask(f, "useless") EXCEPT !.inode[n].mode = "none", !.inode[n].nlink = 0,
                                        !.tinode = @ + 1]
         [] f.linkmap[n] = 0 /\ ~Empty(f, n) ->
              MkEntry([Ask(f, "detached") EXCEPT !.inode[n].nlink = 1], n)
         [] OTHER -> f

-----------------------------------------------------------------------------
(* The program *)

InodePass(pass, Op(_, _), End(_)) ==
  /\ pc.pass = pass /\ pc.n < NI /\ fs.panic = "none"
  /\ fs' = IF pc.n = NI - 1 THEN End(Op(fs, pc.n)) ELSE Op(fs, pc.n)
  /\ pc' = IF pc.n = NI - 1 THEN [pass |-> pass + 1, n |-> Root] ELSE [pc EXCEPT !.n = @ + 1]
  /\ UNCHANGED <<stack, run, cut, was>>

Pass1 == InodePass(1, Checked, CountInodes)

Pass2 ==
  /\ pc.pass = 2 /\ fs.panic = "none"
  /\ fs' = [Rebuilt(fs) EXCEPT !.bitmap = @ \ DataBlocks]
  /\ pc' = [pass |-> 3, n |-> Root]
  /\ UNCHANGED <<stack, run, cut, was>>

Pass3 == InodePass(3, Shared, LAMBDA f : f)

Pass4 ==
  /\ pc = [pass |-> 4, n |-> Root] /\ fs.panic = "none"
  /\ Come([fs EXCEPT !.linkmap[Root] = 1], <<>>, Root, Root)
  /\ pc' = [pc EXCEPT !.n = Root + 1]
  /\ UNCHANGED <<run, cut, was>>

Pass4Done ==
  /\ InPass4 /\ stack = <<>>
  /\ pc' = [pass |-> 5, n |-> Root]
  /\ UNCHANGED <<fs, stack, run, cut, was>>

Pass5 == InodePass(5, Linked, LAMBDA f : f)

Done == pc.pass = 6 /\ fs.panic = "none"
Stopped == pc.pass = 6 \/ fs.panic # "none"

(* fsck is run on what it left, or after it was interrupted. *)
Again ==
  /\ Stopped /\ fs.panic # "stray" /\ run < MaxRuns
  /\ run' = run + 1
  /\ Begin /\ fs' = Started(fs)
  /\ UNCHANGED <<cut, was>>

Interrupted ==
  /\ ~Stopped /\ ~cut
  /\ cut' = TRUE
  /\ Begin /\ fs' = Started(fs)
  /\ UNCHANGED <<run, was>>

Next ==
  \/ Pass1 \/ Pass2 \/ Pass3 \/ Pass4 \/ CheckEntry \/ CheckedDir \/ Pass4Done \/ Pass5
  \/ Again \/ Interrupted

Spec == Init /\ [][Next]_vars

-----------------------------------------------------------------------------
(* Properties *)

Used(f) ==
  {n \in Inodes : HasBlocks(f, n)} \X {"pointer", "block"} \X (0 .. ND + NIND)
BlockAt(f, u) ==
  CASE u[2] = "pointer" /\ u[3] \in {Single, Double} -> f.inode[u[1]].addr[u[3]]
    [] u[2] = "block" /\ u[3] <= Size(f, u[1])      -> GetBlk(f, u[1], u[3])
    [] OTHER                                        -> 0
Uses(f) == {u \in Used(f) : BlockAt(f, u) # 0}

\* The free blocks in the order in which they are given out, and a 0.
Listed(f) ==
  Steps(LAMBDA l, k : IF l[1] = 0 THEN l ELSE ListOf(f.disk[l[1]]) \o l, f.free, FSize - ISize)

(* Each block is in one place: in a file once or in the free list once.    *)
(* Only a file that pass 5 took away may have had others.                  *)
EachOnce ==
  LET listed == Tail(Listed(fs))
      free == {listed[k] : k \in 1 .. Len(listed)}
      used == {BlockAt(fs, u) : u \in Uses(fs)}
      gone == UNION {{fs.inode[n].addr[k] : k \in 0 .. ND + 1} :
                      n \in {i \in Inodes : ~HasBlocks(fs, i)}}
  IN /\ Listed(fs)[1] = 0
     /\ Cardinality(free) = Len(listed) /\ fs.tfree = Len(listed)
     /\ Cardinality(used) = Cardinality(Uses(fs))
     /\ used \cap free = {}
     /\ used \cup free \subseteq DataBlocks
     /\ DataBlocks \subseteq used \cup free \cup gone

(* That is so after the second run, if there was room for the copies.      *)
(* After one run two files may still share a block, because pass 3 does    *)
(* not mark the blocks that it gives out.                                  *)
BlocksOnce == Done /\ run > 1 => EachOnce

Names(f, n) ==
  {u \in Inodes \X (0 .. PER - 1) :
     /\ Mode(f, u[1]) = "dir" /\ u[2] < PER * Size(f, u[1]) + Length(f, u[1]) \div ENTRY
     /\ EntryAt(f, u[1], u[2]).ino = n}
Links(f, n) == Cardinality(Names(f, n)) + (IF n = Root THEN 1 ELSE 0)

\* A directory has two names, so the directories are no tree.
Branches(f) ==
  \E n \in Inodes :
    /\ Mode(f, n) = "dir"
    /\ Cardinality({u \in Names(f, n) : LET name == EntryAt(f, u[1], u[2]).name
                                       IN ~IsDot(name) /\ ~IsDotDot(name)}) > 1

(* After some runs the links of an inode are its names, unless a detached  *)
(* one found no place, a directory has a full block, or one with two names *)
(* was gone through twice.                                                 *)
LinksAreNames ==
  /\ Done /\ run = MaxRuns /\ "detached" \notin fs.asked /\ ~Branches(fs)
  /\ \A d \in Inodes : Mode(fs, d) = "dir" => Size(fs, d) = 0
  => \A n \in Inodes : Mode(fs, n) # "none" => fs.inode[n].nlink = Links(fs, n)

\* The blocks that are used as indirect ones.
Indirect(d) ==
  {d.inode[n].addr[Single] : n \in {m \in Inodes : HasBlocks(d, m) /\ Ends(d.inode[m]) >= ND}}

(* What a file had in a block it has after a run, too, unless the block is *)
(* used as an indirect one as well: pass 1 mends that where it is, before  *)
(* pass 3 gives each file a block of its own.                              *)
TextKept ==
  Done =>
    \A n \in Inodes, num \in 0 .. ND + NIND - 1 :
      /\ Mode(was, n) = "reg" /\ Mode(fs, n) = "reg"
      /\ num <= Size(was, n)
      /\ num < ND \/ ~Bad(was.inode[n].addr[Single])
      /\ GetBlk(was, n, num) \in DataBlocks \ Indirect(was)
      => fs.disk[GetBlk(fs, n, num)] = was.disk[GetBlk(was, n, num)]

(* In the end there is nothing to ask, except about a directory whose      *)
(* length cannot be mended and an inode for which there is no entry.  If a *)
(* directory has two names its ".." goes back and forth for ever.          *)
Settles ==
  Done /\ run = MaxRuns /\ ~Branches(fs) =>
    fs.asked \subseteq {"length"} \cup IF Slots(fs) = {} THEN {"detached"} ELSE {}

(* What the comment on pass 4 says: it finds the number of references to   *)
(* each inode.                                                             *)
ReferencesFound ==
  pc = [pass |-> 5, n |-> Root] /\ fs.panic = "none" =>
    \A n \in Inodes : fs.linkmap[n] # -1 => fs.linkmap[n] = Links(fs, n)

=============================================================================
