----------------------------- MODULE FileBlocks -----------------------------
(***************************************************************************)
(* The contents of regular files: read, write and seek of                  *)
(* kernel/scall1.c over bmap, f_trunc and freeblk of fs/filesys.c.  A      *)
(* write goes from block to block of the file, and each of them through    *)
(* the inode and up to two indirect blocks, which it may have to allocate. *)
(* Blocks are allocated as FreeList promises and read back as they were    *)
(* written (BlockStore).  Nothing in a call sleeps, so calls do not        *)
(* overlap; a pipe, whose calls do, is in Pipe.                            *)
(***************************************************************************)
EXTENDS Integers, Sequences, FiniteSets

CONSTANTS
  Files,     \* inodes in use
  Ofts,      \* open file entries
  Blocks,    \* the data blocks of the device
  BS,        \* bytes in a block, and entries in an indirect one (512 and 256)
  ND,        \* 18, the direct blocks of an inode
  LIM,       \* 64, the distance in blocks that readi takes for far enough
  NB,        \* bound: files have blocks 0 .. NB - 1
  Room,      \* bound: programs go to the first Room[f] blocks of file f
  Bytes,     \* what programs write; not 0
  Junk,      \* what is in a free block
  MaxCount,  \* bound: the bytes of a call
  Offsets    \* bound: the arguments of seek

Cells == 0 .. BS - 1
WORD == 2 * LIM * BS     \* 65536
Double == ND + 1         \* i_addr[ND] is the indirect block
NULLBLK == 0

ASSUME BlocksAssumption ==
  /\ BS \in Nat \ {0, 1} /\ ND \in Nat \ {0} /\ LIM \in Nat \ {0} /\ NB \in Nat
  /\ Room \in [Files -> 0 .. NB]
  /\ NB <= ND + BS + BS * BS /\ NB < WORD
  /\ NULLBLK \notin Blocks /\ Files \cap Blocks = {} /\ Bytes \cap (Blocks \cup {0, Junk}) = {}
  /\ MaxCount \in Nat /\ MaxCount <= (LIM - 1) * BS + 1
  /\ Offsets \subseteq 0 .. WORD - 1

VARIABLES
  addr,      \* i_addr, by file
  size,      \* i_size, by file
  content,   \* the blocks: bytes, or the numbers of blocks
  used,      \* the blocks that are not on the free list
  file,      \* o_inode, by open file entry
  ptr,       \* o_ptr, by open file entry
  call,      \* the write that is going on
  answer     \* of the last read or write: what was asked, read, and u_error

vars == <<addr, size, content, used, file, ptr, call, answer>>

Pos(o) == o.blk * BS + o.off
U16(x) == x % WORD
I16(x) == IF U16(x) >= WORD \div 2 THEN U16(x) - WORD ELSE U16(x)
Shorter(a, b) == IF a < b THEN a ELSE b

Zeros == [c \in Cells |-> 0]
OnFreeList == [c \in Cells |-> Junk]
NoBlocks == [k \in 0 .. Double |-> NULLBLK]
Start == [blk |-> 0, off |-> 0]
Idle == [file |-> "none"]
Answer(n, read, error) == [asked |-> n, read |-> read, error |-> error]
Nothing == Answer(0, <<>>, FALSE)

Init ==
  /\ addr = [f \in Files |-> NoBlocks]
  /\ size = [f \in Files |-> Start]
  /\ content = [b \in Blocks |-> OnFreeList]
  /\ used = {}
  /\ file \in [Ofts -> Files]
  /\ ptr = [o \in Ofts |-> Start]
  /\ call = Idle
  /\ answer = Nothing

-----------------------------------------------------------------------------
(* Where block bn of a file is looked up: first an entry of i_addr, then   *)
(* entries of indirect blocks.                                             *)
\* Bug: the first block of the double indirect range is looked up in the single one.
BugPath(bn) ==
  IF bn < ND THEN <<bn>>
  ELSE IF bn - ND <= BS THEN <<ND, (bn - ND) % BS>>
  ELSE <<Double, ((bn - ND - BS) \div BS) % BS, (bn - ND - BS) % BS>>
Path(bn) ==
  IF bn < ND THEN <<bn>>
  ELSE IF bn - ND < BS THEN <<ND, bn - ND>>
  ELSE <<Double, ((bn - ND - BS) \div BS) % BS, (bn - ND - BS) % BS>>

Through(b, c) == IF b = NULLBLK THEN NULLBLK ELSE content[b][c]

(* bmap for a read; NULLBLK is a hole. *)
Bmap(f, bn) ==
  LET p == Path(bn)
      b == addr[f][p[1]]
  IN CASE Len(p) = 1 -> b
       [] Len(p) = 2 -> Through(b, p[2])
       [] Len(p) = 3 -> Through(Through(b, p[2]), p[3])

\* The byte at a position, 0 where there is no block (zerobuf).
ByteAt(f, pos) == Through(Bmap(f, pos \div BS), pos % BS)

(* The loops of read and write call addoff once for every block. *)
AddOff(o, n) == [blk |-> U16(o.blk + (o.off + n) \div BS), off |-> (o.off + n) % BS]

\* Bug: the offset within the block is forgotten.
BugRest(f, o) == I16(BS * U16(size[f].blk - o.blk) + size[f].off)
Rest(f, o) == I16(BS * U16(size[f].blk - o.blk) + size[f].off - o.off)
(* The count of readi.  Far from the end it is the caller's.  Past the end *)
(* the differences wrap around.                                            *)
Limited(f, o, n) ==
  IF U16(size[f].blk - o.blk) >= LIM THEN n
  ELSE U16(Shorter(I16(n), Rest(f, o)))

(* min compares signed numbers.  A read that begins behind the end, within *)
(* the last block, has a negative count: all of it is copied at once, from *)
(* the block and the memory behind it, and addoff goes back.  What such a  *)
(* copy of nearly 64K does to the program's memory is not modelled.        *)
Backward(count) == I16(count) < 0
Copied(f, o, count) ==
  [i \in 1 .. count |->
     IF Backward(count) /\ o.off + i > BS THEN Junk ELSE ByteAt(f, Pos(o) + i - 1)]

Read(o, n) ==
  /\ call = Idle
  /\ Pos(ptr[o]) < Room[file[o]] * BS                                         \* bound
  /\ \E count \in {Limited(file[o], ptr[o], n)} :
       /\ answer' = Answer(n, Copied(file[o], ptr[o], count), FALSE)
       /\ ptr' = [ptr EXCEPT ![o] = AddOff(@, I16(count))]
  /\ UNCHANGED <<addr, size, content, used, file, call>>

-----------------------------------------------------------------------------
(* _write and writei.  call.offset is u_offset, and call.path what bmap    *)
(* has still to look up, in block call.at, or in the inode if that is      *)
(* NULLBLK.  call.before is what the file was: a history variable.         *)

FileBytes(f) == [p \in 0 .. NB * BS - 1 |-> ByteAt(f, p)]

WriteStart(o, n, b) ==
  /\ call = Idle
  /\ Pos(ptr[o]) + n <= Room[file[o]] * BS                                    \* bound
  /\ call' = [file |-> file[o], oft |-> o, byte |-> b, count |-> n, towrite |-> n,
              offset |-> ptr[o], at |-> NULLBLK, path |-> Path(ptr[o].blk),
              before |-> FileBytes(file[o])]
  /\ answer' = Nothing
  /\ UNCHANGED <<addr, size, content, used, file, ptr>>

Writing == call # Idle
InInode == call.at = NULLBLK
Entry == IF InInode THEN addr[call.file][call.path[1]] ELSE content[call.at][call.path[1]]
Reached(b) == [call EXCEPT !.at = b, !.path = Tail(@)]
Grown(f, o) == IF Pos(o) > Pos(size[f]) THEN o ELSE size[f]

\* The end of writei, and updoff.
WriteEnd(error) ==
  /\ answer' = Answer(call.count, <<>>, error)
  /\ size' = [size EXCEPT ![call.file] = Grown(call.file, call.offset)]
  /\ ptr' = [ptr EXCEPT ![call.oft] = call.offset]
  /\ call' = Idle

Looking == Writing /\ call.towrite > 0 /\ call.path # <<>>

Follow ==
  /\ Looking /\ Entry # NULLBLK
  /\ call' = Reached(Entry)
  /\ UNCHANGED <<addr, size, content, used, file, ptr, answer>>

(* blk_alloc, which zeroes the block; bmap enters it where it looked. *)
\* Bug: the block is not zeroed.
BugFresh(b) == content[b]
Fresh(b) == Zeros
Extend ==
  /\ Looking /\ Entry = NULLBLK
  /\ \E b \in Blocks \ used :
       /\ used' = used \cup {b}
       /\ call' = Reached(b)
       /\ IF InInode
          THEN /\ addr' = [addr EXCEPT ![call.file][call.path[1]] = b]
               /\ content' = [content EXCEPT ![b] = Fresh(b)]
          ELSE /\ content' = [content EXCEPT ![b] = Fresh(b),
                                             ![call.at][call.path[1]] = b]
               /\ UNCHANGED addr
  /\ UNCHANGED <<size, file, ptr, answer>>

(* No space to make more blocks: what was written stays, and so do the     *)
(* indirect blocks.                                                        *)
DiskFull ==
  /\ Looking /\ Entry = NULLBLK /\ used = Blocks
  /\ WriteEnd(TRUE)
  /\ UNCHANGED <<addr, content, used, file>>

\* Bug: the end of the block is not looked at.
BugAmount == call.towrite
Amount == Shorter(call.towrite, BS - call.offset.off)
Copy ==
  /\ Writing /\ call.towrite > 0 /\ call.path = <<>>
  /\ content' = [content EXCEPT ![call.at] =
                   [c \in Cells |-> IF c \in call.offset.off .. call.offset.off + Amount - 1
                                    THEN call.byte ELSE @[c]]]
  /\ \E o \in {AddOff(call.offset, Amount)} :
       call' = [call EXCEPT !.offset = o, !.towrite = @ - Amount,
                            !.at = NULLBLK, !.path = Path(o.blk)]
  /\ UNCHANGED <<addr, size, used, file, ptr, answer>>

Done ==
  /\ Writing /\ call.towrite = 0
  /\ WriteEnd(FALSE)
  /\ UNCHANGED <<addr, content, used, file>>

-----------------------------------------------------------------------------
(* seek.  o_offset is a number of 16 bits, made positive by going forward. *)

Settled(blk, off) == [blk |-> U16(blk + U16(off) \div BS), off |-> U16(off) % BS]
Sought(o, flag, offset) ==
  LET p == ptr[o]
      s == size[file[o]]
  IN CASE flag = 0 -> Settled(0, offset)
       [] flag = 1 -> Settled(p.blk, p.off + offset)
       [] flag = 2 -> Settled(s.blk, s.off + offset)
       [] flag = 3 -> Settled(offset, p.off)
       [] flag = 4 -> Settled(p.blk + offset, p.off)
       [] flag = 5 -> Settled(s.blk + offset, p.off)
Seek(o, flag, offset) ==
  /\ call = Idle
  /\ Pos(Sought(o, flag, offset)) < Room[file[o]] * BS                        \* bound
  /\ ptr' = [ptr EXCEPT ![o] = Sought(o, flag, offset)]
  /\ answer' = Nothing
  /\ UNCHANGED <<addr, size, content, used, file, call>>

(* The entry is closed, and taken again by an open of some file. *)
Open(o, f) ==
  /\ call = Idle
  /\ file' = [file EXCEPT ![o] = f]
  /\ ptr' = [ptr EXCEPT ![o] = Start]
  /\ answer' = Nothing
  /\ UNCHANGED <<addr, size, content, used, call>>

-----------------------------------------------------------------------------
(* f_trunc, from creat, which also resets the open files, and from the     *)
(* last dereference of a file without links.                               *)

Below(b) == IF b = NULLBLK THEN {} ELSE {content[b][c] : c \in Cells} \ {NULLBLK}
Direct(f) == {addr[f][k] : k \in 0 .. ND - 1} \ {NULLBLK}
Level1(f) == ({addr[f][ND]} \cup Below(addr[f][Double])) \ {NULLBLK}
Level2(f) == {addr[f][Double]} \ {NULLBLK}
\* Bug: freeblk stops one level too early.
BugReached(f) == Direct(f) \cup Level1(f) \cup Level2(f) \cup Below(addr[f][ND])
FreedBlocks(f) ==
  Direct(f) \cup Level1(f) \cup Level2(f) \cup UNION {Below(b) : b \in Level1(f)}

Truncate(f) ==
  /\ call = Idle
  /\ used' = used \ FreedBlocks(f)
  /\ content' = [b \in Blocks |-> IF b \in FreedBlocks(f) THEN OnFreeList ELSE content[b]]
  /\ addr' = [addr EXCEPT ![f] = NoBlocks]
  /\ size' = [size EXCEPT ![f] = Start]
  /\ ptr' = [o \in Ofts |-> IF file[o] = f THEN Start ELSE ptr[o]]
  /\ answer' = Nothing
  /\ UNCHANGED <<file, call>>

Next ==
  \/ \E o \in Ofts :
       \/ \E n \in 1 .. MaxCount : Read(o, n)
       \/ \E n \in 1 .. MaxCount, b \in Bytes : WriteStart(o, n, b)
       \/ \E f \in Files : Open(o, f)
       \/ \E flag \in 0 .. 5, offset \in Offsets : Seek(o, flag, offset)
  \/ Follow \/ Extend \/ DiskFull \/ Copy \/ Done
  \/ \E f \in Files : Truncate(f)

Spec == Init /\ [][Next]_vars

-----------------------------------------------------------------------------
(* Properties *)

(* Files are rows of bytes: a read up to the end of the file brings what   *)
(* was written there last, and 0 in holes; a file never shows the bytes of *)
(* another, or those a block had before it was freed; a write that finds   *)
(* the disk full has stored a first part.  A write counts when it returns. *)
Contents(f) == IF Writing THEN IF call.file = f THEN call.before ELSE FileBytes(f)
               ELSE FileBytes(f)
B == INSTANCE ByteFile WITH
       Size <- NB * BS,
       bytes <- [f \in Files |-> Contents(f)],
       length <- [f \in Files |-> Pos(size[f])],
       pos <- [o \in Ofts |-> Pos(ptr[o])]
Implements == B!Spec

(* Each block that is not free is in one place of one file, through writes *)
(* that stop half way and truncations, so f_trunc frees each block once    *)
(* and blk_alloc never runs out of blocks that nobody has.                 *)
Indirect == UNION {Level1(f) \cup Level2(f) : f \in Files}
Places == (Files \X (0 .. Double)) \cup (Indirect \X Cells)
Held(p) == IF p[1] \in Files THEN addr[p[1]][p[2]] ELSE content[p[1]][p[2]]
OnePlaceEach ==
  /\ {Held(p) : p \in Places} \ {NULLBLK} = used
  /\ \A p, q \in Places : Held(p) = Held(q) /\ Held(p) # NULLBLK => p = q

=============================================================================
