------------------------------ MODULE FreeList ------------------------------
(***************************************************************************)
(* The free blocks of a file system: blk_alloc and blk_free of             *)
(* fs/filesys.c and the loop with which mkfs builds the list.  The         *)
(* superblock holds the last of the free blocks; the first of those it     *)
(* holds contains the ones before, and so on.  A block's contents are read *)
(* back as they were written (BlockStore).                                 *)
(***************************************************************************)
EXTENDS Integers, Sequences, FiniteSets

CONSTANTS
  FREEMAX,   \* 50, the entries of s_free
  ISize,     \* s_isize, the first block that is not an inode block
  FSize      \* s_fsize, the number of blocks

Blocks == ISize .. FSize - 1         \* validblk
DataBlocks == ISize + 1 .. FSize - 1 \* ISize is the root directory for good

ASSUME FreeAssumption ==
  /\ FREEMAX \in Nat \ {0}
  /\ ISize \in Nat \ {0} /\ FSize \in Nat /\ ISize < FSize

VARIABLES
  mounted,   \* s_mounted is SMOUNTED: no corruption was noticed
  free,      \* s_free[0..s_nfree - 1]
  tfree,     \* s_tfree
  chain,     \* the list that was copied to a block; <<>> is anything else
  todo,      \* mkfs's j: the blocks up to it are still to be freed
  used,      \* the blocks that belong to files
  answer     \* what blk_alloc returned last

vars == <<mounted, free, tfree, chain, todo, used, answer>>

Lists == UNION {[1 .. n -> Blocks \cup {0}] : n \in 0 .. FREEMAX}

TypeOK ==
  /\ mounted \in BOOLEAN
  /\ free \in Lists
  /\ tfree \in 0 .. FSize
  /\ chain \in [Blocks -> Lists]
  /\ todo \in ISize .. FSize - 1
  /\ used \subseteq DataBlocks
  /\ answer \in DataBlocks \cup {0}

(* mkfs before its loop: s_nfree = 1, s_free[0] = 0. *)
Init ==
  /\ mounted = TRUE
  /\ free = <<0>>
  /\ tfree = 0
  /\ chain = [b \in Blocks |-> <<>>]
  /\ todo = FSize - 1
  /\ used = DataBlocks
  /\ answer = 0

nfree == Len(free)

(* A block is put on the list; if the superblock has no room its list is   *)
(* copied to the block, which starts a new one.                            *)
Full == nfree = FREEMAX
\* Slip: the block that was given the list is not marked as changed.
BugCopied(b) == chain
Copied(b) == IF Full THEN [chain EXCEPT ![b] = free] ELSE chain
\* Slip: s_nfree is not reset.
BugRoom == free
Room == IF Full THEN <<>> ELSE free
PutOnList(b) ==
  /\ chain' = Copied(b)
  /\ free' = Append(Room, b)
  /\ tfree' = tfree + 1
  /\ used' = used \ {b}

MkfsFree ==
  /\ todo > ISize
  /\ PutOnList(todo)
  /\ todo' = todo - 1
  /\ UNCHANGED <<mounted, answer>>

Ready == todo = ISize

(* blk_free.  Its callers free a block of a file when they forget it. *)
BlkFree(b) ==
  /\ Ready /\ mounted                 \* else blk_free returns
  /\ b \in used
  /\ PutOnList(b)
  /\ UNCHANGED <<mounted, todo, answer>>

(* The goto corrupt of blk_alloc: the file system is out of service. *)
Corrupt ==
  /\ mounted' = FALSE
  /\ answer' = 0
  /\ UNCHANGED <<tfree, chain, used>>

(* blk_alloc takes the last block of the list.  0 stands at the bottom. *)
Newno == free[nfree]
\* Slip: the bottom is not put back.
BugNoSpace == free' = SubSeq(free, 1, nfree - 1) /\ answer' = 0
NoSpace == free' = free /\ answer' = 0
\* Slip: the list is not read back.
BugRefill == SubSeq(free, 1, nfree - 1)
Refill == IF nfree = 1 THEN chain[Newno] ELSE SubSeq(free, 1, nfree - 1)
BlkAlloc ==
  /\ Ready /\ mounted
  /\ \/ /\ nfree = 0
        /\ Corrupt /\ UNCHANGED free
     \/ /\ nfree > 0 /\ Newno = 0
        /\ IF tfree # 0 THEN Corrupt /\ free' = SubSeq(free, 1, nfree - 1)
           ELSE NoSpace /\ UNCHANGED <<mounted, tfree, chain, used>>
     \/ /\ nfree > 0 /\ Newno # 0
        /\ free' = Refill
        /\ IF tfree = 0 THEN Corrupt
           ELSE /\ tfree' = tfree - 1
                /\ chain' = [chain EXCEPT ![Newno] = <<>>]
                /\ used' = used \cup {Newno}
                /\ answer' = Newno
                /\ UNCHANGED mounted
  /\ UNCHANGED todo

Next == MkfsFree \/ BlkAlloc \/ \E b \in Blocks : BlkFree(b)

Spec == Init /\ [][Next]_vars

-----------------------------------------------------------------------------
(* Properties *)

(* The list is an allocator: no block is given out while it is in use, and *)
(* ENOSPC is the answer only when all are, whatever the order in which     *)
(* blocks come back, and however often lists go to blocks and return.      *)
A == INSTANCE Allocator WITH Items <- DataBlocks, None <- 0
Implements == A!Spec

(* s_tfree, which nothing computes from the list, is the number of blocks  *)
(* on it: blk_alloc never finds the superblock corrupt.                    *)
NeverCorrupt == mounted /\ tfree = Cardinality(DataBlocks \ used)

(* The lists read from the superblock down to the bottom have every free   *)
(* block once, and end with the 0.                                         *)
Below[l \in Lists] ==
  IF l = <<>> THEN <<>>
  ELSE IF l[1] = 0 THEN l ELSE Below[chain[l[1]]] \o l
EveryFreeBlockListed ==
  LET whole == Below[free] IN
  /\ Len(whole) = 1 + Cardinality(DataBlocks \ used)
  /\ whole[1] = 0
  /\ {whole[i] : i \in 2 .. Len(whole)} = DataBlocks \ used

=============================================================================
