------------------------------- MODULE MCFsck -------------------------------
(***************************************************************************)
(* Disks for Fsck: a sound one, and what one or two faults make of it.     *)
(* Block 7 is file 2, blocks 8 and 9 are the directories 1 and 3, blocks   *)
(* 10 and 12 are file 4, with the indirect block 11; 13, 14 and 15 are     *)
(* free.  The first word of file 2 reads as the mode of a directory, which *)
(* inode 5 would be.                                                       *)
(***************************************************************************)
EXTENDS Fsck

DirWord == 40
DirWords == {DirWord}
Lost == <<300>>

\* Names: ".", "..", "/", and three others.
Dots == 46
DotsDots == 46 + 46 * BYTE
Slash == 47
A == 97
B == 98
C == 99

File(n, blkno, offset, addr) ==
  [mode |-> "reg", nlink |-> 1, blkno |-> blkno, offset |-> offset,
   addr |-> [k \in 0 .. ND + 1 |-> addr[k + 1]]]
Dir(n, nlink, entries, block) ==
  [File(n, 0, entries * ENTRY, <<block, 0, 0>>) EXCEPT !.mode = "dir", !.nlink = nlink]
Blank == [k \in 0 .. NIND - 1 |-> 0]
Words(ws) == [k \in 0 .. NIND - 1 |-> IF k < Len(ws) THEN ws[k + 1] ELSE 0]

Good ==
  [inode |-> <<Dir(1, 4, 5, 8), File(2, 0, 3, <<7, 0, 0>>), Dir(3, 2, 4, 9),
               File(4, 1, 3, <<10, 11, 0>>)>>,
   disk |-> [b \in Blocks |->
     CASE b = 8 -> Words(<<1, Dots, 1, DotsDots, 2, A, 3, B>>)
       [] b = 9 -> Words(<<3, Dots, 1, DotsDots, 4, B>>)
       [] b = 7 -> Words(<<DirWord, 1>>) [] b = 10 -> Words(<<2, 2>>) [] b = 12 -> Words(<<3, 3>>)
       [] b = 11 -> Words(<<12>>)
       [] OTHER -> Blank],
   tinode |-> 0, tfree |-> 3, free |-> <<0>>]

\* Faults: what is wrong, where, and the value there.
InodeFaults ==
  {<<"mode", 1, "bad">>, <<"addr0", 1, 1>>, <<"full", 3, 1>>, <<"mode", 2, "bad">>, <<"mode", 2, "dev">>, <<"mode", 3, "reg">>, <<"mode", 4, "none">>,
   <<"nlink", 2, 2>>, <<"offset", 4, BS + 1>>, <<"offset", 4, -1>>, <<"offset", 2, 0>>,
   <<"cycle", 2, 3>>, <<"offset", 3, 3 * ENTRY + 1>>, <<"blkno", 4, 0>>, <<"blkno", 3, 1>>}
\* The numbers from LinkAt on mark a byte of linkmap.
BlockFaults ==
  {<<"addr0", 2, b>> : b \in {1, 8, 10, 11, 12, LinkAt + 2, LinkAt + 5}}
  \cup {<<"addr0", 3, b>> : b \in {0, 1, 8, 13}}
  \cup {<<"addr1", 4, FSize>>, <<"addr1", 4, 7>>, <<"addr2", 2, 13>>, <<"addr2", 4, 1>>, <<"ptr", 11, 1>>, <<"ptr", 11, 7>>,
        <<"ptr", 11, LinkAt + 12>>, <<"shared", 2, 11>>}
EntryFaults ==
  {<<"root", k, i>> : k \in {2, 3}, i \in {0, 4, 5, 7}} \cup
  {<<"dir", k, i>> : k \in 0 .. 2, i \in {0, 1, 2, 3}} \cup
  {<<"dir", 3, 1>>, <<"dir", 3, 2>>, <<"dir", 2, 6>>, <<"root", 4, 4>>, <<"name", 2, Slash>>, <<"tinode", 0, 2>>}

Faulty(d, f) ==
  LET n == f[2] v == f[3]
  IN CASE f[1] = "mode" -> [d EXCEPT !.inode[n].mode = v]
       [] f[1] = "nlink" -> [d EXCEPT !.inode[n].nlink = v]
       [] f[1] = "offset" -> [d EXCEPT !.inode[n].offset = v]
       [] f[1] = "blkno" -> [d EXCEPT !.inode[n].blkno = v]
       [] f[1] = "addr0" -> [d EXCEPT !.inode[n].addr[0] = v]
       [] f[1] = "addr1" -> [d EXCEPT !.inode[n].addr[1] = v]
       [] f[1] = "addr2" -> [d EXCEPT !.inode[n].addr[2] = v]
       [] f[1] = "ptr" -> [d EXCEPT !.disk[n][0] = v]
       [] f[1] = "shared" -> [d EXCEPT !.inode[n].addr[1] = v, !.inode[n].blkno = 1]
       [] f[1] = "full" -> [d EXCEPT !.inode[n].blkno = v, !.inode[n].offset = 0]
       [] f[1] = "root" -> [d EXCEPT !.disk[8][EW * n] = v, !.disk[8][EW * n + 1] = IF v = 0 THEN 0 ELSE C]
       [] f[1] = "dir" -> [d EXCEPT !.disk[9][EW * n] = v]
       [] f[1] = "cycle" -> [d EXCEPT !.inode[n].mode = "dir", !.inode[n].offset = ENTRY,
                                      !.disk[7] = Words(<<v, C>>)]
       [] f[1] = "name" -> [d EXCEPT !.disk[8][EW * n + 1] = v]
       [] f[1] = "tinode" -> [d EXCEPT !.tinode = v]

Faults == InodeFaults \cup BlockFaults \cup EntryFaults
TwoFaults ==
  {d \in {Faulty(Faulty(Good, f), g) : f, g \in Faults} : ~SecondLevel(d)}
FullDirectory == {Faulty(Good, <<"full", 3, 1>>)}
=============================================================================
