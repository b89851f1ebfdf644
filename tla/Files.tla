------------------------------- MODULE Files -------------------------------
(***************************************************************************)
(* Open files and inodes: the system calls of kernel/scall1.c and          *)
(* kernel/scall1b.c that open, create, share, link and remove files, over  *)
(* the inode table, the open file table, ch_link, i_alloc and i_free of    *)
(* fs/filesys.c.  A call runs from start to end without another process,   *)
(* because nothing in it sleeps.  The blocks of files and the permissions  *)
(* are left out; a call that is refused and changes nothing is no step.    *)
(* Names are those of the root directory, given by absolute paths.         *)
(***************************************************************************)
EXTENDS Integers, Sequences, FiniteSets

CONSTANTS
  Procs,      \* slots of the process table
  InitProc,   \* the first of them
  NI,         \* inode numbers 1 .. NI
  Names,      \* the names programs use
  NoName,     \* "", the name of an unused slot
  Nods,       \* the types and device numbers given to mknod
  DataBlocks, \* the numbers of data blocks, from s_isize up to s_fsize
  DIRMAX,     \* the entries the directory has room for
  UFTSIZE, OFTSIZE, ITABSIZE,
  MaxRefs,    \* 2 * ITABSIZE, at which i_ref panics
  ICACHE,     \* 50, the entries of s_inode
  MaxSlips    \* bound: no more calls after more slips than that (see Slip)

Root == 1
Inodes == 1 .. NI
FileInodes == 2 .. NI
Ofts == 0 .. OFTSIZE - 1
Fds == 0 .. UFTSIZE - 1
None == -1                       \* an unused entry of u_files

ASSUME FilesAssumption ==
  /\ NI \in Nat /\ NI > 1
  /\ UFTSIZE \in Nat \ {0} /\ OFTSIZE \in Nat \ {0}
  /\ ITABSIZE \in Nat \ {0} /\ MaxRefs \in Nat /\ ICACHE \in Nat \ {0}
  /\ DIRMAX \in Nat /\ MaxSlips \in Nat
  /\ Nods \subseteq ({"DIR"} \X {0}) \cup ({"DEV"} \X Nat)
  /\ DataBlocks \subseteq Nat
  /\ NoName \notin Names /\ InitProc \in Procs /\ IsFiniteSet(Procs)

VARIABLES
  fs,        \* the inode table, the free inode numbers and the directory
  of_tab,    \* o_refs and o_inode (0 is NULLINODE)
  u_files,   \* by process
  u_cwd,
  live       \* the processes

vars == <<fs, of_tab, u_files, u_cwd, live>>

Types == {"REG", "DIR", "DEV", "PIPE", "none"}
Nodes == [type : Types, nlink : Nat, dev : {0} \cup {n[2] : n \in Nods}]
Entries == [name : Names \cup {NoName}, ino : FileInodes \cup {0}]
Panics == {"none", "inode freed", "too many i-refs", "invalid blk"}
Elements(seq) == {seq[k] : k \in 1 .. Len(seq)}

\* c_refs, c_node, c_dirty; the inodes on the disk; s_inode, s_tinode, s_mounted
FsType ==
  [refs : [Inodes -> Nat], node : [Inodes -> Nodes], dirty : [Inodes -> BOOLEAN],
   disk : [Inodes -> Nodes], inode : Seq(FileInodes), tinode : Nat, mounted : BOOLEAN,
   dir : Seq(Entries), error : BOOLEAN, panic : Panics, slips : Nat]
TypeOK ==
  /\ fs \in FsType /\ Len(fs.inode) <= ICACHE /\ Len(fs.dir) <= DIRMAX
  /\ of_tab \in [Ofts -> [refs : Nat, ino : FileInodes \cup {0}]]
  /\ u_files \in [Procs -> [Fds -> Ofts \cup {None}]]
  /\ u_cwd \in [Procs -> Inodes]
  /\ live \subseteq Procs

Free == [type |-> "none", nlink |-> 0, dev |-> 0]
NoFiles == [d \in Fds |-> None]

(* mkfs, then init2.  newproc finds u_files zeroed and counts each entry   *)
(* as a reference to of_tab[0].                                            *)
MadeInodes == [i \in Inodes |-> IF i = Root THEN [type |-> "DIR", nlink |-> 3, dev |-> 0]
                                ELSE Free]
Init ==
  /\ fs = [refs |-> [i \in Inodes |-> IF i = Root THEN 2 ELSE 0],
           node |-> MadeInodes, disk |-> MadeInodes,
           dirty |-> [i \in Inodes |-> FALSE],
           inode |-> <<>>, tinode |-> NI - 1, mounted |-> TRUE,
           dir |-> <<>>, error |-> FALSE, panic |-> "none", slips |-> 0]
  /\ of_tab = [o \in Ofts |-> [refs |-> IF o = 0 THEN UFTSIZE ELSE 0, ino |-> 0]]
  /\ u_files = [p \in Procs |-> NoFiles]
  /\ u_cwd = [p \in Procs |-> Root]
  /\ live = {InitProc}

-----------------------------------------------------------------------------
(* The inode table.  These operators take the state f of the file system   *)
(* and return the one they leave; those that also answer return it as .f   *)
(* next to the answer.                                                     *)

(* A history count of the calls that end with a count wrong: each place    *)
(* where the code loses or repeats a dereference is marked.                *)
Slip(f) == [f EXCEPT !.slips = @ + 1]
Panic(f, why) == IF f.panic = "none" THEN [f EXCEPT !.panic = why] ELSE f

IRef(f, i) ==
  LET g == [f EXCEPT !.refs[i] = @ + 1]
  IN IF g.refs[i] = MaxRefs THEN Panic(g, "too many i-refs") ELSE g

WrInode(f, i) == [f EXCEPT !.disk[i] = f.node[i], !.dirty[i] = FALSE]

(* i_free: a number for which s_inode has no room is found by a scan later.*)
\* Bug: the end of s_inode is not looked at.
BugListed(seq, i) == Append(seq, i)
Listed(seq, i) == IF Len(seq) < ICACHE THEN Append(seq, i) ELSE seq
\* Bug: only numbers that fit are counted.
BugIFree(f, i) ==
  IF ~f.mounted \/ Len(f.inode) = ICACHE THEN f
  ELSE [f EXCEPT !.tinode = @ + 1, !.inode = Append(@, i)]
IFree(f, i) ==
  IF f.mounted THEN [f EXCEPT !.tinode = @ + 1, !.inode = Listed(@, i)] ELSE f

(* The inode changes.  The root's contents and times are left out. *)
Touch(f, i) == [f EXCEPT !.dirty[i] = i # Root]

(* f_trunc frees what i_addr[0] of a device names, its number, as a block. *)
(* If there is such a data block it goes on the free list, which is not    *)
(* part of this state; otherwise validblk panics and i_addr stays.         *)
Stray(dev) == dev # 0 /\ dev \notin DataBlocks
FTrunc(f, i) ==
  LET g == [f EXCEPT !.dirty[i] = TRUE]
  IN IF f.mounted /\ Stray(f.node[i].dev) THEN Panic(g, "invalid blk")
     ELSE [g EXCEPT !.node[i].dev = 0]

\* Bug: an inode without links goes although it is open.
BugLast(f, i) == f.node[i].nlink = 0
Last(f, i) == f.refs[i] = 0 /\ f.node[i].nlink = 0
\* Bug: an inode that changed is not written when it leaves the table.
BugWriteBack(f, i) == f
WriteBack(f, i) ==
  IF f.refs[i] = 0 /\ f.dirty[i] THEN WrInode(f, i) ELSE f
Emptied(f, i) == IFree([FTrunc(f, i) EXCEPT !.node[i].type = "none"], i)
Dropped(f, i) == WriteBack(IF Last(f, i) THEN Emptied(f, i) ELSE f, i)
IDeref(f, i) ==
  IF f.refs[i] = 0 THEN Panic(f, "inode freed")
  ELSE Dropped([f EXCEPT !.refs[i] = @ - 1], i)

InUse(f) == {i \in Inodes : f.refs[i] > 0}

(* _sync writes the inodes of the table that changed. *)
Synced(f) ==
  [f EXCEPT !.disk = [i \in Inodes |-> IF i \in InUse(f) /\ f.dirty[i] THEN f.node[i]
                                        ELSE f.disk[i]],
            !.dirty = [i \in Inodes |-> f.dirty[i] /\ i \notin InUse(f)]]

(* The scan of i_alloc: the first ICACHE numbers that are free on the disk *)
ScanFinds(f) ==
  LET free == {i \in FileInodes : f.disk[i].type = "none" /\ f.disk[i].nlink = 0}
      below(i) == Cardinality({j \in free : j <= i})
      n == IF Cardinality(free) < ICACHE THEN Cardinality(free) ELSE ICACHE
  IN [k \in 1 .. n |-> CHOOSE i \in free : below(i) = k]
Corrupt(f) == [f |-> [f EXCEPT !.mounted = FALSE, !.error = TRUE], ino |-> 0]
NoInode(f) == [f |-> [f EXCEPT !.error = TRUE], ino |-> 0]
TakeNumber(f) ==
  IF f.tinode = 0 THEN Corrupt(f)
  ELSE [f |-> [f EXCEPT !.inode = SubSeq(@, 1, Len(@) - 1), !.tinode = @ - 1],
        ino |-> f.inode[Len(f.inode)]]
(* A pipe's inode is free on the disk until it changes: the scan lists it. *)
Listing(f, found) ==
  LET g == [f EXCEPT !.inode = found]
  IN IF Elements(found) \cap InUse(f) # {} THEN Slip(g) ELSE g
Scanned(f, found) ==
  IF found # <<>> THEN TakeNumber(Listing(f, found))
  ELSE IF f.tinode # 0 THEN Corrupt(f) ELSE NoInode(f)
IAlloc(f) ==
  IF ~f.mounted THEN NoInode(f)
  ELSE IF f.inode # <<>> THEN TakeNumber(f)
  ELSE Scanned(Synced(f), ScanFinds(Synced(f)))

(* i_open.  Every inode of the table that nobody refers to gives a slot.   *)
HasSlot(f, i) == i \in InUse(f) \/ Cardinality(InUse(f)) < ITABSIZE
Opened(f, i) == [f |-> [f EXCEPT !.refs[i] = @ + 1], ino |-> i]
IOpen(f, i) ==
  IF ~HasSlot(f, i) THEN [f |-> [f EXCEPT !.error = TRUE], ino |-> 0]
  ELSE IF f.node[i].nlink = 0 \/ f.node[i].type = "none" THEN [f |-> f, ino |-> 0]
  ELSE Opened(f, i)
OpenNumber(f, i) ==
  IF i = 0 THEN [f |-> f, ino |-> 0]
  ELSE IF ~HasSlot(f, i) THEN [f |-> Slip([f EXCEPT !.error = TRUE]), ino |-> 0]
  ELSE IF f.node[i].nlink # 0 \/ f.node[i].type # "none" THEN [f |-> Slip(f), ino |-> 0]
  ELSE Opened(f, i)
Allocated(a) == OpenNumber(a.f, a.ino)
IOpenNew(f) == Allocated(IAlloc(f))

-----------------------------------------------------------------------------
(* Names *)

Least(S) == CHOOSE k \in S : \A j \in S : k <= j
Slots(f, name) == {k \in 1 .. Len(f.dir) : f.dir[k].name = name}

(* n_open of "/name", or of "/" for NoName: the inode, or 0, with the      *)
(* parent, which is always the root, referenced once for the caller.       *)
Search(f, name) ==
  IF Slots(f, name) = {} THEN [f |-> f, ino |-> 0]
  ELSE IOpen(f, f.dir[Least(Slots(f, name))].ino)
FromRoot(f, name) ==
  IF name = NoName THEN [f |-> f, ino |-> Root] ELSE Search(IDeref(f, Root), name)
NOpen(f, name) == FromRoot(IRef(IRef(f, Root), Root), name)

(* ch_link: the first slot with the old name, or a new one at the end.  An *)
(* error that was noted before the entry is written counts as a failure.   *)
ChLink(f, oldname, newname, i) ==
  LET slots == Slots(f, oldname)
      entry == [name |-> newname, ino |-> i]
      room == slots # {} \/ (oldname = NoName /\ Len(f.dir) < DIRMAX)
  IN IF ~room THEN [f |-> f, ok |-> FALSE]
     ELSE [f |-> [f EXCEPT !.dir = IF slots # {} THEN [@ EXCEPT ![Least(slots)] = entry]
                                   ELSE Append(@, entry)],
           ok |-> ~f.error]

(* newfile dereferences the parent whether it makes the file or not.  If   *)
(* there is no room for the entry the inode keeps its one link.            *)
NewNode(f, i) ==
  WrInode([f EXCEPT !.node[i] = [type |-> "REG", nlink |-> 1, dev |-> 0]], i)
Entered(c, i) ==
  [f |-> IDeref(IF c.ok THEN c.f ELSE IDeref(Slip(c.f), i), Root),
   ino |-> IF c.ok THEN i ELSE 0]
Filled(f, i, name) ==
  IF i = 0 THEN [f |-> IDeref(f, Root), ino |-> 0]
  ELSE Entered(ChLink(NewNode(f, i), NoName, name, i), i)
Named(o, name) == Filled(o.f, o.ino, name)
NewFile(f, name) == Named(IOpenNew(f), name)

-----------------------------------------------------------------------------
(* Descriptors *)

FreeFds(files) == {d \in Fds : files[d] = None}
FreeOfts == {o \in Ofts : of_tab[o].refs = 0}
CanOpen(p) == FreeFds(u_files[p]) # {} /\ FreeOfts # {}
NewFd(p) == Least(FreeFds(u_files[p]))
NewOft == Least(FreeOfts)

(* oft_deref, on a pair of the file system and the open file table *)
OftDeref(s, o) ==
  LET last == s.ofts[o].refs = 1 /\ s.ofts[o].ino # 0 IN
  [f |-> IF last THEN IDeref(s.f, s.ofts[o].ino) ELSE s.f,
   ofts |-> [s.ofts EXCEPT ![o].refs = @ - 1, ![o].ino = IF last THEN 0 ELSE @]]

(* A call returns.  u_error is cleared before the next one. *)
Running(p) == p \in live /\ fs.panic = "none" /\ fs.slips <= MaxSlips
Returns(f) == fs' = [f EXCEPT !.error = FALSE]
Installed(p, i) ==
  /\ of_tab' = [of_tab EXCEPT ![NewOft] = [refs |-> 1, ino |-> i]]
  /\ u_files' = [u_files EXCEPT ![p][NewFd(p)] = NewOft]

Open(p, name) ==
  /\ Running(p) /\ CanOpen(p)
  /\ \E n \in {NOpen(fs, name)} :
       /\ Returns(IDeref(n.f, Root))
       /\ IF n.ino # 0 THEN Installed(p, n.ino) ELSE UNCHANGED <<of_tab, u_files>>
  /\ UNCHANGED <<u_cwd, live>>

(* creat of a file that exists empties it.  If newfile fails the parent is *)
(* dereferenced again.                                                     *)
CreatOld(p, name) ==
  /\ Running(p) /\ CanOpen(p)
  /\ \E n \in {NOpen(fs, name)} :
       LET f == IDeref(n.f, Root) IN
       /\ n.ino # 0 /\ f.node[n.ino].type # "DIR"
       /\ Returns(IF f.node[n.ino].type = "REG" THEN FTrunc(f, n.ino) ELSE f)
       /\ Installed(p, n.ino)
  /\ UNCHANGED <<u_cwd, live>>
CreatNew(p, name) ==
  /\ Running(p) /\ CanOpen(p)
  /\ NOpen(fs, name).ino = 0
  /\ \E m \in {NewFile(NOpen(fs, name).f, name)} :
       /\ IF m.ino # 0
          THEN /\ Returns(WrInode(m.f, m.ino))
               /\ Installed(p, m.ino)
          ELSE /\ Returns(Slip(IDeref(m.f, Root)))
               /\ UNCHANGED <<of_tab, u_files>>
  /\ UNCHANGED <<u_cwd, live>>

(* mknod makes a directory without entries, or a device with its number in *)
(* i_addr[0].                                                              *)
Mknod(p, name, type, dev) ==
  /\ Running(p)
  /\ NOpen(fs, name).ino = 0
  /\ \E m \in {NewFile(NOpen(fs, name).f, name)} :
       LET f == WrInode([m.f EXCEPT !.node[m.ino] = [@ EXCEPT !.type = type, !.dev = dev]],
                        m.ino)
       IN Returns(IF m.ino # 0 THEN IDeref(f, m.ino) ELSE Slip(IDeref(m.f, Root)))
  /\ UNCHANGED <<of_tab, u_files, u_cwd, live>>

(* link.  If the entry could not be made the new name's parent stays       *)
(* referenced.                                                             *)
\* Bug: the link count is not updated.
BugLinked(f, i) == f
Linked(f, i) ==
  Touch(WrInode([f EXCEPT !.node[i].nlink = @ + 1], i), i)
Link(p, name1, name2) ==
  /\ Running(p)
  /\ \E n1 \in {NOpen(fs, name1)} : \E n2 \in {NOpen(IDeref(n1.f, Root), name2)} :
       LET c == ChLink(n2.f, NoName, name2, n1.ino)
           f == IF c.ok THEN IDeref(Linked(c.f, n1.ino), Root) ELSE Slip(c.f)
       IN /\ n1.ino # 0 /\ n2.ino = 0
          /\ Returns(IDeref(f, n1.ino))
  /\ UNCHANGED <<of_tab, u_files, u_cwd, live>>

(* unlink.  If the name does not exist its parent stays referenced. *)
Unlinked(f, i) ==
  Touch([f EXCEPT !.node[i].nlink = IF @ = 0 THEN 1 ELSE @ - 1], i)
Unlink(p, name) ==
  /\ Running(p)
  /\ \E n \in {NOpen(fs, name)} :
       LET c == ChLink(n.f, name, NoName, 0)
           f == IF c.ok THEN Unlinked(c.f, n.ino) ELSE c.f
       IN Returns(IF n.ino = 0 THEN Slip(n.f) ELSE IDeref(IDeref(f, Root), n.ino))
  /\ UNCHANGED <<of_tab, u_files, u_cwd, live>>

(* chmod, chown and the like change the inode and let it go. *)
Chmod(p, name) ==
  /\ Running(p)
  /\ \E n \in {NOpen(fs, name)} :
       LET f == IDeref(n.f, Root) IN
       /\ n.ino # 0
       /\ Returns(IDeref(Touch(f, n.ino), n.ino))
  /\ UNCHANGED <<of_tab, u_files, u_cwd, live>>

\* Bug: the writing end is not counted.
BugBothEnds(f, i) == f
BothEnds(f, i) == [f EXCEPT !.refs[i] = @ + 1]

(* pipe.  If there is no second descriptor the first oft entry is lost. *)
PipeCall(p) ==
  /\ Running(p) /\ CanOpen(p)
  /\ \E o \in {IOpenNew(fs)} :
     LET u1 == NewFd(p)  oft1 == NewOft
         left == FreeFds(u_files[p]) \ {u1}  ofts == FreeOfts \ {oft1}
         i == o.ino  entry == [refs |-> 1, ino |-> i]
     IN \/ /\ left = {}
           /\ Returns(Slip(fs))
           /\ of_tab' = [of_tab EXCEPT ![oft1].refs = 1]
           /\ UNCHANGED u_files
        \/ /\ left # {} /\ ofts # {} /\ i = 0
           /\ Returns(o.f)
           /\ UNCHANGED <<of_tab, u_files>>
        \/ /\ left # {} /\ ofts # {} /\ i # 0
           /\ Returns([BothEnds(o.f, i) EXCEPT
                         !.node[i] = [@ EXCEPT !.type = "PIPE", !.nlink = 0]])
           /\ of_tab' = [of_tab EXCEPT ![oft1] = entry, ![Least(ofts)] = entry]
           /\ u_files' = [u_files EXCEPT ![p][u1] = oft1, ![p][Least(left)] = Least(ofts)]
  /\ UNCHANGED <<u_cwd, live>>

IsOpen(p, d) == u_files[p][d] # None
FileOf(p, d) == of_tab[u_files[p][d]].ino

Dup(p, d) ==
  /\ Running(p) /\ IsOpen(p, d) /\ FreeFds(u_files[p]) # {}
  /\ u_files' = [u_files EXCEPT ![p][NewFd(p)] = u_files[p][d]]
  /\ of_tab' = [of_tab EXCEPT ![u_files[p][d]].refs = @ + 1]
  /\ UNCHANGED <<fs, u_cwd, live>>

(* doclose *)
Close(p, d) ==
  /\ Running(p) /\ IsOpen(p, d)
  /\ \E c \in {OftDeref([f |-> fs, ofts |-> of_tab], u_files[p][d])} :
       /\ Returns(c.f)
       /\ of_tab' = c.ofts
  /\ u_files' = [u_files EXCEPT ![p][d] = None]
  /\ UNCHANGED <<u_cwd, live>>

(* dup2 closes the new descriptor before it looks at the old one again: if *)
(* they are the same, what is copied is the -1 that close left.            *)
Dup2(p, d, e) ==
  /\ Running(p) /\ IsOpen(p, d)
  /\ \E c \in {IF IsOpen(p, e)
               THEN OftDeref([f |-> fs, ofts |-> of_tab], u_files[p][e])
               ELSE [f |-> fs, ofts |-> of_tab]} :
      LET old == IF d = e THEN None ELSE u_files[p][d]
     IN /\ Returns(c.f)
        /\ of_tab' = IF old = None THEN c.ofts ELSE [c.ofts EXCEPT ![old].refs = @ + 1]
        /\ u_files' = [u_files EXCEPT ![p][e] = old]
  /\ UNCHANGED <<u_cwd, live>>

(* read, write: rwsetup stamps the inode. *)
ReadWrite(p, d) ==
  /\ Running(p) /\ IsOpen(p, d)
  /\ fs' = Touch(fs, FileOf(p, d))
  /\ UNCHANGED <<of_tab, u_files, u_cwd, live>>

Chdir(p, name) ==
  /\ Running(p)
  /\ \E n \in {NOpen(fs, name)} :
       LET f == IDeref(n.f, Root) IN
       /\ n.ino # 0 /\ f.node[n.ino].type = "DIR"
       /\ Returns(IDeref(f, u_cwd[p]))
       /\ u_cwd' = [u_cwd EXCEPT ![p] = n.ino]
  /\ UNCHANGED <<of_tab, u_files, live>>

Sync(p) ==
  /\ Running(p)
  /\ fs' = Synced(fs)
  /\ UNCHANGED <<of_tab, u_files, u_cwd, live>>

(* newproc: the child shares the open files and the directory. *)
Holders(p, o) == Cardinality({d \in Fds : u_files[p][d] = o})
\* Bug: the child's descriptors are not counted.
BugShared(p) == of_tab
Shared(p) == [o \in Ofts |-> [of_tab[o] EXCEPT !.refs = @ + Holders(p, o)]]
ChildCwd(p) == IRef(fs, u_cwd[p])
Fork(p, q) ==
  /\ Running(p) /\ q \notin live
  /\ Returns(ChildCwd(p))
  /\ of_tab' = Shared(p)
  /\ u_files' = [u_files EXCEPT ![q] = u_files[p]]
  /\ u_cwd' = [u_cwd EXCEPT ![q] = u_cwd[p]]
  /\ live' = live \cup {q}

(* doexit closes the descriptors in order.  init does not exit. *)
ClosedOne(s, p, d) == IF IsOpen(p, d) THEN OftDeref(s, u_files[p][d]) ELSE s
ClosedAll(p) ==
  LET closed[d \in 0 .. UFTSIZE] ==
        IF d = 0 THEN [f |-> fs, ofts |-> of_tab] ELSE ClosedOne(closed[d - 1], p, d - 1)
  IN closed[UFTSIZE]
Exit(p) ==
  /\ Running(p) /\ p # InitProc
  /\ \E c \in {ClosedAll(p)} : Returns(IDeref(c.f, u_cwd[p])) /\ of_tab' = c.ofts
  /\ u_files' = [u_files EXCEPT ![p] = NoFiles]
  /\ u_cwd' = [u_cwd EXCEPT ![p] = Root]
  /\ live' = live \ {p}

Next ==
  \E p \in Procs :
    \/ \E name \in Names \cup {NoName} : Chdir(p, name)
    \/ \E name \in Names :
         \/ Open(p, name)
         \/ CreatOld(p, name) \/ CreatNew(p, name) \/ Unlink(p, name) \/ Chmod(p, name)
         \/ \E nod \in Nods : Mknod(p, name, nod[1], nod[2])
         \/ \E old \in Names : Link(p, old, name)
    \/ PipeCall(p)
    \/ \E d \in Fds : Dup(p, d) \/ Close(p, d) \/ ReadWrite(p, d)
    \/ \E d, e \in Fds : Dup2(p, d, e)
    \/ Sync(p)
    \/ \E q \in Procs : Fork(p, q)
    \/ Exit(p)

Spec == Init /\ [][Next]_vars

-----------------------------------------------------------------------------
(* Properties *)

(* A descriptor leads to an entry of the open file table that has an inode *)
(* and is counted for each descriptor that shares it, over dup, dup2, fork,*)
(* close and exit in any order: no file is closed under another's feet.    *)
Sharing(o) == Cardinality({pd \in live \X Fds : u_files[pd[1]][pd[2]] = o})
OpenFilesShared ==
  \A o \in Ofts :
    /\ of_tab[o].refs >= Sharing(o)
    /\ Sharing(o) > 0 => of_tab[o].ino # 0
    /\ fs.slips = 0 /\ o # 0 => of_tab[o].refs = Sharing(o)

(* An inode is referenced once for every open file, current directory and  *)
(* for the root, until a call slips.                                       *)
Uses(i) ==
  Cardinality({o \in Ofts : of_tab[o].refs > 0 /\ of_tab[o].ino = i})
    + Cardinality({p \in live : u_cwd[p] = i}) + (IF i = Root THEN 1 ELSE 0)
InodesCounted == fs.slips = 0 => \A i \in Inodes : fs.refs[i] = Uses(i)

(* A file that is open is not freed, though its last name may be gone.     *)
OpenFilesExist ==
  \A o \in Ofts :
    of_tab[o].refs > 0 /\ of_tab[o].ino # 0 =>
      fs.refs[of_tab[o].ino] > 0 /\ fs.node[of_tab[o].ino].type # "none"

(* The links of an inode are its names, and no name leads to a free inode, *)
(* until a call slips: a link that fails may leave a name uncounted, which *)
(* stays when the inode goes.                                              *)
NamesOf(i) == Cardinality({k \in 1 .. Len(fs.dir) : fs.dir[k].ino = i})
LinksAreNames ==
  fs.slips = 0 =>
    \A i \in FileInodes : /\ fs.node[i].nlink = NamesOf(i)
                          /\ NamesOf(i) > 0 => fs.node[i].type # "none"

(* An inode that leaves the table is on the disk as it was left.           *)
ClosedIsWritten ==
  \A i \in Inodes : fs.refs[i] = 0 => ~fs.dirty[i] /\ fs.disk[i] = fs.node[i]

(* Until a call slips the kernel panics in one case only: a device whose   *)
(* number is no data block has lost its last name and its last reference,  *)
(* and i_deref frees that number.  The limit of i_ref is beyond what open  *)
(* files, directories and one search can add up to, i_deref never finds an *)
(* inode without references, f_trunc is given no other number that is bad, *)
(* and i_alloc, whose numbers and count are in two places and on the disk, *)
(* does not take the superblock for corrupt.  (When it lists a number that *)
(* is in use, that is a slip, after which it may.)                         *)
GoneDevices == {i \in FileInodes : fs.node[i].type = "none" /\ Stray(fs.node[i].dev)}
NoPanic ==
  fs.slips = 0 =>
    /\ fs.mounted
    /\ fs.panic = "none" \/ (fs.panic = "invalid blk" /\ GoneDevices # {})

=============================================================================
