------------------------------- MODULE Mount -------------------------------
(***************************************************************************)
(* Mounted file systems and the names that lead through them: n_open,      *)
(* srch_dir, srch_mt and fmount of fs/filesys.c under mount, umount,       *)
(* chdir, open and close.  The directories of each disk are constants:     *)
(* what is in one directory, how names come and go and how inodes are      *)
(* written is in Files.  Nothing in a call sleeps, so calls do not         *)
(* overlap.  Everybody is the superuser.                                   *)
(***************************************************************************)
EXTENDS Integers, Sequences, FiniteSets, SequencesExt

CONSTANTS
  Procs,
  Ofts,        \* open file entries
  Nodes,       \* the inodes of all disks: <<device, number>>
  Entries,     \* by directory, the inodes of its names; ".." is one of them
  Specials,    \* the block devices, and their device numbers
  FileSystems, \* the disks with a file system; others hold anything
  NDEVS,
  DotNames,    \* the names whose second character is "."
  ITABSIZE,
  Paths,       \* the paths that programs use, as sequences of names
  Longest      \* bound: the names in a path of NamesResolve

ROOTDEV == 0
ROOTINODE == 1
NULLINODE == <<>>
Garbage == <<"garbage">>     \* s_mntpt as read from a disk without file system
Devs == 0 .. NDEVS - 1
Dirs == DOMAIN Entries
RootOf(d) == <<d, ROOTINODE>>
root == RootOf(ROOTDEV)
AtRoot == "/"                \* where an absolute path begins

ASSUME MountAssumption ==
  /\ NDEVS \in Nat \ {0} /\ ITABSIZE \in Nat \ {0}
  /\ IsFiniteSet(Procs) /\ IsFiniteSet(Ofts)
  /\ Nodes \subseteq Devs \X Nat
  /\ Dirs \subseteq Nodes /\ DOMAIN Specials \subseteq Nodes \ Dirs
  /\ \A n \in Dirs : ".." \in DOMAIN Entries[n] /\ DOMAIN Entries[n] \subseteq STRING
  /\ \A n \in Dirs : \A x \in DOMAIN Entries[n] :
       Entries[n][x] \in Nodes /\ Entries[n][x][1] = n[1]
  /\ ROOTDEV \in FileSystems /\ FileSystems \subseteq Devs
  /\ \A d \in FileSystems : RootOf(d) \in Dirs /\ Entries[RootOf(d)][".."] = RootOf(d)
  /\ ".." \in DotNames /\ "." \notin DotNames /\ Longest \in Nat
  /\ \A path \in Paths : path \in Seq(STRING) /\ path # <<>>

\* The directories of a disk are a tree: what a path means depends on it.
ASSUME TreeAssumption ==
  \A n \in Dirs : \A x \in DOMAIN Entries[n] :
    /\ x = "." => Entries[n][x] = n
    /\ x \notin {".", ".."} =>
         /\ Entries[n][x][2] # ROOTINODE
         /\ Entries[n][x] \in Dirs => Entries[Entries[n][x]][".."] = n

VARIABLES
  refs,      \* c_refs
  fs_tab,    \* s_mounted and s_mntpt, by device
  u_cwd,
  of_tab,    \* o_inode, by open file entry
  panicked

vars == <<refs, fs_tab, u_cwd, of_tab, panicked>>

(* start_proc: the root is mounted nowhere, and held by the variable root. *)
Init ==
  /\ refs = [n \in Nodes |-> IF n = root THEN 1 + Cardinality(Procs) ELSE 0]
  /\ fs_tab = [d \in Devs |-> [mounted |-> IF d = ROOTDEV THEN "SMOUNTED" ELSE "no",
                               mntpt |-> NULLINODE]]
  /\ u_cwd = [p \in Procs |-> root]
  /\ of_tab = [o \in Ofts |-> NULLINODE]
  /\ panicked = FALSE

-----------------------------------------------------------------------------
(* n_open.  A search s has the counts (refs), the directory searched (wd), *)
(* the inode found (ino), whether it ended early (stop), and whether the   *)
(* inode table had no room for an inode (full).                            *)
IRef(s, n) == [s EXCEPT !.refs[n] = @ + 1]
IDeref(s, n) == [s EXCEPT !.refs[n] = @ - 1]
InUse(s) == {n \in Nodes : s.refs[n] > 0}

IOpen(s, n) ==
  IF n \in InUse(s) \/ Cardinality(InUse(s)) < ITABSIZE
  THEN [IRef(s, n) EXCEPT !.ino = n]
  ELSE [s EXCEPT !.ino = NULLINODE, !.full = TRUE]

MountedOn(n) == {d \in Devs : fs_tab[d].mounted = "SMOUNTED" /\ fs_tab[d].mntpt = n}
First(devs) == CHOOSE d \in devs : \A e \in devs : d <= e

\* Bug: the reference of the mount point is kept.
BugSrchMt(s) ==
  IF s.ino = NULLINODE \/ MountedOn(s.ino) = {} THEN s
  ELSE IOpen(s, RootOf(First(MountedOn(s.ino))))
SrchMt(s) ==
  IF s.ino = NULLINODE \/ MountedOn(s.ino) = {} THEN s
  ELSE IOpen(IDeref(s, s.ino), RootOf(First(MountedOn(s.ino))))

SrchDir(s, name) ==
  IF name \in DOMAIN Entries[s.wd] THEN IOpen(s, Entries[s.wd][name])
  ELSE [s EXCEPT !.ino = NULLINODE]

(* At the root of a mounted disk the search goes on in the directory that  *)
(* the disk covers: for "..", and for every other name with a dot there.   *)
GoesUp(wd, name) == wd[2] = ROOTINODE /\ wd[1] # ROOTDEV /\ name \in DotNames
\* Bug: the test for the mount point is missing.
BugUncovered(s, name) == s
Uncovered(s, name) ==
  IF GoesUp(s.wd, name)
  THEN LET temp == fs_tab[s.wd[1]].mntpt
       IN [IDeref(IRef(s, temp), s.wd) EXCEPT !.wd = temp]
  ELSE s

NoDir(s) == [IDeref(s, s.wd) EXCEPT !.ino = NULLINODE, !.stop = TRUE]
Entered(s) == [IDeref(s, s.wd) EXCEPT !.wd = s.ino]

\* One component of the path.
Component(s0, name) ==
  LET s == SrchMt(s0)
  IN IF s0.stop THEN s0
     ELSE IF s.ino = NULLINODE THEN NoDir(s)
     ELSE IF s.ino \notin Dirs THEN NoDir(Entered(s))
     ELSE SrchDir(Uncovered(Entered(s), name), name)

Begin(counts, cwd, path) ==
  LET wd == IF Head(path) = AtRoot THEN root ELSE cwd
  IN IRef(IRef([refs |-> counts, wd |-> wd, ino |-> wd, stop |-> FALSE, full |-> FALSE], wd), wd)
Components(path) == IF Head(path) = AtRoot THEN Tail(path) ELSE path

\* From s0, one name after the other.
Search(s0, names) ==
  LET at[k \in 0 .. Len(names)] == IF k = 0 THEN s0 ELSE Component(at[k - 1], names[k])
  IN at[Len(names)]

\* With these counts, a process in cwd asks for path; .ino is the answer.
NOpen(counts, cwd, path) ==
  LET s == Search(Begin(counts, cwd, path), Components(path))
      end == SrchMt(s)
  IN IF s.stop THEN s ELSE IDeref(end, end.wd)

\* An answer of n_open is given back.
Released(s) == IF s.ino = NULLINODE THEN s.refs ELSE IDeref(s, s.ino).refs

-----------------------------------------------------------------------------
Chdir(p, path) ==
  LET s == NOpen(refs, u_cwd[p], path)
  IN /\ IF s.ino \in Dirs
        THEN refs' = IDeref(s, u_cwd[p]).refs /\ u_cwd' = [u_cwd EXCEPT ![p] = s.ino]
        ELSE refs' = Released(s) /\ UNCHANGED u_cwd
     /\ UNCHANGED <<fs_tab, of_tab, panicked>>

Open(p, o, path) ==
  LET s == NOpen(refs, u_cwd[p], path)
  IN /\ of_tab[o] = NULLINODE
     /\ refs' = s.refs
     /\ of_tab' = [of_tab EXCEPT ![o] = s.ino]
     /\ UNCHANGED <<fs_tab, u_cwd, panicked>>

Close(o) ==
  /\ of_tab[o] # NULLINODE
  /\ refs' = [refs EXCEPT ![of_tab[o]] = @ - 1]
  /\ of_tab' = [of_tab EXCEPT ![o] = NULLINODE]
  /\ UNCHANGED <<fs_tab, u_cwd, panicked>>

IsDisk(n) == n \in DOMAIN Specials /\ Specials[n] \in Devs

(* fmount copies the superblock into fs_tab before it looks at it: of a    *)
(* disk without file system that is zero or anything.                      *)
FMount(d, n) ==
  IF d \in FileSystems THEN {[mounted |-> "SMOUNTED", mntpt |-> n]}
  ELSE {[mounted |-> "no", mntpt |-> NULLINODE], [mounted |-> "other", mntpt |-> Garbage]}

\* Bug: a directory that somebody stands in or has open may be covered.
BugUnused(s, n) == n[2] # ROOTINODE
Unused(s, n) == s.refs[n] = 1 /\ n[2] # ROOTINODE

Mount(p, spec, dir) ==
  LET s == NOpen(refs, u_cwd[p], spec)
      t == NOpen(s.refs, u_cwd[p], dir)
      given == [t EXCEPT !.refs = IF t.ino = NULLINODE THEN @ ELSE IDeref(t, t.ino).refs]
      d == Specials[s.ino]
  IN /\ IF s.ino = NULLINODE THEN refs' = s.refs /\ UNCHANGED fs_tab
        ELSE IF /\ t.ino \in Dirs /\ IsDisk(s.ino)
                /\ fs_tab[d].mounted = "no" /\ Unused(t, t.ino)
        THEN /\ \E e \in FMount(d, t.ino) : fs_tab' = [fs_tab EXCEPT ![d] = e]
             /\ refs' = IDeref(IF d \in FileSystems THEN IRef(given, t.ino) ELSE given, s.ino).refs
        ELSE refs' = IDeref(given, s.ino).refs /\ UNCHANGED fs_tab
     /\ UNCHANGED <<u_cwd, of_tab, panicked>>

Busy(s, d) == \E n \in InUse(s) : n[1] = d

(* i_deref of the garbage that a failed mount left finds no magic number.  *)
Umount(p, spec) ==
  LET s == NOpen(refs, u_cwd[p], spec)
      d == Specials[s.ino]
      old == fs_tab[d]
  IN /\ IF s.ino = NULLINODE THEN refs' = s.refs /\ UNCHANGED <<fs_tab, panicked>>
        ELSE IF IsDisk(s.ino) /\ old.mounted # "no" /\ ~Busy(s, d)
        THEN /\ fs_tab' = [fs_tab EXCEPT ![d].mounted = "no"]
             /\ panicked' = (old.mntpt = Garbage)
             /\ refs' = IF old.mntpt = Garbage THEN s.refs
                        ELSE IDeref(IDeref(s, old.mntpt), s.ino).refs
        ELSE refs' = IDeref(s, s.ino).refs /\ UNCHANGED <<fs_tab, panicked>>
     /\ UNCHANGED <<u_cwd, of_tab>>

Next ==
  /\ ~panicked
  /\ \/ \E p \in Procs, path \in Paths : Chdir(p, path) \/ Umount(p, path)
     \/ \E p \in Procs, o \in Ofts, path \in Paths : Open(p, o, path)
     \/ \E o \in Ofts : Close(o)
     \/ \E p \in Procs, spec \in Paths, dir \in Paths : Mount(p, spec, dir)

Spec == Init /\ [][Next]_vars

-----------------------------------------------------------------------------
(* Properties *)

Mounted(d) == fs_tab[d].mounted = "SMOUNTED"
Covered == {fs_tab[d].mntpt : d \in {e \in Devs : Mounted(e) /\ e # ROOTDEV}}

(* c_refs is the number of those who hold the inode: working directories,  *)
(* open files, a disk mounted on it and, for the root, the kernel.  A      *)
(* search gives back what it took on each of its ways out (fs/filesys.c,   *)
(* n_open), also when the table is full or a disk cannot be mounted.       *)
RefsCounted ==
  panicked \/ \A n \in Nodes :
    refs[n] = Cardinality({p \in Procs : u_cwd[p] = n}) + Cardinality({o \in Ofts : of_tab[o] = n})
              + (IF n \in Covered THEN 1 ELSE 0) + (IF n = root THEN 1 ELSE 0)

(* What is held lies on mounted disks, and each disk is mounted on a       *)
(* directory of another one that is held by nobody else and covered by it  *)
(* alone: no order of mount and umount (kernel/scall1b.c) leaves a disk    *)
(* hanging, and nobody stands under one.                                   *)
MountsHeld ==
  panicked \/
  /\ \A n \in Nodes : refs[n] > 0 => Mounted(n[1])
  /\ \A d \in Devs \ {ROOTDEV} : Mounted(d) =>
       LET n == fs_tab[d].mntpt
       IN n \in Dirs /\ n[1] # d /\ n[2] # ROOTINODE /\ refs[n] = 1
  /\ \A d, e \in Devs \ {ROOTDEV} : Mounted(d) /\ Mounted(e) /\ fs_tab[d].mntpt = fs_tab[e].mntpt => d = e

(* What a path means: each name leads one level down, to the disk mounted  *)
(* there if there is one, and ".." back to where it came from.             *)
Top(n) == IF MountedOn(n) = {} THEN n ELSE RootOf(First(MountedOn(n)))
Follow(way, name) ==
  IF way = <<>> \/ Last(way) \notin Dirs THEN <<>>
  ELSE IF name = ".." THEN IF Len(way) = 1 THEN way ELSE Front(way)
  ELSE IF name = "." /\ name \in DOMAIN Entries[Last(way)] THEN way
  ELSE IF name \in DOMAIN Entries[Last(way)] THEN Append(way, Top(Entries[Last(way)][name]))
  ELSE <<>>
Way(names) ==
  LET at[k \in 0 .. Len(names)] == IF k = 0 THEN <<root>> ELSE Follow(at[k - 1], names[k])
  IN at[Len(names)]
Meaning(path) ==
  IF Way(Tail(path)) = <<>> THEN NULLINODE ELSE Last(Way(Tail(path)))

Names == UNION {DOMAIN Entries[n] : n \in Dirs}
Plain == {x \in Names : x \in DotNames => x = ".."}
Absolute == {<<AtRoot>> \o way : way \in BoundedSeq(Plain, Longest)}

(* An absolute path leads n_open to what it means, however disks are       *)
(* mounted: down through mount points and up again through the roots of    *)
(* mounted disks (fs/filesys.c, "See if we are going up through a mount    *)
(* point").  The exception is a path with another name that has a dot in   *)
(* the second place; and a full inode table may refuse any path.           *)
NamesResolve ==
  panicked \/ \A path \in Absolute :
    LET s == NOpen(refs, root, path)
    IN s.ino = Meaning(path) \/ (s.full /\ s.ino = NULLINODE)
=============================================================================
