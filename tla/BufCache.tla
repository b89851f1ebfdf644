------------------------------ MODULE BufCache ------------------------------
(***************************************************************************)
(* The buffer pool of drivers/devio.c: bread, bfree, zerobuf, bufsync,     *)
(* bfind, freebuf and bufinit over a block device.  It implements          *)
(* BlockStore, the promise in the comment at the top of the file.          *)
(*                                                                         *)
(* The callers are file system code that uses a handful of buffers at a    *)
(* time and gives each back.  What a caller does to the data of a buffer   *)
(* it holds is taken to happen when it gives the buffer back.              *)
(***************************************************************************)
EXTENDS Integers, FiniteSets

CONSTANTS
  NBUFS,       \* the number of buffers
  Blocks,      \* the blocks, each a device and a number
  NoBlock,     \* bf_dev = -1
  Data,        \* the contents a block can have
  Zero,        \* the one bzero gives
  MaxHeld,     \* the most buffers the kernel holds at a time
  ClockMod,    \* 2^16, the range of bufclock and bf_time
  DiskErrors   \* the requests for which the device may return -1

Bufs == 0 .. NBUFS - 1

ASSUME BufAssumption ==
  /\ NBUFS \in Nat /\ MaxHeld \in Nat /\ MaxHeld < NBUFS
  /\ NoBlock \notin Blocks
  /\ Zero \in Data
  /\ ClockMod \in Nat \ {0}
  /\ DiskErrors \subseteq {"read", "write"}
  /\ IsFiniteSet(Blocks)

VARIABLES
  disk,                            \* the device
  name,                            \* bf_dev and bf_blk
  data, dirty, busy, time,         \* bf_data, bf_dirty, bf_busy, bf_time
  bufclock,
  held,        \* by block, what the caller that has it asked bread for
  safe,        \* the blocks the callers know to be on the disk
  suspect      \* the blocks for which the device failed since they were last
               \* given new contents: a history variable

bufVars == <<name, data, dirty, busy, time>>
vars == <<disk, bufVars, bufclock, held, safe, suspect>>

Uses == {"none", "read", "rewrite"}
HeldBlocks == {b \in Blocks : held[b] # "none"}

TypeOK ==
  /\ disk \in [Blocks -> Data]
  /\ name \in [Bufs -> Blocks \cup {NoBlock}]
  /\ data \in [Bufs -> Data]
  /\ dirty \in [Bufs -> BOOLEAN]
  /\ busy \in [Bufs -> BOOLEAN]
  /\ time \in [Bufs -> 0 .. ClockMod - 1]
  /\ bufclock \in 0 .. ClockMod - 1
  /\ held \in [Blocks -> Uses]
  /\ safe \subseteq Blocks
  /\ suspect \subseteq Blocks

(* bufinit, over a pool of zeroes *)
Bufinit ==
  /\ name = [i \in Bufs |-> NoBlock]
  /\ data = [i \in Bufs |-> Zero]
  /\ dirty = [i \in Bufs |-> FALSE]
  /\ busy = [i \in Bufs |-> FALSE]
  /\ time = [i \in Bufs |-> 0]
  /\ bufclock = 0

Init ==
  /\ disk \in [Blocks -> Data]
  /\ Bufinit
  /\ held = [b \in Blocks |-> "none"]
  /\ safe = Blocks
  /\ suspect = {}

-----------------------------------------------------------------------------
(* bfind: the first buffer with the block's name *)
\* Slip: buffers that were not changed are not looked at.
BugFound(b) == {i \in Bufs : name[i] = b /\ dirty[i]}
Found(b) == {i \in Bufs : name[i] = b}
Bfind(b, i) == i \in Found(b) /\ \A j \in Found(b) : i <= j

(* freebuf: the last of the oldest buffers that are not busy.  If there is *)
(* none the kernel panics, "no free buffers".                              *)
Idle == {i \in Bufs : ~busy[i]}
Age(i) == IF time[i] <= bufclock THEN bufclock - time[i]
                                 ELSE bufclock - time[i] + ClockMod
Oldest(i) ==
  /\ i \in Idle
  /\ \A j \in Idle : Age(j) <= Age(i) /\ (Age(j) = Age(i) => j <= i)

(* bdwrite of a set of buffers, each of which is done unless the device    *)
(* fails.  Nobody tries again.                                             *)
Written(bufs, d) ==
  [b \in Blocks |-> IF \E i \in bufs : name[i] = b
                    THEN d[CHOOSE i \in bufs : name[i] = b] ELSE disk[b]]
Bdwrite(bufs, d) ==
  \E done \in SUBSET bufs :
    /\ done = bufs \/ "write" \in DiskErrors
    /\ disk' = Written(done, d)
Missed(bufs, d) == {name[i] : i \in {j \in bufs : disk'[name[j]] # d[j]}}

(* freebuf's write of the buffer it gives up, whose dirty flag is cleared  *)
(* whether or not the write could be done.                                 *)
\* Slip: the buffer is given up as it is.
BugFlush(i, unread) == disk' = disk /\ suspect' = suspect \cup unread
Changed(i) == IF dirty[i] THEN {i} ELSE {}
Flush(i, unread) ==
  /\ Bdwrite(Changed(i), data)
  /\ suspect' = suspect \cup Missed(Changed(i), data) \cup unread

\* Slip: the clock is not kept in 16 bits.
BugTick == bufclock + 1
Tick == IF bufclock + 1 = ClockMod THEN 0 ELSE bufclock + 1
Stamp(i) ==
  /\ busy' = [busy EXCEPT ![i] = TRUE]
  /\ bufclock' = Tick
  /\ time' = [time EXCEPT ![i] = bufclock']

-----------------------------------------------------------------------------
(* bread.  A caller wants a block that nobody holds ("want busy block").   *)
Wanted(b) == held[b] = "none" /\ Cardinality(HeldBlocks) < MaxHeld
Use(rewrite) == IF rewrite = 0 THEN "read" ELSE "rewrite"

(* The block is in the pool: not even rewrite = 2 touches the data. *)
BreadHit(b, rewrite) ==
  /\ Wanted(b)
  /\ \E i \in Bufs : Bfind(b, i) /\ ~busy[i] /\ Stamp(i)
  /\ held' = [held EXCEPT ![b] = Use(rewrite)]
  /\ UNCHANGED <<disk, name, data, dirty, safe, suspect>>

NewData(i, b, rewrite) ==
  CASE rewrite = 0 -> disk'[b]
    [] rewrite = 1 -> data[i]              \* what the last user left there
    [] rewrite = 2 -> Zero
BreadMiss(b, rewrite) ==
  /\ Wanted(b) /\ Found(b) = {}
  /\ \E i \in Bufs :
       /\ Oldest(i)
       /\ Flush(i, {})
       /\ name' = [name EXCEPT ![i] = b]
       /\ dirty' = [dirty EXCEPT ![i] = FALSE]
       /\ data' = [data EXCEPT ![i] = NewData(i, b, rewrite)]
       /\ Stamp(i)
  /\ held' = [held EXCEPT ![b] = Use(rewrite)]
  /\ UNCHANGED safe

(* bdread fails: bread returns NULL and leaves the buffer named, with what *)
(* it had of another block.                                                *)
BreadError(b) ==
  /\ "read" \in DiskErrors
  /\ Wanted(b) /\ Found(b) = {}
  /\ \E i \in Bufs :
       /\ Oldest(i)
       /\ Flush(i, {b})
       /\ name' = [name EXCEPT ![i] = b]
       /\ dirty' = [dirty EXCEPT ![i] = FALSE]
  /\ UNCHANGED <<data, busy, time, bufclock, held, safe>>

Release(i) == busy' = [busy EXCEPT ![i] = FALSE]

(* bfree(bp, 0), brelse: the data were only looked at.  Whoever asked for  *)
(* a block to rewrite it has rewritten it.                                 *)
Brelse(b) ==
  /\ held[b] = "read"
  /\ \E i \in Bufs :
       /\ name[i] = b /\ busy[i]
       /\ Release(i)
  /\ held' = [held EXCEPT ![b] = "none"]
  /\ UNCHANGED <<disk, name, data, dirty, time, bufclock, safe, suspect>>

(* bfree(bp, 1), bawrite, and bfree(bp, 2) of a buffer with new contents. *)
Bawrite(b, v) ==
  /\ held[b] # "none"
  /\ \E i \in Bufs :
       /\ name[i] = b /\ busy[i]
       /\ data' = [data EXCEPT ![i] = v]
       /\ dirty' = [dirty EXCEPT ![i] = TRUE]
       /\ Release(i)
  /\ held' = [held EXCEPT ![b] = "none"]
  /\ safe' = safe \ {b}
  /\ suspect' = suspect \ {b}
  /\ UNCHANGED <<disk, name, time, bufclock>>
BfreeNow(b, v) ==
  /\ held[b] # "none"
  /\ \E i \in Bufs :
       /\ name[i] = b /\ busy[i]
       /\ data' = [data EXCEPT ![i] = v]
       /\ dirty' = [dirty EXCEPT ![i] = FALSE]
       /\ Release(i)
       /\ Bdwrite({i}, data')
       /\ suspect' = (suspect \ {b}) \cup Missed({i}, data')
  /\ held' = [held EXCEPT ![b] = "none"]
  /\ safe' = safe \cup {b}
  /\ UNCHANGED <<name, time, bufclock>>

(* zerobuf takes the oldest buffer's name away; it is neither busy nor     *)
(* newly stamped, and the caller's brelse changes nothing.                 *)
Zerobuf ==
  /\ \E i \in Bufs :
       /\ Oldest(i)
       /\ Flush(i, {})
       /\ name' = [name EXCEPT ![i] = NoBlock]
       /\ dirty' = [dirty EXCEPT ![i] = FALSE]
       /\ data' = [data EXCEPT ![i] = Zero]
  /\ UNCHANGED <<busy, time, bufclock, held, safe>>

(* bufsync writes every dirty buffer and leaves it marked dirty. *)
\* Slip: a buffer in use is not written.
BugDirtyBufs == {i \in Bufs : name[i] # NoBlock /\ dirty[i] /\ ~busy[i]}
DirtyBufs == {i \in Bufs : name[i] # NoBlock /\ dirty[i]}
Bufsync ==
  /\ Bdwrite(DirtyBufs, data)
  /\ safe' = Blocks
  /\ suspect' = suspect \cup Missed(DirtyBufs, data)
  /\ UNCHANGED <<bufVars, bufclock, held>>

(* The power fails and the kernel is started again, with bufinit. *)
Crash ==
  /\ name' = [i \in Bufs |-> NoBlock]
  /\ data' = [i \in Bufs |-> Zero]
  /\ dirty' = [i \in Bufs |-> FALSE]
  /\ busy' = [i \in Bufs |-> FALSE]
  /\ time' = [i \in Bufs |-> 0]
  /\ bufclock' = 0
  /\ held' = [b \in Blocks |-> "none"]
  /\ UNCHANGED <<disk, safe, suspect>>

Next ==
  \/ \E b \in Blocks :
       \/ \E rewrite \in 0 .. 2 : BreadHit(b, rewrite) \/ BreadMiss(b, rewrite)
       \/ BreadError(b)
       \/ Brelse(b)
       \/ \E v \in Data : Bawrite(b, v) \/ BfreeNow(b, v)
  \/ Zerobuf
  \/ Bufsync
  \/ Crash

Spec == Init /\ [][Next]_vars

-----------------------------------------------------------------------------
(* Properties *)

(* Never two buffers for one block, or changes made in one would be lost   *)
(* when the other is written or read.                                      *)
OneBufferPerBlock ==
  \A i, j \in Bufs : name[i] = name[j] /\ name[i] # NoBlock => i = j

(* A block that is looked at is seen with the contents it was last given:  *)
(* the buffer's, except that a buffer taken over for rewriting holds       *)
(* another block's until it is given back.                                 *)
Unread(b, i) == name[i] = b /\ held[b] = "rewrite" /\ ~dirty[i]
View == [b \in Blocks |->
           IF \E i \in Bufs : name[i] = b /\ ~Unread(b, i)
           THEN data[CHOOSE i \in Bufs : name[i] = b /\ ~Unread(b, i)]
           ELSE disk[b]]
(* A request that fails spoils no block but the one it is for, and that    *)
(* one only until it is given new contents.                                *)
Promise == INSTANCE BlockStore WITH store <- View, durable <- disk
Implements == Promise!Spec

(* What was written by bfree(bp, 2) or bufsync, and not changed since, is  *)
(* on the disk, whatever was evicted, read, lost to a crash or refused by  *)
(* the device meanwhile.                                                   *)
SafeOnDisk == \A b \in safe \ suspect : disk[b] = View[b]

=============================================================================
