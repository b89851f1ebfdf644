--------------------------- MODULE BufCacheProofs ---------------------------
(***************************************************************************)
(* The buffer pool implements BlockStore, whatever requests the device     *)
(* fails, for any number of buffers, blocks and contents and any range of  *)
(* the clock.                                                              *)
(***************************************************************************)
EXTENDS BufCache, TLAPS

(* Only a block's buffer is dirty, and a buffer is busy exactly while a    *)
(* caller holds its block.                                                 *)
DirtyNamed == \A i \in Bufs : dirty[i] => name[i] # NoBlock
BusyHeld ==
  /\ \A i \in Bufs : busy[i] => name[i] # NoBlock /\ held[name[i]] # "none"
  /\ \A b \in Blocks : held[b] # "none" => \E i \in Bufs : name[i] = b /\ busy[i]

(* "The block is actually read if it is not already in the buffer pool": a *)
(* buffer that is not dirty holds what the disk has, unless a request for  *)
(* its block failed.                                                       *)
CleanIsDisk ==
  \A i \in Bufs :
    name[i] # NoBlock /\ name[i] \notin suspect /\ ~dirty[i] /\ held[name[i]] # "rewrite"
      => data[i] = disk[name[i]]

Inv == /\ TypeOK /\ OneBufferPerBlock /\ CleanIsDisk /\ DirtyNamed /\ BusyHeld

LEMMA InitInv == Init => Inv
<1> SUFFICES ASSUME Init PROVE Inv
  OBVIOUS
<1>1. TypeOK
  BY BufAssumption DEF Init, Bufinit, TypeOK, Uses
<1>2. OneBufferPerBlock /\ CleanIsDisk /\ DirtyNamed /\ BusyHeld
  BY DEF Init, Bufinit, OneBufferPerBlock, CleanIsDisk, DirtyNamed, BusyHeld
<1>3. QED
  BY <1>1, <1>2 DEF Inv

(* What bdwrite of one buffer leaves on the disk. *)
LEMMA WrittenOne ==
  ASSUME TypeOK, NEW i \in Bufs, name[i] # NoBlock, NEW d
  PROVE  Written({i}, d) = [disk EXCEPT ![name[i]] = d[i]]
<1>1. \A b \in Blocks : (\E j \in {i} : name[j] = b) <=> name[i] = b
  OBVIOUS
<1>2. \A b \in Blocks : name[i] = b => (CHOOSE j \in {i} : name[j] = b) = i
  OBVIOUS
<1>3. QED
  BY <1>1, <1>2 DEF Written, TypeOK

(* The device does what it is asked to, or its block is among those that   *)
(* are missed.                                                             *)
LEMMA BdwriteOne ==
  ASSUME TypeOK, NEW i \in Bufs, name[i] # NoBlock, NEW d, Bdwrite({i}, d)
  PROVE  /\ disk' = disk \/ disk' = [disk EXCEPT ![name[i]] = d[i]]
         /\ name[i] \notin Missed({i}, d) => disk'[name[i]] = d[i]
         /\ Missed({i}, d) \subseteq {name[i]}
<1>1. PICK done \in SUBSET {i} : disk' = Written(done, d)
  BY DEF Bdwrite
<1>2. done = {} => disk' = disk
  BY <1>1 DEF Written, TypeOK
<1>3. done = {i} => disk' = [disk EXCEPT ![name[i]] = d[i]]
  BY <1>1, WrittenOne
<1>4. disk' = disk \/ disk' = [disk EXCEPT ![name[i]] = d[i]]
  BY <1>2, <1>3
<1>5. QED
  BY <1>4 DEF Missed

(* freebuf gives up a buffer whose block nobody holds, and leaves its      *)
(* contents on the disk, unless the device fails.                          *)
LEMMA FlushOne ==
  ASSUME Inv, NEW i \in Bufs, NEW unread \in SUBSET Blocks, Oldest(i), Flush(i, unread)
  PROVE  /\ ~busy[i]
         /\ name[i] # NoBlock =>
              /\ held[name[i]] = "none"
              /\ name[i] \notin suspect' => disk'[name[i]] = data[i]
         /\ \A b \in Blocks : b # name[i] => disk'[b] = disk[b]
         /\ disk' \in [Blocks -> Data]
         /\ suspect \cup unread \subseteq suspect' /\ suspect' \subseteq Blocks
<1> USE DEF Inv
<1>1. ~busy[i]
  BY DEF Oldest, Idle
<1>2. name[i] # NoBlock => name[i] \in Blocks /\ held[name[i]] = "none"
  BY <1>1 DEF TypeOK, BusyHeld, OneBufferPerBlock
<1>3. CASE dirty[i]
  <2>1. name[i] # NoBlock
    BY <1>3 DEF DirtyNamed
  <2>2. Bdwrite({i}, data) /\ suspect' = suspect \cup Missed({i}, data) \cup unread
    BY <1>3 DEF Flush, Changed
  <2>3. /\ disk' = disk \/ disk' = [disk EXCEPT ![name[i]] = data[i]]
        /\ name[i] \notin Missed({i}, data) => disk'[name[i]] = data[i]
        /\ Missed({i}, data) \subseteq {name[i]}
    BY <2>1, <2>2, BdwriteOne
  <2>4. QED
    BY <1>1, <1>2, <2>1, <2>2, <2>3 DEF TypeOK
<1>4. CASE ~dirty[i]
  <2>1. Bdwrite({}, data) /\ suspect' = suspect \cup unread
    BY <1>4 DEF Flush, Changed, Missed
  <2>2. disk' = Written({}, data)
    BY <2>1 DEF Bdwrite
  <2>3. disk' = disk
    BY <2>2 DEF Written, TypeOK
  <2>4. QED
    BY <1>1, <1>2, <1>4, <2>1, <2>3 DEF TypeOK, CleanIsDisk
<1>5. QED
  BY <1>3, <1>4

LEMMA TickType == bufclock \in 0 .. ClockMod - 1 => Tick \in 0 .. ClockMod - 1
  BY BufAssumption DEF Tick

(* The name a buffer is given: that of a block which has none, or none.    *)
LEMMA TakeOver ==
  ASSUME Inv, NEW i \in Bufs, NEW n \in Blocks \cup {NoBlock}, n # NoBlock => Found(n) = {},
         name' = [name EXCEPT ![i] = n], dirty' = [dirty EXCEPT ![i] = FALSE]
  PROVE  OneBufferPerBlock' /\ DirtyNamed'
<1>1. \A j \in Bufs : name[j] = n => n = NoBlock
  BY DEF Found
<1>2. OneBufferPerBlock'
  BY <1>1 DEF Inv, OneBufferPerBlock, TypeOK
<1>3. DirtyNamed'
  BY DEF Inv, DirtyNamed, TypeOK
<1>4. QED
  BY <1>2, <1>3

LEMMA MissInv ==
  ASSUME Inv, NEW b \in Blocks, NEW rewrite \in 0 .. 2,
         BreadMiss(b, rewrite)
  PROVE  Inv'
<1> USE DEF Inv
<1>1. PICK i \in Bufs :
        /\ Oldest(i) /\ Flush(i, {}) /\ Stamp(i)
        /\ name' = [name EXCEPT ![i] = b]
        /\ dirty' = [dirty EXCEPT ![i] = FALSE]
        /\ data' = [data EXCEPT ![i] = NewData(i, b, rewrite)]
  BY DEF BreadMiss
<1>2. /\ ~busy[i] /\ disk' \in [Blocks -> Data]
      /\ suspect \subseteq suspect' /\ suspect' \subseteq Blocks
      /\ \A c \in Blocks : c # name[i] => disk'[c] = disk[c]
  BY <1>1, FlushOne
<1>3. /\ held[b] = "none" /\ held' = [held EXCEPT ![b] = Use(rewrite)]
      /\ Use(rewrite) \in {"read", "rewrite"} /\ safe' = safe
      /\ Found(b) = {} /\ b # NoBlock
  BY BufAssumption DEF BreadMiss, Wanted, Use
<1>4. NewData(i, b, rewrite) \in Data
  <2>1. CASE rewrite = 0
    BY <1>2, <2>1 DEF NewData
  <2>2. CASE rewrite = 1
    BY <2>2 DEF NewData, TypeOK
  <2>3. CASE rewrite = 2
    BY <2>3, BufAssumption DEF NewData
  <2>4. QED
    BY <2>1, <2>2, <2>3
<1>5. TypeOK'
  <2>1. bufclock' \in 0 .. ClockMod - 1
    BY <1>1, TickType DEF Stamp, TypeOK
  <2>2. QED
    BY <1>1, <1>2, <1>3, <1>4, <2>1 DEF TypeOK, Stamp, Uses
<1>6. OneBufferPerBlock' /\ DirtyNamed'
  BY <1>1, <1>3, TakeOver
<1>7. CleanIsDisk'
  <2> SUFFICES ASSUME NEW j \in Bufs, name'[j] # NoBlock, name'[j] \notin suspect',
                      ~dirty'[j], held'[name'[j]] # "rewrite"
               PROVE  data'[j] = disk'[name'[j]]
    BY DEF CleanIsDisk
  <2>1. CASE j = i
    <3>1. name'[j] = b
      BY <1>1, <2>1 DEF TypeOK
    <3>2. rewrite = 0
      BY <1>3, <3>1 DEF Use, TypeOK
    <3>3. data'[j] = disk'[b]
      BY <1>1, <2>1, <3>2 DEF NewData, TypeOK
    <3>4. QED
      BY <3>1, <3>3
  <2>2. CASE j # i
    <3>1. name'[j] = name[j] /\ dirty'[j] = dirty[j] /\ data'[j] = data[j]
      BY <1>1, <2>2 DEF TypeOK
    <3>2. /\ name[j] \in Blocks /\ name[j] # b /\ name[j] # name[i]
          /\ name[j] \notin suspect
      BY <1>2, <1>3, <2>2, <3>1 DEF Found, TypeOK, OneBufferPerBlock
    <3>3. held[name[j]] # "rewrite" /\ disk'[name[j]] = disk[name[j]]
      BY <1>2, <1>3, <3>1, <3>2 DEF TypeOK
    <3>4. QED
      BY <3>1, <3>2, <3>3 DEF CleanIsDisk
  <2>3. QED
    BY <2>1, <2>2
<1>8. BusyHeld'
  <2>1. busy' = [busy EXCEPT ![i] = TRUE]
    BY <1>1 DEF Stamp
  <2>2. ASSUME NEW j \in Bufs, busy'[j]
        PROVE  name'[j] # NoBlock /\ held'[name'[j]] # "none"
    <3>1. CASE j = i
      BY <1>1, <1>3, <3>1 DEF TypeOK
    <3>2. CASE j # i
      BY <1>1, <1>3, <2>1, <2>2, <3>2 DEF TypeOK, BusyHeld
    <3>3. QED
      BY <3>1, <3>2
  <2>3. ASSUME NEW c \in Blocks, held'[c] # "none"
        PROVE  \E j \in Bufs : name'[j] = c /\ busy'[j]
    <3>1. CASE c = b
      BY <1>1, <2>1, <3>1 DEF TypeOK
    <3>2. CASE c # b
      <4>1. PICK j \in Bufs : name[j] = c /\ busy[j]
        BY <1>3, <2>3, <3>2 DEF TypeOK, BusyHeld
      <4>2. QED
        BY <1>1, <1>2, <2>1, <4>1 DEF TypeOK
    <3>3. QED
      BY <3>1, <3>2
  <2>4. QED
    BY <2>2, <2>3 DEF BusyHeld
<1>9. QED
  BY <1>5, <1>6, <1>7, <1>8

LEMMA HitInv ==
  ASSUME Inv, NEW b \in Blocks, NEW rewrite \in 0 .. 2, BreadHit(b, rewrite)
  PROVE  Inv'
<1> USE DEF Inv
<1>1. PICK i \in Bufs : Bfind(b, i) /\ ~busy[i] /\ Stamp(i)
  BY DEF BreadHit
<1>2. /\ name[i] = b /\ held[b] = "none" /\ held' = [held EXCEPT ![b] = Use(rewrite)]
      /\ Use(rewrite) \in {"read", "rewrite"}
      /\ UNCHANGED <<disk, name, data, dirty, safe, suspect>>
      /\ busy' = [busy EXCEPT ![i] = TRUE]
  BY <1>1 DEF BreadHit, Bfind, Found, Wanted, Use, Stamp
<1>3. TypeOK'
  <2>1. bufclock' \in 0 .. ClockMod - 1
    BY <1>1, TickType DEF Stamp, TypeOK
  <2>2. QED
    BY <1>1, <1>2, <2>1 DEF TypeOK, Stamp, Uses
<1>4. OneBufferPerBlock' /\ DirtyNamed'
  BY <1>2 DEF OneBufferPerBlock, DirtyNamed
<1>5. CleanIsDisk' /\ BusyHeld'
  BY <1>2, BufAssumption DEF CleanIsDisk, BusyHeld, TypeOK
<1>6. QED
  BY <1>3, <1>4, <1>5

(* bfree: the buffer of a block that is held is given back. *)
LEMMA PutInv ==
  ASSUME Inv, NEW b \in Blocks, NEW v \in Data,
         Brelse(b) \/ Bawrite(b, v) \/ BfreeNow(b, v)
  PROVE  Inv'
<1> USE DEF Inv
<1>1. PICK i \in Bufs :
        /\ name[i] = b /\ busy[i] /\ Release(i)
        /\ \/ held[b] = "read" /\ UNCHANGED <<disk, data, dirty, suspect>>
           \/ /\ data' = [data EXCEPT ![i] = v] /\ dirty' = [dirty EXCEPT ![i] = TRUE]
              /\ UNCHANGED disk /\ suspect' = suspect \ {b}
           \/ /\ data' = [data EXCEPT ![i] = v] /\ dirty' = [dirty EXCEPT ![i] = FALSE]
              /\ Bdwrite({i}, data')
              /\ suspect' = (suspect \ {b}) \cup Missed({i}, data')
  BY DEF Brelse, Bawrite, BfreeNow
<1>2. /\ held' = [held EXCEPT ![b] = "none"] /\ busy' = [busy EXCEPT ![i] = FALSE]
      /\ UNCHANGED <<name, time, bufclock>>
      /\ safe' \subseteq Blocks /\ b # NoBlock
  BY <1>1, BufAssumption DEF Brelse, Bawrite, BfreeNow, Release, TypeOK
<1>3. ASSUME data' = [data EXCEPT ![i] = v], Bdwrite({i}, data'),
             suspect' = (suspect \ {b}) \cup Missed({i}, data')
      PROVE  /\ disk' = disk \/ disk' = [disk EXCEPT ![b] = v]
             /\ b \notin suspect' => disk'[b] = v
             /\ suspect' \ {b} = suspect \ {b}
  <2>1. data'[i] = v
    BY <1>3 DEF TypeOK
  <2>2. /\ disk' = disk \/ disk' = [disk EXCEPT ![name[i]] = data'[i]]
        /\ name[i] \notin Missed({i}, data') => disk'[name[i]] = data'[i]
        /\ Missed({i}, data') \subseteq {name[i]}
    BY <1>1, <1>2, <1>3, BdwriteOne
  <2>3. QED
    BY <1>1, <1>3, <2>1, <2>2
<1>4. /\ disk' = disk \/ disk' = [disk EXCEPT ![b] = v]
      /\ suspect' \ {b} = suspect \ {b}
  BY <1>1, <1>3
<1>5. TypeOK'
  <2>1. data' \in [Bufs -> Data] /\ dirty' \in [Bufs -> BOOLEAN]
    BY <1>1 DEF TypeOK
  <2>2. disk' \in [Blocks -> Data] /\ suspect' \subseteq Blocks
    BY <1>4 DEF TypeOK
  <2>3. QED
    BY <1>1, <1>2, <2>1, <2>2 DEF TypeOK, Uses
<1>6. OneBufferPerBlock' /\ DirtyNamed'
  BY <1>1, <1>2 DEF OneBufferPerBlock, DirtyNamed, TypeOK
<1>7. CleanIsDisk'
  <2> SUFFICES ASSUME NEW j \in Bufs, name[j] # NoBlock, name[j] \notin suspect',
                      ~dirty'[j], held'[name[j]] # "rewrite"
               PROVE  data'[j] = disk'[name[j]]
    BY <1>2 DEF CleanIsDisk
  <2>1. CASE j = i
    <3>1. CASE held[b] = "read" /\ UNCHANGED <<disk, data, dirty, suspect>>
      BY <1>1, <2>1, <3>1 DEF CleanIsDisk
    <3>2. CASE dirty' = [dirty EXCEPT ![i] = TRUE]
      BY <2>1, <3>2 DEF TypeOK
    <3>3. CASE /\ data' = [data EXCEPT ![i] = v] /\ Bdwrite({i}, data')
               /\ suspect' = (suspect \ {b}) \cup Missed({i}, data')
      BY <1>1, <1>3, <2>1, <3>3 DEF TypeOK
    <3>4. QED
      BY <1>1, <3>1, <3>2, <3>3
  <2>2. CASE j # i
    <3>1. name[j] # b /\ name[j] \in Blocks /\ name[j] \notin suspect
      BY <1>1, <1>2, <1>4, <2>2 DEF OneBufferPerBlock, TypeOK
    <3>2. /\ data'[j] = data[j] /\ dirty'[j] = dirty[j] /\ disk'[name[j]] = disk[name[j]]
          /\ held'[name[j]] = held[name[j]]
      BY <1>1, <1>2, <1>4, <2>2, <3>1 DEF TypeOK
    <3>3. QED
      BY <3>1, <3>2 DEF CleanIsDisk
  <2>3. QED
    BY <2>1, <2>2
<1>8. BusyHeld'
  BY <1>1, <1>2 DEF BusyHeld, TypeOK, OneBufferPerBlock
<1>9. QED
  BY <1>5, <1>6, <1>7, <1>8

(* zerobuf, and the bread that fails: the oldest buffer changes its name   *)
(* and is not used.                                                        *)
LEMMA TakeInv ==
  ASSUME Inv, NEW i \in Bufs, NEW n \in Blocks \cup {NoBlock}, NEW unread \in SUBSET Blocks,
         Oldest(i), Flush(i, unread),
         n # NoBlock => Found(n) = {} /\ n \in unread,
         name' = [name EXCEPT ![i] = n], dirty' = [dirty EXCEPT ![i] = FALSE],
         NEW d \in Data, data' = [data EXCEPT ![i] = d],
         UNCHANGED <<busy, time, bufclock, held, safe>>
  PROVE  Inv'
<1> USE DEF Inv
<1>1. /\ ~busy[i] /\ disk' \in [Blocks -> Data]
      /\ \A c \in Blocks : c # name[i] => disk'[c] = disk[c]
      /\ suspect \cup unread \subseteq suspect' /\ suspect' \subseteq Blocks
  BY FlushOne
<1>2. TypeOK'
  BY <1>1, BufAssumption DEF TypeOK
<1>3. OneBufferPerBlock' /\ DirtyNamed'
  BY TakeOver
<1>4. CleanIsDisk'
  <2> SUFFICES ASSUME NEW j \in Bufs, name'[j] # NoBlock, name'[j] \notin suspect',
                      ~dirty'[j], held[name'[j]] # "rewrite"
               PROVE  data'[j] = disk'[name'[j]]
    BY DEF CleanIsDisk
  <2>1. j # i
    BY <1>1 DEF TypeOK
  <2>2. name'[j] = name[j] /\ data'[j] = data[j] /\ dirty'[j] = dirty[j]
    BY <2>1 DEF TypeOK
  <2>3. name[j] \in Blocks /\ name[j] # name[i] /\ name[j] \notin suspect
    BY <1>1, <2>1, <2>2 DEF TypeOK, OneBufferPerBlock
  <2>4. QED
    BY <1>1, <2>2, <2>3 DEF CleanIsDisk
<1>5. BusyHeld'
  BY <1>1 DEF BusyHeld, TypeOK
<1>6. QED
  BY <1>2, <1>3, <1>4, <1>5

LEMMA ZerobufInv ==
  ASSUME Inv, Zerobuf
  PROVE  Inv'
<1>1. PICK i \in Bufs :
        /\ Oldest(i) /\ Flush(i, {})
        /\ name' = [name EXCEPT ![i] = NoBlock]
        /\ dirty' = [dirty EXCEPT ![i] = FALSE]
        /\ data' = [data EXCEPT ![i] = Zero]
  BY DEF Zerobuf
<1>2. QED
  BY <1>1, TakeInv, BufAssumption DEF Zerobuf

LEMMA ErrorInv ==
  ASSUME Inv, NEW b \in Blocks, BreadError(b)
  PROVE  Inv'
<1>1. PICK i \in Bufs :
        /\ Oldest(i) /\ Flush(i, {b})
        /\ name' = [name EXCEPT ![i] = b]
        /\ dirty' = [dirty EXCEPT ![i] = FALSE]
  BY DEF BreadError
<1>2. data' = [data EXCEPT ![i] = data[i]] /\ data[i] \in Data
  BY DEF BreadError, Inv, TypeOK
<1>3. Found(b) = {} /\ UNCHANGED <<busy, time, bufclock, held, safe>>
  BY DEF BreadError
<1>4. QED
  BY <1>1, <1>2, <1>3, TakeInv

(* The disk after bufsync has the contents of every dirty buffer, unless   *)
(* the device failed for its block.                                        *)
LEMMA SyncDisk ==
  ASSUME Inv, Bufsync
  PROVE  /\ disk' \in [Blocks -> Data]
         /\ \A i \in Bufs : dirty[i] /\ name[i] \notin suspect' => disk'[name[i]] = data[i]
         /\ \A b \in Blocks : (\A i \in Bufs : name[i] = b => ~dirty[i]) => disk'[b] = disk[b]
         /\ suspect \subseteq suspect' /\ suspect' \subseteq Blocks
<1> USE DEF Inv
<1>1. PICK done \in SUBSET DirtyBufs : disk' = Written(done, data)
  BY DEF Bufsync, Bdwrite
<1>2. suspect' = suspect \cup Missed(DirtyBufs, data)
  BY DEF Bufsync
<1>3. \A i \in Bufs : dirty[i] => i \in DirtyBufs /\ name[i] \in Blocks
  BY DEF DirtyBufs, DirtyNamed, TypeOK
<1>4. suspect \subseteq suspect' /\ suspect' \subseteq Blocks
  BY <1>2, <1>3 DEF Missed, DirtyBufs, TypeOK
<1>5. \A i \in Bufs : dirty[i] /\ name[i] \notin suspect' => disk'[name[i]] = data[i]
  BY <1>2, <1>3 DEF Missed
<1>6. ASSUME NEW b \in Blocks
      PROVE  /\ disk'[b] \in Data
             /\ (\A i \in Bufs : name[i] = b => ~dirty[i]) => disk'[b] = disk[b]
  <2>1. CASE \E i \in done : name[i] = b
    <3>1. (CHOOSE i \in done : name[i] = b) \in Bufs
      BY <2>1 DEF DirtyBufs
    <3>2. disk'[b] \in Data
      BY <1>1, <2>1, <3>1 DEF Written, TypeOK
    <3>3. QED
      BY <2>1, <3>2 DEF DirtyBufs
  <2>2. CASE ~ \E i \in done : name[i] = b
    BY <1>1, <2>2 DEF Written, TypeOK
  <2>3. QED
    BY <2>1, <2>2
<1>7. disk' \in [Blocks -> Data]
  BY <1>1, <1>6 DEF Written
<1>8. QED
  BY <1>4, <1>5, <1>6, <1>7

LEMMA SyncInv ==
  ASSUME Inv, Bufsync
  PROVE  Inv'
<1> USE DEF Inv
<1>1. UNCHANGED <<name, data, dirty, busy, time, bufclock, held>> /\ safe' = Blocks
  BY DEF Bufsync, bufVars
<1>2. CleanIsDisk'
  <2> SUFFICES ASSUME NEW i \in Bufs, name[i] # NoBlock, name[i] \notin suspect',
                      ~dirty[i], held[name[i]] # "rewrite"
               PROVE  data[i] = disk'[name[i]]
    BY <1>1 DEF CleanIsDisk
  <2>1. \A j \in Bufs : name[j] = name[i] => ~dirty[j]
    BY DEF OneBufferPerBlock
  <2>2. name[i] \in Blocks /\ name[i] \notin suspect
    BY SyncDisk DEF TypeOK
  <2>3. QED
    BY <2>1, <2>2, SyncDisk DEF CleanIsDisk
<1>3. QED
  BY <1>1, <1>2, SyncDisk DEF TypeOK, OneBufferPerBlock, DirtyNamed, BusyHeld

LEMMA StepInv ==
  ASSUME Inv, [Next]_vars
  PROVE  Inv'
<1>1. CASE \E b \in Blocks, rewrite \in 0 .. 2 : BreadHit(b, rewrite)
  BY <1>1, HitInv
<1>2. CASE \E b \in Blocks, rewrite \in 0 .. 2 : BreadMiss(b, rewrite)
  BY <1>2, MissInv
<1>3. CASE \E b \in Blocks : BreadError(b)
  BY <1>3, ErrorInv
<1>4. CASE \E b \in Blocks : Brelse(b)
  BY <1>4, PutInv, BufAssumption
<1>5. CASE \E b \in Blocks, v \in Data : Bawrite(b, v) \/ BfreeNow(b, v)
  BY <1>5, PutInv
<1>6. CASE Zerobuf
  BY <1>6, ZerobufInv
<1>7. CASE Bufsync
  BY <1>7, SyncInv
<1>8. CASE Crash
  <2>1. TypeOK'
    BY <1>8, BufAssumption DEF Inv, Crash, TypeOK, Uses
  <2>2. OneBufferPerBlock' /\ CleanIsDisk' /\ DirtyNamed' /\ BusyHeld'
    BY <1>8 DEF Crash, OneBufferPerBlock, CleanIsDisk, DirtyNamed, BusyHeld
  <2>3. QED
    BY <2>1, <2>2 DEF Inv
<1>9. CASE UNCHANGED vars
  BY <1>9 DEF vars, bufVars, Inv, TypeOK, OneBufferPerBlock, CleanIsDisk,
     DirtyNamed, BusyHeld
<1>10. QED
  BY <1>1, <1>2, <1>3, <1>4, <1>5, <1>6, <1>7, <1>8, <1>9 DEF Next

(* Every reachable state of the pool is of the declared type: a buffer is  *)
(* named after a block or after none, and bufclock stays in its width.     *)
THEOREM TypeCorrect ==
  Spec => []TypeOK
<1>1. Inv => TypeOK
  BY DEF Inv
<1>2. Inv /\ [Next]_vars => Inv'
  BY StepInv
<1>3. QED
  BY <1>1, <1>2, InitInv, PTL DEF Spec

(* Never two buffers for one block. *)
THEOREM OneBuffer ==
  Spec => []OneBufferPerBlock
<1>1. Inv => OneBufferPerBlock
  BY DEF Inv
<1>2. Inv /\ [Next]_vars => Inv'
  BY StepInv
<1>3. QED
  BY <1>1, <1>2, InitInv, PTL DEF Spec

-----------------------------------------------------------------------------
(* The refinement *)

(* What a block looks like to its users, without the CHOOSE of View. *)
Looks(b, v) ==
  /\ \A i \in Bufs : name[i] = b /\ ~Unread(b, i) => v = data[i]
  /\ (\A i \in Bufs : name[i] = b => Unread(b, i)) => v = disk[b]

LEMMA ViewLooks ==
  ASSUME OneBufferPerBlock, BufAssumption, NEW b \in Blocks
  PROVE  \A v : Looks(b, v) <=> v = View[b]
<1>1. CASE \E i \in Bufs : name[i] = b /\ ~Unread(b, i)
  <2>1. PICK i \in Bufs : name[i] = b /\ ~Unread(b, i)
    BY <1>1
  <2>2. \A j \in Bufs : name[j] = b => j = i
    BY <2>1, BufAssumption DEF OneBufferPerBlock
  <2>3. (CHOOSE j \in Bufs : name[j] = b /\ ~Unread(b, j)) = i
    BY <2>1, <2>2
  <2>4. View[b] = data[i]
    BY <1>1, <2>3 DEF View
  <2>5. QED
    BY <2>1, <2>2, <2>4 DEF Looks
<1>2. CASE ~ \E i \in Bufs : name[i] = b /\ ~Unread(b, i)
  BY <1>2 DEF Looks, View
<1>3. QED
  BY <1>1, <1>2

LEMMA ViewType == Inv => View \in [Blocks -> Data]
<1> SUFFICES ASSUME Inv, NEW b \in Blocks PROVE View[b] \in Data
  BY DEF View
<1>1. Looks(b, View[b])
  BY ViewLooks, BufAssumption DEF Inv
<1>2. \/ \E i \in Bufs : View[b] = data[i]
      \/ View[b] = disk[b]
  BY <1>1 DEF Looks
<1>3. QED
  BY <1>2 DEF Inv, TypeOK

LEMMA NextViewType == Inv' => View' \in [Blocks -> Data]
<1> SUFFICES ASSUME Inv', NEW b \in Blocks PROVE View'[b] \in Data
  BY DEF View
<1>1. CASE \E i \in Bufs : name'[i] = b /\ ~Unread(b, i)'
  <2>1. (CHOOSE i \in Bufs : name'[i] = b /\ ~Unread(b, i)') \in Bufs
    BY <1>1
  <2>2. QED
    BY <1>1, <2>1 DEF View, Inv, TypeOK
<1>2. CASE ~ \E i \in Bufs : name'[i] = b /\ ~Unread(b, i)'
  BY <1>2 DEF View, Inv, TypeOK
<1>3. QED
  BY <1>1, <1>2

(* A step leaves View[b] alone, or gives it the value v, if what the block *)
(* looks like after the step is that.                                      *)
LEMMA ViewAfter ==
  ASSUME Inv', NEW b \in Blocks
  PROVE  \A v : Looks(b, v)' => View'[b] = v
<1>1. OneBufferPerBlock'
  BY DEF Inv
<1>2. CASE \E i \in Bufs : name'[i] = b /\ ~Unread(b, i)'
  <2>1. PICK i \in Bufs : name'[i] = b /\ ~Unread(b, i)'
    BY <1>2
  <2>2. \A j \in Bufs : name'[j] = b => j = i
    BY <1>1, <2>1, BufAssumption DEF OneBufferPerBlock
  <2>3. (CHOOSE j \in Bufs : name'[j] = b /\ ~Unread(b, j)') = i
    BY <2>1, <2>2
  <2>4. View'[b] = data'[i]
    BY <1>2, <2>3 DEF View
  <2>5. QED
    BY <2>1, <2>4 DEF Looks
<1>3. CASE ~ \E i \in Bufs : name'[i] = b /\ ~Unread(b, i)'
  BY <1>3 DEF Looks, View
<1>4. QED
  BY <1>2, <1>3

(* The oldest buffer is given another name: the blocks that do not have    *)
(* this name look as before, and the disk is changed only to what one of   *)
(* them looks like, unless the device fails.                               *)
LEMMA TakeView ==
  ASSUME Inv, Inv', NEW i \in Bufs, NEW n \in Blocks \cup {NoBlock},
         NEW unread \in SUBSET Blocks, Oldest(i), Flush(i, unread),
         n # NoBlock => Found(n) = {},
         name' = [name EXCEPT ![i] = n], dirty' = [dirty EXCEPT ![i] = FALSE],
         \A j \in Bufs : j # i => data'[j] = data[j],
         \A c \in Blocks : c # n => held'[c] = held[c],
         NEW c \in Blocks, c # n, c \notin suspect'
  PROVE  View'[c] = View[c] /\ disk'[c] \in {disk[c], View[c]}
<1>1. /\ ~busy[i]
      /\ name[i] # NoBlock =>
           /\ held[name[i]] = "none"
           /\ name[i] \notin suspect' => disk'[name[i]] = data[i]
      /\ \A b \in Blocks : b # name[i] => disk'[b] = disk[b]
  BY FlushOne
<1>2. Looks(c, View[c])
  BY ViewLooks, BufAssumption DEF Inv
<1>3. CASE c = name[i]
  <2>1. View[c] = data[i] /\ disk'[c] = data[i]
    BY <1>1, <1>2, <1>3, BufAssumption DEF Looks, Unread
  <2>2. \A j \in Bufs : name'[j] # c
    BY <1>3, BufAssumption DEF Inv, TypeOK, OneBufferPerBlock
  <2>3. \A v : v = disk'[c] => View'[c] = v
    BY <2>2, ViewAfter DEF Looks
  <2>4. QED
    BY <2>1, <2>3
<1>4. CASE c # name[i]
  <2>1. disk'[c] = disk[c]
    BY <1>1, <1>4
  <2>2. \A j \in Bufs : name'[j] = c <=> name[j] = c
    BY <1>4 DEF Inv, TypeOK
  <2>3. ASSUME NEW j \in Bufs, name[j] = c
        PROVE  data'[j] = data[j] /\ (Unread(c, j)' <=> Unread(c, j))
    <3>1. j # i /\ data'[j] = data[j] /\ dirty'[j] = dirty[j] /\ name'[j] = name[j]
      BY <1>4, <2>3 DEF Inv, TypeOK
    <3>2. QED
      BY <3>1 DEF Unread
  <2>4. \A v : v = View[c] => View'[c] = v
    BY <1>2, <2>1, <2>2, <2>3, ViewAfter DEF Looks
  <2>5. QED
    BY <2>1, <2>4
<1>5. QED
  BY <1>3, <1>4

(* bread, zerobuf: what the blocks look like does not change. *)
LEMMA MissView ==
  ASSUME Inv, Inv', NEW b \in Blocks, NEW rewrite \in 0 .. 2,
         BreadMiss(b, rewrite), NEW c \in Blocks, c \notin suspect'
  PROVE  View'[c] = View[c] /\ disk'[c] \in {disk[c], View[c]}
<1>1. PICK i \in Bufs :
        /\ Oldest(i) /\ Flush(i, {})
        /\ name' = [name EXCEPT ![i] = b]
        /\ dirty' = [dirty EXCEPT ![i] = FALSE]
        /\ data' = [data EXCEPT ![i] = NewData(i, b, rewrite)]
  BY DEF BreadMiss
<1>2. held' = [held EXCEPT ![b] = Use(rewrite)] /\ Found(b) = {} /\ name[i] # b
  BY DEF BreadMiss, Found
<1>3. CASE c # b
  <2>1. \A j \in Bufs : j # i => data'[j] = data[j]
    BY <1>1 DEF Inv, TypeOK
  <2>2. \A d \in Blocks : d # b => held'[d] = held[d]
    BY <1>2 DEF Inv, TypeOK
  <2>3. {} \in SUBSET Blocks /\ b \in Blocks \cup {NoBlock}
    OBVIOUS
  <2>4. Oldest(i) /\ Flush(i, {}) /\ (b # NoBlock => Found(b) = {})
    BY <1>1, <1>2
  <2>5. name' = [name EXCEPT ![i] = b] /\ dirty' = [dirty EXCEPT ![i] = FALSE]
    BY <1>1
  <2>6. QED
    BY <1>3, <2>1, <2>2, <2>3, <2>4, <2>5, TakeView
<1>4. CASE c = b
  <2>1. disk'[c] = disk[c]
    BY <1>1, <1>2, <1>4, FlushOne
  <2>2. View[c] = disk[c]
    BY <1>2, <1>4, ViewLooks, BufAssumption DEF Looks, Found, Inv
  <2>3. \A j \in Bufs : name'[j] = c => j = i
    BY <1>1, <1>2, <1>4 DEF Inv, TypeOK, Found
  <2>4. data'[i] = disk'[c] \/ Unread(c, i)'
    <3>1. CASE rewrite = 0
      BY <1>1, <1>4, <3>1 DEF NewData, Inv, TypeOK
    <3>2. CASE rewrite # 0
      BY <1>1, <1>2, <1>4, <3>2 DEF Unread, Use, Inv, TypeOK
    <3>3. QED
      BY <3>1, <3>2
  <2>5. \A v : v = disk'[c] => View'[c] = v
    BY <2>3, <2>4, ViewAfter DEF Looks
  <2>6. QED
    BY <2>1, <2>2, <2>5
<1>5. QED
  BY <1>3, <1>4

LEMMA HitView ==
  ASSUME Inv, Inv', NEW b \in Blocks, NEW rewrite \in 0 .. 2, BreadHit(b, rewrite),
         NEW c \in Blocks, c \notin suspect'
  PROVE  View'[c] = View[c]
<1>1. PICK i \in Bufs : name[i] = b /\ ~busy[i]
  BY DEF BreadHit, Bfind, Found
<1>2. /\ held[b] = "none" /\ held' = [held EXCEPT ![b] = Use(rewrite)]
      /\ UNCHANGED <<disk, name, data, dirty, safe, suspect>>
  BY DEF BreadHit, Wanted
<1>3. Looks(c, View[c])
  BY ViewLooks, BufAssumption DEF Inv
<1>4. CASE c = b
  <2>1. \A j \in Bufs : name[j] = b => j = i
    BY <1>1, BufAssumption DEF Inv, OneBufferPerBlock
  <2>2. View[c] = data[i] /\ (dirty[i] \/ data[i] = disk[c])
    BY <1>1, <1>2, <1>3, <1>4, BufAssumption DEF Looks, Unread, Inv, CleanIsDisk
  <2>3. \A v : v = data[i] => View'[c] = v
    BY <1>1, <1>2, <1>4, <2>1, <2>2, ViewAfter DEF Looks, Unread
  <2>4. QED
    BY <2>2, <2>3
<1>5. CASE c # b
  <2>1. \A j \in Bufs : Unread(c, j)' <=> Unread(c, j)
    BY <1>2, <1>5 DEF Unread, Inv, TypeOK
  <2>2. \A v : v = View[c] => View'[c] = v
    BY <1>2, <1>3, <2>1, ViewAfter DEF Looks
  <2>3. QED
    BY <2>2
<1>6. QED
  BY <1>4, <1>5

LEMMA BrelseView ==
  ASSUME Inv, Inv', NEW b \in Blocks, Brelse(b)
  PROVE  View' = View
<1>1. /\ held[b] = "read" /\ held' = [held EXCEPT ![b] = "none"]
      /\ UNCHANGED <<disk, name, data, dirty>>
  BY DEF Brelse
<1>2. ASSUME NEW c \in Blocks PROVE View'[c] = View[c]
  <2>1. Looks(c, View[c])
    BY ViewLooks, BufAssumption DEF Inv
  <2>2. \A j \in Bufs : Unread(c, j)' <=> Unread(c, j)
    BY <1>1 DEF Unread, Inv, TypeOK
  <2>3. \A v : v = View[c] => View'[c] = v
    BY <1>1, <2>1, <2>2, ViewAfter DEF Looks
  <2>4. QED
    BY <2>3
<1>3. QED
  BY <1>2 DEF View

(* bfree with a dirty flag gives the block its new contents, and with 2    *)
(* the disk has them, unless the device fails.                             *)
LEMMA PutView ==
  ASSUME Inv, Inv', NEW b \in Blocks, NEW v \in Data,
         Bawrite(b, v) \/ BfreeNow(b, v)
  PROVE  /\ View' = [View EXCEPT ![b] = v]
         /\ \A c \in Blocks : c # b => disk'[c] = disk[c]
         /\ disk'[b] = disk[b] \/ disk'[b] = v
         /\ Bawrite(b, v) => suspect' = suspect \ {b}
         /\ BfreeNow(b, v) =>
              /\ suspect' \ {b} = suspect \ {b}
              /\ b \notin suspect' => disk'[b] = v
<1>1. ASSUME BfreeNow(b, v)
      PROVE  /\ disk' = disk \/ disk' = [disk EXCEPT ![b] = v]
             /\ suspect' \ {b} = suspect \ {b}
             /\ b \notin suspect' => disk'[b] = v
  <2>1. PICK i \in Bufs :
          /\ name[i] = b /\ data' = [data EXCEPT ![i] = v] /\ Bdwrite({i}, data')
          /\ suspect' = (suspect \ {b}) \cup Missed({i}, data')
    BY <1>1 DEF BfreeNow
  <2>2. data'[i] = v
    BY <2>1 DEF Inv, TypeOK
  <2>3. /\ disk' = disk \/ disk' = [disk EXCEPT ![name[i]] = data'[i]]
        /\ name[i] \notin Missed({i}, data') => disk'[name[i]] = data'[i]
        /\ Missed({i}, data') \subseteq {name[i]}
    BY <2>1, BdwriteOne, BufAssumption DEF Inv
  <2>4. QED
    BY <2>1, <2>2, <2>3
<1>2. Bawrite(b, v) => disk' = disk /\ suspect' = suspect \ {b}
  BY DEF Bawrite
<1>3. PICK i \in Bufs :
        /\ name[i] = b /\ busy[i] /\ data' = [data EXCEPT ![i] = v]
        /\ \A j \in Bufs : j # i => dirty'[j] = dirty[j]
  BY DEF Bawrite, BfreeNow, Inv, TypeOK
<1>4. held' = [held EXCEPT ![b] = "none"] /\ name' = name /\ b # NoBlock
  BY BufAssumption DEF Bawrite, BfreeNow
<1>5. disk' = disk \/ disk' = [disk EXCEPT ![b] = v]
  BY <1>1, <1>2
<1>6. ASSUME NEW c \in Blocks PROVE View'[c] = IF c = b THEN v ELSE View[c]
  <2>1. Looks(c, View[c])
    BY ViewLooks, BufAssumption DEF Inv
  <2>2. CASE c = b
    <3>1. ~Unread(c, i)' /\ name'[i] = c /\ data'[i] = v
      BY <1>3, <1>4, <2>2 DEF Unread, Inv, TypeOK
    <3>2. \A j \in Bufs : name'[j] = c => j = i
      BY <1>3, <1>4, <2>2 DEF Inv, OneBufferPerBlock
    <3>3. \A w : w = v => View'[c] = w
      BY <3>1, <3>2, ViewAfter DEF Looks
    <3>4. QED
      BY <2>2, <3>3
  <2>3. CASE c # b
    <3>1. \A j \in Bufs : name[j] = c => (Unread(c, j)' <=> Unread(c, j)) /\ data'[j] = data[j]
      BY <1>3, <1>4, <2>3 DEF Unread, Inv, TypeOK
    <3>2. disk'[c] = disk[c]
      BY <1>5, <2>3 DEF Inv, TypeOK
    <3>3. \A w : w = View[c] => View'[c] = w
      BY <1>4, <2>1, <3>1, <3>2, ViewAfter DEF Looks
    <3>4. QED
      BY <2>3, <3>3
  <2>4. QED
    BY <2>2, <2>3
<1>7. View' = [View EXCEPT ![b] = v]
  BY <1>6 DEF View
<1>8. QED
  BY <1>1, <1>2, <1>5, <1>7 DEF Inv, TypeOK

LEMMA ZerobufView ==
  ASSUME Inv, Inv', Zerobuf, NEW c \in Blocks, c \notin suspect'
  PROVE  View'[c] = View[c] /\ disk'[c] \in {disk[c], View[c]}
<1>1. PICK i \in Bufs :
        /\ Oldest(i) /\ Flush(i, {})
        /\ name' = [name EXCEPT ![i] = NoBlock]
        /\ dirty' = [dirty EXCEPT ![i] = FALSE]
        /\ data' = [data EXCEPT ![i] = Zero]
  BY DEF Zerobuf
<1>2. \A j \in Bufs : j # i => data'[j] = data[j]
  BY <1>1 DEF Inv, TypeOK
<1>3. c # NoBlock /\ held' = held
  BY BufAssumption DEF Zerobuf
<1>4. QED
  BY <1>1, <1>2, <1>3, TakeView

LEMMA ErrorView ==
  ASSUME Inv, Inv', NEW b \in Blocks, BreadError(b), NEW c \in Blocks, c \notin suspect'
  PROVE  View'[c] = View[c] /\ disk'[c] \in {disk[c], View[c]}
<1>1. PICK i \in Bufs :
        /\ Oldest(i) /\ Flush(i, {b})
        /\ name' = [name EXCEPT ![i] = b]
        /\ dirty' = [dirty EXCEPT ![i] = FALSE]
  BY DEF BreadError
<1>2. data' = data /\ held' = held /\ Found(b) = {}
  BY DEF BreadError
<1>3. c # b
  BY <1>1 DEF Flush
<1>4. QED
  BY <1>1, <1>2, <1>3, TakeView

LEMMA SyncView ==
  ASSUME Inv, Inv', Bufsync, NEW c \in Blocks, c \notin suspect'
  PROVE  View'[c] = View[c] /\ disk'[c] = View[c]
<1>1. UNCHANGED <<name, data, dirty, held>>
  BY DEF Bufsync, bufVars
<1>2. Looks(c, View[c])
  BY ViewLooks, BufAssumption DEF Inv
<1>3. \A j \in Bufs : Unread(c, j)' <=> Unread(c, j)
  BY <1>1 DEF Unread
<1>4. CASE \E i \in Bufs : name[i] = c /\ ~Unread(c, i)
  <2>1. PICK i \in Bufs : name[i] = c /\ ~Unread(c, i)
    BY <1>4
  <2>2. View[c] = data[i]
    BY <1>2, <2>1 DEF Looks
  <2>3. \A v : v = View[c] => View'[c] = v
    BY <1>1, <1>2, <1>3, <1>4, ViewAfter DEF Looks
  <2>4. disk'[c] = data[i]
    <3>1. CASE dirty[i]
      BY <2>1, <3>1, SyncDisk
    <3>2. CASE ~dirty[i]
      <4>1. c \notin suspect
        BY SyncDisk
      <4>2. data[i] = disk[c]
        BY <2>1, <3>2, <4>1, BufAssumption DEF Inv, CleanIsDisk, Unread
      <4>3. \A j \in Bufs : name[j] = c => ~dirty[j]
        BY <2>1, <3>2, BufAssumption DEF Inv, OneBufferPerBlock
      <4>4. QED
        BY <4>2, <4>3, SyncDisk
    <3>3. QED
      BY <3>1, <3>2
  <2>5. QED
    BY <2>2, <2>3, <2>4
<1>5. CASE \A i \in Bufs : name[i] = c => Unread(c, i)
  <2>1. View[c] = disk[c]
    BY <1>2, <1>5 DEF Looks
  <2>2. disk'[c] = disk[c]
    BY <1>5, SyncDisk DEF Unread
  <2>3. \A v : v = disk'[c] => View'[c] = v
    BY <1>1, <1>3, <1>5, ViewAfter DEF Looks
  <2>4. QED
    BY <2>1, <2>2, <2>3
<1>6. QED
  BY <1>4, <1>5

LEMMA CrashView ==
  ASSUME Inv', Crash
  PROVE  View' = disk
<1>1. \A i \in Bufs : name'[i] = NoBlock
  BY DEF Crash
<1>2. disk' = disk /\ disk' \in [Blocks -> Data]
  BY DEF Crash, Inv, TypeOK
<1>3. ASSUME NEW c \in Blocks PROVE View'[c] = disk[c]
  BY <1>1, <1>2, BufAssumption DEF View
<1>4. QED
  BY <1>2, <1>3 DEF View

LEMMA InitView == Init => View = disk
<1>1. ASSUME Init, NEW b \in Blocks PROVE View[b] = disk[b]
  BY <1>1, BufAssumption DEF Init, Bufinit, View
<1>2. QED
  BY <1>1 DEF Init, View

(* What bfree(bp, 2) and bufsync reported written is on the disk, unless   *)
(* the device failed.                                                      *)
LEMMA SafeStep ==
  ASSUME Inv, Inv', SafeOnDisk, [Next]_vars
  PROVE  SafeOnDisk'
<1> SUFFICES ASSUME NEW c \in Blocks, c \in safe', c \notin suspect'
             PROVE  disk'[c] = View'[c]
  BY DEF SafeOnDisk, Inv, TypeOK
<1>1. CASE \E b \in Blocks, rewrite \in 0 .. 2 : BreadHit(b, rewrite)
  BY <1>1, HitView DEF BreadHit, SafeOnDisk
<1>2. CASE \E b \in Blocks, rewrite \in 0 .. 2 : BreadMiss(b, rewrite)
  <2>1. PICK b \in Blocks, rewrite \in 0 .. 2 : BreadMiss(b, rewrite)
    BY <1>2
  <2>2. c \in safe \ suspect
    BY <2>1 DEF BreadMiss, Flush
  <2>3. QED
    BY <2>1, <2>2, MissView DEF SafeOnDisk
<1>3. CASE \E b \in Blocks : BreadError(b)
  <2>1. PICK b \in Blocks : BreadError(b)
    BY <1>3
  <2>2. c \in safe \ suspect
    BY <2>1 DEF BreadError, Flush
  <2>3. QED
    BY <2>1, <2>2, ErrorView DEF SafeOnDisk
<1>4. CASE \E b \in Blocks : Brelse(b)
  BY <1>4, BrelseView DEF Brelse, SafeOnDisk
<1>5. CASE \E b \in Blocks, v \in Data : Bawrite(b, v) \/ BfreeNow(b, v)
  <2>1. PICK b \in Blocks, v \in Data : Bawrite(b, v) \/ BfreeNow(b, v)
    BY <1>5
  <2>2. View \in [Blocks -> Data]
    BY ViewType
  <2>3. CASE c = b
    <3>1. ~Bawrite(b, v)
      BY <2>3 DEF Bawrite
    <3>2. QED
      BY <2>1, <2>2, <2>3, <3>1, PutView
  <2>4. CASE c # b
    <3>1. safe' \subseteq safe \cup {b}
      BY <2>1 DEF Bawrite, BfreeNow
    <3>2. suspect' \ {b} = suspect \ {b}
      BY <2>1, PutView
    <3>3. c \in safe \ suspect
      BY <2>4, <3>1, <3>2
    <3>4. QED
      BY <2>1, <2>2, <2>4, <3>3, PutView DEF SafeOnDisk
  <2>5. QED
    BY <2>3, <2>4
<1>6. CASE Zerobuf
  <2>1. c \in safe \ suspect
    BY <1>6 DEF Zerobuf, Flush
  <2>2. QED
    BY <1>6, <2>1, ZerobufView DEF SafeOnDisk
<1>7. CASE Bufsync
  BY <1>7, SyncView
<1>8. CASE Crash
  BY <1>8, CrashView DEF Crash
<1>9. CASE UNCHANGED vars
  <2>1. View' = View
    BY <1>9 DEF vars, bufVars, View, Unread
  <2>2. QED
    BY <1>9, <2>1 DEF vars, SafeOnDisk
<1>10. QED
  BY <1>1, <1>2, <1>3, <1>4, <1>5, <1>6, <1>7, <1>8, <1>9 DEF Next

(* What bfree(bp, 2) wrote, or bufsync found dirty, and nobody changed     *)
(* since, is on the disk, unless the device failed for its very block: a   *)
(* crash loses none of it.                                                 *)
THEOREM SafeBlocks ==
  Spec => []SafeOnDisk
<1>1. Init => SafeOnDisk
  BY InitView DEF Init, SafeOnDisk
<1>2. Inv /\ [Next]_vars => Inv'
  BY StepInv
<1>3. Inv /\ Inv' /\ SafeOnDisk /\ [Next]_vars => SafeOnDisk'
  BY SafeStep
<1>4. QED
  BY <1>1, <1>2, <1>3, InitInv, PTL DEF Spec

(* Every step of the pool is one that BlockStore allows its callers. *)
LEMMA StepRefines ==
  ASSUME Inv, Inv', SafeOnDisk, SafeOnDisk', [Next]_vars
  PROVE  [Promise!Next]_(Promise!vars)
<1> USE DEF Inv
<1>1. View \in [Blocks -> Data] /\ View' \in [Blocks -> Data] /\ disk' \in [Blocks -> Data]
  BY ViewType, NextViewType DEF TypeOK
<1>2. \A b \in safe' \ suspect' : disk'[b] = View'[b]
  BY DEF SafeOnDisk
<1>3. ASSUME \A c \in Blocks \ suspect' : View'[c] = View[c] /\ disk'[c] \in {disk[c], View[c]}
      PROVE  /\ Promise!Shows(View)
             /\ \A c \in Blocks \ suspect' : disk'[c] \in {disk[c], View'[c]}
  BY <1>3 DEF Promise!Shows
<1>4. ASSUME NEW b \in Blocks, NEW rewrite \in 0 .. 2,
             BreadHit(b, rewrite) \/ BreadMiss(b, rewrite)
      PROVE  Promise!Write
  <2>1. /\ \A c \in Blocks \ suspect' : View'[c] = View[c] /\ disk'[c] \in {disk[c], View[c]}
        /\ suspect \subseteq suspect'
        /\ safe' = safe /\ Wanted(b) /\ held' = [held EXCEPT ![b] = Use(rewrite)]
    <3>1. CASE BreadHit(b, rewrite)
      BY <3>1, HitView DEF BreadHit
    <3>2. CASE BreadMiss(b, rewrite)
      BY <3>2, MissView DEF BreadMiss, Flush
    <3>3. QED
      BY <1>4, <3>1, <3>2
  <2>2. Use(rewrite) \in Promise!Uses \ {"none"}
    BY DEF Use, Promise!Uses
  <2>3. Promise!Get(b, Use(rewrite))
    BY <1>3, <2>1 DEF Promise!Get, Promise!Free, Wanted
  <2>4. QED
    BY <1>1, <1>2, <1>3, <2>1, <2>2, <2>3 DEF Promise!Write
<1>5. ASSUME NEW b \in Blocks, Brelse(b)
      PROVE  Promise!Write
  <2>1. View' = View /\ disk' = disk
    BY <1>5, BrelseView DEF Brelse
  <2>2. Promise!PutBack(b)
    BY <1>5, <2>1 DEF Brelse, Promise!PutBack, Promise!Shows
  <2>3. QED
    BY <1>1, <1>2, <2>1, <2>2 DEF Promise!Write
<1>6. ASSUME NEW b \in Blocks, NEW v \in Data, Bawrite(b, v) \/ BfreeNow(b, v)
      PROVE  Promise!Write
  <2>1. /\ View' = [View EXCEPT ![b] = v]
        /\ \A c \in Blocks : c # b => disk'[c] = disk[c]
        /\ disk'[b] = disk[b] \/ disk'[b] = v
        /\ Bawrite(b, v) => suspect' = suspect \ {b}
        /\ BfreeNow(b, v) => suspect' \ {b} = suspect \ {b}
    BY <1>6, PutView
  <2>2. Promise!Put(b, v, TRUE) \/ Promise!Put(b, v, FALSE)
    <3>1. CASE Bawrite(b, v)
      <4>1. suspect' \ {} = suspect \ {b}
        BY <2>1, <3>1
      <4>2. QED
        BY <2>1, <3>1, <4>1 DEF Bawrite, Promise!Put, Promise!Free, Promise!Shows
    <3>2. CASE BfreeNow(b, v)
      BY <2>1, <3>2 DEF BfreeNow, Promise!Put, Promise!Free, Promise!Shows
    <3>3. QED
      BY <1>6, <3>1, <3>2
  <2>3. \A c \in Blocks : disk'[c] \in {disk[c], View'[c]}
    BY <1>1, <2>1
  <2>4. QED
    BY <1>1, <1>2, <2>2, <2>3 DEF Promise!Write
<1>7. CASE Zerobuf
  <2>1. /\ \A c \in Blocks \ suspect' : View'[c] = View[c] /\ disk'[c] \in {disk[c], View[c]}
        /\ suspect \subseteq suspect' /\ UNCHANGED <<held, safe>>
    BY <1>7, ZerobufView DEF Zerobuf, Flush
  <2>2. Promise!Nothing
    BY <1>3, <2>1 DEF Promise!Nothing
  <2>3. QED
    BY <1>1, <1>2, <1>3, <2>1, <2>2 DEF Promise!Write, Promise!Next
<1>8. CASE Bufsync
  <2>1. /\ \A c \in Blocks \ suspect' : View'[c] = View[c] /\ disk'[c] \in {disk[c], View[c]}
        /\ suspect \subseteq suspect' /\ held' = held /\ safe' = Blocks
    BY <1>8, SyncView DEF Bufsync
  <2>2. Promise!Sync
    BY <1>3, <2>1 DEF Promise!Sync
  <2>3. QED
    BY <1>1, <1>2, <1>3, <2>1, <2>2 DEF Promise!Write, Promise!Next
<1>9. CASE Crash
  BY <1>9, CrashView DEF Crash, Promise!Crash, Promise!Next
<1>10. CASE UNCHANGED vars
  BY <1>10 DEF vars, bufVars, View, Unread, Promise!vars
<1>11. ASSUME NEW b \in Blocks, BreadError(b)
       PROVE  Promise!Write
  <2>1. /\ \A c \in Blocks \ suspect' : View'[c] = View[c] /\ disk'[c] \in {disk[c], View[c]}
        /\ suspect \subseteq suspect' /\ UNCHANGED <<held, safe>>
    BY <1>11, ErrorView DEF BreadError, Flush
  <2>2. Promise!Nothing
    BY <1>3, <2>1 DEF Promise!Nothing
  <2>3. QED
    BY <1>1, <1>2, <1>3, <2>1, <2>2 DEF Promise!Write
<1>12. QED
  BY <1>4, <1>5, <1>6, <1>7, <1>8, <1>9, <1>10, <1>11, BufAssumption
  DEF Next, Promise!Next

(* The buffer pool does what devio.c's comment promises: blocks are seen   *)
(* with their last contents, and the disk follows as promised, except      *)
(* blocks for which the device failed, until they have new contents.       *)
THEOREM Implementation ==
  Spec => Implements
<1>1. Init => Promise!Init
  BY InitView DEF Init, Promise!Init
<1>2. Init => SafeOnDisk
  BY InitView DEF Init, SafeOnDisk
<1>3. Inv /\ [Next]_vars => Inv'
  BY StepInv
<1>4. Inv /\ Inv' /\ SafeOnDisk /\ [Next]_vars => SafeOnDisk'
  BY SafeStep
<1>5. Inv /\ Inv' /\ SafeOnDisk /\ SafeOnDisk' /\ [Next]_vars
        => [Promise!Next]_(Promise!vars)
  BY StepRefines
<1>6. QED
  BY <1>1, <1>2, <1>3, <1>4, <1>5, InitInv, PTL DEF Spec, Implements, Promise!Spec
=============================================================================
