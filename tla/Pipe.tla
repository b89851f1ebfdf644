-------------------------------- MODULE Pipe --------------------------------
(***************************************************************************)
(* A pipe: the F_PIPE parts of readi and writei (kernel/scall1.c), with    *)
(* psleep and wakeup (kernel/process.c) and the last close of an end       *)
(* (oft_deref and i_deref of fs/filesys.c).  A process has its place in    *)
(* the pipe from the open file entry before it sleeps, and puts it back    *)
(* when the call is done.  A process runs until it sleeps or its call      *)
(* returns: the blocks of one call are moved without another process.      *)
(***************************************************************************)
EXTENDS Integers, FiniteSets, FiniteSetsExt

CONSTANTS
  Readers, Writers, \* the processes that share each end
  BS,        \* 512
  RING,      \* 18, the direct blocks of the inode
  CAPACITY,  \* 16, the blocks that may be full
  MaxCount,  \* bound: the bytes of a call
  MaxBytes   \* bound: the bytes that the writers write in all; they are numbered

Procs == Readers \cup Writers
Cells == 0 .. RING * BS - 1
Room == CAPACITY * BS

ASSUME PipeAssumption ==
  /\ Readers # {} /\ Writers # {} /\ Readers \cap Writers = {}
  /\ IsFiniteSet(Procs)
  /\ BS \in Nat \ {0} /\ CAPACITY \in Nat \ {0} /\ RING \in Nat /\ CAPACITY < RING
  /\ MaxCount \in Nat /\ MaxBytes \in Nat

VARIABLES
  size,      \* psize of the inode
  cell,      \* the bytes of its blocks
  blocks,    \* the blocks it has
  freeBlks,  \* the blocks the disk has left
  ptr,       \* o_ptr of the two open file entries
  holders,   \* the processes that have each end open
  state,     \* of each process: out of a call, about to run, or asleep
  count,     \* u_count
  offset,    \* u_offset
  sent, taken, \* how many bytes were written and read: history variables
  order,     \* the bytes were read as they were written: history
  stale      \* an end was moved by another while a process slept on it: history

pipeVars == <<size, cell, blocks, freeBlks, ptr, holders, state, count, offset,
          sent, taken, order, stale>>

Ends == {"read", "write"}
End(p) == IF p \in Readers THEN "read" ELSE "write"
States == {"user", "ready", "asleep"}

PipeTypeOK ==
  /\ size \in 0 .. Room
  /\ cell \in [Cells -> Nat]
  /\ blocks \subseteq 0 .. RING - 1
  /\ freeBlks \in 0 .. RING
  /\ ptr \in [Ends -> Cells]
  /\ holders \in [Ends -> SUBSET Procs]
  /\ state \in [Procs -> States]
  /\ count \in [Procs -> 0 .. MaxCount]
  /\ offset \in [Procs -> Cells]
  /\ sent \in Nat /\ taken \in Nat
  /\ order \in BOOLEAN /\ stale \in BOOLEAN

(* pipe and the forks and closes that leave each process with one end.     *)
PipeInit ==
  /\ size = 0
  /\ cell = [c \in Cells |-> 0]
  /\ blocks = {}
  /\ freeBlks \in {1, RING}
  /\ ptr = [e \in Ends |-> 0]
  /\ holders = [e \in Ends |-> IF e = "read" THEN Readers ELSE Writers]
  /\ state = [p \in Procs |-> "user"]
  /\ count = [p \in Procs |-> 0]
  /\ offset = [p \in Procs |-> 0]
  /\ sent = 0 /\ taken = 0
  /\ order = TRUE /\ stale = FALSE

-----------------------------------------------------------------------------

Open(e) == holders[e] # {}
\* c_refs: an end counts once, whoever shares it.
Refs == Cardinality({e \in Ends : Open(e)})
Shorter(a, b) == IF a < b THEN a ELSE b
After(place, n) == (place + n) % (RING * BS)
Run(place, n) == {After(place, i) : i \in 0 .. n - 1}

\* Bug: only one of the processes that sleep on the inode is woken.
BugPipeWakeup(s) ==
  LET sleepers == {p \in Procs : s[p] = "asleep"} IN
  IF sleepers = {} THEN s ELSE [s EXCEPT ![CHOOSE p \in sleepers : TRUE] = "ready"]
PipeWakeup(s) == [p \in Procs |-> IF s[p] = "asleep" THEN "ready" ELSE s[p]]

(* A call of process p for n bytes, at the place that rwsetup took from    *)
(* the open file entry: it goes on until it sleeps or returns.             *)
Sleep(p, n, place) ==
  /\ state' = [state EXCEPT ![p] = "asleep"]
  /\ count' = [count EXCEPT ![p] = n]
  /\ offset' = [offset EXCEPT ![p] = place]
  /\ UNCHANGED <<size, cell, blocks, freeBlks, ptr, holders, sent, taken, order, stale>>

(* updoff, after m bytes.  Nobody looks at u_count and u_offset any more.  *)
Return(p, place, m) ==
  /\ ptr' = [ptr EXCEPT ![End(p)] = After(place, m)]
  /\ stale' = (stale \/ place # ptr[End(p)])
  /\ count' = [count EXCEPT ![p] = 0]
  /\ offset' = [offset EXCEPT ![p] = 0]
  /\ UNCHANGED holders

-----------------------------------------------------------------------------
(* readi *)

ReadWaits == size = 0 /\ Refs > 1

ReadSleep(p, n, place) ==
  /\ p \in Readers /\ ReadWaits
  /\ Sleep(p, n, place)

ReadWakes(s) == PipeWakeup(s)
\* Bug: the reader gets all it asked for.
BugAmount(n) == n
Amount(n) == Shorter(n, size)
ReadBytes(p, n, place) ==
  /\ p \in Readers /\ ~ReadWaits
  /\ \E m \in {Amount(n)} :
       /\ taken' = taken + m
       /\ order' = (order /\ \A i \in 1 .. m : cell[After(place, i - 1)] = taken + i)
       /\ size' = size - m
       /\ state' = [(IF m > 0 THEN ReadWakes(state) ELSE state) EXCEPT ![p] = "user"]
       /\ Return(p, place, m)
  /\ UNCHANGED <<cell, blocks, freeBlks, sent>>

-----------------------------------------------------------------------------
(* writei *)

\* Bug: there is room until the pipe is full.
BugWriteWaits(n) == size >= Room
WriteWaits(n) == n > Room - size

WriteSleep(p, n, place) ==
  /\ p \in Writers /\ WriteWaits(n) /\ Refs > 1
  /\ Sleep(p, n, place)

(* No readers: EPIPE.  SIGPIPE is for Process; updoff puts back the place  *)
(* that rwsetup took.                                                      *)
NoReaders(p, n, place) ==
  /\ p \in Writers /\ WriteWaits(n) /\ Refs = 1
  /\ state' = [state EXCEPT ![p] = "user"]
  /\ Return(p, place, 0)
  /\ UNCHANGED <<size, cell, blocks, freeBlks, sent, taken, order>>

(* How many of n bytes can be stored: bmap has no block for the rest.      *)
NewBlocks(place, n) == {c \div BS : c \in Run(place, n)} \ blocks
Fits(place, n) == Cardinality(NewBlocks(place, n)) <= freeBlks
Stored(place, n) ==
  {m \in 0 .. n : Fits(place, m) /\ \A k \in m + 1 .. n : ~Fits(place, k)}

WriteBytes(p, n, place) ==
  /\ p \in Writers /\ ~WriteWaits(n)
  /\ \E m \in Stored(place, n) :
       /\ sent' = sent + m
       /\ cell' = [c \in Cells |->
                     IF c \in Run(place, m)
                     THEN sent + 1 + ((c - place) % (RING * BS)) ELSE cell[c]]
       /\ blocks' = blocks \cup NewBlocks(place, m)
       /\ freeBlks' = freeBlks - Cardinality(NewBlocks(place, m))
       /\ size' = size + m
       /\ state' = [(IF m > 0 THEN PipeWakeup(state) ELSE state) EXCEPT ![p] = "user"]
       /\ Return(p, place, m)
  /\ UNCHANGED <<taken, order>>

Go(p, n, place) ==
  \/ ReadSleep(p, n, place) \/ ReadBytes(p, n, place)
  \/ WriteSleep(p, n, place) \/ NoReaders(p, n, place) \/ WriteBytes(p, n, place)

-----------------------------------------------------------------------------

(* bound: no call once the writers may have written MaxBytes, or the order *)
(* is lost *)
InCall(e) == {p \in Procs : End(p) = e /\ state[p] # "user"}
Asked == MapThenSumSet(LAMBDA p : count[p], InCall("write"))
Begin(p) ==
  /\ state[p] = "user" /\ p \in holders[End(p)]
  /\ \E n \in 0 .. MaxCount :
       /\ ~stale
       /\ p \in Writers => sent + Asked + n <= MaxBytes
       /\ Go(p, n, ptr[End(p)])

Proceed(p) == state[p] = "ready" /\ Go(p, count[p], offset[p])

(* ssig makes a sleeper ready, whatever it sleeps on.                      *)
PipeSignal(p) ==
  /\ state[p] = "asleep"
  /\ state' = [state EXCEPT ![p] = "ready"]
  /\ UNCHANGED <<size, cell, blocks, freeBlks, ptr, holders, count, offset,
                 sent, taken, order, stale>>

(* close, or exit.  The last holder of an end dereferences the inode,      *)
(* which wakes those who sleep on it.                                      *)
\* Bug: it does not.
BugCloseWakes(s) == s
CloseWakes(s) == PipeWakeup(s)
Leave(p) ==
  /\ p \in holders[End(p)]
  /\ holders' = [holders EXCEPT ![End(p)] = @ \ {p}]
  /\ state' = [(IF holders[End(p)] = {p} THEN CloseWakes(state) ELSE state) EXCEPT ![p] = "user"]
  /\ count' = [count EXCEPT ![p] = 0]
  /\ offset' = [offset EXCEPT ![p] = 0]
  /\ UNCHANGED <<size, cell, blocks, freeBlks, ptr, sent, taken, order, stale>>
Close(p) == state[p] = "user" /\ Leave(p)

(* A process that was killed in its sleep runs, is about to sleep again,   *)
(* and exits in swapout.                                                   *)
Waits(p) == IF p \in Readers THEN ReadWaits ELSE WriteWaits(count[p]) /\ Refs > 1
DieAsleep(p) == state[p] = "ready" /\ Waits(p) /\ Leave(p)

PipeNext == \E p \in Procs : Begin(p) \/ Proceed(p) \/ PipeSignal(p) \/ Close(p) \/ DieAsleep(p)

(* The scheduler gets to every process that is ready (Process). *)
PipeSpec == PipeInit /\ [][PipeNext]_pipeVars /\ \A p \in Procs : WF_pipeVars(Proceed(p))

-----------------------------------------------------------------------------
(* Properties *)

(* As long as no process moved an end on which another slept, each byte is *)
(* read once and in the order of writing, around the ring, past a full     *)
(* disk, and whatever order the processes run in.  A process that wakes up *)
(* after another has read or written goes on from the place it had before. *)
Fifo == ~stale => order /\ size = sent - taken

(* No wakeup is lost: who sleeps has a reason to.                          *)
NobodyForgotten ==
  \A p \in Procs :
    state[p] = "asleep" => Waits(p)

(* Once the last holder of the other end has closed it, every call that    *)
(* is in progress on this end returns: a reader with the bytes that are    *)
(* left or none, a writer with EPIPE or what fits.  A process that sleeps  *)
(* at the close has to be woken by it, has to get the processor, and must  *)
(* not go back to sleep, though others of its end have read or written     *)
(* before it.                                                              *)
EndIsSeen ==
  \A p \in Procs :
    (state[p] # "user" /\ Refs = 1) ~> state[p] = "user"

=============================================================================
