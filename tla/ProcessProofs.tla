--------------------------- MODULE ProcessProofs ---------------------------
(***************************************************************************)
(* Theorems about the process table, for any number of slots, pids,        *)
(* signals and events: type correctness, the uniqueness of the running     *)
(* process, that pids identify processes, for kill too, and that sleepers  *)
(* and children are not forgotten; and, at the end, about pipes: type      *)
(* correctness, that no wakeup is lost, and that the bytes come out as     *)
(* they went in, for any number of readers and writers, any size of block  *)
(* and of ring.                                                            *)
(***************************************************************************)
EXTENDS Process, Pipe, FiniteSetTheorems, WellFoundedInduction, TLAPS

(* The first element of a nonempty set of natural numbers is in the set    *)
(* and below the others: the search loops over ptab stop at it.            *)
LEMMA LessWellFounded == IsWellFoundedOn({ss \in Nat \X Nat : ss[1] < ss[2]}, Nat)
  BY NatLessThanWellFounded DEF OpToRel

LEMMA FirstOf ==
  ASSUME NEW S \in SUBSET Nat, S # {}
  PROVE  First(S) \in S /\ \A y \in S : First(S) <= y
<1> DEFINE Less == {ss \in Nat \X Nat : ss[1] < ss[2]}
<1>1. PICK x \in S : \A y \in S : ~ (<<y, x>> \in Less)
  <2> HIDE DEF Less
  <2>1. IsWellFoundedOn(Less, Nat)
    BY LessWellFounded DEF Less
  <2>2. QED
    BY WFMin, <2>1
<1>2. \A y \in S : x <= y
  <2>1. TAKE y \in S
  <2>2. x \in Nat /\ y \in Nat /\ (y < x => <<y, x>> \in Less)
    OBVIOUS
  <2>3. QED
    BY <2>2, <1>1
<1>3. QED
  BY <1>2 DEF First

LEMMA SlotsType == Slots \subseteq Nat /\ InitProc \in Slots /\ M \in Nat /\ 1 <= M
  BY ProcAssumption DEF Slots, InitProc, M

(* ptab_alloc's search for a pid ends: with a free slot there are fewer    *)
(* pids in use than pids, so one of the next M candidates is not in use.   *)
LEMMA PidAvailable ==
  ASSUME TypeOK, FreeSlots # {}
  PROVE  NewPid \in 1 .. M /\ NewPid \notin UsedPids
<1> DEFINE Live == {t \in Slots : status[t] # "EMPTY"}
           S == {k \in 1 .. M : PidAfter(k) \notin UsedPids}
<1>1. IsFiniteSet(Slots) /\ Cardinality(Slots) = NPROC
  BY FS_Interval, ProcAssumption DEF Slots
<1>2. PICK p \in Slots : status[p] = "EMPTY"
  BY DEF FreeSlots
<1>3. IsFiniteSet(Slots \ {p}) /\ Cardinality(Slots \ {p}) = NPROC - 1
  BY <1>1, <1>2, FS_RemoveElement
<1>4. IsFiniteSet(Live) /\ Cardinality(Live) <= NPROC - 1
  <2>1. Live \in SUBSET (Slots \ {p})
    BY <1>2
  <2>2. QED
    BY <2>1, <1>3, FS_Subset
<1>5. IsFiniteSet(UsedPids) /\ Cardinality(UsedPids) <= Cardinality(Live)
  <2> DEFINE pidOf == [s \in Live |-> pid[s]]
  <2>1. pidOf \in [Live -> UsedPids] /\ \A v \in UsedPids : \E s \in Live : pidOf[s] = v
    BY DEF UsedPids
  <2>2. pidOf \in Surjection(Live, UsedPids)
    BY <2>1 DEF Surjection
  <2>3. QED
    BY <2>2, <1>4, FS_Surjection
<1>6. IsFiniteSet(1 .. M) /\ Cardinality(1 .. M) = M
  BY FS_Interval, SlotsType
<1>7. \E v \in 1 .. M : v \notin UsedPids
  <2>1. SUFFICES ASSUME (1 .. M) \subseteq UsedPids PROVE FALSE
    OBVIOUS
  <2>2. M <= Cardinality(UsedPids)
    <3>1. (1 .. M) \in SUBSET UsedPids
      BY <2>1
    <3>2. Cardinality(1 .. M) <= Cardinality(UsedPids)
      BY <3>1, <1>5, FS_Subset
    <3>3. QED
      BY <3>2, <1>6
  <2>3. Cardinality(UsedPids) \in Nat /\ Cardinality(Live) \in Nat
    BY <1>4, <1>5, FS_CardinalityType
  <2>4. QED
    BY <2>2, <2>3, <1>4, <1>5, ProcAssumption DEF M
<1>8. S # {}
  <2>1. PICK v \in 1 .. M : v \notin UsedPids
    BY <1>7
  <2>2. nextpid \in 0 .. M
    BY DEF TypeOK
  <2>3. CASE v > nextpid
    <3>1. v - nextpid \in 1 .. M /\ PidAfter(v - nextpid) = v
      BY <2>2, <2>3, SlotsType DEF PidAfter
    <3>2. QED
      BY <3>1, <2>1
  <2>4. CASE v <= nextpid
    <3>1. v - nextpid + M \in 1 .. M /\ PidAfter(v - nextpid + M) = v
      BY <2>2, <2>4, SlotsType DEF PidAfter
    <3>2. QED
      BY <3>1, <2>1
  <2>5. QED
    BY <2>2, <2>3, <2>4, SlotsType
<1>9. First(S) \in S
  <2>1. S \in SUBSET Nat
    BY SlotsType
  <2>2. QED
    BY <2>1, <1>8, FirstOf
<1>10. PidAfter(First(S)) \in 1 .. M
  BY <1>9, SlotsType DEF PidAfter, TypeOK
<1>11. QED
  BY <1>9, <1>10 DEF NewPid

-----------------------------------------------------------------------------
(* Type correctness *)

(* calltrap's static names a signal while its vector is fetched and called. *)
TrapSig == kpc[cur] \in {"trap1", "trap2"} => tsig \in Sigs
(* No alarm is ever set when SIGALRM is not among the signals in use.      *)
NoAlarm == ALRM \in Sigs \/ \A s \in Slots : alarm[s] = 0
TypeInv == TypeOK /\ TrapSig /\ NoAlarm

LEMMA SsigType ==
  ASSUME TypeOK, NEW sigs \in [Slots -> SUBSET Sigs], Ssig(sigs)
  PROVE  /\ status' \in [Slots -> Statuses]
         /\ wait' \in [Slots -> Slots \cup Events \cup {Null, Utime}]
         /\ pending' \in [Slots -> SUBSET Sigs]
  BY DEF TypeOK, Ssig, Sent, Statuses

LEMMA ChksigsType ==
  ASSUME TypeOK, ChksigsReturns
  PROVE  cursig' \in [Slots -> Sigs \cup {0}] /\ pending' \in [Slots -> SUBSET Sigs]
<1>1. CASE Caught
  <2>0. pending[cur] \in SUBSET Sigs /\ Sigs \in SUBSET Nat
    BY ProcAssumption DEF TypeOK
  <2>1. Heeded # {} /\ Heeded \in SUBSET Sigs /\ Heeded \in SUBSET Nat
    BY <1>1, <2>0 DEF Caught, Heeded
  <2>2. First(Heeded) \in Sigs
    BY <2>1, FirstOf
  <2>3. QED
    BY <1>1, <2>2 DEF ChksigsReturns, ClearPending, TypeOK
<1>2. CASE ~Caught
  BY <1>2 DEF ChksigsReturns, TypeOK
<1>3. QED
  BY <1>1, <1>2

LEMMA TypeStep ==
  ASSUME TypeInv, [Next]_vars
  PROVE  TypeInv'
<1> USE SlotsType DEF TypeInv, TrapSig, NoAlarm, ptabVars, sigVars, schedVars, trapVars
<1>1. CASE Fork
  <2>1. CASE FreeSlots = {}
    BY <1>1, <2>1 DEF Fork, Goto, At, TypeOK, Places
  <2>2. CASE FreeSlots # {}
    <3>1. FreeSlot \in Slots /\ NewPid \in 1 .. M
      BY <2>2, FirstOf, PidAvailable DEF FreeSlot, FreeSlots
    <3>2. /\ status' = [status EXCEPT ![FreeSlot] = "FORKING", ![cur] = "READY"]
          /\ pid' = [pid EXCEPT ![FreeSlot] = NewPid]
          /\ nextpid' = NewPid
          /\ pptr' = [pptr EXCEPT ![FreeSlot] = Null]
          /\ alarm' = [alarm EXCEPT ![FreeSlot] = 0]
          /\ wait' = [wait EXCEPT ![FreeSlot] = Null]
          /\ pending' = [pending EXCEPT ![FreeSlot] = {}]
          /\ ignored' = [ignored EXCEPT ![FreeSlot] = {}]
          /\ kpc' = [kpc EXCEPT ![cur] = "fork"]
          /\ UNCHANGED <<back, ev, sigVars, cur, pp, trapVars>>
      BY <1>1, <2>2 DEF Fork, Goto
    <3>3. alarm' \in [Slots -> 0 .. MaxAlarm]
      BY <3>1, <3>2, ProcAssumption DEF TypeOK
    <3>4. QED
      BY <3>1, <3>2, <3>3 DEF TypeOK, Places, Statuses
  <2>3. QED
    BY <2>1, <2>2
<1>2. CASE Newproc
  BY <1>2 DEF Newproc, At, TypeOK, Places, Statuses
<1>3. CASE Exit \/ Die
  <2>1. Doexit
    BY <1>3 DEF Exit, Die
  <2>2. QED
    BY <2>1 DEF Doexit, Goto, TypeOK, Places, Statuses, Utime
<1>4. CASE BecomeZombie
  BY <1>4 DEF BecomeZombie, Goto, TypeOK, Places, Statuses, NoHandlers, Actions
<1>5. CASE Wait \/ PauseCall \/ OtherCall
  BY <1>5 DEF Wait, PauseCall, OtherCall, Goto, At, TypeOK, Places
<1>6. CASE WaitChksigs \/ Swapout \/ UnixReturn
  <2>1. cursig' \in [Slots -> Sigs \cup {0}] /\ pending' \in [Slots -> SUBSET Sigs]
    BY <1>6, ChksigsType DEF WaitChksigs, Swapout, UnixReturn
  <2>2. QED
    BY <1>6, <2>1 DEF WaitChksigs, Swapout, UnixReturn, Goto, TypeOK, Places
<1>7. CASE WaitScan
  BY <1>7 DEF WaitScan, Psleep, Goto, TypeOK, Places, Statuses
<1>8. CASE PauseSleep \/ IoSleep
  BY <1>8 DEF PauseSleep, IoSleep, Psleep, Goto, TypeOK, Places, Statuses
<1>9. CASE IoCall \/ IoCheck
  BY <1>9 DEF IoCall, IoCheck, Goto, TypeOK, Places, Null
<1>10. CASE IoWakeup
  BY <1>10 DEF IoWakeup, Wakeup, Goto, TypeOK, Places, Statuses
<1>11. CASE BrokenPipe
  <2>1. status' \in [Slots -> Statuses]
        /\ wait' \in [Slots -> Slots \cup Events \cup {Null, Utime}]
        /\ pending' \in [Slots -> SUBSET Sigs]
    BY <1>11, SsigType DEF BrokenPipe, PIPE
  <2>2. QED
    BY <1>11, <2>1 DEF BrokenPipe, Goto, TypeOK, Places
<1>12. CASE Signal
  BY <1>12 DEF Signal, Settable, Goto, TypeOK, Places, Actions
<1>13. CASE Kill
  <2>1. PICK j \in Sigs, n \in {pid[s] : s \in Slots} :
          Ssig([s \in Slots |-> IF s = Target(n) THEN {j} ELSE {}])
    BY <1>13 DEF Kill
  <2>2. status' \in [Slots -> Statuses]
        /\ wait' \in [Slots -> Slots \cup Events \cup {Null, Utime}]
        /\ pending' \in [Slots -> SUBSET Sigs]
    BY <2>1, SsigType
  <2>3. QED
    BY <1>13, <2>2 DEF Kill, Goto, TypeOK, Places
<1>14. CASE Alarm
  BY <1>14 DEF Alarm, Goto, TypeOK, Places
<1>15. CASE Execve
  BY <1>15 DEF Execve, At, TypeOK, Actions
<1>16. CASE Getproc
  <2>1. NextSlot \in Slots
    BY ProcAssumption DEF NextSlot, TypeOK, Slots
  <2>2. QED
    BY <1>16, <2>1 DEF Getproc, At, TypeOK, Places, Statuses
<1>17. CASE CalltrapTest
  BY <1>17 DEF CalltrapTest, At, Goto, TypeOK, Places
<1>18. CASE CalltrapVector
  BY <1>18 DEF CalltrapVector, At, Goto, TypeOK, Places
<1>19. CASE CalltrapCall
  BY <1>19 DEF CalltrapCall, At, Goto, TypeOK, Places, Actions
<1>20. CASE ClockSecond
  <2>1. sigvec' \in [Slots -> [Sigs -> Actions]] /\ cursig' \in [Slots -> Sigs \cup {0}]
    BY <1>20 DEF ClockSecond, TrapInIrq, TypeOK, Actions
  <2>2. status' \in [Slots -> Statuses]
        /\ wait' \in [Slots -> Slots \cup Events \cup {Null, Utime}]
        /\ pending' \in [Slots -> SUBSET Sigs]
    <3>1. [s \in Slots |-> IF alarm[s] = 1 THEN {ALRM} ELSE {}] \in [Slots -> SUBSET Sigs]
      OBVIOUS
    <3>2. QED
      BY <1>20, <3>1, SsigType DEF ClockSecond
  <2>3. /\ alarm' \in [Slots -> 0 .. MaxAlarm]
        /\ ALRM \in Sigs \/ \A s \in Slots : alarm'[s] = 0
    BY <1>20, ProcAssumption DEF ClockSecond, CountDown, TypeOK
  <2>4. QED
    BY <1>20, <2>1, <2>2, <2>3 DEF ClockSecond, TrapInIrq, TypeOK
<1>21. CASE ClockTick
  BY <1>21 DEF ClockTick, TrapInIrq, TypeOK, Actions
<1>22. CASE UNCHANGED vars
  BY <1>22 DEF vars, TypeOK
<1>23. QED
  BY <1>1, <1>2, <1>3, <1>4, <1>5, <1>6, <1>7, <1>8, <1>9, <1>10, <1>11,
     <1>12, <1>13, <1>14, <1>15, <1>16, <1>17, <1>18, <1>19, <1>20, <1>21,
     <1>22 DEF Next, Call, Kernel, Clock

(* Every reachable state of the process table and of the kernel's statics  *)
(* is of the declared type: fork fills slots with a pid of 1..M, chksigs   *)
(* takes a signal that exists, calltrap indexes the vectors with one.      *)
THEOREM TypeCorrect == Spec => []TypeOK
<1>1. Init => TypeInv
  BY SlotsType, ProcAssumption
  DEF Init, TypeInv, TypeOK, TrapSig, NoAlarm, Statuses, Places, Actions, InitProc
<1>2. TypeInv /\ [Next]_vars => TypeInv'
  BY TypeStep
<1>3. TypeInv => TypeOK
  BY DEF TypeInv
<1>4. QED
  BY <1>1, <1>2, <1>3, PTL DEF Spec

LEMMA TypeInvHolds == Spec => []TypeInv
<1>1. Init => TypeInv
  BY SlotsType, ProcAssumption
  DEF Init, TypeInv, TypeOK, TrapSig, NoAlarm, Statuses, Places, Actions, InitProc
<1>2. QED
  BY <1>1, TypeStep, PTL DEF Spec

-----------------------------------------------------------------------------
(* The running process *)

(* While the kernel gives the processor away, the process it leaves keeps  *)
(* its slot and is not RUNNING.                                            *)
Leaving ==
  /\ kpc[cur] = "fork" => status[cur] = "READY"
  /\ kpc[cur] = "slept" => status[cur] \notin {"RUNNING", "EMPTY"}
  /\ kpc[cur] = "exit" => status[cur] # "EMPTY"
RunInv == OneRunning /\ Leaving

(* Signals and wakeups only make sleepers READY. *)
LEMMA SsigStatus ==
  ASSUME TypeOK, NEW sigs \in [Slots -> SUBSET Sigs], Ssig(sigs)
  PROVE  \A s \in Slots : \/ status'[s] = status[s]
                          \/ status[s] \in {"PAUSE", "WAIT", "SLEEP"} /\ status'[s] = "READY"
  BY DEF Ssig, TypeOK

LEMMA SameRunning ==
  ASSUME TypeOK, RunInv, cur' = cur,
         \A s \in Slots : \/ status'[s] = status[s]
                          \/ status[s] \in {"PAUSE", "WAIT", "SLEEP"} /\ status'[s] = "READY",
         \/ kpc'[cur] = kpc[cur]
         \/ kpc[cur] \notin {"fork", "slept", "sched", "exit"} /\ kpc'[cur] \notin {"fork", "slept", "sched", "exit"}
  PROVE  RunInv'
<1>1. cur \in Slots
  BY DEF TypeOK
<1>2. \A s \in Slots : status'[s] = "RUNNING" <=> status[s] = "RUNNING"
  OBVIOUS
<1>3. OneRunning'
  BY <1>1, <1>2 DEF RunInv, OneRunning
<1>4. Leaving'
  BY <1>1 DEF RunInv, Leaving
<1>5. QED
  BY <1>3, <1>4 DEF RunInv

LEMMA RunStep ==
  ASSUME TypeInv, RunInv, [Next]_vars
  PROVE  RunInv'
<1> USE DEF TypeInv, ptabVars, sigVars, schedVars, trapVars
<1>0. cur \in Slots /\ kpc \in [Slots -> Places] /\ status \in [Slots -> Statuses]
  BY DEF TypeOK
<1>1. CASE Fork
  <2>1. CASE FreeSlots = {}
    BY <1>0, <1>1, <2>1, SameRunning DEF Fork, Goto, At
  <2>2. CASE FreeSlots # {}
    <3>1. FreeSlot \in Slots /\ status[FreeSlot] = "EMPTY"
      BY <2>2, FirstOf, SlotsType DEF FreeSlot, FreeSlots
    <3>2. status[cur] = "RUNNING"
      BY <1>1 DEF Fork, At, RunInv, OneRunning
    <3>3. status' = [status EXCEPT ![FreeSlot] = "FORKING", ![cur] = "READY"]
          /\ kpc' = [kpc EXCEPT ![cur] = "fork"] /\ cur' = cur
      BY <1>1, <2>2 DEF Fork, Goto
    <3>4. QED
      BY <1>0, <3>1, <3>2, <3>3 DEF RunInv, OneRunning, Leaving
  <2>3. QED
    BY <2>1, <2>2
<1>2. CASE Newproc
  BY <1>0, <1>2 DEF Newproc, At, RunInv, OneRunning, Leaving
<1>3. CASE Exit \/ Die
  <2>1. Doexit /\ kpc[cur] \in {"user", "wait", "slept", "ret"}
    BY <1>3 DEF Exit, Die, At
  <2>2. kpc'[cur] = "exit" /\ cur' = cur
    BY <1>0, <2>1 DEF Doexit, Goto
  <2>3. status'[cur] = status[cur] /\ \A s \in Slots : status'[s] = status[s] \/ status'[s] = "READY"
    BY <1>0, <2>1 DEF Doexit
  <2>4. status[cur] # "EMPTY"
    BY <2>1 DEF RunInv, OneRunning, Leaving
  <2>5. QED
    BY <1>0, <2>2, <2>3, <2>4 DEF RunInv, OneRunning, Leaving
<1>4. CASE BecomeZombie
  BY <1>0, <1>4 DEF BecomeZombie, Goto, RunInv, OneRunning, Leaving
<1>5. CASE Wait \/ PauseCall \/ OtherCall \/ IoCall \/ Signal \/ Alarm \/ Execve
  BY <1>0, <1>5, SameRunning
  DEF Wait, PauseCall, OtherCall, IoCall, Signal, Alarm, Execve, Goto, At
<1>6. CASE WaitChksigs \/ UnixReturn \/ CalltrapTest \/ CalltrapVector \/ CalltrapCall \/ IoCheck
  BY <1>0, <1>6, SameRunning
  DEF WaitChksigs, UnixReturn, CalltrapTest, CalltrapVector, CalltrapCall, IoCheck, Goto, At
<1>7. CASE Swapout
  BY <1>0, <1>7 DEF Swapout, Goto, At, RunInv, OneRunning, Leaving
<1>8. CASE WaitScan
  <2>1. CASE Zombies(cur) # {}
    <3>1. First(Zombies(cur)) \in Zombies(cur)
      BY <2>1, FirstOf, SlotsType DEF Zombies
    <3>2. status[cur] = "RUNNING"
      BY <1>8 DEF WaitScan, At, RunInv, OneRunning
    <3>3. status' = [status EXCEPT ![First(Zombies(cur))] = "EMPTY"]
          /\ kpc' = [kpc EXCEPT ![cur] = "ret"] /\ cur' = cur
      BY <1>8, <2>1 DEF WaitScan, Goto
    <3>4. QED
      BY <1>0, <3>1, <3>2, <3>3 DEF RunInv, OneRunning, Leaving, Zombies
  <2>2. CASE Zombies(cur) = {}
    BY <1>0, <1>8, <2>2 DEF WaitScan, Psleep, Goto, RunInv, OneRunning, Leaving
  <2>3. QED
    BY <2>1, <2>2
<1>9. CASE PauseSleep \/ IoSleep
  BY <1>0, <1>9 DEF PauseSleep, IoSleep, Psleep, Goto, RunInv, OneRunning, Leaving
<1>10. CASE IoWakeup
  <2>1. PICK e \in Events : Wakeup({e})
    BY <1>10 DEF IoWakeup
  <2>2. \A s \in Slots : \/ status'[s] = status[s]
                         \/ status'[s] = "READY" /\ status[s] \notin {"RUNNING", "EMPTY"}
    BY <2>1, <1>0 DEF Wakeup, Sleeping
  <2>3. kpc' = [kpc EXCEPT ![cur] = "ret"] /\ cur' = cur /\ kpc[cur] = "user"
    BY <1>10 DEF IoWakeup, Goto, At
  <2>4. QED
    BY <1>0, <2>2, <2>3 DEF RunInv, OneRunning, Leaving
<1>11. CASE BrokenPipe \/ Kill \/ ClockSecond
  <2>1. PICK sigs \in [Slots -> SUBSET Sigs] : Ssig(sigs)
    <3>1. CASE BrokenPipe
      BY <3>1 DEF BrokenPipe
    <3>2. CASE Kill
      <4>1. PICK j \in Sigs, n \in {pid[s] : s \in Slots} :
              Ssig([s \in Slots |-> IF s = Target(n) THEN {j} ELSE {}])
        BY <3>2 DEF Kill
      <4>2. QED
        BY <4>1
    <3>3. CASE ClockSecond
      <4>1. [s \in Slots |-> IF alarm[s] = 1 THEN {ALRM} ELSE {}] \in [Slots -> SUBSET Sigs]
        BY DEF NoAlarm
      <4>2. QED
        BY <3>3, <4>1 DEF ClockSecond
    <3>4. QED
      BY <1>11, <3>1, <3>2, <3>3
  <2>2. /\ cur' = cur
        /\ \/ kpc'[cur] = kpc[cur]
           \/ kpc[cur] = "user" /\ kpc'[cur] = "ret"
    BY <1>0, <1>11 DEF BrokenPipe, Kill, ClockSecond, Goto, At
  <2>3. QED
    BY <2>1, <2>2, SsigStatus, SameRunning
<1>12. CASE Getproc
  <2>1. NextSlot \in Slots
    BY ProcAssumption DEF NextSlot, TypeOK, Slots
  <2>2. back[NextSlot] \in {"ret", "wait", "iocheck"}
    BY <2>1 DEF TypeOK
  <2>3. QED
    BY <1>0, <1>12, <2>1, <2>2 DEF Getproc, At, RunInv, OneRunning, Leaving
<1>13. CASE ClockTick
  BY <1>0, <1>13, SameRunning DEF ClockTick
<1>14. CASE UNCHANGED vars
  BY <1>0, <1>14, SameRunning DEF vars
<1>15. QED
  BY <1>1, <1>2, <1>3, <1>4, <1>5, <1>6, <1>7, <1>8, <1>9, <1>10, <1>11,
     <1>12, <1>13, <1>14 DEF Next, Call, Kernel, Clock

(* Only the process whose image is in memory is RUNNING, in every          *)
(* interleaving of forks, exits, sleeps and interrupts: psleep's "voodoo"  *)
(* and getproc's "extra running" panics are unreachable.                   *)
THEOREM OneRunningHolds == Spec => []OneRunning
<1>1. Init => RunInv
  BY SlotsType DEF Init, RunInv, OneRunning, Leaving
<1>2. RunInv => OneRunning
  BY DEF RunInv
<1>3. QED
  BY <1>1, <1>2, RunStep, TypeInvHolds, PTL DEF Spec

LEMMA RunInvHolds == Spec => []RunInv
<1>1. Init => RunInv
  BY SlotsType DEF Init, RunInv, OneRunning, Leaving
<1>2. QED
  BY <1>1, RunStep, TypeInvHolds, PTL DEF Spec

-----------------------------------------------------------------------------
(* Pids *)

(* No slot before a live process holds its pid: ptab_alloc takes the first *)
(* free slot, so all the slots before it were in use when it chose the pid. *)
PidInv ==
  \A s, t \in Slots : status[s] # "EMPTY" /\ t < s => pid[t] # pid[s]

LEMMA OnlyForkFills ==
  ASSUME TypeInv, RunInv, [Next]_vars, ~Fork
  PROVE  pid' = pid /\ \A s \in Slots : status'[s] # "EMPTY" => status[s] # "EMPTY"
<1> USE DEF TypeInv, ptabVars, sigVars, schedVars, trapVars
<1>0. cur \in Slots /\ status \in [Slots -> Statuses]
  BY DEF TypeOK
<1>1. CASE Newproc
  BY <1>0, <1>1 DEF Newproc
<1>2. CASE Exit \/ Die
  BY <1>0, <1>2 DEF Exit, Die, Doexit, Sleeping
<1>3. CASE BecomeZombie
  BY <1>0, <1>3 DEF BecomeZombie, At, RunInv, Leaving
<1>4. CASE Wait \/ PauseCall \/ OtherCall \/ IoCall \/ Signal \/ Alarm \/ Execve
           \/ WaitChksigs \/ UnixReturn \/ CalltrapTest \/ CalltrapVector
           \/ CalltrapCall \/ IoCheck \/ Swapout
  BY <1>4 DEF Wait, PauseCall, OtherCall, IoCall, Signal, Alarm, Execve,
     WaitChksigs, UnixReturn, CalltrapTest, CalltrapVector, CalltrapCall,
     IoCheck, Swapout
<1>5. CASE WaitScan \/ PauseSleep \/ IoSleep
  BY <1>0, <1>5 DEF WaitScan, PauseSleep, IoSleep, Psleep
<1>6. CASE IoWakeup
  BY <1>0, <1>6 DEF IoWakeup, Wakeup, Sleeping
<1>7. CASE BrokenPipe \/ Kill \/ ClockSecond
  BY <1>0, <1>7 DEF BrokenPipe, Kill, ClockSecond, Ssig, Sent
<1>8. CASE Getproc
  BY <1>0, <1>8 DEF Getproc
<1>9. CASE ClockTick \/ UNCHANGED vars
  BY <1>9 DEF ClockTick, vars
<1>10. QED
  BY <1>1, <1>2, <1>3, <1>4, <1>5, <1>6, <1>7, <1>8, <1>9
  DEF Next, Call, Kernel, Clock

LEMMA PidStep ==
  ASSUME TypeInv, RunInv, PidInv, [Next]_vars
  PROVE  PidInv'
<1> USE DEF TypeInv
<1>1. CASE Fork /\ FreeSlots # {}
  <2> DEFINE p == FreeSlot
  <2>1. /\ p \in Slots /\ status[p] = "EMPTY"
        /\ \A t \in Slots : t < p => status[t] # "EMPTY"
    <3>1. p \in FreeSlots /\ \A t \in FreeSlots : p <= t
      BY <1>1, FirstOf, SlotsType DEF FreeSlot, FreeSlots
    <3>2. QED
      BY <3>1, SlotsType DEF FreeSlots
  <2>2. NewPid \notin UsedPids
    BY <1>1, PidAvailable
  <2>3. \A t \in Slots : status[t] # "EMPTY" => pid[t] # NewPid
    BY <2>2 DEF UsedPids
  <2>4. /\ pid' = [pid EXCEPT ![p] = NewPid]
        /\ status' = [status EXCEPT ![p] = "FORKING", ![cur] = "READY"]
    BY <1>1 DEF Fork
  <2>5. status[cur] = "RUNNING" /\ cur \in Slots
    BY <1>1 DEF Fork, At, RunInv, OneRunning, TypeOK
  <2>6. ASSUME NEW s \in Slots, NEW t \in Slots, status'[s] # "EMPTY", t < s
        PROVE  pid'[t] # pid'[s]
    <3> HIDE DEF p
    <3>1. CASE s = p
      <4>1. t # p /\ pid'[s] = NewPid /\ pid'[t] = pid[t] /\ status[t] # "EMPTY"
        BY <2>1, <2>4, <2>6, <3>1, SlotsType DEF TypeOK
      <4>2. QED
        BY <2>3, <4>1
    <3>2. CASE s # p
      <4>1. status[s] # "EMPTY"
        BY <2>4, <2>5, <2>6, <3>2 DEF TypeOK
      <4>2. pid'[s] = pid[s] /\ pid'[t] \in {NewPid, pid[t]}
        BY <2>1, <2>4, <3>2 DEF TypeOK
      <4>3. QED
        BY <2>3, <2>6, <4>1, <4>2 DEF PidInv
    <3>3. QED
      BY <3>1, <3>2
  <2>7. QED
    BY <2>6 DEF PidInv
<1>2. CASE Fork /\ FreeSlots = {}
  BY <1>2 DEF Fork, PidInv, ptabVars
<1>3. CASE ~Fork
  BY <1>3, OnlyForkFills DEF PidInv
<1>4. QED
  BY <1>1, <1>2, <1>3

LEMMA PidInvHolds == Spec => []PidInv
<1>1. Init => PidInv
  BY ProcAssumption DEF Init, PidInv, InitProc, Slots
<1>2. QED
  BY <1>1, PidStep, TypeInvHolds, RunInvHolds, PTL DEF Spec

(* No two slots in use hold the same pid, zombies and forking children     *)
(* included, however often the counter of ptab_alloc has wrapped.          *)
THEOREM PidsAreUnique == Spec => []PidsUnique
<1>1. PidInv => PidsUnique
  BY SlotsType DEF PidInv, PidsUnique
<1>2. QED
  BY <1>1, PidInvHolds, PTL

(* The slot at which _kill's search stops is the process that has the pid, *)
(* and not an earlier slot that was given up and still holds it.           *)
THEOREM KillReachesItsTarget == Spec => []KillFindsProcess
<1>1. TypeInv /\ PidInv => KillFindsProcess
  <2>1. SUFFICES ASSUME TypeInv, PidInv, NEW s \in Slots, status[s] # "EMPTY"
                 PROVE  Target(pid[s]) = s
    BY DEF KillFindsProcess
  <2> DEFINE H == {t \in Slots : pid[t] = pid[s]}
  <2>2. s \in H /\ H \in SUBSET Nat
    BY SlotsType
  <2>3. First(H) \in H /\ First(H) <= s
    BY <2>2, FirstOf
  <2>4. ~ (First(H) < s)
    BY <2>1, <2>3 DEF PidInv
  <2>5. QED
    BY <2>2, <2>3, <2>4, SlotsType DEF Target
<1>2. QED
  BY <1>1, PidInvHolds, TypeInvHolds, PTL
-----------------------------------------------------------------------------
(* SIGKILL *)

(* No program has a handler for SIGKILL, nor ignores it.                   *)
KillKills == KILL \in Sigs => \A s \in Slots : sigvec[s][KILL] = "DFL"

LEMMA KillStep == TypeOK /\ KillKills /\ [Next]_vars => KillKills'
<1> SUFFICES ASSUME TypeOK, KILL \in Sigs, KillKills, [Next]_vars PROVE KillKills'
  BY DEF KillKills
<1> USE DEF KillKills, ptabVars, sigVars, schedVars, trapVars
<1>0. sigvec \in [Slots -> [Sigs -> Actions]] /\ cur \in Slots
  BY DEF TypeOK
<1>1. CASE Newproc
  BY <1>0, <1>1 DEF Newproc
<1>2. CASE BecomeZombie
  BY <1>0, <1>2 DEF BecomeZombie, NoHandlers
<1>3. CASE Signal
  BY <1>0, <1>3 DEF Signal, Settable
<1>4. CASE Execve
  BY <1>0, <1>4 DEF Execve
<1>5. CASE CalltrapCall
  BY <1>0, <1>5 DEF CalltrapCall
<1>6. CASE Clock
  BY <1>0, <1>6 DEF Clock, ClockSecond, ClockTick, TrapInIrq
<1>7. CASE UNCHANGED sigvec
  BY <1>7
<1>8. CASE Exit \/ Die
  BY <1>7, <1>8 DEF Exit, Die, Doexit
<1>9. QED
  BY <1>1, <1>2, <1>3, <1>4, <1>5, <1>6, <1>7, <1>8
  DEF Next, vars, Call, Kernel, Fork, Wait, PauseCall, IoCall, IoWakeup, BrokenPipe,
      Kill, Alarm, OtherCall, WaitChksigs, WaitScan, PauseSleep, IoSleep, IoCheck,
      Swapout, Getproc, UnixReturn, CalltrapTest, CalltrapVector

(* Only the tail of unix() goes back to the program.                       *)
LEMMA OnlyUnixReturns ==
  ASSUME TypeOK, [Next]_vars, kpc[cur] = "ret", kpc'[cur] = "trap0"
  PROVE  UnixReturn
<1>1. CASE Call
  BY <1>1 DEF Call, Fork, Exit, Wait, PauseCall, IoCall, IoWakeup, BrokenPipe,
              Signal, Kill, Alarm, OtherCall, Execve, At
<1>2. CASE Kernel
  <2>1. ~Die
    BY DEF Die, Doexit, Goto, TypeOK
  <2>2. QED
    BY <1>2, <2>1 DEF Kernel, Newproc, WaitChksigs, WaitScan, PauseSleep, IoSleep,
              IoCheck, BecomeZombie, Swapout, Getproc,
              CalltrapTest, CalltrapVector, CalltrapCall, At
<1>3. CASE Clock \/ UNCHANGED vars
  BY <1>3 DEF Clock, ClockSecond, ClockTick, vars
<1>4. QED
  BY <1>1, <1>2, <1>3 DEF Next

(* chksigs looks at the signals from the lowest up, and SIGKILL can        *)
(* neither be caught nor ignored: a process on which it is pending returns *)
(* from a system call only with a lower signal that it catches.            *)
THEOREM KillYields == Spec => KillYieldsOnlyToCaught
<1> DEFINE Yields ==
      kpc[cur] = "ret" /\ kpc'[cur] = "trap0" /\ KILL \in pending[cur]
        => \E j \in pending[cur] : j < KILL /\ sigvec[cur][j] = "CATCH"
<1>1. Init => KillKills
  BY DEF Init, KillKills
<1>2. TypeOK /\ KillKills /\ [Next]_vars => [Yields]_vars
  <2> SUFFICES ASSUME TypeOK, KillKills, [Next]_vars, kpc[cur] = "ret",
                      kpc'[cur] = "trap0", KILL \in pending[cur]
               PROVE  \E j \in pending[cur] : j < KILL /\ sigvec[cur][j] = "CATCH"
    OBVIOUS
  <2>1. ~Doomed
    BY OnlyUnixReturns DEF UnixReturn, ChksigsReturns
  <2>2. pending[cur] \in SUBSET Sigs /\ Sigs \in SUBSET Nat /\ cur \in Slots
        /\ sigvec \in [Slots -> [Sigs -> Actions]]
    BY ProcAssumption DEF TypeOK
  <2>3. KILL \in Heeded /\ Heeded \in SUBSET Nat /\ Heeded \subseteq pending[cur]
    BY <2>2 DEF Heeded, KillKills
  <2>4. First(Heeded) \in Heeded /\ First(Heeded) <= KILL
    BY <2>3, FirstOf
  <2>5. sigvec[cur][First(Heeded)] = "CATCH"
    BY <2>1, <2>2, <2>3, <2>4 DEF Doomed, Heeded, Actions
  <2>6. First(Heeded) # KILL
    BY <2>2, <2>3, <2>5 DEF KillKills
  <2>7. First(Heeded) \in Nat /\ KILL \in Nat
    BY <2>2, <2>3, <2>4
  <2>8. First(Heeded) < KILL
    BY <2>4, <2>6, <2>7
  <2>9. QED
    BY <2>3, <2>4, <2>5, <2>8
<1>3. QED
  BY <1>1, <1>2, KillStep, TypeCorrect, PTL DEF Spec, KillYieldsOnlyToCaught

-----------------------------------------------------------------------------
(***************************************************************************)
(* Sleeping, and parents and children: a sleeper is found by the wakeup it *)
(* waits for, a parent can wait for its children, and no exit is missed.   *)
(* None of the three is inductive by itself, and each uses the other two.  *)
(***************************************************************************)

Away == {"READY", "SLEEP", "WAIT", "PAUSE"}
Asleep == {"SLEEP", "WAIT", "PAUSE"}

(* Only the process that runs is in doexit; a process that gave the        *)
(* processor up goes on in the scheduler.                                  *)
PlacesMatch ==
  /\ \A s \in Slots : kpc[s] = "exit" => s = cur /\ wait[s] \in {Null, Utime}
  /\ \A s \in Slots : status[s] \in Away /\ s # cur => kpc[s] = "sched"
  /\ kpc[cur] = "slept" => status[cur] \in Away

(* A process in an I/O loop, or that will go on in one, has an event.      *)
EventsMatch ==
  \A s \in Slots :
    kpc[s] \in {"io", "iocheck"} \/ (kpc[s] \in {"slept", "sched"} /\ back[s] = "iocheck")
      => ev[s] \in Events

(* Nobody can wait for init but itself.                                    *)
InitStays ==
  status[InitProc] \notin {"EMPTY", "FORKING"} /\ pptr[InitProc] = InitProc

(* Between the two steps of doexit the process has no children any more,   *)
(* and its parent was woken and has not run since.                         *)
LeavesFamily ==
  kpc[cur] = "exit" =>
    /\ cur # InitProc => \A s \in Slots : status[s] # "EMPTY" => pptr[s] # cur
    /\ pptr[cur] \in Slots /\ status[cur] # "FORKING"
    /\ pptr[cur] # InitProc => status[pptr[cur]] # "WAIT"

Sleepers == WaitMatches /\ PlacesMatch /\ EventsMatch
Kin == ParentsLive /\ WaitersHaveNoZombie /\ InitStays /\ LeavesFamily
Inv == TypeInv /\ RunInv /\ Sleepers /\ Kin

-----------------------------------------------------------------------------
(* Steps that at most make sleepers ready *)

Same(s) == status'[s] = status[s] /\ wait'[s] = wait[s]
Roused(s) ==
  \/ Same(s)
  \/ status[s] \notin Asleep /\ status'[s] = status[s] /\ wait'[s] = Null
  \/ status[s] \in Asleep /\ status'[s] = "READY" /\ wait'[s] = Null

LEMMA Types ==
  ASSUME TypeOK
  PROVE  /\ cur \in Slots
         /\ status \in [Slots -> Statuses]
         /\ wait \in [Slots -> Slots \cup Events \cup {Null, Utime}]
         /\ pptr \in [Slots -> Slots \cup {Null}]
         /\ kpc \in [Slots -> Places]
         /\ back \in [Slots -> {"ret", "wait", "iocheck"}]
         /\ ev \in [Slots -> Events \cup {Null}]
BY DEF TypeOK

LEMMA SsigRouses ==
  ASSUME TypeOK, NEW sigs, Ssig(sigs)
  PROVE  \A s \in Slots : Roused(s)
BY Types DEF Ssig, Sent, Roused, Same, Asleep

(* wakeup finds only who sleeps: p_wait of the others names no event.      *)
LEMMA WakeupFinds ==
  ASSUME TypeOK, Sleepers, NEW events \in SUBSET (Slots \cup Events),
         NEW s \in Sleeping(events), kpc[s] # "exit"
  PROVE  status[s] \in {"SLEEP", "WAIT"}
<1>1. s \in Slots /\ status[s] \notin {"EMPTY", "RUNNING"} /\ wait[s] \in Slots \cup Events
  BY DEF Sleeping
<1>2. wait[s] # Null /\ wait[s] # Utime
  BY <1>1, ProcAssumption, SlotsType DEF Null, Utime
<1>3. status[s] \in Statuses
  BY <1>1, Types
<1>4. QED
  BY <1>1, <1>2, <1>3 DEF Sleepers, WaitMatches, Statuses

LEMMA WakeupRouses ==
  ASSUME TypeOK, Sleepers, kpc[cur] # "exit",
         NEW events \in SUBSET (Slots \cup Events), Wakeup(events)
  PROVE  \A s \in Slots : Roused(s)
<1> SUFFICES ASSUME NEW s \in Slots PROVE Roused(s)
  OBVIOUS
<1>1. kpc[s] # "exit"
  BY DEF Sleepers, PlacesMatch
<1>2. s \in Sleeping(events) => status[s] \in {"SLEEP", "WAIT"}
  BY <1>1, WakeupFinds
<1>3. QED
  BY <1>2, Types DEF Wakeup, Roused, Same, Asleep

Calm == {"user", "pause", "wait", "scan", "ret", "trap0", "trap1", "trap2"}
(* The process stays, or goes on to a place where nothing is claimed of it. *)
GoesOn ==
  /\ UNCHANGED <<cur, back>>
  /\ \/ UNCHANGED <<kpc, ev>>
     \/ /\ kpc[cur] # "exit"
        /\ \E place \in Calm : kpc' = [kpc EXCEPT ![cur] = place]
        /\ \A s \in Slots \ {cur} : ev'[s] = ev[s]

LEMMA QuietSleepers ==
  ASSUME TypeOK, Sleepers, \A s \in Slots : Roused(s), GoesOn
  PROVE  Sleepers'
<1> USE Types DEF Sleepers
<1>1. WaitMatches'
  <2> SUFFICES ASSUME NEW s \in Slots, kpc'[s] # "exit"
               PROVE  /\ status'[s] = "SLEEP" => wait'[s] \in Events
                      /\ status'[s] = "WAIT" => wait'[s] = s
                      /\ status'[s] \in {"PAUSE", "READY", "FORKING", "RUNNING"} => wait'[s] = Null
                      /\ status'[s] = "ZOMBIE" => wait'[s] \in {Null, Utime}
    BY DEF WaitMatches
  <2>1. kpc[s] # "exit"
    BY DEF GoesOn
  <2>2. CASE Same(s)
    BY <2>1, <2>2 DEF WaitMatches, Same
  <2>3. CASE status[s] \notin Asleep /\ status'[s] = status[s] /\ wait'[s] = Null
    BY <2>3 DEF Asleep
  <2>4. CASE status[s] \in Asleep /\ status'[s] = "READY" /\ wait'[s] = Null
    BY <2>4
  <2>5. QED
    BY <2>2, <2>3, <2>4 DEF Roused
<1>2. PlacesMatch'
  <2>1. ASSUME NEW s \in Slots, kpc'[s] = "exit" PROVE s = cur /\ wait'[s] \in {Null, Utime}
    <3>1. kpc[s] = "exit"
      BY <2>1 DEF GoesOn, Calm
    <3>2. QED
      BY <3>1 DEF PlacesMatch, Roused, Same
  <2>2. ASSUME NEW s \in Slots, status'[s] \in Away, s # cur PROVE kpc'[s] = "sched"
    <3>1. status[s] \in Away
      BY <2>2 DEF Roused, Same, Away, Asleep
    <3>2. QED
      BY <2>2, <3>1 DEF PlacesMatch, GoesOn
  <2>3. ASSUME kpc'[cur] = "slept" PROVE status'[cur] \in Away
    <3>1. kpc[cur] = "slept"
      BY <2>3 DEF GoesOn, Calm
    <3>2. QED
      BY <3>1 DEF PlacesMatch, Roused, Same, Away, Asleep
  <2>4. QED
    BY <2>1, <2>2, <2>3 DEF PlacesMatch, GoesOn
<1>3. EventsMatch'
  BY DEF EventsMatch, GoesOn, Calm
<1>4. QED
  BY <1>1, <1>2, <1>3

LEMMA QuietKin ==
  ASSUME TypeOK, Sleepers, Kin, \A s \in Slots : Roused(s), GoesOn, UNCHANGED pptr
  PROVE  Kin'
<1> USE Types, SlotsType DEF Kin
<1>1. \A s \in Slots : \/ status'[s] = status[s]
                       \/ status[s] \in Asleep /\ status'[s] = "READY"
  BY DEF Roused, Same
<1>2. ParentsLive'
  BY <1>1 DEF ParentsLive, Asleep
<1>3. WaitersHaveNoZombie'
  <2> SUFFICES ASSUME NEW s \in Slots \ {InitProc}, status'[s] = "WAIT",
                      NEW c \in Slots, status'[c] = "ZOMBIE", pptr'[c] = s
               PROVE  FALSE
    BY DEF WaitersHaveNoZombie, Zombies
  <2>1. status[s] = "WAIT" /\ status[c] = "ZOMBIE" /\ pptr[c] = s
    BY <1>1
  <2>2. QED
    BY <2>1 DEF WaitersHaveNoZombie, Zombies
<1>4. InitStays'
  BY <1>1 DEF InitStays, Asleep
<1>5. ASSUME kpc'[cur] = "exit"
      PROVE  /\ cur # InitProc => \A s \in Slots : status'[s] # "EMPTY" => pptr[s] # cur
             /\ pptr[cur] \in Slots /\ status'[cur] # "FORKING"
             /\ pptr[cur] # InitProc => status'[pptr[cur]] # "WAIT"
  <2>1. kpc[cur] = "exit"
    BY <1>5 DEF GoesOn, Calm
  <2>2. /\ cur # InitProc => \A s \in Slots : status[s] # "EMPTY" => pptr[s] # cur
        /\ pptr[cur] \in Slots /\ status[cur] # "FORKING"
        /\ pptr[cur] # InitProc => status[pptr[cur]] # "WAIT"
    BY <2>1 DEF LeavesFamily
  <2>3. cur # InitProc => \A s \in Slots : status'[s] # "EMPTY" => pptr[s] # cur
    BY <1>1, <2>2 DEF Asleep
  <2>4. pptr[cur] # InitProc => status'[pptr[cur]] # "WAIT"
    BY <1>1, <2>2
  <2>5. status'[cur] # "FORKING"
    BY <1>1, <2>2
  <2>6. QED
    BY <2>2, <2>3, <2>4, <2>5
<1>6. LeavesFamily'
  BY <1>5 DEF LeavesFamily, GoesOn
<1>7. QED
  BY <1>2, <1>3, <1>4, <1>6

-----------------------------------------------------------------------------
(* fork *)

LEMMA ForkFamily ==
  ASSUME Inv, Fork, FreeSlots # {}
  PROVE  Sleepers' /\ Kin'
<1> DEFINE p == FreeSlot
<1>1. p \in Slots /\ status[p] = "EMPTY"
  BY FirstOf, SlotsType DEF FreeSlot, FreeSlots
<1>2. kpc[cur] = "user" /\ status[cur] = "RUNNING"
  BY DEF Fork, At, Inv, RunInv, OneRunning
<1>3. /\ status' = [status EXCEPT ![p] = "FORKING", ![cur] = "READY"]
      /\ pptr' = [pptr EXCEPT ![p] = Null]
      /\ wait' = [wait EXCEPT ![p] = Null]
      /\ kpc' = [kpc EXCEPT ![cur] = "fork"]
      /\ UNCHANGED <<back, ev, cur>>
  BY DEF Fork, Goto
<1>4. TypeOK /\ Sleepers /\ Kin /\ p # cur
  BY <1>1, <1>2 DEF Inv, TypeInv
<1> HIDE DEF p
<1> USE Types, SlotsType, <1>1, <1>2, <1>3, <1>4
<1>5. WaitMatches'
  BY DEF Sleepers, WaitMatches
<1>6. PlacesMatch' /\ EventsMatch'
  BY DEF Sleepers, PlacesMatch, EventsMatch, Away
<1>7. p # InitProc
  BY DEF Kin, InitStays
<1>8. ParentsLive'
  BY <1>7 DEF Kin, ParentsLive
<1>9. WaitersHaveNoZombie'
  BY DEF Kin, WaitersHaveNoZombie, Zombies
<1>10. InitStays' /\ LeavesFamily'
  BY <1>7 DEF Kin, InitStays, LeavesFamily
<1>11. QED
  BY <1>5, <1>6, <1>8, <1>9, <1>10 DEF Sleepers, Kin

(* The child that newproc starts was FORKING until then.                   *)
LEMMA NewprocFamily ==
  ASSUME Inv, Newproc
  PROVE  Sleepers' /\ Kin'
<1>1. PICK p \in Slots :
        /\ status[p] = "FORKING"
        /\ status' = [status EXCEPT ![p] = "RUNNING"]
        /\ pptr' = [pptr EXCEPT ![p] = cur]
        /\ kpc' = [kpc EXCEPT ![cur] = "sched", ![p] = "ret"]
        /\ back' = [back EXCEPT ![cur] = "ret"]
        /\ ev' = [ev EXCEPT ![p] = Null]
        /\ cur' = p
  BY DEF Newproc
<1>2. kpc[cur] = "fork" /\ status[cur] = "READY" /\ wait' = wait
  BY DEF Newproc, At, Inv, RunInv, Leaving
<1>3. TypeOK /\ Sleepers /\ Kin /\ p # cur
  BY <1>1, <1>2 DEF Inv, TypeInv
<1> USE Types, SlotsType, <1>1, <1>2, <1>3
<1>4. WaitMatches'
  BY DEF Sleepers, WaitMatches, PlacesMatch
<1>5. PlacesMatch'
  BY DEF Sleepers, PlacesMatch, Away
<1>6. EventsMatch'
  BY DEF Sleepers, EventsMatch
<1>7. p # InitProc
  BY DEF Kin, InitStays
<1>8. ParentsLive'
  BY <1>7 DEF Kin, ParentsLive
<1>9. WaitersHaveNoZombie'
  BY DEF Kin, WaitersHaveNoZombie, Zombies
<1>10. InitStays'
  BY <1>7 DEF Kin, InitStays
<1>11. kpc'[cur'] = "ret"
  OBVIOUS
<1>12. LeavesFamily'
  BY <1>11 DEF LeavesFamily
<1>13. QED
  BY <1>4, <1>5, <1>6, <1>8, <1>9, <1>10, <1>12 DEF Sleepers, Kin

-----------------------------------------------------------------------------
(* exit and wait *)

(* doexit wakes the parent before the process is a zombie, and its search  *)
(* of the table gives every child to init.                                 *)
LEMMA DoexitFamily ==
  ASSUME Inv, Doexit, kpc[cur] \in {"user", "wait", "slept", "ret"}
  PROVE  Sleepers' /\ Kin'
<1>1. TypeOK /\ Sleepers /\ Kin
  BY DEF Inv, TypeInv
<1>2. status[cur] \notin {"EMPTY", "FORKING", "ZOMBIE"}
  BY DEF Inv, RunInv, OneRunning, Sleepers, PlacesMatch, Away
<1>3. pptr[cur] \in Slots
  BY <1>1, <1>2, Types DEF Kin, ParentsLive
<1>4. PICK closed \in SUBSET Events :
        LET woken == Sleeping(closed \cup ParentEvent)
        IN /\ pptr' = [s \in Slots |-> IF Reparented(s) THEN InitProc ELSE pptr[s]]
           /\ status' = [s \in Slots |-> IF s \in woken \ {cur} THEN "READY" ELSE status[s]]
           /\ wait' = [s \in Slots |-> IF s = cur THEN Utime
                                       ELSE IF s \in woken THEN Null ELSE wait[s]]
           /\ kpc' = [kpc EXCEPT ![cur] = "exit"]
           /\ UNCHANGED <<back, ev, cur>>
  BY DEF Doexit, Goto, schedVars
<1> DEFINE woken == Sleeping(closed \cup ParentEvent)
<1>5. closed \cup ParentEvent \in SUBSET (Slots \cup Events)
  BY <1>3 DEF ParentEvent
<1>6. \A s \in Slots : kpc[s] # "exit"
  BY <1>1 DEF Sleepers, PlacesMatch
<1>7. woken \subseteq Slots /\ \A s \in woken : status[s] \in {"SLEEP", "WAIT"}
  <2>1. woken \subseteq Slots
    BY DEF Sleeping
  <2>2. QED
    BY <1>1, <1>5, <1>6, <2>1, WakeupFinds
<1>8. cur # InitProc /\ status[pptr[cur]] = "WAIT" => pptr[cur] \in woken
  BY <1>1, <1>3, <1>6 DEF Sleepers, WaitMatches, Sleeping, ParentEvent
<1> HIDE DEF woken
<1>9. /\ pptr' = [s \in Slots |-> IF Reparented(s) THEN InitProc ELSE pptr[s]]
      /\ status' = [s \in Slots |-> IF s \in woken \ {cur} THEN "READY" ELSE status[s]]
      /\ wait' = [s \in Slots |-> IF s = cur THEN Utime
                                  ELSE IF s \in woken THEN Null ELSE wait[s]]
      /\ kpc' = [kpc EXCEPT ![cur] = "exit"]
      /\ UNCHANGED <<back, ev, cur>>
  BY <1>4 DEF woken
<1> USE Types, SlotsType, <1>1
<1>10. \A s \in Slots : \/ status'[s] = status[s]
                        \/ status[s] \in {"SLEEP", "WAIT"} /\ status'[s] = "READY"
  BY <1>7, <1>9
<1>11. WaitMatches'
  BY <1>6, <1>7, <1>9 DEF Sleepers, WaitMatches
<1>12. PlacesMatch'
  <2>1. \A s \in Slots : kpc'[s] = "exit" => s = cur
    BY <1>6, <1>9
  <2>2. \A s \in Slots : status'[s] \in Away /\ s # cur => kpc'[s] = "sched"
    BY <1>9, <1>10 DEF Sleepers, PlacesMatch, Away
  <2>3. QED
    BY <1>9, <2>1, <2>2 DEF PlacesMatch
<1>13. EventsMatch'
  BY <1>9 DEF Sleepers, EventsMatch
<1>14. ParentsLive'
  <2>1. SUFFICES ASSUME NEW s \in Slots, status'[s] \notin {"EMPTY", "FORKING"},
                        pptr'[s] # InitProc
                 PROVE  /\ pptr'[s] \in Slots
                        /\ status'[pptr'[s]] \notin {"EMPTY", "FORKING", "ZOMBIE"}
    BY DEF ParentsLive
  <2>2. status[s] \notin {"EMPTY", "FORKING"} /\ pptr'[s] = pptr[s]
    BY <1>9, <1>10, <2>1
  <2>3. /\ pptr[s] \in Slots
        /\ status[pptr[s]] \notin {"EMPTY", "FORKING", "ZOMBIE"}
    BY <2>1, <2>2 DEF Kin, ParentsLive
  <2>4. QED
    BY <1>10, <2>2, <2>3
<1>15. WaitersHaveNoZombie'
  <2> SUFFICES ASSUME NEW s \in Slots \ {InitProc}, status'[s] = "WAIT",
                      NEW c \in Slots, status'[c] = "ZOMBIE", pptr'[c] = s
               PROVE  FALSE
    BY DEF WaitersHaveNoZombie, Zombies
  <2>1. status[s] = "WAIT" /\ status[c] = "ZOMBIE"
    BY <1>10
  <2>2. pptr[c] = s
    BY <1>9
  <2>3. QED
    BY <2>1, <2>2 DEF Kin, WaitersHaveNoZombie, Zombies
<1>16. InitStays'
  BY <1>9, <1>10 DEF Kin, InitStays
<1>17. LeavesFamily'
  <2>1. cur # InitProc => \A s \in Slots : status'[s] # "EMPTY" => pptr'[s] # cur
    BY <1>9, <1>10 DEF Reparented
  <2>2. pptr'[cur] \in Slots /\ status'[cur] # "FORKING"
    BY <1>2, <1>3, <1>9
  <2>3. ASSUME pptr'[cur] # InitProc PROVE status'[pptr'[cur]] # "WAIT"
    <3>1. pptr'[cur] = pptr[cur] /\ pptr[cur] # cur
      BY <1>2, <1>9, <2>3 DEF Reparented
    <3>2. cur # InitProc
      BY <2>3, <3>1 DEF Kin, InitStays
    <3>3. QED
      BY <1>3, <1>8, <1>9, <1>10, <3>1, <3>2
  <2>4. QED
    BY <1>9, <2>1, <2>2, <2>3 DEF LeavesFamily
<1>18. QED
  BY <1>11, <1>12, <1>13, <1>14, <1>15, <1>16, <1>17 DEF Sleepers, Kin

LEMMA ZombieFamily ==
  ASSUME Inv, BecomeZombie
  PROVE  Sleepers' /\ Kin'
<1>1. /\ kpc[cur] = "exit"
      /\ status' = [status EXCEPT ![cur] = "ZOMBIE"]
      /\ kpc' = [kpc EXCEPT ![cur] = "sched"]
      /\ back' = [back EXCEPT ![cur] = "ret"]
      /\ ev' = [ev EXCEPT ![cur] = Null]
      /\ UNCHANGED <<pptr, wait, cur>>
  BY DEF BecomeZombie, At, Goto, schedVars
<1>2. TypeOK /\ Sleepers /\ Kin
  BY DEF Inv, TypeInv
<1> USE Types, SlotsType, <1>1, <1>2
<1>3. WaitMatches'
  BY DEF Sleepers, WaitMatches, PlacesMatch
<1>4. PlacesMatch' /\ EventsMatch'
  BY DEF Sleepers, PlacesMatch, EventsMatch, Away
<1>5. /\ cur # InitProc => \A s \in Slots : status[s] # "EMPTY" => pptr[s] # cur
      /\ pptr[cur] \in Slots /\ status[cur] # "FORKING"
      /\ pptr[cur] # InitProc => status[pptr[cur]] # "WAIT"
  BY DEF Kin, LeavesFamily
<1>6. status[cur] # "EMPTY"
  BY DEF Inv, RunInv, Leaving
<1>7. ParentsLive'
  <2>1. SUFFICES ASSUME NEW s \in Slots, status'[s] \notin {"EMPTY", "FORKING"}
                 PROVE  /\ pptr[s] \in Slots
                        /\ \/ pptr[s] = InitProc
                           \/ status'[pptr[s]] \notin {"EMPTY", "FORKING", "ZOMBIE"}
    BY DEF ParentsLive
  <2>2. CASE s = cur
    <3>1. CASE cur = InitProc
      BY <2>2, <3>1 DEF Kin, InitStays
    <3>2. CASE cur # InitProc
      BY <2>2, <3>2, <1>5, <1>6 DEF Kin, ParentsLive
    <3>3. QED
      BY <3>1, <3>2
  <2>3. CASE s # cur
    <3>1. status[s] \notin {"EMPTY", "FORKING"}
      BY <2>1, <2>3
    <3>2. pptr[s] = InitProc \/ pptr[s] # cur
      BY <1>5, <3>1
    <3>3. QED
      BY <3>1, <3>2 DEF Kin, ParentsLive
  <2>4. QED
    BY <2>2, <2>3
<1>8. WaitersHaveNoZombie'
  <2> SUFFICES ASSUME NEW s \in Slots \ {InitProc}, status'[s] = "WAIT",
                      NEW c \in Slots, status'[c] = "ZOMBIE", pptr[c] = s
               PROVE  FALSE
    BY DEF WaitersHaveNoZombie, Zombies
  <2>1. status[s] = "WAIT"
    OBVIOUS
  <2>2. CASE c = cur
    BY <1>5, <2>1, <2>2
  <2>3. CASE c # cur
    BY <2>1, <2>3 DEF Kin, WaitersHaveNoZombie, Zombies
  <2>4. QED
    BY <2>2, <2>3
<1>9. InitStays' /\ LeavesFamily'
  BY DEF Kin, InitStays, LeavesFamily
<1>10. QED
  BY <1>3, <1>4, <1>7, <1>8, <1>9 DEF Sleepers, Kin

(* wait gives up a zombie's slot; a zombie other than init is no parent.   *)
LEMMA ReapFamily ==
  ASSUME Inv, WaitScan, Zombies(cur) # {}
  PROVE  Sleepers' /\ Kin'
<1> DEFINE z == First(Zombies(cur))
<1>1. z \in Slots /\ status[z] = "ZOMBIE" /\ pptr[z] = cur
  <2>1. Zombies(cur) \in SUBSET Nat
    BY SlotsType DEF Zombies
  <2>2. z \in Zombies(cur)
    BY <2>1, FirstOf
  <2>3. QED
    BY <2>2 DEF Zombies
<1>2. /\ kpc[cur] = "scan"
      /\ status' = [status EXCEPT ![z] = "EMPTY"]
      /\ kpc' = [kpc EXCEPT ![cur] = "ret"]
      /\ UNCHANGED <<pptr, wait, back, ev, cur>>
  BY DEF WaitScan, At, Goto, Psleep, schedVars
<1> HIDE DEF z
<1>3. status[cur] = "RUNNING"
  BY <1>2 DEF Inv, RunInv, OneRunning
<1>4. TypeOK /\ Sleepers /\ Kin
  BY DEF Inv, TypeInv
<1> USE Types, SlotsType, <1>1, <1>2, <1>3, <1>4
<1>5. z # cur /\ z # InitProc
  BY DEF Kin, InitStays
<1>6. WaitMatches'
  BY DEF Sleepers, WaitMatches, PlacesMatch
<1>7. PlacesMatch' /\ EventsMatch'
  BY DEF Sleepers, PlacesMatch, EventsMatch, Away
<1>8. ParentsLive'
  BY <1>5 DEF Kin, ParentsLive
<1>9. WaitersHaveNoZombie'
  BY DEF Kin, WaitersHaveNoZombie, Zombies
<1>10. InitStays' /\ LeavesFamily'
  BY <1>5 DEF Kin, InitStays, LeavesFamily
<1>11. QED
  BY <1>6, <1>7, <1>8, <1>9, <1>10 DEF Sleepers, Kin

-----------------------------------------------------------------------------
(* Going to sleep and waking up *)

(* psleep by the running process: p_wait and p_status are set together.    *)
LEMMA PsleepFamily ==
  ASSUME Inv, NEW event, NEW st \in Asleep, NEW place \in {"ret", "wait", "iocheck"},
         Psleep(event, st, place), UNCHANGED <<pptr, ev, cur>>,
         st = "SLEEP" => event \in Events,
         st = "WAIT" => event = cur /\ Zombies(cur) = {},
         st = "PAUSE" => event = Null,
         place = "iocheck" => ev[cur] \in Events,
         kpc[cur] # "exit"
  PROVE  Sleepers' /\ Kin'
<1>1. /\ status[cur] = "RUNNING"
      /\ status' = [status EXCEPT ![cur] = st]
      /\ wait' = [wait EXCEPT ![cur] = event]
      /\ back' = [back EXCEPT ![cur] = place]
      /\ kpc' = [kpc EXCEPT ![cur] = "slept"]
  BY DEF Psleep, Goto
<1>2. TypeOK /\ Sleepers /\ Kin
  BY DEF Inv, TypeInv
<1> USE Types, SlotsType, <1>1, <1>2
<1>3. WaitMatches'
  BY DEF Sleepers, WaitMatches, PlacesMatch, Asleep
<1>4. PlacesMatch' /\ EventsMatch'
  BY DEF Sleepers, PlacesMatch, EventsMatch, Away, Asleep
<1>5. ParentsLive'
  BY DEF Kin, ParentsLive, Asleep
<1>6. WaitersHaveNoZombie'
  <2> SUFFICES ASSUME NEW s \in Slots \ {InitProc}, status'[s] = "WAIT",
                      NEW c \in Slots, status'[c] = "ZOMBIE", pptr'[c] = s
               PROVE  FALSE
    BY DEF WaitersHaveNoZombie, Zombies
  <2>1. status[c] = "ZOMBIE" /\ pptr[c] = s
    BY DEF Asleep
  <2>2. CASE s = cur
    BY <2>1, <2>2 DEF Zombies
  <2>3. CASE s # cur
    BY <2>1, <2>3 DEF Kin, WaitersHaveNoZombie, Zombies
  <2>4. QED
    BY <2>2, <2>3
<1>7. InitStays' /\ LeavesFamily'
  BY DEF Kin, InitStays, LeavesFamily, Asleep
<1>8. QED
  BY <1>3, <1>4, <1>5, <1>6, <1>7 DEF Sleepers, Kin

(* What getproc swaps in was READY, and waits for nothing.                 *)
LEMMA GetprocFamily ==
  ASSUME Inv, Getproc
  PROVE  Sleepers' /\ Kin'
<1>0. TypeOK /\ Sleepers /\ Kin
  BY DEF Inv, TypeInv
<1>1. NextSlot \in Slots
  BY <1>0, ProcAssumption DEF NextSlot, TypeOK, Slots
<1>2. CASE status[NextSlot] # "READY"
  <2>1. UNCHANGED <<status, wait, pptr, kpc, back, ev, cur>>
    BY <1>2 DEF Getproc
  <2>2. (\A s \in Slots : Roused(s)) /\ GoesOn
    BY <2>1 DEF Roused, Same, GoesOn
  <2>3. QED
    BY <1>0, <2>1, <2>2, QuietSleepers, QuietKin
<1>3. CASE status[NextSlot] = "READY"
  <2> DEFINE n == NextSlot
  <2>1. /\ kpc[cur] = "sched" /\ cur' = n
        /\ status' = [status EXCEPT ![n] = "RUNNING"]
        /\ kpc' = [kpc EXCEPT ![n] = back[n]]
        /\ UNCHANGED <<wait, pptr, back, ev>>
    BY <1>3 DEF Getproc, At
  <2>2. n \in Slots /\ status[n] = "READY"
    BY <1>1, <1>3
  <2> HIDE DEF n
  <2>3. kpc[n] = "sched"
    BY <1>0, <2>1, <2>2 DEF Sleepers, PlacesMatch, Away
  <2> USE Types, SlotsType, <1>0, <2>1, <2>2, <2>3
  <2>4. WaitMatches'
    BY DEF Sleepers, WaitMatches
  <2>5. PlacesMatch'
    BY DEF Sleepers, PlacesMatch, Away
  <2>6. EventsMatch'
    BY DEF Sleepers, EventsMatch
  <2>7. ParentsLive'
    BY DEF Kin, ParentsLive
  <2>8. WaitersHaveNoZombie'
    BY DEF Kin, WaitersHaveNoZombie, Zombies
  <2>9. InitStays'
    BY DEF Kin, InitStays
  <2>10. kpc'[cur'] # "exit"
    OBVIOUS
  <2>11. LeavesFamily'
    BY <2>10 DEF LeavesFamily
  <2>12. QED
    BY <2>4, <2>5, <2>6, <2>7, <2>8, <2>9, <2>11 DEF Sleepers, Kin
<1>4. QED
  BY <1>2, <1>3

-----------------------------------------------------------------------------

LEMMA InitFamily == Init => Sleepers /\ Kin
<1> SUFFICES ASSUME Init PROVE Sleepers /\ Kin
  OBVIOUS
<1>1. Sleepers
  BY SlotsType DEF Init, Sleepers, WaitMatches, PlacesMatch, EventsMatch, Away
<1>2. ParentsLive /\ WaitersHaveNoZombie
  BY SlotsType DEF Init, ParentsLive, WaitersHaveNoZombie
<1>3. InitStays /\ LeavesFamily
  BY SlotsType DEF Init, InitStays, LeavesFamily
<1>4. QED
  BY <1>1, <1>2, <1>3 DEF Kin

(* Steps that leave the table alone, apart from signals and wakeups.       *)
LEMMA QuietFamily ==
  ASSUME Inv, \A s \in Slots : Roused(s), GoesOn, UNCHANGED pptr
  PROVE  Sleepers' /\ Kin'
BY QuietSleepers, QuietKin DEF Inv, TypeInv

LEMMA CallFamily ==
  ASSUME Inv, Call
  PROVE  Sleepers' /\ Kin'
<1> USE DEF ptabVars, sigVars, schedVars, trapVars
<1>1. TypeOK /\ Sleepers
  BY DEF Inv, TypeInv
<1>2. CASE Fork
  <2>1. CASE FreeSlots = {}
    <3>1. (\A s \in Slots : Roused(s)) /\ GoesOn /\ UNCHANGED pptr
      BY <1>2, <2>1 DEF Fork, At, Goto, GoesOn, Calm, Roused, Same
    <3>2. QED
      BY <3>1, QuietFamily
  <2>2. QED
    BY <1>2, <2>1, ForkFamily
<1>3. CASE Exit
  BY <1>3, DoexitFamily DEF Exit, At
<1>4. CASE Wait \/ PauseCall \/ Signal \/ Alarm \/ OtherCall \/ Execve
  <2>1. (\A s \in Slots : Roused(s)) /\ GoesOn /\ UNCHANGED pptr
    BY <1>4 DEF Wait, PauseCall, Signal, Alarm, OtherCall, Execve, At, Goto,
                GoesOn, Calm, Roused, Same
  <2>2. QED
    BY <2>1, QuietFamily
<1>5. CASE IoCall
  <2>1. PICK e \in Events : ev' = [ev EXCEPT ![cur] = e]
    BY <1>5 DEF IoCall
  <2>2. /\ kpc[cur] = "user" /\ kpc' = [kpc EXCEPT ![cur] = "io"]
        /\ UNCHANGED <<status, pptr, wait, back, cur>>
    BY <1>5 DEF IoCall, At, Goto
  <2>3. WaitMatches' /\ PlacesMatch'
    BY <1>1, <2>2, Types DEF Sleepers, WaitMatches, PlacesMatch
  <2>4. EventsMatch'
    BY <1>1, <2>1, <2>2, Types DEF Sleepers, EventsMatch
  <2>5. Kin'
    BY <2>2, <1>1, Types DEF Inv, Kin, ParentsLive, WaitersHaveNoZombie, Zombies,
                             InitStays, LeavesFamily
  <2>6. QED
    BY <2>3, <2>4, <2>5 DEF Sleepers
<1>6. CASE IoWakeup
  <2>1. PICK e \in Events : Wakeup({e})
    BY <1>6 DEF IoWakeup
  <2>2. GoesOn /\ UNCHANGED pptr /\ kpc[cur] # "exit"
    BY <1>6 DEF IoWakeup, At, Goto, GoesOn, Calm
  <2>3. \A s \in Slots : Roused(s)
    <3>1. {e} \in SUBSET (Slots \cup Events)
      OBVIOUS
    <3>2. QED
      BY <1>1, <2>1, <2>2, <3>1, WakeupRouses
  <2>4. QED
    BY <2>2, <2>3, QuietFamily
<1>7. CASE BrokenPipe \/ Kill
  <2>1. GoesOn /\ UNCHANGED pptr
    BY <1>7 DEF BrokenPipe, Kill, At, Goto, GoesOn, Calm
  <2>2. \A s \in Slots : Roused(s)
    <3>1. \E sigs : Ssig(sigs)
      BY <1>7 DEF BrokenPipe, Kill
    <3>2. QED
      BY <1>1, <3>1, SsigRouses
  <2>3. QED
    BY <2>1, <2>2, QuietFamily
<1>8. QED
  BY <1>2, <1>3, <1>4, <1>5, <1>6, <1>7 DEF Call

LEMMA KernelFamily ==
  ASSUME Inv, Kernel
  PROVE  Sleepers' /\ Kin'
<1> USE DEF ptabVars, sigVars, schedVars, trapVars
<1>1. TypeOK /\ Sleepers /\ Kin
  BY DEF Inv, TypeInv
<1>2. CASE Newproc
  BY <1>2, NewprocFamily
<1>3. CASE WaitChksigs \/ UnixReturn \/ CalltrapTest \/ CalltrapVector \/ CalltrapCall
  <2>1. (\A s \in Slots : Roused(s)) /\ GoesOn /\ UNCHANGED pptr
    BY <1>3 DEF WaitChksigs, UnixReturn, CalltrapTest, CalltrapVector, CalltrapCall,
                At, Goto, GoesOn, Calm, Roused, Same
  <2>2. QED
    BY <2>1, QuietFamily
<1>4. CASE WaitScan
  <2>1. CASE Zombies(cur) # {}
    BY <1>4, <2>1, ReapFamily
  <2>2. CASE Zombies(cur) = {}
    <3>1. /\ Psleep(cur, "WAIT", "wait") /\ UNCHANGED <<pptr, ev, cur>>
          /\ kpc[cur] # "exit"
      BY <1>4, <2>2 DEF WaitScan, At
    <3>2. QED
      BY <2>2, <3>1, PsleepFamily DEF Asleep
  <2>3. QED
    BY <2>1, <2>2
<1>5. CASE PauseSleep
  <2>1. /\ Psleep(Null, "PAUSE", "ret") /\ UNCHANGED <<pptr, ev, cur>>
        /\ kpc[cur] # "exit"
    BY <1>5 DEF PauseSleep, At
  <2>2. QED
    BY <2>1, PsleepFamily DEF Asleep
<1>6. CASE IoSleep
  <2>1. /\ Psleep(ev[cur], "SLEEP", "iocheck") /\ UNCHANGED <<pptr, ev, cur>>
        /\ kpc[cur] = "io"
    BY <1>6 DEF IoSleep, At
  <2>2. ev[cur] \in Events
    BY <1>1, <2>1, Types DEF Sleepers, EventsMatch
  <2>3. QED
    BY <2>1, <2>2, PsleepFamily DEF Asleep
<1>7. CASE IoCheck
  <2>1. /\ kpc[cur] = "iocheck"
        /\ UNCHANGED <<status, pptr, wait, back, cur>>
    BY <1>7 DEF IoCheck, At
  <2>2. CASE kpc' = [kpc EXCEPT ![cur] = "ret"] /\ ev' = [ev EXCEPT ![cur] = Null]
    <3>1. (\A s \in Slots : Roused(s)) /\ GoesOn
      BY <1>1, <2>1, <2>2, Types DEF GoesOn, Calm, Roused, Same
    <3>2. QED
      BY <2>1, <3>1, QuietFamily
  <2>3. CASE kpc' = [kpc EXCEPT ![cur] = "io"] /\ UNCHANGED ev
    <3>1. Sleepers'
      BY <1>1, <2>1, <2>3, Types DEF Sleepers, WaitMatches, PlacesMatch, EventsMatch
    <3>2. Kin'
      BY <1>1, <2>1, <2>3, Types DEF Kin, ParentsLive, WaitersHaveNoZombie, Zombies,
                                     InitStays, LeavesFamily
    <3>3. QED
      BY <3>1, <3>2
  <2>4. QED
    BY <1>7, <2>2, <2>3 DEF IoCheck, Goto
<1>8. CASE Die
  BY <1>8, DoexitFamily DEF Die
<1>9. CASE BecomeZombie
  BY <1>9, ZombieFamily
<1>10. CASE Swapout
  <2>1. /\ kpc[cur] = "slept" /\ kpc' = [kpc EXCEPT ![cur] = "sched"]
        /\ UNCHANGED <<status, pptr, wait, back, ev, cur>>
    BY <1>10 DEF Swapout, At, Goto
  <2>2. Sleepers'
    BY <1>1, <2>1, Types DEF Sleepers, WaitMatches, PlacesMatch, EventsMatch
  <2>3. Kin'
    BY <1>1, <2>1, Types DEF Kin, ParentsLive, WaitersHaveNoZombie, Zombies,
                             InitStays, LeavesFamily
  <2>4. QED
    BY <2>2, <2>3
<1>11. CASE Getproc
  BY <1>11, GetprocFamily
<1>12. QED
  BY <1>2, <1>3, <1>4, <1>5, <1>6, <1>7, <1>8, <1>9, <1>10, <1>11 DEF Kernel

LEMMA StepFamily == Inv /\ [Next]_vars => Sleepers' /\ Kin'
<1> SUFFICES ASSUME Inv, [Next]_vars PROVE Sleepers' /\ Kin'
  OBVIOUS
<1>1. CASE Clock
  <2>1. GoesOn /\ UNCHANGED pptr
    BY <1>1 DEF Clock, ClockSecond, ClockTick, GoesOn, ptabVars, schedVars
  <2>2. \A s \in Slots : Roused(s)
    <3>1. CASE ClockSecond
      <4>1. \E sigs : Ssig(sigs)
        BY <3>1 DEF ClockSecond
      <4>2. QED
        BY <4>1, SsigRouses DEF Inv, TypeInv
    <3>2. CASE ClockTick
      BY <3>2 DEF ClockTick, ptabVars, Roused, Same
    <3>3. QED
      BY <1>1, <3>1, <3>2 DEF Clock
  <2>3. QED
    BY <2>1, <2>2, QuietFamily
<1>2. CASE UNCHANGED vars
  <2>1. (\A s \in Slots : Roused(s)) /\ GoesOn /\ UNCHANGED pptr
    BY <1>2 DEF vars, ptabVars, schedVars, Roused, Same, GoesOn
  <2>2. QED
    BY <2>1, QuietFamily
<1>3. QED
  BY <1>1, <1>2, CallFamily, KernelFamily DEF Next

LEMMA InvHolds == Spec => []Inv
<1>1. Init => Sleepers /\ Kin
  BY InitFamily
<1>2. TypeInv /\ RunInv /\ (Sleepers /\ Kin) /\ [Next]_vars => (Sleepers /\ Kin)'
  BY StepFamily DEF Inv
<1>3. TypeInv /\ RunInv /\ (Sleepers /\ Kin) => Inv
  BY DEF Inv
<1>4. QED
  BY <1>1, <1>2, <1>3, TypeInvHolds, RunInvHolds, PTL DEF Spec

(* p_wait and p_status agree whenever anybody looks: psleep, wakeup, ssig  *)
(* and doexit's overlay of p_wait never leave a sleeper that its wakeup    *)
(* does not find, nor find one that does not sleep.                        *)
THEOREM WaitsMatch == Spec => []WaitMatches
<1>1. Inv => WaitMatches
  BY DEF Inv, Sleepers
<1>2. QED
  BY <1>1, InvHolds, PTL

(* p_pptr always names a process that can still wait, or init: doexit's    *)
(* search of the table comes before anybody can see the process dead.      *)
THEOREM ParentsStay == Spec => []ParentsLive
<1>1. Inv => ParentsLive
  BY DEF Inv, Kin
<1>2. QED
  BY <1>1, InvHolds, PTL

(* wait() never sleeps through the exit of a child.                        *)
THEOREM NoExitMissed == Spec => []WaitersHaveNoZombie
<1>1. Inv => WaitersHaveNoZombie
  BY DEF Inv, Kin
<1>2. QED
  BY <1>1, InvHolds, PTL

-----------------------------------------------------------------------------
(* Pipes *)

L == RING * BS

LEMMA Sizes ==
  /\ L \in Nat /\ L > 0 /\ Room \in Nat /\ Room < L
  /\ Cells = 0 .. L - 1
<1>1. /\ RING * BS \in Nat /\ CAPACITY * BS < RING * BS
      /\ CAPACITY * BS \in Nat /\ RING * BS > 0
  BY PipeAssumption
<1>2. QED
  BY <1>1 DEF L, Room, Cells

-----------------------------------------------------------------------------
(* Places on the ring *)

LEMMA ModSmall ==
  ASSUME NEW N \in Nat, N > 0, NEW x \in 0 .. N - 1
  PROVE  x % N = x
OBVIOUS

LEMMA ModOver ==
  ASSUME NEW N \in Nat, N > 0, NEW x \in N .. 2 * N - 1
  PROVE  x % N = x - N
OBVIOUS

LEMMA ModUnder ==
  ASSUME NEW N \in Nat, N > 0, NEW x \in -N .. -1
  PROVE  x % N = x + N
OBVIOUS

LEMMA AfterIs ==
  ASSUME NEW p \in Cells, NEW n \in 0 .. L - 1
  PROVE  After(p, n) = IF p + n < L THEN p + n ELSE p + n - L
<1>1. p \in 0 .. L - 1 /\ L \in Nat /\ L > 0
  BY Sizes
<1> HIDE DEF L
<1>2. After(p, n) = (p + n) % L
  BY DEF After, L
<1>3. CASE p + n < L
  <2>1. p + n \in 0 .. L - 1
    BY <1>1, <1>3
  <2>2. QED
    BY <1>1, <1>2, <1>3, <2>1, ModSmall
<1>4. CASE ~(p + n < L)
  <2>1. p + n \in L .. 2 * L - 1
    BY <1>1, <1>4
  <2>2. QED
    BY <1>1, <1>2, <1>4, <2>1, ModOver
<1>5. QED
  BY <1>3, <1>4

LEMMA AfterType ==
  ASSUME NEW p \in Cells, NEW n \in 0 .. L - 1
  PROVE  After(p, n) \in Cells
BY AfterIs, Sizes

LEMMA AfterAfter ==
  ASSUME NEW p \in Cells, NEW a \in Nat, NEW b \in Nat, a + b < L
  PROVE  After(After(p, a), b) = After(p, a + b)
<1>1. p \in 0 .. L - 1 /\ L \in Nat /\ a \in 0 .. L - 1 /\ b \in 0 .. L - 1
      /\ a + b \in 0 .. L - 1
  BY Sizes
<1>2. After(p, a) \in Cells
  BY <1>1, AfterType
<1>3. /\ After(p, a) = IF p + a < L THEN p + a ELSE p + a - L
      /\ After(p, a + b) = IF p + (a + b) < L THEN p + (a + b) ELSE p + (a + b) - L
      /\ After(After(p, a), b) = IF After(p, a) + b < L THEN After(p, a) + b
                                 ELSE After(p, a) + b - L
  BY <1>1, <1>2, AfterIs
<1> HIDE DEF L
<1>4. QED
  BY <1>1, <1>3

LEMMA AfterOnce ==
  ASSUME NEW p \in Cells, NEW a \in 0 .. L - 1, NEW b \in 0 .. L - 1,
         After(p, a) = After(p, b)
  PROVE  a = b
<1>1. /\ After(p, a) = IF p + a < L THEN p + a ELSE p + a - L
      /\ After(p, b) = IF p + b < L THEN p + b ELSE p + b - L
  BY AfterIs
<1>2. p \in 0 .. L - 1 /\ L \in Nat /\ a \in 0 .. L - 1 /\ b \in 0 .. L - 1
  BY Sizes
<1> HIDE DEF L
<1>3. (IF p + a < L THEN p + a ELSE p + a - L) = (IF p + b < L THEN p + b ELSE p + b - L)
  BY <1>1
<1>4. QED
  BY <1>2, <1>3

LEMMA Distance ==
  ASSUME NEW p \in Cells, NEW j \in 0 .. L - 1
  PROVE  (After(p, j) - p) % L = j
<1>1. /\ After(p, j) = IF p + j < L THEN p + j ELSE p + j - L
      /\ p \in 0 .. L - 1 /\ L \in Nat /\ L > 0
  BY AfterIs, Sizes
<1> HIDE DEF L
<1>2. CASE p + j < L
  <2>1. After(p, j) - p = j
    BY <1>1, <1>2
  <2>2. QED
    BY <1>1, <2>1, ModSmall
<1>3. CASE ~(p + j < L)
  <2>1. After(p, j) - p = j - L /\ j - L \in -L .. -1
    BY <1>1, <1>3
  <2>2. QED
    BY <1>1, <2>1, ModUnder
<1>4. QED
  BY <1>2, <1>3

LEMMA BlockOf ==
  ASSUME NEW c \in Cells
  PROVE  c \div BS \in 0 .. RING - 1
<1>1. \A R, B, x \in Nat : B > 0 /\ x < R * B => x \div B \in 0 .. R - 1
  OBVIOUS
<1>2. QED
  BY <1>1, Sizes, PipeAssumption DEF L

-----------------------------------------------------------------------------
(* Type correctness *)

LEMMA Numbers ==
  ASSUME PipeTypeOK
  PROVE  /\ size \in 0 .. Room /\ Room \in Nat
         /\ sent \in Nat /\ taken \in Nat
         /\ freeBlks \in 0 .. RING /\ RING \in Nat
BY Sizes, PipeAssumption DEF PipeTypeOK

(* A call moves at most what there is, or what there is room for.          *)
LEMMA ReadMoves ==
  ASSUME PipeTypeOK, NEW n \in Nat
  PROVE  Amount(n) \in 0 .. size
BY Numbers DEF Amount, Shorter

LEMMA WriteMoves ==
  ASSUME PipeTypeOK, NEW n \in Nat, NEW place, NEW m \in Stored(place, n), ~WriteWaits(n)
  PROVE  m \in 0 .. L - 1 /\ size + m \in 0 .. Room
<1>1. m \in 0 .. n /\ n <= Room - size
  BY Numbers DEF Stored, WriteWaits
<1>2. QED
  BY <1>1, Numbers, Sizes

LEMMA NewBlocksType ==
  ASSUME NEW place \in Cells, NEW m \in 0 .. L - 1
  PROVE  /\ NewBlocks(place, m) \subseteq 0 .. RING - 1
         /\ Cardinality(NewBlocks(place, m)) \in Nat
<1>1. Run(place, m) \subseteq Cells
  <2>1. \A i \in 0 .. m - 1 : i \in 0 .. L - 1
    BY Sizes
  <2>2. QED
    BY <2>1, AfterType DEF Run
<1>2. NewBlocks(place, m) \subseteq 0 .. RING - 1
  BY <1>1, BlockOf DEF NewBlocks
<1>3. IsFiniteSet(0 .. RING - 1)
  BY FS_Interval, PipeAssumption
<1>4. QED
  BY <1>2, <1>3, FS_Subset, FS_CardinalityType

LEMMA EndType == \A p \in Procs : End(p) \in Ends
BY DEF End, Ends

LEMMA ReturnType ==
  ASSUME PipeTypeOK, NEW p \in Procs, NEW place \in Cells, NEW m \in 0 .. L - 1,
         Return(p, place, m)
  PROVE  /\ ptr' \in [Ends -> Cells] /\ stale' \in BOOLEAN
         /\ count' \in [Procs -> 0 .. MaxCount] /\ offset' \in [Procs -> Cells]
         /\ holders' = holders
<1>1. After(place, m) \in Cells
  BY AfterType
<1>2. 0 \in Cells /\ 0 \in 0 .. MaxCount
  BY Sizes, PipeAssumption
<1>3. QED
  BY <1>1, <1>2, EndType DEF Return, PipeTypeOK

LEMMA GoType ==
  ASSUME PipeTypeOK, NEW p \in Procs, NEW n \in 0 .. MaxCount, NEW place \in Cells,
         Go(p, n, place)
  PROVE  PipeTypeOK'
<1>0. n \in Nat /\ 0 \in 0 .. L - 1
  BY Sizes, PipeAssumption
<1>1. CASE ReadSleep(p, n, place) \/ WriteSleep(p, n, place)
  <2>1. Sleep(p, n, place)
    BY <1>1 DEF ReadSleep, WriteSleep
  <2>2. QED
    BY <2>1 DEF Sleep, PipeTypeOK, States
<1>2. CASE ReadBytes(p, n, place)
  <2> DEFINE m == Amount(n)
  <2>1. /\ taken' = taken + m /\ size' = size - m
        /\ state' = [(IF m > 0 THEN PipeWakeup(state) ELSE state) EXCEPT ![p] = "user"]
        /\ order' = (order /\ \A i \in 1 .. m : cell[After(place, i - 1)] = taken + i)
        /\ Return(p, place, m)
        /\ UNCHANGED <<cell, blocks, freeBlks, sent>>
    BY <1>2 DEF ReadBytes, ReadWakes
  <2>2. m \in 0 .. size
    BY <1>0, ReadMoves
  <2> HIDE DEF m
  <2>3. m \in 0 .. L - 1
    BY <2>2, Numbers, Sizes
  <2>4. taken' \in Nat /\ size' \in 0 .. Room
    BY <2>1, <2>2, Numbers
  <2>5. state' \in [Procs -> States]
    BY <2>1 DEF PipeTypeOK, States, PipeWakeup
  <2>6. order' \in BOOLEAN
    BY <2>1 DEF PipeTypeOK
  <2>7. QED
    BY <2>1, <2>3, <2>4, <2>5, <2>6, ReturnType DEF PipeTypeOK
<1>3. CASE NoReaders(p, n, place)
  <2>1. state' \in [Procs -> States]
    BY <1>3 DEF NoReaders, PipeTypeOK, States
  <2>2. QED
    BY <1>0, <1>3, <2>1, ReturnType DEF NoReaders, PipeTypeOK
<1>4. CASE WriteBytes(p, n, place)
  <2>1. PICK m \in Stored(place, n) :
          /\ sent' = sent + m
          /\ cell' = [c \in Cells |->
                        IF c \in Run(place, m)
                        THEN sent + 1 + ((c - place) % (RING * BS)) ELSE cell[c]]
          /\ blocks' = blocks \cup NewBlocks(place, m)
          /\ freeBlks' = freeBlks - Cardinality(NewBlocks(place, m))
          /\ size' = size + m
          /\ state' = [(IF m > 0 THEN PipeWakeup(state) ELSE state) EXCEPT ![p] = "user"]
          /\ Return(p, place, m)
    BY <1>4 DEF WriteBytes
  <2>2. m \in 0 .. L - 1 /\ size + m \in 0 .. Room
    BY <1>0, <1>4, WriteMoves DEF WriteBytes
  <2>3. sent' \in Nat /\ size' \in 0 .. Room
    BY <2>1, <2>2, Numbers
  <2>4. cell' \in [Cells -> Nat]
    <3>1. \A c \in Cells : (c - place) % L \in Nat
      BY Sizes
    <3>2. \A c \in Cells : sent + 1 + ((c - place) % L) \in Nat
      BY <3>1, Numbers
    <3>3. QED
      BY <2>1, <3>2 DEF PipeTypeOK, L
  <2>5. /\ NewBlocks(place, m) \subseteq 0 .. RING - 1
        /\ Cardinality(NewBlocks(place, m)) \in Nat
    BY <2>2, NewBlocksType
  <2>6. Cardinality(NewBlocks(place, m)) <= freeBlks
    BY DEF Stored, Fits
  <2>7. blocks' \subseteq 0 .. RING - 1
    BY <2>1, <2>5 DEF PipeTypeOK
  <2>8. freeBlks' \in 0 .. RING
    <3> DEFINE k == Cardinality(NewBlocks(place, m))
    <3>1. k \in Nat /\ k <= freeBlks /\ freeBlks' = freeBlks - k
      BY <2>1, <2>5, <2>6
    <3> HIDE DEF k
    <3>2. QED
      BY <3>1, Numbers
  <2>9. state' \in [Procs -> States]
    BY <2>1 DEF PipeTypeOK, States, PipeWakeup
  <2>10. QED
    BY <1>4, <2>1, <2>2, <2>3, <2>4, <2>7, <2>8, <2>9, ReturnType DEF WriteBytes, PipeTypeOK
<1>5. QED
  BY <1>1, <1>2, <1>3, <1>4 DEF Go

LEMMA LeaveType ==
  ASSUME PipeTypeOK, NEW p \in Procs, Leave(p)
  PROVE  PipeTypeOK'
<1>1. 0 \in Cells /\ 0 \in 0 .. MaxCount
  BY Sizes, PipeAssumption
<1>2. state' \in [Procs -> States]
  BY DEF Leave, CloseWakes, PipeWakeup, PipeTypeOK, States
<1>3. holders' \in [Ends -> SUBSET Procs]
  BY EndType DEF Leave, PipeTypeOK
<1>4. QED
  BY <1>1, <1>2, <1>3 DEF Leave, PipeTypeOK

(* Every call is one of Go, with the count and the place it was given.     *)
LEMMA Calls ==
  ASSUME PipeTypeOK, NEW p \in Procs, Begin(p) \/ Proceed(p)
  PROVE  \E n \in 0 .. MaxCount, place \in Cells : Go(p, n, place)
<1>1. /\ ptr[End(p)] \in Cells /\ offset[p] \in Cells
      /\ count[p] \in 0 .. MaxCount
  BY EndType DEF PipeTypeOK
<1>2. QED
  BY <1>1 DEF Begin, Proceed

LEMMA PipeTypeStep == PipeTypeOK /\ [PipeNext]_pipeVars => PipeTypeOK'
<1> SUFFICES ASSUME PipeTypeOK, [PipeNext]_pipeVars PROVE PipeTypeOK'
  OBVIOUS
<1>1. ASSUME NEW p \in Procs, Begin(p) \/ Proceed(p) PROVE PipeTypeOK'
  BY <1>1, Calls, GoType
<1>2. ASSUME NEW p \in Procs, PipeSignal(p) PROVE PipeTypeOK'
  BY <1>2 DEF PipeSignal, PipeTypeOK, States
<1>3. ASSUME NEW p \in Procs, Close(p) \/ DieAsleep(p) PROVE PipeTypeOK'
  BY <1>3, LeaveType DEF Close, DieAsleep
<1>4. CASE UNCHANGED pipeVars
  BY <1>4 DEF pipeVars, PipeTypeOK
<1>5. QED
  BY <1>1, <1>2, <1>3, <1>4 DEF PipeNext

(* The size of a pipe stays within its 16 blocks, its places within the    *)
(* 18, and no more blocks are taken than the disk has.                     *)
THEOREM PipeTypeCorrect == PipeSpec => []PipeTypeOK
<1>1. PipeInit => PipeTypeOK
  <2>1. 0 \in 0 .. Room /\ 0 \in Cells /\ 0 \in 0 .. MaxCount
        /\ {1, RING} \subseteq 0 .. RING
    BY Sizes, PipeAssumption
  <2> SUFFICES ASSUME PipeInit PROVE PipeTypeOK
    OBVIOUS
  <2>2. size \in 0 .. Room /\ freeBlks \in 0 .. RING /\ blocks \subseteq 0 .. RING - 1
    BY <2>1 DEF PipeInit
  <2>3. holders \in [Ends -> SUBSET Procs]
    BY DEF PipeInit, Procs
  <2>4. QED
    BY <2>1, <2>2, <2>3 DEF PipeInit, PipeTypeOK, States
<1>2. QED
  BY <1>1, PipeTypeStep, PTL DEF PipeSpec

-----------------------------------------------------------------------------
(* Wakeups *)

NoSleeper(s) == \A p \in Procs : s[p] # "asleep"

LEMMA WokenAll ==
  ASSUME PipeTypeOK, NEW p \in Procs
  PROVE  NoSleeper([PipeWakeup(state) EXCEPT ![p] = "user"])
BY DEF NoSleeper, PipeWakeup, PipeTypeOK, States

(* What a sleeper waits for is unchanged when neither the size nor the     *)
(* ends that are open change.                                              *)
LEMMA StillWaits ==
  ASSUME PipeTypeOK, NobodyForgotten, UNCHANGED size, Refs' = Refs, NEW p \in Procs,
         \A q \in Procs \ {p} : state'[q] = "asleep" => state[q] = "asleep" /\ count'[q] = count[q],
         state'[p] = "asleep" => Waits(p)'
  PROVE  NobodyForgotten'
<1> SUFFICES ASSUME NEW q \in Procs, state'[q] = "asleep", q # p PROVE Waits(q)'
  BY DEF NobodyForgotten
<1>1. Waits(q) /\ count'[q] = count[q]
  BY DEF NobodyForgotten
<1>2. QED
  BY <1>1 DEF Waits, ReadWaits, WriteWaits

LEMMA SameRefs ==
  ASSUME \A e \in Ends : Open(e)' <=> Open(e)
  PROVE  Refs' = Refs
<1>1. {e \in Ends : Open(e)'} = {e \in Ends : Open(e)}
  OBVIOUS
<1>2. QED
  BY <1>1 DEF Refs

LEMMA GoWakes ==
  ASSUME PipeTypeOK, NobodyForgotten, NEW p \in Procs, NEW n \in 0 .. MaxCount,
         NEW place \in Cells, Go(p, n, place)
  PROVE  NobodyForgotten'
<1>1. Refs' = Refs
  <2>1. holders' = holders
    BY DEF Go, ReadSleep, WriteSleep, Sleep, ReadBytes, WriteBytes, NoReaders, Return
  <2>2. QED
    BY <2>1, SameRefs DEF Open
<1>2. CASE ReadSleep(p, n, place) \/ WriteSleep(p, n, place)
  <2>1. /\ state' = [state EXCEPT ![p] = "asleep"] /\ count' = [count EXCEPT ![p] = n]
        /\ size' = size
    BY <1>2 DEF ReadSleep, WriteSleep, Sleep
  <2>2. count'[p] = n
    BY <2>1 DEF PipeTypeOK
  <2>3. Waits(p)'
    BY <1>1, <1>2, <2>1, <2>2, PipeAssumption
    DEF Waits, ReadSleep, WriteSleep, ReadWaits, WriteWaits
  <2>4. QED
    BY <1>1, <2>1, <2>3, StillWaits DEF PipeTypeOK
<1>3. ASSUME NEW m \in Nat,
             state' = [(IF m > 0 THEN PipeWakeup(state) ELSE state) EXCEPT ![p] = "user"],
             size' = size - m \/ size' = size + m,
             Return(p, place, m)
      PROVE  NobodyForgotten'
  <2>1. CASE m > 0
    <3>1. NoSleeper(state')
      BY <1>3, <2>1, WokenAll
    <3>2. QED
      BY <3>1 DEF NoSleeper, NobodyForgotten
  <2>2. CASE m = 0
    <3>1. size' = size
      BY <1>3, <2>2, Numbers
    <3>2. state' = [state EXCEPT ![p] = "user"] /\ count' = [count EXCEPT ![p] = 0]
      BY <1>3, <2>2 DEF Return
    <3>3. QED
      BY <1>1, <3>1, <3>2, StillWaits DEF PipeTypeOK
  <2>3. QED
    BY <2>1, <2>2
<1>4. CASE ReadBytes(p, n, place)
  <2>1. Amount(n) \in Nat
    BY PipeAssumption, ReadMoves, Numbers
  <2>2. QED
    BY <1>3, <1>4, <2>1 DEF ReadBytes, ReadWakes
<1>5. CASE NoReaders(p, n, place)
  <2>1. state' = [state EXCEPT ![p] = "user"] /\ count' = [count EXCEPT ![p] = 0]
        /\ size' = size
    BY <1>5 DEF NoReaders, Return
  <2>2. QED
    BY <1>1, <2>1, StillWaits DEF PipeTypeOK
<1>6. CASE WriteBytes(p, n, place)
  <2>1. PICK m \in Stored(place, n) :
          /\ size' = size + m
          /\ state' = [(IF m > 0 THEN PipeWakeup(state) ELSE state) EXCEPT ![p] = "user"]
          /\ Return(p, place, m)
    BY <1>6 DEF WriteBytes
  <2>2. m \in Nat
    BY PipeAssumption DEF Stored
  <2>3. QED
    BY <1>3, <2>1, <2>2
<1>7. QED
  BY <1>2, <1>4, <1>5, <1>6 DEF Go

LEMMA LeaveWakes ==
  ASSUME PipeTypeOK, NobodyForgotten, NEW p \in Procs, Leave(p)
  PROVE  NobodyForgotten'
<1>1. End(p) \in Ends /\ holders' = [holders EXCEPT ![End(p)] = @ \ {p}]
      /\ p \in holders[End(p)]
  BY EndType DEF Leave
<1>2. CASE holders[End(p)] = {p}
  <2>1. NoSleeper(state')
    BY <1>2, WokenAll DEF Leave, CloseWakes
  <2>2. QED
    BY <2>1 DEF NoSleeper, NobodyForgotten
<1>3. CASE holders[End(p)] # {p}
  <2>1. \A e \in Ends : Open(e)' <=> Open(e)
    BY <1>1, <1>3 DEF Open, PipeTypeOK
  <2>2. Refs' = Refs
    BY <2>1, SameRefs
  <2>3. state' = [state EXCEPT ![p] = "user"] /\ count' = [count EXCEPT ![p] = 0]
        /\ size' = size
    BY <1>3 DEF Leave
  <2>4. QED
    BY <2>2, <2>3, StillWaits DEF PipeTypeOK
<1>4. QED
  BY <1>2, <1>3

LEMMA WakeStep == PipeTypeOK /\ NobodyForgotten /\ [PipeNext]_pipeVars => NobodyForgotten'
<1> SUFFICES ASSUME PipeTypeOK, NobodyForgotten, [PipeNext]_pipeVars PROVE NobodyForgotten'
  OBVIOUS
<1>1. ASSUME NEW p \in Procs, Begin(p) \/ Proceed(p) PROVE NobodyForgotten'
  BY <1>1, Calls, GoWakes
<1>2. ASSUME NEW p \in Procs, PipeSignal(p) PROVE NobodyForgotten'
  <2>1. /\ state' = [state EXCEPT ![p] = "ready"]
        /\ UNCHANGED <<size, holders, count>>
    BY <1>2 DEF PipeSignal
  <2>2. Refs' = Refs
    BY <2>1, SameRefs DEF Open
  <2>3. QED
    BY <2>1, <2>2, StillWaits DEF PipeTypeOK
<1>3. ASSUME NEW p \in Procs, Close(p) \/ DieAsleep(p) PROVE NobodyForgotten'
  BY <1>3, LeaveWakes DEF Close, DieAsleep
<1>4. CASE UNCHANGED pipeVars
  <2>1. Refs' = Refs
    BY <1>4, SameRefs DEF pipeVars, Open
  <2>2. QED
    BY <1>4, <2>1 DEF pipeVars, NobodyForgotten, Waits, ReadWaits, WriteWaits
<1>5. QED
  BY <1>1, <1>2, <1>3, <1>4 DEF PipeNext

(* Nobody sleeps on a pipe without a reason: every change of the size or   *)
(* of the ends that are open comes with the wakeup of those it concerns.   *)
THEOREM NoWakeupLost == PipeSpec => []NobodyForgotten
<1>1. PipeInit => NobodyForgotten
  BY DEF PipeInit, NobodyForgotten
<1>2. QED
  BY <1>1, WakeStep, PipeTypeCorrect, PTL DEF PipeSpec

-----------------------------------------------------------------------------
(* Order *)

(* The size bytes from the readers' place on are those that were written   *)
(* and not read yet, and the writers' place is behind them.                *)
OnRing ==
  /\ order = TRUE /\ size = sent - taken
  /\ ptr["write"] = After(ptr["read"], size)
  /\ \A i \in 0 .. size - 1 : cell[After(ptr["read"], i)] = taken + i + 1
RingInv == ~stale => OnRing

LEMMA SizeFits == PipeTypeOK => size \in 0 .. L - 1
BY Numbers, Sizes

LEMMA ReadRing ==
  ASSUME PipeTypeOK, RingInv, NEW p \in Procs, NEW n \in 0 .. MaxCount,
         NEW place \in Cells, ReadBytes(p, n, place), ~stale'
  PROVE  OnRing'
<1> DEFINE m == Amount(n)
<1>1. End(p) = "read" /\ ~stale /\ place = ptr["read"]
  BY DEF ReadBytes, Return, End
<1>2. OnRing
  BY <1>1 DEF RingInv
<1>3. m \in 0 .. size
  <2>1. n \in Nat
    BY PipeAssumption
  <2>2. QED
    BY <2>1, ReadMoves
<1>4. /\ taken' = taken + m /\ size' = size - m
      /\ order' = (order /\ \A i \in 1 .. m : cell[After(place, i - 1)] = taken + i)
      /\ ptr' = [ptr EXCEPT !["read"] = After(place, m)]
      /\ UNCHANGED <<cell, sent>>
  BY <1>1 DEF ReadBytes, Return
<1> HIDE DEF m
<1>5. size \in 0 .. L - 1 /\ sent \in Nat /\ taken \in Nat
  BY SizeFits, Numbers
<1>6. ptr'["read"] = After(place, m) /\ ptr'["write"] = ptr["write"]
  BY <1>4 DEF PipeTypeOK, Ends
<1>7. order' = TRUE
  <2>1. ASSUME NEW i \in 1 .. m PROVE cell[After(place, i - 1)] = taken + i
    <3>1. i - 1 \in 0 .. size - 1
      BY <1>3, <1>5
    <3>2. cell[After(place, i - 1)] = taken + (i - 1) + 1
      BY <1>1, <1>2, <3>1 DEF OnRing
    <3>3. QED
      BY <3>2, <1>5
  <2>2. QED
    BY <1>2, <1>4, <2>1 DEF OnRing
<1>8. size' = sent' - taken'
  BY <1>2, <1>3, <1>4, <1>5 DEF OnRing
<1>9. ptr'["write"] = After(ptr'["read"], size')
  <2>1. m \in Nat /\ size - m \in Nat /\ m + (size - m) = size /\ size < L
    BY <1>3, <1>5, Sizes
  <2>2. After(After(place, m), size - m) = After(place, size)
    BY <2>1, AfterAfter
  <2>3. QED
    BY <1>1, <1>2, <1>4, <1>6, <2>2 DEF OnRing
<1>10. ASSUME NEW i \in 0 .. size' - 1 PROVE cell'[After(ptr'["read"], i)] = taken' + i + 1
  <2>1. m \in Nat /\ i \in Nat /\ m + i < L /\ m + i \in 0 .. size - 1
    BY <1>3, <1>4, <1>5, Sizes
  <2>2. After(After(place, m), i) = After(place, m + i)
    BY <2>1, AfterAfter
  <2>3. cell[After(place, m + i)] = taken + (m + i) + 1
    BY <1>1, <1>2, <2>1 DEF OnRing
  <2>4. QED
    BY <1>4, <1>5, <1>6, <2>1, <2>2, <2>3
<1>11. QED
  BY <1>7, <1>8, <1>9, <1>10 DEF OnRing

LEMMA WriteRing ==
  ASSUME PipeTypeOK, RingInv, NEW p \in Procs, NEW n \in 0 .. MaxCount,
         NEW place \in Cells, WriteBytes(p, n, place), ~stale'
  PROVE  OnRing'
<1>1. End(p) = "write" /\ ~stale /\ place = ptr["write"]
  BY PipeAssumption DEF WriteBytes, Return, End
<1>2. OnRing
  BY <1>1 DEF RingInv
<1>3. PICK m \in Stored(place, n) :
        /\ sent' = sent + m
        /\ cell' = [c \in Cells |->
                      IF c \in Run(place, m)
                      THEN sent + 1 + ((c - place) % (RING * BS)) ELSE cell[c]]
        /\ size' = size + m
        /\ Return(p, place, m)
        /\ UNCHANGED <<taken, order>>
  BY DEF WriteBytes
<1>4. m \in 0 .. L - 1 /\ size + m \in 0 .. Room
  <2>1. n \in Nat
    BY PipeAssumption
  <2>2. QED
    BY <2>1, WriteMoves DEF WriteBytes
<1>5. /\ size \in 0 .. L - 1 /\ sent \in Nat /\ taken \in Nat
      /\ L \in Nat /\ L > 0 /\ size + m < L
  <2> HIDE DEF L
  <2>1. QED
    BY <1>4, SizeFits, Numbers, Sizes
<1> DEFINE r == ptr["read"]
<1>6. ptr'["write"] = After(place, m) /\ ptr'["read"] = r
  BY <1>1, <1>3 DEF Return, PipeTypeOK, Ends
<1>7. place = After(r, size)
  BY <1>1, <1>2 DEF OnRing
<1>8. \A c \in Cells : cell'[c] = IF c \in Run(place, m)
                                  THEN sent + 1 + ((c - place) % L) ELSE cell[c]
  BY <1>3 DEF L
<1>9. r \in Cells
  BY DEF PipeTypeOK, Ends
<1> HIDE DEF r
<1>10. size' = sent' - taken' /\ order' = TRUE
  BY <1>2, <1>3, <1>4, <1>5 DEF OnRing
<1>11. ptr'["write"] = After(ptr'["read"], size')
  BY <1>3, <1>4, <1>5, <1>6, <1>7, <1>9, AfterAfter
<1>12. ASSUME NEW i \in 0 .. size - 1 PROVE cell'[After(r, i)] = taken + i + 1
  <2>1. i \in 0 .. L - 1
    BY <1>5
  <2>2. After(r, i) \in Cells
    BY <1>9, <2>1, AfterType
  <2>3. ASSUME NEW j \in 0 .. m - 1, After(r, i) = After(place, j) PROVE FALSE
    <3>1. j \in Nat /\ size + j < L /\ size + j \in 0 .. L - 1 /\ i # size + j /\ size \in Nat
      BY <1>4, <1>5, <2>1
    <3>2. After(place, j) = After(r, size + j)
      BY <1>7, <1>9, <3>1, AfterAfter
    <3>3. QED
      BY <1>9, <2>1, <2>3, <3>1, <3>2, AfterOnce
  <2>4. After(r, i) \notin Run(place, m)
    BY <2>3 DEF Run
  <2>5. cell[After(r, i)] = taken + i + 1
    BY <1>2 DEF OnRing, r
  <2>6. QED
    BY <1>8, <2>2, <2>4, <2>5
<1>13. ASSUME NEW j \in 0 .. m - 1 PROVE cell'[After(r, size + j)] = taken + (size + j) + 1
  <2>1. j \in Nat /\ size + j < L /\ j \in 0 .. L - 1 /\ size \in Nat
    BY <1>4, <1>5
  <2>2. After(place, j) = After(r, size + j)
    BY <1>7, <1>9, <2>1, AfterAfter
  <2>3. After(place, j) \in Run(place, m)
    BY DEF Run
  <2>4. After(place, j) \in Cells /\ (After(place, j) - place) % L = j
    BY <2>1, AfterType, Distance
  <2>5. cell'[After(place, j)] = sent + 1 + j
    BY <1>8, <2>3, <2>4
  <2>6. sent = size + taken
    BY <1>2, <1>5 DEF OnRing
  <2>7. QED
    BY <1>5, <2>1, <2>2, <2>5, <2>6
<1>14. ASSUME NEW i \in 0 .. size' - 1 PROVE cell'[After(r, i)] = taken + i + 1
  <2>1. CASE i < size
    <3>1. i \in 0 .. size - 1
      BY <1>5, <2>1
    <3>2. QED
      BY <1>12, <3>1
  <2>2. CASE ~(i < size)
    <3>1. i - size \in 0 .. m - 1 /\ size + (i - size) = i
      BY <1>3, <1>4, <1>5, <2>2
    <3>2. cell'[After(r, size + (i - size))] = taken + (size + (i - size)) + 1
      BY <1>13, <3>1
    <3>3. QED
      BY <3>1, <3>2
  <2>3. QED
    BY <2>1, <2>2
<1>15. QED
  BY <1>3, <1>6, <1>10, <1>11, <1>14 DEF OnRing

(* A call that sleeps or fails moves nothing.                              *)
LEMMA SameRing ==
  ASSUME RingInv, UNCHANGED <<size, cell, ptr, sent, taken, order>>, ~stale' => ~stale
  PROVE  RingInv'
BY DEF RingInv, OnRing, After

LEMMA GoRing ==
  ASSUME PipeTypeOK, RingInv, NEW p \in Procs, NEW n \in 0 .. MaxCount,
         NEW place \in Cells, Go(p, n, place)
  PROVE  RingInv'
<1>1. CASE ReadSleep(p, n, place) \/ WriteSleep(p, n, place)
  BY <1>1, SameRing DEF ReadSleep, WriteSleep, Sleep
<1>2. CASE NoReaders(p, n, place)
  <2>1. SUFFICES ASSUME ~stale' PROVE RingInv'
    BY DEF RingInv
  <2>2. End(p) = "write" /\ ~stale /\ place = ptr["write"]
    BY <1>2, <2>1, PipeAssumption DEF NoReaders, Return, End
  <2>3. place \in 0 .. L - 1 /\ 0 \in 0 .. L - 1 /\ L \in Nat
    BY Sizes
  <2>4. After(place, 0) = place
    <3>1. After(place, 0) = IF place + 0 < L THEN place + 0 ELSE place + 0 - L
      BY <2>3, AfterIs
    <3> HIDE DEF L
    <3>2. QED
      BY <2>3, <3>1
  <2>5. ptr' = ptr
    BY <1>2, <2>2, <2>4 DEF NoReaders, Return, PipeTypeOK
  <2>6. QED
    BY <1>2, <2>2, <2>5, SameRing DEF NoReaders
<1>3. QED
  BY <1>1, <1>2, ReadRing, WriteRing DEF Go, RingInv

LEMMA RingStep == PipeTypeOK /\ RingInv /\ [PipeNext]_pipeVars => RingInv'
<1> SUFFICES ASSUME PipeTypeOK, RingInv, [PipeNext]_pipeVars PROVE RingInv'
  OBVIOUS
<1>1. ASSUME NEW p \in Procs, Begin(p) \/ Proceed(p) PROVE RingInv'
  BY <1>1, Calls, GoRing
<1>2. ASSUME NEW p \in Procs, PipeSignal(p) \/ Close(p) \/ DieAsleep(p) PROVE RingInv'
  BY <1>2, SameRing DEF PipeSignal, Close, DieAsleep, Leave
<1>3. CASE UNCHANGED pipeVars
  BY <1>3, SameRing DEF pipeVars
<1>4. QED
  BY <1>1, <1>2, <1>3 DEF PipeNext

(* What is read is what was written, byte by byte, around the ring of 18   *)
(* blocks, past a full disk and through every sleep, until two processes   *)
(* that share an end have both been in a call.                             *)
THEOREM BytesInOrder == PipeSpec => []Fifo
<1>1. PipeInit => RingInv
  <2> SUFFICES ASSUME PipeInit PROVE OnRing
    BY DEF RingInv
  <2>1. ptr["read"] = 0 /\ ptr["write"] = 0 /\ size = 0 /\ sent = 0 /\ taken = 0
        /\ order = TRUE
    BY DEF PipeInit, Ends
  <2>2. After(0, 0) = 0
    <3>1. 0 \in Cells /\ 0 \in 0 .. L - 1 /\ L \in Nat /\ L > 0
      BY Sizes
    <3>2. After(0, 0) = IF 0 + 0 < L THEN 0 + 0 ELSE 0 + 0 - L
      BY <3>1, AfterIs
    <3>3. QED
      BY <3>1, <3>2
  <2>3. QED
    BY <2>1, <2>2 DEF OnRing
<1>2. RingInv => Fifo
  BY DEF RingInv, OnRing, Fifo
<1>3. QED
  BY <1>1, <1>2, RingStep, PipeTypeCorrect, PTL DEF PipeSpec

-----------------------------------------------------------------------------
(* A pipe between two processes *)

Unshared == \A p, q \in Procs : End(p) = End(q) => p = q

(* A process in a call has the place of its end.                           *)
PlaceKept ==
  /\ ~stale
  /\ \A p \in Procs : state[p] # "user" => offset[p] = ptr[End(p)]

LEMMA PlaceStep ==
  ASSUME Unshared
  PROVE  PipeTypeOK /\ PlaceKept /\ [PipeNext]_pipeVars => PlaceKept'
<1> SUFFICES ASSUME PipeTypeOK, PlaceKept, [PipeNext]_pipeVars PROVE PlaceKept'
  OBVIOUS
<1>1. ASSUME NEW p \in Procs, NEW n, Go(p, n, ptr[End(p)]) PROVE PlaceKept'
  <2>1. CASE ReadSleep(p, n, ptr[End(p)]) \/ WriteSleep(p, n, ptr[End(p)])
    BY <2>1 DEF ReadSleep, WriteSleep, Sleep, PlaceKept, PipeTypeOK
  <2>2. ASSUME NEW m, Return(p, ptr[End(p)], m),
               \A q \in Procs \ {p} : state'[q] = "user" <=> state[q] = "user",
               state'[p] = "user"
        PROVE  PlaceKept'
    <3>1. \A q \in Procs \ {p} : offset'[q] = offset[q] /\ ptr'[End(q)] = ptr[End(q)]
      BY <2>2, EndType DEF Return, PipeTypeOK, Unshared
    <3>2. ~stale'
      BY <2>2 DEF Return, PlaceKept
    <3>3. QED
      BY <2>2, <3>1, <3>2 DEF PlaceKept
  <2>3. CASE ReadBytes(p, n, ptr[End(p)])
    <3>1. /\ Return(p, ptr[End(p)], Amount(n))
          /\ state' = [(IF Amount(n) > 0 THEN PipeWakeup(state) ELSE state) EXCEPT ![p] = "user"]
      BY <2>3 DEF ReadBytes, ReadWakes
    <3>2. QED
      BY <2>2, <3>1 DEF PipeWakeup, PipeTypeOK
  <2>4. CASE NoReaders(p, n, ptr[End(p)])
    BY <2>2, <2>4 DEF NoReaders, PipeTypeOK
  <2>5. CASE WriteBytes(p, n, ptr[End(p)])
    <3>1. PICK m \in Stored(ptr[End(p)], n) :
            /\ Return(p, ptr[End(p)], m)
            /\ state' = [(IF m > 0 THEN PipeWakeup(state) ELSE state) EXCEPT ![p] = "user"]
      BY <2>5 DEF WriteBytes
    <3>2. QED
      BY <2>2, <3>1 DEF PipeWakeup, PipeTypeOK
  <2>6. QED
    BY <1>1, <2>1, <2>3, <2>4, <2>5 DEF Go
<1>2. ASSUME NEW p \in Procs, Begin(p) PROVE PlaceKept'
  BY <1>1, <1>2 DEF Begin
<1>3. ASSUME NEW p \in Procs, Proceed(p) PROVE PlaceKept'
  BY <1>1, <1>3 DEF Proceed, PlaceKept
<1>4. ASSUME NEW p \in Procs, PipeSignal(p) PROVE PlaceKept'
  BY <1>4 DEF PipeSignal, PlaceKept, PipeTypeOK
<1>5. ASSUME NEW p \in Procs, Leave(p) PROVE PlaceKept'
  <2>1. /\ stale' = stale /\ ptr' = ptr /\ offset' = [offset EXCEPT ![p] = 0]
        /\ state'[p] = "user"
        /\ \A q \in Procs \ {p} : state'[q] = "user" <=> state[q] = "user"
    BY <1>5 DEF Leave, CloseWakes, PipeWakeup, PipeTypeOK
  <2>2. QED
    BY <2>1 DEF PlaceKept, PipeTypeOK
<1>6. CASE UNCHANGED pipeVars
  BY <1>6 DEF pipeVars, PlaceKept
<1>7. QED
  BY <1>2, <1>3, <1>4, <1>5, <1>6 DEF PipeNext, Close, DieAsleep

(* When each end has one process the order is never lost: only processes   *)
(* that share an end can put back a place that another has moved.          *)
THEOREM UnsharedInOrder ==
  ASSUME Unshared
  PROVE  PipeSpec => [](order /\ size = sent - taken)
<1>1. PipeInit => PlaceKept
  BY DEF PipeInit, PlaceKept
<1>2. PipeTypeOK /\ PlaceKept /\ [PipeNext]_pipeVars => PlaceKept'
  BY PlaceStep
<1>3. PlaceKept /\ Fifo => order /\ size = sent - taken
  BY DEF PlaceKept, Fifo
<1>4. QED
  BY <1>1, <1>2, <1>3, PipeTypeCorrect, BytesInOrder, PTL DEF PipeSpec

=============================================================================
