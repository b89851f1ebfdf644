------------------------------ MODULE Process ------------------------------
(***************************************************************************)
(* The process table of the kernel and the code that moves processes       *)
(* through it: ptab_alloc, dofork/newproc, psleep, wakeup, getproc,        *)
(* swapout/swapin, chksigs, ssig (kernel/process.c), wait, exit, signal,   *)
(* kill, alarm, pause, execve (kernel/scall2.c), calltrap                  *)
(* (kernel/machdep.c) and the clock interrupt (kernel/interrupts.c).       *)
(*                                                                         *)
(* The kernel is not preemptive: one process image is in memory, `cur`     *)
(* (udata.u_ptab), and it gives the processor up only in swapout and       *)
(* doexit.  The clock interrupt comes at every point where interrupts are  *)
(* enabled, so one action is what the code does between two such points.   *)
(***************************************************************************)
EXTENDS Integers, FiniteSets

CONSTANTS
  NPROC,        \* PTABSIZE, the number of slots of ptab
  PidLimit,     \* the literal 32000 of ptab_alloc
  Sigs,         \* the signals in use, numbers of 1..15
  MaxAlarm,     \* bound on the argument of alarm()
  Events,       \* addresses a process may sleep on in the I/O code
  TtyEvents     \* those of them whose sleeps a signal may interrupt

KILL == 9
PIPE == 13
ALRM == 14

Slots == 0 .. NPROC - 1
InitProc == 0              \* init2 takes the first slot of an empty table
Null == -1                 \* (char *)NULL

(* What doexit lays over p_wait is u_utime.t_time, the first word of a     *)
(* time_t.  addtick and incrtick keep it below 60 * TICKSPERSEC = 600,     *)
(* while an event is the address of a ptab entry, an inode, ttyinq or      *)
(* stopflag, all of them data of the kernel from $a000 on (uzi.cfg), so no *)
(* count is an event: one value of its own stands for all of them.         *)
Utime == -2
M == PidLimit + 1          \* pids are 1..M

ASSUME ProcAssumption ==
  /\ NPROC \in Nat \ {0}
  /\ PidLimit \in Nat /\ NPROC <= PidLimit + 1
  /\ Sigs \subseteq 1 .. 15
  /\ MaxAlarm \in Nat
  /\ Events \subseteq Nat /\ Events \cap Slots = {}
  /\ TtyEvents \subseteq Events

VARIABLES
  status, pid, pptr, alarm, wait, pending, ignored,  \* struct p_tab, by slot
  kpc,      \* where the process is in user or kernel code
  back,     \* where it continues when swapout returns
  ev,       \* the event its I/O loop sleeps on
  sigvec, cursig,                                    \* struct u_data, by slot
  cur,      \* udata.u_ptab: the slot whose image is in memory
  pp,       \* getproc's static pointer
  nextpid,  \* ptab_alloc's static counter
  tsig, tvec \* calltrap's statics cursig and curvec

ptabVars == <<status, pid, pptr, alarm, wait, pending, ignored>>
sigVars  == <<sigvec, cursig>>
schedVars == <<cur, pp, nextpid>>
trapVars == <<tsig, tvec>>
vars == <<ptabVars, kpc, back, ev, sigVars, schedVars, trapVars>>

Statuses == {"EMPTY", "RUNNING", "READY", "SLEEP", "PAUSE", "FORKING",
             "WAIT", "ZOMBIE"}
Places == {"user", "pause", "wait", "scan", "io", "iocheck", "fork",
           "slept", "sched", "exit", "ret", "trap0", "trap1", "trap2"}
UserMode == {"user", "trap0", "trap1", "trap2"}      \* u_insys is 0
Actions == {"DFL", "IGN", "CATCH"}

TypeOK ==
  /\ status \in [Slots -> Statuses]
  /\ pid \in [Slots -> 0 .. M]
  /\ pptr \in [Slots -> Slots \cup {Null}]
  /\ alarm \in [Slots -> 0 .. MaxAlarm]
  /\ wait \in [Slots -> Slots \cup Events \cup {Null, Utime}]
  /\ pending \in [Slots -> SUBSET Sigs]
  /\ ignored \in [Slots -> SUBSET Sigs]
  /\ kpc \in [Slots -> Places]
  /\ back \in [Slots -> {"ret", "wait", "iocheck"}]
  /\ ev \in [Slots -> Events \cup {Null}]
  /\ sigvec \in [Slots -> [Sigs -> Actions]]
  /\ cursig \in [Slots -> Sigs \cup {0}]
  /\ cur \in Slots
  /\ pp \in Slots
  /\ nextpid \in 0 .. M
  /\ tsig \in Sigs \cup {0}
  /\ tvec \in Actions

Init ==
  /\ status = [s \in Slots |-> IF s = InitProc THEN "RUNNING" ELSE "EMPTY"]
  /\ pid = [s \in Slots |-> IF s = InitProc THEN 1 ELSE 0]
  /\ pptr = [s \in Slots |-> IF s = InitProc THEN InitProc ELSE Null]
  /\ alarm = [s \in Slots |-> 0]
  /\ wait = [s \in Slots |-> Null]
  /\ pending = [s \in Slots |-> {}]
  /\ ignored = [s \in Slots |-> {}]
  /\ kpc = [s \in Slots |-> "user"]
  /\ back = [s \in Slots |-> "ret"]
  /\ ev = [s \in Slots |-> Null]
  /\ sigvec = [s \in Slots |-> [j \in Sigs |-> "DFL"]]
  /\ cursig = [s \in Slots |-> 0]
  /\ cur = InitProc
  /\ pp = InitProc
  /\ nextpid = 1
  /\ tsig = 0
  /\ tvec = "DFL"

-----------------------------------------------------------------------------
(* Helpers of the kernel *)

First(S) == CHOOSE x \in S : \A y \in S : x <= y

At(place) == kpc[cur] = place
Goto(place) == kpc' = [kpc EXCEPT ![cur] = place]

(* Signals of the set sent to a process: the ignored ones are dropped. *)
Sent(s, sigs) == IF status[s] = "EMPTY" THEN {} ELSE sigs \ ignored[s]

\* Slip: the sleeper is made READY but p_wait is not cleared.
BugSsig(sigs) ==
  /\ status' = [s \in Slots |->
                  IF Sent(s, sigs[s]) # {} /\ status[s] \in {"PAUSE", "WAIT", "SLEEP"}
                  THEN "READY" ELSE status[s]]
  /\ pending' = [s \in Slots |-> pending[s] \cup Sent(s, sigs[s])]
  /\ UNCHANGED wait

(* ssig to every process, `sigs[s]` being what process s is sent. *)
Ssig(sigs) ==
  LET got(s) == Sent(s, sigs[s]) # {} IN
  /\ status' = [s \in Slots |->
                  IF got(s) /\ status[s] \in {"PAUSE", "WAIT", "SLEEP"}
                  THEN "READY" ELSE status[s]]
  /\ wait' = [s \in Slots |-> IF got(s) THEN Null ELSE wait[s]]
  /\ pending' = [s \in Slots |-> pending[s] \cup Sent(s, sigs[s])]

(* What wakeup() does for each of a set of events. *)
Sleeping(events) == {s \in Slots : /\ status[s] \notin {"EMPTY", "RUNNING"}
                                   /\ wait[s] \in events}
Wakeup(events) ==
  /\ status' = [s \in Slots |-> IF s \in Sleeping(events) THEN "READY"
                                ELSE status[s]]
  /\ wait' = [s \in Slots |-> IF s \in Sleeping(events) THEN Null ELSE wait[s]]

\* Slip: the new status is forgotten.
BugPsleep(event, st, place) ==
  /\ status[cur] = "RUNNING" /\ UNCHANGED status
  /\ wait' = [wait EXCEPT ![cur] = event]
  /\ back' = [back EXCEPT ![cur] = place]
  /\ Goto("slept")

(* psleep up to its call of swapout. *)
Psleep(event, st, place) ==
  /\ status[cur] = "RUNNING"          \* else panic("psleep: voodoo")
  /\ status' = [status EXCEPT ![cur] = st]
  /\ wait' = [wait EXCEPT ![cur] = event]
  /\ back' = [back EXCEPT ![cur] = place]
  /\ Goto("slept")

(* chksigs: the lowest pending signal whose vector is not SIG_IGN counts.  *)
(* A caught one is moved to u_cursig, and `p_pending &= !sigmask(j)'       *)
(* clears every other pending signal with it, so the loop ends there.      *)
\* Slip: the loop runs from the highest signal down.
BugHeeded == {j \in pending[cur] : \A k \in pending[cur] : k <= j}
Heeded == {j \in pending[cur] : sigvec[cur][j] # "IGN"}
Doomed == Heeded # {} /\ sigvec[cur][First(Heeded)] = "DFL"
Caught == Heeded # {} /\ sigvec[cur][First(Heeded)] = "CATCH"
ClearPending(p, j) == {}
ChksigsReturns ==
  /\ ~Doomed
  /\ IF Caught
     THEN /\ cursig' = [cursig EXCEPT ![cur] = First(Heeded)]
          /\ pending' = [pending EXCEPT ![cur] = ClearPending(@, First(Heeded))]
     ELSE UNCHANGED <<cursig, pending>>

(* doexit: the open files are closed (a closed pipe is an event), children *)
(* go to init, the execution times are laid over p_wait, p_pending and     *)
(* p_ignored, and a waiting parent is woken; p_alarm keeps running.  The   *)
(* ei() that ends wakeup() undoes doexit's di(): the process becomes a     *)
(* zombie in a second step.                                                *)
\* Slip: children that are zombies already keep their dead parent.
BugReparented(s) == status[s] \notin {"EMPTY", "ZOMBIE"} /\ pptr[s] = cur
Reparented(s) == status[s] # "EMPTY" /\ pptr[s] = cur
\* Slip: the parent is not woken.
BugParentEvent == {}
ParentEvent == IF cur = InitProc THEN {} ELSE {pptr[cur]}
Doexit ==
  \E closed \in SUBSET Events :
    LET woken == Sleeping(closed \cup ParentEvent)
    IN /\ pptr' = [s \in Slots |-> IF Reparented(s) THEN InitProc ELSE pptr[s]]
       /\ status' = [s \in Slots |-> IF s \in woken \ {cur} THEN "READY"
                                     ELSE status[s]]
       /\ wait' = [s \in Slots |-> IF s = cur THEN Utime
                                   ELSE IF s \in woken THEN Null ELSE wait[s]]
       /\ pending' = [pending EXCEPT ![cur] = {}]
       /\ ignored' = [ignored EXCEPT ![cur] = {}]
       /\ Goto("exit")
       /\ UNCHANGED <<pid, alarm, back, ev, sigVars, schedVars, trapVars>>
NoHandlers == [j \in Sigs |-> "DFL"]
BecomeZombie ==
  /\ At("exit")
  /\ status' = [status EXCEPT ![cur] = "ZOMBIE"]
  /\ Goto("sched")
  /\ back' = [back EXCEPT ![cur] = "ret"]        \* the image is dead now
  /\ ev' = [ev EXCEPT ![cur] = Null]
  /\ sigvec' = [sigvec EXCEPT ![cur] = NoHandlers]
  /\ cursig' = [cursig EXCEPT ![cur] = 0]
  /\ UNCHANGED <<pid, pptr, alarm, wait, pending, ignored, schedVars, trapVars>>

-----------------------------------------------------------------------------
(* System calls: from user code, through unix(), to its tail "ret". *)

(* ptab_alloc, and the first half of dofork: the parent is READY while its *)
(* image is written to the swap device, with interrupts enabled.           *)
FreeSlots == {s \in Slots : status[s] = "EMPTY"}
\* Slip: the last free slot is taken.
BugFreeSlot == CHOOSE s \in FreeSlots : \A t \in FreeSlots : t <= s
FreeSlot == First(FreeSlots)
UsedPids == {pid[s] : s \in {t \in Slots : status[t] # "EMPTY"}}
PidAfter(k) == IF nextpid + k <= M THEN nextpid + k ELSE nextpid + k - M
NewPid == PidAfter(First({k \in 1 .. M : PidAfter(k) \notin UsedPids}))

Fork ==
  /\ At("user")
  /\ IF FreeSlots = {}
     THEN /\ Goto("ret")
          /\ UNCHANGED <<ptabVars, nextpid>>
     ELSE LET p == FreeSlot IN
          /\ status' = [status EXCEPT ![p] = "FORKING", ![cur] = "READY"]
          /\ pid' = [pid EXCEPT ![p] = NewPid]
          /\ nextpid' = NewPid
          /\ pptr' = [pptr EXCEPT ![p] = Null]
          /\ alarm' = [alarm EXCEPT ![p] = 0]
          /\ wait' = [wait EXCEPT ![p] = Null]
          /\ pending' = [pending EXCEPT ![p] = {}]
          /\ ignored' = [ignored EXCEPT ![p] = {}]
          /\ Goto("fork")
  /\ UNCHANGED <<back, ev, sigVars, cur, pp, trapVars>>

(* newproc and the rest of dofork, after which the child runs.  The image  *)
(* of the parent will continue as if swapped in, returning the new pid.    *)
Newproc ==
  /\ At("fork")
  /\ \E p \in Slots :
       /\ status[p] = "FORKING"
       /\ status' = [status EXCEPT ![p] = "RUNNING"]
       /\ pptr' = [pptr EXCEPT ![p] = cur]
       /\ ignored' = [ignored EXCEPT ![p] = ignored[cur]]
       /\ kpc' = [kpc EXCEPT ![cur] = "sched", ![p] = "ret"]
       /\ back' = [back EXCEPT ![cur] = "ret"]
       /\ ev' = [ev EXCEPT ![p] = Null]
       /\ sigvec' = [sigvec EXCEPT ![p] = sigvec[cur]]
       /\ cursig' = [cursig EXCEPT ![p] = 0]
       /\ cur' = p
  /\ UNCHANGED <<pid, alarm, wait, pending, pp, nextpid, trapVars>>

Exit == At("user") /\ Doexit

(* wait: the search for a child, ECHILD if there is none. *)
Children(s) == {c \in Slots \ {s} : status[c] # "EMPTY" /\ pptr[c] = s}
Wait ==
  /\ At("user")
  /\ Goto(IF Children(cur) = {} THEN "ret" ELSE "wait")
  /\ UNCHANGED <<ptabVars, back, ev, sigVars, schedVars, trapVars>>

(* The top of wait's loop: chksigs, and EINTR for a caught signal. *)
WaitChksigs ==
  /\ At("wait")
  /\ ChksigsReturns
  /\ Goto(IF cursig'[cur] # 0 THEN "ret" ELSE "scan")
  /\ UNCHANGED <<status, pid, pptr, alarm, wait, ignored, back, ev, sigvec,
                 schedVars, trapVars>>

(* One pass of wait's loop over the table, under di(): reap or sleep. *)
Zombies(s) == {c \in Slots : status[c] = "ZOMBIE" /\ pptr[c] = s}
WaitScan ==
  /\ At("scan")
  /\ \/ /\ Zombies(cur) # {}
        /\ status' = [status EXCEPT ![First(Zombies(cur))] = "EMPTY"]
        /\ Goto("ret")
        /\ UNCHANGED <<wait, back>>
     \/ /\ Zombies(cur) = {}
        /\ Psleep(cur, "WAIT", "wait")
  /\ UNCHANGED <<pid, pptr, alarm, pending, ignored, ev, sigVars, schedVars,
                 trapVars>>

PauseCall ==
  /\ At("user")
  /\ Goto("pause")
  /\ UNCHANGED <<ptabVars, back, ev, sigVars, schedVars, trapVars>>
PauseSleep ==
  /\ At("pause")
  /\ Psleep(Null, "PAUSE", "ret")
  /\ UNCHANGED <<pid, pptr, alarm, pending, ignored, ev, sigVars, schedVars,
                 trapVars>>

(* A read or write whose loop finds nothing to do and must sleep. *)
IoCall ==
  /\ At("user")
  /\ \E e \in Events : ev' = [ev EXCEPT ![cur] = e]
  /\ Goto("io")
  /\ UNCHANGED <<ptabVars, back, sigVars, schedVars, trapVars>>
IoSleep ==
  /\ At("io")
  /\ Psleep(ev[cur], "SLEEP", "iocheck")
  /\ UNCHANGED <<pid, pptr, alarm, pending, ignored, ev, sigVars, schedVars,
                 trapVars>>

(* After a sleep: the tty gives up with EINTR if there is a signal, the    *)
(* pipe code never does; otherwise the condition holds now, or it doesn't. *)
Interrupted == ev[cur] \in TtyEvents /\ (cursig[cur] # 0 \/ pending[cur] # {})
IoCheck ==
  /\ At("iocheck")
  /\ \/ /\ Goto("ret")
        /\ ev' = [ev EXCEPT ![cur] = Null]
     \/ /\ ~Interrupted
        /\ Goto("io")
        /\ UNCHANGED ev
  /\ UNCHANGED <<ptabVars, back, sigVars, schedVars, trapVars>>

(* A call that makes an event happen: it moves data through a pipe. *)
IoWakeup ==
  /\ At("user")
  /\ \E e \in Events : Wakeup({e})
  /\ Goto("ret")
  /\ UNCHANGED <<pid, pptr, alarm, pending, ignored, back, ev, sigVars,
                 schedVars, trapVars>>

(* A write to a pipe without readers sends the writer SIGPIPE. *)
BrokenPipe ==
  /\ At("user")
  /\ PIPE \in Sigs
  /\ Ssig([s \in Slots |-> IF s = cur THEN {PIPE} ELSE {}])
  /\ Goto("ret")
  /\ UNCHANGED <<pid, pptr, alarm, ignored, back, ev, sigVars, schedVars,
                 trapVars>>

(* signal: EINVAL for SIGKILL, like any bad argument, changes nothing. *)
Settable == Sigs \ {KILL}
Signal ==
  /\ At("user")
  /\ \E j \in Settable, act \in Actions :
       /\ sigvec' = [sigvec EXCEPT ![cur][j] = act]
       /\ ignored' = [ignored EXCEPT ![cur] = IF act = "IGN" THEN @ \cup {j}
                                                             ELSE @ \ {j}]
  /\ Goto("ret")
  /\ UNCHANGED <<status, pid, pptr, alarm, wait, pending, back, ev, cursig,
                 schedVars, trapVars>>

(* kill searches p_pid in every slot, empty ones included. *)
Target(n) == First({s \in Slots : pid[s] = n})
Kill ==
  /\ At("user")
  /\ \E j \in Sigs, n \in {pid[s] : s \in Slots} :
       Ssig([s \in Slots |-> IF s = Target(n) THEN {j} ELSE {}])
  /\ Goto("ret")
  /\ UNCHANGED <<pid, pptr, alarm, ignored, back, ev, sigVars, schedVars,
                 trapVars>>

Alarm ==
  /\ At("user")
  /\ ALRM \in Sigs
  /\ \E secs \in 0 .. MaxAlarm : alarm' = [alarm EXCEPT ![cur] = secs]
  /\ Goto("ret")
  /\ UNCHANGED <<status, pid, pptr, wait, pending, ignored, back, ev, sigVars,
                 schedVars, trapVars>>

(* A call that touches neither the process table nor the signals, or that  *)
(* fails on its arguments.                                                 *)
OtherCall ==
  /\ At("user")
  /\ Goto("ret")
  /\ UNCHANGED <<ptabVars, back, ev, sigVars, schedVars, trapVars>>

(* A successful execve enters the new program without unix()'s tail. *)
Execve ==
  /\ At("user")
  /\ sigvec' = [sigvec EXCEPT ![cur] =
                  [j \in Sigs |-> IF @[j] = "IGN" THEN "IGN" ELSE "DFL"]]
  /\ UNCHANGED <<ptabVars, kpc, back, ev, cursig, schedVars, trapVars>>

-----------------------------------------------------------------------------
(* Leaving the processor *)

(* chksigs finds a signal whose action is the default one. *)
Die ==
  /\ kpc[cur] \in {"wait", "slept", "ret"}
  /\ Doomed
  /\ Doexit

(* swapout: chksigs, then the scheduler. *)
Swapout ==
  /\ At("slept")
  /\ ChksigsReturns
  /\ Goto("sched")
  /\ UNCHANGED <<status, pid, pptr, alarm, wait, ignored, back, ev, sigvec,
                 schedVars, trapVars>>

(* One turn of getproc's loop; a READY process is swapped in. *)
\* Slip: the search starts over from the first slots.
BugNextSlot == IF status[0] = "READY" THEN 0 ELSE IF pp + 1 >= NPROC THEN 0 ELSE pp + 1
NextSlot == IF pp + 1 >= NPROC THEN 0 ELSE pp + 1
Getproc ==
  /\ At("sched")
  /\ pp' = NextSlot
  /\ IF status[NextSlot] = "READY"
     THEN /\ cur' = NextSlot
          /\ status' = [status EXCEPT ![NextSlot] = "RUNNING"]
          /\ kpc' = [kpc EXCEPT ![NextSlot] = back[NextSlot]]
     ELSE UNCHANGED <<cur, status, kpc>>
  /\ UNCHANGED <<pid, pptr, alarm, wait, pending, ignored, back, ev, sigVars,
                 nextpid, trapVars>>

(* The tail of unix(): chksigs, then calltrap. *)
UnixReturn ==
  /\ At("ret")
  /\ ChksigsReturns
  /\ Goto("trap0")
  /\ UNCHANGED <<status, pid, pptr, alarm, wait, ignored, back, ev, sigvec,
                 schedVars, trapVars>>

(* calltrap, called with interrupts enabled. *)
CalltrapTest ==
  /\ At("trap0")
  /\ IF cursig[cur] = 0
     THEN Goto("user") /\ UNCHANGED tsig
     ELSE Goto("trap1") /\ tsig' = cursig[cur]
  /\ UNCHANGED <<ptabVars, back, ev, sigVars, schedVars, tvec>>
CalltrapVector ==
  /\ At("trap1")
  /\ Goto("trap2")
  /\ tvec' = sigvec[cur][tsig]
  /\ UNCHANGED <<ptabVars, back, ev, sigVars, schedVars, tsig>>
CalltrapCall ==
  /\ At("trap2")
  /\ Goto("user")
  /\ cursig' = [cursig EXCEPT ![cur] = 0]
  /\ sigvec' = [sigvec EXCEPT ![cur][tsig] = "DFL"]
  /\ tsig' = 0 /\ tvec' = "DFL"                  \* not read again
  /\ UNCHANGED <<ptabVars, back, ev, schedVars>>

-----------------------------------------------------------------------------
(* The clock interrupt.  handle_irq ends with calltrap when it interrupted *)
(* user mode; that may be the code between unix()'s tail and the program,  *)
(* where the interrupt's calltrap stores in the two statics what an        *)
(* interrupted calltrap stored there, or will.                             *)
TrapInIrq ==
  /\ IF kpc[cur] \in UserMode /\ cursig[cur] # 0
     THEN /\ cursig' = [cursig EXCEPT ![cur] = 0]
          /\ sigvec' = [sigvec EXCEPT ![cur][cursig[cur]] = "DFL"]
     ELSE UNCHANGED sigVars
  /\ UNCHANGED trapVars

(* An interrupt that ends a second: alarms count down, 0 sends SIGALRM. *)
\* Slip: an alarm that is not set counts down too.
BugCountDown(n) == n - 1
CountDown(n) == IF n > 0 THEN n - 1 ELSE 0
ClockSecond ==
  /\ alarm' = [s \in Slots |-> CountDown(alarm[s])]
  /\ Ssig([s \in Slots |-> IF alarm[s] = 1 THEN {ALRM} ELSE {}])
  /\ TrapInIrq
  /\ UNCHANGED <<pid, pptr, ignored, kpc, back, ev, schedVars>>

(* Any other interrupt of the clock. *)
ClockTick ==
  /\ TrapInIrq
  /\ UNCHANGED <<ptabVars, kpc, back, ev, schedVars>>

Call == Fork \/ Exit \/ Wait \/ PauseCall \/ IoCall \/ IoWakeup \/ BrokenPipe
        \/ Signal \/ Kill \/ Alarm \/ OtherCall \/ Execve
Kernel == Newproc \/ WaitChksigs \/ WaitScan \/ PauseSleep \/ IoSleep
          \/ IoCheck \/ Die \/ BecomeZombie \/ Swapout \/ Getproc \/ UnixReturn
          \/ CalltrapTest \/ CalltrapVector \/ CalltrapCall
Clock == ClockSecond \/ ClockTick
Next == Call \/ Kernel \/ Clock

Spec == Init /\ [][Next]_vars

-----------------------------------------------------------------------------
(* Invariants *)

(* The image in memory is that of the only RUNNING process, and it is      *)
(* RUNNING except while the kernel gives the processor away or ends it: so *)
(* neither "psleep: voodoo" nor "getproc: extra running" can be reached.   *)
OneRunning ==
  /\ \A s \in Slots : status[s] = "RUNNING" => s = cur
  /\ kpc[cur] \notin {"fork", "slept", "sched", "exit"} => status[cur] = "RUNNING"
  /\ kpc[cur] = "sched" => \A s \in Slots : status[s] # "RUNNING"

(* No two processes, zombies included, have the same pid, however often    *)
(* ptab_alloc's counter has wrapped.                                       *)
PidsUnique ==
  \A s, t \in Slots :
    s # t /\ status[s] # "EMPTY" /\ status[t] # "EMPTY" => pid[s] # pid[t]

(* kill(pid) of a live process reaches it: the first slot that holds the   *)
(* pid, the one _kill stops at though it never looks at p_status, is the   *)
(* process itself and not a slot that was given up.  It rests on           *)
(* ptab_alloc taking the first free slot.                                  *)
KillFindsProcess ==
  \A s \in Slots : status[s] # "EMPTY" => Target(pid[s]) = s

(* p_wait says what the status claims: a sleeper can be found by the       *)
(* wakeup it waits for, and nobody else can be found by any; a zombie has  *)
(* a tick count or, after a signal, NULL there.  Only between the two      *)
(* steps of doexit does the overlay contradict the status.                 *)
WaitMatches ==
  \A s \in {t \in Slots : kpc[t] # "exit"} :
    /\ status[s] = "SLEEP" => wait[s] \in Events
    /\ status[s] = "WAIT" => wait[s] = s
    /\ status[s] \in {"PAUSE", "READY", "FORKING", "RUNNING"} => wait[s] = Null
    /\ status[s] = "ZOMBIE" => wait[s] \in {Null, Utime}

(* The parent of a process can still wait for it: p_pptr never points at a *)
(* slot that was given up, nor at a zombie unless init itself is one.      *)
ParentsLive ==
  \A s \in Slots :
    status[s] \notin {"EMPTY", "FORKING"} =>
      /\ pptr[s] \in Slots
      /\ pptr[s] = InitProc \/ status[pptr[s]] \notin {"EMPTY", "FORKING", "ZOMBIE"}

(* No process other than init sleeps in wait() while one of its children   *)
(* is a zombie: the search of the table and psleep cannot miss an exit.    *)
WaitersHaveNoZombie ==
  \A s \in Slots \ {InitProc} : status[s] = "WAIT" => Zombies(s) = {}

-----------------------------------------------------------------------------
(* What the comments promise and the code does not do *)

(* calltrap calls the routine the program gave for a caught signal.        *)
TrapCallsHandler == kpc[cur] = "trap2" => tvec = "CATCH"

(* Every READY process is given the processor again. *)
ReadyRuns == \A s \in Slots : status[s] = "READY" ~> status[s] # "READY"

(* With clk_int's preemption compiled out, only the programs can give the  *)
(* processor away: here each of them that keeps running also keeps making  *)
(* calls that sleep, or exits.                                             *)
Yield(s) == cur = s /\ (PauseCall \/ IoCall \/ Exit)
CooperativeSpec == Spec /\ WF_vars(Kernel) /\ \A s \in Slots : SF_vars(Yield(s))

-----------------------------------------------------------------------------
(* Action properties *)

(* A system call returns to the program with SIGKILL pending or dropped    *)
(* only if chksigs found a caught signal of a lower number first.          *)
KillYieldsOnlyToCaught ==
  [][kpc[cur] = "ret" /\ kpc'[cur] = "trap0" /\ KILL \in pending[cur]
       => \E j \in pending[cur] : j < KILL /\ sigvec[cur][j] = "CATCH"]_vars

=============================================================================
