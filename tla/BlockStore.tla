----------------------------- MODULE BlockStore -----------------------------
(***************************************************************************)
(* What the buffer pool promises its callers (the comment at the top of    *)
(* drivers/devio.c): a block handed out by bread has the contents it was   *)
(* last given, whether they are on the disk or not, and what bfree(bp, 2)  *)
(* or bufsync has dealt with is on the disk and survives a power failure.  *)
(* The device may fail for some blocks.  Nothing is promised of these      *)
(* until they are given new contents, and everything of the others.        *)
(***************************************************************************)
CONSTANTS
  Blocks,     \* the blocks, each a device and a number
  Data        \* the contents a block can have

VARIABLES
  store,      \* what the callers see in each block
  durable,    \* what the disk has in each block
  held,       \* how each block is being used: not, read, or to be rewritten
  safe,       \* the blocks whose contents the caller knows to be on the disk
  suspect     \* the blocks for which the device has failed

vars == <<store, durable, held, safe, suspect>>

Uses == {"none", "read", "rewrite"}
Free(b) == held[b] = "none"

Init ==
  /\ store \in [Blocks -> Data]
  /\ durable = store
  /\ held = [b \in Blocks |-> "none"]
  /\ safe = Blocks
  /\ suspect = {}

(* What the callers see after a step. *)
Shows(contents) == \A b \in Blocks \ suspect' : store'[b] = contents[b]

Get(b, use) ==
  /\ Free(b)
  /\ held' = [held EXCEPT ![b] = use]
  /\ Shows(store) /\ suspect \subseteq suspect'
  /\ UNCHANGED safe

PutBack(b) ==
  /\ held[b] = "read"
  /\ held' = [held EXCEPT ![b] = "none"]
  /\ Shows(store)
  /\ UNCHANGED <<safe, suspect>>

(* The new contents are on the disk sooner or later, or at once. *)
Put(b, v, now) ==
  /\ ~Free(b)
  /\ held' = [held EXCEPT ![b] = "none"]
  /\ Shows([store EXCEPT ![b] = v])
  /\ safe' = IF now THEN safe \cup {b} ELSE safe \ {b}
  /\ suspect' \ (IF now THEN {b} ELSE {}) = suspect \ {b}

Sync ==
  /\ safe' = Blocks
  /\ Shows(store) /\ suspect \subseteq suspect'
  /\ UNCHANGED held

(* Blocks are written to the disk at any time, to make room for others. *)
Nothing ==
  /\ Shows(store) /\ suspect \subseteq suspect'
  /\ UNCHANGED <<held, safe>>

Write ==
  /\ \/ \E b \in Blocks, use \in Uses \ {"none"} : Get(b, use)
     \/ \E b \in Blocks : PutBack(b)
     \/ \E b \in Blocks, v \in Data, now \in BOOLEAN : Put(b, v, now)
     \/ Sync
     \/ Nothing
  /\ store' \in [Blocks -> Data] /\ durable' \in [Blocks -> Data]
  /\ \A b \in Blocks \ suspect' : durable'[b] \in {durable[b], store'[b]}
  /\ \A b \in safe' \ suspect' : durable'[b] = store'[b]

(* Power fails, and the system is started again. *)
Crash ==
  /\ store' = durable
  /\ held' = [b \in Blocks |-> "none"]
  /\ UNCHANGED <<durable, safe, suspect>>

Next == Write \/ Crash

Spec == Init /\ [][Next]_vars

=============================================================================
