------------------------------- MODULE PpuBuf -------------------------------
(***************************************************************************)
(* The buffer of work for the picture processor and what uses it: the      *)
(* kernel queues descriptors (ppu/ppu_databuf.c) for the screen and for    *)
(* the block device in the processor's memory (drivers/devppuwd.c); the    *)
(* NMI at the start of each vertical blank carries them out                *)
(* (ppu/ppu_databuf.S and ppu.S).  The NMI comes between any two           *)
(* statements of the kernel, and the kernel does nothing while it runs.    *)
(***************************************************************************)
EXTENDS Integers, Sequences, FiniteSets, SequencesExt

CONSTANTS
  BUF,        \* 65, PPU_BUF_SIZE
  DESC,       \* 4, sizeof(struct ppu_desc)
  READ,       \* 64, PPU_MAX_READ
  WRITE,      \* 32, PPU_MAX_WRITE
  VBLANK,     \* 2273, the processor cycles of a vertical blank
  MAXCYCLES,  \* 2200, PPU_LOOP_MAX_CYCLES
  PERBANK,    \* 8, the blocks of a bank
  CELLS,      \* 16, the writes that make a block
  NBANKS,     \* 256, the banks that one byte selects
  Minors,     \* the minor numbers of the root and the swap device
  Blks,       \* bf_blk
  Data,       \* the contents of a block
  COLS,       \* 32, SCREEN_COLS, as the screen is wide
  LINE,       \* 32, SCREEN_COLS, as a blank line is long
  VISROWS     \* 28, SCREEN_VIS_ROWS

None == "none"                   \* the contents of a block that was never given any
ReadCells == READ \div WRITE
Blocks == Minors \X Blks
Passes == [read |-> CELLS \div ReadCells, write |-> CELLS]

ASSUME PpuAssumption ==
  /\ \A c \in {BUF, DESC, READ, WRITE, VBLANK, MAXCYCLES, PERBANK, CELLS, NBANKS,
               COLS, LINE, VISROWS} : c \in Nat \ {0}
  /\ READ % WRITE = 0 /\ CELLS % ReadCells = 0
  /\ None \notin Data /\ Minors \subseteq Nat /\ Blks \subseteq Nat

VARIABLES
  buf,       \* the descriptors in ppu_databuf
  ended,     \* a 0 follows them
  databuf_pos,
  locked,    \* ppu_locked
  waiting,   \* frame_wait_sleep
  dirty,     \* ppu_readbuf_dirty
  readbuf,   \* ppu_readbuf, in cells
  chr,       \* the memory of the picture processor, by bank and cell
  pc,        \* where the kernel is
  call,      \* what it was asked for
  pass,      \* of ppuwd_read and ppuwd_write
  bf_data,   \* the buffer of the call, in cells
  screen,    \* cur_nametable_pos
  disk,      \* the contents each block was last given: a history variable
  todo,      \* what was queued and is not carried out yet: a history variable
  order      \* what was carried out was in order: a history variable

vars == <<buf, ended, databuf_pos, locked, waiting, dirty, readbuf, chr, pc,
          call, pass, bf_data, screen, disk, todo, order>>

ppu == <<buf, ended, databuf_pos, dirty, readbuf, chr, todo, order>>
kernel == <<pc, call, pass, bf_data, screen, disk>>

\* Cell k of a block with contents d
Cell(d, k) == <<d, k>>
Whole(d) == [k \in 0 .. CELLS - 1 |-> Cell(d, k)]

(* The bits of the flags are tested in different orders by the kernel,     *)
(* which appends the data, and by the NMI, which takes them.               *)
DataLen(d) ==
  CASE "read" \in d.flags                       -> 1
    [] "null" \in d.flags /\ "read" \notin d.flags -> 0
    [] d.flags = {"write"}                      -> d.size + 1
    [] d.flags = {}                             -> d.size
Wanted(d) ==
  CASE "read" \in d.flags                       -> 1
    [] "write" \in d.flags /\ "read" \notin d.flags -> d.size + 1
    [] d.flags = {"null"}                       -> 0
    [] d.flags = {}                             -> d.size
Torn(d) == Wanted(d) # DataLen(d)
Sum(s) ==
  LET sum[n \in 0 .. Len(s)] == IF n = 0 THEN 0 ELSE sum[n - 1] + s[n]
  IN sum[Len(s)]
Length(s) == Sum([k \in 1 .. Len(s) |-> DESC + DataLen(s[k])])

Init ==
  /\ buf = <<>> /\ ended = TRUE /\ databuf_pos = 0
  /\ locked = FALSE /\ waiting = FALSE /\ dirty = FALSE
  /\ readbuf = [k \in 0 .. ReadCells - 1 |-> Cell(None, 0)]
  /\ chr = [b \in 0 .. NBANKS - 1 |->
              [k \in 0 .. PERBANK * CELLS - 1 |-> Cell(None, k % CELLS)]]
  /\ pc = "idle" /\ call = [op |-> "none"] /\ pass = 0
  /\ bf_data = Whole(None)
  /\ screen = COLS
  /\ disk = [b \in Blocks |-> None]
  /\ todo = <<>> /\ order = TRUE

-----------------------------------------------------------------------------
(* Descriptors *)

\* Where a block is: blk_bank takes the number without the minor.
\* Bug: the passes of a read are as long as those of a write.
BugStart(p) == p
Start(p) == p * ReadCells
Bank(b) == b[2] \div PERBANK
Base(b) == ((b[2] + b[1]) % PERBANK) * CELLS

(* populate_bank_desc.  The upper bits of a bank are put among the flags   *)
(* as they are, where they mean something else, and never reach the        *)
(* mapper: process_ppubuf masks them away before it shifts them down.      *)
LowerByte(b) == Bank(b) % NBANKS
UpperBits(b) ==
  {f \in {"null", "read"} :
     (Bank(b) \div (IF f = "null" THEN NBANKS ELSE 2 * NBANKS)) % 2 = 1}

Video == [flags |-> {}, size |-> 1]
Blank == [flags |-> {"null"}, size |-> LINE]
ReadDesc(b, p) ==
  [flags |-> UpperBits(b) \cup {"read"}, size |-> READ,
   bank |-> LowerByte(b), cell |-> Base(b) + Start(p)]
WriteDesc(b, p, cell) ==
  [flags |-> UpperBits(b) \cup {"write"}, size |-> WRITE,
   bank |-> LowerByte(b), cell |-> Base(b) + p, data |-> cell]

\* What the kernel queues now.
Desc ==
  CASE call.op = "putc"  -> Video
    [] call.op = "blank" -> Blank
    [] call.op = "read"  -> ReadDesc(call.block, pass)
    [] call.op = "write" -> WriteDesc(call.block, pass, bf_data[pass])

(* calc_desc_weight: processor cycles.  A null descriptor is charged 78,   *)
(* its overhead, for each byte too.                                        *)
Weight(d) ==
  CASE d.flags = {}       -> 74 + 20 * d.size
    [] d.flags = {"null"} -> 78 + 78 * d.size
    [] OTHER              -> 115 + 20 * d.size
BASECYCLES == 171
TooHeavy(d) == Weight(d) + BASECYCLES > MAXCYCLES

\* Bug: the 0 at the end is not counted.
BugNoRoom(d) == databuf_pos + DESC + DataLen(d) > BUF
NoRoom(d) == databuf_pos + DESC + DataLen(d) + 1 > BUF

-----------------------------------------------------------------------------
(* The NMI *)

\* process_ppubuf carries out a descriptor: m is what the processor leaves.
Stored(m, d) == [m EXCEPT !.chr[d.bank][d.cell] = d.data]
Fetched(m, d) ==
  [m EXCEPT !.readbuf = [k \in 0 .. ReadCells - 1 |->
                           IF k < d.size \div WRITE THEN m.chr[d.bank][d.cell + k] ELSE @[k]],
            !.dirty = TRUE]
CarriedOut(m, d) ==
  CASE "read" \in d.flags     -> Fetched(m, d)
    [] d.flags = {"write"}    -> Stored(m, d)
    [] d.flags \subseteq {"null"} -> m

\* Bug: the lock is not looked at.
BugFreeToRun == TRUE
FreeToRun == ~locked

AllCarriedOut ==
  LET left[n \in 0 .. Len(buf)] ==
        IF n = 0 THEN [chr |-> chr, readbuf |-> readbuf, dirty |-> FALSE]
        ELSE CarriedOut(left[n - 1], buf[n])
  IN left[Len(buf)]
Drained ==
  /\ \E m \in {AllCarriedOut} :
       chr' = m.chr /\ readbuf' = m.readbuf /\ dirty' = m.dirty
  /\ order' = (order /\ ended /\ buf = todo)
  /\ todo' = <<>>

\* Bug: the buffer is not emptied when it has been carried out.
BugReset == UNCHANGED <<buf, databuf_pos>>
Reset == buf' = <<>> /\ databuf_pos' = 0

(* A descriptor without its data: bytes that lie in the buffer from before *)
(* are carried out, as data and then as descriptors.  What comes of that   *)
(* is not modelled.                                                        *)
Lost ==
  /\ pc' = "lost" /\ order' = FALSE
  /\ UNCHANGED <<buf, ended, databuf_pos, dirty, readbuf, chr, todo>>

(* handle_vblank.  A read whose bytes were not taken yet stops the work    *)
(* but not the screen, nor who waits for the frame.                        *)
Nmi ==
  /\ FreeToRun
  /\ waiting' = FALSE
  /\ \/ dirty /\ UNCHANGED <<ppu, pc>>
     \/ ~dirty /\ (\E k \in DOMAIN buf : Torn(buf[k])) /\ Lost
     \/ /\ ~dirty /\ ~ \E k \in DOMAIN buf : Torn(buf[k])
        /\ Drained /\ Reset /\ UNCHANGED <<ended, pc>>
  /\ UNCHANGED <<locked, call, pass, bf_data, screen, disk>>

-----------------------------------------------------------------------------
(* The kernel *)

Goto(place) == pc' = place
At(place) == pc = place

(* A block with bits of its bank among the flags is written, or was.       *)
Crossed ==
  \E b \in Blocks :
    UpperBits(b) # {} /\ (disk[b] # None \/ (call.op = "write" /\ call.block = b))

Begin(c) ==
  /\ ~Crossed                     \* bound: nothing is claimed any more
  /\ At("idle") /\ Goto(IF c.op = "newline" THEN "queued" ELSE "queue")
  /\ call' = c
  /\ pass' = 0
  /\ bf_data' = IF c.op = "write" THEN Whole(c.data) ELSE bf_data
  /\ UNCHANGED <<ppu, locked, waiting, screen, disk>>

PpuPutc == Begin([op |-> "putc"]) \/ Begin([op |-> "newline"])
PpuwdRead == \E b \in Blocks : Begin([op |-> "read", block |-> b])
PpuwdWrite == \E b \in Blocks, d \in Data : Begin([op |-> "write", block |-> b, data |-> d])

(* ppu_lock: a panic if it is locked. *)
Lock ==
  /\ At("queue") /\ ~locked
  /\ locked' = TRUE
  /\ Goto("room")
  /\ UNCHANGED <<ppu, waiting, call, pass, bf_data, screen, disk>>

(* The descriptor is copied over the 0 at the end. *)
Header ==
  /\ At("room") /\ ~NoRoom(Desc) /\ ~TooHeavy(Desc)
  /\ buf' = Append(buf, Desc)
  /\ todo' = Append(todo, Desc)
  /\ ended' = FALSE
  /\ databuf_pos' = databuf_pos + DESC
  /\ Goto("data")
  /\ UNCHANGED <<locked, waiting, dirty, readbuf, chr, order, call, pass,
                 bf_data, screen, disk>>

CopyData ==
  /\ At("data")
  /\ databuf_pos' = databuf_pos + DataLen(Desc)
  /\ ended' = TRUE
  /\ Goto("unlock")
  /\ UNCHANGED <<buf, todo, locked, waiting, dirty, readbuf, chr, order, call, pass,
                 bf_data, screen, disk>>

Unlock ==
  /\ At("unlock") /\ Goto("queued")
  /\ locked' = FALSE
  /\ UNCHANGED <<ppu, waiting, call, pass, bf_data, screen, disk>>

(* -EAGAIN *)
Again ==
  /\ At("room") /\ (NoRoom(Desc) \/ TooHeavy(Desc))
  /\ locked' = FALSE
  /\ Goto("full")
  /\ UNCHANGED <<ppu, waiting, call, pass, bf_data, screen, disk>>

(* wait_frame, in queue_descriptor and after each pass of ppuwd_write *)
WaitFrame ==
  /\ \/ At("full") /\ Goto("wait")
     \/ At("queued") /\ call.op = "write" /\ Goto("next")
  /\ waiting' = TRUE
  /\ UNCHANGED <<ppu, locked, call, pass, bf_data, screen, disk>>

Woken ==
  /\ At("wait") /\ ~waiting /\ Goto("queue")
  /\ UNCHANGED <<ppu, locked, waiting, call, pass, bf_data, screen, disk>>

\* Bug: the bytes are taken before they have come.
BugAnswered == TRUE
Answered == dirty
\* bcopy of ppu_readbuf
CopyAnswer ==
  /\ At("queued") /\ call.op = "read" /\ Answered
  /\ bf_data' = [k \in 0 .. CELLS - 1 |->
                   IF k \in Start(pass) .. Start(pass) + ReadCells - 1
                   THEN readbuf[k - Start(pass)] ELSE bf_data[k]]
  /\ Goto("copied")
  /\ UNCHANGED <<ppu, locked, waiting, call, pass, screen, disk>>

Taken ==
  /\ At("copied") /\ Goto("next")
  /\ dirty' = FALSE
  /\ UNCHANGED <<buf, ended, databuf_pos, readbuf, chr, todo, order,
                 locked, waiting, call, pass, bf_data, screen, disk>>

LastPass == pass + 1 = Passes[call.op]
NextPass ==
  /\ At("next") /\ ~LastPass /\ (call.op = "write" => ~waiting)
  /\ pass' = pass + 1
  /\ Goto("queue")
  /\ UNCHANGED <<ppu, locked, waiting, call, bf_data, screen, disk>>

Return ==
  /\ Goto("idle")
  /\ call' = [op |-> "none"] /\ pass' = 0 /\ bf_data' = Whole(None)

PpuwdDone ==
  /\ At("next") /\ LastPass /\ (call.op = "write" => ~waiting)
  /\ disk' = IF call.op = "write" THEN [disk EXCEPT ![call.block] = call.data] ELSE disk
  /\ Return
  /\ UNCHANGED <<ppu, locked, waiting, screen>>

(* update_screen_ptrs.  When the cursor comes to the end of a line at the  *)
(* bottom of the screen the screen is scrolled: first of all a blank line  *)
(* is queued.                                                              *)
Moved == IF call.op = "putc" THEN screen + 1 ELSE screen + COLS - (screen % COLS)
Scrolls == Moved >= (VISROWS + 1) * COLS /\ Moved % COLS = 0
Advance ==
  /\ At("queued") /\ call.op \in {"putc", "newline"}
  /\ screen' = Moved
  /\ IF Scrolls THEN Goto("queue") /\ call' = [op |-> "blank"] /\ UNCHANGED <<pass, bf_data>>
     ELSE Return
  /\ UNCHANGED <<ppu, locked, waiting, disk>>

Kernel ==
  \/ Lock \/ Header \/ CopyData \/ Unlock \/ Again \/ WaitFrame \/ Woken
  \/ CopyAnswer \/ Taken \/ NextPass \/ PpuwdDone \/ Advance

Next == PpuPutc \/ PpuwdRead \/ PpuwdWrite \/ Kernel \/ Nmi

(* The kernel goes on, and a frame comes every sixtieth of a second.       *)
Spec == Init /\ [][Next]_vars /\ WF_vars(Kernel) /\ WF_vars(Nmi)

-----------------------------------------------------------------------------
(* Properties *)

(* Whatever the moment of the NMI, it finds whole descriptors, and carries *)
(* each of them out once, in the order of queueing; unless a block is      *)
(* written whose bank is above the first 256, with the bits of the bank    *)
(* among the flags.                                                        *)
OnceInOrder == IF At("lost") THEN Crossed ELSE order /\ buf = todo

(* When no call is going on each block is in the memory as it was last     *)
(* given, and a read has it in its buffer when it returns, until a block   *)
(* whose bank is above the first 256 is written, and as long as no other   *)
(* block was written that the code does not tell from it: one of the same  *)
(* number but for the upper bits of the bank, on any minor device.         *)
Number(b) == b[2] % (PERBANK * NBANKS)
InMemory(b) == [k \in 0 .. CELLS - 1 |-> chr[LowerByte(b)][Base(b) + k]]
Alone(b) == \A c \in Blocks \ {b} : Number(c) = Number(b) => disk[c] = None
BlocksKept ==
  ~Crossed =>
    /\ At("idle") => \A b \in Blocks : Alone(b) => InMemory(b) = Whole(disk[b])
    /\ At("next") /\ LastPass /\ call.op = "read" /\ Alone(call.block) =>
         bf_data = Whole(disk[call.block])

(* What is queued fits into the buffer, with the 0 that ends it.  A frame  *)
(* takes longer than the vertical blank only when a block is moved behind  *)
(* other work: the weights of what is queued are not added up.  (Or when   *)
(* a block above the first 256 banks is written, of which nothing drains.) *)
Cycles == BASECYCLES + Sum([k \in 1 .. Len(buf) |-> Weight(buf[k])])
FrameFits ==
  /\ ended => databuf_pos = Length(buf) /\ databuf_pos < BUF
  /\ Cycles > VBLANK /\ ~Crossed =>
       Len(buf) > 1 /\ Last(buf).flags \cap {"read", "write"} # {}

(* A call returns, unless it scrolls or writes above the first 256 banks.  *)
CallReturns == ~At("idle") ~> At("idle") \/ call.op = "blank" \/ Crossed

=============================================================================
