# UZI for the NES: a TLA+ verification project

The repository is a port of UZI, a small Unix, to the Nintendo Entertainment
System: a kernel in C for cc65 with some 6502 assembly (`src/uzi-nes-port`) and
the host programs that make and check its file systems (`src/uzi-nes-utils`).
This directory holds TLA+ modules translated from that source, TLC
configurations that check them on small instances, and TLAPS proofs of what
holds for every size.

Run anything from this directory: `tlc -config Files.cfg MCFiles`,
`tlapm BufCacheProofs.tla`.  `PROJECT.json` lists every run with its properties,
and for every property a mutant of the code that breaks it; it also maps every
definition to the lines it models.  File names below are relative to
`src/uzi-nes-port` unless they start with `src/`.

## 1. Inventory

The kernel runs one process image at a time; the others are on a swap device.
It is not preemptive: a process gives the processor up only in `psleep`,
`swapout`, `dofork` and `doexit`.  Concurrency comes from three places: the
processes that take turns at those points; the clock interrupt, which comes
wherever interrupts are enabled and touches the process table; and the NMI at
each vertical blank, which nothing disables and which drains what the kernel
queues for the picture processor (PPU).  Failure comes from the tables (all of
fixed size), from errors in the middle of a system call, from a device that
fails and from power failures between two writes.

| Component | State | Operations | Interacts through | Hard because | Correct if |
|---|---|---|---|---|---|
| Process table, scheduler, signals (`kernel/process.c`, `scall2.c`, `machdep.c`, `interrupts.c`) | `ptab`, the `u_data` of each image, statics of `getproc`, `ptab_alloc`, `calltrap` | fork, exit, wait, pause, kill, signal, alarm, execve, `psleep`, `wakeup`, `swapout`, `chksigs`, the clock interrupt | `wakeup(event)` from pipes, tty and exit; `ssig` from kill, alarm and pipes | the interrupt at every enabled point; `di`/`ei` that do not nest; fields of a zombie used twice; pids that wrap | one process runs; pids are unique; no exit is lost; signals arrive; the table's panics are unreachable; the scheduler is fair |
| Buffer pool (`drivers/devio.c`) | `bufpool`, `bufclock` | `bread`, `bfree`, `bawrite`, `brelse`, `zerobuf`, `bufsync` | all of the file system code calls it; it calls the device | eviction, dirty blocks, a clock that wraps, failing requests, power failures | it behaves as the disk would, and what was forced out stays |
| Free block list (`fs/filesys.c` `blk_alloc`, `blk_free`; `mkfs.c`) | `s_free`, `s_nfree`, `s_tfree`, lists kept in free blocks | allocate, free, build | called by `bmap`, `f_trunc`; uses the buffer pool | the list spills into the blocks it lists | no block twice, none lost, the superblock never "corrupt" |
| Inode table, open files, links (`fs/filesys.c`, `kernel/scall1.c`, `scall1b.c`) | `i_tab`, `of_tab`, `u_files`, `u_cwd`, directory entries | open, creat, close, dup, dup2, pipe, link, unlink, mknod, chdir, chmod, sync, the file part of fork and exit | counts shared by all processes | every exit of every call must give back what it took; three tables of fixed size | counts equal uses; an open file exists; names and link counts agree |
| Inode allocation (`i_alloc`, `i_free`) | `s_inode`, `s_ninode`, `s_tinode`, inodes on the disk | allocate, free, scan | calls `_sync`; reads inodes from the disk | two copies of each inode; a cache that is smaller than what it lists | no number in use is given out; the count is right |
| Path names (`n_open`, `srch_dir`, `srch_mt`) | none of its own | look up | takes and gives references | mount points, `..`, errors half way | references balance; a path leads where it means |
| File contents (`readi`, `writei`, `bmap`, `f_trunc`, `freeblk`) | block addresses, size, offsets | read, write, seek, map, truncate | buffer pool, free list | indirect blocks, holes, a full disk half way, 16-bit differences | what is read is what was written; truncation frees each block once |
| Pipes (`readi`, `writei`) | size and blocks of the pipe's inode, offsets of two `of_tab` entries | read, write, close | `psleep`, `wakeup`, `c_refs` | all sleep on one event; an offset kept over a sleep; wrap at 18 blocks | order kept, nothing lost, nobody sleeps for ever |
| Mounting (`fmount`, `_mount`, `_umount`, `srch_mt`) | `fs_tab` | mount, unmount | inode table, `n_open` | disks on disks, directories that are held, disks without file system | a busy disk stays; nobody is under a mount point |
| Terminal (`drivers/devtty.c`, `drivers/kb`, queues of `devio.c`) | `ttyinq` | read, write, `insq`, `remq` | interrupt to process | signals that stay pending; no interrupt fills the queue in this tree | first in, first out; a reader is woken |
| RAM disk (`drivers/devppuwd.c`) | CHR banks | read, write a block | PPU buffer | a block takes several passes and frames; minor numbers | the block asked for is the one moved |
| PPU buffer (`ppu/`) | `ppu_databuf`, `databuf_pos`, `ppu_locked`, `ppu_readbuf` | queue a descriptor, drain at the vertical blank | kernel and NMI share it | the NMI comes anywhere | no descriptor lost or torn; the frame's cycles suffice |
| Time (`kernel/time.c`, `interrupts.c`) | `tod`, `ticks`, counters | tick, convert | clock interrupt | carries | monotone, valid dates |
| Dispatch, banking, trampolines (`dispatch.*`, `trampoline.S`, `head.S`) | mapper registers | calls across banks | everything | assembly | - |
| `fsck` (`src/uzi-nes-utils/fs/fsck.c`) | bitmap, link counts, the disk | five passes over inodes, blocks and directories | the disk's layout | a repair may make another wrong; it may be interrupted | runs come to an end with a disk that is consistent, and lose no text |
| `mkfs`, `fsutil` (`src/uzi-nes-utils/fs`) | the disk | create; copy files in and out | the disk's layout | must agree with the kernel's layout | the kernel accepts the disk |

Other slips of the code, which the modules contain:
a device that is unlinked frees the block whose number is the device's; a pipe's
new inode is not marked dirty, so `i_alloc`'s scan may list it, which `Files` counts as a slip; `&= !sigmask(j)`
in `chksigs` clears all pending signals where it means one; `swapout` takes
signals after `psleep` marked the process asleep, so it sleeps on with its
handler due.

The hazards of each component are in `PROJECT.json`, at the line where they
bite, with the properties that would notice.

## 2. Plan

| Module | Over | Stands |
|---|---|---|
| `Process` | - | all operations; safety proved, scheduling checked |
| `BufCache` | implements `BlockStore` | all operations and device errors; refinement proved |
| `FreeList` | implements `Allocator` | all operations; safety and refinement proved |
| `Files` | blocks left out | all calls that share inodes; safety proved |
| `FileBlocks` | implements `ByteFile`; blocks as `Allocator` promises | read, write, seek, truncate; safety and refinement proved |
| `Pipe` | sleeps as in `Process` | read, write, signals, close; safety proved, liveness checked |
| `PpuBuf` | - | queue, lock, NMI, RAM disk driver, cursor; safety proved, liveness checked |
| `Mount` | inodes as in `Files` | mount, umount, path names; safety proved |
| `Fsck` | - | all passes, interruption, repetition; that text is kept and blocks are in one place proved, links and the end of asking checked |

Abstract specifications: `BlockStore` (what callers of the buffer pool see and what
survives), `Allocator` (blocks given out and taken back) and `ByteFile` (files as rows of
bytes).  They stand for the detailed modules where another module builds on
them: `FreeList` takes block contents to come back as written, and `FileBlocks`
takes a new block to be one that nobody has.

What is left, with the reasons, is in section 6.

## 3. The modules

### Process

State: the fields of `struct p_tab` by slot (`status`, `pid`, `pptr`, `alarm`, `wait`,
`pending`, `ignored`), the part of `u_data` that matters (`sigvec`, `cursig`), and
`cur`, the slot whose image is in memory (`udata.u_ptab`).  `kpc[s]` says where process
s is in its program or in the kernel, `back[s]` where it goes on when it is swapped
in.  The statics of `getproc`, `ptab_alloc` and `calltrap` are `pp`, `nextpid`, `tsig` and `tvec`.

One action is what the code does between two points at which the clock interrupt
can come; where a routine runs with interrupts enabled it is split there.  That
includes two places the code did not mean to open: `doexit` calls `wakeup`, whose
`ei` ends `doexit`'s `di`, so the process becomes a zombie in a step of its own
(`Doexit`, `BecomeZombie`); and `calltrap` runs with interrupts enabled and is also called by
the interrupt (`CalltrapTest`, `CalltrapVector`, `CalltrapCall`, against `TrapInIrq`).

| Code | Actions |
|---|---|
| `dofork`, `ptab_alloc`, `newproc` | `Fork`, `Newproc` |
| `_exit`, `doexit` | `Exit`, `Die`, then `BecomeZombie` |
| `_wait` | `Wait`, `WaitChksigs`, `WaitScan` |
| `_pause`, `psleep` | `PauseCall`, `PauseSleep` |
| I/O that sleeps (pipe, tty) | `IoCall`, `IoSleep`, `IoCheck`; `IoWakeup` for the other side |
| `_kill`, `_signal`, `_alarm`, SIGPIPE of `writei` | `Kill`, `Signal`, `Alarm`, `BrokenPipe` |
| `chksigs` | `ChksigsReturns` and `Die`, in the steps that call it |
| `swapout`, `getproc`, `swapin` | `Swapout`, `Getproc` (one turn of its loop) |
| tail of `unix()` | `UnixReturn` |
| `clk_int`, `handle_irq` | `ClockTick`, `ClockSecond` |

Left out: uids and `kill` to process 0 and to groups of processes, priorities and times, the swap
device, the return values.  The statement `p_pending &= !sigmask(j)` is
taken as C defines it: it clears all pending signals.

`doexit` lays the execution times over `p_wait`, and `wakeup` compares that field of zombies too.
What lands there is `u_utime.t_time`, which `addtick` and `incrtick` keep below 600 (`TICKSPERSEC` is 10),
and events are addresses of `ptab`, `i_tab`, `ttyinq` and `stopflag`, which the linker puts at `$a000` and
above.  So no count is ever an event, and one value (`Utime`) that is none stands for all counts.

### BufCache and BlockStore

`BlockStore` is the promise of the comment at the top of `drivers/devio.c`: callers see
in each block what was last put there, and what was forced out or synced
survives a power failure.  `BufCache` is the pool: `name`, `data`, `dirty`, `busy`, `time` are the fields of
`struct blkbuf`, `bufclock` is kept modulo `ClockMod` as `uint16`.  `BreadHit` and `BreadMiss` are the two
ways through `bread`, with `freebuf`'s eviction (the last of the oldest) and write inside
`BreadMiss`; `Brelse`, `Bawrite`, `BfreeNow` are `bfree` with 0, 1 and 2.  The refinement maps `store`
to what the pool and the disk together show (`View`) and `durable` to the disk.

Faults.  Any request may fail, as `DiskErrors` allows.  A read that fails
(`BreadError`) has named the buffer already, so the block is in the pool with
another's contents; a write that fails in `freebuf`, `bfree` or `bufsync` clears the dirty
flag all the same, so the change is lost.  In `bufsync` each buffer may fail for
itself (`Bdwrite`).  The history variable `suspect` is the set of blocks for which
that happened since they were last given new contents; `BlockStore` has it too and
lets a suspect block show anything, and only that one.  `PowerFail` empties the
pool at any time.

A caller holds at most `MaxHeld` buffers, fewer than there are: the kernel's callers
hold one or two of its buffers.  What a caller does to the data happens when it
gives the buffer back.

### FreeList and Allocator

`free` is `s_free[0 .. s_nfree - 1]`, `chain[b]` the list a block holds if `blk_free` copied one
there.  mkfs's loop (`MkfsFree`) builds the list block by block, after which `BlkAlloc` and
`BlkFree` run in any order.  `Allocator` promises that a block given out is not in use and
that the answer is 0 only when all are.  The blocks' contents are
taken to come back as written, which is what `BufCache` shows.

### Files

`fs` is the inode table, the free inode numbers and the directory: `refs`, `node`,
`dirty` by inode number, `disk` for what the disk has, `inode` and `tinode` for `s_inode` and `s_tinode`.
`of_tab`, `u_files`, `u_cwd` are the code's.  Each system call is one action, because
nothing in these calls sleeps; the routines it calls (`IRef`, `IDeref`, `IOpen`, `IAlloc`, `ChLink`,
`NewFile`, `NOpen`, `OftDeref`) are operators from a state of `fs` to the next, applied in the
code's order, so that an error half way leaves what the code leaves.

Several error exits lose or repeat an `i_deref` or an allocated number.  They are in the
model as they are in the code, each marked by `Slip`, which counts them in a history
field.  The exact properties (counts *equal* uses) are stated until the first
slip, the others (an open file exists, a closed one is written) always; a run stops making calls after more than `MaxSlips` slips.
The exits that slip: `unlink` of a name that does not exist; `creat` and `mknod` when `newfile` fails;
`link` when the entry cannot be written; `newfile` when the directory is full; `i_open` of
a new inode when the table is full; `pipe` without a second descriptor; the scan of
`i_alloc` when it lists the number of a pipe, whose inode on the disk is free.

The blocks of a file are not in this module, but `i_addr[0]` of a device is: it holds the device
number, and `f_trunc` takes it for a block when the device goes (the comment at `i_deref`, `filesys.c:607`, says it does not).
If the number is that of a data block (`DataBlocks`) the block goes on the free list, whatever it is used
for; otherwise `validblk` panics (`Stray`).  `NoPanic` names that panic as the only one; the block that is freed
twice is not followed here.

Left out: blocks of files (`FileBlocks`), permissions, other directories than the root (`Mount`), the devices' own open and
close, writes beyond `of_tab` (`dup2(d, d)` and `newproc` count `of_tab[255]`, which is memory behind
the table).  Programs do not unlink or open `/` itself, and init does not exit.

### Mount

The directories of each disk are constants (`Entries`), because how names come and go is in
`Files`.  State: `refs` (`c_refs`, by device and number), `fs_tab` (`s_mounted`, `s_mntpt`), `u_cwd`
and `of_tab`.  `NOpen` is `n_open`: it goes through the components of a path (`Component`) with
`srch_mt`, `srch_dir` and the way up through a mount point (`Uncovered`), takes and gives back
references in the code's order, and may fail at each inode when the table is full.
`Mount`, `Umount`, `Chdir`, `Open` and `Close` are the calls, with their error exits.

`fmount` copies the superblock into `fs_tab` before it looks at it.  So a disk without file
system is refused, but `s_mounted` keeps what was found there; if that is not 0 the
disk counts as mounted, and `umount` of it calls `i_deref` with a pointer from that disk:
a panic, after which the model stops.  `n_open` tells "up" by `name[1] == '.'`, so in
the root of a mounted disk every name with a dot in the second place is looked up in
the covered directory (`DotNames`); `NamesResolve` is stated for the other names.

Left out: permissions, the writing of `_sync`, and disks that are changed while they are
not mounted (the devices of this machine cannot be).  `dev_tab` names two disks; the model
has three so that mounts nest.

### FileBlocks and ByteFile

`ByteFile` is what programs expect: a file is a row of bytes, an open file a position in
it.  `FileBlocks` has the inode's 18 direct blocks, the single and the double indirect one
(`addr`, `Path`), the blocks of the disk (`content`, `used`), `i_size`, and `o_ptr` of the open
file entries as a block and an offset of 16 bits.  `_read` is one step, because nothing in it sleeps
and it changes nothing but the position.  A write is a step per block and, within it, per level (`call`):
each may have to allocate and may find the disk full, and what was done so far
stays.  The refinement takes a write to happen when it returns.

As in the code: a write of no bytes, or one that fails, behind the end makes the file
longer; a seek relative to the position by a negative amount that crosses a block goes
forward, since `o_offset` is unsigned; the rest of the file is computed in 16 bits and
only if the end is less than 64 blocks away.  A call of more than 63 blocks could therefore read
past the end; `MaxCount` is assumed not to be more than 63 blocks and a byte.  A read that begins behind the end
but in its last block answers with a count near 65536: `min` takes it for negative, so all of it is copied at once,
from the block and the memory behind it, and the offset goes back to the end of the file
(`Backward`; what the copy does to the program's memory is not modelled).  Of reads that begin behind the
end `ByteFile` says nothing.

### Pipe

`size` is `psize`, `cell` and `blocks` the ring, `ptr` the `o_ptr` of the two ends, `holders` the
processes that have each end open.  A process is out of a call, ready or asleep; `Begin` and
`Proceed` run `readi` or `writei` until it sleeps again or returns, since
a process gives the processor up only in `psleep`.  `PipeSignal` makes a sleeper ready for no reason
of the pipe's; `Close` and `DieAsleep` are the ways an end goes.  `PipeWakeup` is the kernel's
`wakeup`; the names that `Process` has too begin with `Pipe` here, because `ProcessProofs` is about
both modules.

`rwsetup` takes `o_ptr` before `psleep` and the call puts it back at its end.  If another
process that shares the end moves it meanwhile, bytes are read twice or
overwritten.  The history variable `stale` marks that, and `Fifo` claims nothing after
it; `UnsharedInOrder` proves that it cannot happen with one process at each end.

### PpuBuf

The kernel's side is a program (`pc`): `ppu_lock`, the header of a descriptor, its data,
`ppu_unlock`, or a retry in the next frame when there is no room; on top of it
`ppu_putc`, `ppuwd_read` and `ppuwd_write` with their passes.  The NMI may come between any
two of these steps: `Nmi` carries out the descriptors if the lock is free and the last
answer was taken.  `buf`, `databuf_pos`, `locked`, `waiting`, `dirty`, `readbuf` are the shared variables;
`todo`, `order` and `disk` are history.

As in the code: the bank of a block is computed from `bf_blk` and its address from `bf_blk` plus
the minor number, so blocks of different minors collide (`Alone` leaves them out).  The upper bits
of a bank go into the flags unshifted (`UpperBits`; `drivers/devppuwd.c:62` and `:93`) and never
reach the mapper, so a block from 2048 on is looked for 256 banks below, which `Alone` leaves out too.  Its flags
are then those of something else.  A write from block 2048 on has the bit of a null descriptor and
is queued without its data (`DataLen`), which the NMI takes all the same (`Wanted`): the descriptor is
`Torn`, and what the stale bytes in the buffer do is not modelled (`Lost`).  A write from block 4096
on has the bit of a read and waits for ever with an answer that nobody takes.  `src/README.md:133` makes the root
disk with 4096 blocks, so its upper half is concerned.  `Crossed` says that such a block is or was written;
the properties claim nothing of the order, the blocks and the calls from then on, and as a bound no further
call begins.  Reads of such blocks are in all of it.  A
null descriptor is charged its overhead for each byte, so a blank line of 32
weighs more than any frame may have and the first scroll never returns; the cycles
of descriptors already queued are not added up.

### Fsck

The state `fs` is the disk (inodes with pointers, blocks, free list, counts), the bitmap, the
link counts, and what was asked in this run.  A block is a row of words, which the code reads as text, as pointers, as entries
of a directory or as a part of the free list, whatever it was written for; so a block used for two things at once is changed for both
by one write.  Passes 1, 3 and 5 take one step per inode, pass 2 one step,
pass 4 one step per directory entry, with `ckdir`'s recursion as `stack`; each step writes what
it mends, as the code does at once.  Every question is answered with yes.  A run may
be interrupted between two steps once; up to `MaxRuns` runs follow each other.
The disks to begin with are a sound one and what one or two faults make of it (`MCFsck`), among
them what a power failure leaves (names of free inodes, inodes without names) and what
`BufCache` may leave of a lost write.  The code's loops over the blocks of a file and over the data
blocks are `Steps`.

What is left out:

- Files with double indirect blocks that pass 1 leaves (`SecondLevel`).  Pass 1 writes what it mends in such a block to the block
  whose number is the index (`fsck.c:237`), so to the superblock and the inodes too, and `setblkno` stores the
  index for the number (710).  `FsckAssumption` excludes these disks.
- Entry 32 of a directory and later ones, for which `dirread` and `dirwrite` reach behind their buffer.  No disk of the runs has a directory for
  which they do, and the theorems do not depend on what they find there.
- A directory whose inode would lie in the data blocks.  An entry may name the inodes from 8 * (`s_isize` - 2) to 8 * `s_isize` - 1 (line 466), and
  `iread` finds them in the first two data blocks.  If what is read there looks like a directory (`Stray`) the model stops for good, as
  after a panic; if not, `ckdir` returns and the count goes on, as in the code.

As in the code: `bitmap` is marked at a number that is out of range, too, which may hit a byte of `linkmap`
behind it (`MarkAny`); pass 1 mends an indirect block where it is, though it may be another file's text; pass 3 gives out blocks
that it does not mark, so blocks are in one place only from the second run on; the length of a directory that is no multiple of 16 is set to
a value that the test refuses again; `ckdir` looks at 8 entries of a full block
instead of 32 (`SEEN`); of a directory with two names `..` goes back and forth for ever and
its names are counted twice.  The properties name these cases as exceptions.

## 4. The runs

| Run | What it asks | Instance |
|---|---|---|
| `process_life` | `KillFindsProcess`, `ParentsLive`, `WaitersHaveNoZombie`, `ReadyRuns` | 3 slots, 3 pids (as few as the slots: the counter wraps at once), SIGPIPE |
| `process_signals` | `TypeOK`, `OneRunning`, `WaitMatches`, `KillYieldsOnlyToCaught` | 2 slots, SIGHUP, SIGKILL, SIGALRM, one pipe, one tty, alarms of one second |
| `buf_cache` | `TypeOK`, `OneBufferPerBlock`, `SafeOnDisk`, `Implements` | 2 buffers, 3 blocks, 2 contents, a clock of 3 ticks, reads and writes that fail, power failures |
| `free_list` | `TypeOK`, `NeverCorrupt`, `EveryFreeBlockListed`, `Implements` | 8 data blocks, lists of 3: three levels |
| `files` | `TypeOK`, `OpenFilesShared`, `InodesCounted`, `OpenFilesExist`, `LinksAreNames`, `ClosedIsWritten`, `NoPanic` | 2 processes with 2 descriptors, 3 open file entries, 2 slots in the inode table, 2 inodes besides the root, 2 names, a list of 1 inode number; `mknod` of directories and of devices 2 and 7, of which 7 is the number of a data block; no calls after a slip |
| `mount` | `RefsCounted`, `MountsHeld`, `NamesResolve` | 2 processes, 1 open file, 4 disks of which 2 can be mounted on each other and 1 has no file system, 12 inodes, 6 slots in the inode table; absolute paths of up to 3 names |
| `file_blocks` | `OnePlaceEach`, `Implements` | 2 files, 1 open file entry, 4 blocks of 2 bytes: 1 direct, a single indirect of 2, a double indirect; calls of up to 2 bytes |
| `pipe` | `PipeTypeOK`, `Fifo`, `NobodyForgotten`, `EndIsSeen` | 2 readers, 2 writers, a ring of 2 blocks of 2 bytes of which 1 may be full, a disk with 1 block or enough, 5 bytes in calls of up to 3 |
| `ppu` | `OnceInOrder`, `BlocksKept`, `FrameFits`, `CallReturns` | a buffer of 47 bytes, 2 banks of 2 blocks of 4 cells, 4 block numbers of which 2 have upper bits, one each of the two, 2 minors, 3 columns and 3 rows |
| `fsck` | `BlocksOnce`, `LinksAreNames`, `TextKept`, `Settles` | 4 inodes, 9 data blocks of 12 words, 60 faults one or two at a time, 4 runs, 1 interruption |

The tables are small enough to be full: each "no room" branch is taken, and each
counter reaches its limit.  Three slots show a process, its child and its orphan; two suffice for
signals, which concern a sender and a receiver.  One more level than `s_free` needs, one more
block than there are buffers, and one more inode than the table has slots, make
every eviction and refill happen in every order.  The inode table of `mount` has room for
what two processes, two mounts and one search hold, and not for a file more.  One file of
`file_blocks` reaches each of the three levels with the whole disk in its indirect blocks, the
other competes for it.  A pipe call of 3 bytes crosses a block and is more than may be in the pipe at once, and
5 bytes go around the ring.  In `ppu` the buffer is
full after two characters and a write; the blank line keeps its real length of
32, because its weight is what matters.

Two runs show where the code does not do what a comment in it says:

| Run | Violated | What happens |
|---|---|---|
| `trap_race` | `TrapCallsHandler` | an interrupt between two statements of `calltrap` runs the handler and resets the vector, which is then called as 0 |
| `fsck_references` | `ReferencesFound` | `ckdir` looks at 8 entries for each full block of a directory, which has 32, so pass 4 misses the only name of a file on a sound disk; pass 5 takes the file for detached and it gets a second name |

Deadlock.  `Process` may stop: everybody may be asleep with no alarm set and only
ticks, which change nothing, left.  `Files` and `Mount` stop after a panic, `Pipe` when all ends
are closed, `Fsck` after its last run.  Those runs do not check deadlock; the others do.

Fairness.
- `ReadyRuns` has `CooperativeSpec`: weak fairness of the kernel's own
  steps, which nothing can hold up once the kernel runs, and strong fairness of
  each process's calls that yield.  The second is an assumption on the programs, not on
  the kernel: the preemption code of `clk_int` is compiled out (`kernel/interrupts.c:100`), and a program
  that computes for ever does starve the others.  Under that assumption the run
  shows that `getproc`'s round starves nobody.
- `EndIsSeen` (a call returns once the other end has been closed) has weak fairness of `Proceed` for each process: one that is ready comes to run,
  which is what `ReadyRuns` shows.
- `CallReturns` has weak fairness of the kernel's steps and of the NMI, which the
  machine gives sixty times a second.

## 5. The proofs

`ProcessProofs` proves of `Process`, for any number of slots, pids, signals and events:

- `TypeCorrect`: `TypeOK`.  Its invariant `TypeInv` adds that `calltrap`'s static is a signal
  wherever it is used, and that no alarm is set where SIGALRM is not in use.
- `OneRunningHolds`: `OneRunning`, so that the panics "psleep: voodoo" and "getproc: extra running"
  cannot happen.  `OneRunning` is not inductive: `RunInv` adds what status the process has that
  forks, has just gone to sleep or is about to become a zombie (`Leaving`).
- `PidsAreUnique` and `KillReachesItsTarget`.  The lemma `PidAvailable` says that `ptab_alloc`'s search for a
  pid ends, by counting: with a free slot fewer pids are in use than there are.  `PidInv` says that
  no slot before a process's own holds its pid, slots given up included, because
  `ptab_alloc` takes the first free slot; that is why `_kill`, which does not look at `p_status`,
  still stops at the right one.
- `KillYields`: `KillYieldsOnlyToCaught`, from the fact that the vector of SIGKILL is always the
  default (`_signal` refuses it), so `chksigs` passes it by only for a caught signal of a
  lower number.
- `WaitsMatch` (`WaitMatches`), `ParentsStay` (`ParentsLive`) and `NoExitMissed` (`WaitersHaveNoZombie`).  None
  of them is inductive alone.  `Sleepers` says that `p_wait` is what the status claims, also at the
  places in the kernel where a process is between the two, and that events are what
  is slept on; `Kin` says that parents are live, that who waits has no zombie, that
  init stays, and what `Leaving` processes still owe.  A child that exits finds its parent
  asleep only because of `Sleepers`, and may write into its slot only because of `Kin`.

`BufCacheProofs` proves of `BufCache`, for any number of buffers, blocks and contents and whatever
requests fail: `TypeCorrect`, `OneBuffer`, `SafeBlocks` and `Implementation` (`BufCache` implements `BlockStore`).  The
inductive invariant `Inv` adds to one buffer per block that a clean buffer holds what the
disk has, except for suspect blocks (`CleanIsDisk`), that a dirty one has a name and that a buffer is busy exactly while
its block is held.  The refinement is proved action by action: each lemma `...View` says
how an action changes what the callers see.

`FreeListProofs` proves of `FreeList`, for any number of blocks and any size of `s_free`, `TypeCorrect`,
`SuperblockSound` (`NeverCorrupt`), `ListWhole` (`EveryFreeBlockListed`) and `ListAllocates` (`Implements`).  The counts alone are not inductive:
that `blk_alloc` reads a usable list back depends on where the lists are.  `Inv` says that they
form a stack `T[1], ..., T[n]` (`Stack`): `T[n]` is the list in the superblock, each list below is full and is kept
in the first block of the list above it, the 0 is the first entry of `T[1]`, and every other
place holds a free block, each free block at exactly one place.  `PutInv` shows that putting a block on
the list either lengthens the last list or adds one, `TakeInv` that taking one shortens it or removes it;
`AllocCases` that the corrupt branches of `blk_alloc` are then unreachable.  `EveryFreeBlockListed`
reads the chain of lists with a recursive function; `BelowIsWhole` climbs the stack list by list and shows
that what is read below a list is what the lists below it hold (`Heads` keeps their places
apart), and `WholeCounts` that the count of the superblock is their number.

The last part of `ProcessProofs` proves of `Pipe`, for any number of readers and writers and any size of block and
ring:

- `PipeTypeCorrect`, and `NoWakeupLost` (`NobodyForgotten`): `WokenAll` says that `wakeup` leaves nobody asleep,
  `StillWaits` that who sleeps still has a reason to as long as size and ends are the same.
- `BytesInOrder` (`Fifo`): `RingInv` says that the bytes written and not yet read lie on the ring in
  order, from the reader's place up to the writer's, which are `size` apart; the lemmas before it are the
  arithmetic of places modulo the ring.
- `UnsharedInOrder`: with one process at each end, who sleeps has the place of its end (`PlaceKept`), so
  `stale` stays false.

`FilesProofs` proves of `Files`, for any number of processes, descriptors, inodes and names and any size of
the tables: `TypeIsKept` (`TypeOK`), `FilesAreShared` (`OpenFilesShared`), `InodesAreCounted` (`InodesCounted`), `OpenFilesLast`
(`OpenFilesExist`), `LinksAreCounted` (`LinksAreNames`), `ClosedAreWritten` (`ClosedIsWritten`) and `NeverPanics` (`NoPanic`).
One inductive invariant, `IInv`, gives them all:

- `FsOK(f)` is about the file system record alone: what is not on the disk is marked dirty unless the inode is a
  pipe's (`Written`), the names lead to inodes and are counted (`DirSound`, `LinksCounted`), and the list of free numbers
  has no number twice and none that is in use (`Numbers`).  Where a call stands between two of its
  steps the conjuncts are stated with an exception for the inode it works on (`Whole(f, {i})`).
- `SharesOK` and `RefsOK` count: the entries of `of_tab` against the descriptors, the references of an inode
  against open files and current directories, both by `Count`.

A system call is a chain of operators, so the proof has a lemma for each: `Takes` and `Drops` say how
many references it takes or gives back, whether it keeps `FsOK`, and whether it slips; a call's lemma adds
them up.  `doexit` closes descriptors in a loop, which is proved by induction over the
descriptors.  `IInv` was model-checked with 0 and 1 slips before it was proved.  `NeverPanics` has a
hypothesis, `Roomy`: the limit of `i_ref`, `2 * ITABSIZE`, is above what open files, directories and a search may
add up to (40 against 15, 20 and 2).  The one panic that `NoPanic` allows is that of a device that has gone.

`MountProofs` proves of `Mount`, for any number of processes, disks and directories and any names in them:
`RefsAreCounted` (`RefsCounted`), `MountsAreHeld` (`MountsHeld`) and `NamesAreResolved` (`NamesResolve`).  `IInv` says that the mounted
disks are a tree from the root disk (`MountsSound`), that what processes hold lies on mounted disks and under no mount
point (`HoldersSound`), and that `c_refs` is the number of holders (`Counted`).  `n_open` is followed name by name,
for paths of any length: `Walking` says what the search holds after each, on the ways out too.  For
`NamesResolve`, `Chain` is the way from the root to where the search stands, each step of it what
`..` undoes, and `Leads` that the search is at its end; each name keeps that.  The trees of the
disks are assumed to be trees (`TreeAssumption`): `.` is the directory itself and `..` of a
subdirectory the directory it is in.

`PpuBufProofs` proves of `PpuBuf`, for any size of the buffer, the blocks and the screen:

- `NmiInOrder` (`OnceInOrder`): `LockInv` says that the lock is taken exactly while a descriptor is put together, and
  that the terminating 0 is missing only then.  That a descriptor is torn only after a block above the first 256
  banks is written takes `QueueInv` and `NotTorn`: what is queued is plain or the descriptor of the call.
- `FramesFit` (`FrameFits`): `SizeInv` says that `databuf_pos` is the length of what is queued, and `QueueInv`
  that only the last descriptor moves a block, since its call waits for it.  Its hypothesis `Sized` is
  what the code's numbers satisfy: a blank line is refused, one descriptor that is not
  refused fits into a frame, and so do as many characters as there is room for.
- `BlocksAreKept` (`BlocksKept`): by `Effect`, draining the buffer changes what its last descriptor changes.  `MemoryInv`
  says how far a write has come (`Written`), how far a read (`Readout`), whose answer is in `ppu_readbuf`
  (`Answers`), and that other blocks keep their contents (`Kept`), which takes the arithmetic of banks (`PlacesDiffer`).
  Like `QueueInv`, it is claimed until a block above the first 256 banks is written (`CrossedStays`); such blocks
  may be read, and what tells blocks apart is their number without the upper bits (`PlaceIs`).
  Its hypothesis `Aligned` is that minor numbers are multiples of the blocks in a bank, as 0 and 4096 are;
  otherwise the bank and the address of a block would disagree.

`FileBlocksProofs` proves of `FileBlocks`, for any number of files, blocks and open files and any size of blocks
and of the direct part: `BlocksHaveOnePlace` (`OnePlaceEach`) and `FilesAreRowsOfBytes` (`Implements`, the refinement of
`ByteFile`).

- `Sound` is about the tables alone: what is in an inode or an indirect block is 0 or a block (`Typed`), the places filled
  are those of the blocks in use (`Filled`), and no two of them have the same block (`Apart`).  `Look` is the way of
  `bmap` to a block of a file, level by level; `LookApart` says that two different places of files
  never lead to the same block, so that a write to one shows in no other (`CopiedBytes`), a fresh block changes
  no byte (`EnteredBytes`), and truncating a file neither touches another nor leaves a block behind (`CutSound`,
  `CutBytes`).
- While a write is under way, `CallInv` says what it has stored (`Stored`) and where in the map it stands (`On`): the
  rest of the path leads from there to the block that `Look` finds.
- `LimitedFacts` is the arithmetic of 16 bits with which `readi` cuts a call short: for a call of at most `MaxCount` bytes
  that does not begin behind the end, near the end or far from it, the count is that of `ByteFile`.
- The refinement has a lemma per action (`ReadStep`, `CopyStep`, ...), which gives both the invariant after the step and
  the step of `ByteFile`; the steps of a write before its return are stutters, because `ByteFile` sees
  the bytes before the call until then.

The proof needs three things of the constants that the runs did not show, now in `BlocksAssumption`: a block has at least two
bytes (with one, the longest call would wrap to a negative 16-bit number), a file has fewer blocks than 2^16, as
`o_blkno` is a `uint16`, and files are not blocks.

`FsckProofs` proves of `Fsck`, for any number of inodes and blocks, any number of direct and indirect pointers, words and entries, and
every disk with a root directory and enough blocks:

- `TextIsKept` (`TextKept`): after any number of runs, whole or cut short, what a file had in its blocks is still there,
  except in a block that is used as an indirect one too.
- `BlocksAreOnce` (`BlocksOnce`): after a second run each data block is in one place, or free and in the list once.

Both follow from one inductive invariant, `Inv`.  A *place* is a direct block, the indirect block or a pointer in it, of
some inode (`Places`); `At(fs)` says which block is in each place that belongs to a file.

- `Looked`: an inode that pass 1 was at is `Fine` (its size is mended, what is in its places is 0 or a data block, the double
  indirect pointer is gone); any other is `Shallow`, that is, pass 1 will take that pointer away.
- `Kept`: each place where a file had text, in a block that is nobody's indirect one, still holds such a block with that text, and nothing is in a place where there
  was nothing (`Filled`), so that fsck never needs more blocks than the disk had places in use.
- `Marked`: the bitmap of pass 1 has exactly the blocks of the places it was at (`Seen`), so pass 2 lists exactly the
  others (`ListRebuilt`).
- `Splitting`: the middle of pass 3 (`Mid`).  The free list holds each block of a set F once, each list of a chain in the first
  block of the list after it (`Listing`); no place has a block of F; in the places looked at, nothing is in two of them.
  The blocks that pass 3 gives out are not marked, so in a first run two indirect blocks may become the same again
  (`ReplacedMoves`): a change of a pointer then shows in both files.  That is where a second run is needed.
- `Freeing`, after pass 3: the list is whole, and each data block is in it, in a place, or in a file that pass 5 took away.
- `Unshared`: what is in two places is in two indirect blocks after one run (`Separate`), and nothing is in two places after two (`Distinct`).

A single change of the disk has a lemma each (`AddrPut`, `PtrPut`, `CopyMade`, `SizePut`, ...), which says what it does to all
places; a pass over an inode is followed change by change, its loops along `Steps` by `AlongSteps`.  In pass 1 only
indirect blocks are written to, and block 0 (`Wiped`).  Passes 4 and 5 are `Quiet`: they change names,
links and modes, and take away files, but put nothing into a place; they write only to the first blocks of directories, which after
pass 3 are in no other place (`DirApart`) and not free, so neither a text nor a list changes.  That needs `TreeInv`: what `ckdir` is in are directories, and the root
is one or has become an empty inode that was taken away, in which `mkentry` finds no entry.  `UsesArePlaces` and `OnceIn` lead from places back to the words of
`BlocksOnce`, and `ListRead` from the chain of lists to the list that is read.  Three hypotheses:

- `Roomy`: there are no more places in use than data blocks.  Else there may be no block for a copy, and fsck
  leaves two files with one block; if one of them is a directory, it writes names into the other's text.  A sound disk is `Roomy`, and so are all 1647 disks of the run.  A disk without room
  for the copies is neither proved about nor run.
- The root is a directory, `Mode(was, Root) = "dir"`.  Else `mkentry` writes entries into a file.  58 disks of the run have another root,
  and the properties hold for them, too.
- No file of the disk has double indirect blocks that pass 1 leaves (`SecondLevel`); this is in `FsckAssumption`.

The theorems also say nothing of what follows a directory in the data blocks, where the model stops.

Parts of `Inv` were model-checked on the disks of the run before they were proved.

Several of these modules begin with lemmas about sets, functions and numbers only: induction over an interval,
the solution of a recursion along one, counting, and division.  A fold or a recursive
function of a model is handled by showing that a function given explicitly solves its equation and then going
along the interval.

Assumptions on constants are the named `ASSUME`s of the modules (`ProcAssumption`, `BufAssumption`,
`FreeAssumption`, `FilesAssumption`, `PipeAssumption`, `PpuAssumption`, `MountAssumption`, `TreeAssumption`, `BlocksAssumption` and
`FsckAssumption`), which TLC evaluates in every run.  `FsckAssumption` gives the disks their type and excludes those with `SecondLevel`, on which
pass 1 may write over inodes.

Only model-checked:

- `ReadyRuns`, `EndIsSeen` and `CallReturns`, because liveness is out of the prover's reach.
- `LinksAreNames` and `Settles` of `Fsck`.  They say what is so after the last run allowed, and how many runs a disk needs
  depends on how many faults it has and how deep they are in the tree of directories: a name that is mended in
  one run is counted in the next, and may lead to a directory that is looked at only then.  For disks with
  more faults nothing says that four runs suffice, so there is no theorem for all disks.

## 6. Not modelled

- The character queues of the terminal (`insq`, `remq`, `uninsq` of `drivers/devio.c`): in this tree only
  `tty_init` puts characters in; no interrupt fills the queue, so there is nobody to interleave
  with.  The sleep of `tty_read` is in `Process`.  The keyboard matrix is pure input.
- What follows the blank line of a scroll in `ppu/ppu_databuf.c`: the call does not return from it.  The
  older screen buffer (`ppu_screenbuf`) is not built (`ppu/Makefile`).
- The calendar (`kernel/time.c`): divisions of the tick count, with the day and month fixed.  Seconds are in
  `Process`, where they drive alarms.
- Null and memory devices, which keep nothing.
- Dispatch, bank switching and trampolines: assembly that moves registers and makes no decision
  that `Process` does not model.
- The string library: byte copies and comparisons.
- `mkfs` beyond the free list (`FreeList`) and the root inode (`Files`); `fsutil`, which wraps the kernel's
  calls for the command line of the host.
- Prototypes and build scripts, which are no part of the system.
- Across modules: power failures are modelled where the buffers are (`BufCache`) and what they may leave of
  names where it is mended (`Fsck`), not in one model; permissions are nowhere.
