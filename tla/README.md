# TLA+ models of the three xv6 kernels of ELE3021

The repository holds three kernels, each xv6 with one assignment built into it:

* `src/project01/xv6-public`: a multi-level feedback queue scheduler (MLFQ) with a
  scheduler lock;
* `src/project02/xv6-public`: light-weight processes (threads), `exec2`, memory limits and
  a process manager;
* `src/project03/xv6-public`: files with double and triple indirect blocks, symbolic links,
  and the redo log that carries the file system over crashes.

This directory models what the assignments changed, and the parts of xv6 they rest on.
Paths below are relative to the kernel in question; p01, p02 and p03 stand for the three of
them. A part of xv6 that all three share is modelled once, from the kernel its module names.

## Inventory

| Component | State | Operations | Hard behaviour | What makes it correct |
|---|---|---|---|---|
| MLFQ scheduler (p01 `proc.c`, `trap.c`) | `ptable`, `queues[3]` linked through `qnext`, `ticks` | `scheduler`, `fork`, `exit`, `wait`, `sleep`, `wakeup`, `yield`, `kill`, `setPriority`, timer interrupt, `priorityBoosting` | processes of several CPUs and the timer change the same lists; the boost splices them; quanta and levels change under way | a process is queued exactly while RUNNABLE, once, on its level; it runs on one CPU; the lists are the three sequences of the design; nobody starves; no wake-up is lost |
| Scheduler lock (p01 `proc.c`) | `schedLock`, `ticks` | `schedulerLock`, `schedulerUnlock` | the lock outlives a sleep or meets the boost | the timer never preempts the holder; no queued process holds it; the one that unlocks is first in L0 |
| Threads (p02 `proc.c`, `exec.c`) | slots of `ptable` that share `pid` and `pgdir`; `parent`, `threadnum` | `thread_create`, `thread_exit`, `thread_join`, `fork`, `exit`/`killthread`, `wait`, `exec`, `exec2`, `kill` | one thread frees the slots of the others wherever these are; page tables are shared; preemption inside every call | a page table is given up once, and when nobody runs on it; a process dies whole; counts agree; whoever is killed ends |
| Sizes of memory (p02 `proc.c`, `sysproc.c`) | `sz`, `szlimit` of each thread | `growproc`, `sbrk`, `setmemorylimit`, `thread_create` | `sz` is read without the lock, or after it was given up | the threads of a process agree on its size, and what is mapped is below it |
| Address spaces (p02 `vm.c`, `exec.c`, `kalloc.c`) | free frames, page tables, kernel stacks | `allocuvm`, `deallocuvm`, `copyuvm`, `freevm`, `exec`, `exec2`, `fork`, `wait` | out of memory in the middle of a call | a frame has one owner; nothing is leaked by a failure |
| Spin locks and interrupts (`spinlock.c`, `trap.c`) | `ncli`, `intena`, the interrupt flag | `pushcli`, `popcli`, `acquire`, `release`, `sched`, `swtch` | a lock that changes hands with the CPU; interrupts that nest | no CPU waits for a lock of its own; interrupts return to what they were |
| Sleep and wake-up, sleep locks, clock (`proc.c`, `sleeplock.c`, `sysproc.c`) | `chan`, `locked`, `ticks` | `sleep`, `wakeup`, `acquiresleep`, `releasesleep`, `sys_sleep` | a wake-up between test and sleep; the counter wraps | no wake-up is lost; one holder; `sleep(n)` lasts n ticks |
| Redo log (p03 `log.c`) | `log.lh`, `outstanding`, `committing`; header and log blocks on disk | `begin_op`, `log_write`, `end_op`, `commit`, `recover_from_log` | a crash between any two disk writes, a crash during recovery; a full log; sleepers | system calls are atomic; nothing committed is lost; the room reserved is there; sleepers wake |
| Buffer cache, disk driver (`bio.c`, `ide.c`) | buffers, `refcnt`, flags, queue of requests | `bread`, `bwrite`, `brelse`, `iderw`, `ideintr` | recycling a buffer whose change is not home yet; requests queue up behind one that is running | a block is in one buffer and reads as last written; who waits for it gets it |
| Inodes (p03 `fs.c`) | `icache`, dinodes, bitmap | `ialloc`, `iget`, `ilock`, `iupdate`, `iput`, `bmap`, `itrunc` | a reference is dropped while others look the inode up; an inode is reused while its entry is still valid; levels of indirection | one entry per inode; exact counts; what is in use is not free; every block has one owner |
| Contents of files (`fs.c`, `file.c`) | offsets, sizes, blocks | `readi`, `writei`, `fileread`, `filewrite` | a write gives up the inode between chunks; offsets are shared | a file is a sequence of bytes without gaps; a chunk fits a transaction |
| Directories and paths (`fs.c`, `sysfile.c`) | directory entries, `nlink`, `cwd` | `namex`, `dirlink`, `create`, `open`, `mkdir`, `chdir`, `link`, `unlink` | a directory is unlocked before the next is looked at, and may be removed in between; a call fails half-way | directories form a tree of live inodes; `nlink` counts the names |
| Symbolic links (p03 `sysfile.c`) | `symbolic`, `symbolpath` of a cache entry | `symbolic_link`, `open` | the fields are neither written to disk nor cleared | a link keeps its target until the machine restarts |
| File table, pipes (`file.c`, `pipe.c`, `sysfile.c`) | `ftable`, `ofile`, `struct pipe` | `pipe`, `dup`, `close`, `fork`, `exit`, `read`, `write` | ends that are shared and closed while others sleep in them; counters that wrap | counts are exact; a pipe is a stream of bytes; who sleeps is woken |
| Console, keyboard (`console.c`, `kbd.c`) | ring with `r`, `w`, `e`; screen; `shift` | `consoleintr`, `consoleread`, `consolewrite`, `cgaputc`, `kbdgetc` | the ring fills up and is edited while it is read, and others write to the screen; keys that are held or repeated, and released in another order | readers get the lines entered; the screen shows the line |
| User heap and library (`umalloc.c`, `ulib.c`, `printf.c`, `string.c`) | circular list of free blocks | `malloc`, `free`, `strcpy`, `memmove`, `printf`, ... | joining neighbours; sizes at the limits | the blocks divide the heap; functions return what they are for |
| Boot (`bootmain.c`, `main.c`, `mp.c`, `kalloc.c`) | page list, `started`, arguments at one address | `readseg`, `mpinit`, `startothers`, `kinit1`, `kinit2` | processors start while memory is still handed out without a lock | each processor has a stack of its own; the kernel is loaded whole |
| Image of the file system (`mkfs.c`) | blocks, inodes, bitmap | `ialloc`, `iappend`, `balloc` | sizes at the boundaries of blocks | the image is a consistent file system |
| Shell, grep (`sh.c`, `grep.c`) | parse tree, processes and their descriptors; a window on the file | `parsecmd`, `runcmd`, `grep`, `matchhere` | every program of a pipeline must close what it does not use; a line cut by the buffer | lines are parsed and wired as written and end; lines that match are printed |
| Memory that programs touch (p03 `vm.c`, `exec.c`, `syscall.c`) | page tables with flags, contents of frames | `exec` with arguments, `copyuvm`, `copyout`, `argint`, `argptr`, page faults | an address just below or above a limit, sums that wrap; a call that is given memory of the kernel | what a program can touch is its own, and holds what was put there |
| Interrupts of devices (p03 `lapic.c`, `ioapic.c`, `picirq.c`, `uart.c`, `trap.c`) | local APICs, the I/O APIC, the 8259s, bytes that wait in a device | `lapicinit`, `ioapicinit`, `ioapicenable`, `picinit`, `uartinit`, `trap`, `lapiceoi` | a device that raises its line before, or while, it is handled; an edge at a masked pin | a device that has something is heard; what interrupts a processor is acknowledged |
| Tests (p02 and p03 `usertests.c`, p02 `thread_*.c`, ...) | | the calls, with the results expected | every schedule of the processes | they pass |
| Traps, dispatch, other programs | | | | see "Not modelled" |

The parts meet as follows. System calls and the timer interrupt enter through `trap`; each
call takes `ptable.lock` or sleeps under it, so the scheduler, `sleep` and `wakeup1` are what
every blocking operation above is made of. File system calls run between `begin_op` and
`end_op`, and change blocks through buffers that `log_write` pins; inodes are records in
such blocks, cached a second time in `icache`. A call reserves room in the log first, then
locks the directory, the inode, and one buffer at a time.

The hazards in `PROJECT.json` list, line by line, what in this code a test would hardly
reach, and the property that watches over it; a note says where a property covers a part
only, or why none does.

## Modules

| Module | Models | By |
|---|---|---|
| `RunQueue` | the queues of p01: `Enqueue`, `Enqueue2`, `Dequeue`, `cutRelation`, the splices of the boost | operators on a record `[head, tail, next]`, with the pointer updates of the code |
| `MLFQ` | p01 scheduler, process lifecycle, timer, scheduler lock, `kill`, `setPriority` | one action per section under `ptable.lock` or `tickslock` |
| `ReadyQueues` | the design: three sequences | abstract specification |
| `MLFQRefinement` | the lists of `MLFQ` read as sequences | `INSTANCE ReadyQueues`, property `KeepsQueueOrder` |
| `MLFQProofs` | | proofs: of the lists and the scheduler, and of `KeepsQueueOrder` |
| `StableStore` | what the log promises | abstract specification |
| `Log` | p03 log, recovery, the part of the buffer cache it needs, crashes | one action per section under `log.lock`, and per disk write of `commit` |
| `LogProofs` | | proofs |
| `Threads` | p02 threads, processes, `exec`, `exec2`, `kill` | one action per section under `ptable.lock`, or between two |
| `ThreadsProofs` | | proofs |
| `BlockMap` | p03 `balloc`, `bmap`, `itrunc` | operators on a disk (bitmap and words of blocks), and the reference: the tree of an inode |
| `Inodes` | p03 inode cache and the calls on files of one directory | one action per section in which no lock is given up that others want |
| `InodesProofs` | | proofs: of counts, and of blocks |
| `AddressSpaces` | p02 frames and page tables of two levels, `exec`, `exec2`, `sbrk` | one action per call; any allocation in it may be the one that fails |
| `ThreadMemory` | p02 sizes of memory that threads share | one action per section under `ptable.lock`, and per read of `sz` outside it |
| `Spinlocks` | p03 spin locks, interrupts, `sched`, `forkret` | one action per `acquire`, `release`, interrupt or switch of a CPU; each CPU runs a stack of frames |
| `Sleeping` | p03 `sleep`, `wakeup`, sleep locks, `sys_sleep` | one action per section between two spin locks |
| `LocksProofs` | | proofs: of spin locks, and of sleep and wakeup |
| `Buffers` | p02 buffer cache and disk driver | one action per section under `bcache.lock`, `idelock` or in the owner's hands; implements `BlockStore` |
| `BuffersProofs` | | proofs |
| `Files` | p03 file table, pipes, `fork`, `exit`, `wait`, `kill` | one action per section under a spin lock; implements `ByteStreams` |
| `FilesProofs` | | proofs |
| `FileData` | p01 `readi`, `writei`, `fileread`, `filewrite`, `bmap` | one action per chunk under the lock of the inode; implements `FileBytes` |
| `Names` | p01 directories and paths | one action per step under the lock of one directory or inode |
| `NamesProofs` | | proofs |
| `SymbolicLinks` | p03 symbolic links, cache entries, restarts | one action per call, or part of it up to the next lookup |
| `Console` | p01 console | one action per key, output or section of a read under `cons.lock`; implements `LineInput` |
| `Keyboard` | p01 `kbdgetc` and its tables | one action per byte, and per key pressed or released |
| `Heap` | p01 `malloc`, `free`, `morecore` | one action per call |
| `BootLoader` | p01 `bootmain`, `readseg` | one action per sector |
| `Boot` | p03 `main`, `startothers`, `mpenter`, `mpinit`, the list of `kalloc` | one action per step of a processor that others can see |
| `Mkfs` | p03 `mkfs` | one action per turn of the loop of `iappend` |
| `Shell` | p01 parser and `runcmd` | the parser as functions on tokens; one action per system call of `runcmd` |
| `Grep`, `Strings` | p01 `grep`, library functions | one action per `read`, or per call; results compared with reference definitions |
| `SystemCalls` | p02 calls as programs see them | one action per call, with what it returns |
| `UserTests`, `ThreadTests` | p02 test programs | lists of calls and expected results, run under every schedule |
| `UserMemory` | p03 page tables, contents of memory, `exec` with its arguments, what system calls check of an address | operators on a record of memory, one per function |
| `MemoryTests` | p03 tests of memory, faults of programs | one action per step of a program |
| `Interrupts` | p03 set-up of the interrupt controllers, `trap` and the handlers of devices | one action per event, delivery, and section of a handler |
| `BlockStore`, `ByteStreams`, `FileBytes`, `LineInput` | what buffers, pipes, files and the console promise | abstract specifications |
| `MCServices` | the parts from `AddressSpaces` on, and `Inodes` with large files, on small instances | see below |

The correspondence of each definition with its lines is in `PROJECT.json`, `map`. Names are
those of the code: `Exit` is `exit`, `ThreadJoin` the pass of `thread_join` that finds the
thread, and so on; where a function sleeps or gives up a lock it is several actions, and `pc`
says where a process is in it (`"wait"`, `"iput"`, `"itrunc"`, ...).

Definitions introduced with "A mutant" (`EnqueueAlwaysBack`, `LogWriteUnpinned`, ...) are not part
of the models: each is a plausible slip in the definition it precedes. `PROJECT.json` pairs one
with each property of each run that finds it out; the others were tried on the same runs.

### MLFQ

`ptable.lock` is `holder`. In sched() the lock passes to the scheduler of the same CPU, so an
action that ends in `Sched(c)` leaves it with `c`, and `Dispatch` takes it from there to the
process, which releases it where it resumes: in the same step unless it resumes in `wait`,
whose loop goes on under the lock. The scheduler takes the lock again for each round. The
timer interrupt of CPU 0 is `Tick` or `TickBoost`, then one `TickWakeup` per sleeper, under
`tickslock`, then `TickEnd`, the end of `trap`; other CPUs have only that end (`OtherTimer`).
The CPU can be interrupted whenever it does not hold a spin lock, between two steps of a
system call too, as xv6 is preemptive in the kernel.

`Calls` says which calls the programs of a run make. Two of them are apart. `kill`
(proc.c:552) makes a sleeping process RUNNABLE without putting it on a queue: with it
`RunnableQueued` is false, but what is queued is still a list of RUNNABLE processes
(`OnlyRunnableQueued`). `setPriority` (proc.c:604-607) takes a process out of L2 in a copy of
the queue, so that the tail goes stale when the process was the last of several (run
`mlfq_priority`), and the next append cuts the list. `"setPriorityNotLast"` stands for the
calls of `setPriority` in all other cases. So there are two invariants: `Core`, which every
call but `"setPriority"` keeps, and `IInv`, which is `Core` and `RunnableQueued`, and which
`kill` does not keep. Both exceptions are listed as hazards.

`setPriority` and its system call check nothing, so `Priorities`, the ones it is called with, are any
integers, in the module and in the proofs. A negative one falls without end (trap.c:147 stops at 0
only), so the runs take those of the design and, in `mlfq_lock`, one above them.

Left out of it: how long a sleep lasts, passwords, the kill of init (which panics).

### Threads

The kernel is built for one CPU (`CPUS := 1`), so `RUNNABLE` stands for `RUNNING` too; what
interleaves are kernel sections, as the timer preempts outside `ptable.lock`. A page table
is an object that is allocated (`vm`) or not. `killthread` takes away the slots of siblings
wherever these are, in a sleep or between two sections of a call: `KillThreads` clears them
and they take no further step. The calls `"early"`, `"nested"`, `"forkers"` and the memory
limit are uses of the interface that README.md of project02 does not rule out; the passing
run makes those under which the properties can hold, and the rest are hazards with notes. When
`growproc` fails in `thread_create` (`"nomem"`), the slot stays EMBRYO for ever, and `ptable.lock`
stays with the caller, whose next `sbrk` gives it up; any other use of the lock before panics
(run `sbrk_fails`), so the model goes on after the `sbrk`. `MAXLOST` bounds the slots lost.

What a page table consists of is in `AddressSpaces`, and the sizes that each thread keeps a
copy of are in `ThreadMemory`. The three are models of the same functions, cut where they
share nothing but the page table as a whole: `Threads` says when it is freed, `ThreadMemory`
how large it is taken to be, `AddressSpaces` what becomes of its frames.

### Log

A write of one block is atomic; the power can fail before and after any (`Crash`), in `commit`
and in the recovery itself (phase `"boot"` and `"install"` without `committing`). The cache
holds for each block its content or nothing, `dirty` are the pinned buffers, and every other
may be recycled at any time (`Evict`), the worst a small cache can do. A call logs at most
`OpBlocks` blocks of its own choice. `log_write` panics where `Fits` fails, and the model has no
step there: with `OpBlocks` the full reservation, as in the run, it does come there. `ReservationKept`
says what is left to say: the header has room for whatever the calls under way may still log, no
commit is under way beside them, and only the last block of a full log meets the panic.

### Inodes and BlockMap

A disk is the bitmap and an array of words per block; index blocks and data blocks look the
same, as on the disk. Sizes count blocks. An inode has `addrs`, `d_addr` and `t_addr`, and
`Ilock` and `Iupdate` transfer what `ilock` and `iupdate` copy: `addrs` alone. `Freed` lists
the blocks `itrunc` frees, in the code's order and with its slips (one level too deep for
`d_addr`, the wrong root for `t_addr`).

The run of `Inodes` uses `Symmetry`, permutations of processes and of names, which the code
treats alike. An action of `Inodes` ends where the process may wait or has given up a lock;
inside, it is alone with its inode or directory. `iput` is four: look at `ref` under the sleep lock; free
the inode; `valid = 0` and unlock; drop the reference. One root directory, one descriptor
per process, files only. `Names` has the tree of directories, with an inode that lives while
something refers to it in the place of the cache; `FileData` the bytes.

### MCServices

The parts from `AddressSpaces` on are modelled apart and share no state. `MCServices` puts
their instances side by side: the initial state chooses a `part`, the variables `v1`, `v2`, ...
are then the variables of that part, in the order its module declares them, and the others
stay `IDLE`. A behaviour of `MCServices` is thus a behaviour of one part, and each property is
the conjunction of what modules of one kind promise:

| Property | What it says of which part |
|---|---|
| `WakeupsKept` | nobody sleeps for what has already come: console, buffers and disk, pipes and `wait`, sleep locks and clock; a device that has something is heard; and types |
| `TablesCount` | references of open files and buffers, ends of pipes, one buffer per block, no buffer kept back that neither a call nor the log needs |
| `LocksHold` | interrupts off where a handler would spin for ever, and given back to the right process; one holder of a sleep lock; `sleep(n)` lasts n ticks; interrupts are acknowledged |
| `MemoryOwned` | each frame has one owner, pages are those below the size, threads agree on the size, stacks of processors, blocks of the heap; a program touches its own pages only |
| `NamesRight` | entries name live inodes, directories form a tree |
| `LinksRight` | symbolic links keep their targets; directories opened by name are not written |
| `BlocksKept` | the tree of blocks of a large file; a chunk of `filewrite` fits a transaction |
| `ImagesRight` | the image of `mkfs` is consistent, as long as `mkfs` goes on and when it is done; the kernel is loaded whole |
| `KeysShown` | keys come out as what they say; the screen shows the line, or what was typed of it since somebody else wrote there |
| `ProgramsRight` | parser and pipelines of the shell, grep and the library against reference definitions |
| `TestsPass` | the test programs under every schedule |
| `PipesAreStreams`, `BlocksAreRegisters`, `ReadsAreLines`, `FilesAreBytes` | pipes, buffers, console and files implement `ByteStreams`, `BlockStore`, `LineInput`, `FileBytes` |

## Runs

| Run | Bounds | Shows |
|---|---|---|
| `mlfq_two_cpus` | 3 processes, 2 CPUs, quantum 2, boost each 3 ticks | `RunnableQueued`, `NoLostWakeup`, `ParentAlive`, and the inductive invariant `IInv`, `OneCpu` included |
| `mlfq_queues` | 3 processes, priorities 0-1, boost each 16 ticks | lists implement `ReadyQueues`; tails, boosts; `NoStarvation` |
| `mlfq_lock` | 2 processes, quanta 2, 3, 4, boost each 5 ticks, `kill`, `setPriority` of any but the last | scheduler lock against timer, boost, sleep and kill; what the queues still guarantee |
| `mlfq_priority` (violation) | 3 processes | `setPriority` of the last of L2 leaves a tail that is not the last |
| `log_crash` | 2 processes, 3 blocks, 2 blocks per call, all that it reserves, room for 2 calls | atomicity and durability under crashes, reservations kept, sleepers wake |
| `threads` | 4 slots, 3 live processes, 1 slot lost | page tables, families, deaths, wake-ups, kills |
| `threads_wait` (violation) | 4 slots | `wait` gives up the page table of running threads |
| `inodes` | 2 processes, 2 names, 2 inodes, 2 entries, 3 blocks | `InodesCounted`: one entry, exact counts, what is in use is not free; `InodesRight`: write-through, no panic, ownership of blocks, no holes |
| `inode_leak` (violation) | 2 processes, 2 names | two `iput` at once leave the inode to each other |
| `big_evicted` (violation) | 1 file of 3 blocks | the double indirect block is not on the disk |
| `services` | one small instance per part, below | the properties of the table above |
| `sbrk_fails` (violation) | 2 processes, 6 frames | `sbrk` panics where it should return -1 |

Why these bounds suffice for what the runs ask. Three processes are init, a child and one
more: a queue then has a head, a middle and a tail, which is all that a splice or an insertion
by priority distinguishes. To cut a process out of the middle of a queue while another one
runs takes four; that case is in the theorems (`RepositionOK`), as are all larger ones. A quantum
of 2 lets a process be charged with and without expiry. `BoostTicks` must exceed what a process needs to
sink to L2 in `mlfq_queues`, as in the code (100 against 4 + 6 + 8), or L2 would never be
served and `NoStarvation` would hold without saying anything of L2; elsewhere it is small so
that a boost meets every state. With three processes no run has a process adopt a ZOMBIE
that would not have woken init anyway; `NoWakeupLost` and `ParentsAlive` prove that case.
In `log_crash` two calls fit an empty log, and the second sleeps once the first has logged a block;
each logs up to two blocks of three, so that absorption, a full log and an empty one all occur. Four slots of `Threads` are init, a
process, a thread and one more thread or child. In `Inodes` two entries and two inodes force
entries to be recycled, and one word per block brings the double indirect level to the third
block.

The instances of `services`, which `MCServices` gives in full:

* *buffers*: two processes over two buffers and three blocks, and one buffer that the log
  keeps, so that every read may recycle, every request may queue, and `bget` may find no buffer;
* *files*: three processes, three open files, one pipe of two bytes with counters modulo 4,
  a write of three bytes, so that transfers are partial and counters wrap; with and without
  `kill`;
* *data*: one direct and three indirect blocks of two bytes, two processes, two open files;
* *names*: two processes, two names, three inodes, up to six calls; *links*: two processes,
  two names, inodes and entries, one restart;
* *blocks*: `Inodes` with one direct block and two words per block, all 15 blocks of the
  largest file: quotient and remainder differ at each level; the words written, 0 and 5, are
  no block and one that looks like a block number;
* *locks*: two CPUs, two processes, two locks, interrupts two deep; *sleeping*: two
  processes, three ticks around the overflow of the counter;
* *spaces*: eleven frames, of which exec can lack any; programs of up to two segments, one
  that cannot be read, sizes that wrap; *sizes*: four threads, a limit;
* *heap*: thirteen headers of memory, requests that fit, split and do not fit; *console*:
  five keys and outputs, into a ring of three, on a screen of two lines of three; *keyboard*: six keys,
  shift, control and caps lock among them;
* *boot*: three processors, tables with unusable and unknown entries; *loader*: every kernel
  of two segments in a few sectors; *mkfs*: every
  pair of sizes up to 13 bytes, one file of up to 20 and some lists of more, which fill the last block of
  the root or the image, or run past the numbers of the indirect block;
* *shell*: every line of up to three tokens and six longer ones; *grep*: every pattern of
  three characters, every file of five; *library*: memories of five characters;
* *tests*, *threads*: the programs, with their loops shortened;
* *memory*: 38 frames, of which some tests use up all; pages of eight cells, two page tables of
  four entries, up to four processes and four arguments of `exec`: a stack page that arguments
  fill, fill by one too many, and do not fill; *interrupts*: two processors and three events of
  devices and timers, before, during and after the controllers are set up.

Deadlock is checked except in the runs of `Inodes`, which may really stop (when every inode
is used or leaked the kernel panics), and in `services` and `sbrk_fails`, whose parts end: a
test program, a boot, a line of the shell, a budget of calls.

### Findings

* `mlfq_priority`, p01 proc.c:604: `setPriority` cuts the process out of a copy of L2, and the
  queue keeps its old tail, which is then no longer its last element, as README.md:20 of
  project01 has it.
* `threads_wait`, p02 proc.c:371: `wait` reaps a ZOMBIE thread as if it were a child and frees
  the page table its caller runs on, against README.md:114 of project02.
* `inode_leak`, p03 fs.c:355: `iput` reads `ref`, gives up the lock and then decrements, so the
  last reference to an unlinked file may go unnoticed; fs.c:345 says the file is freed.
* `big_evicted`, p03 fs.c:242: `d_addr` and `t_addr` are declared on disk and never copied to
  it or from it, against the write-through rule of fs.c:221.
* `sbrk_fails`, p02 proc.c:179: when memory runs out, `growproc` returns -1 with `ptable.lock`
  held, and `sys_sbrk` releases a lock that it never took, which panics; proc.c:168 says that
  the call returns -1.

## Fairness

* `MLFQ`: strong fairness of each CPU's scheduler and of the timer interrupt. Between two
  interrupts a CPU executes what was interrupted, so the loop of `scheduler()` proceeds however
  often it is interrupted; an interrupt raised while interrupts are off stays pending and is
  taken when they are on. The loop of `wait`, with the lock held, and the rest of an interrupt
  in progress are weakly fair: with interrupts off the CPU goes on. User programs get none.
* `Threads`: weak fairness of `Continue`: once in the kernel, a thread that can go on will, as
  the scheduler of this kernel (xv6's round robin) scans the table over and over; and a thread
  in user mode meets the timer, which is where a killed one exits.
* `Log`: weak fairness of disk requests, and of the end of a call that has begun: the code
  between `begin_op` and `end_op` does not wait for anything but locks and the disk. A crash
  may happen at any time and none has to.
* `MCServices` states none. That sleepers wake is there a safety property: whoever sleeps has
  the event it waits for still to come.

## Proofs

All theorems hold for every value of the constants within the named assumptions; what is
recursive is written as functions.

**MLFQ.** `MLFQProofs` says first that the pointer operations keep "the list from head to tail
is exactly the set S" (`QueueOK`): `EnqueueOK`, `DequeueOK`, `JoinOK`, and `RepositionOK` for the
`cutRelation` of `setPriority`. A list is well-formed (`ListOK`) when the links are injective, stay
inside S, end at the tail alone, and enter every non-empty part of S that does not hold the head:
this says that all of S is reached from the head, and rules out cycles, without any induction
over data.

`CoreInvariance` proves that `Core` is inductive, for every workload without `"setPriority"`
(`NoTailCut`), `kill` included. `OnlyRunnableQueued` alone is not: a step that enqueues a process
already queued, or the splice of a boost on lists that share an element, would break it. So `Core`
adds that each queue is a list (`QueueOK`), that RUNNING processes are those on CPUs, one each
(`OneCpu`), that a `fork` under way owns its EMBRYO (`ForkOwnsChild`), that quanta are positive
(`QuantumFitsLevel`), and that no queued process holds the scheduler lock (`NoLockInQueue`). From
it follow `OnlyRunnable`, `QueuesUnlocked`, `TypeCorrect`, `TailLast`, `OneCpuEach` and
`QuantumBounded`; and with more invariants of their own `NoWakeupLost`, which needs that init has no
parent and nobody is its own (`Family`), for `exit` wakes another than itself, `ParentsAlive`, which
needs that init never exits, and `UnlockedGoesFirst` (`UnlockGoesFirst`), which needs what
`Enqueue` does in front of a well-formed list. Without `kill` too (`Supported`), `IInv`, which is
`Core` and `RunnableQueued`, is inductive (`Invariance`), and `NobodyLost` follows.
`HolderKeepsCpu` (`LockedNotPreempted`) needs no assumption on the calls. `BoostLeavesNobody`
(`BoostJoins`) is `JoinOK` at the tick of a boost, if one is not due at every tick.

Its last part proves `QueuesAreSequences`: the lists implement `ReadyQueues`. The reading
of a list (`Listed`) is a recursive function. That a list which represents a sequence (`Holds`: its
n-th element is linked to the next) is read as that sequence (`ListedIs`) is proved by the least
place where the two could differ, which takes `WFMin` and no induction over an operator. Each
operation on pointers is then an operation on sequences: `PushBackHolds`, `Enqueue2Holds` (the
place by priority), `DequeueHolds`, `JoinHolds`; and each step of the scheduler one of
`ReadyQueues` or a stutter. The workload is the one that uses the queues as queues (`Ordinary`):
without `kill` and `setPriority`, and without the scheduler lock, whose holder goes to the front.

**Threads.** `ThreadsProofs` proves an invariant of nine parts. A slot in each state holds what
it should (`SlotsOK`); parents live and are no threads (`ParentsOK`); a thread has the pid of
its parent, whose only children are threads then (`MainOK`); slots with one pid have one main
thread (`PidsOK`); `fork` and `thread_create` under way hold a slot of their own (`HeldOK`); a
process at a place in a call meets what that place takes for granted (`CallsOK`), for example
that `exec` goes on without siblings; page tables in use are those of the pids alive
(`MemoryOK`), and `threadnum` counts (`CountOK`). None of the properties is inductive without
the others: that a page table is freed in time needs to know who shares it, this needs pids,
and pids need to know what `killthread` leaves behind, which finds its siblings by pid, wherever
they are. From it follow `Families` (`FamiliesRight`), `TablesLive` (`PgdirLive`), `TablesOwned`
(`PgdirOwned`) and `EndsWhole` (`DiesWhole`), and with one argument more `WakeupsArrive`
(`NoLostWakeup`): who falls asleep has just looked, and who makes a ZOMBIE or hands one on to
init wakes its parent in the same section. Assumption: `Supported`, that threads neither create
threads nor fork, processes with threads do not fork, and join their threads before they wait,
call `exec2` or end by `thread_exit`; the run `threads_wait` shows what happens otherwise.

**Log.** `Invariance` proves `IInv`, in three parts: the counter and the phases (`OpsOK`), the
log and the header (`LogOK`), and what cache, log blocks and home blocks agree on in each phase
(`CacheOK`). `Atomicity` proves that every step maps to a step of `StableStore` or a stutter:
the header write is the abstract `Commit`, and replaying a log that is partly installed gives
the same blocks. `EvictionLosesNothing` and `Durability` follow. `ReservationHolds`
(`ReservationKept`) is an argument of counting: the blocks that the calls under way have logged and
those they may still log never add up to more than `LOGSIZE`, which `begin_op` keeps and
`log_write` trades one for one, or for none when the block is in the log already. Assumption of it:
`Contract`, that no call logs more than `MAXOPBLOCKS` blocks and the log on the disk is no smaller
than `LOGSIZE`, as param.h and mkfs.c have them. With these numbers the panic of `log_write` is
not excluded, and the theorem says where it is: `LOGSIZE` is three reservations, and `log_write`
panics one block earlier, at `log.size - 1` (log.c:225), since mkfs counts the header among the
`LOGSIZE` blocks (mkfs.c:25). That `filewrite` stays below its reservation is
`ChunkFitsLog`.

**Inodes.** `InodesProofs` proves one invariant of eleven parts. From it follow `OneEntryEach`
(`OneEntry`), `RefsExact` (`RefsCounted`), `LinksExact` (`LinksCounted`) and `UsedNeverFreed`
(`UsedLives`), together `CountsExact` (`InodesCounted`, which the run checks); and
`FilesLocked`, that `ilock` finds a file and `unlink` a link to take. The
counts and what is in use need each other: an inode is freed when `ref` is 1 and `nlink` 0, and
only exact counts say that nobody else has an entry or a name (`Counted`, `Unlinked`); that the
counts stay exact needs that a new inode was free of names and pointers (`NamedOrFree`). The
others say how far the cache can be trusted: a valid entry has the type and the links of the disk
unless its inode is just being freed (`CopyOK`), which is done under the lock of the entry
(`FreeingLocks`) and while nobody else can have it (`TruncOK`); a new inode has no user but who
creates it (`CreateOK`); and between the lookup of a name and the change of it the directory does
not change (`DirOK`). Counting is done by `CountMoves`: a function that changes at one place
moves one from the count of its old value to that of the new. `LinksCounted` counts the links
under way as well as names, since `sys_link` raises `nlink` before it knows that the name is free.
Assumption: there are finitely many processes and names.

Its second half adds the blocks, as long as no file is larger than the single indirect block holds
(`SmallFiles`): beyond it the properties are false, since the disk forgets `d_addr` and `t_addr`
(run `big_evicted`). `BlocksOK` says that the blocks in use are those which the inodes on the disk
name, each in one place of one inode (`Laid`); that a file has a block in every place up to its size
and none behind (`Filled`); and that a valid entry of the cache names the same blocks as the disk
(`SameBlocks`). `bmap` and `itrunc` change one place or clear all of one inode, and leave what the
others name. From it follow
`TreesOwned` (`BlocksOwned`), `CacheWrittenThrough` (`WriteThrough`), and `RightAlways`
(`InodesRight`), all that the run `inodes` checks besides the counts.

**Buffers.** `IInv` of `BuffersProofs` has eight parts. The list has all the buffers (`ListOK`);
the references to a buffer are its users, and two buffers never have the same block (`UsersOK`);
the lock of a buffer is held by the process that uses the disk or the data, and by no other
(`LocksOK`); a buffer that is valid and not dirty says what is on the disk (`ContentsOK`); the
queue of the driver is made of the requests of those who sleep in `iderw`, once each, and the
command under way is that of the first (`QueueOK`); who sleeps waits for something (`SleepersOK`);
and the log keeps back no more buffers than it may (`LoggedOK`). They need each other: a buffer
that bget takes over has no users because references are counted, and so no request, no owner
and no change that is not on the disk. From it follow `CachedOnceAlways` (`CachedOnce`),
`NoWakeupLost`, `TypeCorrect`, and `BuffersSuffice` (`BuffersLeft`), an argument of counting: when
`bget` finds no buffer, each of them has a user of its own or is one that the log keeps.
`BlocksAlwaysRegisters` proves that the buffers implement `BlockStore`: what a block contains is
the data of its buffer if that is dirty, and what is on the disk if not (`ValuesRight`), so that
`bget`, `iderw`, `ideintr` and `brelse` are stutters; its owner is who holds the lock, and has the
data (`OwnersRight`). Assumption: what `BuffersAssumption` says of the constants, which bounds no load. param.h
has as many buffers as blocks of the log (`NBUF` = `LOGSIZE` = 30), so that calls which all used
their reservations in full leave none for a reader, and `bget` panics: the theorem says that
nothing less makes it.

**Pipes.** `ReferencesExact` (`FilesCounted`) and `EndsLive` (`PipesLive`) are what `TablesCount`
checks of `Files`, `NobodyMissed` (`NoLostWakeup`) what `WakeupsKept` does, and `StreamsAlways` what
`PipesAreStreams` does: each for any number of processes, files, descriptors and pipes, and any
size of the buffer. `IInv` says what a process at a place in a call has in its hands (`PlacesOK`):
one file in the middle of `pipe()`, up to two while it closes, none in user mode, and no
descriptor once `exit` has closed its files; that a slot of `ftable` with a type has a reference, and a
descriptor always is an end of a pipe (`FilesOK`); that one file at most, or one `pipeclose` under
way, stands for an end (`EndsOK`); that a process in `piperead` or `pipewrite` still has the
descriptor it called with, and what it has left to write is the end of what it was asked to write
(`CallsOK`); and that a pipe holds no more than `PIPESIZE` bytes and a free page is as new
(`LevelsOK`). The properties need them and each other: `pipeclose` clears a flag, which is right
only if no other file stands for this end, and this needs counts that are exact, since
`fileclose` works on a copy of a slot that somebody else may have again. Counts are compared with
`CountMoves`, place by place; `fork`, which copies all descriptors at once, adds as many places as its caller has
descriptors of a file. The
refinement rests on arithmetic: `nwrite - nread` is the number of bytes also after the counters
overflow (`Levels`), and a slot of the ring keeps its place in the stream because `PIPESIZE`
divides the range of the counters (`Slots`, `PutSlots`), as 512 divides 2^32. So `TakenIs` and
`PutIs` show that reading takes the front of the stream and writing extends its end. Assumption:
`FilesAssumption`, which says that (`Wrap % PIPESIZE = 0`) and that the constants are numbers.

**Spin locks.** `NotInterrupted` (`InterruptsOff`), `NoDeadlock` (`NoSpinForOwn`) and `FlagsFollow`
(`InterruptsRestored`) are what `LocksHold` checks of spin locks. `IInv` says what a stack of frames
looks like (`StacksOK`: at most an interrupt above another frame, which holds nothing then); that a
process runs on one CPU (`CurrentOK`); what is left of a context that runs nowhere (`ParkedOK`: its
top frame wants no lock, and `saved` is the flag of a frame of that kind); and that `ncli`, `intena`
and the interrupt flag of a CPU fit the frame on top (`CpuOK`). None of the properties is inductive
without the last two: a switch gives a CPU the flag of the process that comes in, and only what
`sched` left behind says that this is the flag the process had. Assumption: what
`SpinlocksAssumption` says of the constants.

**Sleeping.** `SleepersWoken` (`NoLostWakeup`), `HolderUnique` (`OneHolder`) and `SleepLasts`
(`SleepsLong`) are what `WakeupsKept` and `LocksHold` check of this part. None is inductive.
The invariant adds who has a spin lock: a process that tests what it waits for, is about to
sleep, or wakes the others holds the lock of that channel (`ChannelsOK`), so that between its test
and its sleep what it waits for does not come (`TestedOK`). For the clock it adds that `passed`
counts the ticks since `ticks0` (`ClockOK`), from which the unsigned difference of two counters
is the number of ticks even after a wrap (`DueIsPassed`). Assumption: the run of the clock is
shorter than its range (`MaxTicks < Wrap`), that is, no sleep is measured over 2^32 ticks. The
theorems are in `LocksProofs` with those on spin locks, as theorems of the instance `Slp`.

**Directories.** `LiveNames` (`NamesLive`) and `TreeOfDirectories` (`DirectoriesFormTree`) are what
`NamesRight` checks of `Names`; `NoCycles` (`Acyclic`) is stronger than the run says: no directory
is below itself. Neither is inductive. `IInv` adds to the types that every count is at least the
names of the inode, the directories below it whose `".."` leads to it, and the counts without a name
(made ahead by `link`, or still to be taken back by `unlink`), and for the root one more (`CountsOK`), so that a count of 0, at which `iput` frees, leaves nothing behind; that
an entry is of an inode that is not free and not the root (`EntriesOK`), and only directories
have entries (`KindsOK`); that a directory is in one place (`OnePlace`), and what is linked ahead
is a file (`AheadOK`), since a second name of a directory could close a cycle; and that `unlink` finds what
it looked up where it was, under the lock of the directory, and then has the lock of the inode whose
name it took (`CallsOK`). That there is no cycle is
said without recursion: of any directories, one has no name in any of them (`NoCycle`). A new
name keeps this because what it names has no entries (`Enters`). A step first changes inodes and then
frees, all at once, those without links that no process refers to; `Step` separates the two, so
that each action is proved for the change alone. The counts cannot be exact: a file made in a
directory that was removed meanwhile is never freed. Nor can it be proved that `ilock` finds no
free inode (`Panic`), for `services` reaches one: a process walks from a removed directory by
`".."` to a parent that was removed after it. Assumption: there are finitely
many processes and names (`NamesAssumption`).

Model-checked only: liveness (`NoStarvation`, `KilledDies`, `EverySleeperWakes`), as the
provers do not handle fairness; the blocks of files that reach the double and triple indirect
level (`BlocksKept`, part *blocks*), whose trees are recursive; and of `services` everything that is not named above. Of the queues
nothing is proved for `"setPriority"`, whose stale tail breaks every list sooner or later, and the
refinement of `ReadyQueues` is false outside the ordinary workloads. The theorems on buffers, pipes, spin
locks, sleep locks, the clock and directories are about the modules `Buffers`, `Files`, `Spinlocks`,
`Sleeping` and `Names`, for every value of their constants, while the properties of `services` are conjunctions
over its parts: each of these theorems is a conjunct.

## Not modelled

* Of the interrupt controllers: the clock of `cmostime` (lapic.c:165-229) and the transmitter of
  `uartputc`, which wait for a bit of the hardware. Processor c is taken to have APIC number c, as
  `ioapicenable` does (ioapic.c:71).
* Assembly (`entry.S`, `swtch.S`, `vectors.S`, ...): `swtch` and the trap frames are modelled
  by what they do, in `Spinlocks`.
* How `cprintf` formats (what it puts on the screen is in `Console`), and the copy of the screen
  that goes to the serial port. `panic`: it is a state in which the model stops.
* `memide.c`, the disk in memory, and errors of the disk: `ideintr` marks a buffer valid
  whether the read failed or not.
* `mknod` and device files; path names longer than `symbolpath`; a `symbolic_link` whose
  `create` fails, after which it writes to address 0: what follows is undefined.
* Other user programs (`cat`, `ls`, `wc`, `pmanager`, `ln`, the MLFQ tests, ...): short
  sequential programs above the system calls. The models of the calls have any sequence of
  calls in their place.
* The composition of the log with the inodes: `Log` has calls that log any blocks, `Inodes`
  has no crashes. That each call of `sysfile.c` stays within its reservation is `ChunkFitsLog`
  for `filewrite`, and an assumption (`OpBlocks`) for the others.

## Plan

Done: everything above. What would come next, in this order:

1. Inodes over Log: crashes between the calls of `sysfile.c`, with orphans that no `iput` frees.
2. Proofs of address spaces, whose invariants are so far checked on small instances.
3. Liveness of the disk queue and of pipes, under weak fairness of interrupts and scheduler.
4. `pmanager` above a model of `exec2` and `kill`.
