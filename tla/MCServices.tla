----------------------------- MODULE MCServices -----------------------------
(***************************************************************************)
(* The parts that share no state in their models, for model checking.      *)
(* Every behaviour is one of one part, which the initial state chooses:    *)
(* v1, v2, ... are then the variables of that part, in the order in which  *)
(* its module declares them, and those it does not need stay IDLE.         *)
(***************************************************************************)
EXTENDS Integers, Sequences, FiniteSets

CONSTANTS p1, p2, item1, item2, item3, none  \* processes; names, or blocks; nobody

VARIABLES part, v1, v2, v3, v4, v5, v6, v7, v8, v9, v10, v11, v12, v13, v14, v15

vars == <<part, v1, v2, v3, v4, v5, v6, v7, v8, v9, v10, v11, v12, v13, v14, v15>>

IDLE == "idle"
Two == {p1, p2}
Upto(S, n) == UNION {[1 .. k -> S] : k \in 0 .. n}

-----------------------------------------------------------------------------
(* What the parts are given to do.                                         *)

\* Two processes and the log, which may keep a block, have two buffers: enough but for
\* three different blocks, when bget panics.
Loads == {[procs |-> Two, dirty |-> 1]}

PipeBudgets ==
  {[pipes |-> 2, forks |-> 1, calls |-> 2, kills |-> FALSE],
   [pipes |-> 1, forks |-> 1, calls |-> 2, kills |-> TRUE],
   [pipes |-> 1, forks |-> 2, calls |-> 1, kills |-> FALSE]}

Paths ==
  {[absolute |-> TRUE, elems |-> <<"a">>], [absolute |-> TRUE, elems |-> <<"a", "b">>],
   [absolute |-> FALSE, elems |-> <<"..">>]}
NameBudgets ==
  {[calls |-> {"mkdir", "create", "link", "unlink"}, number |-> 3],
   [calls |-> {"mkdir", "unlink", "chdir"}, number |-> 6],
   [calls |-> {"open", "create", "link", "unlink"}, number |-> 4]}

\* Programs of exec: sound ones, one whose second segment cannot be read, and an empty one.
Segment(vaddr, memsz, fault) == [vaddr |-> vaddr, memsz |-> memsz, fault |-> fault]
Programs ==
  {<<Segment(0, 3, "none")>>, <<Segment(0, 1, "none"), Segment(4, 2, "data")>>,
   <<Segment(0, 2, "none"), Segment(3, 1, "none")>>, <<>>}

\* Kernels of two segments, in order in the file and in memory.
Images ==
  {<<s, t>> : s \in [paddr : 1 .. 2, off : {0, 2}, filesz : 1 .. 3, memsz : 1 .. 5],
              t \in [paddr : 4 .. 7, off : {2, 4}, filesz : 1 .. 3, memsz : 1 .. 4]}
Kernels == {i \in Images : /\ i[1].filesz <= i[1].memsz /\ i[2].filesz <= i[2].memsz
                           /\ i[1].paddr + i[1].memsz <= i[2].paddr
                           /\ i[1].off + i[1].filesz <= i[2].off}

\* What the BIOS says of the processors: some unusable (8), some entries of a kind unknown (9).
Tables == {<<1, 8, 2, 3>>, <<3, 2, 1, 4, 8>>, <<1, 9>>, <<1>>}

\* The sizes of the files that mkfs is given: some fill the last block of the root, some the
\* image, and one has more blocks than inode and indirect block have numbers for.
Arguments ==
  [1 .. 2 -> 0 .. 13] \cup [1 .. 1 -> 0 .. 20] \cup {<<1, 2, 3, 4>>, <<13, 3, 5>>}

\* Every line of up to three tokens, and some longer ones.
Lines ==
  Upto({"a", "|", "&", ";", "(", ")", "<", ">", "+"}, 3) \cup
  {<<"a", "|", "b", "|", "a">>, <<"a", "<", "b", "|", "b", ";", "a", "&">>,
   <<"(", "a", "|", "b", ")", "<", "a", "|", "a">>, <<"a", "&", ";", "b", "|", "a">>,
   <<"a", ";", "b", ";", "a", ">", "b", ">", "a">>, <<"a", "&", "b">>}

\* Every pattern of three characters on two files, and two patterns on every file of five.
Tasks ==
  [pattern : Upto({"x", ".", "*", "^", "$"}, 3),
   file : {<<"x", "y", "\n", "x", "\n", "\n">>, <<"y", "x", "\n", "y", "\n">>}] \cup
  [pattern : {<<"x">>, <<"y", "*", "x", "$">>}, file : Upto({"x", "y", "\n"}, 5)]

\* What formats are made of.
Items == {<<"%", "d">>, <<"%", "s">>, <<"%", "%">>, <<"%", "z">>, <<"d">>, <<"a">>}

-----------------------------------------------------------------------------
(* The parts.                                                              *)

Con == INSTANCE Console WITH
  Proc <- Two, INPUT_BUF <- 3, Wrap <- 6, COLS <- 3, ROWS <- 2, Letter <- {"x"},
  NL <- "newline", EOT <- "eot", Blank <- " ", Lengths <- {1, 3},
  Outputs <- {<<"y", "newline">>}, MaxKeys <- 5,
  buf <- v1, r <- v2, w <- v3, e <- v4, screen <- v5, reader <- v6, want <- v7, got <- v8,
  killed <- v9, keys <- v10, fresh <- v11

Kbd == INSTANCE Keyboard WITH
  Key <- {29, 42, 58, 157, 200, 30},
  held <- v1, queue <- v2, shift <- v3, caps <- v4, typed <- v5

Buf == INSTANCE Buffers WITH
  Proc <- Two, Block <- {item1, item2, item3}, Val <- {0, 1}, NBUF <- 2, Loads <- Loads, NONE <- none,
  buf <- v1, mru <- v2, lock <- v3, queue <- v4, drive <- v5, disk <- v6, pc <- v7,
  has <- v8, asleep <- v9, load <- v10

Fil == INSTANCE Files WITH
  NPROC <- 3, NFILE <- 3, NOFILE <- 2, NPIPE <- 1, PIPESIZE <- 2, Wrap <- 4,
  Writes <- {<<1, 2, 1>>}, Reads <- {1, 3}, Budgets <- PipeBudgets,
  state <- v1, parent <- v2, killed <- v3, pc <- v4, ofile <- v5, held <- v6, arg <- v7,
  todo <- v8, leaving <- v9, ftable <- v10, pipes <- v11, left <- v12

Dat == INSTANCE FileData WITH
  Proc <- Two, Open <- {"f1", "f2"}, BSIZE <- 2, NDIRECT <- 1, NINDIRECT <- 3,
  MAXOPBLOCKS <- 6, Lengths <- {1, 8}, MaxWrites <- 2,
  blocks <- v1, indirect <- v2, size <- v3, opened <- v4, off <- v5, todo <- v6,
  byte <- v7, got <- v8, logged <- v9, writes <- v10

Nam == INSTANCE Names WITH
  Proc <- {1, 2}, Name <- {"a", "b"}, NINUM <- 3, Paths <- Paths, Budgets <- NameBudgets,
  type <- v1, nlink <- v2, entries <- v3, dotdot <- v4, lock <- v5, pc <- v6, ip <- v7,
  rest <- v8, dp <- v9, old <- v10, new <- v11, cwd <- v12, fd <- v13, left <- v14,
  panicked <- v15

Lnk == INSTANCE SymbolicLinks WITH
  Proc <- Two, Name <- {item1, item2}, NINUM <- 2, NINODE <- 2, MaxRef <- 2, MaxBoots <- 1,
  dir <- v1, type <- v2, nlink <- v3, cache <- v4, pc <- v5, arg <- v6, fd <- v7,
  links <- v8, boots <- v9, panicked <- v10

Big == INSTANCE Inodes WITH
  NDIRECT <- 1, ENTRYNUM <- 2, NBLOCK <- 26, Proc <- {p1}, Name <- {item1}, NINUM <- 1,
  NINODE <- 1, Data <- {0, 5}, MaxSize <- 15, Calls <- {},
  disk <- v1, dinode <- v2, dir <- v3, inum <- v4, ref <- v5, valid <- v6, inode <- v7,
  lock <- v8, dirlock <- v9, pc <- v10, ip <- v11, name <- v12, fd <- v13

Spn == INSTANCE Spinlocks WITH
  NCPU <- 2, NPROCS <- 2, NLOCK <- 2, NONE <- 0, Depth <- 2,
  owner <- v1, IF_ <- v2, ncli <- v3, intena <- v4, current <- v5, frames <- v6,
  saved <- v7

Slp == INSTANCE Sleeping WITH
  Proc <- Two, Wrap <- 6, Lengths <- {2}, MaxTicks <- 3, MaxCalls <- 2, NONE <- none,
  ptable <- v1, spin <- v2, pc <- v3, state <- v4, ticks <- v5, killed <- v6,
  locked <- v7, ticks0 <- v8, n <- v9, passed <- v10, result <- v11, calls <- v12

Spc == INSTANCE AddressSpaces WITH
  NPROC <- 2, NFRAME <- 11, PGSIZE <- 2, NPTE <- 2, NPDE <- 2, NKERN <- 1, Wrap <- 16,
  Programs <- Programs, Stacks <- {-2, 0, 1}, Grows <- {-8, -3, 1, 3},
  state <- v1, kstack <- v2, pgdir <- v3, sz <- v4, free <- v5, panicked <- v6

Siz == INSTANCE ThreadMemory WITH
  NTHREAD <- 4, KERNBASE <- 9, First <- 2, Creators <- {1}, Grows <- {-4, -1, 2},
  Limits <- {0, 4, 7},
  state <- v1, parent <- v2, threadnum <- v3, sz <- v4, szlimit <- v5, mapped <- v6,
  pc <- v7, np <- v8, killed <- v9, panicked <- v10

Hea == INSTANCE Heap WITH
  TOP <- 13, CORE <- 4, HEADER <- 2, Requests <- {1, 3, 8}, Others <- {1},
  hdr <- v1, freep <- v2, brk <- v3, live <- v4, core <- v5

Ldr == INSTANCE BootLoader WITH
  SECTSIZE <- 2, Top <- 20, Images <- Kernels,
  image <- v1, memory <- v2, seg <- v3, pa <- v4, offset <- v5

Bt == INSTANCE Boot WITH
  NCPU <- 3, BSP <- 1, Tables <- Tables, SKIPPED <- 8, UNKNOWN <- 9, Low <- 1 .. 4,
  High <- 5 .. 6, MaxAllocs <- 3,
  table <- v1, cpus <- v2, pc <- v3, args <- v4, stack <- v5, started <- v6,
  freelist <- v7, use_lock <- v8, holder <- v9, call <- v10, todo <- v11, kernel <- v12,
  runs <- v13, made <- v14, left <- v15

Mk == INSTANCE Mkfs WITH
  BSIZE <- 4, NDIRECT <- 1, NINDIRECT <- 3, MAXFILE <- 5, FSSIZE <- 14, NMETA <- 3,
  NINODES <- 5, DIRENT <- 2, NBITS <- 14, Arguments <- Arguments,
  files <- v1, todo <- v2, din <- v3, inode <- v4, data <- v5, ind <- v6, bitmap <- v7,
  freeinode <- v8, freeblock <- v9, state <- v10

Sh == INSTANCE Shell WITH
  Word <- {"a", "b"}, Missing <- {"b"}, MAXARGS <- 4, NPROC <- 6, NOFILE <- 6,
  Lines <- Lines,
  line <- v1, proc <- v2

Grp == INSTANCE Grep WITH
  BUFSIZE <- 4, Tasks <- Tasks,
  task <- v1, off <- v2, buf <- v3, out <- v4, done <- v5

Lib == INSTANCE Strings WITH
  Size <- 5, Char <- {1, 2}, Width <- 6, Inputs <- Upto({"a", "nl"}, 3), Items <- Items,
  MaxItems <- 3,
  mem <- v1, before <- v2, call <- v3, ret <- v4

Tst == INSTANCE UserTests WITH
  NPROC <- 4, NOFILE <- 4, NFILE <- 6, NINUM <- 10, PIPESIZE <- 2, MAXFILE <- 8,
  DIRSIZ <- 14, Kept <- <<"README", "cat", "echo">>,
  proc <- v1, file <- v2, inode <- v3, failed <- v4

Thr == INSTANCE ThreadTests WITH
  NPROC <- 6,
  slot <- v1, mem <- v2, now <- v3, failed <- v4

Usr == INSTANCE MemoryTests WITH
  NFRAME <- 38, PGSIZE <- 8, NPTE <- 4, NPDE <- 2, MAXARG <- 4, NPROC <- 4,
  proc <- v1, free <- v2, cells <- v3, files <- v4, pipe <- v5, failed <- v6, panicked <- v7

Irq == INSTANCE Interrupts WITH
  NCPU <- 2, MaxEvents <- 3,
  todo <- v1, mode <- v2, vec <- v3, stage <- v4, irr <- v5, isr <- v6, lapic <- v7,
  route <- v8, pic <- v9, full <- v10, lost <- v11, left <- v12

ASSUME ServicesAssumption ==
  /\ Con!ConsoleAssumption /\ Kbd!KeyboardAssumption /\ Buf!BuffersAssumption
  /\ Fil!FilesAssumption /\ Dat!FileDataAssumption /\ Nam!NamesAssumption
  /\ Lnk!SymbolicLinksAssumption /\ Spn!SpinlocksAssumption /\ Slp!SleepingAssumption
  /\ Spc!AddressSpacesAssumption /\ Siz!ThreadMemoryAssumption /\ Hea!HeapAssumption
  /\ Ldr!BootLoaderAssumption /\ Bt!BootAssumption /\ Mk!MkfsAssumption
  /\ Sh!ShellAssumption /\ Grp!GrepAssumption /\ Lib!StringsAssumption
  /\ Tst!SystemCallsAssumption /\ Thr!ThreadTestsAssumption
  /\ Usr!MemoryTestsAssumption /\ Irq!InterruptsAssumption

-----------------------------------------------------------------------------
(* A behaviour of one part.                                                *)

\* The variables from v_(n+1) on, which a part of n variables does not need.
After14 == <<v15>>
After13 == <<v14, After14>>
After12 == <<v13, After13>>
After11 == <<v12, After12>>
After10 == <<v11, After11>>
After9 == <<v10, After10>>
After8 == <<v9, After9>>
After7 == <<v8, After8>>
After6 == <<v7, After7>>
After5 == <<v6, After6>>
After4 == <<v5, After5>>
After3 == <<v4, After4>>
After2 == <<v3, After3>>

Idle14 == v15 = IDLE
Idle13 == v14 = IDLE /\ Idle14
Idle12 == v13 = IDLE /\ Idle13
Idle11 == v12 = IDLE /\ Idle12
Idle10 == v11 = IDLE /\ Idle11
Idle9 == v10 = IDLE /\ Idle10
Idle8 == v9 = IDLE /\ Idle9
Idle7 == v8 = IDLE /\ Idle8
Idle6 == v7 = IDLE /\ Idle7
Idle5 == v6 = IDLE /\ Idle6
Idle4 == v5 = IDLE /\ Idle5
Idle3 == v4 = IDLE /\ Idle4
Idle2 == v3 = IDLE /\ Idle3

Init ==
  \/ part = "console" /\ Con!Init /\ Idle11
  \/ part = "keyboard" /\ Kbd!Init /\ Idle5
  \/ part = "buffers" /\ Buf!Init /\ Idle10
  \/ part = "files" /\ Fil!Init /\ Idle12
  \/ part = "data" /\ Dat!Init /\ Idle10
  \/ part = "names" /\ Nam!Init
  \/ part = "links" /\ Lnk!Init /\ Idle10
  \/ part = "blocks" /\ Big!Init /\ Idle13
  \/ part = "locks" /\ Spn!Init /\ Idle7
  \/ part = "sleeping" /\ Slp!Init /\ Idle12
  \/ part = "spaces" /\ Spc!Init /\ Idle6
  \/ part = "sizes" /\ Siz!Init /\ Idle10
  \/ part = "heap" /\ Hea!Init /\ Idle5
  \/ part = "loader" /\ Ldr!Init /\ Idle5
  \/ part = "boot" /\ Bt!Init
  \/ part = "mkfs" /\ Mk!Init /\ Idle10
  \/ part = "shell" /\ Sh!Init /\ Idle2
  \/ part = "grep" /\ Grp!Init /\ Idle5
  \/ part = "library" /\ Lib!Init /\ Idle4
  \/ part = "tests" /\ Tst!Init /\ Idle4
  \/ part = "threads" /\ Thr!Init /\ Idle4
  \/ part = "memory" /\ Usr!Init /\ Idle7
  \/ part = "interrupts" /\ Irq!Init /\ Idle12

Next ==
  \/ part = "console" /\ Con!Next /\ UNCHANGED <<part, After11>>
  \/ part = "keyboard" /\ Kbd!Next /\ UNCHANGED <<part, After5>>
  \/ part = "buffers" /\ Buf!Next /\ UNCHANGED <<part, After10>>
  \/ part = "files" /\ Fil!Next /\ UNCHANGED <<part, After12>>
  \/ part = "data" /\ Dat!Next /\ UNCHANGED <<part, After10>>
  \/ part = "names" /\ Nam!Next /\ UNCHANGED part
  \/ part = "links" /\ Lnk!Next /\ UNCHANGED <<part, After10>>
  \/ part = "blocks" /\ Big!Next /\ UNCHANGED <<part, After13>>
  \/ part = "locks" /\ Spn!Next /\ UNCHANGED <<part, After7>>
  \/ part = "sleeping" /\ Slp!Next /\ UNCHANGED <<part, After12>>
  \/ part = "spaces" /\ Spc!Next /\ UNCHANGED <<part, After6>>
  \/ part = "sizes" /\ Siz!Next /\ UNCHANGED <<part, After10>>
  \/ part = "heap" /\ Hea!Next /\ UNCHANGED <<part, After5>>
  \/ part = "loader" /\ Ldr!Next /\ UNCHANGED <<part, After5>>
  \/ part = "boot" /\ Bt!Next /\ UNCHANGED part
  \/ part = "mkfs" /\ Mk!Next /\ UNCHANGED <<part, After10>>
  \/ part = "shell" /\ Sh!Next /\ UNCHANGED <<part, After2>>
  \/ part = "grep" /\ Grp!Read /\ UNCHANGED <<part, After5>>
  \/ part = "library" /\ Lib!Next /\ UNCHANGED <<part, After4>>
  \/ part = "tests" /\ Tst!Next /\ UNCHANGED <<part, After4>>
  \/ part = "threads" /\ Thr!Next /\ UNCHANGED <<part, After4>>
  \/ part = "memory" /\ Usr!Next /\ UNCHANGED <<part, After7>>
  \/ part = "interrupts" /\ Irq!Next /\ UNCHANGED <<part, After12>>

Spec == Init /\ [][Next]_vars
-----------------------------------------------------------------------------
(* What each part is to keep, as its module says of it.                    *)

\* The types of the variables: of the console, the buffers, the pipes, the bytes of files,
\* the spin locks (spinlock.c, swtch in proc.c), and the clock and sleep locks.
TypesRight ==
  CASE part = "console"  -> Con!TypeOK
    [] part = "buffers"  -> Buf!TypeOK
    [] part = "files"    -> Fil!TypeOK
    [] part = "data"     -> Dat!TypeOK
    [] part = "locks"    -> Spn!TypeOK
    [] part = "sleeping" -> Slp!TypeOK
    [] OTHER -> TRUE

\* Who sleeps has what it waits for still to come, whatever other processes did between its
\* test and its sleep: readers of the console (consoleread), owners of a buffer and of the disk
\* (bget, iderw), readers, writers and parents (piperead, pipewrite, wait), and those in
\* sleep(n) or for a sleep lock (sys_sleep, acquiresleep); a device that has something is
\* heard (trap.c, ioapic.c); and the variables have their types.
WakeupsKept ==
  /\ TypesRight
  /\ part = "console" => Con!NoLostWakeup
  /\ part = "buffers" => Buf!NoLostWakeup
  /\ part = "files" => Fil!NoLostWakeup
  /\ part = "sleeping" => Slp!NoLostWakeup
  /\ part = "interrupts" => Irq!DevicesHeard

\* The tables count right: the references of an open file are the descriptors and calls that
\* hold it, a pipe lives as long as one of its ends is open (file.c, pipe.c); a block is in one
\* buffer, and a buffer is left for who asks next (bio.c).
TablesCount ==
  /\ part = "files" => Fil!FilesCounted /\ Fil!PipesLive
  /\ part = "buffers" => Buf!CachedOnce /\ Buf!BuffersLeft

\* Spin locks keep the interrupts off where a handler would spin for ever, and give back the
\* state the process had (pushcli, popcli, sched); a sleep lock has one holder, and sleep(n)
\* takes n ticks although the counter overflows; what interrupts a processor is acknowledged
\* before others can run on it (trap.c, lapic.c).
LocksHold ==
  /\ part = "locks" => Spn!InterruptsOff /\ Spn!NoSpinForOwn /\ Spn!InterruptsRestored
  /\ part = "sleeping" => Slp!OneHolder /\ Slp!SleepsLong
  /\ part = "interrupts" => Irq!InterruptsAcknowledged

\* Memory has one owner: a frame is free, or one process's page, table or kernel stack, and the
\* pages of a process are those below its size (vm.c, kalloc.c, proc.c, exec.c), and what a
\* program can touch holds no table or stack of the kernel; the threads of
\* a process agree on its size (growproc, thread_create, thread_join); each processor starts on
\* a stack of its own (main.c); the blocks of the heap divide what sbrk gave (umalloc.c).
MemoryOwned ==
  CASE part = "spaces" -> Spc!FramesOwned /\ Spc!PagesBelowSize
    [] part = "sizes"  -> Siz!SizeShared
    [] part = "boot"   -> Bt!StacksOwned /\ Bt!PagesOwned
    [] part = "heap"   -> Hea!HeapPartitioned
    [] part = "memory" -> Usr!MemoryIsolated
    [] OTHER -> TRUE

\* The directories form a tree whose entries name live inodes, with the link counts they call
\* for, while others walk, create, link and remove in it (namex, sys_link, sys_unlink).
NamesRight == part = "names" => Nam!NamesLive /\ Nam!DirectoriesFormTree

\* A symbolic link keeps its target, in spite of a flag that is in memory only, and no directory
\* that was opened by its own name can be written (sys_symbolic_link, sys_open).
LinksRight == part = "links" => Lnk!LinksKept /\ Lnk!DirectoriesReadOnly

\* Large files: each block belongs to one place of one file, indirect blocks of each level
\* included (bmap, itrunc of project03), and a chunk of a write fits a transaction (filewrite).
BlocksKept ==
  /\ part = "blocks" => Big!BlocksOwned /\ Big!NoHoles
  /\ part = "data" => Dat!ChunkFitsLog

\* An image that mkfs finishes has every block and every byte where the kernel looks for them,
\* but for the last block of a root that is full (mkfs.c), and bootmain has every segment of the
\* kernel where it belongs, in spite of sectors read around them (bootmain.c).
ImagesRight ==
  /\ part = "mkfs" => Mk!ImageConsistent
  /\ part = "loader" => Ldr!SegmentsLoaded

\* The keys come out as what they say, in whatever order they were pressed, held, repeated and
\* released (kbd.c), and the screen shows the end of the line that is being edited, as far as
\* nobody else has written since (console.c).
KeysShown ==
  /\ part = "keyboard" => Kbd!PlainKeysPlain
  /\ part = "console" => Con!EchoMatches

\* The shell parses every line as its grammar has it, wires the programs of a pipeline and comes
\* to an end (sh.c); grep prints the lines that match (grep.c); the library's functions return
\* what they are for (string.c, printf.c, ulib.c).
ProgramsRight ==
  CASE part = "shell"   -> Sh!LinesParsed /\ Sh!ProgramsWired /\ Sh!LinesEnd
    [] part = "grep"    -> Grp!PrintsMatches
    [] part = "library" -> Lib!LibraryRight
    [] OTHER -> TRUE

\* The programs that test the kernel find what they look for, under every schedule
\* (usertests.c, thread_test.c and its like): link counts are exact after each, and memory that a
\* process grows, copies with fork and gets from exec holds what it should (MemoryTestsPass).
TestsPass ==
  /\ part = "tests" => Tst!TestsPass /\ Tst!LinksExact
  /\ part = "threads" => Thr!ThreadTestsPass
  /\ part = "memory" => Usr!MemoryTestsPass

\* A pipe is a stream of bytes, which a reader gets in order and once (pipe.c).
PipesAreStreams ==
  /\ part = "files" => Fil!Streams!Init
  /\ [][part = "files" => [Fil!Streams!Next]_(Fil!Streams!vars)]_vars

\* A block reads as it was last written, through buffers that come and go (bio.c, ide.c).
BlocksAreRegisters ==
  /\ part = "buffers" => Buf!Store!Init
  /\ [][part = "buffers" => [Buf!Store!Next]_(Buf!Store!vars)]_vars

\* Who reads the console gets lines, as they were entered (consoleintr, consoleread).
ReadsAreLines ==
  /\ part = "console" => Con!Input!Init
  /\ [][part = "console" => [Con!Input!Next]_(Con!Input!vars)]_vars

\* A file is a sequence of bytes, which reads and writes at an offset see whole (fs.c, file.c).
FilesAreBytes ==
  /\ part = "data" => Dat!Store!Init
  /\ [][part = "data" => [Dat!Store!Next]_(Dat!Store!vars)]_vars
=============================================================================
