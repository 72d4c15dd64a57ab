----------------------------- MODULE MemoryTests -----------------------------
(***************************************************************************)
(* The tests of memory that come with the system (usertests.c of           *)
(* project03), as programs for the calls that have to do with memory, with *)
(* the results that they expect.  A program runs in user mode, where       *)
(* touching what is not its own ends it (trap.c); the kernel checks what   *)
(* it is given (syscall.c).  Loops and sizes are smaller than there.       *)
(***************************************************************************)
EXTENDS UserMemory

CONSTANT NPROC

MemoryTestsAssumption == UserMemoryAssumption /\ NPROC \in Nat \ {0}

VARIABLES
  proc,     \* the processes
  free,     \* the free frames
  cells,    \* the contents of the frames
  files,    \* the names of the files that tests make
  pipe,     \* how many bytes are in the pipe of sbrktest
  failed,   \* calls whose result was not the one that the program expects
  panicked  \* what the kernel panicked with, or "no"

vars == <<proc, free, cells, files, pipe, failed, panicked>>

Pid == 1 .. NPROC
Vars == 1 .. 3

\* A step of a program: x and y are its arguments, want is what it may give.
C(op, x, y, want) == [op |-> op, x |-> x, y |-> y, want |-> want]
NoProc == [state |-> "UNUSED", parent |-> NONE, killed |-> FALSE, script |-> <<>>,
           pids |-> [v \in Vars |-> -1], kstack |-> NONE, d |-> NoSpace, sz |-> 0, sp |-> 0]

At(p, op) == proc[p].state = "RUN" /\ proc[p].script # <<>> /\ proc[p].script[1].op = op
Call(p) == proc[p].script[1]

\* Memory as p sees it.
Mem(p) == [ok |-> TRUE, panic |-> "no", free |-> free, cells |-> cells, d |-> proc[p].d,
           sz |-> proc[p].sz, sp |-> proc[p].sp, argv |-> <<>>]
Keep(m) == free' = m.free /\ cells' = m.cells /\ panicked' = m.panic

\* The step gives r, and leaves these processes.
Ret(p, r, procs) ==
  /\ failed' = IF r \in Call(p).want THEN failed ELSE failed \cup {<<Call(p).op, Call(p).x, r>>}
  /\ proc' = [procs EXCEPT ![p].script = Tail(@)]

\* In user mode: what the hardware refuses kills the process.
Fault(p) == proc' = [proc EXCEPT ![p].killed = TRUE] /\ UNCHANGED <<failed, free, cells, panicked>>

UnchangedMemory == UNCHANGED <<free, cells, panicked>>

-----------------------------------------------------------------------------
(* Instructions of a program *)

Load(p) ==
  /\ At(p, "load")
  /\ IF ~IsUsers(proc[p].d, Call(p).x) THEN Fault(p)
     ELSE Ret(p, Cell(cells, proc[p].d, Call(p).x), proc) /\ UnchangedMemory
  /\ UNCHANGED <<files, pipe>>

Store(p) ==
  LET a == Call(p).x IN
  /\ At(p, "store")
  /\ IF ~IsUsers(proc[p].d, a) THEN Fault(p)
     ELSE /\ Ret(p, 0, proc)
          /\ cells' = [cells EXCEPT ![proc[p].d.pte[PageOf(a)].frame][a % PGSIZE] = Call(p).y]
          /\ UNCHANGED <<free, panicked>>
  /\ UNCHANGED <<files, pipe>>

\* An instruction for the ports, which user mode has not (switchuvm sets iomb).
Port(p) == At(p, "port") /\ Fault(p) /\ UNCHANGED <<files, pipe>>

\* A program that exec started finds its arguments on the stack; the result is the length
\* of the first one that differs, and 0 if none does.
Argument(p, i) == Cell(cells, proc[p].d, Cell(cells, proc[p].d, proc[p].sp + 2) + i - 1)
Arguments(p) ==
  LET d == proc[p].d
      sp == proc[p].sp
      is(i) == \A k \in 0 .. Len(Call(p).x[i]) :
                 /\ IsUsers(d, Argument(p, i) + k)
                 /\ Cell(cells, d, Argument(p, i) + k) =
                      (IF k = Len(Call(p).x[i]) THEN 0 ELSE Call(p).x[i][k + 1])
      right == /\ IsUsers(d, sp + 1) /\ Cell(cells, d, sp + 1) = Len(Call(p).x)
               /\ \A i \in 1 .. Len(Call(p).x) : is(i)
               /\ Argument(p, Len(Call(p).x) + 1) = 0
  IN
  At(p, "main") /\ Ret(p, IF right THEN 0 ELSE -1, proc) /\ UnchangedMemory /\ UNCHANGED <<files, pipe>>

-----------------------------------------------------------------------------
(* System calls *)

\* growproc by x cells
Sbrk(p) ==
  LET n == Call(p).x
      sz == proc[p].sz
      m == CASE n > 0 -> AllocUvm(Mem(p), sz, (sz + n) % Wrap)
             [] n < 0 -> DeallocUvm(Mem(p), sz, (sz + n) % Wrap)
             [] n = 0 -> Mem(p)
  IN
  /\ At(p, "sbrk")
  /\ Ret(p, IF m.ok THEN sz ELSE -1,
         [proc EXCEPT ![p].d = m.d, ![p].sz = IF m.ok THEN m.sz ELSE @])
  /\ Keep(m) /\ UNCHANGED <<files, pipe>>

\* What mem does: sbrk of a page, and the first cell of it set, until there is no more.
Exhaust(p) ==
  LET sz == proc[p].sz
      m == AllocUvm(Mem(p), sz, sz + PGSIZE)
  IN
  /\ At(p, "exhaust")
  /\ IF m.ok
     THEN /\ proc' = [proc EXCEPT ![p].d = m.d, ![p].sz = m.sz]
          /\ Keep([m EXCEPT !.cells[m.d.pte[PageOf(sz)].frame][0] = sz])
          /\ UNCHANGED failed
     ELSE Ret(p, -1, [proc EXCEPT ![p].d = m.d]) /\ Keep(m)
  /\ UNCHANGED <<files, pipe>>

\* The pages that exhaust got still hold what was set.
Chain(p) ==
  LET right == \A a \in Page : a * PGSIZE >= Call(p).x /\ a * PGSIZE < proc[p].sz =>
                 Cell(cells, proc[p].d, a * PGSIZE) = a * PGSIZE
  IN At(p, "chain") /\ Ret(p, IF right THEN 0 ELSE -1, proc) /\ UnchangedMemory /\ UNCHANGED <<files, pipe>>

\* The child runs x; its number goes to variable y.
Fork(p) ==
  LET unused == {q \in Pid : proc[q].state = "UNUSED"}
      np == Min(unused)
      stack == Kalloc(Mem(p))
      m == CopyUvm(stack, proc[p].d, proc[p].sz)
      fails(r) == /\ Ret(p, -1, [proc EXCEPT ![p].pids[Call(p).y] = -1])
                  /\ Keep(r)
  IN
  /\ At(p, "fork")
  /\ IF unused = {} THEN fails(Mem(p))
     ELSE IF ~stack.ok THEN fails(Mem(p))
     ELSE IF ~m.ok THEN fails(Kfree(m, {Got(Mem(p))}))
     ELSE /\ Ret(p, np, [proc EXCEPT
               ![np] = [NoProc EXCEPT !.state = "RUN", !.parent = p, !.script = Call(p).x,
                         !.kstack = Got(Mem(p)), !.d = m.d, !.sz = proc[p].sz, !.sp = proc[p].sp],
               ![p].pids[Call(p).y] = np])
          /\ Keep(m)
  /\ UNCHANGED <<files, pipe>>

\* x is the program, y its arguments; what it does is in x.script.
ExecCall(p) ==
  /\ At(p, "exec")
  /\ \E r \in {SetupKvm(Mem(p))} :
     \E loaded \in {Loaded(r, Call(p).x)} :
     \E stacked \in {Stacked(loaded)} :
     \E image \in {PushArgs(stacked, Call(p).y)} :
     \E m \in {Exec(Mem(p), r, image, Call(p).x)} :
       /\ IF m.ok
          THEN /\ proc' = [proc EXCEPT ![p].d = m.d, ![p].sz = m.sz, ![p].sp = m.sp,
                                       ![p].script = Call(p).x.script]
               /\ UNCHANGED failed
          ELSE Ret(p, -1, proc)
       /\ Keep(m)
  /\ UNCHANGED <<files, pipe>>

\* exit, of a process at the end of its program or killed; its children go to the first.
Exit(p) ==
  /\ p # 1 /\ proc[p].state = "RUN" /\ (proc[p].script = <<>> \/ proc[p].killed)
  /\ proc' = [q \in Pid |->
       IF q = p THEN [proc[p] EXCEPT !.state = "ZOMBIE", !.script = <<>>]
       ELSE IF proc[q].parent = p THEN [proc[q] EXCEPT !.parent = 1] ELSE proc[q]]
  /\ UnchangedMemory /\ UNCHANGED <<files, pipe, failed>>

Children(p) == {q \in Pid : proc[q].parent = p}

Wait(p) ==
  /\ At(p, "wait")
  /\ \/ /\ Children(p) = {} /\ Ret(p, -1, proc) /\ UnchangedMemory
     \/ \E q \in Children(p) :
          /\ proc[q].state = "ZOMBIE"
          /\ Keep(FreeVm(Kfree([Mem(p) EXCEPT !.d = proc[q].d], {proc[q].kstack})))
          /\ Ret(p, q, [proc EXCEPT ![q] = NoProc])
  /\ UNCHANGED <<files, pipe>>

\* The process of variable x, or the parent (0), is killed.
Kill(p) ==
  LET q == IF Call(p).x = 0 THEN proc[p].parent ELSE proc[p].pids[Call(p).x] IN
  /\ At(p, "kill")
  /\ IF q \in Pid /\ proc[q].state # "UNUSED" THEN Ret(p, 0, [proc EXCEPT ![q].killed = TRUE])
     ELSE Ret(p, -1, proc)
  /\ UnchangedMemory /\ UNCHANGED <<files, pipe>>

\* fetchint, fetchstr and argptr look only at the size; the kernel then gets at the cells,
\* which is a fault of its own when a page is absent.
Fetched(p, a) == a < proc[p].sz /\ (a + 1) % Wrap <= proc[p].sz
KernelGetsAt(p, S) == panicked' = IF \A a \in S : IsMapped(proc[p].d, a) THEN "no" ELSE "trap"

\* sleep with the stack pointer at x: the number of ticks is in the cell above.
SleepAt(p) ==
  LET a == (Call(p).x + 1) % Wrap IN
  /\ At(p, "sleepat")
  /\ Ret(p, IF Fetched(p, a) THEN 0 ELSE -1, proc)
  /\ KernelGetsAt(p, IF Fetched(p, a) THEN {a} ELSE {})
  /\ UNCHANGED <<free, cells, files, pipe>>

\* link to a name at x: the cells are looked at up to the end of the name or of the memory.
LinkTo(p) ==
  LET a == Call(p).x
      ends(b) == IsMapped(proc[p].d, b) /\ Cell(cells, proc[p].d, b) = 0
      read == {b \in a .. proc[p].sz - 1 : \A c \in a .. b - 1 : ~ends(c)}
  IN
  /\ At(p, "link")
  /\ Ret(p, -1, proc)
  /\ KernelGetsAt(p, read)
  /\ UNCHANGED <<free, cells, files, pipe>>

\* read into the last cell of memory, of y cells (argptr)
ReadInto(p) ==
  LET a == proc[p].sz - 1
      ok == Call(p).y >= 0 /\ a < proc[p].sz /\ a + Call(p).y <= proc[p].sz
  IN
  /\ At(p, "read")
  /\ Ret(p, IF ok THEN Call(p).y ELSE -1, proc)
  /\ UnchangedMemory /\ UNCHANGED <<files, pipe>>

\* Files, and the pipe, whose bytes are alike.
Creates(p) == At(p, "create") /\ Ret(p, 0, proc) /\ files' = files \cup {Call(p).x} /\ UnchangedMemory /\ UNCHANGED pipe
Unlink(p)  == At(p, "unlink") /\ Ret(p, 0, proc) /\ files' = files \ {Call(p).x} /\ UnchangedMemory /\ UNCHANGED pipe
Opens(p) ==
  At(p, "open") /\ Ret(p, IF Call(p).x \in files THEN 0 ELSE -1, proc) /\ UnchangedMemory /\ UNCHANGED <<files, pipe>>
Put(p) == At(p, "put") /\ Ret(p, 1, proc) /\ pipe' = pipe + 1 /\ UnchangedMemory /\ UNCHANGED files
Get(p) == At(p, "get") /\ pipe > 0 /\ Ret(p, 1, proc) /\ pipe' = pipe - 1 /\ UnchangedMemory /\ UNCHANGED files

\* Not a call: y if the fork of variable x has worked.
IfForked(p) ==
  /\ At(p, "forked")
  /\ proc' = [proc EXCEPT ![p].script = (IF proc[p].pids[Call(p).x] # -1 THEN Call(p).y ELSE <<>>) \o Tail(@)]
  /\ UnchangedMemory /\ UNCHANGED <<files, pipe, failed>>

Step(p) ==
  /\ panicked = "no" /\ (p # 1 => ~proc[p].killed)
  /\ \/ Load(p) \/ Store(p) \/ Port(p) \/ Arguments(p)
     \/ Sbrk(p) \/ Exhaust(p) \/ Chain(p) \/ Fork(p) \/ ExecCall(p) \/ Wait(p) \/ Kill(p)
     \/ SleepAt(p) \/ LinkTo(p) \/ ReadInto(p)
     \/ Creates(p) \/ Unlink(p) \/ Opens(p) \/ Put(p) \/ Get(p) \/ IfForked(p)

Next == \E p \in Pid : Step(p) \/ (panicked = "no" /\ Exit(p))

-----------------------------------------------------------------------------
(* The tests.  OLD is the size of the program that runs them, when it starts. *)

OK    == {0}
Error == {-1}
Whatever   == -1 .. Wrap
OLD   == 3 * PGSIZE
BIG   == 6 * PGSIZE

Sbrk_(n, old) == C("sbrk", n, 0, {old})
Stores(a, v)  == C("store", a, v, OK)
Loads(a, want) == C("load", a, 0, want)
Forks(v, child) == C("fork", child, v, Pid)
Waits         == C("wait", 0, 0, Pid)
Flat(scripts) == FlattenSeq(scripts)

\* The first cells of a program are its text and data, then come those that start at 0 (bss).
Text  == <<7, 9>>
Program(text, length, script) ==
  [elf |-> TRUE, segments |-> <<[load |-> TRUE, vaddr |-> 0, memsz |-> length, file |-> text],
                                [load |-> FALSE, vaddr |-> 0, memsz |-> 0, file |-> <<>>]>>,
   script |-> script]

Letters(n) == [i \in 1 .. n |-> 96 + i]

exectest ==
  LET echo == Program(<<5>>, PGSIZE + 1, <<C("main", <<Letters(1)>>, 0, OK), Loads(0, {5}), Loads(PGSIZE, {0})>>) IN
  <<C("exec", echo, <<Letters(1)>>, OK)>>

\* What is no program, or does not fit, leaves its caller as it was.
execs ==
  LET bad(p) == <<C("exec", p, <<>>, Error), Loads(0, {Text[1]}), Sbrk_(0, OLD)>>
      p == Program(Text, 2, <<>>)
  IN
  bad([p EXCEPT !.elf = FALSE]) \o bad([p EXCEPT !.segments[1].memsz = 1]) \o
  bad([p EXCEPT !.segments[1].memsz = KERNBASE]) \o bad([p EXCEPT !.segments[1].vaddr = 1]) \o
  bad([p EXCEPT !.segments[1].memsz = Wrap]) \o bad([p EXCEPT !.segments[1].memsz = KERNBASE - PGSIZE])

mem == <<Forks(1, <<C("exhaust", 0, 0, Error), C("chain", OLD, 0, OK)>>), Waits>>

sbrktest ==
  LET small == PGSIZE + 2
      one(i) == <<Sbrk_(1, OLD + i - 1), Stores(OLD + i - 1, 1)>>
      more == <<Sbrk_(1, OLD + small), Sbrk_(1, OLD + small + 1)>>
      kernel(a) == <<Forks(1, <<Loads(a, Whatever), C("kill", 0, 0, OK)>>), Waits>>
      glutton(v) == <<C("fork", <<C("sbrk", BIG - OLD, 0, Whatever), C("put", 0, 0, Whatever), C("forever", 0, 0, {})>>, v, Whatever),
                      C("forked", v, <<C("get", 0, 0, Whatever)>>, {})>>
      end(v) == <<C("forked", v, <<C("kill", v, 0, OK), Waits>>, {})>>
  IN
  <<Sbrk_(0, OLD)>> \o Flat([i \in 1 .. small |-> one(i)]) \o <<Forks(1, more)>> \o more \o
  <<Waits, Sbrk_(BIG - OLD - small - 2, OLD + small + 2), Stores(BIG - 1, 99),
    Sbrk_(0, BIG), Sbrk_(-PGSIZE, BIG), Sbrk_(0, BIG - PGSIZE), Sbrk_(PGSIZE, BIG - PGSIZE), Sbrk_(0, BIG),
    Loads(BIG - 1, {0}), Sbrk_(-(BIG - OLD), BIG)>> \o
  kernel(KERNBASE) \o kernel(KERNBASE + PGSIZE) \o
  glutton(1) \o glutton(2) \o glutton(3) \o <<Sbrk_(PGSIZE, OLD)>> \o end(1) \o end(2) \o end(3) \o
  <<Sbrk_(-PGSIZE, OLD + PGSIZE), Sbrk_(0, OLD)>>

validatetest ==
  LET at(p) == <<Forks(1, <<C("sleepat", p, 0, Whatever)>>), C("kill", 1, 0, OK), Waits, C("link", p, 0, Error)>> IN
  Flat([i \in 1 .. 5 |-> at((i - 1) * PGSIZE)])

bsstest == [i \in 1 .. PGSIZE - Len(Text) |-> Loads(Len(Text) + i - 1, {0})]

bigargtest ==
  LET big == [i \in 1 .. MAXARG - 1 |-> Letters(2)]
      echo == Program(<<5>>, 2, <<>>)
  IN
  <<C("unlink", "bigarg-ok", 0, Whatever),
    Forks(1, <<C("exec", echo, big, Error), C("create", "bigarg-ok", 0, OK)>>), Waits,
    C("open", "bigarg-ok", 0, OK), C("unlink", "bigarg-ok", 0, Whatever)>>

uio == <<Forks(1, <<C("port", 0, 0, {}), C("kill", 0, 0, {})>>), Waits>>

argptest == <<C("read", 0, -1, Error)>>

Tests == <<exectest, execs, mem, sbrktest, validatetest, bsstest, bigargtest, uio, argptest>>

\* The program that runs the tests, as exec has made it.
Init ==
  /\ \E r \in {SetupKvm([ok |-> TRUE, panic |-> "no", free |-> Frame \ {1}, cells |-> [f \in Frame |-> Freed],
                         d |-> NoSpace, sz |-> 0, sp |-> 0, argv |-> <<>>])} :
     \E loaded \in {Loaded(r, Program(Text, PGSIZE, <<>>))} :
     \E m \in {Stacked(loaded)}, k \in DOMAIN Tests :
       /\ proc = [p \in Pid |-> IF p = 1 THEN [NoProc EXCEPT !.state = "RUN", !.script = Tests[k], !.kstack = 1,
                                                !.d = m.d, !.sz = m.sz, !.sp = m.sp] ELSE NoProc]
       /\ free = m.free /\ cells = m.cells
  /\ files = {"bigarg-ok"} /\ pipe = 0 /\ failed = {} /\ panicked = "no"

Spec == Init /\ [][Next]_vars

-----------------------------------------------------------------------------
\* A process that waits for a child or a byte, or for ever.
Blocked(p) ==
  \/ proc[p].state # "RUN"
  \/ proc[p].script = <<>> /\ p = 1
  \/ At(p, "wait") /\ Children(p) # {} /\ \A q \in Children(p) : proc[q].state # "ZOMBIE"
  \/ At(p, "get") /\ pipe = 0
  \/ At(p, "forever") /\ ~proc[p].killed

\* Every test passes, in every order of the steps of its processes, and comes to its end: each
\* call gives what the test expects, no process of the tests is killed but by a fault that is
\* its own, and whatever programs give it the kernel does not fault (usertests.c, trap.c).
MemoryTestsPass ==
  /\ failed = {} /\ panicked = "no" /\ ~proc[1].killed
  /\ (\A p \in Pid : Blocked(p)) => proc[1].script = <<>>

\* What a program can touch is its own: the frames of its user pages belong to no other process,
\* are not free, and hold no page table or kernel stack; and no frame is lost, whichever
\* kalloc() fails (vm.c, exec.c, fork).
MemoryIsolated ==
  LET used(p) == FramesOf(proc[p].d) \cup ({proc[p].kstack} \ {NONE})
      tables(p) == ({proc[p].d.dir, proc[p].kstack} \cup Range(proc[p].d.tables)) \ {NONE}
      users(p) == {proc[p].d.pte[a].frame : a \in Page} \ {NONE}
  IN
  /\ free \cup UNION {used(p) : p \in Pid} = Frame
  /\ \A p \in Pid : used(p) \cap free = {} /\ tables(p) \cap users(p) = {}
  /\ \A p, q \in Pid : p # q => used(p) \cap used(q) = {}
=============================================================================
