------------------------------- MODULE Threads -------------------------------
(***************************************************************************)
(* The light-weight processes of project02 (proc.c, exec.c): a thread is a *)
(* slot of ptable with the pid and the page table of its process, and its  *)
(* creator as parent.  The kernel runs on one CPU (CPUS in the Makefile)   *)
(* and may be preempted outside ptable.lock, so an action is a critical    *)
(* section, or what lies between two.  RUNNABLE stands for RUNNING too.    *)
(***************************************************************************)
EXTENDS Naturals, FiniteSets

CONSTANTS
  NPROC,    \* slots of ptable; slot 1 is initproc
  MAXPROC,  \* a bound of the model: processes alive at once
  MAXLOST,  \* a bound of the model: slots that failing thread_creates leave EMBRYO
  Calls     \* what user programs do, besides exit and wait

\* "limit", "nomem": thread_create meets the memory limit, copyuvm or growproc runs out
\* of memory.
\* "nested": threads create threads; "early": a process calls wait or exec2, or its
\* main thread thread_exit, while it still has threads; "forkers": threads fork, and
\* so do processes with threads.
ASSUME ThreadsAssumption ==
  /\ NPROC \in Nat \ {0} /\ {MAXPROC, MAXLOST} \subseteq Nat
  /\ Calls \subseteq {"fork", "thread", "exec", "exec2", "kill", "limit",
                      "nomem", "nested", "early", "forkers"}

Proc   == 1 .. NPROC
NULL   == 0
Pid    == 1 .. NPROC + 1
PageTable == 1 .. NPROC + 1
initproc == 1

States == {"UNUSED", "EMBRYO", "SLEEPING", "RUNNABLE", "ZOMBIE"}

\* Where a process is: in user mode; with a slot allocated by fork or thread_create;
\* in the loop of wait or thread_join; closing files in exit or thread_exit; in exit
\* after killthread; loading a program.
Places == {"user", "fork", "create", "wait", "join", "exit", "thread_exit", "dying", "exec"}

VARIABLES
  state, pid, parent, isThread, threadnum, pgdir, killed,  \* fields of ptable.proc
  pc,    \* where each process is
  with,  \* the slot allocated (fork, create) or the thread joined, by its slot: a tid
  vm     \* the page tables allocated

fields == <<state, pid, parent, isThread, threadnum, pgdir, killed>>
vars   == <<fields, pc, with, vm>>

TypeOK ==
  /\ state \in [Proc -> States] /\ pid \in [Proc -> Pid \cup {NULL}]
  /\ parent \in [Proc -> Proc \cup {NULL}] /\ isThread \in [Proc -> BOOLEAN]
  /\ threadnum \in [Proc -> Nat] /\ pgdir \in [Proc -> PageTable \cup {NULL}]
  /\ killed \in [Proc -> BOOLEAN]
  /\ pc \in [Proc -> Places] /\ with \in [Proc -> Proc \cup {NULL}]
  /\ vm \subseteq PageTable

Init ==
  /\ state = [p \in Proc |-> IF p = initproc THEN "RUNNABLE" ELSE "UNUSED"]
  /\ pid = [p \in Proc |-> IF p = initproc THEN 1 ELSE NULL]
  /\ parent = [p \in Proc |-> NULL] /\ isThread = [p \in Proc |-> FALSE]
  /\ threadnum = [p \in Proc |-> 0] /\ killed = [p \in Proc |-> FALSE]
  /\ pgdir = [p \in Proc |-> IF p = initproc THEN 1 ELSE NULL]
  /\ pc = [p \in Proc |-> "user"] /\ with = [p \in Proc |-> NULL]
  /\ vm = {1}

-----------------------------------------------------------------------------
(* Helpers *)

Live(p) == state[p] \notin {"UNUSED", "EMBRYO"}

\* p runs in place there; a killed process enters no system call but exit (trap).
At(p, there) == state[p] = "RUNNABLE" /\ pc[p] = there
User(p)      == At(p, "user") /\ ~killed[p]

Go(p, there) == pc' = [pc EXCEPT ![p] = there]

Least(S) == CHOOSE x \in S : \A y \in S : x <= y
\* nextpid++: a pid in use is not given again.
FreshPid == Least(Pid \ {pid[q] : q \in Proc})
FreshVm  == Least(PageTable \ vm)

\* wakeup1(q) for the waiters of wait and thread_join, whose channel is themselves.
Waiting(q)  == state[q] = "SLEEPING" /\ pc[q] \in {"wait", "join"}
Wake(st, q) == [x \in Proc |-> IF x = q /\ Waiting(x) THEN "RUNNABLE" ELSE st[x]]

\* What wait, thread_join and killthread reset in the slots Q they free.  (The code
\* leaves pgdir as it was: whoever takes the slot sets it before it is RUNNABLE.)
Cleared(f, Q, v) == [p \in Proc |-> IF p \in Q THEN v ELSE f[p]]

\* The slots that nobody fills in any more.
Lost == {q \in Proc : state[q] = "EMBRYO" /\ \A p \in Proc : with[p] # q}

Children(p)    == {q \in Proc : parent[q] = p}
ThreadsOf(p)   == {q \in Children(p) : isThread[q]}
Siblings(p)    == {q \in Proc : pid[q] = pid[p] /\ q # p}

\* Pass abandoned children to init; whoever sleeps waiting for p's parent, and init
\* if it inherits a ZOMBIE, wakes up, and p becomes a ZOMBIE.
Abandon(p) ==
  LET st == Wake(state, parent[p])
      heir == {q \in Children(p) : state[q] = "ZOMBIE"}
  IN  /\ parent' = [q \in Proc |-> IF parent[q] = p THEN initproc ELSE parent[q]]
      /\ state' = [(IF heir # {} THEN Wake(st, initproc) ELSE st) EXCEPT ![p] = "ZOMBIE"]

-----------------------------------------------------------------------------
(* fork and thread_create *)

\* allocproc on behalf of p.
Alloc(p, there) ==
  LET free == {q \in Proc : state[q] = "UNUSED"} IN
  /\ free # {}
  /\ LET n == Least(free) IN
     /\ state' = [state EXCEPT ![n] = "EMBRYO"]
     /\ pid' = [pid EXCEPT ![n] = FreshPid]
     /\ isThread' = [isThread EXCEPT ![n] = FALSE]
     /\ with' = [with EXCEPT ![p] = n]
     /\ Go(p, there)
     /\ UNCHANGED <<parent, threadnum, pgdir, killed, vm>>

Fork(p) ==
  /\ "fork" \in Calls /\ User(p)
  /\ Cardinality({pid[q] : q \in {x \in Proc : state[x] # "UNUSED"}}) < MAXPROC
  /\ "forkers" \in Calls \/ (~isThread[p] /\ ThreadsOf(p) = {})
  /\ Alloc(p, "fork")

ForkDone(p) ==
  /\ At(p, "fork")
  /\ LET n == with[p] IN
     /\ pgdir' = [pgdir EXCEPT ![n] = FreshVm]
     /\ vm' = vm \cup {FreshVm}
     /\ parent' = [parent EXCEPT ![n] = p]
     /\ state' = [state EXCEPT ![n] = "RUNNABLE"]
  /\ with' = [with EXCEPT ![p] = NULL]
  /\ Go(p, "user")
  /\ UNCHANGED <<pid, isThread, threadnum, killed>>

\* copyuvm fails.  In the code the slot keeps its pid, which nobody was told.
ForkFails(p) ==
  /\ "nomem" \in Calls /\ At(p, "fork")
  /\ state' = [state EXCEPT ![with[p]] = "UNUSED"]
  /\ pid' = [pid EXCEPT ![with[p]] = NULL]
  /\ with' = [with EXCEPT ![p] = NULL]
  /\ Go(p, "user")
  /\ UNCHANGED <<parent, isThread, threadnum, pgdir, killed, vm>>

ThreadCreate(p) ==
  /\ "thread" \in Calls /\ User(p) /\ p # initproc
  /\ "nested" \in Calls \/ ~isThread[p]
  /\ "forkers" \in Calls \/ Children(p) = ThreadsOf(p)
  /\ Alloc(p, "create")

\* After growproc: the thread shares pid and page table.
\* A mutant: the thread is not counted.
ThreadCreateUncounted(p) ==
  /\ At(p, "create")
  /\ LET n == with[p] IN
     /\ pgdir' = [pgdir EXCEPT ![n] = pgdir[p]]
     /\ state' = [state EXCEPT ![n] = "RUNNABLE"]
     /\ pid' = [pid EXCEPT ![n] = pid[p]]
     /\ parent' = [parent EXCEPT ![n] = p]
     /\ isThread' = [isThread EXCEPT ![n] = TRUE]
  /\ with' = [with EXCEPT ![p] = NULL]
  /\ Go(p, "user")
  /\ UNCHANGED <<threadnum, killed, vm>>

ThreadCreateDone(p) ==
  /\ At(p, "create")
  /\ LET n == with[p] IN
     /\ pgdir' = [pgdir EXCEPT ![n] = pgdir[p]]
     /\ state' = [state EXCEPT ![n] = "RUNNABLE"]
     /\ pid' = [pid EXCEPT ![n] = pid[p]]
     /\ parent' = [parent EXCEPT ![n] = p]
     /\ isThread' = [isThread EXCEPT ![n] = TRUE]
     /\ threadnum' = [threadnum EXCEPT ![p] = @ + 1, ![n] = threadnum[p] + 1]
  /\ with' = [with EXCEPT ![p] = NULL]
  /\ Go(p, "user")
  /\ UNCHANGED <<killed, vm>>

\* growproc fails, and the slot stays EMBRYO for ever.  It also keeps ptable.lock, which
\* the next sbrk of p gives up; should p come to anything else first, the kernel panics
\* (AddressSpaces) and there is no step.  Here p goes on after the sbrk.
ThreadCreateFails(p) ==
  /\ "nomem" \in Calls /\ At(p, "create") /\ Cardinality(Lost) < MAXLOST
  /\ with' = [with EXCEPT ![p] = NULL]
  /\ Go(p, "user")
  /\ UNCHANGED <<fields, vm>>

\* killProc, when thread_create finds the memory limit in its way.
ThreadCreateRefused(p) ==
  /\ "limit" \in Calls /\ User(p) /\ p # initproc
  /\ "nested" \in Calls \/ ~isThread[p]
  /\ killed' = [q \in Proc |-> killed[q] \/ q \in ThreadsOf(p)]
  /\ state' = [q \in Proc |->
       IF q \in ThreadsOf(p) /\ state[q] = "SLEEPING" THEN "RUNNABLE" ELSE state[q]]
  /\ UNCHANGED <<pid, parent, isThread, threadnum, pgdir, pc, with, vm>>

-----------------------------------------------------------------------------
(* exit, thread_exit and wait, thread_join *)

\* killthread: every other slot with the pid of p is freed, whatever it is doing, and
\* p takes the place of the main thread.
\* Two mutants: exit without killthread, as under #if EXIT, and p stays the child of
\* the main thread.
KillThreadsNot(p, there) ==
  /\ Go(p, there)
  /\ UNCHANGED <<fields, with>>

KillThreadsStaysChild(p, there) ==
  LET Q == Siblings(p) IN
  /\ state' = Cleared(state, Q, "UNUSED")
  /\ pid' = Cleared(pid, Q, NULL)
  /\ killed' = Cleared(killed, Q, FALSE)
  /\ isThread' = Cleared(isThread, Q \cup {p}, FALSE)
  /\ threadnum' = Cleared(threadnum, Q \cup {p}, 0)
  /\ parent' = Cleared(parent, Q, NULL)
  /\ pgdir' = Cleared(pgdir, Q, NULL)
  /\ pc' = [Cleared(pc, Q, "user") EXCEPT ![p] = there]
  /\ with' = Cleared(with, Q, NULL)

KillThreads(p, there) ==
  LET Q == Siblings(p) IN
  /\ state' = Cleared(state, Q, "UNUSED")
  /\ pid' = Cleared(pid, Q, NULL)
  /\ killed' = Cleared(killed, Q, FALSE)
  /\ isThread' = Cleared(isThread, Q \cup {p}, FALSE)
  /\ threadnum' = Cleared(threadnum, Q \cup {p}, 0)
  /\ parent' = [Cleared(parent, Q, NULL) EXCEPT
       ![p] = IF isThread[p] /\ parent[p] # NULL THEN parent[parent[p]] ELSE parent[p]]
  /\ pgdir' = Cleared(pgdir, Q, NULL)
  /\ pc' = [Cleared(pc, Q, "user") EXCEPT ![p] = there]
  /\ with' = Cleared(with, Q, NULL)

\* By the system call, or by trap() for a killed process.
BeginExit(p) ==
  /\ At(p, "user") /\ p # initproc
  /\ Go(p, "exit")
  /\ UNCHANGED <<fields, with, vm>>

ExitKillsThreads(p) ==
  /\ At(p, "exit")
  /\ KillThreads(p, "dying")
  /\ UNCHANGED vm

Exit(p) ==
  /\ At(p, "dying")
  /\ Abandon(p)
  /\ UNCHANGED <<pid, isThread, threadnum, pgdir, killed, pc, with, vm>>

BeginThreadExit(p) ==
  /\ User(p) /\ p # initproc
  /\ "early" \in Calls \/ isThread[p]
  /\ Go(p, "thread_exit")
  /\ UNCHANGED <<fields, with, vm>>

\* A mutant: the joiner is not woken.
ThreadExitSilent(p) ==
  /\ At(p, "thread_exit")
  /\ state' = [state EXCEPT ![p] = "ZOMBIE"]
  /\ UNCHANGED <<pid, parent, isThread, threadnum, pgdir, killed, pc, with, vm>>

ThreadExit(p) ==
  /\ At(p, "thread_exit")
  /\ Abandon(p)
  /\ UNCHANGED <<pid, isThread, threadnum, pgdir, killed, pc, with, vm>>

Free(q) ==
  /\ state' = [state EXCEPT ![q] = "UNUSED"]
  /\ pid' = [pid EXCEPT ![q] = NULL]
  /\ parent' = [parent EXCEPT ![q] = NULL]
  /\ killed' = [killed EXCEPT ![q] = FALSE]
  /\ isThread' = [isThread EXCEPT ![q] = FALSE]
  /\ pgdir' = [pgdir EXCEPT ![q] = NULL]

\* In the loop of wait, on entry or after a wake-up.
InWait(p) ==
  \/ At(p, "wait")
  \/ /\ User(p)
     /\ "early" \in Calls \/ ThreadsOf(p) = {}

Zombies(p) == {q \in Children(p) : state[q] = "ZOMBIE"}

Wait(p) ==
  /\ InWait(p) /\ Zombies(p) # {}
  /\ LET q == Least(Zombies(p)) IN
     /\ Free(q)
     /\ vm' = vm \ {pgdir[q]}
     /\ threadnum' = [threadnum EXCEPT ![q] = 0]
     /\ pc' = [pc EXCEPT ![p] = "user", ![q] = "user"]
  /\ UNCHANGED with

WaitFails(p) ==
  /\ At(p, "wait") /\ Zombies(p) = {}
  /\ Children(p) = {} \/ killed[p]
  /\ Go(p, "user")
  /\ UNCHANGED <<fields, with, vm>>

WaitSleep(p) ==
  /\ InWait(p) /\ Zombies(p) = {} /\ Children(p) # {} /\ ~killed[p]
  /\ state' = [state EXCEPT ![p] = "SLEEPING"]
  /\ Go(p, "wait")
  /\ UNCHANGED <<pid, parent, isThread, threadnum, pgdir, killed, with, vm>>

\* thread_join(t).
InJoin(p, t) == (At(p, "join") /\ with[p] = t) \/ (User(p) /\ t \in ThreadsOf(p))

Joinable(p, t) == t \in ThreadsOf(p) /\ state[t] = "ZOMBIE"

\* Two mutants: the count of threads stays, or the page table is freed.
ThreadJoinUncounted(p, t) ==
  /\ InJoin(p, t) /\ Joinable(p, t)
  /\ Free(t)
  /\ threadnum' = [threadnum EXCEPT ![t] = 0]
  /\ pc' = [pc EXCEPT ![p] = "user", ![t] = "user"]
  /\ with' = [with EXCEPT ![p] = NULL]
  /\ UNCHANGED vm

ThreadJoinFreesVm(p, t) ==
  /\ InJoin(p, t) /\ Joinable(p, t)
  /\ Free(t)
  /\ threadnum' = [threadnum EXCEPT ![t] = 0, ![p] = @ - 1]
  /\ pc' = [pc EXCEPT ![p] = "user", ![t] = "user"]
  /\ with' = [with EXCEPT ![p] = NULL]
  /\ vm' = vm \ {pgdir[t]}

ThreadJoin(p, t) ==
  /\ InJoin(p, t) /\ Joinable(p, t)
  /\ Free(t)
  /\ threadnum' = [threadnum EXCEPT ![t] = 0, ![p] = @ - 1]
  /\ pc' = [pc EXCEPT ![p] = "user", ![t] = "user"]
  /\ with' = [with EXCEPT ![p] = NULL]
  /\ UNCHANGED vm

ThreadJoinFails(p) ==
  /\ At(p, "join") /\ ~Joinable(p, with[p])
  /\ ThreadsOf(p) = {} \/ killed[p]
  /\ with' = [with EXCEPT ![p] = NULL]
  /\ Go(p, "user")
  /\ UNCHANGED <<fields, vm>>

ThreadJoinSleep(p, t) ==
  /\ InJoin(p, t) /\ ~Joinable(p, t) /\ ThreadsOf(p) # {} /\ ~killed[p]
  /\ state' = [state EXCEPT ![p] = "SLEEPING"]
  /\ with' = [with EXCEPT ![p] = t]
  /\ Go(p, "join")
  /\ UNCHANGED <<pid, parent, isThread, threadnum, pgdir, killed, vm>>

-----------------------------------------------------------------------------
(* exec and kill *)

BeginExec(p) ==
  /\ "exec" \in Calls /\ User(p) /\ p # initproc
  /\ IF threadnum[p] # 0 THEN KillThreads(p, "exec")
                         ELSE Go(p, "exec") /\ UNCHANGED <<fields, with>>
  /\ UNCHANGED vm

\* exec2 leaves the threads alone.
BeginExec2(p) ==
  /\ "exec2" \in Calls /\ User(p) /\ p # initproc
  /\ "early" \in Calls \/ Siblings(p) = {}
  /\ Go(p, "exec")
  /\ UNCHANGED <<fields, with, vm>>

\* A mutant: the old page table is kept.
ExecDoneKeepsOld(p) ==
  /\ At(p, "exec")
  /\ pgdir' = [pgdir EXCEPT ![p] = FreshVm]
  /\ vm' = vm \cup {FreshVm}
  /\ Go(p, "user")
  /\ UNCHANGED <<state, pid, parent, isThread, threadnum, killed, with>>

ExecDone(p) ==
  /\ At(p, "exec")
  /\ pgdir' = [pgdir EXCEPT ![p] = FreshVm]
  /\ vm' = (vm \cup {FreshVm}) \ {pgdir[p]}
  /\ Go(p, "user")
  /\ UNCHANGED <<state, pid, parent, isThread, threadnum, killed, with>>

ExecFails(p) ==
  /\ At(p, "exec")
  /\ Go(p, "user")
  /\ UNCHANGED <<fields, with, vm>>

\* Every slot of the process is marked, and leaves its sleep.
\* A mutant: sleepers sleep on.
KillAsleep(p, id) ==
  LET hit == {q \in Proc : pid[q] = id /\ ~killed[q]} IN
  /\ "kill" \in Calls /\ User(p) /\ hit # {}
  /\ killed' = [q \in Proc |-> killed[q] \/ q \in hit]
  /\ UNCHANGED <<state, pid, parent, isThread, threadnum, pgdir, pc, with, vm>>

Kill(p, id) ==
  LET hit == {q \in Proc : pid[q] = id /\ ~killed[q]} IN
  /\ "kill" \in Calls /\ User(p) /\ hit # {}
  /\ killed' = [q \in Proc |-> killed[q] \/ q \in hit]
  /\ state' = [q \in Proc |->
       IF q \in hit /\ state[q] = "SLEEPING" THEN "RUNNABLE" ELSE state[q]]
  /\ UNCHANGED <<pid, parent, isThread, threadnum, pgdir, pc, with, vm>>

-----------------------------------------------------------------------------
\* The rest of a call under way, and exit on behalf of a killed process.
Continue(p) ==
  \/ ForkDone(p) \/ ForkFails(p) \/ ThreadCreateDone(p) \/ ThreadCreateFails(p)
  \/ ExitKillsThreads(p) \/ Exit(p) \/ ThreadExit(p)
  \/ (pc[p] = "wait" /\ (Wait(p) \/ WaitFails(p) \/ WaitSleep(p)))
  \/ (pc[p] = "join" /\ (ThreadJoinFails(p)
                         \/ \E t \in Proc : ThreadJoin(p, t) \/ ThreadJoinSleep(p, t)))
  \/ ExecDone(p) \/ ExecFails(p)
  \/ (killed[p] /\ BeginExit(p))

\* A system call begins.
Enter(p) ==
  \/ Fork(p) \/ ThreadCreate(p) \/ ThreadCreateRefused(p)
  \/ (~killed[p] /\ BeginExit(p)) \/ BeginThreadExit(p)
  \/ (pc[p] = "user" /\ (Wait(p) \/ WaitSleep(p)))
  \/ (pc[p] = "user" /\ \E t \in Proc : ThreadJoin(p, t) \/ ThreadJoinSleep(p, t))
  \/ BeginExec(p) \/ BeginExec2(p)
  \/ \E q \in Proc \ {initproc} : Live(q) /\ pid[q] # pid[initproc] /\ Kill(p, pid[q])

Next == \E p \in Proc : Continue(p) \/ Enter(p)

Spec == Init /\ [][Next]_vars

\* The scheduler scans the table round and round, and the timer interrupts user code.
FairSpec == Spec /\ \A p \in Proc : WF_vars(Continue(p))

-----------------------------------------------------------------------------
\* README.md:114 of project02: the page table shared by the threads of a process is
\* not given up while one of them may still run.
PgdirLive == \A p \in Proc : Live(p) => pgdir[p] \in vm

\* Every page table allocated is that of a slot that wait will free, or that runs.
PgdirOwned == vm \subseteq {pgdir[p] : p \in {q \in Proc : Live(q)}}

\* exec and growproc go by threadnum: it counts the threads not joined yet.
ThreadCount ==
  \A p \in Proc : Live(p) /\ ~isThread[p] =>
    threadnum[p] = Cardinality({q \in ThreadsOf(p) : Live(q)})

\* Nobody sleeps in wait or thread_join beside a ZOMBIE it waits for, nor killed.
NoLostWakeup ==
  \A p \in Proc : state[p] = "SLEEPING" =>
    /\ ~killed[p]
    /\ pc[p] = "wait" => Zombies(p) = {}
    /\ pc[p] = "join" => ~Joinable(p, with[p])

\* A process that ended by exit left no thread behind, and one slot is its own.
DiesWhole ==
  \A p \in Proc : state[p] = "ZOMBIE" /\ ~isThread[p] => Siblings(p) = {}

\* Abandoned children pass to init: a live process has a parent that can reap it.
ParentLive == \A p \in Proc \ {initproc} : Live(p) => parent[p] # NULL /\ Live(parent[p])

\* The table says of every process who its parent and how many its threads are.
FamiliesRight == TypeOK /\ ThreadCount /\ ParentLive

\* A killed process ends, its threads and those being created included.
KilledDies == \A p \in Proc \ {initproc} : killed[p] ~> (~killed[p] \/ state[p] = "ZOMBIE")
=============================================================================
