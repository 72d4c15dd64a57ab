-------------------------------- MODULE MLFQ --------------------------------
(***************************************************************************)
(* The scheduler of project01: process states, the three-level feedback    *)
(* queue, the scheduler lock and priority boosting (proc.c, trap.c), for   *)
(* the processes and CPUs that share ptable.                               *)
(*                                                                         *)
(* A critical section of ptable.lock is one action.  The lock is a         *)
(* variable all the same, because sched() passes it on: it stays with the  *)
(* CPU from yield, sleep or exit until the scheduler has switched to the   *)
(* next process, and a process that slept in wait() still holds it then.   *)
(* A CPU that holds it has interrupts off.  Between two actions of a       *)
(* process in the kernel the timer may interrupt it (system calls are trap *)
(* gates and leave interrupts on).                                         *)
(***************************************************************************)
EXTENDS RunQueue, Integers

CONSTANTS
  NCPU,          \* CPUs running scheduler(); 1 in the Makefile
  BaseQuantum,   \* ticks a process has in L0: 4
  QuantumStep,   \* ticks added per level: 2
  TopPriority,   \* priority a process starts with: 3 (0 is served first)
  BoostTicks,    \* the tick that boosts: 100
  Calls,         \* the system calls the workload makes
  Priorities     \* what it passes to setPriority(), which takes any int

ASSUME MLFQAssumption ==
  /\ NCPU \in Nat \ {0}
  /\ BaseQuantum \in Nat /\ BaseQuantum >= 2
  /\ QuantumStep \in Nat
  /\ TopPriority \in Nat
  /\ BoostTicks \in Nat \ {0}
  /\ Priorities \subseteq Int
  /\ Calls \subseteq {"fork", "exit", "wait", "sleep", "yield", "kill", "setPriority",
                      "setPriorityNotLast", "schedulerLock", "schedulerUnlock"}

CPU      == 0 .. (NCPU - 1)   \* cpuid(); CPU 0 keeps the time
NOCPU    == NCPU              \* the holder of a free ptable.lock
InitProc == 1                 \* initproc: the first slot allocated

States == {"UNUSED", "EMBRYO", "SLEEPING", "RUNNABLE", "RUNNING", "ZOMBIE"}

\* Where a process is: in user mode; in fork() between allocproc() and the
\* section that makes the child RUNNABLE; in the loop of wait() or sys_sleep();
\* in exit() closing its files; in schedulerLock() before ticks is reset.
Places == {"user", "fork", "wait", "sleep", "exit", "schedulerLock"}

VARIABLES
  state, qlevel, priority, timequantum, parent,   \* fields of struct proc
  killed, locked, named,  \* processes with killed, schedLock, and pid nonzero
  pc, child,              \* place of each process; np of a fork() under way
  rq,                     \* queues[] and the qnext links
  on, level,              \* per CPU: c->proc and the local qlevel of scheduler()
  holder,                 \* the CPU holding ptable.lock, or NOCPU
  ticks,                  \* the global tick count
  intr                    \* progress of CPU 0's timer interrupt

attrs == <<qlevel, priority, timequantum>>
ident == <<parent, named, child>>
cpus  == <<on, level, holder>>
clock == <<ticks, intr>>
vars  == <<state, attrs, ident, killed, locked, pc, rq, cpus, clock>>

TypeOK ==
  /\ state \in [Proc -> States]
  /\ qlevel \in [Proc -> Level]
  /\ priority \in [Proc -> Int]
  /\ timequantum \in [Proc -> 0 .. BaseQuantum + 2 * QuantumStep]
  /\ parent \in [Proc -> Proc \cup {NULL}]
  /\ killed \subseteq Proc /\ locked \subseteq Proc /\ named \subseteq Proc
  /\ pc \in [Proc -> Places]
  /\ child \in [Proc -> Proc \cup {NULL}]
  /\ rq \in Lists
  /\ on \in [CPU -> Proc \cup {NULL}]
  /\ level \in [CPU -> Level]
  /\ holder \in CPU \cup {NOCPU}
  /\ ticks \in 0 .. BoostTicks - 1
  /\ intr \in {"none", "wakeup", "boosted"}

-----------------------------------------------------------------------------
\* Main and userinit: the first process is RUNNABLE and queued, and every CPU
\* enters scheduler() with its local qlevel at 0.
Init ==
  /\ state = [p \in Proc |-> IF p = InitProc THEN "RUNNABLE" ELSE "UNUSED"]
  /\ qlevel = [p \in Proc |-> 0]
  /\ priority = [p \in Proc |-> IF p = InitProc THEN TopPriority ELSE 0]
  /\ timequantum = [p \in Proc |-> IF p = InitProc THEN BaseQuantum ELSE 0]
  /\ parent = [p \in Proc |-> NULL]
  /\ killed = {} /\ locked = {} /\ named = {InitProc}
  /\ pc = [p \in Proc |-> "user"]
  /\ child = [p \in Proc |-> NULL]
  /\ rq = PushBack(EmptyQueues, InitProc, 0)
  /\ on = [c \in CPU |-> NULL]
  /\ level = [c \in CPU |-> 0]
  /\ holder = NOCPU
  /\ ticks = 0 /\ intr = "none"

\* The process on CPU c executes (its CPU is not inside the timer interrupt).
Runs(c, p) == on[c] = p /\ (c = 0 => intr = "none")

\* A system call made in user mode; a killed process exits at the entry of trap().
Call(c, p, name) ==
  Runs(c, p) /\ pc[p] = "user" /\ p \notin killed /\ name \in Calls

LockFree == holder = NOCPU

\* Enqueue(p, l) with the priorities pr, and the schedLock it clears.
Queued(lists, p, l, pr) == Enqueue(lists, p, l, p \in locked, pr)

\* sched(): the CPU returns to scheduler(), which holds ptable.lock.
Sched(c) ==
  /\ on' = [on EXCEPT ![c] = NULL]
  /\ holder' = c
  /\ UNCHANGED level

\* The first of the slots S of the table.
First(q, S) == q \in S /\ \A r \in S : q <= r

Unused   == {q \in Proc : state[q] = "UNUSED"}
Nameless == Proc \ named
OnTicks  == {q \in Proc : state[q] = "SLEEPING" /\ pc[q] = "sleep"}   \* chan = &ticks
InWait(q) == state[q] = "SLEEPING" /\ pc[q] = "wait"    \* chan = q

-----------------------------------------------------------------------------
\* One round of the loop of scheduler(): Dequeue, switch, and the release of
\* ptable.lock in yield, forkret or sleep, where the process resumes.
Dispatch(c) ==
  LET p == rq.head[level[c]]
  IN  /\ on[c] = NULL
      /\ holder \in {c, NOCPU}
      /\ c = 0 => intr = "none"
      /\ p # NULL
      /\ rq' = Dequeue(rq, level[c])
      /\ state' = [state EXCEPT ![p] = "RUNNING"]
      /\ on' = [on EXCEPT ![c] = p]
      /\ holder' = IF pc[p] = "wait" THEN c ELSE NOCPU
      /\ UNCHANGED <<attrs, ident, killed, locked, pc, level, clock>>

\* The level is empty: take the next one, release the lock.
NextLevel(c) ==
  /\ on[c] = NULL
  /\ holder \in {c, NOCPU}
  /\ c = 0 => intr = "none"
  /\ rq.head[level[c]] = NULL
  /\ level' = [level EXCEPT ![c] = IF @ <= 1 THEN @ + 1 ELSE 0]
  /\ holder' = NOCPU
  /\ UNCHANGED <<state, attrs, ident, killed, locked, pc, rq, on, clock>>

-----------------------------------------------------------------------------
\* fork(), first half: allocproc() takes the first UNUSED slot.  (With no slot
\* left the call returns -1 and changes nothing.)  A mutant: the slot is not
\* claimed before ptable.lock is released.
ForkAllocSlotShared(c, p) ==
  /\ Call(c, p, "fork") /\ LockFree
  /\ \E q \in Proc :
       /\ First(q, Unused)
       /\ qlevel' = [qlevel EXCEPT ![q] = 0]
       /\ priority' = [priority EXCEPT ![q] = TopPriority]
       /\ timequantum' = [timequantum EXCEPT ![q] = BaseQuantum]
       /\ rq' = [rq EXCEPT !.next[q] = NULL]
       /\ locked' = locked \ {q}
       /\ named' = named \cup {q}
       /\ child' = [child EXCEPT ![p] = q]
       /\ pc' = [pc EXCEPT ![p] = "fork", ![q] = "user"]
  /\ UNCHANGED <<state, parent, killed, cpus, clock>>

ForkAlloc(c, p) ==
  /\ Call(c, p, "fork") /\ LockFree
  /\ \E q \in Proc :
       /\ First(q, Unused)
       /\ state' = [state EXCEPT ![q] = "EMBRYO"]
       /\ qlevel' = [qlevel EXCEPT ![q] = 0]
       /\ priority' = [priority EXCEPT ![q] = TopPriority]
       /\ timequantum' = [timequantum EXCEPT ![q] = BaseQuantum]
       /\ rq' = [rq EXCEPT !.next[q] = NULL]
       /\ locked' = locked \ {q}
       /\ named' = named \cup {q}
       /\ child' = [child EXCEPT ![p] = q]
       /\ pc' = [pc EXCEPT ![p] = "fork", ![q] = "user"]
  /\ UNCHANGED <<parent, killed, cpus, clock>>

\* fork(), kalloc() or copyuvm() failing: the slot is given back, its pid stays.
ForkFail(c, p) ==
  /\ Runs(c, p) /\ pc[p] = "fork"
  /\ state' = [state EXCEPT ![child[p]] = "UNUSED"]
  /\ child' = [child EXCEPT ![p] = NULL]
  /\ pc' = [pc EXCEPT ![p] = "user"]
  /\ UNCHANGED <<attrs, parent, named, killed, locked, rq, cpus, clock>>

\* fork(), second half.  A mutant: the child is never put on a queue.
ForkDoneUnqueued(c, p) ==
  LET np == child[p]
  IN  /\ Runs(c, p) /\ pc[p] = "fork" /\ LockFree
      /\ parent' = [parent EXCEPT ![np] = p]
      /\ state' = [state EXCEPT ![np] = "RUNNABLE"]
      /\ child' = [child EXCEPT ![p] = NULL]
      /\ pc' = [pc EXCEPT ![p] = "user"]
      /\ UNCHANGED <<rq, attrs, named, killed, locked, cpus, clock>>

ForkDone(c, p) ==
  LET np == child[p]
  IN  /\ Runs(c, p) /\ pc[p] = "fork" /\ LockFree
      /\ parent' = [parent EXCEPT ![np] = p]
      /\ state' = [state EXCEPT ![np] = "RUNNABLE"]
      /\ rq' = Queued(rq, np, qlevel[np], priority)
      /\ locked' = locked \ {np}
      /\ child' = [child EXCEPT ![p] = NULL]
      /\ pc' = [pc EXCEPT ![p] = "user"]
      /\ UNCHANGED <<attrs, named, killed, cpus, clock>>

\* exit() is entered from the system call, from schedulerLock/Unlock with a
\* wrong password, or because the process was killed; it closes the files first.
\* (init never exits: exit() panics for it.)
BeginExit(c, p) ==
  /\ Runs(c, p) /\ pc[p] = "user" /\ p # InitProc
  /\ "exit" \in Calls \/ p \in killed
  /\ pc' = [pc EXCEPT ![p] = "exit"]
  /\ UNCHANGED <<state, attrs, ident, killed, locked, rq, cpus, clock>>

\* exit(): wake the parent, give the children to init and wake it if one is a
\* ZOMBIE, become a ZOMBIE.  A mutant: init is woken instead of the parent.
WokenInitOnly(p, children) == {q \in Proc : InWait(q) /\ q = InitProc}

Woken(p, children) ==
  {q \in Proc : InWait(q) /\ (q = parent[p]
                  \/ (q = InitProc /\ \E r \in children : state[r] = "ZOMBIE"))}

WakeOne(lists, W, p) ==
  IF p \in W THEN Queued(lists, p, qlevel[p], priority) ELSE lists

\* A mutant: the children keep their parent.
ExitKeepsChildren(c, p) ==
  LET children == {q \in Proc : parent[q] = p}
      W == Woken(p, children)
      first == WakeOne(rq, W, parent[p])
  IN  /\ Runs(c, p) /\ pc[p] = "exit" /\ LockFree
      /\ rq' = IF parent[p] = InitProc THEN first ELSE WakeOne(first, W, InitProc)
      /\ locked' = locked \ W
      /\ parent' = parent
      /\ state' = [q \in Proc |-> IF q = p THEN "ZOMBIE"
                                  ELSE IF q \in W THEN "RUNNABLE" ELSE state[q]]
      /\ Sched(c)
      /\ UNCHANGED <<attrs, named, child, killed, pc, clock>>

Exit(c, p) ==
  LET children == {q \in Proc : parent[q] = p}
      W == Woken(p, children)
      first == WakeOne(rq, W, parent[p])
  IN  /\ Runs(c, p) /\ pc[p] = "exit" /\ LockFree
      /\ rq' = IF parent[p] = InitProc THEN first ELSE WakeOne(first, W, InitProc)
      /\ locked' = locked \ W
      /\ parent' = [q \in Proc |-> IF q \in children THEN InitProc ELSE parent[q]]
      /\ state' = [q \in Proc |-> IF q = p THEN "ZOMBIE"
                                  ELSE IF q \in W THEN "RUNNABLE" ELSE state[q]]
      /\ Sched(c)
      /\ UNCHANGED <<attrs, named, child, killed, pc, clock>>

\* One pass of the loop of wait(), entered from user mode or on waking, when
\* the lock is still held: reap the first ZOMBIE child, give up, or sleep.
WaitLoop(c, p) ==
  /\ Runs(c, p)
  /\ \/ Call(c, p, "wait") /\ LockFree
     \/ pc[p] = "wait" /\ holder = c

Reap(c, p) ==
  LET Zombies == {q \in Proc : parent[q] = p /\ state[q] = "ZOMBIE"}
  IN  /\ WaitLoop(c, p)
      /\ \E q \in Proc :
           /\ First(q, Zombies)
           /\ state' = [state EXCEPT ![q] = "UNUSED"]
           /\ parent' = [parent EXCEPT ![q] = NULL]
           /\ killed' = killed \ {q}
           /\ named' = named \ {q}
      /\ holder' = NOCPU
      /\ pc' = [pc EXCEPT ![p] = "user"]
      /\ UNCHANGED <<attrs, child, locked, rq, on, level, clock>>

WaitFails(c, p) ==
  /\ WaitLoop(c, p)
  /\ \A q \in Proc : parent[q] = p => state[q] # "ZOMBIE"
  /\ p \in killed \/ \A q \in Proc : parent[q] # p
  /\ holder' = NOCPU
  /\ pc' = [pc EXCEPT ![p] = "user"]
  /\ UNCHANGED <<state, attrs, ident, killed, locked, rq, on, level, clock>>

WaitSleep(c, p) ==
  /\ WaitLoop(c, p)
  /\ \A q \in Proc : parent[q] = p => state[q] # "ZOMBIE"
  /\ p \notin killed /\ \E q \in Proc : parent[q] = p
  /\ state' = [state EXCEPT ![p] = "SLEEPING"]
  /\ pc' = [pc EXCEPT ![p] = "wait"]
  /\ Sched(c)
  /\ UNCHANGED <<attrs, ident, killed, locked, rq, clock>>

-----------------------------------------------------------------------------
\* sys_sleep: `while (ticks - ticks0 < n) sleep(&ticks, &tickslock)`.  How far
\* the count is from the end is not modelled, so each pass sleeps or returns.
\* CPU 0 holds tickslock until its timer interrupt is over.
TickslockFree == intr = "none"

Sleep(c, p) ==
  /\ Call(c, p, "sleep") \/ (Runs(c, p) /\ pc[p] = "sleep" /\ p \notin killed)
  /\ TickslockFree /\ LockFree
  /\ state' = [state EXCEPT ![p] = "SLEEPING"]
  /\ pc' = [pc EXCEPT ![p] = "sleep"]
  /\ Sched(c)
  /\ UNCHANGED <<attrs, ident, killed, locked, rq, clock>>

SleepReturns(c, p) ==
  /\ Runs(c, p) /\ pc[p] = "sleep" /\ TickslockFree
  /\ pc' = [pc EXCEPT ![p] = "user"]
  /\ UNCHANGED <<state, attrs, ident, killed, locked, rq, cpus, clock>>

Yield(c, p) ==
  /\ Call(c, p, "yield") /\ LockFree
  /\ state' = [state EXCEPT ![p] = "RUNNABLE"]
  /\ rq' = Queued(rq, p, qlevel[p], priority)
  /\ locked' = locked \ {p}
  /\ Sched(c)
  /\ UNCHANGED <<attrs, ident, killed, pc, clock>>

\* kill and setPriority find a slot by pid; pid 0 finds the first slot whose
\* pid is 0.  (Killing init is left out: init then panics in exit().)
ByPid(q) == q \in named \/ First(q, Nameless)

\* kill(): mark the process; a sleeping one becomes RUNNABLE, without Enqueue.
Kill(c, p, q) ==
  /\ Call(c, p, "kill") /\ LockFree
  /\ q # InitProc /\ ByPid(q)
  /\ killed' = killed \cup {q}
  /\ state' = [state EXCEPT ![q] = IF @ = "SLEEPING" THEN "RUNNABLE" ELSE @]
  /\ UNCHANGED <<attrs, ident, locked, pc, rq, cpus, clock>>

\* q is the last of several processes in L2.  cutRelation() takes it out without
\* moving the tail back, so a workload may be told to leave this case out: its calls
\* of setPriority are then named setPriorityNotLast.
LastOfMany(q) == rq.tail[2] = q /\ rq.head[2] # q

CallOfSetPriority(c, p, q) ==
  \/ Call(c, p, "setPriority")
  \/ Call(c, p, "setPriorityNotLast") /\ ~LastOfMany(q)

\* A mutant: any process of L2 is moved, whatever its state.
SetPriorityAnyState(c, p, q, new) ==
  LET moved == qlevel[q] = 2
  IN  /\ CallOfSetPriority(c, p, q) /\ LockFree
      /\ ByPid(q)
      /\ priority' = [priority EXCEPT ![q] = new]
      /\ rq' = IF moved THEN Reposition(rq, q, q \in locked, priority') ELSE rq
      /\ locked' = IF moved THEN locked \ {q} ELSE locked
      /\ UNCHANGED <<state, qlevel, timequantum, ident, killed, pc, cpus, clock>>

SetPriority(c, p, q, new) ==
  LET moved == qlevel[q] = 2 /\ state[q] = "RUNNABLE"
  IN  /\ CallOfSetPriority(c, p, q) /\ LockFree
      /\ ByPid(q)
      /\ priority' = [priority EXCEPT ![q] = new]
      /\ rq' = IF moved THEN Reposition(rq, q, q \in locked, priority') ELSE rq
      /\ locked' = IF moved THEN locked \ {q} ELSE locked
      /\ UNCHANGED <<state, qlevel, timequantum, ident, killed, pc, cpus, clock>>

\* schedulerLock(): schedLock is set without a lock, then ticks under tickslock.
SchedulerLock(c, p) ==
  /\ Call(c, p, "schedulerLock")
  /\ locked' = locked \cup {p}
  /\ pc' = [pc EXCEPT ![p] = "schedulerLock"]
  /\ UNCHANGED <<state, attrs, ident, killed, rq, cpus, clock>>

ResetTicks(c, p) ==
  /\ Runs(c, p) /\ pc[p] = "schedulerLock" /\ TickslockFree
  /\ ticks' = 0
  /\ pc' = [pc EXCEPT ![p] = "user"]
  /\ UNCHANGED <<state, attrs, ident, killed, locked, rq, cpus, intr>>

\* schedulerUnlock(): to the front of L0 with a new quantum, and give up the
\* CPU.  (Without the lock the call changes nothing.)
\* A mutant: schedLock is cleared before Enqueue looks at it.
SchedulerUnlockEarly(c, p) ==
  /\ Call(c, p, "schedulerUnlock") /\ LockFree /\ p \in locked
  /\ timequantum' = [timequantum EXCEPT ![p] = BaseQuantum]
  /\ priority' = [priority EXCEPT ![p] = TopPriority]
  /\ qlevel' = [qlevel EXCEPT ![p] = 0]
  /\ state' = [state EXCEPT ![p] = "RUNNABLE"]
  /\ rq' = Enqueue(rq, p, 0, FALSE, priority')
  /\ locked' = locked \ {p}
  /\ Sched(c)
  /\ UNCHANGED <<ident, killed, pc, clock>>

SchedulerUnlock(c, p) ==
  /\ Call(c, p, "schedulerUnlock") /\ LockFree /\ p \in locked
  /\ timequantum' = [timequantum EXCEPT ![p] = BaseQuantum]
  /\ priority' = [priority EXCEPT ![p] = TopPriority]
  /\ qlevel' = [qlevel EXCEPT ![p] = 0]
  /\ state' = [state EXCEPT ![p] = "RUNNABLE"]
  /\ rq' = Queued(rq, p, 0, priority')
  /\ locked' = locked \ {p}
  /\ Sched(c)
  /\ UNCHANGED <<ident, killed, pc, clock>>

-----------------------------------------------------------------------------
\* The timer interrupt of CPU 0: count the tick, boost on the tick that reaches
\* BoostTicks, wake the processes sleeping on &ticks one by one in table order
\* (tickslock held throughout), then the common end of trap().
Tick ==
  /\ intr = "none" /\ holder # 0
  /\ ticks + 1 # BoostTicks
  /\ ticks' = ticks + 1
  /\ intr' = "wakeup"
  /\ UNCHANGED <<state, attrs, ident, killed, locked, pc, rq, cpus>>

\* priorityBoosting(): every RUNNABLE process, and the interrupted one.
Boosted == {q \in Proc : state[q] = "RUNNABLE" \/ q = on[0]}

\* A mutant: only the level is reset, as if the quantum belonged to the process.
TickBoostKeepQuantum ==
  /\ intr = "none" /\ LockFree
  /\ ticks + 1 = BoostTicks
  /\ ticks' = 0
  /\ intr' = "boosted"
  /\ qlevel' = [q \in Proc |-> IF q \in Boosted THEN 0 ELSE qlevel[q]]
  /\ priority' = [q \in Proc |-> IF q \in Boosted THEN TopPriority ELSE priority[q]]
  /\ rq' = JoinQueues(rq)
  /\ locked' = locked \ {on[0]}
  /\ UNCHANGED <<state, timequantum, ident, killed, pc, cpus>>

TickBoost ==
  /\ intr = "none" /\ LockFree
  /\ ticks + 1 = BoostTicks
  /\ ticks' = 0
  /\ intr' = "boosted"
  /\ qlevel' = [q \in Proc |-> IF q \in Boosted THEN 0 ELSE qlevel[q]]
  /\ priority' = [q \in Proc |-> IF q \in Boosted THEN TopPriority ELSE priority[q]]
  /\ timequantum' = [q \in Proc |-> IF q \in Boosted THEN BaseQuantum
                                    ELSE timequantum[q]]
  /\ rq' = JoinQueues(rq)
  /\ locked' = locked \ {on[0]}
  /\ UNCHANGED <<state, ident, killed, pc, cpus>>

\* A mutant: the process keeps the scheduler lock in the queue.
TickWakeupKeepsLock ==
  /\ intr # "none" /\ holder \in {0, NOCPU}
  /\ \E q \in Proc :
       /\ First(q, OnTicks)
       /\ state' = [state EXCEPT ![q] = "RUNNABLE"]
       /\ rq' = Queued(rq, q, qlevel[q], priority)
       /\ locked' = locked
  /\ holder' = 0
  /\ UNCHANGED <<attrs, ident, killed, pc, on, level, clock>>

TickWakeup ==
  /\ intr # "none" /\ holder \in {0, NOCPU}
  /\ \E q \in Proc :
       /\ First(q, OnTicks)
       /\ state' = [state EXCEPT ![q] = "RUNNABLE"]
       /\ rq' = Queued(rq, q, qlevel[q], priority)
       /\ locked' = locked \ {q}
  /\ holder' = 0
  /\ UNCHANGED <<attrs, ident, killed, pc, on, level, clock>>

\* The end of trap() on a timer interrupt.  A killed process in user mode
\* exits; the holder of the scheduler lock keeps the CPU; any other process is
\* charged the tick and, unless the tick boosted, yields.
Down(l) == IF l = 2 THEN 2 ELSE l + 1

Charge(p) ==
  IF timequantum[p] = 1
  THEN /\ qlevel' = [qlevel EXCEPT ![p] = Down(@)]
       /\ timequantum' = [timequantum EXCEPT ![p] =
                            QuantumStep * Down(qlevel[p]) + BaseQuantum]
       /\ priority' = [priority EXCEPT ![p] =
                         IF qlevel[p] = 2 /\ @ # 0 THEN @ - 1 ELSE @]
  ELSE /\ timequantum' = [timequantum EXCEPT ![p] = @ - 1]
       /\ UNCHANGED <<qlevel, priority>>

ReleaseIfHeld(c) ==
  /\ holder' = IF holder = c THEN NOCPU ELSE holder
  /\ UNCHANGED <<on, level>>

\* A mutant: schedLock is not looked at.
TrapEndUnlocked(c, boosted) ==
  LET p == on[c]
      mustExit == p \in killed /\ pc[p] = "user"
  IN  \/ /\ p # NULL /\ mustExit
         /\ pc' = [pc EXCEPT ![p] = "exit"]
         /\ ReleaseIfHeld(c)
         /\ UNCHANGED <<state, attrs, locked, rq>>
      \/ /\ p = NULL
         /\ ReleaseIfHeld(c)
         /\ UNCHANGED <<state, attrs, locked, pc, rq>>
      \/ /\ p # NULL /\ ~mustExit /\ ~boosted
         /\ holder \in {c, NOCPU}
         /\ Charge(p)
         /\ state' = [state EXCEPT ![p] = "RUNNABLE"]
         /\ rq' = Queued(rq, p, qlevel'[p], priority')
         /\ locked' = locked \ {p}
         /\ Sched(c)
         /\ UNCHANGED pc

TrapEnd(c, boosted) ==
  LET p == on[c]
      mustExit == p \in killed /\ pc[p] = "user"
  IN  \/ /\ p # NULL /\ mustExit
         /\ pc' = [pc EXCEPT ![p] = "exit"]
         /\ ReleaseIfHeld(c)
         /\ UNCHANGED <<state, attrs, locked, rq>>
      \/ /\ p # NULL => ~mustExit /\ p \in locked
         /\ ReleaseIfHeld(c)
         /\ UNCHANGED <<state, attrs, locked, pc, rq>>
      \/ /\ p # NULL /\ ~mustExit /\ p \notin locked /\ boosted
         /\ Charge(p)
         /\ ReleaseIfHeld(c)
         /\ UNCHANGED <<state, locked, pc, rq>>
      \/ /\ p # NULL /\ ~mustExit /\ p \notin locked /\ ~boosted
         /\ holder \in {c, NOCPU}
         /\ Charge(p)
         /\ state' = [state EXCEPT ![p] = "RUNNABLE"]
         /\ rq' = Queued(rq, p, qlevel'[p], priority')
         /\ locked' = locked \ {p}
         /\ Sched(c)
         /\ UNCHANGED pc

TickEnd ==
  /\ intr # "none" /\ holder \in {0, NOCPU}
  /\ OnTicks = {}
  /\ TrapEnd(0, intr = "boosted")
  /\ intr' = "none"
  /\ UNCHANGED <<ident, killed, ticks>>

\* The timer interrupt of the other CPUs only has the end of trap().
OtherTimer(c) ==
  /\ c # 0 /\ holder # c
  /\ TrapEnd(c, FALSE)
  /\ UNCHANGED <<ident, killed, clock>>

-----------------------------------------------------------------------------
Scheduler(c) == Dispatch(c) \/ NextLevel(c)

Timer == Tick \/ TickBoost \/ TickWakeup \/ TickEnd

Process(c, p) ==
  \/ ForkAlloc(c, p) \/ ForkFail(c, p) \/ ForkDone(c, p)
  \/ BeginExit(c, p) \/ Exit(c, p)
  \/ Reap(c, p) \/ WaitFails(c, p) \/ WaitSleep(c, p)
  \/ Sleep(c, p) \/ SleepReturns(c, p)
  \/ Yield(c, p)
  \/ \E q \in Proc : Kill(c, p, q)
  \/ \E q \in Proc, new \in Priorities : SetPriority(c, p, q, new)
  \/ SchedulerLock(c, p) \/ ResetTicks(c, p) \/ SchedulerUnlock(c, p)

Next ==
  \/ Timer
  \/ \E c \in CPU : Scheduler(c) \/ OtherTimer(c)
  \/ \E c \in CPU, p \in Proc : Process(c, p)

Spec == Init /\ [][Next]_vars

-----------------------------------------------------------------------------
(* Safety *)

\* A process is RUNNABLE exactly when it is linked into the queue of its level
\* and into no other: nobody is lost to the scheduler, nobody queued twice.
RunnableQueued ==
  \A p \in Proc, l \in Level :
    p \in OnQueue(rq, l) <=> (state[p] = "RUNNABLE" /\ qlevel[p] = l)

\* Nothing but RUNNABLE processes is linked, each on its level and no other: what
\* the scheduler takes may run, even where kill loses processes.
OnlyRunnableQueued ==
  \A p \in Proc, l \in Level :
    p \in OnQueue(rq, l) => state[p] = "RUNNABLE" /\ qlevel[p] = l

\* A process holds the scheduler lock only while it runs, sleeps or is dead: once it
\* waits in a queue its claim to the CPU is gone, by whatever call it came there.
NoLockInQueue == \A p \in locked, l \in Level : p \notin OnQueue(rq, l)

\* The tail of a queue is its last element, so an append keeps the rest.
TailIsLast ==
  \A l \in Level : \A p \in Proc :
    rq.tail[l] = p <=> (p \in OnQueue(rq, l) /\ rq.next[p] = NULL)

\* A process executes on one CPU at a time, and exactly the RUNNING ones do.
OneCpu ==
  /\ \A c \in CPU : on[c] # NULL => state[on[c]] = "RUNNING"
  /\ \A p \in Proc : state[p] = "RUNNING" => \E c \in CPU : on[c] = p
  /\ \A c, d \in CPU : on[c] # NULL /\ on[c] = on[d] => c = d

\* No process sleeps in wait() while it has a ZOMBIE child to reap: neither the
\* exit of a child nor the adoption of an exited one is missed.
NoLostWakeup ==
  \A p, q \in Proc : InWait(p) /\ parent[q] = p => state[q] # "ZOMBIE"

\* A process that holds a slot of the table as a child has a live parent, so a
\* ZOMBIE is always reaped by somebody.
ParentAlive ==
  \A p \in Proc : state[p] \in States \ {"UNUSED", "EMBRYO"} /\ p # InitProc
    => parent[p] # NULL /\ state[parent[p]] \notin {"UNUSED", "EMBRYO", "ZOMBIE"}

\* The quantum left is within that of the level the process is on.
QuantumFitsLevel ==
  \A p \in Proc : state[p] # "UNUSED" =>
    timequantum[p] \in 1 .. BaseQuantum + QuantumStep * qlevel[p]

\* The processes each queue should hold.
Ready == [l \in Level |-> {p \in Proc : state[p] = "RUNNABLE" /\ qlevel[p] = l}]

\* A fork() under way owns an EMBRYO that no other fork() owns.
ForkOwnsChild ==
  \A p \in Proc : pc[p] = "fork" =>
    /\ child[p] \in Proc /\ state[child[p]] = "EMBRYO"
    /\ \A r \in Proc : pc[r] = "fork" /\ child[r] = child[p] => r = p

\* The inductive invariant behind OnlyRunnableQueued: the queues have the shape of
\* lists, whatever the calls made except setPriority of the last of L2.
Core ==
  /\ TypeOK
  /\ \A l \in Level : QueueOK(rq, l, OnQueue(rq, l))
  /\ OnlyRunnableQueued
  /\ NoLockInQueue
  /\ OneCpu
  /\ ForkOwnsChild
  /\ QuantumFitsLevel

\* The inductive invariant behind RunnableQueued: the lists hold the processes they
\* should as well, whatever the calls made except kill, which leaves out of the
\* queues a process it wakes, and setPriority of the last of L2.
IInv == Core /\ RunnableQueued

(* Actions *)

\* trap.c:139, proc.c:687: the timer never takes the CPU from a process that
\* holds the scheduler lock.
LockedNotPreempted ==
  [][\A c \in CPU : on[c] # NULL /\ on[c] \in locked /\ intr # "none" /\ c = 0
       => on'[c] = on[c]]_vars

\* schedulerUnlock puts the process first in L0 with a fresh quantum, whatever
\* waits there: it is the next that this level dispatches.
UnlockGoesFirst ==
  [][\A c \in CPU, p \in Proc :
       (on[c] = p /\ on'[c] = NULL /\ p \in locked /\ qlevel'[p] = 0
        /\ state'[p] = "RUNNABLE" /\ intr = "none")
       => rq'.head[0] = p]_vars

\* After a boost the queues below L0 are empty, the processes of L0 keep their
\* places before those that join it, and nobody is left out.
BoostJoins ==
  [][ticks + 1 = BoostTicks /\ ticks' = 0 /\ intr' = "boosted" =>
       /\ OnQueue(rq', 0) = {p \in Proc : state[p] = "RUNNABLE"}
       /\ OnQueue(rq', 1) = {} /\ OnQueue(rq', 2) = {}
       /\ \A l \in Level : rq.head[l] # NULL /\ (\A k \in Level : k < l => rq.head[k] = NULL)
            => rq'.head[0] = rq.head[l]]_vars

(* Liveness *)

\* Between two timer interrupts a CPU executes what it was interrupted in, so the
\* loop of scheduler() proceeds however often it is interrupted: strong fairness.
\* The timer interrupt is held pending while interrupts are off and taken as soon
\* as they are on: strong fairness again.  With interrupts off a CPU just goes on.
Fairness ==
  /\ \A c \in CPU : SF_vars(Scheduler(c))
  /\ \A c \in CPU, p \in Proc :
       WF_vars(Reap(c, p) \/ WaitFails(c, p) \/ WaitSleep(c, p))
  /\ SF_vars(Tick) /\ SF_vars(TickBoost)
  /\ WF_vars(TickWakeup \/ TickEnd)

FairSpec == Spec /\ Fairness

\* No process starves: one that is RUNNABLE runs, whatever its level and the
\* processes that keep arriving in L0.
NoStarvation == \A p \in Proc : state[p] = "RUNNABLE" ~> state[p] = "RUNNING"
=============================================================================
