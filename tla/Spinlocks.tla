------------------------------ MODULE Spinlocks ------------------------------
(***************************************************************************)
(* Spin locks and interrupts (spinlock.c, trap.c, and scheduler, sched and *)
(* forkret of proc.c in project03).  Interrupt handlers take locks, so a   *)
(* CPU that holds or waits for one must not be interrupted; pushcli and    *)
(* popcli count how deep it is, and intena remembers, per CPU, what to go  *)
(* back to.  ptable.lock changes hands with the CPU from a process to the  *)
(* scheduler and to the next process, and intena must follow the process.  *)
(*                                                                         *)
(* A CPU runs a context: a process, or its scheduler.  A context is a      *)
(* stack of frames: system call, interrupt handler.  Locks are taken in    *)
(* the order of their numbers, ptable.lock last (kernel convention).       *)
(***************************************************************************)
EXTENDS Naturals, Sequences, SequencesExt, FiniteSets

CONSTANTS
  NCPU, NPROCS, NLOCK,
  NONE,
  Depth   \* a bound of the model: locks held at once by a context

SpinlocksAssumption == {NCPU, NPROCS, NLOCK, Depth} \subseteq Nat \ {0} /\ NONE = 0

CPU     == 1 .. NCPU
Process == NCPU + 1 .. NCPU + NPROCS
Context == CPU \cup Process      \* c itself is the scheduler of CPU c
Lock    == 1 .. NLOCK
ptable  == NLOCK

VARIABLES
  owner,   \* lk->locked and lk->cpu: the CPU that holds each lock
  IF_,     \* per CPU: interrupts are enabled
  ncli, intena,  \* per CPU: depth of pushcli, and IF before the first
  current, \* per CPU: the context it runs
  frames,  \* per context: the frames on its kernel stack, the last on top
  saved    \* per process: intena in its sched(), or "new" before its forkret

vars == <<owner, IF_, ncli, intena, current, frames, saved>>

\* A frame: system call, handler, scheduler or forkret; the locks it holds; the one it
\* spins for.
Frame(kind, held) == [kind |-> kind, held |-> held, spins |-> NONE]

\* main() starts the schedulers; userinit and fork leave processes at forkret.
Init ==
  /\ owner = [l \in Lock |-> NONE]
  /\ IF_ = [c \in CPU |-> FALSE]
  /\ ncli = [c \in CPU |-> 0] /\ intena = [c \in CPU |-> FALSE]
  /\ current = [c \in CPU |-> c]
  /\ frames = [x \in Context |->
       <<IF x \in CPU THEN Frame("scheduler", {}) ELSE Frame("forkret", {ptable})>>]
  /\ saved = [p \in Process |-> "new"]

-----------------------------------------------------------------------------
(* Helpers *)

Stack(c)   == frames[current[c]]
Top(c)     == Last(Stack(c))
SetTop(c, f) == frames' = [frames EXCEPT ![current[c]] = Front(@) \o <<f>>]
Held(c)    == UNION {Stack(c)[i].held : i \in DOMAIN Stack(c)}
Running(c) == Stack(c) # <<>> /\ Top(c).spins = NONE

-----------------------------------------------------------------------------
(* acquire and release *)

\* pushcli, and the lock is wanted.
Acquire(c, l) ==
  /\ Running(c) /\ Top(c).kind # "forkret" /\ Cardinality(Held(c)) < Depth
  /\ \A h \in Held(c) : h < l
  /\ Top(c).kind = "scheduler" => l = ptable /\ IF_[c]
  /\ IF_' = [IF_ EXCEPT ![c] = FALSE]
  /\ intena' = IF ncli[c] = 0 THEN [intena EXCEPT ![c] = IF_[c]] ELSE intena
  /\ ncli' = [ncli EXCEPT ![c] = @ + 1]
  /\ SetTop(c, [Top(c) EXCEPT !.spins = l])
  /\ UNCHANGED <<owner, current, saved>>

\* The xchg finds the lock free.
Acquired(c) ==
  /\ Stack(c) # <<>> /\ Top(c).spins # NONE
  /\ owner[Top(c).spins] = NONE
  /\ owner' = [owner EXCEPT ![Top(c).spins] = c]
  /\ SetTop(c, [Top(c) EXCEPT !.held = @ \cup {Top(c).spins}, !.spins = NONE])
  /\ UNCHANGED <<IF_, ncli, intena, current, saved>>

\* A mutant: popcli enables interrupts whatever the depth.
ReleaseEnables(c, l) ==
  /\ Running(c) /\ l \in Top(c).held
  /\ owner' = [owner EXCEPT ![l] = NONE]
  /\ ncli' = [ncli EXCEPT ![c] = @ - 1]
  /\ IF_' = [IF_ EXCEPT ![c] = intena[c]]
  /\ SetTop(c, [Top(c) EXCEPT !.held = @ \ {l}])
  /\ UNCHANGED <<intena, current, saved>>

\* The lock is free, then popcli.
Release(c, l) ==
  /\ Running(c) /\ l \in Top(c).held
  /\ owner' = [owner EXCEPT ![l] = NONE]
  /\ ncli' = [ncli EXCEPT ![c] = @ - 1]
  /\ IF_' = [IF_ EXCEPT ![c] = @ \/ (ncli[c] = 1 /\ intena[c])]
  /\ SetTop(c, [Top(c) EXCEPT !.held = @ \ {l}])
  /\ UNCHANGED <<intena, current, saved>>

-----------------------------------------------------------------------------
(* System calls, interrupts, and the return from them *)

\* A trap gate leaves interrupts on (trap.c:25).
Syscall(c) ==
  /\ current[c] \in Process /\ Stack(c) = <<>>
  /\ frames' = [frames EXCEPT ![current[c]] = <<Frame("syscall", {})>>]
  /\ UNCHANGED <<owner, IF_, ncli, intena, current, saved>>

\* An interrupt gate turns them off, in user mode or in the kernel.
Interrupt(c) ==
  /\ IF_[c]
  /\ IF_' = [IF_ EXCEPT ![c] = FALSE]
  /\ frames' = [frames EXCEPT ![current[c]] = Append(@, Frame("interrupt", {}))]
  /\ UNCHANGED <<owner, ncli, intena, current, saved>>

\* iret gives the interrupted code its flags back.
Return(c) ==
  /\ Running(c) /\ Top(c).held = {} /\ Top(c).kind # "scheduler"
  /\ frames' = [frames EXCEPT ![current[c]] = Front(@)]
  /\ IF_' = [IF_ EXCEPT ![c] = TRUE]
  /\ UNCHANGED <<owner, ncli, intena, current, saved>>

-----------------------------------------------------------------------------
(* The scheduler and sched *)

\* The loop of the scheduler starts over.
Sti(c) ==
  /\ Running(c) /\ Top(c).kind = "scheduler" /\ Top(c).held = {}
  /\ IF_' = [IF_ EXCEPT ![c] = TRUE]
  /\ UNCHANGED <<owner, ncli, intena, current, frames, saved>>

Runs(p) == \E c \in CPU : current[c] = p

\* The scheduler, after sti(), switches to a process that left the CPU in sched, which takes its
\* intena along, or to a new one, in forkret.
\* A mutant: sched does not restore intena.
SwtchInKeeps(c, p) ==
  /\ Running(c) /\ Top(c).kind = "scheduler" /\ Held(c) = {ptable} /\ ~Runs(p)
  /\ frames' = [frames EXCEPT ![c][1].held = {}, ![p][Len(frames[p])].held = {ptable}]
  /\ current' = [current EXCEPT ![c] = p]
  /\ UNCHANGED <<owner, IF_, ncli, saved, intena>>

SwtchIn(c, p) ==
  /\ Running(c) /\ Top(c).kind = "scheduler" /\ Held(c) = {ptable} /\ ~Runs(p)
  /\ frames' = [frames EXCEPT ![c][1].held = {}, ![p][Len(frames[p])].held = {ptable}]
  /\ current' = [current EXCEPT ![c] = p]
  /\ intena' = IF saved[p] = "new" THEN intena ELSE [intena EXCEPT ![c] = saved[p] = "on"]
  /\ UNCHANGED <<owner, IF_, ncli, saved>>

\* yield, sleep and exit: a process that holds ptable.lock alone leaves the CPU.
Sched(c) ==
  LET p == current[c] IN
  /\ p \in Process /\ Running(c) /\ Top(c).kind # "forkret" /\ Top(c).held = {ptable}
  /\ Held(c) = {ptable} /\ ncli[c] = 1 /\ ~IF_[c]
  /\ saved' = [saved EXCEPT ![p] = IF intena[c] THEN "on" ELSE "off"]
  /\ frames' = [frames EXCEPT ![p][Len(frames[p])].held = {}, ![c][1].held = {ptable}]
  /\ current' = [current EXCEPT ![c] = c]
  /\ UNCHANGED <<owner, IF_, ncli, intena>>

-----------------------------------------------------------------------------
Next == \E c \in CPU :
  \/ Acquired(c) \/ Syscall(c) \/ Interrupt(c) \/ Return(c) \/ Sti(c) \/ Sched(c)
  \/ \E l \in Lock : Acquire(c, l) \/ Release(c, l)
  \/ \E p \in Process : SwtchIn(c, p)

Spec == Init /\ [][Next]_vars

-----------------------------------------------------------------------------
TypeOK ==
  /\ owner \in [Lock -> CPU \cup {NONE}]
  /\ {IF_, intena} \subseteq [CPU -> BOOLEAN] /\ ncli \in [CPU -> Nat]
  /\ current \in [CPU -> Context]
  /\ \A c \in CPU : current[c] \in Process \cup {c}
  /\ saved \in [Process -> {"new", "on", "off"}]

\* ncli counts the locks a CPU holds and the one it spins for, and while there are any
\* no interrupt comes in: a handler never finds a lock held by the code it interrupted.
InterruptsOff ==
  \A c \in CPU :
    /\ Held(c) = {l \in Lock : owner[l] = c}
    /\ ncli[c] = Cardinality(Held(c))
                 + (IF Stack(c) # <<>> /\ Top(c).spins # NONE THEN 1 ELSE 0)
    /\ ncli[c] > 0 => ~IF_[c]

\* acquire never waits for a lock of its own CPU (spinlock.c:28), nor two CPUs for each
\* other's: along "spins for a lock of" numbers go up.
NoSpinForOwn ==
  \A c \in CPU : Stack(c) # <<>> /\ Top(c).spins # NONE =>
    /\ owner[Top(c).spins] # c
    /\ \A l \in Held(c) : l < Top(c).spins

\* A process that has released its locks has interrupts as they were before it took
\* them, on whatever CPU it is by then (sched, proc.c:359).  Not so a new process: in
\* forkret it has the intena of whoever ran before it, and interrupts may be off.
InterruptsRestored ==
  \A c \in CPU : current[c] \in Process /\ Stack(c) # <<>> /\ ncli[c] = 0 /\ Top(c).kind # "forkret" =>
    IF_[c] = (Top(c).kind = "syscall")
=============================================================================
