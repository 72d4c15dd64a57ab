------------------------------ MODULE Sleeping ------------------------------
(***************************************************************************)
(* sleep and wakeup (proc.c), with two of their users: the sleep locks     *)
(* (sleeplock.c) and sys_sleep, which waits for the clock (sysproc.c and   *)
(* trap.c), all of project03.                                              *)
(*                                                                         *)
(* What happens between two operations on spin locks is one step; ticks    *)
(* wrap around.                                                            *)
(***************************************************************************)
EXTENDS Naturals, FiniteSets

CONSTANTS
  Proc,     \* the processes
  Wrap,     \* one more than the largest uint
  Lengths,  \* bound of the model: the arguments of sys_sleep
  MaxTicks, \* bound of the model: the ticks of the clock, which starts just before it wraps
  MaxCalls, \* bound of the model: the calls of a process
  NONE      \* nobody

Timer == "timer"

SleepingAssumption ==
  /\ Wrap \in Nat \ {0} /\ Lengths \subseteq 0 .. Wrap - 1
  /\ MaxTicks \in 0 .. Wrap - 1 /\ MaxCalls \in Nat
  /\ NONE \notin Proc \cup {Timer, "slept", "killed"} /\ Timer \notin Proc

\* The clock and the sleep lock are each guarded by a spin lock, and are channels to sleep on.
Chan == {"ticks", "lk"}

VARIABLES
  ptable, spin,    \* who holds ptable.lock, and the spin lock of each channel
  pc, state,       \* where a process, or the timer, is; what the scheduler makes of it
  ticks, killed,
  locked,          \* the sleep lock: its holder
  ticks0, n,       \* of sys_sleep: when it began, and for how long it is
  passed, result,  \* the ticks seen since then, and what sys_sleep returned
  calls            \* bound of the model: the calls made

vars == <<ptable, spin, pc, state, ticks, killed, locked, ticks0, n, passed, result, calls>>

Init ==
  /\ ptable = NONE /\ spin = [c \in Chan |-> NONE]
  /\ pc = [p \in Proc \cup {Timer} |-> "user"]
  /\ state = [p \in Proc |-> "RUNNABLE"]
  /\ ticks = Wrap - 1 /\ killed = [p \in Proc |-> FALSE]
  /\ locked = NONE
  /\ ticks0 = [p \in Proc |-> 0] /\ n = [p \in Proc |-> 0]
  /\ passed = [p \in Proc |-> 0] /\ result = [p \in Proc |-> NONE]
  /\ calls = [p \in Proc |-> 0]

At(p, where) == pc[p] = where
Go(p, where) == pc' = [pc EXCEPT ![p] = where]

Acquire(c, p) == spin[c] = NONE /\ spin' = [spin EXCEPT ![c] = p]
Release(c)    == spin' = [spin EXCEPT ![c] = NONE]

\* What p is about to wait for, or waits for.
ChanOf(p) == IF n[p] > 0 THEN "ticks" ELSE "lk"

-----------------------------------------------------------------------------
(* sleep and wakeup *)

\* sleep takes ptable.lock, releases the lock of the channel, and leaves the CPU; the
\* scheduler releases ptable.lock.
\* A mutant: the lock of the channel is released first.
SleepLocksLate(p) ==
  \/ /\ At(p, "sleep")
     /\ Release(ChanOf(p)) /\ Go(p, "release")
     /\ UNCHANGED <<ptable, state>>
  \/ /\ At(p, "release") /\ ptable = NONE
     /\ state' = [state EXCEPT ![p] = "SLEEPING"] /\ Go(p, "asleep")
     /\ UNCHANGED <<ptable, spin>>

Sleep(p) ==
  \/ /\ At(p, "sleep") /\ ptable = NONE
     /\ ptable' = p /\ Go(p, "release")
     /\ UNCHANGED <<spin, state>>
  \/ /\ At(p, "release")
     /\ Release(ChanOf(p)) /\ ptable' = NONE
     /\ state' = [state EXCEPT ![p] = "SLEEPING"] /\ Go(p, "asleep")

\* The scheduler runs p again; sleep tidies up, and takes the lock of the channel next.
Resume(p) ==
  /\ At(p, "asleep") /\ state[p] = "RUNNABLE" /\ ptable = NONE
  /\ Go(p, "acquire")
  /\ UNCHANGED <<ptable, spin, state>>

\* The processes that sleep on c can run.
Wakeup(c) ==
  /\ ptable = NONE
  /\ state' = [p \in Proc |-> IF At(p, "asleep") /\ ChanOf(p) = c THEN "RUNNABLE" ELSE state[p]]
  /\ UNCHANGED ptable

\* Another process kills p.
Kill(p) ==
  /\ ~killed[p] /\ ptable = NONE
  /\ killed' = [killed EXCEPT ![p] = TRUE]
  /\ state' = [state EXCEPT ![p] = "RUNNABLE"]
  /\ UNCHANGED <<ptable, spin, pc, ticks, locked, ticks0, n, passed, result, calls>>

-----------------------------------------------------------------------------
(* Sleep locks *)

\* acquiresleep tests the lock whenever it has its spin lock.
\* A mutant: once it has slept, it takes it.
AcquiresleepOnce(p) ==
  IF locked = NONE \/ result[p] = "slept"
  THEN locked' = p /\ Release("lk") /\ Go(p, "holds") /\ UNCHANGED result
  ELSE Go(p, "sleep") /\ result' = [result EXCEPT ![p] = "slept"] /\ UNCHANGED <<locked, spin>>

Acquiresleep(p) ==
  IF locked = NONE
  THEN locked' = p /\ Release("lk") /\ Go(p, "holds") /\ UNCHANGED result
  ELSE Go(p, "sleep") /\ UNCHANGED <<locked, spin, result>>

\* releasesleep: under the spin lock of the lock, which it releases last.
Releasesleep(p) ==
  /\ \/ /\ At(p, "holds")
        /\ Acquire("lk", p) /\ locked' = NONE /\ Go(p, "wakeup")
        /\ UNCHANGED <<ptable, state>>
     \/ /\ At(p, "wakeup")
        /\ Wakeup("lk") /\ Release("lk") /\ Go(p, "user") /\ UNCHANGED locked
  /\ UNCHANGED <<ticks, killed, ticks0, n, passed, result, calls>>

-----------------------------------------------------------------------------
(* The clock *)

\* Whether sys_sleep has slept long enough: a difference of uints.
\* A mutant: the time at which it ends is computed, and wraps.
DueAt(p) == ticks >= (ticks0[p] + n[p]) % Wrap
Due(p) == (ticks + Wrap - ticks0[p]) % Wrap >= n[p]

SysSleep(p) ==
  IF Due(p) \/ killed[p]
  THEN /\ result' = [result EXCEPT ![p] = IF Due(p) THEN "slept" ELSE "killed"]
       /\ Release("ticks") /\ Go(p, "user")
  ELSE Go(p, "sleep") /\ UNCHANGED <<spin, result>>

\* The timer interrupt of CPU 0.
Tick ==
  /\ \/ /\ At(Timer, "user") /\ (ticks + 1) % Wrap < MaxTicks
        /\ Acquire("ticks", Timer) /\ Go(Timer, "wakeup")
        /\ ticks' = (ticks + 1) % Wrap
        /\ passed' = [p \in Proc |-> IF n[p] > 0 /\ passed[p] < Wrap THEN passed[p] + 1 ELSE 0]
        /\ UNCHANGED <<ptable, state>>
     \/ /\ At(Timer, "wakeup")
        /\ Wakeup("ticks") /\ Release("ticks") /\ Go(Timer, "user")
        /\ UNCHANGED <<ticks, passed>>
  /\ UNCHANGED <<killed, locked, ticks0, n, result, calls>>

-----------------------------------------------------------------------------
\* A call of acquiresleep, with length 0 here, or of sys_sleep; a killed process makes none.
Call(p) ==
  /\ At(p, "user") /\ ~killed[p] /\ calls[p] < MaxCalls
  /\ calls' = [calls EXCEPT ![p] = @ + 1]
  /\ \E length \in Lengths \cup {0} :
       IF length = 0
       THEN /\ n' = [n EXCEPT ![p] = 0] /\ Go(p, "acquire")
            /\ UNCHANGED <<spin, ticks0>>
       ELSE /\ Acquire("ticks", p) /\ Go(p, "test")
            /\ n' = [n EXCEPT ![p] = length] /\ ticks0' = [ticks0 EXCEPT ![p] = ticks]
  /\ passed' = [passed EXCEPT ![p] = 0] /\ result' = [result EXCEPT ![p] = NONE]
  /\ UNCHANGED <<ptable, state, ticks, killed, locked>>

\* The lock of the channel is there.
Locked(p) ==
  /\ At(p, "acquire")
  /\ Acquire(ChanOf(p), p) /\ Go(p, "test")
  /\ UNCHANGED <<ptable, state, ticks, killed, locked, ticks0, n, passed, result, calls>>

\* What is waited for is tested.
Test(p) ==
  /\ At(p, "test")
  /\ IF ChanOf(p) = "lk" THEN Acquiresleep(p) ELSE SysSleep(p) /\ UNCHANGED locked
  /\ UNCHANGED <<ptable, state, ticks, killed, ticks0, n, passed, calls>>

Next ==
  \/ Tick
  \/ \E p \in Proc :
       \/ Call(p) \/ Locked(p) \/ Test(p) \/ Releasesleep(p) \/ Kill(p)
       \/ (Sleep(p) \/ Resume(p)) /\ UNCHANGED <<ticks, killed, locked, ticks0, n, passed, result, calls>>

Spec == Init /\ [][Next]_vars

-----------------------------------------------------------------------------
TypeOK ==
  /\ ptable \in Proc \cup {NONE} /\ spin \in [Chan -> Proc \cup {Timer, NONE}]
  /\ state \in [Proc -> {"RUNNABLE", "SLEEPING"}]
  /\ ticks \in 0 .. Wrap - 1 /\ passed \in [Proc -> 0 .. Wrap]
  /\ locked \in Proc \cup {NONE}

\* Nobody sleeps for a sleep lock that is free, nor past its time, unless whoever freed the
\* lock, or moved the clock, is about to wake it.
NoLostWakeup ==
  \A p \in Proc : state[p] = "SLEEPING" =>
    IF ChanOf(p) = "lk" THEN locked = NONE => \E q \in Proc : At(q, "wakeup")
                        ELSE Due(p) => At(Timer, "wakeup")

\* A sleep lock has one holder, the process between acquiresleep and releasesleep.
OneHolder == \A p \in Proc : At(p, "holds") <=> locked = p

\* sys_sleep returns 0 only when as many ticks have passed as it was asked for, also when the
\* clock wraps around meanwhile, and else only to a process that was killed.
SleepsLong ==
  \A p \in Proc : n[p] > 0 =>
    /\ result[p] = "slept" => passed[p] >= n[p]
    /\ result[p] = "killed" => killed[p]
=============================================================================
