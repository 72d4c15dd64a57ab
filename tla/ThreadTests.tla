------------------------------ MODULE ThreadTests ------------------------------
(***************************************************************************)
(* The tests of threads that come with project02 (thread_test.c,           *)
(* thread_exec.c, thread_exit.c, thread_kill.c, threadtest.c, sleeptest.c, *)
(* exectest.c, threadretval.c), as programs for the calls of proc.c, which *)
(* are steps here (what goes on inside them is in Threads).  What a        *)
(* program does between two ticks of the clock is taken to fit in a tick:  *)
(* the tests count on it.                                                  *)
(***************************************************************************)
EXTENDS Naturals, Sequences, FiniteSets

CONSTANT NPROC
ThreadTestsAssumption == NPROC \in Nat \ {0}

VARIABLES
  slot,   \* ptable.proc
  mem,    \* the variables of a process, by pid: its threads share them
  now,    \* ticks
  failed

vars == <<slot, mem, now, failed>>

Slot == 1 .. NPROC
Pid == 1 .. NPROC + 1
INIT == 0

\* A call, with its arguments.
C(op, x, y) == [op |-> op, x |-> x, y |-> y]

Unused == [state |-> "UNUSED", pid |-> 0, parent |-> INIT, isThread |-> FALSE, threadnum |-> 0,
           script |-> <<>>, until |-> 0, killed |-> FALSE, retval |-> 0]
NoMem == [v \in {"status", "ptr", "pid", "t0", "t1", "t2"} |-> 0]

Start(script) ==
  /\ slot = [s \in Slot |-> IF s = 1 THEN [Unused EXCEPT !.state = "RUNNABLE", !.pid = 1, !.script = script] ELSE Unused]
  /\ mem = [p \in Pid |-> NoMem]
  /\ now = 0 /\ failed = {}

-----------------------------------------------------------------------------
At(s, op) == slot[s].state = "RUNNABLE" /\ ~slot[s].killed /\ slot[s].script # <<>> /\ Head(slot[s].script).op = op
Call(s) == Head(slot[s].script)

Least(S) == CHOOSE x \in S : \A y \in S : x <= y
New == Least({s \in Slot : slot[s].state = "UNUSED"})
FreshPid == Least(Pid \ {slot[s].pid : s \in Slot})
Children(s) == {q \in Slot : slot[q].parent = s}
ThreadsOf(s) == {q \in Children(s) : slot[q].isThread}

\* The call of s is over, with these slots.
Done(s, slots) == slot' = [slots EXCEPT ![s].script = Tail(@)]
Quiet == UNCHANGED <<mem, now, failed>>
Check(s, ok) == failed' = IF ok THEN failed ELSE failed \cup {Call(s)}

\* A zombie whose parent is init is reaped.
Zombie(slots, s, val) ==
  [q \in Slot |->
    IF q = s THEN IF slots[s].parent = INIT THEN Unused
                  ELSE [slots[s] EXCEPT !.state = "ZOMBIE", !.retval = val, !.script = <<>>]
    ELSE IF slots[q].parent # s THEN slots[q]
    ELSE IF slots[q].state = "ZOMBIE" THEN Unused ELSE [slots[q] EXCEPT !.parent = INIT]]

\* killthread.
\* A mutant: the thread stays the child of the main thread.
KillThreadsStaysChild(s) ==
  [q \in Slot |->
    IF q = s THEN [slot[s] EXCEPT !.isThread = FALSE, !.threadnum = 0]
    ELSE IF slot[q].pid = slot[s].pid THEN Unused ELSE slot[q]]

KillThreads(s) ==
  [q \in Slot |->
    IF q = s THEN [slot[s] EXCEPT !.isThread = FALSE, !.threadnum = 0,
                     !.parent = IF slot[s].isThread THEN slot[@].parent ELSE @]
    ELSE IF slot[q].pid = slot[s].pid THEN Unused ELSE slot[q]]

-----------------------------------------------------------------------------
(* The calls.  x is a variable of the process, or what is given. *)

ThreadCreate(s) ==
  /\ At(s, "create")
  /\ IF \A q \in Slot : slot[q].state # "UNUSED" THEN Done(s, slot) /\ Check(s, FALSE) /\ UNCHANGED mem
     ELSE /\ Done(s, [slot EXCEPT ![s].threadnum = @ + 1,
               ![New] = [Unused EXCEPT !.state = "RUNNABLE", !.pid = slot[s].pid, !.parent = s,
                          !.isThread = TRUE, !.threadnum = slot[s].threadnum + 1, !.script = Call(s).y]])
          /\ mem' = [mem EXCEPT ![slot[s].pid][Call(s).x] = New]
          /\ UNCHANGED failed
  /\ UNCHANGED now

\* A mutant: any thread that has ended will do.
ThreadJoinAny(s) ==
  /\ At(s, "join")
  /\ \E q \in ThreadsOf(s) :
       /\ slot[q].state = "ZOMBIE"
       /\ Done(s, [slot EXCEPT ![q] = Unused, ![s].threadnum = @ - 1])
       /\ Check(s, Call(s).y = slot[q].retval)
  /\ UNCHANGED <<mem, now>>

ThreadJoin(s) ==
  /\ At(s, "join")
  /\ LET q == mem[slot[s].pid][Call(s).x] IN
     IF ThreadsOf(s) = {} THEN Done(s, slot) /\ Check(s, FALSE)
     ELSE /\ q \in ThreadsOf(s) /\ slot[q].state = "ZOMBIE"
          /\ Done(s, [slot EXCEPT ![q] = Unused, ![s].threadnum = @ - 1])
          /\ Check(s, Call(s).y = slot[q].retval)
  /\ UNCHANGED <<mem, now>>

ThreadExit(s) ==
  /\ At(s, "thread_exit")
  /\ slot' = Zombie(slot, s, Call(s).x) /\ Quiet

\* By the call, or by a process that was killed.
Exit(s) ==
  /\ At(s, "exit") \/ (slot[s].state \in {"RUNNABLE", "SLEEPING"} /\ slot[s].killed)
  /\ slot' = Zombie(KillThreads(s), s, 0) /\ Quiet

\* The child has the memory as it is, and runs x.
Fork(s) ==
  /\ At(s, "fork")
  /\ IF \A q \in Slot : slot[q].state # "UNUSED" THEN Done(s, slot) /\ Check(s, FALSE) /\ UNCHANGED mem
     ELSE /\ Done(s, [slot EXCEPT ![New] = [Unused EXCEPT !.state = "RUNNABLE", !.pid = FreshPid,
                                              !.parent = s, !.script = Call(s).x]])
          /\ mem' = [mem EXCEPT ![FreshPid] = mem[slot[s].pid],
                                ![slot[s].pid]["pid"] = FreshPid]
          /\ UNCHANGED failed
  /\ UNCHANGED now

\* wait must find a child (x), or is called until there is none.
Wait(s) ==
  /\ At(s, "wait")
  /\ \/ /\ Children(s) = {}
        /\ Done(s, slot) /\ Check(s, ~Call(s).x)
     \/ \E q \in Children(s) :
          /\ slot[q].state = "ZOMBIE"
          /\ slot' = [slot EXCEPT ![q] = Unused, ![s].script = IF Call(s).x THEN Tail(@) ELSE @]
          /\ UNCHANGED failed
  /\ UNCHANGED <<mem, now>>

Kill(s) ==
  /\ At(s, "kill")
  /\ LET id == mem[slot[s].pid]["pid"] IN
     Done(s, [q \in Slot |-> IF slot[q].pid = id THEN [slot[q] EXCEPT !.killed = TRUE] ELSE slot[q]])
  /\ Quiet

\* exec of a program: the other threads go, if there are any (threadnum), and x is run.
Exec(s) ==
  /\ At(s, "exec")
  /\ slot' = [(IF slot[s].threadnum # 0 THEN KillThreads(s) ELSE slot) EXCEPT ![s].script = Call(s).x]
  /\ Quiet

Sleep(s) ==
  /\ At(s, "sleep")
  /\ Done(s, [slot EXCEPT ![s].state = "SLEEPING", ![s].until = now + Call(s).x]) /\ Quiet

\* Not calls: a variable is set, compared, or waited for; and what must not be reached.
Set(s) ==
  /\ At(s, "set")
  /\ mem' = [mem EXCEPT ![slot[s].pid][Call(s).x] = Call(s).y]
  /\ Done(s, slot) /\ UNCHANGED <<now, failed>>

Compare(s) ==
  /\ At(s, "equals")
  /\ Check(s, mem[slot[s].pid][Call(s).x] = Call(s).y)
  /\ Done(s, slot) /\ UNCHANGED <<mem, now>>

Await(s) ==
  /\ At(s, "await") /\ mem[slot[s].pid][Call(s).x] = Call(s).y
  /\ Done(s, slot) /\ Quiet

Reached(s) ==
  /\ At(s, "never") /\ Check(s, FALSE) /\ Done(s, slot) /\ UNCHANGED <<mem, now>>

Step(s) ==
  \/ ThreadCreate(s) \/ ThreadJoin(s) \/ ThreadExit(s) \/ Exit(s) \/ Fork(s) \/ Wait(s) \/ Kill(s)
  \/ Exec(s) \/ Sleep(s) \/ Set(s) \/ Compare(s) \/ Await(s) \/ Reached(s)

\* Who can go on.
Ready(s) ==
  LET c == Call(s) IN
  \/ slot[s].killed /\ slot[s].state \in {"RUNNABLE", "SLEEPING"}
  \/ /\ slot[s].state = "RUNNABLE" /\ slot[s].script # <<>>
     /\ CASE c.op = "join"  -> ThreadsOf(s) = {} \/ (mem[slot[s].pid][c.x] \in ThreadsOf(s)
                                                     /\ slot[mem[slot[s].pid][c.x]].state = "ZOMBIE")
          [] c.op = "wait"  -> Children(s) = {} \/ \E q \in Children(s) : slot[q].state = "ZOMBIE"
          [] c.op = "await" -> mem[slot[s].pid][c.x] = c.y
          [] OTHER -> TRUE

Sleepers == {s \in Slot : slot[s].state = "SLEEPING"}

\* The clock goes on to the next who has slept enough.
Tick ==
  /\ \A s \in Slot : ~Ready(s)
  /\ Sleepers # {}
  /\ now' = Least({slot[s].until : s \in Sleepers})
  /\ slot' = [s \in Slot |-> IF s \in Sleepers /\ slot[s].until = now' THEN [slot[s] EXCEPT !.state = "RUNNABLE"] ELSE slot[s]]
  /\ UNCHANGED <<mem, failed>>

Next == Tick \/ \E s \in Slot : Step(s)

-----------------------------------------------------------------------------
(* The tests, with two or three threads instead of five *)

Create(t, script) == C("create", t, script)
Join(t, val) == C("join", t, val)
Sleeps(n) == C("sleep", n, 0)
Sets(v, val) == C("set", v, val)
Is(v, val) == C("equals", v, val)
Ends(val) == C("thread_exit", val, 0)
Exits == C("exit", 0, 0)
Never == C("never", 0, 0)

thread_basic ==
  <<Create("t0", <<Ends(0)>>), Create("t1", <<Sleeps(2), Sets("status", 1), Ends(1)>>), Sleeps(1),
    Join("t0", 0), Join("t1", 1), Is("status", 1), Exits>>

thread_fork ==
  LET forks(val) == <<C("fork", <<Sleeps(1), Sets("status", 3), Exits>>, 0), Sets("status", 2),
                      C("wait", TRUE, 0), Ends(val)>>
  IN <<Create("t0", forks(0)), Create("t1", forks(1)), Join("t0", 0), Join("t1", 1), Is("status", 2), Exits>>

\* Without the calls of malloc that come after, which are not for threads (umalloc.c).
thread_sbrk ==
  LET awaits(val) == <<C("await", "ptr", 1), C("await", "ptr", 0), Ends(val)>> IN
  <<Create("t0", <<Sets("ptr", 1), Sleeps(1), Sets("ptr", 0), Ends(0)>>), Create("t1", awaits(1)),
    Create("t2", awaits(2)), Join("t0", 0), Join("t1", 1), Join("t2", 2), Exits>>

thread_exec ==
  LET others == <<Sleeps(2), Never, Exits>> IN
  <<Create("t0", <<Sleeps(1), C("exec", <<Exits>>, 0), Never, Exits>>), Create("t1", others),
    Create("t2", others), Sleeps(2), Never, Exits>>

thread_exit ==
  LET others == <<Sleeps(2), Never, Exits>> IN
  <<Create("t0", <<Sleeps(1), Exits>>), Create("t1", others), Create("t2", others), Sleeps(2), Never, Exits>>

thread_kill ==
  LET thread1 == <<Sleeps(2), Never, Exits>>
      child == <<Create("t0", thread1), Create("t1", thread1), Sleeps(3), Never, Exits>>
  IN
  <<C("fork", child, 0), Create("t0", <<Sleeps(1), C("kill", "pid", 0), Ends(0)>>),
    Create("t1", <<Sleeps(1), Ends(0)>>), Join("t0", 0), Join("t1", 0), C("wait", FALSE, 0), Exits>>

threadtest ==
  <<Create("t0", <<Sleeps(5), Ends(0), Never>>), Create("t1", <<Ends(0)>>), Join("t0", 0), Join("t1", 0), Exits>>

sleeptest ==
  <<Create("t0", <<Sleeps(1), Ends(0), Never>>), Create("t1", <<Ends(0)>>), Join("t0", 0), Join("t1", 0), Exits>>

exectest ==
  LET procsleep == <<Sleeps(2), Exits>> IN
  <<Create("t0", <<C("fork", <<C("exec", procsleep, 0), Never>>, 0), C("wait", FALSE, 0), Ends(0)>>),
    Create("t1", <<Ends(0)>>), Join("t0", 0), Join("t1", 0), Exits>>

threadretval == <<Create("t0", <<Ends(3)>>), Join("t0", 3), Exits>>

Tests == <<thread_basic, thread_fork, thread_sbrk, thread_exec, thread_exit, thread_kill,
          threadtest, sleeptest, exectest, threadretval>>

Init == \E k \in DOMAIN Tests : Start(Tests[k])

Spec == Init /\ [][Next]_vars

-----------------------------------------------------------------------------
\* Every test passes in every order of the steps of its threads: what it checks holds, what
\* must not be executed is not, and in the end nothing of it is left.
ThreadTestsPass ==
  /\ failed = {}
  /\ (\A s \in Slot : ~Ready(s) /\ slot[s].state # "SLEEPING") => \A s \in Slot : slot[s] = Unused
=============================================================================
