----------------------------- MODULE ThreadMemory -----------------------------
(***************************************************************************)
(* The size of a process whose threads share one page table (project02):   *)
(* every thread has a copy of it, which growproc() keeps in step under     *)
(* ptable.lock, while sbrk() and thread_create() read it without the lock  *)
(* or after they have given it up.  Sizes are counted in pages.            *)
(***************************************************************************)
EXTENDS Integers, FiniteSets

CONSTANTS
  NTHREAD,   \* slots of ptable for the threads; slot 1 is the main thread
  KERNBASE,  \* pages that a process may have, and one more
  First,     \* pages of the program and of the stack of the main thread
  Creators,  \* the threads that call thread_create
  Grows,     \* what sbrk is called with
  Limits     \* what setmemorylimit is called with

ThreadMemoryAssumption ==
  /\ {NTHREAD, KERNBASE, First} \subseteq Nat \ {0} /\ First < KERNBASE
  /\ Creators \subseteq 1 .. NTHREAD
  /\ Grows \subseteq Int /\ Limits \subseteq Int

Thread == 1 .. NTHREAD
NONE == 0
main == 1
STACK == 2  \* pages that growproc adds for a thread

VARIABLES
  state,      \* of the slots
  parent,     \* who may join a thread; NONE: initproc
  threadnum,  \* threads of the process, as each thread knows it
  sz,         \* size of the process, as each thread knows it
  szlimit,    \* its memory limit; only that of the main thread is ever set
  mapped,     \* the pages of the page table
  pc, np,     \* where a thread is, and the slot it is filling in
  killed,     \* the threads that are killed
  panicked    \* what the kernel panicked with, or "no"

slots == <<state, parent, threadnum>>
vars  == <<slots, sz, szlimit, mapped, pc, np, killed, panicked>>

Init ==
  /\ state = [t \in Thread |-> IF t = main THEN "LIVE" ELSE "UNUSED"]
  /\ parent = [t \in Thread |-> NONE]
  /\ threadnum = [t \in Thread |-> 0]
  /\ sz = [t \in Thread |-> IF t = main THEN First ELSE 0]
  /\ szlimit = [t \in Thread |-> 0]
  /\ mapped = 0 .. First - 1
  /\ pc = [t \in Thread |-> "user"] /\ np = [t \in Thread |-> NONE]
  /\ killed = {}
  /\ panicked = "no"

At(t, there) == state[t] = "LIVE" /\ pc[t] = there /\ panicked = "no"
\* A killed thread ends, and the process with it, before it does anything more (trap).
User(t) == At(t, "user") /\ t \notin killed
Go(t, there) == pc' = [pc EXCEPT ![t] = there]

\* The slots with the pid of the process: an EMBRYO still has one of its own.
SamePid == {t \in Thread : state[t] \in {"LIVE", "ZOMBIE"}}

-----------------------------------------------------------------------------
(* growproc *)

\* Who gets the new size: the other threads only if the caller knows of any.
\* A mutant: the caller alone.
GrownAlone(t) == {t}

Grown(t) == IF threadnum[t] # 0 THEN SamePid ELSE {t}

\* A failure leaves ptable.lock held: the next acquire of this CPU panics.
Growproc(t, n) ==
  LET newsz == sz[t] + n
      added == sz[t] .. newsz - 1
      fails == (n > 0 /\ newsz >= KERNBASE) \/ (n < 0 /\ newsz = 0)
      shrinks == n < 0 /\ newsz >= 0
  IN
  /\ panicked' = CASE fails -> "acquire" [] ~fails /\ added \cap mapped # {} -> "remap"
                   [] OTHER -> "no"
  /\ mapped' = CASE n > 0 /\ ~fails -> mapped \cup added
                 [] shrinks -> mapped \ (newsz .. sz[t] - 1)
                 [] OTHER -> mapped
  \* Below zero newsz wraps to more than sz, and deallocuvm leaves all as it is.
  /\ sz' = [u \in Thread |->
       IF fails \/ u \notin Grown(t) THEN sz[u] ELSE IF newsz < 0 THEN sz[t] ELSE newsz]

\* sys_sbrk has read the size it will return before growproc takes the lock.
Sbrk(t, n) ==
  /\ User(t)
  /\ Growproc(t, n)
  /\ UNCHANGED <<slots, szlimit, pc, np, killed>>

-----------------------------------------------------------------------------
(* thread_create: check, allocproc, growproc, and the rest under ptable.lock *)

Refused(t) == sz[t] + STACK < szlimit[t] /\ szlimit[t] # 0
Unused == {q \in Thread : state[q] = "UNUSED"}

\* Refused, the caller goes on without its threads, which killProc kills while it holds
\* ptable.lock; with no slot left, nothing happens.
CreateFails(t) ==
  /\ User(t) /\ t \in Creators /\ Refused(t)
  /\ killed' = killed \cup {q \in Thread : parent[q] = t}
  /\ UNCHANGED <<slots, sz, szlimit, mapped, pc, np, panicked>>

CreateBegins(t) ==
  LET q == CHOOSE q \in Unused : \A r \in Unused : q <= r IN
  /\ User(t) /\ t \in Creators /\ ~Refused(t) /\ Unused # {}
  /\ state' = [state EXCEPT ![q] = "EMBRYO"]
  /\ np' = [np EXCEPT ![t] = q]
  /\ Go(t, "growproc")
  /\ UNCHANGED <<parent, threadnum, sz, szlimit, mapped, killed, panicked>>

CreateGrows(t) ==
  /\ At(t, "growproc")
  /\ Growproc(t, STACK)
  /\ Go(t, "publish")
  /\ UNCHANGED <<slots, szlimit, np, killed>>

\* A mutant: the thread keeps the size its slot had.
CreateStale(t) ==
  LET q == np[t] IN
  /\ At(t, "publish")
  /\ state' = [state EXCEPT ![q] = "LIVE"]
  /\ parent' = [parent EXCEPT ![q] = t]
  /\ threadnum' = [threadnum EXCEPT ![t] = @ + 1, ![q] = threadnum[t] + 1]
  /\ np' = [np EXCEPT ![t] = NONE]
  /\ panicked' = IF sz[t] - 1 \in mapped THEN "no" ELSE "acquire"
  /\ Go(t, "user")
  /\ UNCHANGED <<sz, szlimit, mapped, killed>>

\* The stack of the new thread ends where the process ends now.  If that page is not
\* there, copyout fails and ptable.lock stays held.
CreateEnds(t) ==
  LET q == np[t] IN
  /\ At(t, "publish")
  /\ state' = [state EXCEPT ![q] = "LIVE"]
  /\ parent' = [parent EXCEPT ![q] = t]
  /\ threadnum' = [threadnum EXCEPT ![t] = @ + 1, ![q] = threadnum[t] + 1]
  /\ sz' = [sz EXCEPT ![q] = sz[t]]
  /\ np' = [np EXCEPT ![t] = NONE]
  /\ panicked' = IF sz[t] - 1 \in mapped THEN "no" ELSE "acquire"
  /\ Go(t, "user")
  /\ UNCHANGED <<szlimit, mapped, killed>>

-----------------------------------------------------------------------------
(* thread_exit, thread_join, fork, setmemorylimit *)

ThreadExit(t) ==
  /\ User(t) /\ t # main
  /\ state' = [state EXCEPT ![t] = "ZOMBIE"]
  /\ parent' = [q \in Thread |-> IF parent[q] = t THEN NONE ELSE parent[q]]
  /\ UNCHANGED <<threadnum, sz, szlimit, mapped, pc, np, killed, panicked>>

\* A mutant: the caller forgets its other threads.
JoinForgets(t, q) ==
  /\ User(t) /\ state[q] = "ZOMBIE" /\ parent[q] = t
  /\ state' = [state EXCEPT ![q] = "UNUSED"]
  /\ parent' = [parent EXCEPT ![q] = NONE]
  /\ threadnum' = [threadnum EXCEPT ![t] = 0, ![q] = 0]
  /\ sz' = [sz EXCEPT ![q] = 0]
  /\ killed' = killed \ {q}
  /\ UNCHANGED <<szlimit, mapped, pc, np, panicked>>

ThreadJoin(t, q) ==
  /\ User(t) /\ state[q] = "ZOMBIE" /\ parent[q] = t
  /\ state' = [state EXCEPT ![q] = "UNUSED"]
  /\ parent' = [parent EXCEPT ![q] = NONE]
  /\ threadnum' = [threadnum EXCEPT ![t] = @ - 1, ![q] = 0]
  /\ sz' = [sz EXCEPT ![q] = 0]
  /\ killed' = killed \ {q}
  /\ UNCHANGED <<szlimit, mapped, pc, np, panicked>>

\* fork copies the pages below the caller's size, and panics when one is not there.
Fork(t) ==
  /\ User(t)
  /\ panicked' = IF 0 .. sz[t] - 1 \subseteq mapped THEN "no" ELSE "absent"
  /\ UNCHANGED <<slots, sz, szlimit, mapped, pc, np, killed>>

\* By another process, pmanager.
SetMemoryLimit(limit) ==
  /\ panicked = "no"
  /\ limit = 0 \/ (limit > 0 /\ sz[main] <= limit)
  /\ szlimit' = [szlimit EXCEPT ![main] = limit]
  /\ UNCHANGED <<slots, sz, mapped, pc, np, killed, panicked>>

Next ==
  \/ \E t \in Thread :
       \/ CreateFails(t) \/ CreateBegins(t) \/ CreateGrows(t) \/ CreateEnds(t)
       \/ ThreadExit(t) \/ Fork(t)
       \/ \E n \in Grows : Sbrk(t, n)
       \/ \E q \in Thread : ThreadJoin(t, q)
  \/ \E limit \in Limits : SetMemoryLimit(limit)

Spec == Init /\ [][Next]_vars

-----------------------------------------------------------------------------
\* Threads share the size of their process, and it is that of the page table they share,
\* whoever grows or shrinks it, creates or joins a thread meanwhile: no thread maps a
\* page twice, and none forks a page that is gone (README.md:143-145 of project02).  So
\* far as only the main thread creates threads: one that another thread made is
\* unknown to the main thread, which then grows alone.
SizeShared ==
  /\ panicked \notin {"remap", "absent"}
  /\ panicked = "no" =>
       /\ \A t \in SamePid : sz[t] = sz[main]
       /\ mapped = 0 .. sz[main] - 1
=============================================================================
