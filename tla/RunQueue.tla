------------------------------ MODULE RunQueue ------------------------------
(***************************************************************************)
(* The three run queues of the MLFQ scheduler (project01, proc.c): singly  *)
(* linked lists threaded through struct proc.  `queues[l]` is the pair     *)
(* rq.head[l], rq.tail[l]; `p->qnext` is rq.next[p]; the null pointer is   *)
(* NULL.  Each operator returns the lists its C function leaves behind.    *)
(* Every function here runs with ptable.lock held.                         *)
(***************************************************************************)
EXTENDS Naturals

CONSTANT NPROC            \* size of the process table
ASSUME NPROCAssumption == NPROC \in Nat \ {0}

Proc  == 1 .. NPROC       \* slots of ptable.proc
NULL  == 0                \* the null pointer
Level == 0 .. 2           \* L0, L1, L2

Lists == [head : [Level -> Proc \cup {NULL}],
          tail : [Level -> Proc \cup {NULL}],
          next : [Proc -> Proc \cup {NULL}]]

\* The zeroed bss the kernel boots with.
EmptyQueues == [head |-> [l \in Level |-> NULL],
                tail |-> [l \in Level |-> NULL],
                next |-> [p \in Proc |-> NULL]]

\* What `while (cur) { ...; cur = cur->qnext }` steps over, starting at `first`
\* and stopping at the first element outside `Over`: the least set that holds
\* what the loop starts with and is closed under its step.
Walk(next, first, Over) ==
  {q \in Proc : \A S \in SUBSET Proc :
      (/\ first \in Over => first \in S
       /\ \A b \in S : next[b] \in Over => next[b] \in S) => q \in S}

OnQueue(rq, l) == Walk(rq.next, rq.head[l], Proc)

-----------------------------------------------------------------------------
PushFront(rq, p, l) ==
  [head |-> [rq.head EXCEPT ![l] = p],
   tail |-> IF rq.head[l] = NULL THEN [rq.tail EXCEPT ![l] = p] ELSE rq.tail,
   next |-> [rq.next EXCEPT ![p] = rq.head[l]]]

PushBack(rq, p, l) ==
  IF rq.tail[l] = NULL
  THEN [head |-> [rq.head EXCEPT ![l] = p],
        tail |-> [rq.tail EXCEPT ![l] = p],
        next |-> [rq.next EXCEPT ![p] = NULL]]
  ELSE [head |-> rq.head,
        tail |-> [rq.tail EXCEPT ![l] = p],
        next |-> [rq.next EXCEPT ![p] = NULL, ![rq.tail[l]] = p]]

InsertAfter(rq, prev, p) ==
  [head |-> rq.head,
   tail |-> IF rq.next[prev] = NULL THEN [rq.tail EXCEPT ![2] = p] ELSE rq.tail,
   next |-> [rq.next EXCEPT ![p] = rq.next[prev], ![prev] = p]]

\* Insertion into L2 behind the elements of Over it starts with.  `passed` is what
\* the loop walks over and `last` the final element of it (the C variable prev).
\* (On a circular list the C loop may spin forever; here nothing is inserted.)
InsertPast(rq, p, Over) ==
  LET passed == Walk(rq.next, rq.head[2], Over)
      last   == {a \in passed : rq.next[a] \notin passed}
  IN  IF rq.tail[2] = NULL THEN PushBack(rq, p, 2)
      ELSE IF passed = {} THEN PushFront(rq, p, 2)
      ELSE IF last = {} THEN rq
      ELSE InsertAfter(rq, CHOOSE a \in last : TRUE, p)

\* A mutant: a process goes before those that have its own priority.
Enqueue2BeforeEqual(rq, p, prio) ==
  InsertPast(rq, p, {q \in Proc : prio[q] < prio[p]})

\* Behind every element whose priority is not above p's (a higher number is a
\* lower priority).
Enqueue2(rq, p, prio) == InsertPast(rq, p, {q \in Proc : prio[q] <= prio[p]})

\* Enqueue: the holder of the scheduler lock goes to the front whatever the
\* level (its caller clears schedLock), L2 is kept by priority, L0 and L1 FIFO.
\* EnqueueAlwaysBack is a mutant without the test for L2.
EnqueueAlwaysBack(rq, p, l, lockHeld, prio) ==
  IF lockHeld THEN PushFront(rq, p, l) ELSE PushBack(rq, p, l)

Enqueue(rq, p, l, lockHeld, prio) ==
  IF lockHeld THEN PushFront(rq, p, l)
  ELSE IF l = 2 THEN Enqueue2(rq, p, prio)
  ELSE PushBack(rq, p, l)

\* Dequeue of a non-empty queue; the element returned is rq.head[l].
\* A mutant: the tail of a queue that becomes empty keeps its old value.
DequeueKeepTail(rq, l) ==
  LET p == rq.head[l]
  IN  [head |-> [rq.head EXCEPT ![l] = rq.next[p]],
       tail |-> rq.tail,
       next |-> [rq.next EXCEPT ![p] = NULL]]

Dequeue(rq, l) ==
  LET p == rq.head[l]
  IN  [head |-> [rq.head EXCEPT ![l] = rq.next[p]],
       tail |-> IF rq.next[p] = NULL THEN [rq.tail EXCEPT ![l] = NULL] ELSE rq.tail,
       next |-> [rq.next EXCEPT ![p] = NULL]]

\* priorityBoosting appends the queue `from` to the queue `to`, L2 to L1 and
\* then L1 to L0.
Splice(rq, from, to) ==
  IF rq.tail[from] = NULL THEN rq
  ELSE [head |-> [rq.head EXCEPT ![to] = IF rq.tail[to] = NULL THEN rq.head[from] ELSE @,
                                 ![from] = NULL],
        tail |-> [rq.tail EXCEPT ![to] = rq.tail[from], ![from] = NULL],
        next |-> IF rq.tail[to] = NULL THEN rq.next
                 ELSE [rq.next EXCEPT ![rq.tail[to]] = rq.head[from]]]

\* A mutant: L1 is moved before L2 is, so L2 ends in L1.
JoinSwapped(rq) == Splice(Splice(rq, 1, 0), 2, 1)

JoinQueues(rq) == Splice(Splice(rq, 2, 1), 1, 0)

\* cutRelation: `struct queue q = queues[...]` copies the queue, so the store
\* to q.tail is lost.  With prev = NULL the store through it lands at a low
\* user address and only p's own link changes.
CutRelation(rq, prev, p, l) ==
  LET link == IF rq.tail[l] = p THEN NULL ELSE rq.next[p]
      cut  == IF prev = NULL THEN rq.next ELSE [rq.next EXCEPT ![prev] = link]
  IN  [rq EXCEPT !.next = IF rq.tail[l] = p THEN cut ELSE [cut EXCEPT ![p] = NULL]]

\* setPriority of a RUNNABLE process of L2: move it to its new place.
Reposition(rq, p, lockHeld, prio) ==
  IF rq.head[2] = p
  THEN Enqueue(Dequeue(rq, 2), p, 2, lockHeld, prio)
  ELSE LET before == {a \in OnQueue(rq, 2) : rq.next[a] = p}
           prev   == IF before = {} THEN NULL ELSE CHOOSE a \in before : TRUE
       IN  Enqueue(CutRelation(rq, prev, p, 2), p, 2, lockHeld, prio)

-----------------------------------------------------------------------------
\* The shape of a list with head h, tail t and links n whose elements are Q:
\* each element but the tail links to another element, no two to the same one,
\* none to the head, and no part of Q is cut off from the rest.
ListOK(h, t, n, Q) ==
  /\ (Q = {} /\ h = NULL /\ t = NULL) \/ (h \in Q /\ t \in Q)
  /\ \A a \in Q : n[a] = NULL <=> a = t
  /\ \A a \in Q : n[a] # NULL => n[a] \in Q /\ n[a] # h
  /\ \A a, b \in Q : n[a] = n[b] /\ n[a] # NULL => a = b
  /\ \A S \in SUBSET Q : S # {} => h \in S \/ \E a \in Q \ S : n[a] \in S

QueueOK(rq, l, Q) == ListOK(rq.head[l], rq.tail[l], rq.next, Q)
=============================================================================
