---------------------------- MODULE ReadyQueues -----------------------------
(***************************************************************************)
(* What the run queues of the MLFQ scheduler promise (project01,           *)
(* README.md:11 and 30-40): three sequences of processes, of which L0 and  *)
(* L1 are first come first served and L2 is served by priority, first come *)
(* first served within a priority; a boost moves everybody to L0, keeping  *)
(* the order within a level and putting lower levels behind higher ones.   *)
(***************************************************************************)
EXTENDS SequencesExt, FiniteSets, Naturals

CONSTANTS Proc, TopPriority

VARIABLES queue,   \* Level -> sequence of processes waiting for the CPU
          prio     \* the priority of each process, 0 the best

vars == <<queue, prio>>

Queued == UNION {ToSet(queue[l]) : l \in 0 .. 2}

Init == queue \in [0 .. 2 -> {<<>>} \cup {<<p>> : p \in Proc}]

\* The place of p: the end of L0 or L1; in L2 behind everybody whose number is
\* not above p's.
Placed(s, l, p, pr) ==
  IF l < 2 THEN Append(s, p)
  ELSE InsertAt(s, Cardinality({i \in 1 .. Len(s) : pr[s[i]] <= pr[p]}) + 1, p)

\* Priorities of queued processes only change by a boost.
PrioritiesKept == \A p \in Queued : prio'[p] = prio[p]

Put(p) ==
  /\ \E l \in 0 .. 2 : queue' = [queue EXCEPT ![l] = Placed(@, l, p, prio')]
  /\ PrioritiesKept

\* An exit may make its parent and init ready in one critical section.
PutTwo(p, r) ==
  /\ \E l, k \in 0 .. 2 :
       LET first == [queue EXCEPT ![l] = Placed(@, l, p, prio')]
       IN  queue' = [first EXCEPT ![k] = Placed(@, k, r, prio')]
  /\ PrioritiesKept

Take(l) ==
  /\ queue[l] # <<>>
  /\ queue' = [queue EXCEPT ![l] = Tail(@)]
  /\ PrioritiesKept

Boost ==
  /\ queue' = [l \in 0 .. 2 |-> IF l = 0 THEN queue[0] \o queue[1] \o queue[2] ELSE <<>>]
  /\ \A p \in Queued : prio'[p] = TopPriority

Others == queue' = queue /\ PrioritiesKept

Next ==
  \/ Others
  \/ \E l \in 0 .. 2 : Take(l)
  \/ Boost
  \/ \E p \in Proc \ Queued : Put(p) \/ \E r \in Proc \ (Queued \cup {p}) : PutTwo(p, r)

Spec == Init /\ [][Next]_vars
=============================================================================
