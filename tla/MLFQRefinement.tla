--------------------------- MODULE MLFQRefinement ---------------------------
(***************************************************************************)
(* The linked lists of MLFQ, read from head to tail, behave as the         *)
(* sequences of ReadyQueues.                                               *)
(***************************************************************************)
EXTENDS MLFQ, Sequences

\* The elements of queues[l] in the order in which Dequeue returns them (at most
\* NPROC of them, so that a circular list has a value too).
Listed(lists, l) ==
  LET after[n \in 0 .. NPROC] ==
        IF n = 0 THEN <<>>
        ELSE LET s == after[n - 1]
                 q == IF s = <<>> THEN lists.head[l] ELSE lists.next[s[Len(s)]]
             IN  IF q = NULL THEN s ELSE Append(s, q)
  IN  after[NPROC]

AsSequences == [l \in Level |-> Listed(rq, l)]

Abstract == INSTANCE ReadyQueues WITH queue <- AsSequences, prio <- priority

\* Every step of the scheduler is a step of the sequences or leaves them alone.
KeepsQueueOrder == Abstract!Spec
=============================================================================
