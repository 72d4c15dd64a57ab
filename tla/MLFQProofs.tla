----------------------------- MODULE MLFQProofs -----------------------------
(***************************************************************************)
(* The run queues of MLFQ are lists of RUNNABLE processes, each once and   *)
(* on its level, for every size of the process table, any number of CPUs   *)
(* and any quanta; and they hold all of them, while no kill() cuts one off *)
(* and setPriority is called as the tests call it.  Read from head to tail *)
(* they implement the sequences of ReadyQueues.                            *)
(***************************************************************************)
EXTENDS MLFQRefinement, SequenceTheorems, FiniteSetTheorems, TLAPS

-----------------------------------------------------------------------------
(* The operations of RunQueue keep the shape of the lists: one list, given  *)
(* by its head, tail and links, then the three queues.                      *)

Links == [Proc -> Proc \cup {NULL}]

\* The null pointer is not a slot of the table.
LEMMA NullNotProc == NULL \notin Proc
BY DEF NULL, Proc

\* A list is untouched by changes to links outside it.
LEMMA Frame ==
  ASSUME NEW n \in Links, NEW m \in Links, NEW Q \in SUBSET Proc,
         NEW h, NEW t, ListOK(h, t, n, Q), \A a \in Q : m[a] = n[a]
  PROVE  ListOK(h, t, m, Q)
<1>1. \A S \in SUBSET Q : S # {} => h \in S \/ \E a \in Q \ S : m[a] \in S
  BY DEF ListOK
<1> QED BY <1>1 DEF ListOK

\* Putting p behind the tail (PushBack).
LEMMA BackOK ==
  ASSUME NEW n \in Links, NEW m \in Links, NEW Q \in SUBSET Proc,
         NEW h, NEW t, ListOK(h, t, n, Q), NEW p \in Proc \ Q, Q # {},
         m[p] = NULL, m[t] = p, \A a \in Q \ {t} : m[a] = n[a]
  PROVE  ListOK(h, p, m, Q \cup {p})
<1> USE NullNotProc
<1>1. h \in Q /\ t \in Q BY DEF ListOK
<1>2. \A a \in Q \cup {p} : m[a] = NULL <=> a = p BY <1>1 DEF ListOK
<1>3. \A a \in Q \cup {p} : m[a] # NULL => m[a] \in Q \cup {p} /\ m[a] # h
  BY <1>1 DEF ListOK
<1>4. \A a, b \in Q \cup {p} : m[a] = m[b] /\ m[a] # NULL => a = b
  BY <1>1 DEF ListOK
<1>5. ASSUME NEW S \in SUBSET (Q \cup {p}), S # {}
      PROVE  h \in S \/ \E a \in (Q \cup {p}) \ S : m[a] \in S
  <2>1. CASE S = {p} BY <2>1, <1>1
  <2>2. CASE S # {p}
    <3>1. S \cap Q # {} /\ S \cap Q \in SUBSET Q BY <2>2, <1>5
    <3>2. h \in S \cap Q \/ \E a \in Q \ (S \cap Q) : n[a] \in S \cap Q
      BY <3>1 DEF ListOK
    <3>3. ASSUME NEW a \in Q \ (S \cap Q), n[a] \in S \cap Q
          PROVE  a \in (Q \cup {p}) \ S /\ m[a] \in S
      <4>1. a # t BY <3>3, <1>1 DEF ListOK
      <4> QED BY <4>1, <3>3
    <3> QED BY <3>2, <3>3
  <2> QED BY <2>1, <2>2
<1> QED BY <1>1, <1>2, <1>3, <1>4, <1>5 DEF ListOK

\* A list of one element.
LEMMA SingleOK ==
  ASSUME NEW m \in Links, NEW p \in Proc, m[p] = NULL
  PROVE  ListOK(p, p, m, {p})
BY DEF ListOK

\* Putting p before the head (PushFront).
LEMMA FrontOK ==
  ASSUME NEW n \in Links, NEW m \in Links, NEW Q \in SUBSET Proc,
         NEW h, NEW t, ListOK(h, t, n, Q), NEW p \in Proc \ Q, Q # {},
         m[p] = h, \A a \in Q : m[a] = n[a]
  PROVE  ListOK(p, t, m, Q \cup {p})
<1> USE NullNotProc
<1>1. h \in Q /\ t \in Q BY DEF ListOK
<1>2. \A a \in Q \cup {p} : m[a] = NULL <=> a = t BY <1>1 DEF ListOK
<1>3. \A a \in Q \cup {p} : m[a] # NULL => m[a] \in Q \cup {p} /\ m[a] # p
  BY <1>1 DEF ListOK
<1>4. \A a, b \in Q \cup {p} : m[a] = m[b] /\ m[a] # NULL => a = b
  BY <1>1 DEF ListOK
<1>5. ASSUME NEW S \in SUBSET (Q \cup {p}), S # {}, p \notin S
      PROVE  \E a \in (Q \cup {p}) \ S : m[a] \in S
  <2>1. S \in SUBSET Q BY <1>5
  <2>2. h \in S \/ \E a \in Q \ S : n[a] \in S BY <2>1, <1>5 DEF ListOK
  <2> QED BY <2>2, <1>5
<1> QED BY <1>1, <1>2, <1>3, <1>4, <1>5 DEF ListOK

\* Putting p behind an element of the list (InsertAfter).
LEMMA AfterOK ==
  ASSUME NEW n \in Links, NEW m \in Links, NEW Q \in SUBSET Proc,
         NEW h, NEW t, ListOK(h, t, n, Q), NEW p \in Proc \ Q, NEW v \in Q,
         m[p] = n[v], m[v] = p, \A a \in Q \ {v} : m[a] = n[a],
         NEW u, u = IF n[v] = NULL THEN p ELSE t
  PROVE  ListOK(h, u, m, Q \cup {p})
<1> USE NullNotProc
<1>1. h \in Q /\ t \in Q BY DEF ListOK
<1>2. \A a \in Q \cup {p} : m[a] = NULL <=> a = u BY <1>1 DEF ListOK
<1>3. \A a \in Q \cup {p} : m[a] # NULL => m[a] \in Q \cup {p} /\ m[a] # h
  BY <1>1 DEF ListOK
<1>4. \A a, b \in Q \cup {p} : m[a] = m[b] /\ m[a] # NULL => a = b
  BY <1>1 DEF ListOK
<1>5. ASSUME NEW S \in SUBSET (Q \cup {p}), S # {}
      PROVE  h \in S \/ \E a \in (Q \cup {p}) \ S : m[a] \in S
  <2>1. CASE S = {p} BY <2>1
  <2>2. CASE S # {p}
    <3>1. S \cap Q # {} /\ S \cap Q \in SUBSET Q BY <2>2, <1>5
    <3>2. h \in S \cap Q \/ \E a \in Q \ (S \cap Q) : n[a] \in S \cap Q
      BY <3>1 DEF ListOK
    <3>3. ASSUME NEW a \in Q \ (S \cap Q), n[a] \in S \cap Q
          PROVE  \E b \in (Q \cup {p}) \ S : m[b] \in S
      <4>1. CASE a # v BY <4>1, <3>3
      <4>2. CASE a = v BY <4>2, <3>3
      <4> QED BY <4>1, <4>2
    <3> QED BY <3>2, <3>3
  <2> QED BY <2>1, <2>2
<1> QED BY <1>1, <1>2, <1>3, <1>4, <1>5 DEF ListOK

\* Taking the head off (Dequeue).
LEMMA RemoveOK ==
  ASSUME NEW n \in Links, NEW m \in Links, NEW Q \in SUBSET Proc,
         NEW h \in Q, NEW t, ListOK(h, t, n, Q),
         \A a \in Q \ {h} : m[a] = n[a]
  PROVE  ListOK(n[h], IF n[h] = NULL THEN NULL ELSE t, m, Q \ {h})
<1> USE NullNotProc
<1>1. t \in Q BY DEF ListOK
<1>2. CASE n[h] = NULL
  <2>1. h = t BY <1>2 DEF ListOK
  <2>2. Q = {h}
    <3>1. SUFFICES ASSUME Q \ {h} # {} PROVE FALSE OBVIOUS
    <3>2. h \in Q \ {h} \/ \E a \in Q \ (Q \ {h}) : n[a] \in Q \ {h}
      BY <3>1 DEF ListOK
    <3> QED BY <3>2, <1>2
  <2> QED BY <2>2, <1>2 DEF ListOK
<1>3. CASE n[h] # NULL
  <2>1. n[h] \in Q \ {h} /\ t \in Q \ {h} BY <1>3, <1>1 DEF ListOK
  <2>2. \A a \in Q \ {h} : m[a] = NULL <=> a = t BY DEF ListOK
  <2>3. \A a \in Q \ {h} : m[a] # NULL => m[a] \in Q \ {h} /\ m[a] # n[h]
    BY DEF ListOK
  <2>4. \A a, b \in Q \ {h} : m[a] = m[b] /\ m[a] # NULL => a = b BY DEF ListOK
  <2>5. ASSUME NEW S \in SUBSET (Q \ {h}), S # {}
        PROVE  n[h] \in S \/ \E a \in (Q \ {h}) \ S : m[a] \in S
    <3>1. h \in S \/ \E a \in Q \ S : n[a] \in S BY <2>5 DEF ListOK
    <3> QED BY <3>1, <2>5
  <2> QED BY <1>3, <2>1, <2>2, <2>3, <2>4, <2>5 DEF ListOK
<1> QED BY <1>2, <1>3

\* Taking an inner element q off, v being the one before it (cutRelation).
LEMMA CutOK ==
  ASSUME NEW n \in Links, NEW m \in Links, NEW Q \in SUBSET Proc,
         NEW h, NEW t, ListOK(h, t, n, Q), NEW q \in Q \ {h, t}, NEW v \in Q,
         n[v] = q, m[v] = n[q], \A a \in Q \ {v, q} : m[a] = n[a]
  PROVE  ListOK(h, t, m, Q \ {q})
<1> USE NullNotProc
<1>1. /\ h \in Q \ {q} /\ t \in Q \ {q}
      /\ n[q] \in Q /\ n[q] # NULL /\ n[q] # q /\ v # q /\ v # t
  <2>1. n[q] # q
    <3>1. SUFFICES ASSUME n[q] = q PROVE FALSE OBVIOUS
    <3>2. v = q BY <3>1 DEF ListOK
    <3>3. \E a \in Q \ {q} : n[a] \in {q} BY DEF ListOK
    <3> QED BY <3>1, <3>2, <3>3 DEF ListOK
  <2> QED BY <2>1 DEF ListOK
<1>2. \A a \in Q \ {q} : m[a] = NULL <=> a = t BY <1>1 DEF ListOK
<1>3. \A a \in Q \ {q} : m[a] # NULL => m[a] \in Q \ {q} /\ m[a] # h
  BY <1>1 DEF ListOK
<1>4. \A a, b \in Q \ {q} : m[a] = m[b] /\ m[a] # NULL => a = b BY <1>1 DEF ListOK
<1>5. ASSUME NEW S \in SUBSET (Q \ {q}), S # {}
      PROVE  h \in S \/ \E a \in (Q \ {q}) \ S : m[a] \in S
  <2>1. CASE n[q] \in S
    <3>0. S \cup {q} \in SUBSET Q /\ S \cup {q} # {} BY <1>5
    <3>1. h \in S \cup {q} \/ \E a \in Q \ (S \cup {q}) : n[a] \in S \cup {q}
      BY <3>0 DEF ListOK
    <3>2. ASSUME NEW a \in Q \ (S \cup {q}), n[a] \in S \cup {q} PROVE m[a] \in S
      <4>1. CASE a = v BY <4>1, <2>1
      <4>2. CASE a # v
        <5>1. n[a] # q BY <4>2, <1>1 DEF ListOK
        <5> QED BY <5>1, <4>2, <3>2
      <4> QED BY <4>1, <4>2
    <3> QED BY <3>1, <3>2, <1>1
  <2>2. CASE n[q] \notin S
    <3>1. h \in S \/ \E a \in Q \ S : n[a] \in S BY <1>5 DEF ListOK
    <3> QED BY <3>1, <2>2, <1>5
  <2> QED BY <2>1, <2>2
<1> QED BY <1>1, <1>2, <1>3, <1>4, <1>5 DEF ListOK

\* Appending one list to another (Splice).
LEMMA ConcatOK ==
  ASSUME NEW n \in Links, NEW m \in Links,
         NEW Q \in SUBSET Proc, NEW R \in SUBSET Proc, Q \cap R = {},
         NEW h \in Q, NEW t, ListOK(h, t, n, Q),
         NEW g \in R, NEW u, ListOK(g, u, n, R),
         m[t] = g, \A a \in (Q \cup R) \ {t} : m[a] = n[a]
  PROVE  ListOK(h, u, m, Q \cup R)
<1> USE NullNotProc
<1>1. t \in Q /\ u \in R BY DEF ListOK
<1>2. \A a \in Q \cup R : m[a] = NULL <=> a = u BY <1>1 DEF ListOK
<1>3. \A a \in Q \cup R : m[a] # NULL => m[a] \in Q \cup R /\ m[a] # h
  BY <1>1 DEF ListOK
<1>4. \A a, b \in Q \cup R : m[a] = m[b] /\ m[a] # NULL => a = b
  BY <1>1 DEF ListOK
<1>5. ASSUME NEW S \in SUBSET (Q \cup R), S # {}
      PROVE  h \in S \/ \E a \in (Q \cup R) \ S : m[a] \in S
  <2>1. CASE S \cap Q # {}
    <3>1. h \in S \cap Q \/ \E a \in Q \ (S \cap Q) : n[a] \in S \cap Q
      BY <2>1 DEF ListOK
    <3>2. ASSUME NEW a \in Q \ (S \cap Q), n[a] \in S \cap Q
          PROVE  a \in (Q \cup R) \ S /\ m[a] \in S
      <4>1. a # t BY <3>2, <1>1 DEF ListOK
      <4> QED BY <4>1, <3>2
    <3> QED BY <3>1, <3>2
  <2>2. CASE S \cap Q = {}
    <3>1. S \in SUBSET R /\ S # {} BY <2>2, <1>5
    <3>2. g \in S \/ \E a \in R \ S : n[a] \in S BY <3>1 DEF ListOK
    <3>3. t \in (Q \cup R) \ S BY <2>2, <1>1
    <3> QED BY <3>2, <3>3, <1>1
  <2> QED BY <2>1, <2>2
<1> QED BY <1>1, <1>2, <1>3, <1>4, <1>5 DEF ListOK

-----------------------------------------------------------------------------
(* The three queues at once: Q[l] are the elements of queue l. *)

Disjoint(Q) == \A k, l \in Level : k # l => Q[k] \cap Q[l] = {}

QueuesOK(lists, Q) ==
  /\ lists \in Lists
  /\ Q \in [Level -> SUBSET Proc]
  /\ Disjoint(Q)
  /\ \A l \in Level : QueueOK(lists, l, Q[l])

With(Q, l, p) == [Q EXCEPT ![l] = @ \cup {p}]

Outside(Q, p) == \A l \in Level : p \notin Q[l]

\* What an insertion of p into queue l must deliver, whatever its place.
LEMMA Inserted ==
  ASSUME NEW lists, NEW Q, QueuesOK(lists, Q), NEW l \in Level, NEW p \in Proc,
         Outside(Q, p), NEW new \in Lists,
         QueueOK(new, l, Q[l] \cup {p}),
         \A k \in Level \ {l} : new.head[k] = lists.head[k] /\ new.tail[k] = lists.tail[k],
         \A a \in Proc \ (Q[l] \cup {p}) : new.next[a] = lists.next[a]
  PROVE  QueuesOK(new, With(Q, l, p))
<1> DEFINE W == With(Q, l, p)
<1>1. W \in [Level -> SUBSET Proc] BY DEF QueuesOK, With
<1>2. Disjoint(W) BY DEF QueuesOK, With, Disjoint, Outside
<1>3. ASSUME NEW k \in Level PROVE QueueOK(new, k, W[k])
  <2>1. CASE k = l BY <2>1 DEF With, QueuesOK
  <2>2. CASE k # l
    <3>1. W[k] = Q[k] /\ QueueOK(lists, k, Q[k]) BY <2>2 DEF With, QueuesOK
    <3>2. Q[k] \in SUBSET Proc BY DEF QueuesOK
    <3>3. Q[k] \cap (Q[l] \cup {p}) = {} BY <2>2 DEF QueuesOK, Disjoint, Outside
    <3>4. \A a \in Q[k] : new.next[a] = lists.next[a] BY <3>2, <3>3
    <3>5. new.next \in Links /\ lists.next \in Links BY DEF QueuesOK, Lists, Links
    <3>6. ListOK(lists.head[k], lists.tail[k], new.next, Q[k])
      BY <3>1, <3>2, <3>4, <3>5, Frame DEF QueueOK
    <3>7. new.head[k] = lists.head[k] /\ new.tail[k] = lists.tail[k] BY <2>2
    <3> QED BY <3>1, <3>6, <3>7 DEF QueueOK
  <2> QED BY <2>1, <2>2
<1> QED BY <1>1, <1>2, <1>3 DEF QueuesOK

LEMMA PushBackOK ==
  ASSUME NEW lists, NEW Q, QueuesOK(lists, Q), NEW l \in Level, NEW p \in Proc,
         Outside(Q, p)
  PROVE  QueuesOK(PushBack(lists, p, l), With(Q, l, p))
<1> USE NullNotProc
<1> DEFINE new == PushBack(lists, p, l)
<1>1. /\ lists \in Lists /\ Q[l] \in SUBSET Proc /\ p \in Proc \ Q[l]
      /\ ListOK(lists.head[l], lists.tail[l], lists.next, Q[l])
  BY DEF QueuesOK, Outside, QueueOK
<1>2. CASE lists.tail[l] = NULL
  <2>1. new = [head |-> [lists.head EXCEPT ![l] = p],
               tail |-> [lists.tail EXCEPT ![l] = p],
               next |-> [lists.next EXCEPT ![p] = NULL]]
    BY <1>2 DEF PushBack
  <2>2. new \in Lists BY <2>1, <1>1 DEF Lists
  <2>3. Q[l] = {} BY <1>1, <1>2 DEF ListOK
  <2>4. new.head[l] = p /\ new.tail[l] = p /\ new.next[p] = NULL /\ new.next \in Links
    BY <2>1, <1>1 DEF Lists, Links
  <2>5. QueueOK(new, l, Q[l] \cup {p}) BY <2>3, <2>4, SingleOK DEF QueueOK
  <2>6. /\ \A k \in Level \ {l} : new.head[k] = lists.head[k] /\ new.tail[k] = lists.tail[k]
        /\ \A a \in Proc \ (Q[l] \cup {p}) : new.next[a] = lists.next[a]
    BY <2>1, <1>1 DEF Lists
  <2> QED BY <2>2, <2>5, <2>6, Inserted
<1>3. CASE lists.tail[l] # NULL
  <2> DEFINE t == lists.tail[l]
  <2>1. new = [head |-> lists.head,
               tail |-> [lists.tail EXCEPT ![l] = p],
               next |-> [lists.next EXCEPT ![p] = NULL, ![t] = p]]
    BY <1>3 DEF PushBack
  <2>2. t \in Q[l] /\ t # p BY <1>1, <1>3 DEF ListOK
  <2>3. new \in Lists
    <3>1. [lists.tail EXCEPT ![l] = p] \in [Level -> Proc \cup {NULL}] BY <1>1 DEF Lists
    <3>2. [lists.next EXCEPT ![p] = NULL, ![t] = p] \in [Proc -> Proc \cup {NULL}]
      BY <1>1 DEF Lists
    <3> QED BY <3>1, <3>2, <2>1, <1>1 DEF Lists
  <2>4. /\ new.head[l] = lists.head[l] /\ new.tail[l] = p
        /\ new.next[p] = NULL /\ new.next[t] = p
        /\ \A a \in Proc \ {p, t} : new.next[a] = lists.next[a]
    BY <2>1, <2>2, <1>1 DEF Lists
  <2>5. new.next \in Links /\ lists.next \in Links BY <2>3, <1>1 DEF Lists, Links
  <2>6. ListOK(lists.head[l], p, new.next, Q[l] \cup {p})
    <3>1. \A a \in Q[l] \ {t} : new.next[a] = lists.next[a] BY <2>4, <1>1
    <3> HIDE DEF new
    <3> QED BY <1>1, <2>2, <2>4, <2>5, <3>1, BackOK
  <2>7. QueueOK(new, l, Q[l] \cup {p}) BY <2>4, <2>6 DEF QueueOK
  <2>8. /\ \A k \in Level \ {l} : new.head[k] = lists.head[k] /\ new.tail[k] = lists.tail[k]
        /\ \A a \in Proc \ (Q[l] \cup {p}) : new.next[a] = lists.next[a]
    BY <2>1, <2>2, <2>4, <1>1 DEF Lists
  <2> QED BY <2>3, <2>7, <2>8, Inserted
<1> QED BY <1>2, <1>3

LEMMA PushFrontOK ==
  ASSUME NEW lists, NEW Q, QueuesOK(lists, Q), NEW l \in Level, NEW p \in Proc,
         Outside(Q, p)
  PROVE  QueuesOK(PushFront(lists, p, l), With(Q, l, p))
<1> USE NullNotProc
<1> DEFINE new == PushFront(lists, p, l)
           h == lists.head[l]
<1>1. /\ lists \in Lists /\ Q[l] \in SUBSET Proc /\ p \in Proc \ Q[l]
      /\ ListOK(h, lists.tail[l], lists.next, Q[l])
  BY DEF QueuesOK, Outside, QueueOK
<1>2. /\ new.head = [lists.head EXCEPT ![l] = p]
      /\ new.tail = IF h = NULL THEN [lists.tail EXCEPT ![l] = p] ELSE lists.tail
      /\ new.next = [lists.next EXCEPT ![p] = h]
  BY DEF PushFront
<1>3. new \in Lists
  <2>1. h \in Proc \cup {NULL} BY <1>1 DEF Lists
  <2>2. [lists.head EXCEPT ![l] = p] \in [Level -> Proc \cup {NULL}] BY <1>1 DEF Lists
  <2>3. [lists.tail EXCEPT ![l] = p] \in [Level -> Proc \cup {NULL}] BY <1>1 DEF Lists
  <2>4. [lists.next EXCEPT ![p] = h] \in [Proc -> Proc \cup {NULL}] BY <2>1, <1>1 DEF Lists
  <2> QED BY <2>2, <2>3, <2>4, <1>1 DEF PushFront, Lists
<1>4. new.next \in Links /\ lists.next \in Links BY <1>3, <1>1 DEF Lists, Links
<1>5. /\ new.next[p] = h /\ \A a \in Proc \ {p} : new.next[a] = lists.next[a]
      /\ new.head[l] = p
      /\ \A k \in Level \ {l} : new.head[k] = lists.head[k] /\ new.tail[k] = lists.tail[k]
      /\ new.tail[l] = IF h = NULL THEN p ELSE lists.tail[l]
  BY <1>1, <1>2 DEF Lists
<1> HIDE DEF new
<1>6. QueueOK(new, l, Q[l] \cup {p})
  <2>1. CASE h = NULL
    <3>1. Q[l] = {} BY <2>1, <1>1 DEF ListOK
    <3> QED BY <3>1, <2>1, <1>4, <1>5, SingleOK DEF QueueOK
  <2>2. CASE h # NULL
    <3>1. Q[l] # {} BY <2>2, <1>1 DEF ListOK
    <3>2. \A a \in Q[l] : new.next[a] = lists.next[a] BY <1>1, <1>5
    <3>3. ListOK(p, lists.tail[l], new.next, Q[l] \cup {p})
      BY <3>1, <3>2, <1>1, <1>4, <1>5, FrontOK
    <3> QED BY <3>3, <2>2, <1>5 DEF QueueOK
  <2> QED BY <2>1, <2>2
<1> QED BY <1>3, <1>5, <1>6, Inserted DEF new

LEMMA InsertAfterOK ==
  ASSUME NEW lists, NEW Q, QueuesOK(lists, Q), NEW p \in Proc,
         Outside(Q, p), NEW v \in Q[2]
  PROVE  QueuesOK(InsertAfter(lists, v, p), With(Q, 2, p))
<1> USE NullNotProc
<1> DEFINE new == InsertAfter(lists, v, p)
<1>1. /\ lists \in Lists /\ 2 \in Level /\ Q[2] \in SUBSET Proc /\ p \in Proc \ Q[2]
      /\ v \in Proc /\ v # p
      /\ ListOK(lists.head[2], lists.tail[2], lists.next, Q[2])
  BY DEF QueuesOK, Outside, QueueOK, Level
<1>2. /\ new.head = lists.head
      /\ new.tail = IF lists.next[v] = NULL THEN [lists.tail EXCEPT ![2] = p] ELSE lists.tail
      /\ new.next = [lists.next EXCEPT ![p] = lists.next[v], ![v] = p]
  BY DEF InsertAfter
<1>3. new \in Lists
  <2>1. lists.next[v] \in Proc \cup {NULL} BY <1>1 DEF Lists
  <2>2. [lists.tail EXCEPT ![2] = p] \in [Level -> Proc \cup {NULL}] BY <1>1 DEF Lists
  <2>3. [lists.next EXCEPT ![p] = lists.next[v], ![v] = p] \in [Proc -> Proc \cup {NULL}]
    BY <2>1, <1>1 DEF Lists
  <2> QED BY <2>2, <2>3, <1>1 DEF InsertAfter, Lists
<1>4. new.next \in Links /\ lists.next \in Links BY <1>3, <1>1 DEF Lists, Links
<1>5. /\ new.next[p] = lists.next[v] /\ new.next[v] = p
      /\ \A a \in Proc \ {p, v} : new.next[a] = lists.next[a]
      /\ new.head[2] = lists.head[2]
      /\ \A k \in Level \ {2} : new.head[k] = lists.head[k] /\ new.tail[k] = lists.tail[k]
      /\ new.tail[2] = IF lists.next[v] = NULL THEN p ELSE lists.tail[2]
  BY <1>1, <1>2 DEF Lists
<1> HIDE DEF new
<1>6. QueueOK(new, 2, Q[2] \cup {p})
  <2>1. \A a \in Q[2] \ {v} : new.next[a] = lists.next[a] BY <1>1, <1>5
  <2>2. ASSUME NEW h, NEW t, NEW u, NEW n \in Links, NEW m \in Links,
               ListOK(h, t, n, Q[2]), m[p] = n[v], m[v] = p,
               \A a \in Q[2] \ {v} : m[a] = n[a], u = IF n[v] = NULL THEN p ELSE t
        PROVE  ListOK(h, u, m, Q[2] \cup {p})
    BY <2>2, <1>1, AfterOK
  <2>3. ListOK(lists.head[2], new.tail[2], new.next, Q[2] \cup {p})
    BY <2>1, <2>2, <1>1, <1>4, <1>5
  <2> QED BY <2>3, <1>5 DEF QueueOK
<1>7. \A a \in Proc \ (Q[2] \cup {p}) : new.next[a] = lists.next[a] BY <1>5
<1> QED BY <1>1, <1>3, <1>5, <1>6, <1>7, Inserted DEF new

-----------------------------------------------------------------------------
(* Walking a list: the loop visits a closed set, and no more than any set    *)
(* that is closed under its step.                                            *)

LEMMA WalkClosed ==
  ASSUME NEW n, NEW first, NEW Over \in SUBSET Proc
  PROVE  /\ first \in Over => first \in Walk(n, first, Over)
         /\ \A b \in Walk(n, first, Over) : n[b] \in Over => n[b] \in Walk(n, first, Over)
BY DEF Walk

LEMMA WalkLeast ==
  ASSUME NEW n, NEW first, NEW Over, NEW S \in SUBSET Proc,
         first \in Over => first \in S,
         \A b \in S : n[b] \in Over => n[b] \in S
  PROVE  Walk(n, first, Over) \subseteq S
BY DEF Walk

\* A list holds exactly what the loop over it visits.
LEMMA WalkWhole ==
  ASSUME NEW n \in Links, NEW Q \in SUBSET Proc, NEW h, NEW t, ListOK(h, t, n, Q)
  PROVE  Walk(n, h, Proc) = Q
<1> USE NullNotProc
<1> DEFINE W == Walk(n, h, Proc)
<1>1. W \subseteq Q BY WalkLeast DEF ListOK
<1>2. SUFFICES ASSUME Q \ W # {} PROVE FALSE BY <1>1
<1>3. h \in Q \ W \/ \E a \in Q \ (Q \ W) : n[a] \in Q \ W BY <1>2 DEF ListOK
<1>4. h \notin Q \ W BY WalkClosed
<1>5. ASSUME NEW a \in W, n[a] \in Q \ W PROVE FALSE BY <1>5, WalkClosed
<1> QED BY <1>3, <1>4, <1>5

\* A loop over part of a list stays in it, and if it visits anything it leaves
\* from one of the elements visited.
LEMMA WalkPart ==
  ASSUME NEW n \in Links, NEW Q \in SUBSET Proc, NEW h, NEW t, ListOK(h, t, n, Q),
         NEW Over \in SUBSET Proc
  PROVE  /\ Walk(n, h, Over) \subseteq Q
         /\ Walk(n, h, Over) # {} =>
              \E a \in Walk(n, h, Over) : n[a] \notin Walk(n, h, Over)
<1> USE NullNotProc
<1> DEFINE W == Walk(n, h, Over)
<1>1. W \subseteq Q
  <2>1. h \in Over => h \in Q BY DEF ListOK
  <2>2. \A b \in Q : n[b] \in Over => n[b] \in Q BY DEF ListOK
  <2> QED BY <2>1, <2>2, WalkLeast
<1>2. ASSUME W # {}, \A a \in W : n[a] \in W PROVE FALSE
  <2> DEFINE S == Q \ W
  <2>1. t \in Q /\ n[t] = NULL BY <1>1, <1>2 DEF ListOK
  <2>2. NULL \notin W BY <1>1
  <2>3. t \in S BY <2>1, <2>2, <1>2
  <2>4. h \in S \/ \E a \in Q \ S : n[a] \in S BY <2>3 DEF ListOK
  <2>5. h \in S BY <2>4, <1>2
  <2>6. h \notin Over BY <2>5, WalkClosed
  <2>7. ASSUME NEW E \in SUBSET Proc, E = {} PROVE W \subseteq E
    BY <2>6, <2>7, WalkLeast
  <2>8. {} \in SUBSET Proc /\ W # {} BY <1>2
  <2> HIDE DEF W
  <2>9. W \subseteq {} BY <2>7, <2>8
  <2> QED BY <2>8, <2>9
<1> QED BY <1>1, <1>2

\* Enqueue2 finds a place for p.
LEMMA Enqueue2OK ==
  ASSUME NEW lists, NEW Q, QueuesOK(lists, Q), NEW p \in Proc, Outside(Q, p), NEW prio
  PROVE  QueuesOK(Enqueue2(lists, p, prio), With(Q, 2, p))
<1> USE NullNotProc
<1> DEFINE Over   == {q \in Proc : prio[q] <= prio[p]}
           passed == Walk(lists.next, lists.head[2], Over)
           last   == {a \in passed : lists.next[a] \notin passed}
<1>1. /\ lists \in Lists /\ 2 \in Level /\ Q[2] \in SUBSET Proc
      /\ ListOK(lists.head[2], lists.tail[2], lists.next, Q[2])
  BY DEF QueuesOK, QueueOK, Level
<1>2. Over \in SUBSET Proc OBVIOUS
<1>3. passed \subseteq Q[2] /\ (passed # {} => last # {})
  <2>1. lists.next \in Links BY <1>1 DEF Lists, Links
  <2> HIDE DEF Over
  <2>2. /\ passed \subseteq Q[2]
        /\ passed # {} => \E a \in passed : lists.next[a] \notin passed
    BY <2>1, <1>1, <1>2, WalkPart
  <2> QED BY <2>2
<1>4. CASE lists.tail[2] = NULL
  <2>1. QueuesOK(PushBack(lists, p, 2), With(Q, 2, p)) BY <1>1, PushBackOK
  <2> QED BY <2>1, <1>4 DEF Enqueue2, InsertPast
<1>5. CASE lists.tail[2] # NULL /\ passed = {}
  <2>1. QueuesOK(PushFront(lists, p, 2), With(Q, 2, p)) BY <1>1, PushFrontOK
  <2> QED BY <2>1, <1>5 DEF Enqueue2, InsertPast
<1>6. CASE lists.tail[2] # NULL /\ passed # {}
  <2>1. last # {} BY <1>3, <1>6
  <2> DEFINE v == CHOOSE a \in last : TRUE
  <2>2. v \in Q[2] BY <2>1, <1>3
  <2>3. Enqueue2(lists, p, prio) = InsertAfter(lists, v, p) BY <1>6, <2>1 DEF Enqueue2, InsertPast
  <2> HIDE DEF v
  <2>4. QueuesOK(InsertAfter(lists, v, p), With(Q, 2, p)) BY <2>2, InsertAfterOK
  <2> QED BY <2>3, <2>4
<1> QED BY <1>4, <1>5, <1>6

\* Enqueue puts p on its queue and leaves every other process where it is.
THEOREM EnqueueOK ==
  ASSUME NEW lists, NEW Q, QueuesOK(lists, Q), NEW l \in Level, NEW p \in Proc,
         Outside(Q, p), NEW lockHeld, NEW prio
  PROVE  QueuesOK(Enqueue(lists, p, l, lockHeld, prio), With(Q, l, p))
<1>1. CASE lockHeld
  <2>1. QueuesOK(PushFront(lists, p, l), With(Q, l, p)) BY PushFrontOK
  <2> QED BY <2>1, <1>1 DEF Enqueue
<1>2. CASE ~lockHeld /\ l = 2
  <2>1. QueuesOK(Enqueue2(lists, p, prio), With(Q, l, p)) BY <1>2, Enqueue2OK
  <2> QED BY <2>1, <1>2 DEF Enqueue
<1>3. CASE ~lockHeld /\ l # 2
  <2>1. QueuesOK(PushBack(lists, p, l), With(Q, l, p)) BY PushBackOK
  <2> QED BY <2>1, <1>3 DEF Enqueue
<1> QED BY <1>1, <1>2, <1>3

-----------------------------------------------------------------------------
\* Dequeue takes the head off its queue and leaves the others where they are.
THEOREM DequeueOK ==
  ASSUME NEW lists, NEW Q, QueuesOK(lists, Q), NEW l \in Level, lists.head[l] # NULL
  PROVE  /\ lists.head[l] \in Q[l]
         /\ QueuesOK(Dequeue(lists, l), [Q EXCEPT ![l] = @ \ {lists.head[l]}])
<1> USE NullNotProc
<1> DEFINE new == Dequeue(lists, l)
           h   == lists.head[l]
           R   == [Q EXCEPT ![l] = @ \ {h}]
<1>1. /\ lists \in Lists /\ Q[l] \in SUBSET Proc
      /\ ListOK(h, lists.tail[l], lists.next, Q[l])
  BY DEF QueuesOK, QueueOK
<1>2. h \in Q[l] /\ h \in Proc BY <1>1 DEF ListOK
<1>3. /\ new.head = [lists.head EXCEPT ![l] = lists.next[h]]
      /\ new.tail = IF lists.next[h] = NULL THEN [lists.tail EXCEPT ![l] = NULL] ELSE lists.tail
      /\ new.next = [lists.next EXCEPT ![h] = NULL]
  BY DEF Dequeue
<1>4. new \in Lists
  <2>1. lists.next[h] \in Proc \cup {NULL} BY <1>1, <1>2 DEF Lists
  <2>2. [lists.head EXCEPT ![l] = lists.next[h]] \in [Level -> Proc \cup {NULL}]
    BY <2>1, <1>1 DEF Lists
  <2>3. [lists.tail EXCEPT ![l] = NULL] \in [Level -> Proc \cup {NULL}] BY <1>1 DEF Lists
  <2>4. [lists.next EXCEPT ![h] = NULL] \in [Proc -> Proc \cup {NULL}] BY <1>1 DEF Lists
  <2> QED BY <2>2, <2>3, <2>4, <1>1 DEF Dequeue, Lists
<1>5. new.next \in Links /\ lists.next \in Links BY <1>4, <1>1 DEF Lists, Links
<1>6. /\ new.head[l] = lists.next[h]
      /\ new.tail[l] = IF lists.next[h] = NULL THEN NULL ELSE lists.tail[l]
      /\ \A k \in Level \ {l} : new.head[k] = lists.head[k] /\ new.tail[k] = lists.tail[k]
      /\ \A a \in Proc \ {h} : new.next[a] = lists.next[a]
  BY <1>1, <1>2, <1>3 DEF Lists
<1> HIDE DEF new
<1>7. R \in [Level -> SUBSET Proc] /\ Disjoint(R) BY DEF QueuesOK, Disjoint
<1>8. ASSUME NEW k \in Level PROVE QueueOK(new, k, R[k])
  <2>1. CASE k = l
    <3>1. \A a \in Q[l] \ {h} : new.next[a] = lists.next[a] BY <1>1, <1>6
    <3>2. ListOK(lists.next[h], IF lists.next[h] = NULL THEN NULL ELSE lists.tail[l],
                 new.next, Q[l] \ {h})
      BY <3>1, <1>1, <1>2, <1>5, RemoveOK
    <3>3. R[k] = Q[l] \ {h} BY <2>1 DEF QueuesOK
    <3> QED BY <3>2, <3>3, <1>6, <2>1 DEF QueueOK
  <2>2. CASE k # l
    <3>1. R[k] = Q[k] /\ Q[k] \in SUBSET Proc /\ QueueOK(lists, k, Q[k])
      BY <2>2 DEF QueuesOK
    <3>2. h \notin Q[k] BY <2>2, <1>2 DEF QueuesOK, Disjoint
    <3>3. \A a \in Q[k] : new.next[a] = lists.next[a] BY <3>1, <3>2, <1>6
    <3>4. ListOK(lists.head[k], lists.tail[k], new.next, Q[k])
      BY <3>1, <3>3, <1>5, Frame DEF QueueOK
    <3> QED BY <3>1, <3>4, <1>6, <2>2 DEF QueueOK
  <2> QED BY <2>1, <2>2
<1> QED BY <1>2, <1>4, <1>7, <1>8 DEF QueuesOK, new

\* One queue appended to another, which leaves the first one empty.
Moved(Q, from, to) == [Q EXCEPT ![to] = @ \cup Q[from], ![from] = {}]

LEMMA SpliceOK ==
  ASSUME NEW lists, NEW Q, QueuesOK(lists, Q), NEW from \in Level, NEW to \in Level,
         from # to
  PROVE  QueuesOK(Splice(lists, from, to), Moved(Q, from, to))
<1> USE NullNotProc
<1> DEFINE new == Splice(lists, from, to)
           R   == Moved(Q, from, to)
           g   == lists.head[from]
           u   == lists.tail[from]
           h   == lists.head[to]
           t   == lists.tail[to]
<1>1. /\ lists \in Lists /\ Q[from] \in SUBSET Proc /\ Q[to] \in SUBSET Proc
      /\ Q[from] \cap Q[to] = {} /\ lists.next \in Links
      /\ ListOK(g, u, lists.next, Q[from]) /\ ListOK(h, t, lists.next, Q[to])
  BY DEF QueuesOK, QueueOK, Disjoint, Lists, Links
<1>2. R \in [Level -> SUBSET Proc] /\ Disjoint(R)
      /\ R[to] = Q[to] \cup Q[from] /\ R[from] = {}
      /\ \A k \in Level \ {from, to} : R[k] = Q[k]
  BY DEF QueuesOK, Disjoint, Moved
<1>3. CASE u = NULL
  <2>1. new = lists BY <1>3 DEF Splice
  <2>2. Q[from] = {} BY <1>1, <1>3 DEF ListOK
  <2>3. R = Q BY <1>2, <2>2 DEF QueuesOK, Moved
  <2> QED BY <2>1, <2>3
<1>4. CASE u # NULL
  <2>1. g \in Q[from] /\ u \in Q[from] BY <1>1, <1>4 DEF ListOK
  <2>2. /\ new.head = [lists.head EXCEPT ![to] = IF t = NULL THEN g ELSE h, ![from] = NULL]
        /\ new.tail = [lists.tail EXCEPT ![to] = u, ![from] = NULL]
        /\ new.next = IF t = NULL THEN lists.next ELSE [lists.next EXCEPT ![t] = g]
        /\ new = [head |-> new.head, tail |-> new.tail, next |-> new.next]
    BY <1>4, <1>1 DEF Splice, Lists
  <2>3. new \in Lists
    <3>1. g \in Proc \cup {NULL} /\ h \in Proc \cup {NULL} /\ u \in Proc \cup {NULL}
      BY <1>1 DEF Lists
    <3>2. new.head \in [Level -> Proc \cup {NULL}] BY <2>2, <3>1, <1>1 DEF Lists
    <3>3. new.tail \in [Level -> Proc \cup {NULL}] BY <2>2, <3>1, <1>1 DEF Lists
    <3>4. new.next \in [Proc -> Proc \cup {NULL}] BY <2>2, <3>1, <1>1 DEF Lists
    <3> HIDE DEF new
    <3> QED BY <2>2, <3>2, <3>3, <3>4 DEF Lists
  <2>4. /\ new.head[to] = IF t = NULL THEN g ELSE h
        /\ new.tail[to] = u /\ new.head[from] = NULL /\ new.tail[from] = NULL
        /\ \A k \in Level \ {from, to} : new.head[k] = lists.head[k] /\ new.tail[k] = lists.tail[k]
    BY <2>2, <1>1 DEF Lists
  <2>5. new.next \in Links BY <2>3 DEF Lists, Links
  <2> HIDE DEF new
  <2>6. QueueOK(new, to, R[to])
    <3>1. CASE t = NULL
      <4>1. Q[to] = {} BY <3>1, <1>1 DEF ListOK
      <4>2. R[to] = Q[from] BY <4>1, <1>2
      <4> QED BY <4>2, <3>1, <2>2, <2>4, <1>1 DEF QueueOK
    <3>2. CASE t # NULL
      <4>1. h \in Q[to] /\ t \in Q[to] BY <3>2, <1>1 DEF ListOK
      <4>2. new.next[t] = g /\ \A a \in Proc \ {t} : new.next[a] = lists.next[a]
        BY <2>2, <3>2, <4>1, <1>1 DEF Links
      <4>3. \A a \in (Q[to] \cup Q[from]) \ {t} : new.next[a] = lists.next[a]
        BY <4>2, <1>1
      <4>4. ListOK(h, u, new.next, Q[to] \cup Q[from])
        BY <4>1, <4>2, <4>3, <2>1, <2>5, <1>1, ConcatOK
      <4> QED BY <4>4, <3>2, <2>4, <1>2 DEF QueueOK
    <3> QED BY <3>1, <3>2
  <2>7. QueueOK(new, from, R[from]) BY <2>4, <1>2 DEF QueueOK, ListOK
  <2>8. ASSUME NEW k \in Level \ {from, to} PROVE QueueOK(new, k, R[k])
    <3>1. Q[k] \in SUBSET Proc /\ ListOK(lists.head[k], lists.tail[k], lists.next, Q[k])
      BY DEF QueuesOK, QueueOK
    <3>2. t # NULL => t \in Q[to] BY <1>1 DEF ListOK
    <3>3. t # NULL => t \notin Q[k] BY <3>2 DEF QueuesOK, Disjoint
    <3>4. \A a \in Q[k] : new.next[a] = lists.next[a] BY <3>1, <3>3, <2>2, <1>1 DEF Links
    <3>5. ListOK(lists.head[k], lists.tail[k], new.next, Q[k])
      BY <3>1, <3>4, <2>5, <1>1, Frame
    <3> QED BY <3>5, <2>4, <1>2 DEF QueueOK
  <2> QED BY <2>3, <2>6, <2>7, <2>8, <1>2 DEF QueuesOK, new
<1> QED BY <1>3, <1>4

\* priorityBoosting leaves everybody in L0.
THEOREM JoinOK ==
  ASSUME NEW lists, NEW Q, QueuesOK(lists, Q)
  PROVE  QueuesOK(JoinQueues(lists),
           [l \in Level |-> IF l = 0 THEN Q[0] \cup Q[1] \cup Q[2] ELSE {}])
<1> DEFINE P == Moved(Q, 2, 1)
           R == Moved(P, 1, 0)
<1>1. 0 \in Level /\ 1 \in Level /\ 2 \in Level BY DEF Level
<1>2. QueuesOK(Splice(lists, 2, 1), P) BY <1>1, SpliceOK
<1>3. QueuesOK(JoinQueues(lists), R)
  <2> HIDE DEF P
  <2> QED BY <1>1, <1>2, SpliceOK DEF JoinQueues
<1>4. R = [l \in Level |-> IF l = 0 THEN Q[0] \cup Q[1] \cup Q[2] ELSE {}]
  <2> DEFINE J == [l \in Level |-> IF l = 0 THEN Q[0] \cup Q[1] \cup Q[2] ELSE {}]
  <2>1. P \in [Level -> SUBSET Proc] /\ P[0] = Q[0] /\ P[1] = Q[1] \cup Q[2] /\ P[2] = {}
    BY <1>1 DEF QueuesOK, Moved
  <2> HIDE DEF P
  <2>2. /\ R \in [Level -> SUBSET Proc]
        /\ R[0] = Q[0] \cup Q[1] \cup Q[2] /\ R[1] = {} /\ R[2] = {}
    BY <1>1, <2>1 DEF Moved
  <2> HIDE DEF R
  <2>3. \A l \in Level : R[l] = J[l]
    <3>1. \A l \in Level : l = 0 \/ l = 1 \/ l = 2 BY DEF Level
    <3> QED BY <2>2, <3>1
  <2> QED BY <2>2, <2>3
<1> QED BY <1>3, <1>4
-----------------------------------------------------------------------------
(* setPriority of a process of L2 *)

\* cutRelation takes an inner element of L2 out of the list.
LEMMA CutRelationOK ==
  ASSUME NEW lists, NEW Q, QueuesOK(lists, Q), NEW p \in Q[2],
         p # lists.head[2], p # lists.tail[2], NEW v \in Q[2], lists.next[v] = p
  PROVE  QueuesOK(CutRelation(lists, v, p, 2), [Q EXCEPT ![2] = @ \ {p}])
<1> USE NullNotProc
<1> DEFINE new == CutRelation(lists, v, p, 2)
           R   == [Q EXCEPT ![2] = @ \ {p}]
<1>1. /\ lists \in Lists /\ 2 \in Level /\ Q[2] \in SUBSET Proc
      /\ ListOK(lists.head[2], lists.tail[2], lists.next, Q[2])
      /\ v \in Proc /\ p \in Proc
  BY DEF QueuesOK, QueueOK, Level
<1>2. new = [lists EXCEPT !.next = [[lists.next EXCEPT ![v] = lists.next[p]] EXCEPT ![p] = NULL]]
  BY <1>1 DEF CutRelation
<1>3. new.head = lists.head /\ new.tail = lists.tail
      /\ new.next = [[lists.next EXCEPT ![v] = lists.next[p]] EXCEPT ![p] = NULL]
  BY <1>1, <1>2 DEF Lists
<1>4. new \in Lists
  <2>1. lists.next[p] \in Proc \cup {NULL} BY <1>1 DEF Lists
  <2>2. new.next \in [Proc -> Proc \cup {NULL}] BY <2>1, <1>1, <1>3 DEF Lists
  <2> HIDE DEF new
  <2> QED BY <2>2, <1>1, <1>2, <1>3 DEF Lists
<1>5. new.next \in Links /\ lists.next \in Links BY <1>4, <1>1 DEF Lists, Links
<1>6. v # p
  <2>1. \A S \in SUBSET Q[2] : S # {} =>
          lists.head[2] \in S \/ \E a \in Q[2] \ S : lists.next[a] \in S
    BY <1>1 DEF ListOK
  <2>2. {p} \in SUBSET Q[2] /\ {p} # {} OBVIOUS
  <2>3. lists.head[2] \in {p} \/ \E a \in Q[2] \ {p} : lists.next[a] \in {p}
    BY ONLY ZenonT(30), <2>1, <2>2
  <2>4. \E a \in Q[2] \ {p} : lists.next[a] \in {p} BY <2>3
  <2> QED BY <2>4, <1>1 DEF ListOK
<1>7. /\ new.next[v] = lists.next[p]
      /\ \A a \in Proc \ {v, p} : new.next[a] = lists.next[a]
  BY <1>1, <1>3, <1>6 DEF Lists
<1> HIDE DEF new
<1>8. R \in [Level -> SUBSET Proc] /\ Disjoint(R) BY DEF QueuesOK, Disjoint
<1>9. ASSUME NEW k \in Level PROVE QueueOK(new, k, R[k])
  <2>1. CASE k = 2
    <3>1. \A a \in Q[2] \ {v, p} : new.next[a] = lists.next[a] BY <1>1, <1>7
    <3>2. ListOK(lists.head[2], lists.tail[2], new.next, Q[2] \ {p})
      BY <3>1, <1>1, <1>5, <1>7, CutOK
    <3>3. R[k] = Q[2] \ {p} BY <2>1 DEF QueuesOK
    <3> QED BY <3>2, <3>3, <1>3, <2>1 DEF QueueOK
  <2>2. CASE k # 2
    <3>1. R[k] = Q[k] /\ Q[k] \in SUBSET Proc /\ QueueOK(lists, k, Q[k])
      BY <2>2 DEF QueuesOK
    <3>2. p \notin Q[k] /\ v \notin Q[k] BY <2>2, <1>1 DEF QueuesOK, Disjoint
    <3>3. \A a \in Q[k] : new.next[a] = lists.next[a] BY <3>1, <3>2, <1>7
    <3>4. ListOK(lists.head[k], lists.tail[k], new.next, Q[k])
      BY <3>1, <3>3, <1>5, Frame DEF QueueOK
    <3> QED BY <3>1, <3>4, <1>3 DEF QueueOK
  <2> QED BY <2>1, <2>2
<1> QED BY <1>4, <1>8, <1>9 DEF QueuesOK, new

\* With nothing before it, a process in no queue loses its own link only.
LEMMA CutNobodyOK ==
  ASSUME NEW lists, NEW Q, QueuesOK(lists, Q), NEW p \in Proc, Outside(Q, p)
  PROVE  QueuesOK(CutRelation(lists, NULL, p, 2), Q)
<1> USE NullNotProc
<1> DEFINE new == CutRelation(lists, NULL, p, 2)
<1>1. /\ lists \in Lists /\ 2 \in Level /\ Q \in [Level -> SUBSET Proc]
      /\ ListOK(lists.head[2], lists.tail[2], lists.next, Q[2])
  BY DEF QueuesOK, QueueOK, Level
<1>2. lists.tail[2] # p BY <1>1 DEF ListOK, Outside
<1>3. new = [lists EXCEPT !.next = [lists.next EXCEPT ![p] = NULL]] BY <1>2 DEF CutRelation
<1>4. /\ new \in Lists /\ new.head = lists.head /\ new.tail = lists.tail
      /\ \A a \in Proc \ {p} : new.next[a] = lists.next[a]
  <2>1. [lists.next EXCEPT ![p] = NULL] \in [Proc -> Proc \cup {NULL}] BY <1>1 DEF Lists
  <2> QED BY <2>1, <1>1, <1>3 DEF Lists
<1>5. new.next \in Links /\ lists.next \in Links BY <1>4, <1>1 DEF Lists, Links
<1> HIDE DEF new
<1>6. ASSUME NEW k \in Level PROVE QueueOK(new, k, Q[k])
  <2>1. Q[k] \in SUBSET Proc /\ \A a \in Q[k] : new.next[a] = lists.next[a]
    BY <1>1, <1>4 DEF Outside
  <2>2. ListOK(lists.head[k], lists.tail[k], lists.next, Q[k]) BY DEF QueuesOK, QueueOK
  <2>3. ListOK(lists.head[k], lists.tail[k], new.next, Q[k]) BY <2>1, <2>2, <1>5, Frame
  <2> QED BY <2>3, <1>4 DEF QueueOK
<1> QED BY <1>4, <1>6 DEF QueuesOK, new

\* Where the process is not the last of several, setPriority finds it a new place
\* in L2 and keeps every other process; one in no queue comes back into L2.
THEOREM RepositionOK ==
  ASSUME NEW lists, NEW Q, QueuesOK(lists, Q), NEW p \in Proc,
         p \notin Q[0] \cup Q[1], lists.tail[2] = p => lists.head[2] = p,
         NEW lockHeld, NEW prio
  PROVE  QueuesOK(Reposition(lists, p, lockHeld, prio), With(Q, 2, p))
<1> USE NullNotProc
<1> DEFINE R == [Q EXCEPT ![2] = @ \ {p}]
<1>1. /\ lists \in Lists /\ 2 \in Level /\ Q[2] \in SUBSET Proc
      /\ ListOK(lists.head[2], lists.tail[2], lists.next, Q[2])
      /\ Level = {0, 1, 2} /\ lists.next \in Links
  BY DEF QueuesOK, QueueOK, Level, Lists, Links
<1>2. Outside(R, p) /\ With(R, 2, p) = With(Q, 2, p)
  BY <1>1 DEF QueuesOK, Outside, With
<1> HIDE DEF R
<1>3. CASE lists.head[2] = p
  <2>1. QueuesOK(Dequeue(lists, 2), R) BY <1>1, <1>3, DequeueOK DEF R
  <2>2. QueuesOK(Enqueue(Dequeue(lists, 2), p, 2, lockHeld, prio), With(R, 2, p))
    BY <2>1, <1>1, <1>2, EnqueueOK
  <2> QED BY <2>2, <1>2, <1>3 DEF Reposition
<1>4. CASE lists.head[2] # p
  <2> DEFINE before == {a \in OnQueue(lists, 2) : lists.next[a] = p}
             prev   == IF before = {} THEN NULL ELSE CHOOSE a \in before : TRUE
             cut    == CutRelation(lists, prev, p, 2)
  <2>1. OnQueue(lists, 2) = Q[2] BY <1>1, WalkWhole DEF OnQueue
  <2>2. QueuesOK(cut, R)
    <3>1. CASE p \in Q[2]
      <4>1. lists.head[2] \in {p} \/ \E a \in Q[2] \ {p} : lists.next[a] \in {p}
        <5>1. \A S \in SUBSET Q[2] : S # {} =>
                lists.head[2] \in S \/ \E a \in Q[2] \ S : lists.next[a] \in S
          BY <1>1 DEF ListOK
        <5>2. {p} \in SUBSET Q[2] /\ {p} # {} BY <3>1
        <5> QED BY ONLY ZenonT(30), <5>1, <5>2
      <4>2. before # {} BY <4>1, <2>1, <1>4
      <4>3. prev \in before BY <4>2
      <4> HIDE DEF prev
      <4> QED BY <4>3, <2>1, <3>1, <1>4, CutRelationOK DEF R
    <3>2. CASE p \notin Q[2]
      <4>1. before = {} BY <3>2, <2>1, <1>1 DEF ListOK
      <4>2. Outside(Q, p) BY <3>2, <1>1 DEF Outside
      <4>3. R = Q BY <3>2 DEF R, QueuesOK
      <4> QED BY <4>1, <4>2, <4>3, CutNobodyOK
    <3> QED BY <3>1, <3>2
  <2>3. Reposition(lists, p, lockHeld, prio) = Enqueue(cut, p, 2, lockHeld, prio)
    BY <1>4 DEF Reposition
  <2> HIDE DEF cut
  <2>4. QueuesOK(Enqueue(cut, p, 2, lockHeld, prio), With(R, 2, p))
    BY <2>2, <1>1, <1>2, EnqueueOK
  <2> QED BY <2>3, <2>4, <1>2
<1> QED BY <1>3, <1>4

-----------------------------------------------------------------------------
(* The scheduler *)

\* Constants as the steps below use them.
LEMMA ConstantFacts ==
  /\ InitProc \in Proc /\ NULL \notin Proc
  /\ 0 \in CPU /\ NOCPU \notin CPU
  /\ Level = {0, 1, 2}
  /\ BaseQuantum \in Nat /\ BaseQuantum >= 2 /\ QuantumStep \in Nat
  /\ TopPriority \in Nat /\ BoostTicks \in Nat \ {0}
BY NPROCAssumption, MLFQAssumption
   DEF InitProc, Proc, NULL, CPU, NOCPU, Level

LEMMA ReadyType == Ready \in [Level -> SUBSET Proc] /\ Disjoint(Ready)
BY DEF Ready, Disjoint

-----------------------------------------------------------------------------
(* What is linked, and what should be. *)

\* The processes that the walk over each queue finds.
Linked == [l \in Level |-> OnQueue(rq, l)]

QueuesSound ==
  /\ QueuesOK(rq, Linked)
  /\ \A l \in Level : Linked[l] \subseteq Ready[l]
  /\ NoLockInQueue

\* What a step leaves of the queues: lists of processes that may run, and of all
\* of them if they were before.
QueuesKept == QueuesSound' /\ (Linked = Ready => Linked' = Ready')

LEMMA LinkedType == Linked \in [Level -> SUBSET Proc]
BY DEF Linked, OnQueue, Walk

LEMMA CoreSound == Core => QueuesSound
<1> SUFFICES ASSUME Core PROVE QueuesSound OBVIOUS
<1>1. \A l \in Level : Linked[l] = OnQueue(rq, l) /\ Linked[l] \subseteq Ready[l]
  <2> TAKE l \in Level
  <2>1. Linked[l] = OnQueue(rq, l) BY DEF Linked
  <2>2. \A p \in Proc : p \in OnQueue(rq, l) => p \in Ready[l]
    BY DEF Core, OnlyRunnableQueued, Ready
  <2> QED BY <2>1, <2>2, LinkedType
<1>2. Disjoint(Linked)
  BY <1>1, ReadyType DEF Disjoint
<1> QED BY <1>1, <1>2, LinkedType DEF Core, TypeOK, QueuesSound, QueuesOK

LEMMA CoreStep ==
  ASSUME TypeOK', QueuesKept, OneCpu', ForkOwnsChild', QuantumFitsLevel'
  PROVE  Core' /\ QueuesKept
<1>1. \A l \in Level : Linked'[l] = OnQueue(rq', l) BY DEF Linked
<1>2. \A l \in Level : QueueOK(rq', l, OnQueue(rq', l))
  BY <1>1 DEF QueuesKept, QueuesSound, QueuesOK
<1>3. OnlyRunnableQueued'
  BY <1>1 DEF QueuesKept, QueuesSound, OnlyRunnableQueued, Ready
<1>4. NoLockInQueue' BY DEF QueuesKept, QueuesSound
<1> QED BY <1>2, <1>3, <1>4 DEF Core

\* Whatever set of lists a step leaves, the walk finds it.
LEMMA Walked ==
  ASSUME NEW r, NEW Q, QueuesOK(r, Q), NEW l \in Level
  PROVE  OnQueue(r, l) = Q[l]
<1>1. ListOK(r.head[l], r.tail[l], r.next, Q[l]) BY DEF QueuesOK, QueueOK
<1>2. r.next \in Links /\ Q[l] \in SUBSET Proc BY DEF QueuesOK, Lists, Links
<1> QED BY <1>1, <1>2, WalkWhole DEF OnQueue

LEMMA KeptBy ==
  ASSUME NEW Q, QueuesOK(rq', Q), \A l \in Level : Q[l] \subseteq Ready'[l],
         \A l \in Level : Q[l] \cap locked' = {},
         Linked = Ready => Q = Ready'
  PROVE  QueuesKept
<1>1. \A l \in Level : OnQueue(rq', l) = Q[l] BY Walked
<1>2. Linked' = Q BY <1>1 DEF Linked, QueuesOK
<1>3. NoLockInQueue' BY <1>1 DEF NoLockInQueue
<1> QED BY <1>2, <1>3 DEF QueuesKept, QueuesSound

\* No process waiting in a queue has the lock, nor gets it.
LEMMA LinkedUnlocked ==
  ASSUME QueuesSound, NEW l \in Level
  PROVE  Linked[l] \cap locked = {}
BY DEF QueuesSound, NoLockInQueue, Linked

\* The queues are left alone, and nobody becomes ready or stops being so.
LEMMA QuietQueues ==
  ASSUME Core, rq' = rq, Ready' = Ready,
         \A q \in locked' : q \in locked \/ state[q] # "RUNNABLE"
  PROVE  QueuesKept
<1>1. QueuesSound BY CoreSound
<1>2. ASSUME NEW l \in Level PROVE Linked[l] \cap locked' = {}
  BY <1>1, LinkedUnlocked DEF QueuesSound, Ready
<1> QED BY <1>1, <1>2, KeptBy DEF QueuesSound

\* A process becoming ready on level l is one more on that queue.
LEMMA ReadyGains ==
  ASSUME NEW p \in Proc, NEW l \in Level, state[p] # "RUNNABLE",
         state'[p] = "RUNNABLE", qlevel'[p] = l,
         \A q \in Proc \ {p} : /\ state'[q] = "RUNNABLE" <=> state[q] = "RUNNABLE"
                               /\ qlevel'[q] = qlevel[q]
  PROVE  Ready' = With(Ready, l, p) /\ Outside(Ready, p)
BY DEF Ready, With, Outside

\* A ready process that stops being so is one less on its queue.
LEMMA ReadyLoses ==
  ASSUME NEW p \in Proc, NEW l \in Level, qlevel[p] = l, qlevel' = qlevel,
         \A q \in Proc : state'[q] = "RUNNABLE" <=> (state[q] = "RUNNABLE" /\ q # p)
  PROVE  Ready' = [Ready EXCEPT ![l] = @ \ {p}]
<1>1. ASSUME NEW k \in Level
      PROVE  Ready'[k] = IF k = l THEN Ready[l] \ {p} ELSE Ready[k]
  BY DEF Ready
<1>2. Ready' = [k \in Level |-> Ready'[k]] BY DEF Ready
<1> QED BY <1>1, <1>2, ReadyType

\* Nothing becomes ready or stops being so.
LEMMA ReadySame ==
  ASSUME \A q \in Proc : state'[q] = "RUNNABLE" <=> state[q] = "RUNNABLE",
         \A q \in Proc : state[q] = "RUNNABLE" => qlevel'[q] = qlevel[q]
  PROVE  Ready' = Ready
BY DEF Ready

LEMMA EnqueueReady ==
  ASSUME Core, NEW p \in Proc, NEW l \in Level, NEW pr, NEW h,
         state[p] # "RUNNABLE", state'[p] = "RUNNABLE", qlevel'[p] = l,
         \A q \in Proc \ {p} : /\ state'[q] = "RUNNABLE" <=> state[q] = "RUNNABLE"
                               /\ qlevel'[q] = qlevel[q],
         rq' = Enqueue(rq, p, l, h, pr), locked' = locked \ {p}
  PROVE  QueuesKept
<1>1. Ready' = With(Ready, l, p) /\ Outside(Ready, p) BY ReadyGains
<1>2. QueuesSound /\ Outside(Linked, p)
  BY <1>1, CoreSound DEF QueuesSound, Outside
<1> DEFINE Q == With(Linked, l, p)
<1>3. QueuesOK(rq', Q) BY <1>2, EnqueueOK DEF QueuesSound
<1>4. \A k \in Level : Q[k] = Linked[k] \cup (IF k = l THEN {p} ELSE {})
  BY LinkedType DEF With
<1>5. \A k \in Level : Ready'[k] = Ready[k] \cup (IF k = l THEN {p} ELSE {})
  BY <1>1, ReadyType DEF With
<1>6. \A k \in Level : Q[k] \subseteq Ready'[k] BY <1>2, <1>4, <1>5 DEF QueuesSound
<1>7. \A k \in Level : Q[k] \cap locked' = {} BY <1>2, <1>4, LinkedUnlocked
<1>8. Linked = Ready => Q = Ready' BY <1>1
<1> HIDE DEF Q
<1> QED BY <1>3, <1>6, <1>7, <1>8, KeptBy

-----------------------------------------------------------------------------
(* One lemma per action: it keeps the inductive invariant. *)

\* The process on a CPU is RUNNING and on that CPU only.
LEMMA Current ==
  ASSUME Core, NEW c \in CPU, NEW p \in Proc, Runs(c, p)
  PROVE  /\ on[c] = p /\ state[p] = "RUNNING"
         /\ \A d \in CPU : on[d] = p => d = c
BY ConstantFacts DEF Core, OneCpu, Runs

LEMMA InitStep == Init => Core /\ RunnableQueued
<1> SUFFICES ASSUME Init PROVE Core /\ RunnableQueued OBVIOUS
<1> USE ConstantFacts
<1>1. EmptyQueues \in Lists BY DEF EmptyQueues, Lists
<1>2. QueuesOK(EmptyQueues, [l \in Level |-> {}])
  <2>1. [l \in Level |-> {}] \in [Level -> SUBSET Proc] OBVIOUS
  <2> QED BY <1>1, <2>1 DEF QueuesOK, Disjoint, QueueOK, ListOK, EmptyQueues
<1>3. Ready = With([l \in Level |-> {}], 0, InitProc)
  BY DEF Init, Ready, With
<1>4. QueuesOK(rq, Ready)
  <2>1. Outside([l \in Level |-> {}], InitProc) BY DEF Outside
  <2>2. QueuesOK(PushBack(EmptyQueues, InitProc, 0), With([l \in Level |-> {}], 0, InitProc))
    BY <1>2, <2>1, PushBackOK
  <2> QED BY <1>3, <2>2 DEF Init
<1>5. TypeOK
  <2>1. rq \in Lists BY <1>4 DEF QueuesOK
  <2> QED BY <2>1 DEF Init, TypeOK, States, Places
<1>6. OneCpu BY DEF Init, OneCpu
<1>7. ForkOwnsChild BY DEF Init, ForkOwnsChild
<1>8. QuantumFitsLevel BY DEF Init, QuantumFitsLevel
<1>9. \A l \in Level : OnQueue(rq, l) = Ready[l] BY <1>4, Walked
<1>10. RunnableQueued BY <1>9 DEF RunnableQueued, Ready
<1>11. OnlyRunnableQueued BY <1>10 DEF RunnableQueued, OnlyRunnableQueued
<1>12. NoLockInQueue BY DEF Init, NoLockInQueue
<1>13. \A l \in Level : QueueOK(rq, l, OnQueue(rq, l)) BY <1>4, <1>9 DEF QueuesOK
<1> QED BY <1>5, <1>6, <1>7, <1>8, <1>10, <1>11, <1>12, <1>13 DEF Core

LEMMA DispatchStep ==
  ASSUME Core, NEW c \in CPU, Dispatch(c)
  PROVE  Core' /\ QueuesKept
<1> USE ConstantFacts
<1> DEFINE l == level[c]
           p == rq.head[l]
<1>1. TypeOK /\ l \in Level /\ p # NULL /\ QueuesSound
  BY CoreSound DEF Core, TypeOK, Dispatch
<1> DEFINE Q == [Linked EXCEPT ![l] = @ \ {p}]
<1>2. p \in Linked[l] /\ QueuesOK(rq', Q)
  BY <1>1, DequeueOK DEF Dispatch, QueuesSound
<1>3. p \in Proc /\ state[p] = "RUNNABLE" /\ qlevel[p] = l
  BY <1>1, <1>2 DEF Ready, QueuesSound
<1> HIDE DEF l, p
<1>4. /\ on[c] = NULL /\ state' = [state EXCEPT ![p] = "RUNNING"]
      /\ on' = [on EXCEPT ![c] = p] /\ holder' = IF pc[p] = "wait" THEN c ELSE NOCPU
      /\ UNCHANGED <<attrs, ident, killed, locked, pc, level, clock>>
  BY DEF Dispatch, p, l
<1>5. Ready' = [Ready EXCEPT ![l] = @ \ {p}]
  <2>1. \A q \in Proc : state'[q] = "RUNNABLE" <=> (state[q] = "RUNNABLE" /\ q # p)
    BY <1>1, <1>3, <1>4 DEF TypeOK
  <2>2. qlevel' = qlevel BY <1>4 DEF attrs
  <2> QED BY <2>1, <2>2, <1>1, <1>3, ReadyLoses
<1>10. QueuesKept
  <2>1. \A k \in Level : Q[k] = IF k = l THEN Linked[k] \ {p} ELSE Linked[k]
    BY LinkedType, <1>1
  <2>2. \A k \in Level : Ready'[k] = IF k = l THEN Ready[k] \ {p} ELSE Ready[k]
    BY <1>5, ReadyType, <1>1
  <2>3. \A k \in Level : Q[k] \subseteq Ready'[k] BY <2>1, <2>2, <1>1 DEF QueuesSound
  <2>4. \A k \in Level : Q[k] \cap locked' = {} BY <2>1, <1>1, <1>4, LinkedUnlocked
  <2>5. Linked = Ready => Q = Ready' BY <1>5
  <2> HIDE DEF Q
  <2> QED BY <1>2, <2>3, <2>4, <2>5, KeptBy
<1>6. TypeOK'
  <2>1. rq' \in Lists BY <1>2 DEF QueuesOK
  <2> QED BY <1>1, <1>3, <1>4, <2>1 DEF TypeOK, States, attrs, ident, clock
<1>7. OneCpu' BY <1>1, <1>3, <1>4 DEF Core, TypeOK, OneCpu
<1>8. ForkOwnsChild' BY <1>1, <1>3, <1>4 DEF Core, TypeOK, ForkOwnsChild, ident
<1>9. QuantumFitsLevel' BY <1>1, <1>3, <1>4 DEF Core, TypeOK, QuantumFitsLevel, attrs
<1> QED BY <1>6, <1>7, <1>8, <1>9, <1>10, CoreStep

LEMMA NextLevelStep ==
  ASSUME Core, NEW c \in CPU, NextLevel(c)
  PROVE  Core' /\ QueuesKept
<1> USE ConstantFacts
<1>0. Ready' = Ready /\ rq' = rq BY ReadySame DEF NextLevel, attrs
<1>1. QueuesKept BY <1>0, QuietQueues DEF NextLevel
<1>2. TypeOK' BY DEF Core, TypeOK, NextLevel, attrs, ident, clock
<1>3. OneCpu' BY DEF Core, OneCpu, NextLevel
<1>4. ForkOwnsChild' BY DEF Core, ForkOwnsChild, NextLevel, ident
<1>5. QuantumFitsLevel' BY DEF Core, QuantumFitsLevel, NextLevel, attrs
<1> QED BY <1>1, <1>2, <1>3, <1>4, <1>5, CoreStep

\* A process that gives up the CPU and goes to the end of a queue: yield,
\* schedulerUnlock and the end of a time slice.
LEMMA RequeueOK ==
  ASSUME Core, NEW c \in CPU, NEW p \in Proc, on[c] = p, NEW l \in Level, NEW h, NEW pr,
         state' = [state EXCEPT ![p] = "RUNNABLE"],
         qlevel' = [qlevel EXCEPT ![p] = l],
         rq' = Enqueue(rq, p, l, h, pr), locked' = locked \ {p}
  PROVE  QueuesKept
<1>1. TypeOK BY DEF Core
<1>2. state[p] = "RUNNING" BY ConstantFacts DEF Core, OneCpu
<1>3. /\ state'[p] = "RUNNABLE" /\ qlevel'[p] = l
      /\ \A q \in Proc \ {p} : /\ state'[q] = "RUNNABLE" <=> state[q] = "RUNNABLE"
                               /\ qlevel'[q] = qlevel[q]
  BY <1>1 DEF TypeOK
<1> QED BY <1>1, <1>2, <1>3, EnqueueReady

LEMMA ForkAllocStep ==
  ASSUME Core, NEW c \in CPU, NEW p \in Proc, ForkAlloc(c, p)
  PROVE  Core' /\ QueuesKept
<1> USE ConstantFacts
<1>1. PICK q \in Proc :
        /\ state[q] = "UNUSED"
        /\ state' = [state EXCEPT ![q] = "EMBRYO"]
        /\ qlevel' = [qlevel EXCEPT ![q] = 0]
        /\ priority' = [priority EXCEPT ![q] = TopPriority]
        /\ timequantum' = [timequantum EXCEPT ![q] = BaseQuantum]
        /\ rq' = [rq EXCEPT !.next[q] = NULL]
        /\ locked' = locked \ {q}
        /\ named' = named \cup {q}
        /\ child' = [child EXCEPT ![p] = q]
        /\ pc' = [pc EXCEPT ![p] = "fork", ![q] = "user"]
  BY DEF ForkAlloc, First, Unused
<1>2. /\ on[c] = p /\ state[p] = "RUNNING" /\ q # p
      /\ UNCHANGED <<parent, killed, cpus, clock>>
  BY <1>1, Current DEF ForkAlloc, Call
<1>3. TypeOK BY DEF Core
<1>4. Ready' = Ready BY <1>1, <1>3, ReadySame DEF TypeOK
<1>5. /\ rq' \in Lists /\ rq'.head = rq.head /\ rq'.tail = rq.tail
      /\ \A a \in Proc \ {q} : rq'.next[a] = rq.next[a]
  <2>1. [rq.next EXCEPT ![q] = NULL] \in [Proc -> Proc \cup {NULL}]
    BY <1>3 DEF TypeOK, Lists
  <2>2. rq' = [rq EXCEPT !.next = [rq.next EXCEPT ![q] = NULL]] BY <1>1, <1>3 DEF TypeOK, Lists
  <2> QED BY <2>1, <2>2, <1>3 DEF TypeOK, Lists
<1>11. QueuesSound BY CoreSound
<1>12. ASSUME NEW l \in Level PROVE QueueOK(rq', l, Linked[l])
  <2>1. Linked[l] \in SUBSET Proc /\ q \notin Linked[l]
    BY <1>1, <1>11, LinkedType DEF QueuesSound, Ready
  <2>2. ListOK(rq.head[l], rq.tail[l], rq.next, Linked[l])
    BY <1>11 DEF QueuesSound, QueuesOK, QueueOK
  <2>3. \A a \in Linked[l] : rq'.next[a] = rq.next[a] BY <2>1, <1>5
  <2>4. rq.next \in Links /\ rq'.next \in Links BY <1>3, <1>5 DEF TypeOK, Lists, Links
  <2>5. ListOK(rq.head[l], rq.tail[l], rq'.next, Linked[l])
    BY <2>1, <2>2, <2>3, <2>4, Frame
  <2> QED BY <2>5, <1>5 DEF QueueOK
<1>6. QueuesKept
  <2>1. QueuesOK(rq', Linked) BY <1>5, <1>11, <1>12 DEF QueuesSound, QueuesOK
  <2>2. \A l \in Level : Linked[l] \cap locked' = {} BY <1>1, <1>11, LinkedUnlocked
  <2> QED BY <2>1, <2>2, <1>4, <1>11, KeptBy DEF QueuesSound
<1>7. TypeOK'
  <2>1. BaseQuantum \in 0 .. BaseQuantum + 2 * QuantumStep OBVIOUS
  <2>2. /\ state' \in [Proc -> States] /\ qlevel' \in [Proc -> Level]
        /\ pc' \in [Proc -> Places] /\ child' \in [Proc -> Proc \cup {NULL}]
    BY <1>1, <1>3 DEF TypeOK, States, Places
  <2>3. priority' \in [Proc -> Int] BY <1>1, <1>3 DEF TypeOK
  <2>4. timequantum' \in [Proc -> 0 .. BaseQuantum + 2 * QuantumStep]
    BY <1>1, <1>3, <2>1 DEF TypeOK
  <2> QED BY <1>1, <1>2, <1>3, <1>5, <2>2, <2>3, <2>4 DEF TypeOK, cpus, clock
<1>8. OneCpu' BY <1>1, <1>2, <1>3 DEF Core, TypeOK, OneCpu, cpus
<1>9. ForkOwnsChild'
  <2>1. ForkOwnsChild BY DEF Core
  <2>2. pc[p] = "user" BY DEF ForkAlloc, Call
  <2>3. \A r \in Proc : pc[r] = "fork" => child[r] # q BY <1>1, <2>1 DEF ForkOwnsChild
  <2>4. \A r \in Proc : pc'[r] = "fork" <=> (r = p \/ (pc[r] = "fork" /\ r # q))
    BY <1>1, <1>2, <1>3 DEF TypeOK
  <2>5. child'[p] = q /\ state'[q] = "EMBRYO" /\ \A r \in Proc \ {p} : child'[r] = child[r]
    BY <1>1, <1>3 DEF TypeOK
  <2>6. \A r \in Proc \ {q} : state'[r] = state[r] BY <1>1, <1>3 DEF TypeOK
  <2> QED BY <2>1, <2>2, <2>3, <2>4, <2>5, <2>6 DEF ForkOwnsChild
<1>10. QuantumFitsLevel'
  <2>1. BaseQuantum \in 1 .. BaseQuantum + QuantumStep * 0 OBVIOUS
  <2> QED BY <2>1, <1>1, <1>3 DEF Core, TypeOK, QuantumFitsLevel
<1> QED BY <1>6, <1>7, <1>8, <1>9, <1>10, CoreStep

LEMMA ForkFailStep ==
  ASSUME Core, NEW c \in CPU, NEW p \in Proc, ForkFail(c, p)
  PROVE  Core' /\ QueuesKept
<1> USE ConstantFacts
<1> DEFINE q == child[p]
<1>1. q \in Proc /\ state[q] = "EMBRYO" /\ TypeOK
  BY DEF ForkFail, Core, ForkOwnsChild
<1>2. QueuesKept
  <2>1. Ready' = Ready BY <1>1, ReadySame DEF ForkFail, TypeOK, attrs
  <2> QED BY <2>1, QuietQueues DEF ForkFail
<1>3. TypeOK' BY <1>1 DEF ForkFail, TypeOK, States, Places, attrs, cpus, clock
<1>4. OneCpu' BY <1>1 DEF Core, ForkFail, TypeOK, OneCpu, cpus
<1>5. ForkOwnsChild' BY <1>1 DEF Core, ForkFail, TypeOK, ForkOwnsChild
<1>6. QuantumFitsLevel' BY <1>1 DEF Core, ForkFail, TypeOK, QuantumFitsLevel, attrs
<1> QED BY <1>2, <1>3, <1>4, <1>5, <1>6, CoreStep

LEMMA ForkDoneStep ==
  ASSUME Core, NEW c \in CPU, NEW p \in Proc, ForkDone(c, p)
  PROVE  Core' /\ QueuesKept
<1> USE ConstantFacts
<1> DEFINE q == child[p]
<1>1. q \in Proc /\ state[q] = "EMBRYO" /\ TypeOK
  BY DEF ForkDone, Core, ForkOwnsChild
<1>2. /\ state' = [state EXCEPT ![q] = "RUNNABLE"] /\ qlevel' = qlevel
      /\ rq' = Enqueue(rq, q, qlevel[q], q \in locked, priority)
      /\ qlevel[q] \in Level /\ locked' = locked \ {q}
  BY <1>1 DEF ForkDone, Queued, attrs, TypeOK
<1>3. QueuesKept
  <2>1. /\ state[q] # "RUNNABLE" /\ state'[q] = "RUNNABLE" /\ qlevel'[q] = qlevel[q]
        /\ \A r \in Proc \ {q} : /\ state'[r] = "RUNNABLE" <=> state[r] = "RUNNABLE"
                                 /\ qlevel'[r] = qlevel[r]
    BY <1>1, <1>2 DEF TypeOK
  <2> HIDE DEF q
  <2> QED BY <1>1, <1>2, <2>1, EnqueueReady
<1>4. TypeOK'
  <2>1. rq' \in Lists BY <1>3 DEF QueuesKept, QueuesSound, QueuesOK
  <2> QED BY <1>1, <2>1 DEF ForkDone, TypeOK, States, Places, attrs, cpus, clock
<1>5. OneCpu' BY <1>1, <1>2 DEF Core, ForkDone, TypeOK, OneCpu, cpus
<1>6. ForkOwnsChild' BY <1>1 DEF Core, ForkDone, TypeOK, ForkOwnsChild
<1>7. QuantumFitsLevel' BY <1>1 DEF Core, ForkDone, TypeOK, QuantumFitsLevel, attrs
<1> QED BY <1>3, <1>4, <1>5, <1>6, <1>7, CoreStep

LEMMA BeginExitStep ==
  ASSUME Core, NEW c \in CPU, NEW p \in Proc, BeginExit(c, p)
  PROVE  Core' /\ QueuesKept
<1>0. Ready' = Ready /\ rq' = rq BY DEF BeginExit, Ready, attrs
<1>1. QueuesKept BY <1>0, QuietQueues DEF BeginExit
<1>2. TypeOK' BY DEF Core, BeginExit, TypeOK, Places, attrs, ident, cpus, clock
<1>3. OneCpu' BY DEF Core, BeginExit, OneCpu, cpus
<1>4. ForkOwnsChild' BY DEF Core, BeginExit, TypeOK, ForkOwnsChild, ident
<1>5. QuantumFitsLevel' BY DEF Core, BeginExit, QuantumFitsLevel, attrs
<1> QED BY <1>1, <1>2, <1>3, <1>4, <1>5, CoreStep

\* exit() makes its parent and init ready, at most.
LEMMA WakeOneOK ==
  ASSUME TypeOK, NEW rq0, NEW Q, QueuesOK(rq0, Q), NEW W \in SUBSET Proc, NEW p,
         p \in W => Outside(Q, p)
  PROVE  QueuesOK(WakeOne(rq0, W, p), IF p \in W THEN With(Q, qlevel[p], p) ELSE Q)
<1>1. CASE p \in W
  <2>1. qlevel[p] \in Level /\ p \in Proc BY <1>1 DEF TypeOK
  <2>2. QueuesOK(Enqueue(rq0, p, qlevel[p], p \in locked, priority), With(Q, qlevel[p], p))
    BY <2>1, <1>1, EnqueueOK
  <2> QED BY <2>2, <1>1 DEF WakeOne, Queued
<1>2. CASE p \notin W BY <1>2 DEF WakeOne
<1> QED BY <1>1, <1>2

LEMMA ExitStep ==
  ASSUME Core, NEW c \in CPU, NEW p \in Proc, Exit(c, p)
  PROVE  Core' /\ QueuesKept
<1> USE ConstantFacts
<1> DEFINE children == {q \in Proc : parent[q] = p}
           W == Woken(p, children)
           u == parent[p]
           Q1 == IF u \in W THEN With(Linked, qlevel[u], u) ELSE Linked
           Q2 == IF InitProc \in W THEN With(Q1, qlevel[InitProc], InitProc) ELSE Q1
           first == WakeOne(rq, W, u)
<1>1. TypeOK /\ QueuesSound BY CoreSound DEF Core
<1>2. /\ on[c] = p /\ state[p] = "RUNNING"
      /\ rq' = IF u = InitProc THEN first ELSE WakeOne(first, W, InitProc)
      /\ state' = [q \in Proc |-> IF q = p THEN "ZOMBIE"
                                  ELSE IF q \in W THEN "RUNNABLE" ELSE state[q]]
      /\ parent' = [q \in Proc |-> IF q \in children THEN InitProc ELSE parent[q]]
      /\ locked' = locked \ W
      /\ on' = [on EXCEPT ![c] = NULL] /\ holder' = c
      /\ UNCHANGED <<attrs, named, child, killed, pc, clock, level>>
  BY Current DEF Exit, Sched
<1>3. /\ W \subseteq {u, InitProc} /\ W \in SUBSET Proc
      /\ \A q \in W : state[q] = "SLEEPING"
  BY DEF Woken, InWait
<1> HIDE DEF W, children
<1>4. \A q \in W : Outside(Linked, q) BY <1>1, <1>3 DEF Outside, QueuesSound, Ready
<1>5. QueuesOK(first, Q1) BY <1>1, <1>3, <1>4, WakeOneOK DEF QueuesSound
<1>6. QueuesOK(rq', IF u = InitProc THEN Q1 ELSE Q2)
  <2>1. CASE u = InitProc BY <2>1, <1>2, <1>5
  <2>2. CASE u # InitProc
    <3>1. InitProc \in W => Outside(Q1, InitProc)
      BY <2>2, <1>1, <1>3, <1>4, LinkedType DEF Outside, With, TypeOK
    <3> HIDE DEF first, Q1
    <3>2. QueuesOK(WakeOne(first, W, InitProc), Q2) BY <3>1, <1>1, <1>3, <1>5, WakeOneOK
    <3> QED BY <3>2, <2>2, <1>2
  <2> QED BY <2>1, <2>2
<1> DEFINE Q == IF u = InitProc THEN Q1 ELSE Q2
           A(l) == {q \in W : qlevel[q] = l}
<1>7. \A l \in Level : Q[l] = Linked[l] \cup A(l)
  <2> TAKE l \in Level
  <2>1. Q1[l] = Linked[l] \cup {q \in W \cap {u} : qlevel[q] = l}
    BY LinkedType DEF With
  <2>2. Q1 \in [Level -> SUBSET Proc] BY LinkedType, <1>3 DEF With
  <2> HIDE DEF Q1
  <2>3. Q2[l] = Q1[l] \cup {q \in W \cap {InitProc} : qlevel[q] = l}
    BY <2>2 DEF With
  <2> HIDE DEF Q2
  <2>4. CASE u = InitProc
    <3>1. W \cap {u} = W BY <2>4, <1>3
    <3> QED BY <2>1, <3>1, <2>4
  <2>5. CASE u # InitProc
    <3>1. A(l) = {q \in W \cap {u} : qlevel[q] = l} \cup {q \in W \cap {InitProc} : qlevel[q] = l}
      BY <1>3
    <3>2. Q[l] = Q2[l] BY <2>5
    <3> HIDE DEF Q
    <3> QED BY <2>1, <2>3, <3>1, <3>2
  <2> QED BY <2>4, <2>5
<1>13. \A l \in Level : Ready'[l] = Ready[l] \cup A(l)
  BY <1>2, <1>3 DEF Ready, attrs
<1>14. QueuesOK(rq', Q) BY <1>6
<1> HIDE DEF Q, A
<1>8. QueuesKept
  <2>1. \A l \in Level : Q[l] \subseteq Ready'[l] BY <1>1, <1>7, <1>13 DEF QueuesSound
  <2>2. \A l \in Level : Q[l] \cap locked' = {}
    BY <1>1, <1>2, <1>7, LinkedUnlocked DEF A
  <2>3. Linked = Ready => Q = Ready'
    <3>1. Q = [l \in Level |-> Q[l]] BY <1>14 DEF QueuesOK
    <3>2. Ready' = [l \in Level |-> Ready'[l]] BY DEF Ready
    <3>3. Linked = Ready => \A l \in Level : Q[l] = Ready'[l] BY <1>7, <1>13
    <3> QED BY <3>1, <3>2, <3>3
  <2> QED BY <1>14, <2>1, <2>2, <2>3, KeptBy
<1>9. TypeOK'
  <2>1. rq' \in Lists BY <1>8 DEF QueuesKept, QueuesSound, QueuesOK
  <2>2. state' \in [Proc -> States] BY <1>1, <1>2 DEF TypeOK, States
  <2> QED BY <2>1, <2>2, <1>1, <1>2 DEF TypeOK, attrs, clock
<1>10. OneCpu' BY <1>1, <1>2, <1>3 DEF Core, TypeOK, OneCpu
<1>11. ForkOwnsChild' BY <1>1, <1>2, <1>3 DEF Core, TypeOK, ForkOwnsChild
<1>12. QuantumFitsLevel' BY <1>1, <1>2, <1>3 DEF Core, TypeOK, QuantumFitsLevel, attrs
<1> QED BY <1>8, <1>9, <1>10, <1>11, <1>12, CoreStep

LEMMA ReapStep ==
  ASSUME Core, NEW c \in CPU, NEW p \in Proc, Reap(c, p)
  PROVE  Core' /\ QueuesKept
<1> USE ConstantFacts
<1>1. PICK q \in Proc :
        /\ state[q] = "ZOMBIE"
        /\ state' = [state EXCEPT ![q] = "UNUSED"]
        /\ parent' = [parent EXCEPT ![q] = NULL]
        /\ killed' = killed \ {q}
        /\ named' = named \ {q}
  BY DEF Reap, First
<1>2. /\ holder' = NOCPU /\ pc' = [pc EXCEPT ![p] = "user"]
      /\ UNCHANGED <<attrs, child, locked, rq, on, level, clock>>
  BY DEF Reap
<1>3. TypeOK BY DEF Core
<1>4. QueuesKept
  <2>1. Ready' = Ready BY <1>1, <1>2, <1>3, ReadySame DEF TypeOK, attrs
  <2> QED BY <2>1, <1>2, QuietQueues
<1>5. TypeOK' BY <1>1, <1>2, <1>3 DEF TypeOK, States, Places, attrs, clock
<1>6. OneCpu' BY <1>1, <1>2, <1>3 DEF Core, TypeOK, OneCpu
<1>7. ForkOwnsChild' BY <1>1, <1>2, <1>3 DEF Core, TypeOK, ForkOwnsChild
<1>8. QuantumFitsLevel' BY <1>1, <1>2, <1>3 DEF Core, TypeOK, QuantumFitsLevel, attrs
<1> QED BY <1>4, <1>5, <1>6, <1>7, <1>8, CoreStep

LEMMA WaitFailsStep ==
  ASSUME Core, NEW c \in CPU, NEW p \in Proc, WaitFails(c, p)
  PROVE  Core' /\ QueuesKept
<1>0. Ready' = Ready /\ rq' = rq BY DEF WaitFails, Ready, attrs
<1>1. QueuesKept BY <1>0, QuietQueues DEF WaitFails
<1>2. TypeOK' BY DEF Core, WaitFails, TypeOK, Places, attrs, ident, clock
<1>3. OneCpu' BY DEF Core, WaitFails, OneCpu
<1>4. ForkOwnsChild' BY DEF Core, WaitFails, TypeOK, ForkOwnsChild, ident
<1>5. QuantumFitsLevel' BY DEF Core, WaitFails, QuantumFitsLevel, attrs
<1> QED BY <1>1, <1>2, <1>3, <1>4, <1>5, CoreStep

\* A process going to sleep, in wait() or in sys_sleep().
LEMMA FallAsleep ==
  ASSUME Core, NEW c \in CPU, NEW p \in Proc, Runs(c, p),
         NEW place \in Places \ {"fork"},
         state' = [state EXCEPT ![p] = "SLEEPING"],
         pc' = [pc EXCEPT ![p] = place], Sched(c),
         UNCHANGED <<attrs, ident, killed, locked, rq, clock>>
  PROVE  Core' /\ QueuesKept
<1> USE ConstantFacts
<1>1. /\ on[c] = p /\ state[p] = "RUNNING"
      /\ on' = [on EXCEPT ![c] = NULL] /\ holder' = c /\ level' = level
  BY Current DEF Sched
<1>2. TypeOK BY DEF Core
<1>3. QueuesKept
  <2>1. Ready' = Ready BY <1>1, <1>2, ReadySame DEF TypeOK, attrs
  <2> QED BY <2>1, QuietQueues
<1>4. TypeOK' BY <1>1, <1>2 DEF TypeOK, States, attrs, ident, clock
<1>5. OneCpu' BY <1>1, <1>2 DEF Core, TypeOK, OneCpu
<1>6. ForkOwnsChild' BY <1>1, <1>2 DEF Core, TypeOK, ForkOwnsChild, ident
<1>7. QuantumFitsLevel' BY <1>1, <1>2 DEF Core, TypeOK, QuantumFitsLevel, attrs
<1> QED BY <1>3, <1>4, <1>5, <1>6, <1>7, CoreStep

LEMMA WaitSleepStep ==
  ASSUME Core, NEW c \in CPU, NEW p \in Proc, WaitSleep(c, p)
  PROVE  Core' /\ QueuesKept
BY FallAsleep DEF WaitSleep, WaitLoop, Places

LEMMA SleepStep ==
  ASSUME Core, NEW c \in CPU, NEW p \in Proc, Sleep(c, p)
  PROVE  Core' /\ QueuesKept
BY FallAsleep DEF Sleep, Call, Places

LEMMA SleepReturnsStep ==
  ASSUME Core, NEW c \in CPU, NEW p \in Proc, SleepReturns(c, p)
  PROVE  Core' /\ QueuesKept
<1>0. Ready' = Ready /\ rq' = rq BY DEF SleepReturns, Ready, attrs
<1>1. QueuesKept BY <1>0, QuietQueues DEF SleepReturns
<1>2. TypeOK' BY DEF Core, SleepReturns, TypeOK, Places, attrs, ident, cpus, clock
<1>3. OneCpu' BY DEF Core, SleepReturns, OneCpu, cpus
<1>4. ForkOwnsChild' BY DEF Core, SleepReturns, TypeOK, ForkOwnsChild, ident
<1>5. QuantumFitsLevel' BY DEF Core, SleepReturns, QuantumFitsLevel, attrs
<1> QED BY <1>1, <1>2, <1>3, <1>4, <1>5, CoreStep

LEMMA YieldStep ==
  ASSUME Core, NEW c \in CPU, NEW p \in Proc, Yield(c, p)
  PROVE  Core' /\ QueuesKept
<1> USE ConstantFacts
<1>1. /\ on[c] = p /\ state[p] = "RUNNING" /\ TypeOK
      /\ on' = [on EXCEPT ![c] = NULL] /\ holder' = c /\ level' = level
      /\ state' = [state EXCEPT ![p] = "RUNNABLE"]
      /\ qlevel[p] \in Level
  BY Current DEF Core, TypeOK, Yield, Call, Sched
<1>2. QueuesKept
  <2>1. qlevel' = [qlevel EXCEPT ![p] = qlevel[p]] BY <1>1 DEF Yield, attrs, TypeOK
  <2>2. rq' = Enqueue(rq, p, qlevel[p], p \in locked, priority) BY DEF Yield, Queued
  <2>3. locked' = locked \ {p} BY DEF Yield
  <2> QED BY <1>1, <2>1, <2>2, <2>3, RequeueOK
<1>3. TypeOK'
  <2>1. rq' \in Lists BY <1>2 DEF QueuesKept, QueuesSound, QueuesOK
  <2> QED BY <2>1, <1>1 DEF Yield, TypeOK, States, attrs, ident, clock
<1>4. OneCpu' BY <1>1 DEF Core, TypeOK, OneCpu
<1>5. ForkOwnsChild' BY <1>1 DEF Core, TypeOK, ForkOwnsChild, Yield, ident
<1>6. QuantumFitsLevel' BY <1>1 DEF Core, TypeOK, QuantumFitsLevel, Yield, attrs
<1> QED BY <1>2, <1>3, <1>4, <1>5, <1>6, CoreStep
-----------------------------------------------------------------------------
\* kill() of a sleeping process adds to those that should be queued, and to no queue.
LEMMA KillStep ==
  ASSUME Core, NEW c \in CPU, NEW p \in Proc, NEW q \in Proc, Kill(c, p, q)
  PROVE  Core'
<1> USE ConstantFacts
<1>1. /\ TypeOK /\ killed' = killed \cup {q}
      /\ state' = [state EXCEPT ![q] = IF @ = "SLEEPING" THEN "RUNNABLE" ELSE @]
      /\ UNCHANGED <<attrs, ident, locked, pc, rq, cpus, clock>>
  BY DEF Core, Kill
<1>2. \A r \in Proc : /\ state'[r] = state[r] \/ (state[r] = "SLEEPING" /\ state'[r] = "RUNNABLE")
                      /\ state'[r] \in States
  BY <1>1 DEF TypeOK, States
<1>3. TypeOK' BY <1>1, <1>2 DEF TypeOK, attrs, ident, cpus, clock
<1>4. OneCpu' BY <1>1, <1>2 DEF Core, TypeOK, OneCpu, cpus
<1>5. ForkOwnsChild' BY <1>1, <1>2 DEF Core, TypeOK, ForkOwnsChild, ident
<1>6. QuantumFitsLevel' BY <1>1, <1>2 DEF Core, TypeOK, QuantumFitsLevel, attrs
<1>7. OnlyRunnableQueued' BY <1>1, <1>2 DEF Core, OnlyRunnableQueued, attrs
<1>8. NoLockInQueue' BY <1>1 DEF Core, NoLockInQueue
<1>9. \A l \in Level : QueueOK(rq', l, OnQueue(rq', l)) BY <1>1 DEF Core
<1> QED BY <1>3, <1>4, <1>5, <1>6, <1>7, <1>8, <1>9 DEF Core

\* setPriority moves a process of L2 to its new place there; one that was in no
\* queue comes back.
LEMMA SetPriorityStep ==
  ASSUME "setPriority" \notin Calls, Core, NEW c \in CPU, NEW p \in Proc,
         NEW q \in Proc, NEW new \in Priorities, SetPriority(c, p, q, new)
  PROVE  Core' /\ QueuesKept
<1> USE ConstantFacts
<1> DEFINE moved == qlevel[q] = 2 /\ state[q] = "RUNNABLE"
<1>1. /\ TypeOK /\ QueuesSound
      /\ rq.tail[2] = q => rq.head[2] = q
      /\ priority' = [priority EXCEPT ![q] = new]
      /\ rq' = IF moved THEN Reposition(rq, q, q \in locked, priority') ELSE rq
      /\ locked' = IF moved THEN locked \ {q} ELSE locked
      /\ UNCHANGED <<state, qlevel, timequantum, ident, killed, pc, cpus, clock>>
  BY CoreSound DEF Core, SetPriority, CallOfSetPriority, Call, LastOfMany
<1>2. Ready' = Ready BY <1>1, ReadySame
<1>3. QueuesKept
  <2>1. CASE moved
    <3> DEFINE Q == With(Linked, 2, q)
    <3>1. q \in Ready[2] /\ q \notin Ready[0] \cup Ready[1] BY <2>1 DEF Ready
    <3>2. q \notin Linked[0] \cup Linked[1] BY <3>1, <1>1 DEF QueuesSound
    <3>3. QueuesOK(Reposition(rq, q, q \in locked, priority'), Q)
      BY <3>2, <1>1, RepositionOK DEF QueuesSound
    <3>4. \A l \in Level : Q[l] = Linked[l] \cup (IF l = 2 THEN {q} ELSE {})
      BY LinkedType DEF With
    <3>5. \A l \in Level : Q[l] \subseteq Ready'[l] BY <3>1, <3>4, <1>1, <1>2 DEF QueuesSound
    <3>6. \A l \in Level : Q[l] \cap locked' = {} BY <3>4, <2>1, <1>1, LinkedUnlocked
    <3>7. Linked = Ready => Q = Ready' BY <3>1, <1>2, ReadyType DEF With
    <3> HIDE DEF Q
    <3>8. QueuesOK(rq', Q) BY <3>3, <2>1, <1>1
    <3> QED BY <3>5, <3>6, <3>7, <3>8, KeptBy
  <2>2. CASE ~moved BY <2>2, <1>1, <1>2, QuietQueues
  <2> QED BY <2>1, <2>2
<1>4. TypeOK'
  <2>1. rq' \in Lists BY <1>3 DEF QueuesKept, QueuesSound, QueuesOK
  <2>2. priority' \in [Proc -> Int] BY <1>1, MLFQAssumption DEF TypeOK
  <2>3. locked' \subseteq Proc BY <1>1 DEF TypeOK
  <2> QED BY <2>1, <2>2, <2>3, <1>1 DEF TypeOK, ident, cpus, clock
<1>5. OneCpu' BY <1>1 DEF Core, OneCpu, cpus
<1>6. ForkOwnsChild' BY <1>1 DEF Core, ForkOwnsChild, ident
<1>7. QuantumFitsLevel' BY <1>1 DEF Core, QuantumFitsLevel
<1> QED BY <1>3, <1>4, <1>5, <1>6, <1>7, CoreStep

-----------------------------------------------------------------------------
\* The scheduler lock.
LEMMA SchedulerLockStep ==
  ASSUME Core, NEW c \in CPU, NEW p \in Proc, SchedulerLock(c, p)
  PROVE  Core' /\ QueuesKept
<1>0. Ready' = Ready /\ rq' = rq BY DEF SchedulerLock, Ready, attrs
<1>1. QueuesKept
  <2>1. state[p] = "RUNNING" BY Current DEF SchedulerLock, Call
  <2> QED BY <2>1, <1>0, QuietQueues DEF SchedulerLock
<1>2. TypeOK' BY DEF Core, SchedulerLock, TypeOK, Places, attrs, ident, cpus, clock
<1>3. OneCpu' BY DEF Core, SchedulerLock, OneCpu, cpus
<1>4. ForkOwnsChild' BY DEF Core, SchedulerLock, TypeOK, ForkOwnsChild, ident
<1>5. QuantumFitsLevel' BY DEF Core, SchedulerLock, QuantumFitsLevel, attrs
<1> QED BY <1>1, <1>2, <1>3, <1>4, <1>5, CoreStep

LEMMA ResetTicksStep ==
  ASSUME Core, NEW c \in CPU, NEW p \in Proc, ResetTicks(c, p)
  PROVE  Core' /\ QueuesKept
<1>0. Ready' = Ready /\ rq' = rq BY DEF ResetTicks, Ready, attrs
<1>1. QueuesKept BY <1>0, QuietQueues DEF ResetTicks
<1>2. TypeOK'
  <2>1. ticks' \in 0 .. BoostTicks - 1 BY ConstantFacts DEF ResetTicks
  <2> QED BY <2>1 DEF Core, ResetTicks, TypeOK, Places, attrs, ident, cpus
<1>3. OneCpu' BY DEF Core, ResetTicks, OneCpu, cpus
<1>4. ForkOwnsChild' BY DEF Core, ResetTicks, TypeOK, ForkOwnsChild, ident
<1>5. QuantumFitsLevel' BY DEF Core, ResetTicks, QuantumFitsLevel, attrs
<1> QED BY <1>1, <1>2, <1>3, <1>4, <1>5, CoreStep

LEMMA SchedulerUnlockStep ==
  ASSUME Core, NEW c \in CPU, NEW p \in Proc, SchedulerUnlock(c, p)
  PROVE  Core' /\ QueuesKept
<1> USE ConstantFacts
<1>1. /\ on[c] = p /\ state[p] = "RUNNING" /\ TypeOK
      /\ on' = [on EXCEPT ![c] = NULL] /\ holder' = c /\ level' = level
      /\ state' = [state EXCEPT ![p] = "RUNNABLE"]
      /\ qlevel' = [qlevel EXCEPT ![p] = 0]
      /\ timequantum' = [timequantum EXCEPT ![p] = BaseQuantum]
      /\ priority' = [priority EXCEPT ![p] = TopPriority]
  BY Current DEF Core, SchedulerUnlock, Call, Sched
<1>2. QueuesKept
  <2>1. rq' = Enqueue(rq, p, 0, p \in locked, priority') /\ locked' = locked \ {p}
    BY DEF SchedulerUnlock, Queued
  <2> QED BY <1>1, <2>1, RequeueOK
<1>3. TypeOK'
  <2>1. rq' \in Lists BY <1>2 DEF QueuesKept, QueuesSound, QueuesOK
  <2>2. BaseQuantum \in 0 .. BaseQuantum + 2 * QuantumStep OBVIOUS
  <2>3. timequantum' \in [Proc -> 0 .. BaseQuantum + 2 * QuantumStep]
    BY <2>2, <1>1 DEF TypeOK
  <2> QED BY <2>1, <2>3, <1>1 DEF SchedulerUnlock, TypeOK, States, ident, clock
<1>4. OneCpu' BY <1>1 DEF Core, TypeOK, OneCpu
<1>5. ForkOwnsChild' BY <1>1 DEF Core, TypeOK, ForkOwnsChild, SchedulerUnlock, ident
<1>6. QuantumFitsLevel'
  <2>1. BaseQuantum \in 1 .. BaseQuantum + QuantumStep * 0 OBVIOUS
  <2> QED BY <2>1, <1>1 DEF Core, TypeOK, QuantumFitsLevel
<1> QED BY <1>2, <1>3, <1>4, <1>5, <1>6, CoreStep

-----------------------------------------------------------------------------
\* The timer interrupt.
LEMMA TickStep ==
  ASSUME Core, Tick
  PROVE  Core' /\ QueuesKept
<1>0. Ready' = Ready /\ rq' = rq BY DEF Tick, Ready, attrs
<1>1. QueuesKept BY <1>0, QuietQueues DEF Tick
<1>2. TypeOK'
  <2>1. ticks' \in 0 .. BoostTicks - 1 BY ConstantFacts DEF Core, TypeOK, Tick
  <2> QED BY <2>1 DEF Core, Tick, TypeOK, attrs, ident, cpus
<1>3. OneCpu' BY DEF Core, Tick, OneCpu, cpus
<1>4. ForkOwnsChild' BY DEF Core, Tick, TypeOK, ForkOwnsChild, ident
<1>5. QuantumFitsLevel' BY DEF Core, Tick, QuantumFitsLevel, attrs
<1> QED BY <1>1, <1>2, <1>3, <1>4, <1>5, CoreStep

LEMMA TickBoostStep ==
  ASSUME Core, TickBoost
  PROVE  Core' /\ QueuesKept
<1> USE ConstantFacts
<1>1. /\ TypeOK /\ QueuesSound
      /\ UNCHANGED <<state, ident, killed, pc, cpus>>
      /\ rq' = JoinQueues(rq)
      /\ qlevel' = [q \in Proc |-> IF q \in Boosted THEN 0 ELSE qlevel[q]]
      /\ priority' = [q \in Proc |-> IF q \in Boosted THEN TopPriority ELSE priority[q]]
      /\ timequantum' = [q \in Proc |-> IF q \in Boosted THEN BaseQuantum
                                        ELSE timequantum[q]]
  BY CoreSound DEF Core, TickBoost
<1>2. \A q \in Proc : state[q] = "RUNNABLE" => q \in Boosted BY DEF Boosted
<1>3. Ready' = [l \in Level |-> IF l = 0 THEN Ready[0] \cup Ready[1] \cup Ready[2] ELSE {}]
  <2>1. \A q \in Proc : qlevel[q] = 0 \/ qlevel[q] = 1 \/ qlevel[q] = 2
    BY <1>1 DEF TypeOK
  <2>2. ASSUME NEW l \in Level
        PROVE  Ready'[l] = IF l = 0 THEN Ready[0] \cup Ready[1] \cup Ready[2] ELSE {}
    BY <2>1, <1>1, <1>2 DEF Ready
  <2>3. Ready' = [l \in Level |-> Ready'[l]] BY DEF Ready
  <2> QED BY <2>2, <2>3
<1> DEFINE Q == [l \in Level |-> IF l = 0 THEN Linked[0] \cup Linked[1] \cup Linked[2] ELSE {}]
<1>4. QueuesKept
  <2>1. QueuesOK(rq', Q) BY <1>1, JoinOK DEF QueuesSound
  <2>2. \A l \in Level : Q[l] \subseteq Ready'[l] BY <1>1, <1>3 DEF QueuesSound
  <2>3. \A l \in Level : Q[l] \cap locked' = {} BY <1>1, LinkedUnlocked DEF TickBoost
  <2>4. Linked = Ready => Q = Ready' BY <1>3
  <2> HIDE DEF Q
  <2> QED BY <2>1, <2>2, <2>3, <2>4, KeptBy
<1>5. TypeOK'
  <2>1. rq' \in Lists BY <1>4 DEF QueuesKept, QueuesSound, QueuesOK
  <2>2. BaseQuantum \in 0 .. BaseQuantum + 2 * QuantumStep OBVIOUS
  <2>3. timequantum' \in [Proc -> 0 .. BaseQuantum + 2 * QuantumStep]
    BY <2>2, <1>1 DEF TypeOK
  <2>4. qlevel' \in [Proc -> Level] /\ priority' \in [Proc -> Int]
    BY <1>1 DEF TypeOK
  <2>5. ticks' \in 0 .. BoostTicks - 1 /\ intr' = "boosted" /\ locked' \subseteq Proc
    BY <1>1 DEF TickBoost, TypeOK
  <2> QED BY <2>1, <2>3, <2>4, <2>5, <1>1 DEF TypeOK, ident, cpus
<1>6. OneCpu' BY <1>1 DEF Core, OneCpu, cpus
<1>7. ForkOwnsChild' BY <1>1 DEF Core, ForkOwnsChild, ident
<1>8. QuantumFitsLevel'
  <2>1. BaseQuantum \in 1 .. BaseQuantum + QuantumStep * 0 OBVIOUS
  <2> QED BY <2>1, <1>1 DEF Core, TypeOK, QuantumFitsLevel
<1> QED BY <1>4, <1>5, <1>6, <1>7, <1>8, CoreStep

LEMMA TickWakeupStep ==
  ASSUME Core, TickWakeup
  PROVE  Core' /\ QueuesKept
<1> USE ConstantFacts
<1>1. PICK q \in Proc :
        /\ state[q] = "SLEEPING" /\ pc[q] = "sleep"
        /\ state' = [state EXCEPT ![q] = "RUNNABLE"]
        /\ rq' = Enqueue(rq, q, qlevel[q], q \in locked, priority)
        /\ locked' = locked \ {q}
  BY DEF TickWakeup, First, OnTicks, Queued
<1>2. /\ TypeOK /\ holder' = 0
      /\ UNCHANGED <<attrs, ident, killed, pc, on, level, clock>>
  BY DEF Core, TickWakeup
<1>3. QueuesKept
  <2>1. /\ state[q] # "RUNNABLE" /\ state'[q] = "RUNNABLE" /\ qlevel'[q] = qlevel[q]
        /\ qlevel[q] \in Level
        /\ \A r \in Proc \ {q} : /\ state'[r] = "RUNNABLE" <=> state[r] = "RUNNABLE"
                                 /\ qlevel'[r] = qlevel[r]
    BY <1>1, <1>2 DEF TypeOK, attrs
  <2> QED BY <1>1, <1>2, <2>1, EnqueueReady
<1>4. TypeOK'
  <2>1. rq' \in Lists BY <1>3 DEF QueuesKept, QueuesSound, QueuesOK
  <2> QED BY <2>1, <1>1, <1>2 DEF TypeOK, States, attrs, ident, clock
<1>5. OneCpu' BY <1>1, <1>2 DEF Core, TypeOK, OneCpu
<1>6. ForkOwnsChild' BY <1>1, <1>2 DEF Core, TypeOK, ForkOwnsChild, ident
<1>7. QuantumFitsLevel' BY <1>1, <1>2 DEF Core, TypeOK, QuantumFitsLevel, attrs
<1> QED BY <1>3, <1>4, <1>5, <1>6, <1>7, CoreStep

\* What a process is left with after being charged a tick.
LEMMA ChargeOK ==
  ASSUME Core, NEW p \in Proc, state[p] = "RUNNING", Charge(p), state'[p] # "UNUSED",
         \A q \in Proc \ {p} : state'[q] = state[q]
  PROVE  /\ qlevel' \in [Proc -> Level]
         /\ priority' \in [Proc -> Int]
         /\ timequantum' \in [Proc -> 0 .. BaseQuantum + 2 * QuantumStep]
         /\ qlevel' = [qlevel EXCEPT ![p] = qlevel'[p]] /\ qlevel'[p] \in Level
         /\ QuantumFitsLevel'
<1> USE ConstantFacts
<1>1. TypeOK /\ qlevel[p] \in Level /\ priority[p] \in Int
  BY DEF Core, TypeOK
<1>2. timequantum[p] \in 1 .. BaseQuantum + QuantumStep * qlevel[p]
  BY DEF Core, QuantumFitsLevel
<1>3. \A l \in Level : /\ QuantumStep * l \in Nat /\ QuantumStep * l <= 2 * QuantumStep
                       /\ QuantumStep * 0 = 0 /\ QuantumStep * 1 = QuantumStep
  OBVIOUS
<1>4. CASE timequantum[p] = 1
  <2> DEFINE d == Down(qlevel[p])
             t == QuantumStep * d + BaseQuantum
  <2>1. /\ qlevel' = [qlevel EXCEPT ![p] = d]
        /\ timequantum' = [timequantum EXCEPT ![p] = t]
        /\ priority' = [priority EXCEPT ![p] =
                          IF qlevel[p] = 2 /\ @ # 0 THEN @ - 1 ELSE @]
    BY <1>4 DEF Charge
  <2>2. d \in Level BY <1>1 DEF Down
  <2> HIDE DEF d
  <2>3. QuantumStep * d \in Nat /\ QuantumStep * d <= 2 * QuantumStep BY <2>2, <1>3
  <2>4. t \in 0 .. BaseQuantum + 2 * QuantumStep /\ t \in 1 .. BaseQuantum + QuantumStep * d
    BY <2>3
  <2> HIDE DEF t
  <2>5. (IF qlevel[p] = 2 /\ priority[p] # 0 THEN priority[p] - 1 ELSE priority[p])
          \in Int
    BY <1>1
  <2>6. priority' \in [Proc -> Int] BY <2>1, <2>5, <1>1 DEF TypeOK
  <2>7. qlevel'[p] = d /\ timequantum'[p] = t BY <2>1, <1>1 DEF TypeOK
  <2>8. QuantumFitsLevel'
    <3> SUFFICES ASSUME NEW q \in Proc, state'[q] # "UNUSED"
                 PROVE  timequantum'[q] \in 1 .. BaseQuantum + QuantumStep * qlevel'[q]
      BY DEF QuantumFitsLevel
    <3>1. CASE q = p BY <3>1, <2>4, <2>7
    <3>2. CASE q # p
      <4>1. timequantum[q] \in 1 .. BaseQuantum + QuantumStep * qlevel[q]
        BY <3>2 DEF Core, QuantumFitsLevel
      <4>2. timequantum'[q] = timequantum[q] /\ qlevel'[q] = qlevel[q]
        BY <3>2, <2>1, <1>1 DEF TypeOK
      <4> QED BY <4>1, <4>2
    <3> QED BY <3>1, <3>2
  <2> QED BY <2>1, <2>2, <2>4, <2>6, <2>7, <2>8, <1>1 DEF TypeOK
<1>5. CASE timequantum[p] # 1
  <2> DEFINE t == timequantum[p] - 1
             top == BaseQuantum + QuantumStep * qlevel[p]
  <2>1. /\ qlevel' = qlevel /\ priority' = priority
        /\ timequantum' = [timequantum EXCEPT ![p] = t]
    BY <1>5 DEF Charge
  <2>2. top \in Nat /\ top <= BaseQuantum + 2 * QuantumStep /\ timequantum[p] \in 1 .. top
    BY <1>1, <1>2, <1>3
  <2> HIDE DEF top
  <2>3. t \in 1 .. top /\ t \in 0 .. BaseQuantum + 2 * QuantumStep BY <2>2, <1>5
  <2> HIDE DEF t
  <2>4. timequantum' \in [Proc -> 0 .. BaseQuantum + 2 * QuantumStep]
    BY <2>1, <2>3, <1>1 DEF TypeOK
  <2>5. QuantumFitsLevel'
    <3> SUFFICES ASSUME NEW q \in Proc, state'[q] # "UNUSED"
                 PROVE  timequantum'[q] \in 1 .. BaseQuantum + QuantumStep * qlevel'[q]
      BY DEF QuantumFitsLevel
    <3>1. CASE q = p
      <4>1. timequantum'[q] = t /\ qlevel'[q] = qlevel[p] BY <3>1, <2>1, <1>1 DEF TypeOK
      <4> QED BY <4>1, <2>3 DEF top
    <3>2. CASE q # p
      <4>1. timequantum[q] \in 1 .. BaseQuantum + QuantumStep * qlevel[q]
        BY <3>2 DEF Core, QuantumFitsLevel
      <4>2. timequantum'[q] = timequantum[q] /\ qlevel'[q] = qlevel[q]
        BY <3>2, <2>1, <1>1 DEF TypeOK
      <4> QED BY <4>1, <4>2
    <3> QED BY <3>1, <3>2
  <2> QED BY <2>1, <2>4, <2>5, <1>1 DEF TypeOK
<1> QED BY <1>4, <1>5
LEMMA TrapEndStep ==
  ASSUME Core, NEW c \in CPU, NEW boosted, TrapEnd(c, boosted),
         UNCHANGED <<ident, killed, ticks>>, intr' \in {"none", "wakeup", "boosted"}
  PROVE  Core' /\ QueuesKept
<1> USE ConstantFacts
<1> DEFINE p == on[c]
<1>1. TypeOK /\ p \in Proc \cup {NULL} BY DEF Core, TypeOK
<1>2. ReleaseIfHeld(c) => on' = on /\ level' = level /\ holder' \in CPU \cup {NOCPU}
  BY <1>1 DEF ReleaseIfHeld, TypeOK
<1>3. CASE /\ pc' = pc \/ (p # NULL /\ pc[p] = "user" /\ pc' = [pc EXCEPT ![p] = "exit"])
           /\ ReleaseIfHeld(c) /\ UNCHANGED <<state, attrs, locked, rq>>
  <2>1. QueuesKept
    <3>1. Ready' = Ready BY <1>3 DEF Ready, attrs
    <3> QED BY <3>1, <1>3, QuietQueues
  <2>2. pc' \in [Proc -> Places] /\ \A q \in Proc : pc'[q] = "fork" <=> pc[q] = "fork"
    BY <1>1, <1>3 DEF TypeOK, Places
  <2>3. TypeOK' BY <1>1, <1>2, <1>3, <2>2 DEF TypeOK, attrs, ident
  <2>4. OneCpu' BY <1>2, <1>3 DEF Core, OneCpu
  <2>5. ForkOwnsChild' BY <1>3, <2>2 DEF Core, ForkOwnsChild, ident
  <2>6. QuantumFitsLevel' BY <1>3 DEF Core, QuantumFitsLevel, attrs
  <2> QED BY <2>1, <2>3, <2>4, <2>5, <2>6, CoreStep
<1>4. CASE p # NULL /\ Charge(p) /\ ReleaseIfHeld(c) /\ UNCHANGED <<state, locked, pc, rq>>
  <2>1. p \in Proc /\ state[p] = "RUNNING" BY <1>1, <1>4 DEF Core, OneCpu
  <2> HIDE DEF p
  <2>2. /\ qlevel' \in [Proc -> Level]
        /\ priority' \in [Proc -> Int]
        /\ timequantum' \in [Proc -> 0 .. BaseQuantum + 2 * QuantumStep]
        /\ qlevel' = [qlevel EXCEPT ![p] = qlevel'[p]]
        /\ QuantumFitsLevel'
    BY <1>4, <2>1, ChargeOK
  <2>3. \A q \in Proc : state[q] = "RUNNABLE" => qlevel'[q] = qlevel[q]
    BY <2>1, <2>2, <1>1 DEF TypeOK
  <2>4. QueuesKept
    <3>1. Ready' = Ready BY <1>4, <2>3, ReadySame
    <3> QED BY <3>1, <1>4, QuietQueues
  <2>5. TypeOK' BY <1>1, <1>2, <1>4, <2>2 DEF TypeOK, ident
  <2>6. OneCpu' BY <1>2, <1>4 DEF Core, OneCpu
  <2>7. ForkOwnsChild' BY <1>4 DEF Core, ForkOwnsChild, ident
  <2> QED BY <2>2, <2>4, <2>5, <2>6, <2>7, CoreStep
<1>5. CASE /\ p # NULL /\ Charge(p)
           /\ state' = [state EXCEPT ![p] = "RUNNABLE"]
           /\ rq' = Queued(rq, p, qlevel'[p], priority')
           /\ locked' = locked \ {p} /\ Sched(c) /\ UNCHANGED pc
  <2>1. p \in Proc /\ state[p] = "RUNNING" BY <1>1, <1>5 DEF Core, OneCpu
  <2>2. on[c] = p OBVIOUS
  <2> HIDE DEF p
  <2>3. state'[p] = "RUNNABLE" /\ \A q \in Proc \ {p} : state'[q] = state[q]
    BY <1>1, <1>5, <2>1 DEF TypeOK
  <2>4. /\ qlevel' \in [Proc -> Level]
        /\ priority' \in [Proc -> Int]
        /\ timequantum' \in [Proc -> 0 .. BaseQuantum + 2 * QuantumStep]
        /\ qlevel' = [qlevel EXCEPT ![p] = qlevel'[p]] /\ qlevel'[p] \in Level
        /\ QuantumFitsLevel'
    BY <1>5, <2>1, <2>3, ChargeOK
  <2>5. QueuesKept
    <3>1. rq' = Enqueue(rq, p, qlevel'[p], p \in locked, priority') BY <1>5 DEF Queued
    <3>2. PICK l \in Level : l = qlevel'[p] BY <2>4
    <3>3. qlevel' = [qlevel EXCEPT ![p] = l] BY <3>2, <2>4
    <3>4. rq' = Enqueue(rq, p, l, p \in locked, priority') BY <3>1, <3>2
    <3>5. state' = [state EXCEPT ![p] = "RUNNABLE"] /\ locked' = locked \ {p} BY <1>5
    <3> QED BY <3>3, <3>4, <3>5, <2>1, <2>2, RequeueOK
  <2>6. TypeOK'
    <3>1. rq' \in Lists BY <2>5 DEF QueuesKept, QueuesSound, QueuesOK
    <3>2. state' \in [Proc -> States] BY <1>1, <1>5 DEF TypeOK, States
    <3> QED BY <3>1, <3>2, <1>1, <1>5, <2>4 DEF TypeOK, Sched, ident
  <2>7. OneCpu' BY <1>1, <1>5, <2>1, <2>2 DEF Core, TypeOK, OneCpu, Sched
  <2>8. ForkOwnsChild' BY <1>1, <1>5, <2>1, <2>3 DEF Core, ForkOwnsChild, ident
  <2> QED BY <2>4, <2>5, <2>6, <2>7, <2>8, CoreStep
<1> QED BY <1>3, <1>4, <1>5 DEF TrapEnd

-----------------------------------------------------------------------------
-----------------------------------------------------------------------------
\* The workload of the first theorems: any system calls, those of setPriority only
\* where the process is not the last of several in L2.
NoTailCut == "setPriority" \notin Calls

\* That of the others: no kill either.
Supported == Calls \cap {"kill", "setPriority"} = {}

LEMMA UnchangedStep == ASSUME Core, UNCHANGED vars PROVE Core' /\ QueuesKept
<1>1. QueuesKept
  <2>1. Ready' = Ready /\ rq' = rq /\ locked' = locked BY DEF vars, attrs, Ready
  <2> QED BY <2>1, QuietQueues
<1>2. TypeOK' BY DEF Core, TypeOK, vars, attrs, ident, cpus, clock
<1>3. OneCpu' BY DEF Core, OneCpu, vars, cpus
<1>4. ForkOwnsChild' BY DEF Core, ForkOwnsChild, vars, ident
<1>5. QuantumFitsLevel' BY DEF Core, QuantumFitsLevel, vars, attrs
<1> QED BY <1>1, <1>2, <1>3, <1>4, <1>5, CoreStep

\* Every step keeps the inductive invariant, and every step but kill() leaves all
\* RUNNABLE processes in their queues.
LEMMA CoreInductive ==
  ASSUME NoTailCut, Core, [Next]_vars
  PROVE  Core' /\ ("kill" \notin Calls => QueuesKept)
<1> USE ConstantFacts
<1> DEFINE Goal == Core' /\ ("kill" \notin Calls => QueuesKept)
<1>1. CASE Timer
  <2>1. CASE Tick BY <2>1, TickStep
  <2>2. CASE TickBoost BY <2>2, TickBoostStep
  <2>3. CASE TickWakeup BY <2>3, TickWakeupStep
  <2>4. CASE TickEnd BY <2>4, TrapEndStep DEF TickEnd
  <2> QED BY <1>1, <2>1, <2>2, <2>3, <2>4 DEF Timer
<1>2. ASSUME NEW c \in CPU, Scheduler(c) \/ OtherTimer(c)
      PROVE  Goal
  <2>1. CASE Dispatch(c) BY <2>1, DispatchStep
  <2>2. CASE NextLevel(c) BY <2>2, NextLevelStep
  <2>3. CASE OtherTimer(c)
    <3>1. UNCHANGED <<ident, killed, ticks>> /\ intr' \in {"none", "wakeup", "boosted"}
      BY <2>3 DEF OtherTimer, clock, Core, TypeOK
    <3> QED BY <3>1, <2>3, TrapEndStep DEF OtherTimer
  <2> QED BY <1>2, <2>1, <2>2, <2>3 DEF Scheduler
<1>3. ASSUME NEW c \in CPU, NEW p \in Proc, Process(c, p)
      PROVE  Goal
  <2>1. CASE ForkAlloc(c, p) BY <2>1, ForkAllocStep
  <2>2. CASE ForkFail(c, p) BY <2>2, ForkFailStep
  <2>3. CASE ForkDone(c, p) BY <2>3, ForkDoneStep
  <2>4. CASE BeginExit(c, p) BY <2>4, BeginExitStep
  <2>5. CASE Exit(c, p) BY <2>5, ExitStep
  <2>6. CASE Reap(c, p) BY <2>6, ReapStep
  <2>7. CASE WaitFails(c, p) BY <2>7, WaitFailsStep
  <2>8. CASE WaitSleep(c, p) BY <2>8, WaitSleepStep
  <2>9. CASE Sleep(c, p) BY <2>9, SleepStep
  <2>10. CASE SleepReturns(c, p) BY <2>10, SleepReturnsStep
  <2>11. CASE Yield(c, p) BY <2>11, YieldStep
  <2>12. CASE \E q \in Proc : Kill(c, p, q) BY <2>12, KillStep DEF Kill, Call
  <2>13. CASE \E q \in Proc, new \in Priorities : SetPriority(c, p, q, new)
    BY <2>13, SetPriorityStep DEF NoTailCut
  <2>14. CASE SchedulerLock(c, p) BY <2>14, SchedulerLockStep
  <2>15. CASE ResetTicks(c, p) BY <2>15, ResetTicksStep
  <2>16. CASE SchedulerUnlock(c, p) BY <2>16, SchedulerUnlockStep
  <2> QED BY <1>3, <2>1, <2>2, <2>3, <2>4, <2>5, <2>6, <2>7, <2>8, <2>9, <2>10, <2>11,
             <2>12, <2>13, <2>14, <2>15, <2>16 DEF Process
<1>4. CASE UNCHANGED vars BY <1>4, UnchangedStep
<1> QED BY <1>1, <1>2, <1>3, <1>4 DEF Next

\* With setPriority and kill among the calls: each queue is a list of RUNNABLE
\* processes of its level without the scheduler lock, every RUNNING process is on
\* one CPU, and every fork() under way owns the EMBRYO it filled in.
THEOREM CoreInvariance ==
  ASSUME NoTailCut
  PROVE  Spec => []Core
<1>1. Init => Core BY InitStep
<1>2. Core /\ [Next]_vars => Core' BY CoreInductive
<1> QED BY <1>1, <1>2, PTL DEF Spec

\* What a queue holds may run and is on its level, so that scheduler() never takes
\* a process that sleeps, is dead or has a CPU (proc.c, callers of Enqueue).
THEOREM OnlyRunnable ==
  ASSUME NoTailCut
  PROVE  Spec => []OnlyRunnableQueued
<1>1. Core => OnlyRunnableQueued BY DEF Core
<1> QED BY <1>1, CoreInvariance, PTL

\* A process in a queue has no claim to the CPU left: Enqueue is followed by
\* schedLock = 0 wherever it is called, and kill(), which makes a sleeping holder
\* RUNNABLE, queues nobody (proc.c, Enqueue and its callers).
THEOREM QueuesUnlocked ==
  ASSUME NoTailCut
  PROVE  Spec => []NoLockInQueue
<1>1. Core => NoLockInQueue BY DEF Core
<1> QED BY <1>1, CoreInvariance, PTL

\* The fields of the processes and of the scheduler keep their ranges: qlevel
\* never leaves 0..2, the quantum stays that of the levels
\* (trap.c:143-150), and the lists link slots of the table.
THEOREM TypeCorrect ==
  ASSUME NoTailCut
  PROVE  Spec => []TypeOK
<1>1. Core => TypeOK BY DEF Core
<1> QED BY <1>1, CoreInvariance, PTL

\* The tail of each queue is its last element, and a queue with no element has
\* none: an append never cuts off part of the queue (proc.c:800-808).
THEOREM TailLast ==
  ASSUME NoTailCut
  PROVE  Spec => []TailIsLast
<1>1. Core => TailIsLast
  <2> SUFFICES ASSUME Core, NEW p \in Proc, NEW l \in Level
               PROVE  rq.tail[l] = p <=> (p \in OnQueue(rq, l) /\ rq.next[p] = NULL)
    BY DEF TailIsLast
  <2>1. ListOK(rq.head[l], rq.tail[l], rq.next, OnQueue(rq, l)) BY DEF Core, QueueOK
  <2> QED BY <2>1, NullNotProc DEF ListOK
<1> QED BY <1>1, CoreInvariance, PTL

\* A process executes on at most one CPU, and only while it is RUNNING
\* (scheduler and sched, proc.c:362-440), for any number of CPUs.
THEOREM OneCpuEach ==
  ASSUME NoTailCut
  PROVE  Spec => []OneCpu
<1>1. Core => OneCpu BY DEF Core
<1> QED BY <1>1, CoreInvariance, PTL

\* The quantum left is always positive and at most the quantum of the level, so
\* the decrement of trap.c:142 never passes zero unseen.
THEOREM QuantumBounded ==
  ASSUME NoTailCut
  PROVE  Spec => []QuantumFitsLevel
<1>1. Core => QuantumFitsLevel BY DEF Core
<1> QED BY <1>1, CoreInvariance, PTL

-----------------------------------------------------------------------------
(* Nobody is lost *)

LEMMA WholeQueues == TypeOK => (RunnableQueued <=> Linked = Ready)
<1> SUFFICES ASSUME TypeOK PROVE RunnableQueued <=> Linked = Ready OBVIOUS
<1>1. \A l \in Level : Linked[l] = OnQueue(rq, l) /\ Linked[l] \in SUBSET Proc
  BY LinkedType DEF Linked
<1>2. RunnableQueued => \A l \in Level : Linked[l] = Ready[l]
  BY <1>1, ReadyType DEF RunnableQueued, Ready
<1>3. Linked = Ready => RunnableQueued BY <1>1 DEF RunnableQueued, Ready
<1> QED BY <1>2, <1>3 DEF Linked, Ready

LEMMA IInvReady == IInv => QueuesOK(rq, Ready) /\ Core
BY WholeQueues, CoreSound DEF IInv, Core, QueuesSound

\* Walking a queue visits the processes it should hold.
LEMMA QueueElements ==
  ASSUME QueuesOK(rq, Ready), NEW l \in Level
  PROVE  OnQueue(rq, l) = Ready[l]
BY Walked

LEMMA Inductive ==
  ASSUME Supported, IInv, [Next]_vars
  PROVE  IInv'
<1>1. Core /\ Linked = Ready BY WholeQueues DEF IInv, Core
<1>2. Core' /\ QueuesKept BY <1>1, CoreInductive DEF Supported, NoTailCut
<1>3. Linked' = Ready' BY <1>1, <1>2 DEF QueuesKept
<1>4. RunnableQueued' BY <1>3 DEF RunnableQueued, Linked, Ready
<1> QED BY <1>2, <1>4 DEF IInv

\* The inductive invariant holds in every reachable state: each queue is a list
\* of exactly the RUNNABLE processes of its level.
THEOREM Invariance ==
  ASSUME Supported
  PROVE  Spec => []IInv
<1>1. Init => IInv BY InitStep DEF IInv
<1>2. IInv /\ [Next]_vars => IInv' BY Inductive
<1> QED BY <1>1, <1>2, PTL DEF Spec

\* No process is lost by the scheduler or queued twice: a process is linked into
\* the queue of its level exactly while it is RUNNABLE, whatever the size of the
\* table, the number of CPUs and the quanta (proc.c, every caller of Enqueue).
THEOREM NobodyLost ==
  ASSUME Supported
  PROVE  Spec => []RunnableQueued
<1>1. IInv => RunnableQueued BY DEF IInv
<1> QED BY <1>1, Invariance, PTL

-----------------------------------------------------------------------------
(* wait() and exit() *)

\* init is nobody's child and never gives up its slot, and nobody is its own
\* parent: whom exit() wakes is then another process.
Family ==
  /\ parent[InitProc] = NULL
  /\ state[InitProc] \notin {"UNUSED", "EMBRYO"}
  /\ \A p \in Proc : parent[p] # p

WaitInv == Family /\ NoLostWakeup

\* What the steps other than exit() do: nobody becomes a ZOMBIE, nobody begins to
\* sleep in wait(), nobody gets a new parent.
LEMMA QuietStep ==
  ASSUME WaitInv, TypeOK, parent' = parent,
         state'[InitProc] \notin {"UNUSED", "EMBRYO"},
         \A q \in Proc : state'[q] = "ZOMBIE" => state[q] = "ZOMBIE",
         \A q \in Proc : InWait(q)' => InWait(q)
  PROVE  WaitInv'
BY DEF WaitInv, Family, NoLostWakeup

\* exit() wakes the one it leaves a ZOMBIE to, and init for the ZOMBIEs it leaves it.
LEMMA ExitKeepsWaitInv ==
  ASSUME WaitInv, TypeOK, NEW c \in CPU, NEW p \in Proc, Exit(c, p)
  PROVE  WaitInv'
<1> DEFINE children == {q \in Proc : parent[q] = p}
           W == Woken(p, children)
<1>1. /\ parent' = [q \in Proc |-> IF q \in children THEN InitProc ELSE parent[q]]
      /\ state' = [q \in Proc |-> IF q = p THEN "ZOMBIE"
                                  ELSE IF q \in W THEN "RUNNABLE" ELSE state[q]]
      /\ pc' = pc
  BY DEF Exit
<1>2. InitProc \in Proc /\ NULL \notin Proc BY ConstantFacts
<1>3. InitProc \notin children /\ p \notin children
  BY <1>2 DEF WaitInv, Family
<1>4. Family' BY <1>1, <1>2, <1>3 DEF WaitInv, Family
<1>5. ASSUME NEW x \in Proc, NEW q \in Proc, InWait(x)', parent'[q] = x, state'[q] = "ZOMBIE"
      PROVE  FALSE
  <2>1. x # p /\ x \notin W /\ InWait(x) BY <1>1, <1>5 DEF InWait
  <2>2. CASE q = p
    <3>1. parent[p] = x BY <1>1, <1>3, <1>5, <2>2
    <3> QED BY <3>1, <2>1 DEF Woken
  <2>3. CASE q # p
    <3>1. state[q] = "ZOMBIE" BY <1>1, <1>5, <2>3
    <3>2. CASE q \in children BY <1>1, <1>5, <3>1, <3>2, <2>1 DEF Woken
    <3>3. CASE q \notin children BY <1>1, <1>5, <3>1, <3>3, <2>1 DEF WaitInv, NoLostWakeup
    <3> QED BY <3>2, <3>3
  <2> QED BY <2>2, <2>3
<1> QED BY <1>4, <1>5 DEF WaitInv, NoLostWakeup

LEMMA WaitInductive ==
  ASSUME NoTailCut, Core, WaitInv, [Next]_vars
  PROVE  WaitInv'
<1> USE ConstantFacts
<1>1. TypeOK /\ ForkOwnsChild /\ InitProc \in Proc BY DEF Core
<1>2. state[InitProc] \notin {"UNUSED", "EMBRYO"} BY DEF WaitInv, Family
<1>3. ASSUME NEW c \in CPU, NEW boosted, TrapEnd(c, boosted), parent' = parent
      PROVE  WaitInv'
  <2>1. \/ state' = state
        \/ state' = [state EXCEPT ![on[c]] = "RUNNABLE"]
    BY <1>3 DEF TrapEnd
  <2>2. pc' = pc \/ pc' = [pc EXCEPT ![on[c]] = "exit"] BY <1>3 DEF TrapEnd
  <2> QED BY <1>1, <1>2, <1>3, <2>1, <2>2, QuietStep DEF TypeOK, InWait
<1>4. CASE Timer
  <2>1. CASE Tick BY <2>1, <1>1, <1>2, QuietStep DEF Tick, InWait, ident
  <2>2. CASE TickBoost BY <2>2, <1>1, <1>2, QuietStep DEF TickBoost, InWait, ident
  <2>3. CASE TickWakeup
    BY <2>3, <1>1, <1>2, QuietStep DEF TickWakeup, TypeOK, InWait, ident
  <2>4. CASE TickEnd BY <2>4, <1>3 DEF TickEnd, ident
  <2> QED BY <1>4, <2>1, <2>2, <2>3, <2>4 DEF Timer
<1>5. ASSUME NEW c \in CPU, Scheduler(c) \/ OtherTimer(c)
      PROVE  WaitInv'
  <2>1. CASE Dispatch(c) BY <2>1, <1>1, <1>2, QuietStep DEF Dispatch, TypeOK, InWait, ident
  <2>2. CASE NextLevel(c) BY <2>2, <1>1, <1>2, QuietStep DEF NextLevel, InWait, ident
  <2>3. CASE OtherTimer(c) BY <2>3, <1>3 DEF OtherTimer, ident
  <2> QED BY <1>5, <2>1, <2>2, <2>3 DEF Scheduler
<1>6. ASSUME NEW c \in CPU, NEW p \in Proc, Process(c, p)
      PROVE  WaitInv'
  <2>1. CASE ForkAlloc(c, p)
    <3>1. PICK q \in Proc : /\ First(q, Unused)
                            /\ state' = [state EXCEPT ![q] = "EMBRYO"]
                            /\ pc' = [pc EXCEPT ![p] = "fork", ![q] = "user"]
      BY <2>1 DEF ForkAlloc
    <3>2. q # InitProc BY <3>1, <1>2 DEF First, Unused
    <3>3. parent' = parent BY <2>1 DEF ForkAlloc
    <3> QED BY <3>1, <3>2, <3>3, <1>1, <1>2, QuietStep DEF TypeOK, InWait
  <2>2. CASE ForkFail(c, p)
    <3>1. child[p] \in Proc /\ child[p] # InitProc
      BY <2>2, <1>1, <1>2 DEF ForkFail, ForkOwnsChild
    <3> QED BY <2>2, <3>1, <1>1, <1>2, QuietStep DEF ForkFail, TypeOK, InWait
  <2>3. CASE ForkDone(c, p)
    <3> DEFINE np == child[p]
    <3>1. np \in Proc /\ np # InitProc /\ np # p
      <4>1. state[p] = "RUNNING" BY <2>3, Current DEF ForkDone
      <4> QED BY <2>3, <4>1, <1>1, <1>2 DEF ForkDone, ForkOwnsChild
    <3>2. /\ parent' = [parent EXCEPT ![np] = p]
          /\ state' = [state EXCEPT ![np] = "RUNNABLE"]
          /\ pc' = [pc EXCEPT ![p] = "user"]
      BY <2>3 DEF ForkDone
    <3>3. Family' BY <3>1, <3>2, <1>1 DEF WaitInv, Family, TypeOK
    <3>4. NoLostWakeup' BY <3>1, <3>2, <1>1 DEF WaitInv, NoLostWakeup, InWait, TypeOK
    <3> QED BY <3>3, <3>4 DEF WaitInv
  <2>4. CASE BeginExit(c, p)
    BY <2>4, <1>1, <1>2, QuietStep DEF BeginExit, TypeOK, InWait, ident
  <2>5. CASE Exit(c, p) BY <2>5, <1>1, ExitKeepsWaitInv
  <2>6. CASE Reap(c, p)
    <3>1. PICK q \in Proc : /\ parent[q] = p
                            /\ state' = [state EXCEPT ![q] = "UNUSED"]
                            /\ parent' = [parent EXCEPT ![q] = NULL]
      BY <2>6 DEF Reap, First
    <3>2. pc' = [pc EXCEPT ![p] = "user"] BY <2>6 DEF Reap
    <3>3. q # InitProc BY <3>1 DEF WaitInv, Family
    <3>4. Family' BY <3>1, <3>3, <1>1 DEF WaitInv, Family, TypeOK
    <3>5. NoLostWakeup' BY <3>1, <3>2, <1>1 DEF WaitInv, NoLostWakeup, InWait, TypeOK
    <3> QED BY <3>4, <3>5 DEF WaitInv
  <2>7. CASE WaitFails(c, p)
    BY <2>7, <1>1, <1>2, QuietStep DEF WaitFails, TypeOK, InWait, ident
  <2>8. CASE WaitSleep(c, p)
    <3>1. /\ parent' = parent
          /\ state' = [state EXCEPT ![p] = "SLEEPING"]
          /\ pc' = [pc EXCEPT ![p] = "wait"]
          /\ \A q \in Proc : parent[q] = p => state[q] # "ZOMBIE"
      BY <2>8 DEF WaitSleep, ident
    <3>2. Family' BY <3>1, <1>1 DEF WaitInv, Family, TypeOK
    <3>3. NoLostWakeup' BY <3>1, <1>1 DEF WaitInv, NoLostWakeup, InWait, TypeOK
    <3> QED BY <3>2, <3>3 DEF WaitInv
  <2>9. CASE Sleep(c, p) BY <2>9, <1>1, <1>2, QuietStep DEF Sleep, TypeOK, InWait, ident
  <2>10. CASE SleepReturns(c, p)
    BY <2>10, <1>1, <1>2, QuietStep DEF SleepReturns, TypeOK, InWait, ident
  <2>11. CASE Yield(c, p) BY <2>11, <1>1, <1>2, QuietStep DEF Yield, TypeOK, InWait, ident
  <2>12. CASE \E q \in Proc : Kill(c, p, q)
    BY <2>12, <1>1, <1>2, QuietStep DEF Kill, TypeOK, InWait, ident
  <2>13. CASE \E q \in Proc, new \in Priorities : SetPriority(c, p, q, new)
    BY <2>13, <1>1, <1>2, QuietStep DEF SetPriority, InWait, ident
  <2>14. CASE SchedulerLock(c, p)
    BY <2>14, <1>1, <1>2, QuietStep DEF SchedulerLock, TypeOK, InWait, ident
  <2>15. CASE ResetTicks(c, p)
    BY <2>15, <1>1, <1>2, QuietStep DEF ResetTicks, TypeOK, InWait, ident
  <2>16. CASE SchedulerUnlock(c, p)
    BY <2>16, <1>1, <1>2, QuietStep DEF SchedulerUnlock, TypeOK, InWait, ident
  <2> QED BY <1>6, <2>1, <2>2, <2>3, <2>4, <2>5, <2>6, <2>7, <2>8, <2>9, <2>10, <2>11,
             <2>12, <2>13, <2>14, <2>15, <2>16 DEF Process
<1>7. CASE UNCHANGED vars
  BY <1>7 DEF WaitInv, Family, NoLostWakeup, InWait, vars, ident
<1> QED BY <1>4, <1>5, <1>6, <1>7 DEF Next

\* Whatever the depth of the family tree, no process sleeps in wait() beside a
\* ZOMBIE child: exit() wakes its parent, and init for the ZOMBIEs it adopts
\* (proc.c:263-275), and wait() looks and sleeps under one lock (proc.c:283-325).
THEOREM NoWakeupLost ==
  ASSUME NoTailCut
  PROVE  Spec => []NoLostWakeup
<1>1. Init => WaitInv
  BY ConstantFacts DEF Init, WaitInv, Family, NoLostWakeup, InWait
<1>2. Core /\ WaitInv /\ [Next]_vars => WaitInv' BY WaitInductive
<1>3. WaitInv => NoLostWakeup BY DEF WaitInv
<1> QED BY <1>1, <1>2, <1>3, CoreInvariance, PTL DEF Spec

-----------------------------------------------------------------------------
(* Parents *)

Absent == {"UNUSED", "EMBRYO"}

\* init does not end, and every process has a parent that does not either before
\* it has given its children to init.
ParentInv ==
  /\ Family /\ ParentAlive
  /\ state[InitProc] # "ZOMBIE" /\ pc[InitProc] # "exit" /\ InitProc \notin killed

\* What a step does that changes the state of living processes only.
LEMMA LivingStep ==
  ASSUME ParentInv, TypeOK, parent' = parent, InitProc \notin killed', pc'[InitProc] # "exit",
         \A q \in Proc : \/ state'[q] = state[q]
                         \/ {state[q], state'[q]} \subseteq States \ (Absent \cup {"ZOMBIE"})
  PROVE  ParentInv'
<1>1. InitProc \in Proc /\ NULL \notin Proc BY ConstantFacts
<1>2. \A q \in Proc : /\ state'[q] \in Absent <=> state[q] \in Absent
                      /\ state'[q] = "ZOMBIE" <=> state[q] = "ZOMBIE"
  BY DEF Absent
<1>3. Family' BY <1>1, <1>2 DEF ParentInv, Family, Absent
<1>4. ASSUME NEW q \in Proc, state'[q] \in States \ Absent, q # InitProc
      PROVE  parent'[q] # NULL /\ state'[parent'[q]] \notin Absent \cup {"ZOMBIE"}
  <2>1. state[q] \in States \ Absent BY <1>2, <1>4 DEF TypeOK
  <2>2. parent[q] # NULL /\ state[parent[q]] \notin Absent \cup {"ZOMBIE"}
    BY <2>1, <1>4 DEF ParentInv, ParentAlive, Absent
  <2>3. parent[q] \in Proc BY <2>2 DEF TypeOK
  <2> QED BY <2>2, <2>3, <1>2
<1> QED BY <1>1, <1>2, <1>3, <1>4 DEF ParentInv, ParentAlive, Absent

\* exit() gives the children to init before the parent is a ZOMBIE.
LEMMA ExitKeepsParentInv ==
  ASSUME ParentInv, Core, NEW c \in CPU, NEW p \in Proc, Exit(c, p)
  PROVE  ParentInv'
<1> DEFINE children == {q \in Proc : parent[q] = p}
           W == Woken(p, children)
<1>1. /\ parent' = [q \in Proc |-> IF q \in children THEN InitProc ELSE parent[q]]
      /\ state' = [q \in Proc |-> IF q = p THEN "ZOMBIE"
                                  ELSE IF q \in W THEN "RUNNABLE" ELSE state[q]]
      /\ pc' = pc /\ killed' = killed /\ pc[p] = "exit"
  BY DEF Exit
<1>2. InitProc \in Proc /\ NULL \notin Proc BY ConstantFacts
<1>3. InitProc \notin children /\ p \notin children /\ p # InitProc
  BY <1>1, <1>2 DEF ParentInv, Family
<1>4. \A q \in W : state[q] = "SLEEPING" BY DEF Woken, InWait
<1>5. \A q \in Proc \ {p} : /\ state'[q] \in Absent <=> state[q] \in Absent
                            /\ state'[q] = "ZOMBIE" <=> state[q] = "ZOMBIE"
  BY <1>1, <1>4 DEF Absent
<1>6. Family' BY <1>1, <1>2, <1>3, <1>5 DEF ParentInv, Family, Absent
<1>7. state'[InitProc] \notin Absent \cup {"ZOMBIE"}
  BY <1>2, <1>3, <1>5 DEF ParentInv, Family, Absent
<1>8. ASSUME NEW q \in Proc, state'[q] \in States \ Absent, q # InitProc
      PROVE  parent'[q] # NULL /\ state'[parent'[q]] \notin Absent \cup {"ZOMBIE"}
  <2>1. CASE q \in children BY <2>1, <1>1, <1>2, <1>7
  <2>2. CASE q \notin children
    <3>1. state[q] \in States \ Absent
      BY <1>5, <1>8, Current DEF Exit, Core, TypeOK, Absent
    <3>2. parent[q] # NULL /\ state[parent[q]] \notin Absent \cup {"ZOMBIE"}
      BY <3>1, <1>8 DEF ParentInv, ParentAlive, Absent
    <3>3. parent[q] \in Proc \ {p} BY <3>2, <2>2 DEF Core, TypeOK
    <3> QED BY <3>2, <3>3, <2>2, <1>1, <1>5
  <2> QED BY <2>1, <2>2
<1> QED BY <1>1, <1>6, <1>7, <1>8 DEF ParentInv, ParentAlive, Absent

LEMMA ParentInductive ==
  ASSUME NoTailCut, Core, ParentInv, [Next]_vars
  PROVE  ParentInv'
<1> USE ConstantFacts
<1>1. TypeOK /\ ForkOwnsChild /\ InitProc \in Proc BY DEF Core
<1>2. /\ state[InitProc] \notin Absent \cup {"ZOMBIE"}
      /\ pc[InitProc] # "exit" /\ InitProc \notin killed
  BY DEF ParentInv, Family, Absent
<1>3. ASSUME NEW c \in CPU, NEW boosted, TrapEnd(c, boosted), parent' = parent, killed' = killed
      PROVE  ParentInv'
  <2>1. \/ state' = state
        \/ on[c] # NULL /\ state' = [state EXCEPT ![on[c]] = "RUNNABLE"]
    BY <1>3 DEF TrapEnd
  <2>2. on[c] # NULL => on[c] \in Proc /\ state[on[c]] = "RUNNING"
    BY <1>1 DEF Core, OneCpu, TypeOK
  <2>3. pc'[InitProc] # "exit" BY <1>1, <1>2, <1>3 DEF TrapEnd, TypeOK
  <2> QED BY <1>1, <1>2, <1>3, <2>1, <2>2, <2>3, LivingStep DEF TypeOK, States, Absent
<1>4. CASE Timer
  <2>1. CASE Tick BY <2>1, <1>1, <1>2, LivingStep DEF Tick, ident
  <2>2. CASE TickBoost BY <2>2, <1>1, <1>2, LivingStep DEF TickBoost, ident
  <2>3. CASE TickWakeup
    <3>1. PICK q \in Proc : /\ state[q] = "SLEEPING"
                            /\ state' = [state EXCEPT ![q] = "RUNNABLE"]
      BY <2>3 DEF TickWakeup, First, OnTicks
    <3> QED BY <2>3, <3>1, <1>1, <1>2, LivingStep DEF TickWakeup, TypeOK, States, Absent, ident
  <2>4. CASE TickEnd BY <2>4, <1>3 DEF TickEnd, ident
  <2> QED BY <1>4, <2>1, <2>2, <2>3, <2>4 DEF Timer
<1>5. ASSUME NEW c \in CPU, Scheduler(c) \/ OtherTimer(c)
      PROVE  ParentInv'
  <2>1. CASE Dispatch(c)
    <3> DEFINE p == rq.head[level[c]]
    <3>1. level[c] \in Level /\ p # NULL /\ QueuesSound
      BY <2>1, CoreSound DEF Core, TypeOK, Dispatch
    <3>2. p \in Linked[level[c]] /\ p \in Ready[level[c]] BY <3>1, DequeueOK DEF QueuesSound
    <3>3. p \in Proc /\ state[p] = "RUNNABLE" BY <3>1, <3>2 DEF Ready
    <3>4. state' = [state EXCEPT ![p] = "RUNNING"] /\ UNCHANGED <<parent, killed, pc>>
      BY <2>1 DEF Dispatch, ident
    <3> QED BY <3>3, <3>4, <1>1, <1>2, LivingStep DEF TypeOK, States, Absent
  <2>2. CASE NextLevel(c) BY <2>2, <1>1, <1>2, LivingStep DEF NextLevel, ident
  <2>3. CASE OtherTimer(c) BY <2>3, <1>3 DEF OtherTimer, ident
  <2> QED BY <1>5, <2>1, <2>2, <2>3 DEF Scheduler
<1>6. ASSUME NEW c \in CPU, NEW p \in Proc, Process(c, p)
      PROVE  ParentInv'
  <2>0. state[p] = "RUNNING"
    BY <1>6, Current DEF Process, ForkAlloc, ForkFail, ForkDone, BeginExit, Exit, Reap,
       WaitFails, WaitSleep, WaitLoop, Sleep, SleepReturns, Yield, Kill, SetPriority,
       SchedulerLock, ResetTicks, SchedulerUnlock, Call, CallOfSetPriority
  <2>1. CASE ForkAlloc(c, p)
    <3>1. PICK q \in Proc : /\ state[q] = "UNUSED"
                            /\ state' = [state EXCEPT ![q] = "EMBRYO"]
                            /\ pc' = [pc EXCEPT ![p] = "fork", ![q] = "user"]
      BY <2>1 DEF ForkAlloc, First, Unused
    <3>2. parent' = parent /\ killed' = killed BY <2>1 DEF ForkAlloc
    <3>3. Family' BY <3>1, <3>2, <1>1, <1>2 DEF ParentInv, Family, TypeOK, Absent
    <3>4. ParentAlive' BY <3>1, <3>2, <1>1 DEF ParentInv, ParentAlive, TypeOK
    <3> QED BY <3>1, <3>2, <3>3, <3>4, <1>1, <1>2 DEF ParentInv, TypeOK, Absent
  <2>2. CASE ForkFail(c, p)
    <3>1. child[p] \in Proc /\ state[child[p]] = "EMBRYO"
      BY <2>2, <1>1 DEF ForkFail, ForkOwnsChild
    <3>2. /\ state' = [state EXCEPT ![child[p]] = "UNUSED"]
          /\ pc' = [pc EXCEPT ![p] = "user"] /\ UNCHANGED <<parent, killed>>
      BY <2>2 DEF ForkFail
    <3>3. Family' BY <3>1, <3>2, <1>1, <1>2 DEF ParentInv, Family, TypeOK, Absent
    <3>4. ParentAlive' BY <3>1, <3>2, <1>1 DEF ParentInv, ParentAlive, TypeOK
    <3> QED BY <3>1, <3>2, <3>3, <3>4, <1>1, <1>2 DEF ParentInv, TypeOK, Absent
  <2>3. CASE ForkDone(c, p)
    <3> DEFINE np == child[p]
    <3>1. np \in Proc /\ state[np] = "EMBRYO" BY <2>3, <1>1 DEF ForkDone, ForkOwnsChild
    <3>2. /\ parent' = [parent EXCEPT ![np] = p] /\ killed' = killed
          /\ state' = [state EXCEPT ![np] = "RUNNABLE"]
          /\ pc' = [pc EXCEPT ![p] = "user"]
      BY <2>3 DEF ForkDone
    <3>3. Family' BY <3>1, <3>2, <2>0, <1>1, <1>2 DEF ParentInv, Family, TypeOK, Absent
    <3>4. ParentAlive' BY <3>1, <3>2, <2>0, <1>1 DEF ParentInv, ParentAlive, TypeOK
    <3> QED BY <3>1, <3>2, <3>3, <3>4, <1>1, <1>2 DEF ParentInv, TypeOK, Absent
  <2>4. CASE BeginExit(c, p)
    BY <2>4, <1>1, <1>2, LivingStep DEF BeginExit, TypeOK, ident
  <2>5. CASE Exit(c, p) BY <2>5, ExitKeepsParentInv
  <2>6. CASE Reap(c, p)
    <3>1. PICK q \in Proc : /\ parent[q] = p /\ state[q] = "ZOMBIE"
                            /\ state' = [state EXCEPT ![q] = "UNUSED"]
                            /\ parent' = [parent EXCEPT ![q] = NULL]
                            /\ killed' = killed \ {q}
      BY <2>6 DEF Reap, First
    <3>2. pc' = [pc EXCEPT ![p] = "user"] BY <2>6 DEF Reap
    <3>3. Family' BY <3>1, <1>1, <1>2 DEF ParentInv, Family, TypeOK, Absent
    <3>4. ParentAlive' BY <3>1, <1>1 DEF ParentInv, ParentAlive, TypeOK
    <3> QED BY <3>1, <3>2, <3>3, <3>4, <1>1, <1>2 DEF ParentInv, TypeOK, Absent
  <2>7. CASE WaitFails(c, p) BY <2>7, <1>1, <1>2, LivingStep DEF WaitFails, TypeOK, ident
  <2>8. CASE WaitSleep(c, p)
    BY <2>0, <2>8, <1>1, <1>2, LivingStep DEF WaitSleep, TypeOK, States, Absent, ident
  <2>9. CASE Sleep(c, p)
    BY <2>0, <2>9, <1>1, <1>2, LivingStep DEF Sleep, TypeOK, States, Absent, ident
  <2>10. CASE SleepReturns(c, p)
    BY <2>10, <1>1, <1>2, LivingStep DEF SleepReturns, TypeOK, ident
  <2>11. CASE Yield(c, p)
    BY <2>0, <2>11, <1>1, <1>2, LivingStep DEF Yield, TypeOK, States, Absent, ident
  <2>12. CASE \E q \in Proc : Kill(c, p, q)
    BY <2>12, <1>1, <1>2, LivingStep DEF Kill, TypeOK, States, Absent, ident
  <2>13. CASE \E q \in Proc, new \in Priorities : SetPriority(c, p, q, new)
    BY <2>13, <1>1, <1>2, LivingStep DEF SetPriority, ident
  <2>14. CASE SchedulerLock(c, p)
    BY <2>14, <1>1, <1>2, LivingStep DEF SchedulerLock, TypeOK, ident
  <2>15. CASE ResetTicks(c, p)
    BY <2>15, <1>1, <1>2, LivingStep DEF ResetTicks, TypeOK, ident
  <2>16. CASE SchedulerUnlock(c, p)
    BY <2>0, <2>16, <1>1, <1>2, LivingStep
       DEF SchedulerUnlock, TypeOK, States, Absent, ident
  <2> QED BY <1>6, <2>1, <2>2, <2>3, <2>4, <2>5, <2>6, <2>7, <2>8, <2>9, <2>10, <2>11,
             <2>12, <2>13, <2>14, <2>15, <2>16 DEF Process
<1>7. CASE UNCHANGED vars
  BY <1>7 DEF ParentInv, Family, ParentAlive, vars, ident
<1> QED BY <1>4, <1>5, <1>6, <1>7 DEF Next

\* Every process but init has a parent that is still there to reap it, init at the
\* latest, however deep the family tree (exit, proc.c:263-281).
THEOREM ParentsAlive ==
  ASSUME NoTailCut
  PROVE  Spec => []ParentAlive
<1>1. Init => ParentInv
  BY ConstantFacts DEF Init, ParentInv, Family, ParentAlive, States
<1>2. Core /\ ParentInv /\ [Next]_vars => ParentInv' BY ParentInductive
<1>3. ParentInv => ParentAlive BY DEF ParentInv
<1> QED BY <1>1, <1>2, <1>3, CoreInvariance, PTL DEF Spec

-----------------------------------------------------------------------------
(* The holder keeps the CPU *)

\* on is an array over the CPUs, whatever the calls made.
OnShape == on = [c \in CPU |-> on[c]]

LEMMA ShapeKept == ASSUME OnShape, [Next]_vars PROVE OnShape'
<1>1. ASSUME on' = on \/ \E c \in CPU : \E q : on' = [on EXCEPT ![c] = q] PROVE OnShape'
  BY <1>1 DEF OnShape
<1>2. CASE Timer
  BY <1>1, <1>2, ConstantFacts DEF Timer, Tick, TickBoost, TickWakeup, TickEnd, TrapEnd,
     ReleaseIfHeld, Sched, cpus
<1>3. ASSUME NEW c \in CPU, Scheduler(c) \/ OtherTimer(c) PROVE OnShape'
  BY <1>1, <1>3 DEF Scheduler, Dispatch, NextLevel, OtherTimer, TrapEnd, ReleaseIfHeld, Sched
<1>4. ASSUME NEW c \in CPU, NEW p \in Proc, Process(c, p) PROVE OnShape'
  BY <1>1, <1>4 DEF Process, ForkAlloc, ForkFail, ForkDone, BeginExit, Exit, Reap,
     WaitFails, WaitSleep, Sleep, SleepReturns, Yield, Kill, SetPriority, SchedulerLock,
     ResetTicks, SchedulerUnlock, Sched, cpus
<1>5. CASE UNCHANGED vars BY <1>1, <1>5 DEF vars, cpus
<1> QED BY <1>2, <1>3, <1>4, <1>5 DEF Next

\* Whatever the calls, the timer interrupt takes the CPU from nobody who holds the
\* scheduler lock (the end of trap() in trap.c).
THEOREM HolderKeepsCpu == Spec => LockedNotPreempted
<1>1. Init => OnShape BY DEF Init, OnShape
<1>2. OnShape /\ [Next]_vars => OnShape' BY ShapeKept
<1>3. ASSUME OnShape, Next, on[0] # NULL, on[0] \in locked, intr # "none"
      PROVE  on'[0] = on[0]
  <2>0. 0 \in CPU BY ConstantFacts
  <2>1. CASE Timer
    BY <1>3, <2>1 DEF Timer, Tick, TickBoost, TickWakeup, TickEnd, TrapEnd, ReleaseIfHeld, cpus
  <2>2. ASSUME NEW c \in CPU, Scheduler(c) \/ OtherTimer(c) PROVE on'[0] = on[0]
    <3>1. CASE c = 0 BY <1>3, <2>2, <3>1 DEF Scheduler, Dispatch, NextLevel, OtherTimer
    <3>2. CASE c # 0
      <4>1. on' = on \/ \E q : on' = [on EXCEPT ![c] = q]
        BY <2>2 DEF Scheduler, Dispatch, NextLevel, OtherTimer, TrapEnd, ReleaseIfHeld, Sched
      <4> QED BY <4>1, <3>2, <1>3, <2>0 DEF OnShape
    <3> QED BY <3>1, <3>2
  <2>3. ASSUME NEW c \in CPU, NEW p \in Proc, Process(c, p) PROVE on'[0] = on[0]
    <3>1. Runs(c, p)
      BY <2>3 DEF Process, ForkAlloc, ForkFail, ForkDone, BeginExit, Exit, Reap, WaitFails,
         WaitSleep, WaitLoop, Sleep, SleepReturns, Yield, Kill, SetPriority,
         SchedulerLock, ResetTicks, SchedulerUnlock, Call, CallOfSetPriority
    <3>2. c # 0 BY <3>1, <1>3 DEF Runs
    <3>3. on' = on \/ on' = [on EXCEPT ![c] = NULL]
      BY <2>3 DEF Process, ForkAlloc, ForkFail, ForkDone, BeginExit, Exit, Reap, WaitFails,
         WaitSleep, Sleep, SleepReturns, Yield, Kill, SetPriority, SchedulerLock,
         ResetTicks, SchedulerUnlock, Sched, cpus
    <3> QED BY <3>2, <3>3, <1>3, <2>0 DEF OnShape
  <2> QED BY <1>3, <2>1, <2>2, <2>3 DEF Next
<1>4. OnShape /\ [Next]_vars =>
        [\A c \in CPU : on[c] # NULL /\ on[c] \in locked /\ intr # "none" /\ c = 0
           => on'[c] = on[c]]_vars
  BY <1>3
<1> QED BY <1>1, <1>2, <1>4, PTL DEF Spec, LockedNotPreempted

-----------------------------------------------------------------------------
(* The way back into L0 *)

LEMMA FrontIsHead ==
  ASSUME TypeOK, NEW p \in Proc, NEW pr
  PROVE  Enqueue(rq, p, 0, TRUE, pr).head[0] = p
BY ConstantFacts DEF TypeOK, Lists, Enqueue, PushFront

\* A process that gives the scheduler lock up is the next that L0 dispatches,
\* whoever waits there (schedulerUnlock; yield by the holder).
THEOREM UnlockedGoesFirst ==
  ASSUME NoTailCut
  PROVE  Spec => UnlockGoesFirst
<1>1. ASSUME Core, Next, NEW c \in CPU, NEW p \in Proc, on[c] = p, on'[c] = NULL,
             p \in locked, qlevel'[p] = 0, state'[p] = "RUNNABLE", intr = "none"
      PROVE  rq'.head[0] = p
  <2>0. TypeOK /\ p # NULL /\ state[p] = "RUNNING"
    BY <1>1, ConstantFacts DEF Core, OneCpu
  <2>1. CASE Timer
    BY <1>1, <2>0, <2>1 DEF Timer, Tick, TickBoost, TickWakeup, TickEnd, cpus
  <2>2. ASSUME NEW d \in CPU, Scheduler(d) \/ OtherTimer(d) PROVE FALSE
    <3>1. CASE d = c
      BY <1>1, <2>0, <2>2, <3>1 DEF Scheduler, Dispatch, NextLevel, OtherTimer, TrapEnd, ReleaseIfHeld
    <3>2. CASE d # c
      <4>1. on' = on \/ \E q : on' = [on EXCEPT ![d] = q]
        BY <2>2 DEF Scheduler, Dispatch, NextLevel, OtherTimer, TrapEnd, ReleaseIfHeld, Sched
      <4> QED BY <4>1, <3>2, <1>1, <2>0 DEF TypeOK
    <3> QED BY <3>1, <3>2
  <2>3. ASSUME NEW d \in CPU, NEW q \in Proc, Process(d, q) PROVE rq'.head[0] = p
    <3>1. on[d] = q /\ q # NULL
      BY <2>3, Current, <1>1, ConstantFacts DEF Process, ForkAlloc, ForkFail, ForkDone, BeginExit, Exit, Reap,
         WaitFails, WaitSleep, WaitLoop, Sleep, SleepReturns, Yield, Kill, SetPriority,
         SchedulerLock, ResetTicks, SchedulerUnlock, Call, CallOfSetPriority, Runs
    <3>2. on' = on \/ on' = [on EXCEPT ![d] = NULL]
      BY <2>3 DEF Process, ForkAlloc, ForkFail, ForkDone, BeginExit, Exit, Reap, WaitFails,
         WaitSleep, Sleep, SleepReturns, Yield, Kill, SetPriority, SchedulerLock,
         ResetTicks, SchedulerUnlock, Sched, cpus
    <3>3. on' # on /\ d = c BY <3>2, <1>1, <2>0 DEF TypeOK
    <3>4. q = p BY <3>1, <3>3, <1>1
    <3>5. Yield(d, q) \/ SchedulerUnlock(d, q)
      <4>1. ~Exit(d, q) BY <3>4, <1>1 DEF Exit
      <4>2. ~WaitSleep(d, q) /\ ~Sleep(d, q)
        BY <3>4, <1>1, <2>0 DEF WaitSleep, Sleep, TypeOK
      <4> QED BY <2>3, <3>3, <4>1, <4>2 DEF Process, ForkAlloc, ForkFail, ForkDone,
            BeginExit, Reap, WaitFails, SleepReturns, Kill, SetPriority, SchedulerLock,
            ResetTicks, cpus
    <3>6. CASE Yield(d, q)
      <4>1. rq' = Enqueue(rq, p, 0, TRUE, priority)
        BY <3>4, <3>6, <1>1 DEF Yield, Queued, attrs
      <4> QED BY <4>1, <2>0, FrontIsHead
    <3>7. CASE SchedulerUnlock(d, q)
      <4>1. rq' = Enqueue(rq, p, 0, TRUE, priority')
        BY <3>4, <3>7, <1>1 DEF SchedulerUnlock, Queued
      <4> QED BY <4>1, <2>0, FrontIsHead
    <3> QED BY <3>5, <3>6, <3>7
  <2> QED BY <1>1, <2>1, <2>2, <2>3 DEF Next
<1>2. Core /\ [Next]_vars =>
        [\A c \in CPU, p \in Proc :
           (on[c] = p /\ on'[c] = NULL /\ p \in locked /\ qlevel'[p] = 0
            /\ state'[p] = "RUNNABLE" /\ intr = "none")
           => rq'.head[0] = p]_vars
  BY <1>1
<1> QED BY <1>2, CoreInvariance, PTL DEF Spec, UnlockGoesFirst

-----------------------------------------------------------------------------
(* A boost *)

\* The interrupt that boosts has reset the ticks.
BoostInv == intr = "boosted" => ticks = 0

LEMMA OnlyTickBoosts ==
  ASSUME [Next]_vars, intr' = "boosted"
  PROVE  TickBoost \/ (intr = "boosted" /\ ticks' = ticks)
<1>1. CASE Timer BY <1>1 DEF Timer, Tick, TickWakeup, TickEnd, clock
<1>2. ASSUME NEW c \in CPU, Scheduler(c) \/ OtherTimer(c)
      PROVE  intr = "boosted" /\ ticks' = ticks
  BY <1>2 DEF Scheduler, Dispatch, NextLevel, OtherTimer, clock
<1>3. ASSUME NEW c \in CPU, NEW p \in Proc, Process(c, p)
      PROVE  intr = "boosted" /\ ticks' = ticks
  <2>1. CASE ResetTicks(c, p) BY <2>1 DEF ResetTicks, TickslockFree
  <2>2. CASE ~ResetTicks(c, p)
    BY <1>3, <2>2 DEF Process, ForkAlloc, ForkFail, ForkDone, BeginExit, Exit, Reap,
       WaitFails, WaitSleep, Sleep, SleepReturns, Yield, Kill, SetPriority, SchedulerLock,
       SchedulerUnlock, clock
  <2> QED BY <2>1, <2>2
<1>4. CASE UNCHANGED vars BY <1>4 DEF vars, clock
<1> QED BY <1>1, <1>2, <1>3, <1>4 DEF Next

LEMMA BoostInductive == ASSUME BoostInv, [Next]_vars PROVE BoostInv'
BY OnlyTickBoosts DEF BoostInv, TickBoost

\* The queue joined starts with the first element of the highest queue in use.
LEMMA JoinHead ==
  ASSUME NEW r, NEW Q, QueuesOK(r, Q), NEW l \in Level, r.head[l] # NULL,
         \A k \in Level : k < l => r.head[k] = NULL
  PROVE  JoinQueues(r).head[0] = r.head[l]
<1>1. r \in Lists /\ Level = {0, 1, 2} BY ConstantFacts DEF QueuesOK
<1>2. \A k \in Level : r.head[k] = NULL <=> r.tail[k] = NULL
  <2> TAKE k \in Level
  <2>1. ListOK(r.head[k], r.tail[k], r.next, Q[k]) /\ Q[k] \in SUBSET Proc
    BY DEF QueuesOK, QueueOK
  <2> QED BY <2>1, NullNotProc DEF ListOK
<1> DEFINE s == Splice(r, 2, 1)
<1>3. s.head[0] = r.head[0] /\ s.tail[0] = r.tail[0]
  BY <1>1 DEF Splice, Lists
<1>4. s.head[1] = (IF r.head[1] # NULL THEN r.head[1] ELSE r.head[2])
      /\ (s.tail[1] = NULL <=> r.head[1] = NULL /\ r.head[2] = NULL)
  BY <1>1, <1>2 DEF Splice, Lists
<1>5. DOMAIN s.head = Level /\ s.head = [k \in Level |-> s.head[k]]
  BY <1>1 DEF Splice, Lists
<1> HIDE DEF s
<1>6. Splice(s, 1, 0).head[0] = IF s.tail[1] = NULL \/ s.tail[0] # NULL THEN s.head[0]
                                ELSE s.head[1]
  BY <1>1, <1>5 DEF Splice
<1>7. JoinQueues(r).head[0] = Splice(s, 1, 0).head[0] BY DEF JoinQueues, s
<1> QED BY <1>1, <1>2, <1>3, <1>4, <1>6, <1>7

\* After the tick that boosts everybody RUNNABLE is in L0, those of the highest
\* level in front (priorityBoosting, proc.c).  BoostTicks is 100 in the code.
THEOREM BoostLeavesNobody ==
  ASSUME Supported, BoostTicks > 1
  PROVE  Spec => BoostJoins
<1>1. Init => BoostInv BY DEF Init, BoostInv
<1>2. BoostInv /\ [Next]_vars => BoostInv' BY BoostInductive
<1>3. ASSUME IInv, BoostInv, Next, ticks + 1 = BoostTicks, ticks' = 0, intr' = "boosted"
      PROVE  /\ OnQueue(rq', 0) = {p \in Proc : state[p] = "RUNNABLE"}
             /\ OnQueue(rq', 1) = {} /\ OnQueue(rq', 2) = {}
             /\ \A l \in Level : rq.head[l] # NULL
                                 /\ (\A k \in Level : k < l => rq.head[k] = NULL)
                  => rq'.head[0] = rq.head[l]
  <2>1. intr # "boosted" BY <1>3, ConstantFacts DEF BoostInv
  <2>2. TickBoost BY <1>3, <2>1, OnlyTickBoosts
  <2>3. rq' = JoinQueues(rq) /\ QueuesOK(rq, Ready) BY <1>3, <2>2, IInvReady DEF TickBoost
  <2>4. Core' /\ QueuesKept BY <1>3, <2>2, TickBoostStep DEF IInv
  <2>5. Linked' = Ready' BY <1>3, <2>4, WholeQueues DEF IInv, Core, QueuesKept
  <2>6. \A l \in Level : OnQueue(rq', l) = Ready'[l] BY <2>5 DEF Linked
  <2>7. \A l \in Level : Ready'[l] = IF l = 0 THEN {p \in Proc : state[p] = "RUNNABLE"} ELSE {}
    BY <2>2, ConstantFacts DEF Ready, TickBoost, Boosted
  <2> QED BY <2>3, <2>6, <2>7, JoinHead, ConstantFacts
<1>4. IInv /\ BoostInv /\ [Next]_vars =>
        [ticks + 1 = BoostTicks /\ ticks' = 0 /\ intr' = "boosted" =>
           /\ OnQueue(rq', 0) = {p \in Proc : state[p] = "RUNNABLE"}
           /\ OnQueue(rq', 1) = {} /\ OnQueue(rq', 2) = {}
           /\ \A l \in Level : rq.head[l] # NULL
                               /\ (\A k \in Level : k < l => rq.head[k] = NULL)
                => rq'.head[0] = rq.head[l]]_vars
  BY <1>3
<1> QED BY <1>1, <1>2, <1>4, Invariance, PTL DEF Spec, BoostJoins
-----------------------------------------------------------------------------
(* Naturals *)

LEMMA LeastNatural ==
  ASSUME NEW T \in SUBSET Nat, T # {}
  PROVE  \E m \in T : \A x \in T : m <= x
<1> DEFINE R == OpToRel(<, Nat)
<1>1. IsWellFoundedOn(R, Nat) BY NatLessThanWellFounded
<1>2. \A x, m \in Nat : <<x, m>> \in R <=> x < m BY DEF OpToRel
<1> HIDE DEF R
<1>3. PICK m \in T : \A x \in T : ~ (<<x, m>> \in R) BY <1>1, WFMin
<1>4. T \subseteq Nat /\ m \in T OBVIOUS
<1>5. \A x \in T : ~ (x < m) BY <1>2, <1>3, <1>4
<1>6. \A x \in T : m <= x BY <1>4, <1>5
<1> QED BY <1>4, <1>6

\* A set of places that has every place before one of its own is an initial segment.
LEMMA Downward ==
  ASSUME NEW n \in Nat, NEW A \in SUBSET (1 .. n),
         \A i \in A : \A j \in 1 .. i : j \in A
  PROVE  Cardinality(A) \in 0 .. n /\ A = 1 .. Cardinality(A)
<1> DEFINE T == {m \in Nat : m \in 0 .. n /\ \A i \in A : i <= m}
<1>1. n \in T OBVIOUS
<1>2. PICK k \in T : \A m \in T : k <= m BY <1>1, LeastNatural
<1>3. A = 1 .. k
  <2>1. A \subseteq 1 .. k BY <1>2
  <2>2. CASE k = 0 BY <2>1, <2>2
  <2>3. CASE k # 0
    <3>1. k - 1 \in Nat /\ k - 1 \notin T BY <2>3, <1>2
    <3>2. k \in A BY <2>1, <3>1, <1>2
    <3> QED BY <2>1, <3>2
  <2> QED BY <2>2, <2>3
<1>4. Cardinality(1 .. k) = k BY <1>2, FS_Interval
<1> QED BY <1>2, <1>3, <1>4

-----------------------------------------------------------------------------
(* Linked lists as sequences *)

Elements(s) == {s[i] : i \in 1 .. Len(s)}

\* The list with head h, tail t and links n is the sequence s.
Listing(h, t, n, s) ==
  /\ IF s = <<>> THEN h = NULL /\ t = NULL ELSE h = s[1] /\ t = s[Len(s)]
  /\ \A i \in 1 .. Len(s) : n[s[i]] = IF i = Len(s) THEN NULL ELSE s[i + 1]

\* Nobody has two places.
Distinct(S) ==
  \A k, l \in Level : \A i \in 1 .. Len(S[k]), j \in 1 .. Len(S[l]) :
    S[k][i] = S[l][j] => k = l /\ i = j

Holds(lists, S) ==
  /\ lists \in Lists /\ S \in [Level -> Seq(Proc)]
  /\ \A l \in Level : Listing(lists.head[l], lists.tail[l], lists.next, S[l])
  /\ Distinct(S)

Lacks(S, p) == \A l \in Level : p \notin Elements(S[l])

\* What Listed computes is a function of the places up to NPROC.
Step(lists, l, f, n) ==
  IF n = 0 THEN <<>>
  ELSE LET s == f[n - 1]
           q == IF s = <<>> THEN lists.head[l] ELSE lists.next[s[Len(s)]]
       IN  IF q = NULL THEN s ELSE Append(s, q)

LEMMA Unfold ==
  ASSUME NEW lists, NEW l, NEW g, g = [n \in 0 .. NPROC |-> Step(lists, l, g, n)]
  PROVE  \E f : /\ f = [n \in 0 .. NPROC |-> Step(lists, l, f, n)]
                /\ Listed(lists, l) = f[NPROC]
<1> DEFINE R(f) == f = [n \in 0 .. NPROC |-> Step(lists, l, f, n)]
           a == CHOOSE f : R(f)
<1>1. R(a)
  <2> HIDE DEF R
  <2>1. R(g) BY DEF R
  <2> QED BY <2>1
<1>2. Listed(lists, l) = a[NPROC] BY DEF Listed, Step
<1> QED BY <1>1, <1>2

\* A sequence of different processes is no longer than the process table.
LEMMA ListedLength ==
  ASSUME NEW s \in Seq(Proc),
         \A i, j \in 1 .. Len(s) : s[i] = s[j] => i = j
  PROVE  Len(s) <= NPROC
<1>1. s \in [1 .. Len(s) -> Proc] /\ Len(s) \in Nat BY LenProperties
<1>2. s \in Injection(1 .. Len(s), Proc) BY <1>1 DEF Injection, IsInjective
<1>3. IsFiniteSet(Proc) /\ Cardinality(Proc) = NPROC
  BY NPROCAssumption, FS_Interval DEF Proc
<1>4. Cardinality(1 .. Len(s)) = Len(s)
  <2>1. Cardinality(1 .. Len(s)) = IF 1 > Len(s) THEN 0 ELSE Len(s) - 1 + 1
    BY <1>1, FS_Interval
  <2> QED BY <2>1, <1>1
<1>5. Cardinality(1 .. Len(s)) <= Cardinality(Proc) BY <1>2, <1>3, FS_Injection
<1> QED BY <1>3, <1>4, <1>5

LEMMA Prefix ==
  ASSUME NEW s \in Seq(Proc), NEW n \in 1 .. Len(s)
  PROVE  Append(SubSeq(s, 1, n - 1), s[n]) = SubSeq(s, 1, n)
<1>1. Len(s) \in Nat /\ \A i \in 1 .. Len(s) : s[i] \in Proc BY LenProperties, ElementOfSeq
<1> DEFINE a == SubSeq(s, 1, n - 1)
           b == SubSeq(s, 1, n)
<1>2. /\ a \in Seq(Proc) /\ Len(a) = n - 1 /\ \A i \in 1 .. n - 1 : a[i] = s[i]
  BY <1>1, SubSeqProperties
<1>3. /\ b \in Seq(Proc) /\ Len(b) = n /\ \A i \in 1 .. n : b[i] = s[i]
  BY <1>1, SubSeqProperties
<1> HIDE DEF a, b
<1>4. /\ Append(a, s[n]) \in Seq(Proc) /\ Len(Append(a, s[n])) = n
      /\ \A i \in 1 .. n : Append(a, s[n])[i] = IF i = n THEN s[n] ELSE a[i]
  BY <1>1, <1>2, AppendProperties
<1> QED BY <1>2, <1>3, <1>4, SeqEqual DEF a, b

LEMMA ListedIs ==
  ASSUME NEW lists, NEW S, Holds(lists, S), NEW l \in Level
  PROVE  Listed(lists, l) = S[l]
<1> DEFINE s == S[l]
           pre(n) == IF n <= Len(s) THEN SubSeq(s, 1, n) ELSE s
           g == [n \in 0 .. NPROC |-> pre(n)]
<1>1. /\ s \in Seq(Proc) /\ Len(s) \in Nat /\ \A i \in 1 .. Len(s) : s[i] \in Proc
      /\ Listing(lists.head[l], lists.tail[l], lists.next, s)
  BY LenProperties, ElementOfSeq DEF Holds
<1>2. Len(s) <= NPROC
  BY <1>1, ListedLength DEF Holds, Distinct
<1>3. NPROC \in Nat /\ NULL \notin Proc BY NPROCAssumption, NullNotProc
<1> HIDE DEF s
<1>4. ASSUME NEW n \in 1 .. NPROC PROVE Step(lists, l, g, n) = pre(n)
  <2>1. n - 1 \in 0 .. NPROC /\ n \in Nat BY <1>3
  <2>2. g[n - 1] = pre(n - 1) BY <2>1
  <2> HIDE DEF g
  <2>3. CASE n <= Len(s)
    <3> DEFINE a == SubSeq(s, 1, n - 1)
    <3>1. g[n - 1] = a BY <1>1, <2>1, <2>2, <2>3
    <3>2. a \in Seq(Proc) /\ Len(a) = n - 1 /\ \A i \in 1 .. n - 1 : a[i] = s[i]
      BY <1>1, <2>1, <2>3, SubSeqProperties
    <3>3. (IF a = <<>> THEN lists.head[l] ELSE lists.next[a[Len(a)]]) = s[n]
      <4>0. s # <<>> BY <2>1, <2>3, <1>1, EmptySeq
      <4> HIDE DEF a
      <4>1. a = <<>> <=> n = 1 BY <3>2, <2>1, EmptySeq
      <4>2. CASE n = 1 BY <4>0, <4>1, <4>2, <1>1 DEF Listing
      <4>3. CASE n # 1
        <5>1. a[Len(a)] = s[n - 1] BY <3>2, <4>3
        <5>2. lists.next[s[n - 1]] = s[n] BY <1>1, <4>3, <2>1, <2>3 DEF Listing
        <5> QED BY <4>1, <4>3, <5>1, <5>2
      <4> QED BY <4>2, <4>3
    <3>4. s[n] # NULL BY <1>1, <1>3, <2>3, <2>1
    <3>5. Append(a, s[n]) = SubSeq(s, 1, n) BY <1>1, <2>3, <2>1, Prefix
    <3> HIDE DEF a
    <3>6. Step(lists, l, g, n) = Append(a, s[n]) BY <3>1, <3>3, <3>4, <2>1 DEF Step
    <3> QED BY <3>5, <3>6, <2>3
  <2>4. CASE ~ (n <= Len(s))
    <3>1. g[n - 1] = s
      <4>1. SubSeq(s, 1, Len(s)) = s BY <1>1, SubSeqFull
      <4>2. n - 1 <= Len(s) => n - 1 = Len(s) BY <1>1, <2>1, <2>4
      <4> QED BY <4>1, <4>2, <2>2
    <3>2. (IF s = <<>> THEN lists.head[l] ELSE lists.next[s[Len(s)]]) = NULL
      BY <1>1, EmptySeq DEF Listing
    <3> QED BY <3>1, <3>2, <2>1, <2>4 DEF Step
  <2> QED BY <2>3, <2>4
<1>5. g = [n \in 0 .. NPROC |-> Step(lists, l, g, n)]
  <2>1. pre(0) = <<>> BY <1>1, SubSeqEmpty
  <2>2. Step(lists, l, g, 0) = <<>> BY DEF Step
  <2> HIDE DEF pre
  <2>3. \A n \in 0 .. NPROC : Step(lists, l, g, n) = pre(n)
    <3> HIDE DEF g
    <3>1. \A n \in 0 .. NPROC : n = 0 \/ n \in 1 .. NPROC BY <1>3
    <3> QED BY <3>1, <1>4, <2>1, <2>2
  <2> QED BY <2>3
<1>6. PICK f : /\ f = [n \in 0 .. NPROC |-> Step(lists, l, f, n)]
               /\ Listed(lists, l) = f[NPROC]
  <2> HIDE DEF g
  <2> QED BY <1>5, Unfold
<1> HIDE DEF g
<1>7. \A n \in 0 .. NPROC : f[n] = g[n]
  <2> DEFINE T == {n \in 0 .. NPROC : f[n] # g[n]}
  <2> SUFFICES ASSUME T # {} PROVE FALSE OBVIOUS
  <2>0. T \subseteq Nat BY <1>3
  <2>1. PICK m \in T : \A x \in T : m <= x BY <2>0, LeastNatural
  <2>2. m \in 0 .. NPROC /\ f[m] # g[m] OBVIOUS
  <2>3. f[m] = Step(lists, l, f, m) /\ g[m] = Step(lists, l, g, m) BY <2>2, <1>5, <1>6
  <2>4. m # 0 => f[m - 1] = g[m - 1] BY <2>1, <1>3
  <2>5. Step(lists, l, f, m) = Step(lists, l, g, m) BY <2>4 DEF Step
  <2> QED BY <2>2, <2>3, <2>5
<1>8. g[NPROC] = s BY <1>1, <1>2, <1>3, SubSeqFull DEF g
<1> QED BY <1>3, <1>6, <1>7, <1>8 DEF s

LEMMA ListsOf ==
  ASSUME NEW lists, NEW S, Holds(lists, S), NEW l \in Level
  PROVE  /\ S[l] \in Seq(Proc) /\ Len(S[l]) \in Nat
         /\ \A i \in 1 .. Len(S[l]) : S[l][i] \in Proc /\ S[l][i] # NULL
         /\ S[l] = <<>> <=> Len(S[l]) = 0
         /\ Elements(S[l]) \in SUBSET Proc
         /\ Listing(lists.head[l], lists.tail[l], lists.next, S[l])
<1>1. S[l] \in Seq(Proc) BY DEF Holds
<1> QED BY <1>1, LenProperties, ElementOfSeq, EmptySeq, NullNotProc DEF Holds, Elements

\* One list changes, the others are left alone.
LEMMA Replaced ==
  ASSUME NEW lists, NEW S, Holds(lists, S), NEW l \in Level,
         NEW new \in Lists, NEW s \in Seq(Proc),
         Listing(new.head[l], new.tail[l], new.next, s),
         \A i, j \in 1 .. Len(s) : s[i] = s[j] => i = j,
         \A k \in Level \ {l} : /\ new.head[k] = lists.head[k] /\ new.tail[k] = lists.tail[k]
                                /\ \A a \in Elements(S[k]) : a \notin Elements(s)
                                                         /\ new.next[a] = lists.next[a]
  PROVE  Holds(new, [S EXCEPT ![l] = s])
<1> DEFINE R == [S EXCEPT ![l] = s]
<1>1. /\ R \in [Level -> Seq(Proc)]
      /\ R[l] = s /\ \A k \in Level \ {l} : R[k] = S[k]
  BY DEF Holds
<1> HIDE DEF R
<1>2. ASSUME NEW k \in Level \ {l}
      PROVE  Listing(new.head[k], new.tail[k], new.next, S[k])
  <2>1. \A i \in 1 .. Len(S[k]) : S[k][i] \in Elements(S[k]) BY DEF Elements
  <2>2. Listing(lists.head[k], lists.tail[k], lists.next, S[k]) BY DEF Holds
  <2> QED BY SMTT(30), <2>1, <2>2 DEF Listing
<1>3. ASSUME NEW k \in Level
      PROVE  Listing(new.head[k], new.tail[k], new.next, R[k])
  BY <1>1, <1>2
<1>4. Distinct(R)
  <2> SUFFICES ASSUME NEW k \in Level, NEW m \in Level,
                      NEW i \in 1 .. Len(R[k]), NEW j \in 1 .. Len(R[m]), R[k][i] = R[m][j]
               PROVE  k = m /\ i = j
    BY DEF Distinct
  <2>0. \A n \in Level : \A x \in 1 .. Len(S[n]) : S[n][x] \in Elements(S[n])
    BY DEF Elements
  <2>1. CASE k = l /\ m = l BY <2>1, <1>1
  <2>2. CASE k = l /\ m # l
    <3>1. s[i] \in Elements(s) BY <2>2, <1>1 DEF Elements
    <3>2. S[m][j] \in Elements(S[m]) BY <2>0, <2>2, <1>1
    <3> QED BY <3>1, <3>2, <2>2, <1>1
  <2>3. CASE k # l /\ m = l
    <3>1. s[j] \in Elements(s) BY <2>3, <1>1 DEF Elements
    <3>2. S[k][i] \in Elements(S[k]) BY <2>0, <2>3, <1>1
    <3> QED BY <3>1, <3>2, <2>3, <1>1
  <2>4. CASE k # l /\ m # l BY <2>4, <1>1 DEF Holds, Distinct
  <2> QED BY <2>1, <2>2, <2>3, <2>4
<1> QED BY <1>1, <1>3, <1>4 DEF Holds, R

\* Links outside the lists do not matter.
LEMMA OutsideLink ==
  ASSUME NEW lists, NEW S, Holds(lists, S), NEW new \in Lists,
         new.head = lists.head, new.tail = lists.tail,
         \A l \in Level : \A a \in Elements(S[l]) : new.next[a] = lists.next[a]
  PROVE  Holds(new, S)
<1>1. ASSUME NEW l \in Level PROVE Listing(new.head[l], new.tail[l], new.next, S[l])
  BY ListsOf DEF Listing, Elements
<1> QED BY <1>1 DEF Holds

PutAt(s, k, p) == Abstract!InsertAt(s, k + 1, p)

LEMMA InsertedAt ==
  ASSUME NEW s \in Seq(Proc), NEW k \in 0 .. Len(s), NEW p \in Proc
  PROVE  /\ PutAt(s, k, p) \in Seq(Proc)
         /\ Len(PutAt(s, k, p)) = Len(s) + 1
         /\ \A i \in 1 .. Len(s) + 1 :
              PutAt(s, k, p)[i] = IF i <= k THEN s[i] ELSE IF i = k + 1 THEN p ELSE s[i - 1]
<1>1. Len(s) \in Nat /\ \A i \in 1 .. Len(s) : s[i] \in Proc BY LenProperties, ElementOfSeq
<1> DEFINE a == SubSeq(s, 1, (k + 1) - 1)
           b == SubSeq(s, k + 1, Len(s))
           c == a \o <<p>>
<1>2. a \in Seq(Proc) /\ Len(a) = k /\ \A i \in 1 .. k : a[i] = s[i]
  BY <1>1, SubSeqProperties
<1>3. /\ b \in Seq(Proc) /\ Len(b) = Len(s) - k
      /\ \A i \in 1 .. Len(s) - k : b[i] = s[k + i]
  BY <1>1, SubSeqProperties
<1>4. <<p>> \in Seq(Proc) /\ Len(<<p>>) = 1 /\ <<p>>[1] = p OBVIOUS
<1> HIDE DEF a, b
<1>5. /\ c \in Seq(Proc) /\ Len(c) = k + 1
      /\ \A i \in 1 .. k + 1 : c[i] = IF i <= k THEN a[i] ELSE p
  <2>1. /\ c \in Seq(Proc) /\ Len(c) = Len(a) + Len(<<p>>)
        /\ \A i \in 1 .. Len(a) + Len(<<p>>) :
             c[i] = IF i <= Len(a) THEN a[i] ELSE <<p>>[i - Len(a)]
    BY <1>2, <1>4, ConcatProperties
  <2> HIDE DEF c
  <2>2. Len(c) = k + 1 BY <2>1, <1>2, <1>4
  <2>3. \A i \in 1 .. k + 1 : c[i] = IF i <= k THEN a[i] ELSE <<p>>[i - k]
    BY <2>1, <1>2, <1>4
  <2>4. \A i \in 1 .. k + 1 : ~ (i <= k) => i - k = 1 BY <1>1
  <2> QED BY <2>1, <2>2, <2>3, <2>4, <1>4
<1> HIDE DEF c
<1>6. /\ c \o b \in Seq(Proc) /\ Len(c \o b) = Len(s) + 1
      /\ \A i \in 1 .. Len(s) + 1 : (c \o b)[i] = IF i <= k + 1 THEN c[i] ELSE b[i - (k + 1)]
  <2>1. /\ c \o b \in Seq(Proc) /\ Len(c \o b) = Len(c) + Len(b)
        /\ \A i \in 1 .. Len(c) + Len(b) :
             (c \o b)[i] = IF i <= Len(c) THEN c[i] ELSE b[i - Len(c)]
    BY <1>3, <1>5, ConcatProperties
  <2>2. Len(c) + Len(b) = Len(s) + 1 BY <1>1, <1>3, <1>5
  <2> QED BY <2>1, <2>2, <1>5
<1>7. PutAt(s, k, p) = c \o b
  <2>1. PutAt(s, k, p) = (SubSeq(s, 1, (k + 1) - 1) \o <<p>>) \o SubSeq(s, k + 1, Len(s))
    BY DEF PutAt, Abstract!InsertAt
  <2> QED BY <2>1 DEF a, b, c
<1>8. ASSUME NEW i \in 1 .. Len(s) + 1
      PROVE  (c \o b)[i] = IF i <= k THEN s[i] ELSE IF i = k + 1 THEN p ELSE s[i - 1]
  <2>1. CASE i <= k + 1 BY <2>1, <1>1, <1>2, <1>5, <1>6
  <2>2. CASE ~ (i <= k + 1)
    <3>1. i - (k + 1) \in 1 .. Len(s) - k /\ k + (i - (k + 1)) = i - 1 BY <2>2, <1>1
    <3>2. (c \o b)[i] = b[i - (k + 1)] BY ONLY <2>2, <1>6, i \in 1 .. Len(s) + 1
    <3>3. b[i - (k + 1)] = s[k + (i - (k + 1))] BY ONLY <3>1, <1>3
    <3>4. ~ (i <= k) /\ i # k + 1 BY <2>2, <1>1
    <3> QED BY ONLY <3>1, <3>2, <3>3, <3>4
  <2> QED BY <2>1, <2>2
<1> QED BY <1>6, <1>7, <1>8

LEMMA AppendInserts ==
  ASSUME NEW s \in Seq(Proc), NEW p \in Proc
  PROVE  Append(s, p) = PutAt(s, Len(s), p)
<1>1. Len(s) \in Nat BY LenProperties
<1>2. /\ Append(s, p) \in Seq(Proc) /\ Len(Append(s, p)) = Len(s) + 1
      /\ \A i \in 1 .. Len(s) + 1 : Append(s, p)[i] = IF i = Len(s) + 1 THEN p ELSE s[i]
  BY <1>1, AppendProperties
<1>3. /\ PutAt(s, Len(s), p) \in Seq(Proc) /\ Len(PutAt(s, Len(s), p)) = Len(s) + 1
      /\ \A i \in 1 .. Len(s) + 1 : PutAt(s, Len(s), p)[i] =
           IF i <= Len(s) THEN s[i] ELSE IF i = Len(s) + 1 THEN p ELSE s[i - 1]
  <2>1. Len(s) \in 0 .. Len(s) BY <1>1
  <2> QED BY <2>1, InsertedAt
<1> QED BY <1>1, <1>2, <1>3, SeqEqual

LEMMA InsertedElements ==
  ASSUME NEW s \in Seq(Proc), NEW k \in 0 .. Len(s), NEW p \in Proc
  PROVE  Elements(PutAt(s, k, p)) = Elements(s) \cup {p}
<1> DEFINE t == PutAt(s, k, p)
<1>1. /\ Len(s) \in Nat /\ Len(t) = Len(s) + 1
      /\ \A i \in 1 .. Len(s) + 1 :
           t[i] = IF i <= k THEN s[i] ELSE IF i = k + 1 THEN p ELSE s[i - 1]
  <2>1. Len(s) \in Nat BY LenProperties
  <2>2. /\ Len(t) = Len(s) + 1
        /\ \A i \in 1 .. Len(s) + 1 :
             t[i] = IF i <= k THEN s[i] ELSE IF i = k + 1 THEN p ELSE s[i - 1]
    BY ZenonT(30), InsertedAt
  <2> HIDE DEF t
  <2> QED BY <2>1, <2>2
<1> HIDE DEF t
<1>2. ASSUME NEW i \in 1 .. Len(t) PROVE t[i] \in Elements(s) \cup {p}
  <2>1. i <= k => i \in 1 .. Len(s) BY <1>1
  <2>2. ~ (i <= k) /\ i # k + 1 => i - 1 \in 1 .. Len(s) BY <1>1
  <2> QED BY <1>1, <2>1, <2>2 DEF Elements
<1>3. p \in Elements(t)
  <2>1. k + 1 \in 1 .. Len(t) /\ t[k + 1] = p BY <1>1
  <2> QED BY <2>1 DEF Elements
<1>4. ASSUME NEW i \in 1 .. Len(s) PROVE s[i] \in Elements(t)
  <2>1. i <= k => i \in 1 .. Len(t) /\ t[i] = s[i] BY <1>1
  <2>2. ~ (i <= k) => i + 1 \in 1 .. Len(t) /\ t[i + 1] = s[i] BY <1>1
  <2> QED BY <2>1, <2>2 DEF Elements
<1>5. Elements(t) \subseteq Elements(s) \cup {p} BY <1>2 DEF Elements
<1>6. Elements(s) \subseteq Elements(t) BY <1>4 DEF Elements
<1> QED BY <1>3, <1>5, <1>6 DEF t

-----------------------------------------------------------------------------
(* What the operations of RunQueue do to the sequences *)

\* A process p put behind the first k places of a list.
LEMMA PutIn ==
  ASSUME NEW lists, NEW S, Holds(lists, S), NEW l \in Level, NEW p \in Proc, Lacks(S, p),
         NEW k \in 0 .. Len(S[l]), NEW new \in Lists,
         new.head[l] = IF k = 0 THEN p ELSE lists.head[l],
         new.tail[l] = IF k = Len(S[l]) THEN p ELSE lists.tail[l],
         \A m \in Level \ {l} : new.head[m] = lists.head[m] /\ new.tail[m] = lists.tail[m],
         new.next[p] = IF k = Len(S[l]) THEN NULL ELSE S[l][k + 1],
         k # 0 => new.next[S[l][k]] = p,
         \A a \in Proc \ {p} : k = 0 \/ a # S[l][k] => new.next[a] = lists.next[a]
  PROVE  Holds(new, [S EXCEPT ![l] = PutAt(S[l], k, p)])
<1> DEFINE s == S[l]
           t == PutAt(s, k, p)
           n == Len(s)
<1>1. /\ s \in Seq(Proc) /\ n \in Nat /\ \A i \in 1 .. n : s[i] \in Proc
      /\ s = <<>> <=> n = 0
      /\ Listing(lists.head[l], lists.tail[l], lists.next, s)
  BY ListsOf
<1>2. \A i, j \in 1 .. n : s[i] = s[j] => i = j BY DEF Holds, Distinct
<1>3. \A i \in 1 .. n : s[i] # p BY DEF Lacks, Elements
<1>4. /\ t \in Seq(Proc) /\ Len(t) = n + 1 /\ t # <<>>
      /\ \A i \in 1 .. n + 1 : t[i] = IF i <= k THEN s[i] ELSE IF i = k + 1 THEN p ELSE s[i - 1]
  <2>1. /\ t \in Seq(Proc) /\ Len(t) = n + 1
        /\ \A i \in 1 .. n + 1 :
             t[i] = IF i <= k THEN s[i] ELSE IF i = k + 1 THEN p ELSE s[i - 1]
    <3> HIDE DEF s
    <3>1. k \in 0 .. Len(s) BY DEF s
    <3> QED BY <3>1, <1>1, InsertedAt
  <2> HIDE DEF s, t, n
  <2>2. t # <<>> BY <2>1, <1>1, EmptySeq
  <2> QED BY <2>1, <2>2
<1>5. Elements(t) = Elements(s) \cup {p} BY <1>1, InsertedElements
<1> HIDE DEF s, t, n
<1>6. k \in 0 .. n BY DEF n, s
<1>7. ASSUME NEW i \in 1 .. n + 1
      PROVE  new.next[t[i]] = IF i = n + 1 THEN NULL ELSE t[i + 1]
  <2>1. CASE i < k
    <3>1. i \in 1 .. n /\ k \in 1 .. n /\ i + 1 \in 1 .. n + 1 /\ i + 1 <= k /\ i # n /\ i # n + 1
      BY <2>1, <1>1, <1>6
    <3>2. t[i] = s[i] /\ t[i + 1] = s[i + 1] BY <3>1, <2>1, <1>4, <1>6
    <3>3. s[i] \in Proc \ {p} /\ s[i] # s[k] BY <3>1, <2>1, <1>1, <1>2, <1>3, <1>6
    <3>4. new.next[s[i]] = lists.next[s[i]] BY <3>3 DEF s
    <3>5. lists.next[s[i]] = s[i + 1] BY <3>1, <1>1 DEF Listing, n
    <3> QED BY <3>1, <3>2, <3>4, <3>5
  <2>2. CASE i = k
    <3>1. i # n + 1 /\ i + 1 \in 1 .. n + 1 BY <2>2, <1>1, <1>6
    <3>2. t[i] = s[k] /\ t[i + 1] = p BY <3>1, <2>2, <1>1, <1>4, <1>6
    <3> QED BY <3>1, <3>2, <2>2, <1>1 DEF s
  <2>3. CASE i = k + 1
    <3>1. t[i] = p BY <2>3, <1>4, <1>6
    <3>2. CASE k = n BY <3>1, <3>2, <2>3 DEF n, s
    <3>3. CASE k # n
      <4>1. i + 1 \in 1 .. n + 1 /\ ~ (i + 1 <= k) /\ i + 1 # k + 1 /\ (i + 1) - 1 = k + 1
        BY <3>3, <2>3, <1>1, <1>6
      <4>2. t[i + 1] = s[k + 1] BY <4>1, <1>4
      <4>3. new.next[p] = s[k + 1] BY <3>3 DEF n, s
      <4>4. i # n + 1 BY <3>3, <2>3, <1>1, <1>6
      <4> QED BY <3>1, <4>2, <4>3, <4>4
    <3> QED BY <3>2, <3>3
  <2>4. CASE i > k + 1
    <3>1. i - 1 \in 1 .. n /\ ~ (i <= k) /\ i # k + 1 /\ i - 1 # k BY <2>4, <1>1, <1>6
    <3>2. t[i] = s[i - 1] BY <3>1, <1>4
    <3>3. s[i - 1] \in Proc \ {p} /\ (k = 0 \/ s[i - 1] # s[k])
      <4>1. k = 0 \/ k \in 1 .. n BY <1>1, <1>6
      <4> QED BY <4>1, <3>1, <1>1, <1>2, <1>3
    <3>4. new.next[s[i - 1]] = lists.next[s[i - 1]] BY <3>3 DEF s
    <3>5. lists.next[s[i - 1]] = IF i - 1 = n THEN NULL ELSE s[(i - 1) + 1]
      BY <3>1, <1>1 DEF Listing, n
    <3>6. (i - 1 = n <=> i = n + 1) /\ (i - 1) + 1 = i BY <1>1
    <3>7. i # n + 1 => t[i + 1] = s[i]
      <4>1. i # n + 1 => /\ i + 1 \in 1 .. n + 1 /\ ~ (i + 1 <= k) /\ i + 1 # k + 1
                         /\ (i + 1) - 1 = i
        BY <2>4, <1>1, <1>6
      <4> QED BY <4>1, <1>4
    <3> QED BY <3>2, <3>4, <3>5, <3>6, <3>7
  <2> QED BY <2>1, <2>2, <2>3, <2>4, <1>1, <1>6
<1>8. new.head[l] = t[1]
  <2>1. 1 \in 1 .. n + 1 BY <1>1
  <2>2. CASE k = 0 BY <2>1, <2>2, <1>4
  <2>3. CASE k # 0
    <3>1. 1 <= k /\ n # 0 BY <2>3, <1>1, <1>6
    <3> QED BY <3>1, <2>1, <2>3, <1>1, <1>4 DEF Listing
  <2> QED BY <2>2, <2>3
<1>9. new.tail[l] = t[n + 1]
  <2>1. n + 1 \in 1 .. n + 1 /\ ~ (n + 1 <= k) /\ (n + 1) - 1 = n /\ (n + 1 = k + 1 <=> k = n)
    BY <1>1, <1>6
  <2>2. CASE k = n BY <2>1, <2>2, <1>4 DEF n, s
  <2>3. CASE k # n
    <3>1. n # 0 BY <2>3, <1>1, <1>6
    <3>2. t[n + 1] = s[n] BY <2>1, <2>3, <1>4
    <3>3. lists.tail[l] = s[n] BY <3>1, <1>1 DEF Listing, n
    <3> QED BY <3>2, <3>3, <2>3 DEF n, s
  <2> QED BY <2>2, <2>3
<1>10. Listing(new.head[l], new.tail[l], new.next, t)
  BY <1>4, <1>7, <1>8, <1>9 DEF Listing
<1>11. ASSUME NEW i \in 1 .. Len(t), NEW j \in 1 .. Len(t), t[i] = t[j] PROVE i = j
  <2> DEFINE from(x) == IF x <= k THEN x ELSE x - 1
  <2>1. \A x \in 1 .. n + 1 : x # k + 1 => from(x) \in 1 .. n /\ t[x] = s[from(x)]
    BY <1>1, <1>4, <1>6
  <2>2. \A x, y \in 1 .. n + 1 : x # k + 1 /\ y # k + 1 /\ from(x) = from(y) => x = y
    BY <1>1, <1>6
  <2>3. t[k + 1] = p BY <1>1, <1>4, <1>6
  <2> HIDE DEF from
  <2> QED BY <2>1, <2>2, <2>3, <1>2, <1>3, <1>4, <1>11
<1>12. ASSUME NEW m \in Level \ {l}, NEW a \in Elements(S[m])
       PROVE  a \notin Elements(t) /\ new.next[a] = lists.next[a]
  <2>1. a # p /\ a \in Proc BY ListsOf DEF Lacks
  <2>2. a \notin Elements(s) BY DEF s, Holds, Distinct, Elements
  <2>3. k = 0 \/ a # s[k]
    <3>1. k = 0 \/ k \in 1 .. n BY <1>1, <1>6
    <3> QED BY <3>1, <2>2 DEF Elements, n
  <2> QED BY <2>1, <2>2, <2>3, <1>5 DEF s
<1>13. Holds(new, [S EXCEPT ![l] = t])
  <2>1. \A i, j \in 1 .. Len(t) : t[i] = t[j] => i = j BY <1>11
  <2>2. \A m \in Level \ {l} :
          /\ new.head[m] = lists.head[m] /\ new.tail[m] = lists.tail[m]
          /\ \A a \in Elements(S[m]) : a \notin Elements(t) /\ new.next[a] = lists.next[a]
    BY <1>12
  <2>3. t \in Seq(Proc) BY <1>4
  <2> QED BY ONLY Holds(lists, S), l \in Level, new \in Lists, <1>10, <2>1, <2>2, <2>3, Replaced
<1> QED BY <1>13 DEF t, s

LEMMA PushBackHolds ==
  ASSUME NEW lists, NEW S, Holds(lists, S), NEW l \in Level, NEW p \in Proc, Lacks(S, p)
  PROVE  Holds(PushBack(lists, p, l), [S EXCEPT ![l] = Append(S[l], p)])
<1> DEFINE s == S[l]
           k == Len(s)
           new == PushBack(lists, p, l)
<1>1. /\ s \in Seq(Proc) /\ k \in Nat /\ \A i \in 1 .. k : s[i] \in Proc /\ s[i] # NULL
      /\ s = <<>> <=> k = 0
      /\ Listing(lists.head[l], lists.tail[l], lists.next, s)
  BY ListsOf
<1>2. lists \in Lists BY DEF Holds
<1>3. new \in Lists BY <1>2 DEF PushBack, Lists
<1> HIDE DEF s, k
<1>4. lists.tail[l] = IF k = 0 THEN NULL ELSE s[k] BY <1>1 DEF Listing, k
<1>5. k # 0 => lists.tail[l] # NULL /\ lists.tail[l] \in Proc \ {p}
  <2>1. \A i \in 1 .. k : s[i] # p BY DEF Lacks, Elements, k, s
  <2> QED BY <1>1, <1>4, <2>1
<1>6. /\ new.head[l] = IF k = 0 THEN p ELSE lists.head[l]
      /\ new.tail[l] = p
      /\ \A m \in Level \ {l} : new.head[m] = lists.head[m] /\ new.tail[m] = lists.tail[m]
      /\ new.next[p] = NULL
      /\ k # 0 => new.next[s[k]] = p
      /\ \A a \in Proc \ {p} : k = 0 \/ a # s[k] => new.next[a] = lists.next[a]
  BY <1>2, <1>4, <1>5 DEF PushBack, Lists
<1>7. k \in 0 .. Len(S[l]) /\ k = Len(S[l]) /\ s = S[l] BY <1>1 DEF k, s
<1> HIDE DEF new
<1>8. Holds(new, [S EXCEPT ![l] = PutAt(S[l], k, p)])
  BY <1>3, <1>6, <1>7, PutIn
<1> QED BY <1>1, <1>7, <1>8, AppendInserts DEF new

LEMMA PushFrontHolds ==
  ASSUME NEW lists, NEW S, Holds(lists, S), NEW l \in Level, NEW p \in Proc, Lacks(S, p)
  PROVE  Holds(PushFront(lists, p, l), [S EXCEPT ![l] = PutAt(S[l], 0, p)])
<1> DEFINE s == S[l]
           n == Len(s)
           new == PushFront(lists, p, l)
<1>1. /\ s \in Seq(Proc) /\ n \in Nat /\ \A i \in 1 .. n : s[i] \in Proc /\ s[i] # NULL
      /\ s = <<>> <=> n = 0
      /\ Listing(lists.head[l], lists.tail[l], lists.next, s)
  BY ListsOf
<1>2. lists \in Lists BY DEF Holds
<1>3. new \in Lists BY <1>2 DEF PushFront, Lists
<1> HIDE DEF s, n
<1>4. lists.head[l] = IF n = 0 THEN NULL ELSE s[1] BY <1>1 DEF Listing, n
<1>5. lists.head[l] = NULL <=> n = 0
  <2>1. n # 0 => 1 \in 1 .. n BY <1>1
  <2> QED BY <1>1, <1>4, <2>1
<1>6. /\ new.head[l] = p
      /\ new.tail[l] = IF n = 0 THEN p ELSE lists.tail[l]
      /\ \A m \in Level \ {l} : new.head[m] = lists.head[m] /\ new.tail[m] = lists.tail[m]
      /\ new.next[p] = IF n = 0 THEN NULL ELSE s[1]
      /\ \A a \in Proc \ {p} : new.next[a] = lists.next[a]
  BY <1>2, <1>4, <1>5 DEF PushFront, Lists
<1>7. 0 \in 0 .. Len(S[l]) /\ n = Len(S[l]) /\ s = S[l] /\ 0 + 1 = 1 BY <1>1 DEF n, s
<1> HIDE DEF new
<1>8. Holds(new, [S EXCEPT ![l] = PutAt(S[l], 0, p)])
  <2>1. new.tail[l] = IF 0 = Len(S[l]) THEN p ELSE lists.tail[l] BY <1>6, <1>7
  <2>2. new.next[p] = IF 0 = Len(S[l]) THEN NULL ELSE S[l][0 + 1] BY <1>6, <1>7
  <2> QED BY <1>3, <1>6, <1>7, <2>1, <2>2, PutIn
<1> QED BY <1>8 DEF new

LEMMA InsertAfterHolds ==
  ASSUME NEW lists, NEW S, Holds(lists, S), NEW p \in Proc, Lacks(S, p),
         NEW k \in 1 .. Len(S[2])
  PROVE  Holds(InsertAfter(lists, S[2][k], p), [S EXCEPT ![2] = PutAt(S[2], k, p)])
<1> DEFINE s == S[2]
           n == Len(s)
           new == InsertAfter(lists, s[k], p)
<1>0. 2 \in Level BY DEF Level
<1>1. /\ s \in Seq(Proc) /\ n \in Nat /\ \A i \in 1 .. n : s[i] \in Proc /\ s[i] # NULL
      /\ s = <<>> <=> n = 0
      /\ Listing(lists.head[2], lists.tail[2], lists.next, s)
  BY <1>0, ListsOf
<1>2. lists \in Lists BY DEF Holds
<1>3. s[k] \in Proc \ {p} BY <1>0, <1>1 DEF Lacks, Elements
<1>4. new \in Lists BY <1>0, <1>2, <1>3 DEF InsertAfter, Lists
<1>5. lists.next[s[k]] = IF k = n THEN NULL ELSE s[k + 1] BY <1>1 DEF Listing
<1>6. lists.next[s[k]] = NULL <=> k = n
  <2>1. k # n => k + 1 \in 1 .. n BY <1>1
  <2> QED BY <1>1, <1>5, <2>1
<1> HIDE DEF s, n
<1>7. /\ new.head = lists.head
      /\ new.tail[2] = IF k = n THEN p ELSE lists.tail[2]
      /\ \A m \in Level \ {2} : new.tail[m] = lists.tail[m]
      /\ new.next[p] = IF k = n THEN NULL ELSE s[k + 1]
      /\ new.next[s[k]] = p
      /\ \A a \in Proc \ {p} : a # s[k] => new.next[a] = lists.next[a]
  BY <1>0, <1>2, <1>3, <1>5, <1>6 DEF InsertAfter, Lists
<1>8. k \in 0 .. Len(S[2]) /\ n = Len(S[2]) /\ s = S[2] /\ k # 0 BY <1>1 DEF n, s
<1> HIDE DEF new
<1>9. Holds(new, [S EXCEPT ![2] = PutAt(S[2], k, p)])
  BY <1>0, <1>4, <1>7, <1>8, PutIn
<1> QED BY <1>9 DEF new, s

Sorted(s, prio) == \A i, j \in 1 .. Len(s) : i < j => prio[s[i]] <= prio[s[j]]

\* The processes that do not come after p, and how many of those of s do not.
NotAfter(prio, p) == {q \in Proc : prio[q] <= prio[p]}
Ahead(s, prio, p) == Cardinality({i \in 1 .. Len(s) : prio[s[i]] <= prio[p]})

\* On a sorted list they are the first ones.
LEMMA AheadIs ==
  ASSUME NEW s \in Seq(Proc), NEW prio \in [Proc -> Int], NEW p \in Proc, Sorted(s, prio)
  PROVE  /\ Ahead(s, prio, p) \in 0 .. Len(s)
         /\ \A i \in 1 .. Len(s) : prio[s[i]] <= prio[p] <=> i <= Ahead(s, prio, p)
<1> DEFINE n == Len(s)
           c == Ahead(s, prio, p)
           A == {i \in 1 .. n : prio[s[i]] <= prio[p]}
<1>1. n \in Nat /\ \A i \in 1 .. n : s[i] \in Proc BY LenProperties, ElementOfSeq
<1> HIDE DEF n, c
<1>2. \A i \in A : \A j \in 1 .. i : j \in A
  <2> SUFFICES ASSUME NEW i \in A, NEW j \in 1 .. i, j # i PROVE j \in A OBVIOUS
  <2>1. i \in 1 .. n /\ j \in 1 .. n /\ j < i BY <1>1
  <2>2. prio[s[j]] <= prio[s[i]] BY <2>1 DEF Sorted, n
  <2>3. prio[s[i]] \in Int /\ prio[s[j]] \in Int /\ prio[p] \in Int BY <2>1, <1>1
  <2> QED BY <2>1, <2>2, <2>3
<1>3. c \in 0 .. n /\ A = 1 .. c
  <2>1. A \in SUBSET (1 .. n) /\ c = Cardinality(A) BY DEF c, Ahead, n
  <2> HIDE DEF A
  <2> QED BY <1>1, <1>2, <2>1, Downward
<1>4. \A i \in 1 .. n : prio[s[i]] <= prio[p] <=> i <= c BY <1>1, <1>3
<1> QED BY <1>3, <1>4 DEF n, c

\* The first k processes of s.
Leading(s, k) == {s[i] : i \in 1 .. k}

\* The processes Enqueue2 passes on a sorted list are its first ones.
LEMMA WalkSorted ==
  ASSUME NEW lists, NEW S, Holds(lists, S), NEW prio \in [Proc -> Int], NEW p \in Proc,
         Sorted(S[2], prio)
  PROVE  /\ Ahead(S[2], prio, p) \in 0 .. Len(S[2])
         /\ Walk(lists.next, lists.head[2], NotAfter(prio, p))
              = Leading(S[2], Ahead(S[2], prio, p))
<1> DEFINE s == S[2]
           n == Len(s)
           c == Ahead(s, prio, p)
           Over == NotAfter(prio, p)
           W == Walk(lists.next, lists.head[2], Over)
           T == {s[i] : i \in 1 .. c}
<1>1. /\ s \in Seq(Proc) /\ n \in Nat /\ \A i \in 1 .. n : s[i] \in Proc /\ s[i] # NULL
      /\ s = <<>> <=> n = 0
      /\ Listing(lists.head[2], lists.tail[2], lists.next, s)
  <2>1. 2 \in Level BY DEF Level
  <2> QED BY <2>1, ListsOf
<1>2. NULL \notin Over /\ NULL \notin Proc BY NullNotProc DEF NotAfter
<1> HIDE DEF s, n, c
<1>4. c \in 0 .. n /\ \A i \in 1 .. n : prio[s[i]] <= prio[p] <=> i <= c
  BY <1>1, AheadIs DEF n, s, c
<1>5. \A i \in 1 .. n : s[i] \in Over <=> i <= c BY <1>1, <1>4 DEF NotAfter
<1> HIDE DEF Over
<1>6. T \in SUBSET Proc BY <1>1, <1>4
<1>7. lists.head[2] = IF n = 0 THEN NULL ELSE s[1] BY <1>1 DEF Listing
<1>8. \A i \in 1 .. n : lists.next[s[i]] = IF i = n THEN NULL ELSE s[i + 1]
  BY <1>1 DEF Listing, n
<1>9. W \subseteq T
  <2>1. lists.head[2] \in Over => lists.head[2] \in T
    <3>1. n # 0 => 1 \in 1 .. n BY <1>1
    <3> QED BY <3>1, <1>1, <1>2, <1>4, <1>5, <1>7
  <2>2. ASSUME NEW b \in T, lists.next[b] \in Over PROVE lists.next[b] \in T
    <3>1. PICK i \in 1 .. c : b = s[i] OBVIOUS
    <3>2. i \in 1 .. n /\ i # n /\ i + 1 \in 1 .. n BY <3>1, <2>2, <1>1, <1>2, <1>4, <1>8
    <3>3. lists.next[b] = s[i + 1] BY <3>1, <3>2, <1>8
    <3>4. i + 1 \in 1 .. c BY <3>2, <3>3, <2>2, <1>1, <1>4, <1>5
    <3> QED BY <3>3, <3>4
  <2>3. \A b \in T : lists.next[b] \in Over => lists.next[b] \in T BY <2>2
  <2> HIDE DEF T
  <2>4. ASSUME NEW q \in W PROVE q \in T BY <2>1, <2>3, <1>6 DEF Walk
  <2> QED BY <2>4
<1>10. \A i \in 1 .. c : s[i] \in W
  <2> DEFINE B == {i \in 1 .. c : s[i] \notin W}
  <2> SUFFICES ASSUME B # {} PROVE FALSE OBVIOUS
  <2>1. B \subseteq Nat BY <1>1, <1>4
  <2>2. PICK m \in B : \A x \in B : m <= x BY <2>1, LeastNatural
  <2>3. m \in 1 .. c /\ m \in 1 .. n /\ s[m] \notin W /\ s[m] \in Over BY <1>1, <1>4, <1>5
  <2>4. Over \in SUBSET Proc BY DEF Over, NotAfter
  <2>5. /\ lists.head[2] \in Over => lists.head[2] \in W
        /\ \A b \in W : lists.next[b] \in Over => lists.next[b] \in W
    BY <2>4, WalkClosed
  <2> HIDE DEF W
  <2>6. CASE m = 1 BY <2>3, <2>5, <2>6, <1>7
  <2>7. CASE m # 1
    <3>1. m - 1 \in 1 .. c /\ m - 1 \in 1 .. n /\ m - 1 # n /\ (m - 1) + 1 = m
      BY <2>3, <2>7, <1>1, <1>4
    <3>2. m - 1 \notin B
      <4>1. m - 1 \in B => m <= m - 1 BY <2>2
      <4> QED BY <4>1, <3>1
    <3>3. s[m - 1] \in W BY <3>1, <3>2
    <3>4. lists.next[s[m - 1]] = s[m] BY <3>1, <1>8
    <3> QED BY <3>3, <3>4, <2>3, <2>5
  <2> QED BY <2>6, <2>7
<1>11. W = T BY <1>9, <1>10
<1> QED BY <1>4, <1>11 DEF Over, s, n, c, Leading

\* Enqueue2 puts a process where ReadyQueues puts it.
LEMMA Enqueue2Holds ==
  ASSUME NEW lists, NEW S, Holds(lists, S), NEW prio \in [Proc -> Int], NEW p \in Proc,
         Lacks(S, p), Sorted(S[2], prio)
  PROVE  Holds(Enqueue2(lists, p, prio),
               [S EXCEPT ![2] = PutAt(S[2], Ahead(S[2], prio, p), p)])
<1> DEFINE s == S[2]
           n == Len(s)
           c == Ahead(s, prio, p)
           passed == Walk(lists.next, lists.head[2], NotAfter(prio, p))
           last   == {a \in passed : lists.next[a] \notin passed}
<1>0. 2 \in Level BY DEF Level
<1>1. /\ s \in Seq(Proc) /\ n \in Nat /\ \A i \in 1 .. n : s[i] \in Proc /\ s[i] # NULL
      /\ s = <<>> <=> n = 0
      /\ Listing(lists.head[2], lists.tail[2], lists.next, s)
  BY <1>0, ListsOf
<1>2. c \in 0 .. n /\ \A a : a \in passed <=> \E i \in 1 .. c : a = s[i]
  <2>1. Ahead(S[2], prio, p) \in 0 .. Len(S[2])
    BY WalkSorted
  <2>2. passed = Leading(s, c) BY WalkSorted
  <2> QED BY <2>1, <2>2 DEF Leading
<1>3. \A i, j \in 1 .. n : s[i] = s[j] => i = j BY <1>0 DEF Holds, Distinct
<1>4. Enqueue2(lists, p, prio) =
        IF lists.tail[2] = NULL THEN PushBack(lists, p, 2)
        ELSE IF passed = {} THEN PushFront(lists, p, 2)
        ELSE IF last = {} THEN lists
        ELSE InsertAfter(lists, CHOOSE a \in last : TRUE, p)
  BY DEF Enqueue2, InsertPast, NotAfter
<1>5. lists.tail[2] = NULL <=> n = 0
  <2>1. n # 0 => n \in 1 .. n BY <1>1
  <2>2. lists.tail[2] = IF n = 0 THEN NULL ELSE s[n] BY <1>1 DEF Listing
  <2> QED BY <1>1, <2>1, <2>2
<1> HIDE DEF passed, s, n, c
<1>6. CASE n = 0
  <2>1. c = n BY <1>2, <1>6
  <2>2. Holds(PushBack(lists, p, 2), [S EXCEPT ![2] = Append(S[2], p)])
    BY <1>0, PushBackHolds
  <2>3. Append(S[2], p) = PutAt(S[2], c, p) BY <1>1, <2>1, AppendInserts DEF s, n
  <2> QED BY <1>4, <1>5, <1>6, <2>2, <2>3 DEF c, s
<1>7. CASE n # 0 /\ c = 0
  <2>1. passed = {} BY <1>2, <1>7
  <2>2. Holds(PushFront(lists, p, 2), [S EXCEPT ![2] = PutAt(S[2], 0, p)])
    BY <1>0, PushFrontHolds
  <2> QED BY <1>4, <1>5, <1>7, <2>1, <2>2 DEF c, s
<1>8. CASE n # 0 /\ c # 0
  <2>1. c \in 1 .. n BY <1>1, <1>2, <1>8
  <2>2. s[c] \in passed /\ passed # {} BY <1>2, <2>1
  <2>3. \A i \in 1 .. n : lists.next[s[i]] = IF i = n THEN NULL ELSE s[i + 1]
    BY <1>1 DEF Listing, n
  <2>4. lists.next[s[c]] \notin passed
    <3>1. CASE c = n BY <3>1, <2>1, <2>3, <1>1, <1>2
    <3>2. CASE c # n
      <4>1. c + 1 \in 1 .. n /\ lists.next[s[c]] = s[c + 1]
        <5>1. n \in Nat BY <1>1
        <5>2. c + 1 \in 1 .. n BY ONLY <5>1, <3>2, <2>1
        <5>3. lists.next[s[c]] = IF c = n THEN NULL ELSE s[c + 1] BY ONLY ZenonT(30), <2>1, <2>3
        <5> QED BY ONLY <5>2, <5>3, <3>2
      <4>2. \A i \in 1 .. c : s[i] # s[c + 1] BY <4>1, <2>1, <1>1, <1>3
      <4> QED BY <4>1, <4>2, <1>2
    <3> QED BY <3>1, <3>2
  <2>5. \A i \in 1 .. c : i # c => lists.next[s[i]] \in passed
    <3> SUFFICES ASSUME NEW i \in 1 .. c, i # c PROVE lists.next[s[i]] \in passed
      OBVIOUS
    <3>1. i \in 1 .. n /\ i # n /\ i + 1 \in 1 .. c BY <2>1, <1>1
    <3>2. lists.next[s[i]] = s[i + 1] BY <3>1, <2>3
    <3> QED BY <3>1, <3>2, <1>2
  <2>6. last = {s[c]} BY <1>2, <2>2, <2>4, <2>5
  <2> HIDE DEF last
  <2>7. last # {} /\ (CHOOSE a \in last : TRUE) = s[c] BY <2>6
  <2>8. Enqueue2(lists, p, prio) = InsertAfter(lists, s[c], p)
    BY <1>4, <1>5, <1>8, <2>2, <2>7
  <2>9. c \in 1 .. Len(S[2]) BY <2>1 DEF s, n
  <2>10. Holds(InsertAfter(lists, S[2][c], p), [S EXCEPT ![2] = PutAt(S[2], c, p)])
    BY <2>9, InsertAfterHolds
  <2> QED BY <2>8, <2>10 DEF s, c
<1> QED BY <1>6, <1>7, <1>8

LEMMA SameCardinality == \A s : Abstract!Cardinality(s) = Cardinality(s)
BY DEF Abstract!Cardinality, Cardinality

LEMMA PlacedIs ==
  ASSUME NEW s \in Seq(Proc), NEW prio \in [Proc -> Int], NEW p \in Proc, NEW l \in Level,
         l = 2 => Sorted(s, prio)
  PROVE  /\ Abstract!Placed(s, l, p, prio)
               = PutAt(s, IF l = 2 THEN Ahead(s, prio, p) ELSE Len(s), p)
         /\ Elements(Abstract!Placed(s, l, p, prio)) = Elements(s) \cup {p}
         /\ l = 2 => Sorted(Abstract!Placed(s, l, p, prio), prio)
<1> DEFINE c == Ahead(s, prio, p)
<1>1. Level = {0, 1, 2} /\ Len(s) \in Nat /\ \A i \in 1 .. Len(s) : s[i] \in Proc
  BY LenProperties, ElementOfSeq DEF Level
<1>2. CASE l = 2
  <2>1. c \in 0 .. Len(s) /\ \A i \in 1 .. Len(s) : prio[s[i]] <= prio[p] <=> i <= c
    BY <1>2, AheadIs
  <2>2. Abstract!Placed(s, l, p, prio) = PutAt(s, c, p)
    <3>1. ~ (l < 2) BY <1>2
    <3>2. Abstract!Placed(s, l, p, prio)
            = Abstract!InsertAt(s, Abstract!Cardinality({i \in 1 .. Len(s) : prio[s[i]] <= prio[p]}) + 1, p)
      BY <3>1 DEF Abstract!Placed
    <3>3. Abstract!Cardinality({i \in 1 .. Len(s) : prio[s[i]] <= prio[p]}) = c
      BY SameCardinality DEF Ahead
    <3> QED BY <3>2, <3>3 DEF PutAt
  <2> HIDE DEF c
  <2> DEFINE t == PutAt(s, c, p)
  <2>3. /\ Len(t) = Len(s) + 1
        /\ \A i \in 1 .. Len(s) + 1 :
             t[i] = IF i <= c THEN s[i] ELSE IF i = c + 1 THEN p ELSE s[i - 1]
    BY <2>1, InsertedAt
  <2>4. Elements(t) = Elements(s) \cup {p} BY <2>1, InsertedElements
  <2> HIDE DEF t
  <2>5. ASSUME NEW i \in 1 .. Len(t), NEW j \in 1 .. Len(t), i < j
        PROVE  prio[t[i]] <= prio[t[j]]
    <3>1. i \in 1 .. Len(s) + 1 /\ j \in 1 .. Len(s) + 1 BY <2>3
    <3>2. \A q \in Proc : prio[q] \in Int OBVIOUS
    <3>3. CASE j <= c
      <4>1. i <= c /\ i \in 1 .. Len(s) /\ j \in 1 .. Len(s) BY <3>1, <3>3, <2>1, <2>5
      <4> QED BY <4>1, <3>1, <3>3, <2>3, <2>5, <1>2 DEF Sorted
    <3>4. CASE j = c + 1
      <4>1. i <= c /\ i \in 1 .. Len(s) BY <3>1, <3>4, <2>1, <2>5, <1>1
      <4>2. t[i] = s[i] /\ t[j] = p
        <5>1. ~ (j <= c) BY <3>1, <3>4, <2>1
        <5> QED BY <5>1, <4>1, <3>1, <3>4, <2>3
      <4> QED BY <4>1, <4>2, <2>1
    <3>5. CASE j > c + 1
      <4>1. j - 1 \in 1 .. Len(s) /\ ~ (j - 1 <= c) /\ ~ (j <= c) /\ j # c + 1
        BY <3>1, <3>5, <2>1, <1>1
      <4>2. t[j] = s[j - 1] BY <4>1, <3>1, <2>3
      <4>3. s[j - 1] \in Proc /\ ~ (prio[s[j - 1]] <= prio[p]) BY <4>1, <2>1, <1>1
      <4>4. CASE i <= c
        <5>1. i \in 1 .. Len(s) /\ i < j - 1 /\ t[i] = s[i] BY <4>4, <4>1, <3>1, <2>1, <2>3
        <5> QED BY <5>1, <4>1, <4>2, <1>2 DEF Sorted
      <4>5. CASE i = c + 1
        <5>1. t[i] = p
          <6>1. ~ (i <= c) BY <4>5, <3>1, <2>1
          <6> QED BY <6>1, <4>5, <3>1, <2>3
        <5>2. prio[p] \in Int /\ prio[s[j - 1]] \in Int BY <4>3
        <5> QED BY <5>1, <5>2, <4>2, <4>3
      <4>6. CASE i > c + 1
        <5>1. /\ i - 1 \in 1 .. Len(s) /\ i - 1 < j - 1 /\ ~ (i <= c) /\ i # c + 1
          BY <4>6, <3>1, <2>1, <2>5, <1>1
        <5>2. t[i] = s[i - 1] BY <5>1, <3>1, <2>3
        <5> QED BY <5>1, <5>2, <4>1, <4>2, <1>2 DEF Sorted
      <4> QED BY <4>4, <4>5, <4>6, <3>1, <2>1
    <3> QED BY <3>3, <3>4, <3>5, <3>1, <2>1
  <2>6. Sorted(t, prio) BY <2>5 DEF Sorted
  <2> QED BY <1>2, <2>2, <2>4, <2>6 DEF t, c
<1>3. CASE l # 2
  <2>1. Abstract!Placed(s, l, p, prio) = Append(s, p) BY <1>1, <1>3 DEF Abstract!Placed
  <2>2. Append(s, p) = PutAt(s, Len(s), p) BY AppendInserts
  <2>3. Len(s) \in 0 .. Len(s) BY <1>1
  <2>4. Elements(PutAt(s, Len(s), p)) = Elements(s) \cup {p} BY <2>3, InsertedElements
  <2> QED BY <1>3, <2>1, <2>2, <2>4
<1> QED BY <1>2, <1>3

\* Enqueue without the scheduler lock is Placed.
LEMMA EnqueueHolds ==
  ASSUME NEW lists, NEW S, Holds(lists, S), NEW l \in Level, NEW p \in Proc, Lacks(S, p),
         NEW prio \in [Proc -> Int], Sorted(S[2], prio)
  PROVE  Holds(Enqueue(lists, p, l, FALSE, prio),
               [S EXCEPT ![l] = Abstract!Placed(S[l], l, p, prio)])
<1>1. S[l] \in Seq(Proc) BY ListsOf
<1>2. CASE l = 2
  <2>1. Holds(Enqueue2(lists, p, prio),
              [S EXCEPT ![2] = PutAt(S[2], Ahead(S[2], prio, p), p)])
    BY Enqueue2Holds
  <2>2. Abstract!Placed(S[2], 2, p, prio) = PutAt(S[2], Ahead(S[2], prio, p), p)
    BY <1>1, <1>2, PlacedIs
  <2>3. Enqueue(lists, p, 2, FALSE, prio) = Enqueue2(lists, p, prio) BY DEF Enqueue
  <2> QED BY <1>2, <2>1, <2>2, <2>3
<1>3. CASE l # 2
  <2>1. Holds(PushBack(lists, p, l), [S EXCEPT ![l] = Append(S[l], p)])
    BY PushBackHolds
  <2>2. Abstract!Placed(S[l], l, p, prio) = Append(S[l], p)
    BY <1>3, ConstantFacts DEF Abstract!Placed
  <2>3. Enqueue(lists, p, l, FALSE, prio) = PushBack(lists, p, l) BY <1>3 DEF Enqueue
  <2> QED BY <2>1, <2>2, <2>3
<1> QED BY <1>2, <1>3

LEMMA DequeueHolds ==
  ASSUME NEW lists, NEW S, Holds(lists, S), NEW l \in Level, lists.head[l] # NULL
  PROVE  /\ S[l] # <<>> /\ lists.head[l] = S[l][1]
         /\ Holds(Dequeue(lists, l), [S EXCEPT ![l] = Tail(S[l])])
         /\ Elements(Tail(S[l])) = Elements(S[l]) \ {lists.head[l]}
<1> DEFINE s == S[l]
           n == Len(s)
           t == Tail(s)
           new == Dequeue(lists, l)
<1>1. /\ s \in Seq(Proc) /\ n \in Nat /\ \A i \in 1 .. n : s[i] \in Proc /\ s[i] # NULL
      /\ s = <<>> <=> n = 0
      /\ Listing(lists.head[l], lists.tail[l], lists.next, s)
  BY ListsOf
<1>2. lists \in Lists BY DEF Holds
<1>3. \A i, j \in 1 .. n : s[i] = s[j] => i = j BY DEF Holds, Distinct
<1>4. s # <<>> /\ n # 0 /\ 1 \in 1 .. n /\ lists.head[l] = s[1] /\ lists.tail[l] = s[n]
  BY <1>1 DEF Listing
<1>5. t \in Seq(Proc) /\ Len(t) = n - 1 /\ \A i \in 1 .. n - 1 : t[i] = s[i + 1]
  BY <1>1, <1>4, HeadTailProperties
<1>6. new \in Lists BY <1>1, <1>2, <1>4 DEF Dequeue, Lists
<1> HIDE DEF s, n, t
<1>7. t = <<>> <=> n = 1 BY <1>1, <1>5, EmptySeq
<1>8. lists.next[s[1]] = IF n = 1 THEN NULL ELSE s[2]
  <2>1. \A i \in 1 .. n : lists.next[s[i]] = IF i = n THEN NULL ELSE s[i + 1]
    BY <1>1 DEF Listing, n
  <2> QED BY <2>1, <1>4
<1>9. lists.next[s[1]] = NULL <=> n = 1
  <2>1. n # 1 => 2 \in 1 .. n BY <1>1, <1>4
  <2> QED BY <2>1, <1>1, <1>8
<1>10. /\ new.head[l] = IF n = 1 THEN NULL ELSE s[2]
       /\ new.tail[l] = IF n = 1 THEN NULL ELSE s[n]
       /\ \A k \in Level \ {l} : new.head[k] = lists.head[k] /\ new.tail[k] = lists.tail[k]
       /\ \A a \in Proc \ {s[1]} : new.next[a] = lists.next[a]
  BY <1>2, <1>4, <1>8, <1>9 DEF Dequeue, Lists
<1>11. \A i \in 1 .. n - 1 : i + 1 \in 1 .. n /\ i + 1 # 1 BY <1>1
<1>12. Listing(new.head[l], new.tail[l], new.next, t)
  <2>1. CASE n = 1 BY <2>1, <1>5, <1>7, <1>10 DEF Listing
  <2>2. CASE n # 1
    <3>1. 1 \in 1 .. n - 1 /\ n - 1 \in 1 .. n - 1 /\ (n - 1) + 1 = n /\ 1 + 1 = 2
      BY <2>2, <1>1, <1>4
    <3>2. t[1] = s[2] /\ t[n - 1] = s[n] BY <3>1, <1>5
    <3>3. ASSUME NEW i \in 1 .. n - 1
          PROVE  new.next[t[i]] = IF i = n - 1 THEN NULL ELSE t[i + 1]
      <4>1. i + 1 \in 1 .. n /\ s[i + 1] # s[1] /\ s[i + 1] \in Proc
        BY <1>1, <1>3, <1>4, <1>11
      <4>2. new.next[t[i]] = IF i + 1 = n THEN NULL ELSE s[(i + 1) + 1]
        BY SMTT(30), <4>1, <1>1, <1>5, <1>10 DEF Listing, n
      <4>3. i # n - 1 => i + 1 \in 1 .. n - 1 BY <1>1
      <4>4. i + 1 = n <=> i = n - 1 BY <1>1
      <4> QED BY <4>2, <4>3, <4>4, <1>5
    <3> QED BY <2>2, <3>2, <3>3, <1>5, <1>7, <1>10 DEF Listing
  <2> QED BY <2>1, <2>2
<1>13. \A i, j \in 1 .. Len(t) : t[i] = t[j] => i = j
  BY <1>1, <1>3, <1>5, <1>11
<1>14. Elements(t) = Elements(s) \ {s[1]}
  <2>1. \A i \in 1 .. n - 1 : t[i] \in Elements(s) \ {s[1]}
    BY <1>3, <1>4, <1>5, <1>11 DEF Elements, n
  <2>2. ASSUME NEW i \in 1 .. n, s[i] # s[1] PROVE s[i] \in Elements(t)
    <3>1. i - 1 \in 1 .. n - 1 /\ (i - 1) + 1 = i BY <2>2, <1>1
    <3> QED BY <3>1, <1>5 DEF Elements
  <2>3. Elements(t) \subseteq Elements(s) \ {s[1]} BY <2>1, <1>5 DEF Elements
  <2>4. Elements(s) \ {s[1]} \subseteq Elements(t) BY <2>2 DEF Elements, n
  <2> QED BY <2>3, <2>4
<1>15. \A k \in Level \ {l} :
          /\ new.head[k] = lists.head[k] /\ new.tail[k] = lists.tail[k]
          /\ \A a \in Elements(S[k]) : a \notin Elements(t) /\ new.next[a] = lists.next[a]
  <2> SUFFICES ASSUME NEW k \in Level \ {l}, NEW a \in Elements(S[k])
               PROVE  a \notin Elements(t) /\ new.next[a] = lists.next[a]
    BY <1>10
  <2>1. a \in Proc BY ListsOf
  <2>2. a \notin Elements(s) BY DEF s, Holds, Distinct, Elements
  <2>3. s[1] \in Elements(s) BY <1>4 DEF Elements, n
  <2> QED BY <2>1, <2>2, <2>3, <1>10, <1>14
<1> HIDE DEF new
<1>16. Holds(new, [S EXCEPT ![l] = t])
  BY ONLY Holds(lists, S), l \in Level, <1>5, <1>6, <1>12, <1>13, <1>15, Replaced
<1> QED BY <1>4, <1>14, <1>16 DEF new, t, s

\* The queue `to` followed by the queue `from`.
LEMMA SpliceHolds ==
  ASSUME NEW lists, NEW S, Holds(lists, S), NEW from \in Level, NEW to \in Level, from # to
  PROVE  Holds(Splice(lists, from, to),
               [S EXCEPT ![to] = S[to] \o S[from], ![from] = <<>>])
<1> DEFINE u == S[to]
           v == S[from]
           w == u \o v
           n == Len(u)
           m == Len(v)
           R == [S EXCEPT ![to] = w, ![from] = <<>>]
           new == Splice(lists, from, to)
<1>1. /\ u \in Seq(Proc) /\ n \in Nat /\ \A i \in 1 .. n : u[i] \in Proc /\ u[i] # NULL
      /\ u = <<>> <=> n = 0
      /\ Listing(lists.head[to], lists.tail[to], lists.next, u)
  BY ListsOf
<1>2. /\ v \in Seq(Proc) /\ m \in Nat /\ \A i \in 1 .. m : v[i] \in Proc /\ v[i] # NULL
      /\ v = <<>> <=> m = 0
      /\ Listing(lists.head[from], lists.tail[from], lists.next, v)
  BY ListsOf
<1>3. /\ w \in Seq(Proc) /\ Len(w) = n + m
      /\ \A i \in 1 .. n + m : w[i] = IF i <= n THEN u[i] ELSE v[i - n]
  <2>1. /\ u \o v \in Seq(Proc) /\ Len(u \o v) = Len(u) + Len(v)
        /\ \A i \in 1 .. Len(u) + Len(v) :
             (u \o v)[i] = IF i <= Len(u) THEN u[i] ELSE v[i - Len(u)]
    <3>1. u \in Seq(Proc) /\ v \in Seq(Proc) BY <1>1, <1>2
    <3> HIDE DEF u, v
    <3> QED BY <3>1, ConcatProperties
  <2> QED BY <2>1
<1>4. lists \in Lists /\ S \in [Level -> Seq(Proc)] /\ <<>> \in Seq(Proc)
      /\ Len(<<>>) = 0
  BY EmptySeq DEF Holds
<1>5. /\ R \in [Level -> Seq(Proc)] /\ R[to] = w /\ R[from] = <<>>
      /\ \A k \in Level \ {from, to} : R[k] = S[k]
  <2> HIDE DEF w
  <2> QED BY <1>3, <1>4
<1>6. /\ \A i, j \in 1 .. n : u[i] = u[j] => i = j
      /\ \A i, j \in 1 .. m : v[i] = v[j] => i = j
      /\ \A i \in 1 .. n, j \in 1 .. m : u[i] # v[j]
  BY DEF Holds, Distinct
<1>7. lists.tail[from] = NULL <=> m = 0
  <2>1. m # 0 => m \in 1 .. m BY <1>2
  <2> QED BY <2>1, <1>2 DEF Listing
<1>8. lists.tail[to] = NULL <=> n = 0
  <2>1. n # 0 => n \in 1 .. n BY <1>1
  <2> QED BY <2>1, <1>1 DEF Listing
<1>9. CASE m = 0
  <2>1. w = u BY <1>1, <1>2, <1>9, ConcatEmptySeq
  <2>2. R = S
    <3> HIDE DEF w, R
    <3>1. \A k \in Level : R[k] = S[k] BY <2>1, <1>2, <1>5, <1>9
    <3> QED BY <3>1, <1>4, <1>5
  <2>3. new = lists BY <1>7, <1>9 DEF Splice
  <2> QED BY <2>2, <2>3
<1>10. CASE m # 0
  <2> HIDE DEF w, u, v, n, m, R
  <2>1. /\ lists.head[from] = v[1] /\ lists.tail[from] = v[m]
        /\ n # 0 => lists.head[to] = u[1] /\ lists.tail[to] = u[n]
        /\ 1 \in 1 .. m /\ m \in 1 .. m /\ (n # 0 => n \in 1 .. n /\ 1 \in 1 .. n)
    BY <1>1, <1>2, <1>10 DEF Listing, n, m
  <2>2. /\ \A i \in 1 .. n : lists.next[u[i]] = IF i = n THEN NULL ELSE u[i + 1]
        /\ \A i \in 1 .. m : lists.next[v[i]] = IF i = m THEN NULL ELSE v[i + 1]
    BY <1>1, <1>2 DEF Listing, n, m
  <2>3. /\ new.head = [lists.head EXCEPT ![to] = IF n = 0 THEN v[1] ELSE u[1], ![from] = NULL]
        /\ new.tail = [lists.tail EXCEPT ![to] = v[m], ![from] = NULL]
        /\ new.next = IF n = 0 THEN lists.next ELSE [lists.next EXCEPT ![u[n]] = v[1]]
    BY <1>4, <1>7, <1>8, <1>10, <2>1 DEF Splice, Lists
  <2>4. /\ new.head[to] = IF n = 0 THEN v[1] ELSE u[1]
        /\ new.tail[to] = v[m] /\ new.head[from] = NULL /\ new.tail[from] = NULL
        /\ \A k \in Level \ {from, to} :
             new.head[k] = lists.head[k] /\ new.tail[k] = lists.tail[k]
        /\ \A a \in Proc : n = 0 \/ a # u[n] => new.next[a] = lists.next[a]
        /\ n # 0 => new.next[u[n]] = v[1]
    BY <1>1, <1>4, <2>1, <2>3 DEF Lists
  <2>5. new \in Lists
    <3>1. /\ new.head \in [Level -> Proc \cup {NULL}]
          /\ new.tail \in [Level -> Proc \cup {NULL}]
          /\ new.next \in [Proc -> Proc \cup {NULL}]
      <4>1. v[1] \in Proc /\ v[m] \in Proc /\ (n # 0 => u[1] \in Proc)
        BY <1>1, <1>2, <2>1
      <4>2. /\ lists.head \in [Level -> Proc \cup {NULL}]
            /\ lists.tail \in [Level -> Proc \cup {NULL}]
            /\ lists.next \in [Proc -> Proc \cup {NULL}]
        BY <1>4 DEF Lists
      <4>3. \A f \in [Level -> Proc \cup {NULL}], x \in Proc :
              [f EXCEPT ![to] = x, ![from] = NULL] \in [Level -> Proc \cup {NULL}]
        OBVIOUS
      <4>4. \A x \in Proc : [lists.next EXCEPT ![u[n]] = x] \in [Proc -> Proc \cup {NULL}]
        BY <4>2
      <4>5. (IF n = 0 THEN v[1] ELSE u[1]) \in Proc BY <4>1
      <4> QED BY <4>1, <4>2, <4>3, <4>4, <4>5, <2>3
    <3>2. new = [head |-> new.head, tail |-> new.tail, next |-> new.next]
      BY <1>7, <1>10 DEF Splice
    <3> QED BY <3>1, <3>2 DEF Lists
  <2> HIDE DEF new
  <2>6. ASSUME NEW i \in 1 .. n + m
        PROVE  new.next[w[i]] = IF i = n + m THEN NULL ELSE w[i + 1]
    <3>1. CASE i < n
      <4>1. i \in 1 .. n /\ i + 1 \in 1 .. n /\ i # n /\ i # n + m /\ i + 1 \in 1 .. n + m
            /\ n # 0 /\ n \in 1 .. n
        BY <3>1, <1>1, <1>2
      <4>2. w[i] = u[i] /\ w[i + 1] = u[i + 1]
        <5>1. i <= n /\ i + 1 <= n BY <4>1
        <5> QED BY <4>1, <5>1, <1>3
      <4>3. u[i] # u[n] /\ u[i] \in Proc BY <4>1, <1>1, <1>6
      <4> QED BY <4>1, <4>2, <4>3, <2>2, <2>4
    <3>2. CASE i = n
      <4>1. n # 0 /\ i # n + m /\ i + 1 \in 1 .. n + m /\ ~ (i + 1 <= n) /\ (i + 1) - n = 1
            /\ i <= n
        BY <3>2, <1>1, <1>2, <1>10
      <4>2. w[i] = u[n] /\ w[i + 1] = v[1] BY <4>1, <3>2, <1>3
      <4> QED BY <4>1, <4>2, <2>4
    <3>3. CASE i > n
      <4>1. i - n \in 1 .. m /\ ~ (i <= n) BY <3>3, <1>1, <1>2
      <4>2. w[i] = v[i - n] BY <4>1, <1>3
      <4>3. v[i - n] \in Proc /\ (n = 0 \/ v[i - n] # u[n])
        <5>1. n = 0 \/ n \in 1 .. n BY <1>1
        <5> QED BY <5>1, <4>1, <1>2, <1>6
      <4>4. new.next[w[i]] = IF i - n = m THEN NULL ELSE v[(i - n) + 1]
        BY <4>1, <4>2, <4>3, <2>2, <2>4
      <4>5. i # n + m => w[i + 1] = v[(i - n) + 1]
        <5>1. i \in Nat /\ n \in Nat /\ m \in Nat /\ i <= n + m BY <1>1, <1>2
        <5>2. i # n + m => i + 1 \in 1 .. n + m BY <5>1
        <5>3. ~ (i + 1 <= n) BY <5>1, <3>3
        <5>4. (i + 1) - n = (i - n) + 1 BY <5>1
        <5> QED BY <5>2, <5>3, <5>4, <1>3
      <4>6. i - n = m <=> i = n + m BY <1>1, <1>2
      <4> QED BY <4>4, <4>5, <4>6
    <3> QED BY <3>1, <3>2, <3>3, <1>1
  <2>7. Listing(new.head[to], new.tail[to], new.next, w)
    <3>1. w # <<>> BY <1>1, <1>2, <1>3, <1>4, <1>10
    <3>2. w[1] = IF n = 0 THEN v[1] ELSE u[1]
      <4>1. 1 \in 1 .. n + m /\ (n = 0 => ~ (1 <= n) /\ 1 - n = 1) /\ (n # 0 => 1 <= n)
        BY <1>1, <1>2, <1>10
      <4> QED BY <4>1, <1>3
    <3>3. w[n + m] = v[m]
      <4>1. n + m \in 1 .. n + m /\ ~ (n + m <= n) /\ (n + m) - n = m BY <1>1, <1>2, <1>10
      <4> QED BY <4>1, <1>3
    <3> QED BY <3>1, <3>2, <3>3, <1>3, <2>4, <2>6 DEF Listing
  <2>8. Listing(new.head[from], new.tail[from], new.next, <<>>)
    BY <1>4, <2>4 DEF Listing
  <2>9. ASSUME NEW k \in Level \ {from, to}
        PROVE  Listing(new.head[k], new.tail[k], new.next, S[k])
    <3>1. Listing(lists.head[k], lists.tail[k], lists.next, S[k])
          /\ \A i \in 1 .. Len(S[k]) : S[k][i] \in Proc
      BY ListsOf
    <3>2. \A i \in 1 .. Len(S[k]) : n = 0 \/ S[k][i] # u[n]
      <4>1. n = 0 \/ n \in 1 .. Len(S[to]) BY <1>1 DEF n, u
      <4> QED BY <4>1 DEF Holds, Distinct, u
    <3> QED BY <3>1, <3>2, <2>4 DEF Listing
  <2>10. \A k \in Level : Listing(new.head[k], new.tail[k], new.next, R[k])
    BY <1>5, <2>7, <2>8, <2>9
  <2>11. Distinct(R)
    <3>1. ASSUME NEW i \in 1 .. n + m
          PROVE  \/ i \in 1 .. n /\ w[i] = u[i]
                 \/ i - n \in 1 .. m /\ w[i] = v[i - n] /\ ~ (i <= n)
      BY <1>1, <1>2, <1>3
    <3>2. ASSUME NEW i \in 1 .. n + m, NEW j \in 1 .. n + m, w[i] = w[j]
          PROVE  i = j
      <4>1. CASE i \in 1 .. n /\ w[i] = u[i] /\ j \in 1 .. n /\ w[j] = u[j]
        BY <3>2, <4>1, <1>6
      <4>2. CASE i \in 1 .. n /\ w[i] = u[i] /\ j - n \in 1 .. m /\ w[j] = v[j - n]
        BY <3>2, <4>2, <1>6
      <4>3. CASE j \in 1 .. n /\ w[j] = u[j] /\ i - n \in 1 .. m /\ w[i] = v[i - n]
        BY <3>2, <4>3, <1>6
      <4>4. CASE i - n \in 1 .. m /\ w[i] = v[i - n] /\ j - n \in 1 .. m /\ w[j] = v[j - n]
        <5>1. i - n = j - n BY <3>2, <4>4, <1>6
        <5> QED BY <5>1, <1>1, <1>2
      <4> QED BY <3>1, <4>1, <4>2, <4>3, <4>4
    <3>3. ASSUME NEW i \in 1 .. n + m, NEW k \in Level \ {from, to}, NEW x \in 1 .. Len(S[k])
          PROVE  w[i] # S[k][x]
      <4>1. \A j \in 1 .. n : u[j] # S[k][x] BY DEF Holds, Distinct, u, n
      <4>2. \A j \in 1 .. m : v[j] # S[k][x] BY DEF Holds, Distinct, v, m
      <4> QED BY <3>1, <4>1, <4>2
    <3>4. \A a, b \in Level : \A x \in 1 .. Len(S[a]), y \in 1 .. Len(S[b]) :
            S[a][x] = S[b][y] => a = b /\ x = y
      BY DEF Holds, Distinct
    <3> SUFFICES ASSUME NEW k \in Level, NEW l \in Level,
                        NEW i \in 1 .. Len(R[k]), NEW j \in 1 .. Len(R[l]), R[k][i] = R[l][j]
                 PROVE  k = l /\ i = j
      BY DEF Distinct
    <3>5. k # from /\ l # from BY <1>4, <1>5
    <3>6. CASE k = to /\ l = to BY <3>2, <3>6, <1>3, <1>5
    <3>7. CASE k = to /\ l # to BY <3>3, <3>5, <3>7, <1>3, <1>5
    <3>8. CASE k # to /\ l = to BY <3>3, <3>5, <3>8, <1>3, <1>5
    <3>9. CASE k # to /\ l # to BY SMTT(30), <3>4, <3>5, <3>9, <1>5
    <3> QED BY <3>6, <3>7, <3>8, <3>9
  <2>12. Holds(new, R) BY <1>5, <2>5, <2>10, <2>11 DEF Holds
  <2> QED BY <2>12 DEF R, new, w, u, v
<1> QED BY <1>9, <1>10
\* priorityBoosting: L0, then L1, then L2, in one queue.
LEMMA JoinHolds ==
  ASSUME NEW lists, NEW S, Holds(lists, S)
  PROVE  /\ Holds(JoinQueues(lists),
                  [l \in Level |-> IF l = 0 THEN S[0] \o S[1] \o S[2] ELSE <<>>])
         /\ Elements(S[0] \o S[1] \o S[2])
              = Elements(S[0]) \cup Elements(S[1]) \cup Elements(S[2])
<1> DEFINE cat(s, t) == s \o t
           S1 == [S EXCEPT ![1] = cat(S[1], S[2]), ![2] = <<>>]
           S2 == [S1 EXCEPT ![0] = cat(S1[0], S1[1]), ![1] = <<>>]
           J == [l \in Level |-> IF l = 0 THEN cat(cat(S[0], S[1]), S[2]) ELSE <<>>]
<1>1. 0 \in Level /\ 1 \in Level /\ 2 \in Level /\ \A l \in Level : l = 0 \/ l = 1 \/ l = 2
  BY DEF Level
<1>2. S \in [Level -> Seq(Proc)] BY DEF Holds
<1>3. S[0] \in Seq(Proc) /\ S[1] \in Seq(Proc) /\ S[2] \in Seq(Proc) BY <1>1, <1>2
<1>4. \A ls, T : Holds(ls, T) => \A from, to \in Level : from # to =>
        Holds(Splice(ls, from, to), [T EXCEPT ![to] = cat(T[to], T[from]), ![from] = <<>>])
  BY SpliceHolds
<1>5. \A s, t, u \in Seq(Proc) : cat(cat(s, t), u) = cat(s, cat(t, u))
  BY ConcatAssociative
<1> HIDE DEF cat
<1>6. Holds(Splice(Splice(lists, 2, 1), 1, 0), S2)
  <2>1. Holds(Splice(lists, 2, 1), S1) BY <1>1, <1>4
  <2> HIDE DEF S1
  <2> QED BY <1>1, <1>4, <2>1
<1>7. S2 = J
  <2>1. S = [l \in Level |-> S[l]] BY <1>2
  <2>2. /\ S1[0] = S[0] /\ S1[1] = cat(S[1], S[2]) /\ S1[2] = <<>>
        /\ S1 = [l \in Level |-> S1[l]]
    BY <2>1, <1>1
  <2> HIDE DEF S1
  <2>3. S2 = [l \in Level |-> IF l = 1 THEN <<>> ELSE IF l = 0 THEN cat(S1[0], S1[1]) ELSE S1[l]]
    BY <2>2
  <2>4. cat(S[0], cat(S[1], S[2])) = cat(cat(S[0], S[1]), S[2]) BY <1>3, <1>5
  <2>5. \A l \in Level : S2[l] = J[l] BY <2>2, <2>3, <2>4, <1>1
  <2>6. S2 = [l \in Level |-> S2[l]] BY <2>3
  <2> QED BY <2>5, <2>6
<1>8. ASSUME NEW s \in Seq(Proc), NEW t \in Seq(Proc)
      PROVE  s \o t \in Seq(Proc) /\ Elements(s \o t) = Elements(s) \cup Elements(t)
  <2>1. /\ s \o t \in Seq(Proc) /\ Len(s \o t) = Len(s) + Len(t)
        /\ Len(s) \in Nat /\ Len(t) \in Nat
        /\ \A i \in 1 .. Len(s) + Len(t) :
             (s \o t)[i] = IF i <= Len(s) THEN s[i] ELSE t[i - Len(s)]
    BY ConcatProperties, LenProperties
  <2>2. \A i \in 1 .. Len(s) : i \in 1 .. Len(s) + Len(t) /\ i <= Len(s) BY <2>1
  <2>3. \A i \in 1 .. Len(t) : /\ i + Len(s) \in 1 .. Len(s) + Len(t)
                               /\ ~ (i + Len(s) <= Len(s)) /\ (i + Len(s)) - Len(s) = i
    BY <2>1
  <2>4. \A i \in 1 .. Len(s) + Len(t) :
          IF i <= Len(s) THEN i \in 1 .. Len(s) ELSE i - Len(s) \in 1 .. Len(t)
    BY <2>1
  <2>5. \A x : x \in Elements(s \o t) => x \in Elements(s) \cup Elements(t)
    BY <2>1, <2>4 DEF Elements
  <2>6. \A x \in Elements(s) : x \in Elements(s \o t) BY <2>1, <2>2 DEF Elements
  <2>7. \A x \in Elements(t) : x \in Elements(s \o t) BY <2>1, <2>3 DEF Elements
  <2> QED BY <2>1, <2>5, <2>6, <2>7
<1>9. Elements(S[0] \o S[1] \o S[2]) = Elements(S[0]) \cup Elements(S[1]) \cup Elements(S[2])
  <2>1. \A s, t \in Seq(Proc) :
          s \o t \in Seq(Proc) /\ Elements(s \o t) = Elements(s) \cup Elements(t)
    BY <1>8
  <2>2. S[0] \o S[1] \in Seq(Proc) BY ONLY <1>3, <2>1
  <2> QED BY ONLY <1>3, <2>1, <2>2
<1>10. Holds(JoinQueues(lists), J) BY <1>6, <1>7 DEF JoinQueues
<1> QED BY <1>9, <1>10 DEF cat

-----------------------------------------------------------------------------
(* The scheduler *)

\* The workloads of the refinement, those that use the queues as queues: kill makes a
\* process RUNNABLE without queueing it, setPriority moves one inside L2, and the
\* holder of the scheduler lock goes to the front of a queue, out of its order.
Ordinary ==
  Calls \cap {"kill", "setPriority", "setPriorityNotLast", "schedulerLock"} = {}

\* The lists represent the sequences S, of exactly the processes Q, and L2 is sorted
\* by priority.
Represents(lists, S, Q, prio) ==
  /\ Holds(lists, S)
  /\ Q \in [Level -> SUBSET Proc]
  /\ \A l \in Level : Elements(S[l]) = Q[l]
  /\ Sorted(S[2], prio)

\* The inductive invariant: the queues hold exactly the RUNNABLE processes.
SeqInv ==
  /\ IInv /\ locked = {}
  /\ Represents(rq, AsSequences, Ready, priority)

LEMMA RepresentedNext ==
  ASSUME NEW S, Holds(rq', S)
  PROVE  AsSequences' = S
<1>1. \A l \in Level : Listed(rq', l) = S[l] BY ListedIs
<1>2. S = [l \in Level |-> S[l]] BY DEF Holds
<1> QED BY <1>1, <1>2 DEF AsSequences

\* The processes that the sequences hold are the RUNNABLE ones.
LEMMA QueuedIs ==
  ASSUME SeqInv
  PROVE  /\ Abstract!Queued = {q \in Proc : state[q] = "RUNNABLE"}
         /\ \A q \in Proc : state[q] # "RUNNABLE" => Lacks(AsSequences, q)
<1>1. Level = {0, 1, 2} /\ Level = 0 .. 2 BY DEF Level
<1>2. \A l \in Level : Abstract!ToSet(AsSequences[l]) = Ready[l]
  BY DEF Abstract!ToSet, SeqInv, Represents, Elements
<1>3. \A x : x \in Abstract!Queued <=> \E l \in Level : x \in Ready[l]
  BY <1>1, <1>2 DEF Abstract!Queued
<1>4. \A l \in Level : Ready[l] = {q \in Proc : state[q] = "RUNNABLE" /\ qlevel[q] = l}
  BY DEF Ready
<1>5. \A q \in Proc : qlevel[q] \in Level BY DEF SeqInv, IInv, Core, TypeOK
<1>6. Abstract!Queued = {q \in Proc : state[q] = "RUNNABLE"} BY <1>3, <1>4, <1>5
<1>7. \A q \in Proc : state[q] # "RUNNABLE" => Lacks(AsSequences, q)
  BY <1>4 DEF Lacks, SeqInv, Represents
<1> QED BY <1>6, <1>7

LEMMA PriorityType == TypeOK => priority \in [Proc -> Int]
BY DEF TypeOK

\* Priorities of L2 that stay leave it sorted.
LEMMA SortedKept ==
  ASSUME NEW s, NEW prio, NEW prio2, Sorted(s, prio),
         \A a \in Elements(s) : prio2[a] = prio[a]
  PROVE  Sorted(s, prio2)
BY DEF Sorted, Elements

\* The queues after a step represent S: the invariant holds and S is what they are.
LEMMA NextInv ==
  ASSUME IInv', locked' = {}, NEW S, Represents(rq', S, Ready', priority')
  PROVE  SeqInv' /\ AsSequences' = S
<1>1. AsSequences' = S BY RepresentedNext DEF Represents
<1> QED BY <1>1 DEF SeqInv

\* Enqueue puts p where the abstract queue places it.
LEMMA Placing ==
  ASSUME NEW lists, NEW S, NEW Q, NEW prio \in [Proc -> Int], Represents(lists, S, Q, prio),
         NEW p \in Proc, NEW l \in Level, Outside(Q, p)
  PROVE  Represents(Enqueue(lists, p, l, FALSE, prio),
                    [S EXCEPT ![l] = Abstract!Placed(S[l], l, p, prio)],
                    With(Q, l, p), prio)
<1> DEFINE s == Abstract!Placed(S[l], l, p, prio)
<1>1. /\ Holds(lists, S) /\ Sorted(S[2], prio) /\ 2 \in Level
      /\ Q \in [Level -> SUBSET Proc] /\ S \in [Level -> Seq(Proc)]
      /\ \A k \in Level : Elements(S[k]) = Q[k]
  BY DEF Represents, Holds, Level
<1>2. Lacks(S, p) BY <1>1 DEF Lacks, Outside
<1>3. Holds(Enqueue(lists, p, l, FALSE, prio), [S EXCEPT ![l] = s])
  BY <1>1, <1>2, EnqueueHolds
<1>4. Elements(s) = Elements(S[l]) \cup {p} /\ (l = 2 => Sorted(s, prio))
  <2>1. S[l] \in Seq(Proc) /\ (l = 2 => Sorted(S[l], prio)) BY <1>1
  <2> QED BY <2>1, PlacedIs
<1> HIDE DEF s
<1>5. With(Q, l, p) \in [Level -> SUBSET Proc] BY <1>1 DEF With
<1>6. \A k \in Level : Elements([S EXCEPT ![l] = s][k]) = With(Q, l, p)[k]
  BY <1>1, <1>4 DEF With
<1>7. Sorted([S EXCEPT ![l] = s][2], prio) BY <1>1, <1>4
<1> QED BY <1>3, <1>5, <1>6, <1>7 DEF Represents, s

\* Priorities that change outside the queues change nothing that they represent.
LEMMA Repriced ==
  ASSUME SeqInv, NEW prio, \A q \in Proc : state[q] = "RUNNABLE" => prio[q] = priority[q]
  PROVE  Represents(rq, AsSequences, Ready, prio)
<1>1. Represents(rq, AsSequences, Ready, priority) /\ 2 \in Level BY DEF SeqInv, Level
<1>2. \A a \in Elements(AsSequences[2]) : a \in Proc /\ state[a] = "RUNNABLE"
  BY <1>1 DEF Represents, Ready
<1>3. Sorted(AsSequences[2], prio) BY <1>1, <1>2, SortedKept DEF Represents
<1> QED BY <1>1, <1>3 DEF Represents

\* A step that changes no queue.
LEMMA KeptStep ==
  ASSUME SeqInv, IInv', locked' = {}, Holds(rq', AsSequences),
         \A q \in Proc : state'[q] = "RUNNABLE" <=> state[q] = "RUNNABLE",
         \A q \in Proc : state[q] = "RUNNABLE" =>
           qlevel'[q] = qlevel[q] /\ priority'[q] = priority[q]
  PROVE  SeqInv' /\ Abstract!Others
<1>1. Ready' = Ready BY ReadySame
<1>2. Represents(rq', AsSequences, Ready', priority')
  BY <1>1, Repriced DEF Represents
<1>3. SeqInv' /\ AsSequences' = AsSequences BY <1>2, NextInv
<1>4. Abstract!PrioritiesKept BY QueuedIs DEF Abstract!PrioritiesKept
<1> QED BY <1>3, <1>4 DEF Abstract!Others

\* A step that makes p ready.
LEMMA PutStep ==
  ASSUME SeqInv, IInv', locked' = {}, NEW p \in Proc, NEW l \in Level,
         state[p] # "RUNNABLE", state'[p] = "RUNNABLE", qlevel'[p] = l,
         \A q \in Proc \ {p} : /\ state'[q] = "RUNNABLE" <=> state[q] = "RUNNABLE"
                               /\ qlevel'[q] = qlevel[q],
         \A q \in Proc : state[q] = "RUNNABLE" => priority'[q] = priority[q],
         rq' = Enqueue(rq, p, l, FALSE, priority')
  PROVE  SeqInv' /\ Abstract!Next
<1> DEFINE S == AsSequences
           T == [S EXCEPT ![l] = Abstract!Placed(S[l], l, p, priority')]
<1>1. Ready' = With(Ready, l, p) /\ Outside(Ready, p) BY ReadyGains
<1>2. priority' \in [Proc -> Int] BY DEF IInv, Core, TypeOK
<1>3. Represents(rq, S, Ready, priority') BY Repriced
<1>4. Represents(rq', T, Ready', priority')
  <2> HIDE DEF S
  <2> QED BY <1>1, <1>2, <1>3, Placing
<1>5. SeqInv' /\ AsSequences' = T
  <2> HIDE DEF T
  <2> QED BY <1>4, NextInv
<1>6. Abstract!PrioritiesKept /\ p \in Proc \ Abstract!Queued
  BY QueuedIs DEF Abstract!PrioritiesKept
<1>7. l \in 0 .. 2 BY DEF Level
<1>8. Abstract!Put(p) BY <1>5, <1>6, <1>7 DEF Abstract!Put
<1> QED BY <1>5, <1>6, <1>8 DEF Abstract!Next

\* A step that makes p ready and then r.
LEMMA PutTwoStep ==
  ASSUME SeqInv, IInv', locked' = {}, NEW p \in Proc, NEW r \in Proc, p # r,
         state[p] # "RUNNABLE", state[r] # "RUNNABLE",
         priority' = priority, qlevel' = qlevel,
         \A q \in Proc : state'[q] = "RUNNABLE" <=> (state[q] = "RUNNABLE" \/ q \in {p, r}),
         rq' = Enqueue(Enqueue(rq, p, qlevel[p], FALSE, priority),
                       r, qlevel[r], FALSE, priority)
  PROVE  SeqInv' /\ Abstract!Next
<1> DEFINE S == AsSequences
           l == qlevel[p]
           k == qlevel[r]
           T == [S EXCEPT ![l] = Abstract!Placed(S[l], l, p, priority)]
           U == [T EXCEPT ![k] = Abstract!Placed(T[k], k, r, priority)]
           Q == With(Ready, l, p)
           first == Enqueue(rq, p, l, FALSE, priority)
<1>1. l \in Level /\ k \in Level /\ priority \in [Proc -> Int]
  BY PriorityType DEF SeqInv, IInv, Core, TypeOK
<1>2. Outside(Ready, p) /\ Outside(Ready, r) BY DEF Outside, Ready
<1>3. Represents(rq, S, Ready, priority) BY DEF SeqInv
<1>4. Outside(Q, r) BY <1>1, <1>2, ReadyType DEF Outside, With
<1>5. Ready' = With(Q, k, r)
  <2>1. \A m \in Level : Ready'[m] = With(Q, k, r)[m]
    BY <1>1, ReadyType DEF With, Ready
  <2>2. Ready' = [m \in Level |-> Ready'[m]] BY DEF Ready
  <2>3. With(Q, k, r) = [m \in Level |-> With(Q, k, r)[m]] BY ReadyType DEF With
  <2> QED BY <2>1, <2>2, <2>3
<1> HIDE DEF S, l, k
<1>6. Represents(first, T, Q, priority) BY <1>1, <1>2, <1>3, Placing
<1> HIDE DEF first, Q, T
<1>7. Represents(Enqueue(first, r, k, FALSE, priority), U, With(Q, k, r), priority)
  BY <1>1, <1>4, <1>6, Placing
<1> HIDE DEF U
<1>8. SeqInv' /\ AsSequences' = U
  <2>1. rq' = Enqueue(first, r, k, FALSE, priority) BY DEF first, l, k
  <2> QED BY <1>7, <1>5, <2>1, NextInv
<1>9. Abstract!PrioritiesKept /\ p \in Proc \ Abstract!Queued
      /\ r \in Proc \ (Abstract!Queued \cup {p})
  BY QueuedIs DEF Abstract!PrioritiesKept
<1>10. l \in 0 .. 2 /\ k \in 0 .. 2 BY <1>1 DEF Level
<1>11. Abstract!PutTwo(p, r)
  <2>1. /\ T = [S EXCEPT ![l] = Abstract!Placed(S[l], l, p, priority')]
        /\ U = [T EXCEPT ![k] = Abstract!Placed(T[k], k, r, priority')]
    BY DEF T, U
  <2> HIDE DEF T, U
  <2> QED BY <1>8, <1>9, <1>10, <2>1 DEF Abstract!PutTwo, S
<1> QED BY <1>8, <1>9, <1>11 DEF Abstract!Next

\* What the steps of the scheduler keep.
Stays == SeqInv' /\ [Abstract!Next]_(Abstract!vars)

\* Nothing but a RUNNING or sleeping process changes.
LEMMA QuietlyKept ==
  ASSUME SeqInv, IInv', locked' = {}, rq' = rq, priority' = priority, qlevel' = qlevel,
         \A q \in Proc : state'[q] = "RUNNABLE" <=> state[q] = "RUNNABLE"
  PROVE  Stays
<1>1. Holds(rq', AsSequences) BY DEF SeqInv, Represents
<1>2. SeqInv' /\ Abstract!Others BY <1>1, KeptStep
<1> QED BY <1>2 DEF Stays, Abstract!Next

\* Nobody holds the scheduler lock: Enqueue goes by the level and the priority.
LEMMA Unlocked ==
  ASSUME locked = {}, NEW lists, NEW p, NEW l, NEW pr
  PROVE  Queued(lists, p, l, pr) = Enqueue(lists, p, l, FALSE, pr)
BY DEF Queued, Enqueue

LEMMA DispatchKeeps ==
  ASSUME SeqInv, IInv', locked' = {}, NEW c \in CPU, Dispatch(c)
  PROVE  Stays
<1> DEFINE S == AsSequences
           l == level[c]
           p == rq.head[l]
           T == [S EXCEPT ![l] = Tail(S[l])]
<1>1. l \in Level /\ TypeOK /\ state \in [Proc -> States] BY DEF SeqInv, IInv, Core, TypeOK
<1>2. /\ p # NULL /\ rq' = Dequeue(rq, l) /\ state' = [state EXCEPT ![p] = "RUNNING"]
      /\ qlevel' = qlevel /\ priority' = priority
  BY DEF Dispatch, attrs
<1>3. Represents(rq, S, Ready, priority) BY DEF SeqInv
<1> HIDE DEF S, l
<1>4. /\ S[l] # <<>> /\ p = S[l][1]
      /\ Holds(Dequeue(rq, l), T)
      /\ Elements(Tail(S[l])) = Elements(S[l]) \ {p}
  <2>1. Holds(rq, S) /\ rq.head[l] # NULL BY <1>2, <1>3 DEF Represents
  <2> QED BY SMTT(30), <1>1, <2>1, DequeueHolds
<1>5. S \in [Level -> Seq(Proc)] /\ S[l] \in Seq(Proc) BY <1>1, <1>3 DEF Represents, Holds
<1>6. p \in Proc /\ p \in Ready[l] /\ qlevel[p] = l
  <2>1. Len(S[l]) \in Nat /\ Len(S[l]) # 0 BY <1>4, <1>5, EmptySeq, LenProperties
  <2>2. 1 \in 1 .. Len(S[l]) BY <2>1
  <2>3. p \in Elements(S[l]) BY <1>4, <2>2 DEF Elements
  <2> QED BY <1>1, <1>3, <2>3 DEF Represents, Ready
<1> HIDE DEF p
<1>7. Ready' = [Ready EXCEPT ![l] = @ \ {p}]
  <2>1. \A q \in Proc : state'[q] = "RUNNABLE" <=> (state[q] = "RUNNABLE" /\ q # p)
    BY <1>1, <1>2, <1>6
  <2> QED BY <1>1, <1>2, <1>6, <2>1, ReadyLoses
<1>8. Sorted(Tail(S[l]), priority) \/ l # 2
  <2> SUFFICES ASSUME l = 2 PROVE Sorted(Tail(S[l]), priority)
    OBVIOUS
  <2>1. Sorted(S[l], priority) BY <1>3 DEF Represents
  <2>2. /\ Len(Tail(S[l])) = Len(S[l]) - 1 /\ Len(S[l]) \in Nat
        /\ \A i \in 1 .. Len(Tail(S[l])) : Tail(S[l])[i] = S[l][i + 1]
    BY <1>4, <1>5, HeadTailProperties, LenProperties
  <2>3. \A i \in 1 .. Len(Tail(S[l])) : i + 1 \in 1 .. Len(S[l]) BY <2>2
  <2>4. \A i, j \in 1 .. Len(Tail(S[l])) : i < j => i + 1 < j + 1 BY <2>2
  <2> QED BY <2>1, <2>2, <2>3, <2>4 DEF Sorted
<1>9. Represents(rq', T, Ready', priority')
  <2>1. Holds(rq', T) BY <1>2, <1>4
  <2>2. Ready' \in [Level -> SUBSET Proc] BY <1>3, <1>7 DEF Represents
  <2>3. \A k \in Level : Elements(T[k]) = Ready'[k] BY <1>3, <1>4, <1>5, <1>7 DEF Represents
  <2>4. Sorted(T[2], priority')
    <3>1. 2 \in Level BY DEF Level
    <3> QED BY <3>1, <1>2, <1>3, <1>5, <1>8 DEF Represents
  <2> QED BY <2>1, <2>2, <2>3, <2>4 DEF Represents
<1>10. SeqInv' /\ AsSequences' = T
  <2> HIDE DEF T
  <2> QED BY <1>9, NextInv
<1>11. Abstract!PrioritiesKept BY <1>2 DEF Abstract!PrioritiesKept
<1>12. Abstract!Take(l) BY <1>4, <1>10, <1>11 DEF Abstract!Take, S
<1>13. l \in 0 .. 2 BY <1>1 DEF Level
<1> QED BY <1>10, <1>12, <1>13 DEF Stays, Abstract!Next

LEMMA ForkAllocKeeps ==
  ASSUME SeqInv, IInv', locked' = {}, NEW c \in CPU, NEW p \in Proc, ForkAlloc(c, p)
  PROVE  Stays
<1>1. PICK q \in Proc :
        /\ state[q] = "UNUSED" /\ state' = [state EXCEPT ![q] = "EMBRYO"]
        /\ qlevel' = [qlevel EXCEPT ![q] = 0]
        /\ priority' = [priority EXCEPT ![q] = TopPriority]
        /\ rq' = [rq EXCEPT !.next[q] = NULL]
  BY DEF ForkAlloc, First, Unused
<1>2. /\ state \in [Proc -> States] /\ qlevel \in [Proc -> Level]
      /\ priority \in [Proc -> Int] /\ rq \in Lists /\ rq' \in Lists
  BY DEF SeqInv, IInv, Core, TypeOK
<1>3. /\ rq'.head = rq.head /\ rq'.tail = rq.tail
      /\ \A a \in Proc \ {q} : rq'.next[a] = rq.next[a]
  BY <1>1, <1>2 DEF Lists
<1>4. \A l \in Level : \A a \in Elements(AsSequences[l]) : a \in Proc \ {q}
  BY <1>1 DEF SeqInv, Represents, Ready
<1>5. Holds(rq', AsSequences)
  <2>1. Holds(rq, AsSequences) BY DEF SeqInv, Represents
  <2>2. \A l \in Level : \A a \in Elements(AsSequences[l]) : rq'.next[a] = rq.next[a]
    BY <1>3, <1>4
  <2> QED BY <1>2, <1>3, <2>1, <2>2, OutsideLink
<1>6. \A r \in Proc : state'[r] = "RUNNABLE" <=> state[r] = "RUNNABLE" BY <1>1, <1>2
<1>7. \A r \in Proc : state[r] = "RUNNABLE" =>
        qlevel'[r] = qlevel[r] /\ priority'[r] = priority[r]
  BY <1>1, <1>2
<1>8. SeqInv' /\ Abstract!Others BY <1>5, <1>6, <1>7, KeptStep
<1> QED BY <1>8 DEF Stays, Abstract!Next

LEMMA ForkDoneKeeps ==
  ASSUME SeqInv, IInv', locked' = {}, NEW c \in CPU, NEW p \in Proc, ForkDone(c, p)
  PROVE  Stays
<1> DEFINE np == child[p]
<1>1. np \in Proc /\ state[np] = "EMBRYO" BY DEF ForkDone, SeqInv, IInv, Core, ForkOwnsChild
<1>2. TypeOK /\ locked = {} /\ qlevel[np] \in Level BY <1>1 DEF SeqInv, IInv, Core, TypeOK
<1>3. /\ state' = [state EXCEPT ![np] = "RUNNABLE"] /\ qlevel' = qlevel
      /\ priority' = priority /\ rq' = Enqueue(rq, np, qlevel[np], FALSE, priority')
  BY <1>2, Unlocked DEF ForkDone, attrs
<1> HIDE DEF np
<1>4. state'[np] = "RUNNABLE" /\ \A q \in Proc \ {np} : state'[q] = state[q]
  BY <1>1, <1>2, <1>3 DEF TypeOK
<1>5. SeqInv' /\ Abstract!Next BY <1>1, <1>2, <1>3, <1>4, PutStep
<1> QED BY <1>5 DEF Stays

LEMMA YieldKeeps ==
  ASSUME SeqInv, IInv', locked' = {}, NEW c \in CPU, NEW p \in Proc, Yield(c, p)
  PROVE  Stays
<1>1. state[p] = "RUNNING" BY Current DEF SeqInv, IInv, Yield, Call
<1>2. TypeOK /\ locked = {} /\ qlevel[p] \in Level BY DEF SeqInv, IInv, Core, TypeOK
<1>3. /\ state' = [state EXCEPT ![p] = "RUNNABLE"] /\ qlevel' = qlevel
      /\ priority' = priority /\ rq' = Enqueue(rq, p, qlevel[p], FALSE, priority')
  BY <1>2, Unlocked DEF Yield, attrs
<1>4. state'[p] = "RUNNABLE" /\ \A q \in Proc \ {p} : state'[q] = state[q]
  BY <1>2, <1>3 DEF TypeOK
<1>5. SeqInv' /\ Abstract!Next BY <1>1, <1>2, <1>3, <1>4, PutStep
<1> QED BY <1>5 DEF Stays

LEMMA TickWakeupKeeps ==
  ASSUME SeqInv, IInv', locked' = {}, TickWakeup
  PROVE  Stays
<1>1. PICK p \in Proc : /\ state[p] = "SLEEPING"
                         /\ state' = [state EXCEPT ![p] = "RUNNABLE"]
                         /\ rq' = Queued(rq, p, qlevel[p], priority)
  BY DEF TickWakeup, First, OnTicks
<1>2. TypeOK /\ locked = {} /\ qlevel[p] \in Level BY DEF SeqInv, IInv, Core, TypeOK
<1>3. /\ qlevel' = qlevel /\ priority' = priority
      /\ rq' = Enqueue(rq, p, qlevel[p], FALSE, priority')
  BY ZenonT(30), <1>1, <1>2, Unlocked DEF TickWakeup, attrs
<1>4. state'[p] = "RUNNABLE" /\ \A q \in Proc \ {p} : state'[q] = state[q]
  BY <1>1, <1>2 DEF TypeOK
<1>5. SeqInv' /\ Abstract!Next BY <1>1, <1>2, <1>3, <1>4, PutStep
<1> QED BY <1>5 DEF Stays

\* exit() wakes nobody, the parent, init, or the parent and then init.
LEMMA ExitKeeps ==
  ASSUME SeqInv, IInv', locked' = {}, NEW c \in CPU, NEW p \in Proc, Exit(c, p)
  PROVE  Stays
<1> USE ConstantFacts
<1> DEFINE W == Woken(p, {q \in Proc : parent[q] = p})
           u == parent[p]
           first == WakeOne(rq, W, u)
<1>1. /\ TypeOK /\ locked = {} /\ \A q \in Proc : qlevel[q] \in Level
      /\ state[p] = "RUNNING"
  BY Current DEF SeqInv, IInv, Core, TypeOK, Exit
<1>2. /\ rq' = IF u = InitProc THEN first ELSE WakeOne(first, W, InitProc)
      /\ state' = [q \in Proc |-> IF q = p THEN "ZOMBIE"
                                  ELSE IF q \in W THEN "RUNNABLE" ELSE state[q]]
      /\ qlevel' = qlevel /\ priority' = priority
  BY DEF Exit, attrs
<1>3. /\ W \subseteq {u, InitProc} /\ W \in SUBSET Proc
      /\ \A q \in W : state[q] = "SLEEPING" /\ q # p
  BY <1>1 DEF Woken, InWait
<1> HIDE DEF W, u
<1>4. \A lists, q : WakeOne(lists, W, q) = IF q \in W
                                          THEN Enqueue(lists, q, qlevel[q], FALSE, priority')
                                          ELSE lists
  BY <1>1, <1>2, Unlocked DEF WakeOne
<1>5. \A q \in Proc : state'[q] = "RUNNABLE" <=> (state[q] = "RUNNABLE" \/ q \in W)
  BY <1>1, <1>2, <1>3
<1>6. CASE W = {}
  <2>1. rq' = rq BY <1>2, <1>4, <1>6
  <2> QED BY <2>1, <1>2, <1>5, <1>6, QuietlyKept
<1>7. ASSUME NEW q \in Proc, W = {q}
      PROVE  Stays
  <2>1. q \in W /\ (q = u \/ q = InitProc) /\ \A r : r \in W => r = q BY <1>3, <1>7
  <2>2. first = IF q = u THEN Enqueue(rq, q, qlevel[q], FALSE, priority') ELSE rq
    BY ONLY <1>4, <2>1
  <2>3. rq' = Enqueue(rq, q, qlevel[q], FALSE, priority')
    <3>1. CASE q = u
      <4>1. u # InitProc => InitProc \notin W BY <2>1, <3>1
      <4>2. rq' = first BY <1>2, <1>4, <4>1
      <4> QED BY <2>2, <3>1, <4>2
    <3>2. CASE q # u
      <4>1. q = InitProc /\ u # InitProc /\ first = rq BY <2>1, <2>2, <3>2
      <4>2. rq' = WakeOne(rq, W, InitProc) BY <1>2, <4>1
      <4> QED BY <1>4, <2>1, <4>1, <4>2
    <3> QED BY <3>1, <3>2
  <2>4. SeqInv' /\ Abstract!Next BY <1>1, <1>2, <1>3, <1>5, <1>7, <2>3, PutStep
  <2> QED BY <2>4 DEF Stays
<1>8. CASE W = {u, InitProc} /\ u # InitProc
  <2>1. u \in Proc /\ rq' = Enqueue(Enqueue(rq, u, qlevel[u], FALSE, priority),
                                    InitProc, qlevel[InitProc], FALSE, priority)
    <3>1. u \in W /\ InitProc \in W /\ u \in Proc BY <1>3, <1>8
    <3>2. first = Enqueue(rq, u, qlevel[u], FALSE, priority) BY <1>2, <1>4, <3>1
    <3>3. rq' = WakeOne(first, W, InitProc) BY <1>2, <1>8
    <3>4. rq' = Enqueue(first, InitProc, qlevel[InitProc], FALSE, priority)
      BY <1>2, <1>4, <3>1, <3>3
    <3> QED BY <3>1, <3>2, <3>4
  <2>2. SeqInv' /\ Abstract!Next BY <1>2, <1>3, <1>5, <1>8, <2>1, PutTwoStep
  <2> QED BY <2>2 DEF Stays
<1>9. W = {} \/ (\E q \in Proc : W = {q}) \/ (W = {u, InitProc} /\ u # InitProc)
  BY <1>3
<1> QED BY <1>6, <1>7, <1>8, <1>9

LEMMA TrapEndKeeps ==
  ASSUME SeqInv, IInv', locked' = {}, NEW c \in CPU, NEW boosted, TrapEnd(c, boosted)
  PROVE  Stays
<1> DEFINE p == on[c]
<1>1. /\ IInv /\ TypeOK /\ locked = {}
      /\ p # NULL => p \in Proc /\ state[p] = "RUNNING"
  BY DEF SeqInv, IInv, Core, TypeOK, OneCpu
<1>2. CASE UNCHANGED <<state, attrs, rq>> BY <1>2, QuietlyKept DEF attrs
<1>3. ASSUME p # NULL, Charge(p)
      PROVE  \A q \in Proc : state[q] = "RUNNABLE" =>
               qlevel'[q] = qlevel[q] /\ priority'[q] = priority[q]
  BY <1>1, <1>3 DEF Charge, TypeOK
<1>4. CASE p # NULL /\ Charge(p) /\ UNCHANGED <<state, rq>>
  <2>1. Holds(rq', AsSequences) BY <1>4 DEF SeqInv, Represents
  <2>2. SeqInv' /\ Abstract!Others BY <1>3, <1>4, <2>1, KeptStep
  <2> QED BY <2>2 DEF Stays, Abstract!Next
<1>5. CASE /\ p # NULL /\ Charge(p)
           /\ state' = [state EXCEPT ![p] = "RUNNABLE"]
           /\ rq' = Queued(rq, p, qlevel'[p], priority')
  <2>1. p \in Proc /\ state[p] = "RUNNING" BY <1>1, <1>5
  <2>2. \A q \in Proc : state[q] = "RUNNABLE" => priority'[q] = priority[q]
    BY <1>3, <1>5
  <2> HIDE DEF p
  <2>3. qlevel'[p] \in Level /\ \A q \in Proc \ {p} : qlevel'[q] = qlevel[q]
    <3>1. qlevel' \in [Proc -> Level] BY DEF IInv, Core, TypeOK
    <3> QED BY <1>1, <1>5, <2>1, <3>1 DEF Charge, TypeOK
  <2>4. state'[p] = "RUNNABLE" /\ \A q \in Proc \ {p} : state'[q] = state[q]
    BY <1>1, <1>5, <2>1 DEF TypeOK
  <2>5. PICK l \in Level : l = qlevel'[p] BY <2>3
  <2>6. rq' = Enqueue(rq, p, l, FALSE, priority') BY <1>1, <1>5, <2>5, Unlocked
  <2>7. SeqInv' /\ Abstract!Next BY <2>1, <2>2, <2>3, <2>4, <2>5, <2>6, PutStep
  <2> QED BY <2>7 DEF Stays
<1> QED BY <1>2, <1>4, <1>5 DEF TrapEnd

\* A boost joins the queues, and every process of L0 then has the top priority.
LEMMA TickBoostKeeps ==
  ASSUME SeqInv, IInv', locked' = {}, TickBoost
  PROVE  Stays
<1> DEFINE S == AsSequences
           J == [l \in Level |-> IF l = 0 THEN S[0] \o S[1] \o S[2] ELSE <<>>]
           all == S[0] \o S[1] \o S[2]
<1>1. /\ TypeOK /\ state' = state /\ rq' = JoinQueues(rq)
      /\ qlevel' = [q \in Proc |-> IF q \in Boosted THEN 0 ELSE qlevel[q]]
      /\ priority' = [q \in Proc |-> IF q \in Boosted THEN TopPriority ELSE priority[q]]
  BY DEF TickBoost, SeqInv, IInv, Core
<1>2. Represents(rq, S, Ready, priority) BY DEF SeqInv
<1> HIDE DEF S
<1>3. Holds(rq', J) /\ Elements(all) = Elements(S[0]) \cup Elements(S[1]) \cup Elements(S[2])
  <2>1. Holds(rq, S) BY <1>2 DEF Represents
  <2> QED BY <1>1, <2>1, JoinHolds
<1>4. /\ 0 \in Level /\ 1 \in Level /\ 2 \in Level
      /\ \A l \in Level : l = 0 \/ l = 1 \/ l = 2
  BY DEF Level
<1>5. \A l \in Level : J[l] = IF l = 0 THEN all ELSE <<>> OBVIOUS
<1>6. \A q \in Proc : state[q] = "RUNNABLE" => q \in Boosted BY DEF Boosted
<1> HIDE DEF J, all
<1>7. Elements(all) = {q \in Proc : state[q] = "RUNNABLE"}
  <2>1. \A q \in Proc : qlevel[q] \in Level BY <1>1 DEF TypeOK
  <2>2. Elements(all) = Ready[0] \cup Ready[1] \cup Ready[2]
    BY <1>2, <1>3, <1>4 DEF Represents
  <2> QED BY <1>4, <2>1, <2>2 DEF Ready
<1>8. Represents(rq', J, Ready', priority')
  <2>1. Ready' \in [Level -> SUBSET Proc] BY DEF Ready
  <2>2. Elements(<<>>) = {} BY EmptySeq DEF Elements
  <2>3. \A l \in Level : Elements(J[l]) = Ready'[l]
    BY <1>1, <1>4, <1>5, <1>6, <1>7, <2>2 DEF Ready
  <2>4. Sorted(J[2], priority') BY <1>4, <1>5, EmptySeq DEF Sorted
  <2> QED BY <1>3, <2>1, <2>3, <2>4 DEF Represents
<1>9. SeqInv' /\ AsSequences' = J BY <1>8, NextInv
<1>10. \A q \in Abstract!Queued : priority'[q] = TopPriority BY <1>1, <1>6, QueuedIs
<1>11. Abstract!Boost BY <1>9, <1>10 DEF Abstract!Boost, J, S, Level
<1> QED BY <1>9, <1>11 DEF Stays, Abstract!Next

\* Without schedulerLock nobody comes to hold the scheduler lock.
LEMMA NobodyLocks ==
  ASSUME Ordinary, locked = {}, [Next]_vars
  PROVE  locked' = {}
<1>1. CASE Timer
  BY <1>1 DEF Timer, Tick, TickBoost, TickWakeup, TickEnd, TrapEnd
<1>2. ASSUME NEW c \in CPU, Scheduler(c) \/ OtherTimer(c)
      PROVE  locked' = {}
  BY <1>2 DEF Scheduler, Dispatch, NextLevel, OtherTimer, TrapEnd
<1>3. ASSUME NEW c \in CPU, NEW p \in Proc, Process(c, p)
      PROVE  locked' = {}
  <2>1. CASE ForkAlloc(c, p) \/ ForkFail(c, p) \/ ForkDone(c, p) \/ BeginExit(c, p) \/ Exit(c, p)
    BY <2>1 DEF ForkAlloc, ForkFail, ForkDone, BeginExit, Exit
  <2>2. CASE \/ Reap(c, p) \/ WaitFails(c, p) \/ WaitSleep(c, p) \/ Sleep(c, p)
             \/ SleepReturns(c, p) \/ Yield(c, p) \/ ResetTicks(c, p) \/ SchedulerUnlock(c, p)
    BY <2>2 DEF Reap, WaitFails, WaitSleep, Sleep, SleepReturns, Yield, ResetTicks,
                SchedulerUnlock
  <2>3. CASE \E q \in Proc : Kill(c, p, q) BY <2>3 DEF Kill, Call, Ordinary
  <2>4. CASE \E q \in Proc, new \in Priorities : SetPriority(c, p, q, new)
    BY <2>4 DEF SetPriority, CallOfSetPriority, Call, Ordinary
  <2>5. CASE SchedulerLock(c, p) BY <2>5 DEF SchedulerLock, Call, Ordinary
  <2> QED BY <1>3, <2>1, <2>2, <2>3, <2>4, <2>5 DEF Process
<1>4. CASE UNCHANGED vars BY <1>4 DEF vars
<1> QED BY <1>1, <1>2, <1>3, <1>4 DEF Next

\* Every step of the scheduler keeps the invariant and is a step of the sequences.
LEMMA StepKeeps ==
  ASSUME Ordinary, SeqInv, [Next]_vars
  PROVE  Stays
<1>1. locked' = {} BY NobodyLocks DEF SeqInv
<1>2. IInv' BY Inductive DEF SeqInv, Ordinary, Supported
<1>3. CASE Timer
  <2>1. CASE Tick BY <2>1, <1>1, <1>2, QuietlyKept DEF Tick, attrs
  <2>2. CASE TickBoost BY <2>2, <1>1, <1>2, TickBoostKeeps
  <2>3. CASE TickWakeup BY <2>3, <1>1, <1>2, TickWakeupKeeps
  <2>4. CASE TickEnd
    <3>1. 0 \in CPU BY ConstantFacts
    <3> QED BY <3>1, <2>4, <1>1, <1>2, TrapEndKeeps DEF TickEnd
  <2> QED BY <1>3, <2>1, <2>2, <2>3, <2>4 DEF Timer
<1>4. ASSUME NEW c \in CPU, Scheduler(c) \/ OtherTimer(c)
      PROVE  Stays
  <2>1. CASE Dispatch(c) BY <2>1, <1>1, <1>2, DispatchKeeps
  <2>2. CASE NextLevel(c) BY <2>2, <1>1, <1>2, QuietlyKept DEF NextLevel, attrs
  <2>3. CASE OtherTimer(c) BY <2>3, <1>1, <1>2, TrapEndKeeps DEF OtherTimer
  <2> QED BY <1>4, <2>1, <2>2, <2>3 DEF Scheduler
<1>5. ASSUME NEW c \in CPU, NEW p \in Proc, Process(c, p)
      PROVE  Stays
  <2>1. CASE ForkAlloc(c, p) BY <2>1, <1>1, <1>2, ForkAllocKeeps
  <2>2. CASE ForkDone(c, p) BY <2>2, <1>1, <1>2, ForkDoneKeeps
  <2>3. CASE Exit(c, p) BY <2>3, <1>1, <1>2, ExitKeeps
  <2>4. CASE Yield(c, p) BY <2>4, <1>1, <1>2, YieldKeeps
  <2>5. TypeOK BY DEF SeqInv, IInv, Core
  <2>6. CASE ForkFail(c, p)
    <3>1. child[p] \in Proc /\ state[child[p]] = "EMBRYO"
      BY <2>6 DEF ForkFail, SeqInv, IInv, Core, ForkOwnsChild
    <3>2. \A q \in Proc : state'[q] = "RUNNABLE" <=> state[q] = "RUNNABLE"
      BY <3>1, <2>5, <2>6 DEF ForkFail, TypeOK
    <3> QED BY <3>2, <2>6, <1>1, <1>2, QuietlyKept DEF ForkFail, attrs
  <2>7. CASE BeginExit(c, p) \/ SleepReturns(c, p) \/ ResetTicks(c, p) \/ WaitFails(c, p)
    BY <2>7, <1>1, <1>2, QuietlyKept DEF BeginExit, SleepReturns, ResetTicks, WaitFails, attrs
  <2>8. CASE Reap(c, p)
    <3>1. \A q \in Proc : state'[q] = "RUNNABLE" <=> state[q] = "RUNNABLE"
      BY <2>5, <2>8 DEF Reap, First, TypeOK
    <3> QED BY <3>1, <2>8, <1>1, <1>2, QuietlyKept DEF Reap, attrs
  <2>9. CASE WaitSleep(c, p) \/ Sleep(c, p)
    <3>1. state[p] = "RUNNING"
      BY <2>9, Current DEF WaitSleep, WaitLoop, Sleep, Call, SeqInv, IInv
    <3>2. \A q \in Proc : state'[q] = "RUNNABLE" <=> state[q] = "RUNNABLE"
      BY <3>1, <2>5, <2>9 DEF WaitSleep, Sleep, TypeOK
    <3> QED BY <3>2, <2>9, <1>1, <1>2, QuietlyKept DEF WaitSleep, Sleep, attrs
  <2>10. CASE \E q \in Proc : Kill(c, p, q) BY <2>10 DEF Kill, Call, Ordinary
  <2>11. CASE \E q \in Proc, new \in Priorities : SetPriority(c, p, q, new)
    BY <2>11 DEF SetPriority, CallOfSetPriority, Call, Ordinary
  <2>12. CASE SchedulerLock(c, p) BY <2>12 DEF SchedulerLock, Call, Ordinary
  <2>13. CASE SchedulerUnlock(c, p) BY <2>13 DEF SchedulerUnlock, SeqInv
  <2> QED BY <1>5, <2>1, <2>2, <2>3, <2>4, <2>6, <2>7, <2>8, <2>9, <2>10, <2>11, <2>12,
             <2>13 DEF Process
<1>6. CASE UNCHANGED vars BY <1>6, <1>1, <1>2, QuietlyKept DEF vars, attrs
<1> QED BY <1>3, <1>4, <1>5, <1>6 DEF Next

LEMMA EmptyHolds ==
  /\ Holds(EmptyQueues, [l \in Level |-> <<>>])
  /\ Elements(<<>>) = {}
<1>1. <<>> \in Seq(Proc) /\ Len(<<>>) = 0 BY EmptySeq
<1>2. EmptyQueues \in Lists BY DEF EmptyQueues, Lists
<1>3. [l \in Level |-> <<>>] \in [Level -> Seq(Proc)] BY <1>1
<1> QED BY <1>1, <1>2, <1>3 DEF Holds, Listing, Distinct, EmptyQueues, Elements

LEMMA InitSequences == Init => SeqInv /\ Abstract!Init
<1> SUFFICES ASSUME Init PROVE SeqInv /\ Abstract!Init
  OBVIOUS
<1> DEFINE E == [l \in Level |-> <<>>]
           S == [E EXCEPT ![0] = Append(E[0], InitProc)]
<1>1. /\ IInv /\ locked = {} /\ rq = PushBack(EmptyQueues, InitProc, 0)
      /\ state = [p \in Proc |-> IF p = InitProc THEN "RUNNABLE" ELSE "UNUSED"]
      /\ qlevel = [p \in Proc |-> 0]
  BY InitStep DEF Init, IInv
<1>2. InitProc \in Proc /\ 0 \in Level /\ 2 \in Level BY ConstantFacts DEF Level
<1>3. Lacks(E, InitProc) BY EmptyHolds DEF Lacks
<1> HIDE DEF E
<1>4. Holds(rq, S) BY <1>1, <1>2, <1>3, EmptyHolds, PushBackHolds DEF E
<1>5. S = [l \in Level |-> IF l = 0 THEN <<InitProc>> ELSE <<>>]
  <2>1. Append(<<>>, InitProc) = <<InitProc>> BY <1>2
  <2> QED BY <1>2, <2>1 DEF E
<1> HIDE DEF S
<1>6. Elements(<<InitProc>>) = {InitProc} BY DEF Elements
<1>7. Ready \in [Level -> SUBSET Proc] /\ \A l \in Level : Elements(S[l]) = Ready[l]
  BY <1>1, <1>2, <1>5, <1>6, EmptyHolds DEF Ready
<1>8. Sorted(S[2], priority) BY <1>2, <1>5, EmptySeq DEF Sorted
<1>9. AsSequences = S
  <2>1. \A l \in Level : Listed(rq, l) = S[l] BY <1>4, ListedIs
  <2> QED BY <2>1, <1>5 DEF AsSequences
<1>10. SeqInv BY <1>1, <1>4, <1>7, <1>8, <1>9 DEF SeqInv, Represents
<1>11. Abstract!Init BY <1>2, <1>5, <1>9 DEF Abstract!Init, Level
<1> QED BY <1>10, <1>11

\* The linked lists of proc.c behave as three sequences: a process that becomes
\* RUNNABLE goes to the end of L0 or L1 or behind the processes of L2 that are not
\* after it, the scheduler takes the first of a level, a boost joins the levels in
\* order, and no other step touches a queue (proc.c, Enqueue, Dequeue and
\* priorityBoosting).
THEOREM QueuesAreSequences ==
  ASSUME Ordinary
  PROVE  Spec => KeepsQueueOrder
<1>1. Init => SeqInv /\ Abstract!Init BY InitSequences
<1>2. SeqInv /\ [Next]_vars => SeqInv' /\ [Abstract!Next]_(Abstract!vars)
  BY StepKeeps DEF Stays
<1> QED BY <1>1, <1>2, PTL DEF Spec, KeepsQueueOrder, Abstract!Spec
=============================================================================
