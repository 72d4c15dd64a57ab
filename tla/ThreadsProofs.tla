---------------------------- MODULE ThreadsProofs ----------------------------
(***************************************************************************)
(* The table of light-weight processes of project02, for every size of it: *)
(* who is whose parent, who shares a page table, and who is woken.         *)
(***************************************************************************)
EXTENDS Threads, FiniteSetTheorems, TLAPS

\* Threads neither create nor fork, nor do processes with threads fork, and a process
\* joins its threads before it waits, calls exec2 or ends by thread_exit.
Supported == Calls \cap {"nested", "early", "forkers"} = {}

\* What a slot in each state holds.
SlotsOK ==
  /\ Live(initproc) /\ state[initproc] # "ZOMBIE"
  /\ ~isThread[initproc] /\ parent[initproc] = NULL
  /\ \A p \in Proc :
       /\ state[p] = "UNUSED" <=> pid[p] = NULL
       /\ ~Live(p) => parent[p] = NULL /\ ~isThread[p] /\ threadnum[p] = 0 /\ pc[p] = "user"
       /\ state[p] = "SLEEPING" => pc[p] \in {"wait", "join"}
       /\ state[p] = "ZOMBIE" => pc[p] \in {"dying", "thread_exit"}

\* The parent of a process lives, is no thread, and did not end.
ParentsOK ==
  /\ \A p \in Proc \ {initproc} : Live(p) => parent[p] \in Proc /\ Live(parent[p])
  /\ \A p, q \in Proc : parent[q] = p => q # p /\ ~isThread[p] /\ state[p] # "ZOMBIE"

\* A thread has the pid of its parent, its main thread, who has no children but threads.
MainOK ==
  /\ \A q \in Proc : isThread[q] => parent[q] # initproc /\ pid[parent[q]] = pid[q]
  /\ \A q, r \in Proc : parent[q] = parent[r] /\ isThread[q] => isThread[r]

\* Two slots with one pid are of one process, which has one main thread.
PidsOK ==
  \A p, q \in Proc : pid[p] = pid[q] /\ p # q /\ state[p] # "UNUSED" =>
    (isThread[p] \/ isThread[q]) /\ Live(p) /\ Live(q)

\* Who forks or creates a thread holds a slot, and nobody else does.
HeldOK ==
  \A p \in Proc : pc[p] \in {"fork", "create"} =>
    /\ with[p] \in Proc /\ state[with[p]] = "EMBRYO" /\ ~isThread[p]
    /\ \A q \in Proc : pc[q] \in {"fork", "create"} /\ with[q] = with[p] => q = p

\* Where a process may be.
CallsOK ==
  \A p \in Proc :
    /\ pc[p] = "create" => Children(p) = ThreadsOf(p)
    /\ pc[p] \in {"fork", "wait"} => ThreadsOf(p) = {}
    /\ pc[p] \in {"dying", "exec"} => Siblings(p) = {}
    /\ pc[p] = "thread_exit" => isThread[p]
    /\ pc[p] \in {"create", "exit", "dying", "thread_exit", "exec"} => p # initproc

\* The page tables in use, one for each pid.
MemoryOK ==
  /\ vm = {pgdir[p] : p \in {q \in Proc : Live(q)}}
  /\ \A p, q \in Proc : Live(p) /\ Live(q) => (pgdir[p] = pgdir[q] <=> pid[p] = pid[q])

CountOK ==
  /\ \A p \in Proc : Live(p) /\ ~isThread[p] => threadnum[p] = Cardinality(ThreadsOf(p))
  /\ \A p \in Proc : isThread[p] => threadnum[p] # 0

IInv ==
  /\ TypeOK /\ SlotsOK /\ ParentsOK /\ MainOK /\ PidsOK
  /\ HeldOK /\ CallsOK /\ MemoryOK /\ CountOK

-----------------------------------------------------------------------------
(* Pids and page tables never run out *)

LEMMA ProcFacts ==
  /\ NULL \notin Proc /\ NULL \notin Pid /\ NULL \notin PageTable
  /\ initproc \in Proc /\ Proc \subseteq Nat /\ Pid \subseteq Nat /\ PageTable \subseteq Nat
  /\ IsFiniteSet(Proc) /\ Cardinality(Proc) = NPROC
  /\ IsFiniteSet(Pid) /\ Cardinality(Pid) = NPROC + 1 /\ PageTable = Pid
<1>1. NPROC \in Nat \ {0} BY ThreadsAssumption
<1>2. IsFiniteSet(1 .. NPROC) /\ Cardinality(1 .. NPROC) = NPROC BY <1>1, FS_Interval
<1>3. IsFiniteSet(1 .. NPROC + 1) /\ Cardinality(1 .. NPROC + 1) = NPROC + 1
  BY <1>1, FS_Interval
<1> QED BY <1>1, <1>2, <1>3 DEF NULL, Proc, Pid, PageTable, initproc

LEMMA LeastOK ==
  ASSUME NEW S \in SUBSET Nat, S # {}
  PROVE  Least(S) \in S
<1> DEFINE R == {xy \in Nat \X Nat : xy[1] < xy[2]}
<1>1. IsWellFoundedOn(R, Nat) BY NatLessThanWellFounded DEF OpToRel
<1>2. \A x, y \in Nat : <<y, x>> \notin R => x <= y OBVIOUS
<1> HIDE DEF R
<1>3. \E x \in S : \A y \in S : <<y, x>> \notin R BY <1>1, WFMin
<1>4. \E x \in S : \A y \in S : x <= y BY <1>2, <1>3
<1> QED BY <1>4 DEF Least

\* Fewer values than slots are in use, and there is one more.
LEMMA SpareOne ==
  ASSUME NEW S \in SUBSET Proc, NEW f, f = [p \in S |-> f[p]]
  PROVE  Pid \ {f[p] : p \in S} # {}
<1> DEFINE T == {f[p] : p \in S}
<1>1. f \in Surjection(S, T) BY DEF Surjection
<1>2. IsFiniteSet(S) /\ Cardinality(S) <= NPROC BY ProcFacts, FS_Subset
<1>3. IsFiniteSet(T) /\ Cardinality(T) <= Cardinality(S) BY <1>1, <1>2, FS_Surjection
<1>4. SUFFICES ASSUME Pid \subseteq T PROVE FALSE OBVIOUS
<1>5. Cardinality(Pid) <= Cardinality(T) BY <1>3, <1>4, FS_Subset
<1>6. Cardinality(S) \in Nat /\ Cardinality(T) \in Nat /\ NPROC \in Nat
  BY <1>2, <1>3, FS_CardinalityType, ThreadsAssumption
<1> HIDE DEF T
<1> QED BY <1>2, <1>3, <1>5, <1>6, ProcFacts

LEMMA FreshPidOK == TypeOK => FreshPid \in Pid /\ \A q \in Proc : pid[q] # FreshPid
<1> SUFFICES ASSUME TypeOK PROVE FreshPid \in Pid \ {pid[q] : q \in Proc} OBVIOUS
<1>1. Pid \ {pid[q] : q \in Proc} # {} BY SpareOne DEF TypeOK
<1> QED BY <1>1, LeastOK, ProcFacts DEF FreshPid

LEMMA FreshVmOK == TypeOK /\ MemoryOK => FreshVm \in PageTable \ vm
<1> SUFFICES ASSUME TypeOK, MemoryOK PROVE FreshVm \in PageTable \ vm OBVIOUS
<1> DEFINE S == {q \in Proc : Live(q)}
           f == [p \in S |-> pgdir[p]]
<1>1. vm = {f[p] : p \in S} BY DEF MemoryOK
<1>2. S \in SUBSET Proc /\ f = [p \in S |-> f[p]] OBVIOUS
<1> HIDE DEF S, f
<1>3. PageTable \ vm # {} BY <1>1, <1>2, SpareOne, ProcFacts
<1> QED BY <1>3, LeastOK, ProcFacts DEF FreshVm

-----------------------------------------------------------------------------
(* The inductive invariant *)

LEMMA InitHolds == Init => IInv
<1> SUFFICES ASSUME Init PROVE IInv OBVIOUS
<1> USE ProcFacts DEF Init
<1>1. TypeOK
  <2>1. 1 \in Pid /\ 1 \in PageTable BY ThreadsAssumption DEF Pid, PageTable
  <2> QED BY <2>1 DEF TypeOK, States, Places
<1>2. SlotsOK /\ ParentsOK /\ MainOK /\ PidsOK
  BY DEF SlotsOK, ParentsOK, MainOK, PidsOK, Live, NULL
<1>3. HeldOK /\ CallsOK /\ MemoryOK BY DEF HeldOK, CallsOK, MemoryOK, Live
<1>4. CountOK
  <2>1. \A p \in Proc : ThreadsOf(p) = {} BY DEF ThreadsOf, Children
  <2> QED BY <2>1, FS_EmptySet DEF CountOK
<1> QED BY <1>1, <1>2, <1>3, <1>4 DEF IInv

\* Who has a parent, and of whom a thread is.
LEMMA Kinship ==
  ASSUME IInv
  PROVE  /\ \A q \in Proc : Live(q) => pid[q] # NULL
         /\ \A q \in Proc : parent[q] # NULL =>
              /\ Live(q) /\ q # initproc /\ parent[q] \in Proc /\ Live(parent[q])
              /\ parent[q] # q /\ ~isThread[parent[q]] /\ state[parent[q]] # "ZOMBIE"
         /\ \A q \in Proc : Live(q) /\ q # initproc => parent[q] # NULL
         /\ \A q \in Proc : isThread[q] =>
              /\ Live(q) /\ parent[q] # NULL /\ parent[q] # initproc
              /\ pid[parent[q]] = pid[q]
         /\ \A q, r \in Proc : Live(q) /\ pid[q] = pid[r] /\ ~isThread[q] /\ ~isThread[r]
              => q = r
         /\ \A q \in Proc : IsFiniteSet(ThreadsOf(q))
<1> USE ProcFacts
<1>1. \A q \in Proc : Live(q) => pid[q] # NULL BY DEF IInv, SlotsOK, Live
<1>2. \A q \in Proc : parent[q] # NULL => Live(q) /\ q # initproc
  BY DEF IInv, SlotsOK
<1>3. \A q \in Proc : parent[q] # NULL =>
        /\ parent[q] \in Proc /\ Live(parent[q])
        /\ parent[q] # q /\ ~isThread[parent[q]] /\ state[parent[q]] # "ZOMBIE"
  BY <1>2 DEF IInv, ParentsOK
<1>4. \A q \in Proc : Live(q) /\ q # initproc => parent[q] # NULL
  BY DEF IInv, ParentsOK
<1>5. \A q \in Proc : isThread[q] =>
        Live(q) /\ parent[q] # NULL /\ parent[q] # initproc /\ pid[parent[q]] = pid[q]
  BY <1>4 DEF IInv, SlotsOK, MainOK
<1>6. \A q, r \in Proc : Live(q) /\ pid[q] = pid[r] /\ ~isThread[q] /\ ~isThread[r]
        => q = r
  BY DEF IInv, PidsOK, Live
<1>7. \A q \in Proc : IsFiniteSet(ThreadsOf(q))
  BY FS_Subset DEF ThreadsOf, Children
<1> QED BY <1>1, <1>2, <1>3, <1>4, <1>5, <1>6, <1>7

\* Steps that change where p is, and perhaps put it to sleep.
LEMMA MoveKeeps ==
  ASSUME IInv, NEW p \in Proc, state[p] = "RUNNABLE", NEW there \in Places,
         there \notin {"fork", "create", "dying"},
         there = "wait" => ThreadsOf(p) = {},
         there = "exec" => Siblings(p) = {},
         there = "thread_exit" => isThread[p],
         there \in {"exit", "thread_exit", "exec"} => p # initproc,
         NEW s \in {"RUNNABLE", "SLEEPING"}, s = "SLEEPING" => there \in {"wait", "join"},
         NEW w \in Proc \cup {NULL},
         state' = [state EXCEPT ![p] = s], pc' = [pc EXCEPT ![p] = there],
         with' = [with EXCEPT ![p] = w],
         UNCHANGED <<pid, parent, isThread, threadnum, pgdir, killed, vm>>
  PROVE  IInv'
<1> USE ProcFacts
<1>0. /\ \A q \in Proc : state'[q] = IF q = p THEN s ELSE state[q]
      /\ \A q \in Proc : pc'[q] = IF q = p THEN there ELSE pc[q]
      /\ \A q \in Proc : with'[q] = IF q = p THEN w ELSE with[q]
      /\ \A q \in Proc : Live(q)' <=> Live(q)
      /\ \A q \in Proc : ThreadsOf(q)' = ThreadsOf(q) /\ Children(q)' = Children(q)
                         /\ Siblings(q)' = Siblings(q)
  BY DEF IInv, TypeOK, Live, ThreadsOf, Children, Siblings
<1>1. TypeOK' BY DEF IInv, TypeOK, States
<1>2. SlotsOK' BY <1>0 DEF IInv, SlotsOK, Live
<1>3a. ParentsOK' BY <1>0 DEF IInv, ParentsOK, Live
<1>3b. MainOK' BY <1>0 DEF IInv, MainOK
<1>3c. PidsOK' BY <1>0 DEF IInv, PidsOK
<1>4a. HeldOK' BY <1>0 DEF IInv, HeldOK
<1>4b. CallsOK' BY <1>0 DEF IInv, CallsOK
<1>5. MemoryOK' BY <1>0 DEF IInv, MemoryOK
<1>6. CountOK' BY <1>0 DEF IInv, CountOK
<1> QED BY <1>1, <1>2, <1>3a, <1>3b, <1>3c, <1>4a, <1>4b, <1>5, <1>6 DEF IInv

\* kill and killProc mark slots, and rouse those that sleep.
LEMMA RouseKeeps ==
  ASSUME IInv, killed' \in [Proc -> BOOLEAN], state' \in [Proc -> States],
         \A q \in Proc : state'[q] = state[q]
                         \/ (state[q] = "SLEEPING" /\ state'[q] = "RUNNABLE"),
         UNCHANGED <<pid, parent, isThread, threadnum, pgdir, pc, with, vm>>
  PROVE  IInv'
<1> USE ProcFacts
<1>0. /\ \A q \in Proc : Live(q)' <=> Live(q)
      /\ \A q \in Proc : state'[q] \in {"UNUSED", "EMBRYO", "ZOMBIE"} => state[q] = state'[q]
      /\ \A q \in Proc : state[q] \in {"UNUSED", "EMBRYO", "ZOMBIE"} => state'[q] = state[q]
      /\ \A q \in Proc : ThreadsOf(q)' = ThreadsOf(q) /\ Children(q)' = Children(q)
                         /\ Siblings(q)' = Siblings(q)
  BY DEF Live, ThreadsOf, Children, Siblings
<1>1. TypeOK' BY DEF IInv, TypeOK
<1>2. SlotsOK' BY <1>0 DEF IInv, SlotsOK, Live
<1>3a. ParentsOK' BY <1>0 DEF IInv, ParentsOK, Live
<1>3b. MainOK' BY <1>0 DEF IInv, MainOK
<1>3c. PidsOK' BY <1>0 DEF IInv, PidsOK
<1>4a. HeldOK'
  <2>1. \A q \in Proc : state[q] = "EMBRYO" => state'[q] = "EMBRYO" BY <1>0
  <2> QED BY <2>1 DEF IInv, HeldOK
<1>4b. CallsOK' BY <1>0 DEF IInv, CallsOK
<1>5. MemoryOK' BY <1>0 DEF IInv, MemoryOK
<1>6. CountOK' BY <1>0 DEF IInv, CountOK
<1> QED BY <1>1, <1>2, <1>3a, <1>3b, <1>3c, <1>4a, <1>4b, <1>5, <1>6 DEF IInv

LEMMA AllocKeeps ==
  ASSUME IInv, NEW p \in Proc, state[p] = "RUNNABLE", pc[p] = "user",
         NEW there \in {"fork", "create"}, ~isThread[p],
         there = "fork" => ThreadsOf(p) = {},
         there = "create" => Children(p) = ThreadsOf(p) /\ p # initproc,
         Alloc(p, there)
  PROVE  IInv'
<1> USE ProcFacts
<1> DEFINE free == {q \in Proc : state[q] = "UNUSED"}
           n == Least(free)
<1>0. n \in Proc /\ state[n] = "UNUSED" /\ n # p BY LeastOK DEF Alloc
<1>1. FreshPid \in Pid /\ \A q \in Proc : pid[q] # FreshPid BY FreshPidOK DEF IInv
<1>2. /\ state' = [state EXCEPT ![n] = "EMBRYO"]
      /\ pid' = [pid EXCEPT ![n] = FreshPid]
      /\ isThread' = [isThread EXCEPT ![n] = FALSE]
      /\ with' = [with EXCEPT ![p] = n] /\ pc' = [pc EXCEPT ![p] = there]
      /\ UNCHANGED <<parent, threadnum, pgdir, killed, vm>>
  BY DEF Alloc, Go
<1> HIDE DEF n, free
<1>3. /\ \A q \in Proc : state'[q] = IF q = n THEN "EMBRYO" ELSE state[q]
      /\ \A q \in Proc : pid'[q] = IF q = n THEN FreshPid ELSE pid[q]
      /\ \A q \in Proc : isThread'[q] = isThread[q]
      /\ \A q \in Proc : with'[q] = IF q = p THEN n ELSE with[q]
      /\ \A q \in Proc : pc'[q] = IF q = p THEN there ELSE pc[q]
      /\ \A q \in Proc : Live(q)' <=> Live(q)
      /\ ~Live(n) /\ ~isThread[n] /\ parent[n] = NULL /\ pc[n] = "user" /\ threadnum[n] = 0
  BY <1>0, <1>2 DEF IInv, TypeOK, SlotsOK, Live
<1>4. \A q \in Proc : ThreadsOf(q)' = ThreadsOf(q) /\ Children(q)' = Children(q)
  BY <1>2, <1>3 DEF ThreadsOf, Children
<1>5. \A q \in Proc \ {n} : Siblings(q)' \subseteq Siblings(q)
  <2>1. \A q \in Proc \ {n}, r \in Proc : pid'[r] = pid'[q] => pid[r] = pid[q]
    BY <1>1, <1>3
  <2> QED BY <2>1 DEF Siblings
<1>6. TypeOK' BY <1>0, <1>1, <1>2 DEF IInv, TypeOK, States, Places
<1>7. SlotsOK' BY <1>0, <1>1, <1>2, <1>3 DEF IInv, SlotsOK, Live
<1>8a. ParentsOK' BY <1>0, <1>2, <1>3 DEF IInv, ParentsOK, Live
<1>8b. MainOK'
  <2>1. \A q \in Proc : isThread[q] => q # n /\ parent[q] # n /\ parent[q] \in Proc
    BY <1>0, <1>3 DEF IInv, SlotsOK, ParentsOK
  <2> QED BY <2>1, <1>2, <1>3 DEF IInv, MainOK
<1>8c. PidsOK' BY <1>0, <1>1, <1>2, <1>3 DEF IInv, PidsOK
<1>9a. HeldOK'
  <2>1. \A q \in Proc : pc[q] \in {"fork", "create"} => with[q] # n
    BY <1>0 DEF IInv, HeldOK
  <2> QED BY <2>1, <1>0, <1>3 DEF IInv, HeldOK
<1>9b. CallsOK' BY <1>0, <1>3, <1>4, <1>5 DEF IInv, CallsOK
<1>10. MemoryOK' BY <1>2, <1>3 DEF IInv, MemoryOK, Live
<1>11. CountOK' BY <1>2, <1>3, <1>4 DEF IInv, CountOK
<1> QED BY <1>6, <1>7, <1>8a, <1>8b, <1>8c, <1>9a, <1>9b, <1>10, <1>11 DEF IInv

-----------------------------------------------------------------------------
(* The steps that give a slot a process, or free it *)

LEMMA ForkKeeps ==
  ASSUME IInv, NEW p \in Proc, ForkDone(p)
  PROVE  IInv'
<1> USE ProcFacts
<1> DEFINE n == with[p]
<1>1. /\ n \in Proc /\ state[n] = "EMBRYO" /\ ~isThread[p] /\ n # p /\ ~Live(n) /\ Live(p)
      /\ state[p] = "RUNNABLE" /\ pc[p] = "fork" /\ ThreadsOf(p) = {}
      /\ \A q \in Proc : pc[q] \in {"fork", "create"} /\ with[q] = n => q = p
  BY DEF IInv, HeldOK, CallsOK, ForkDone, At, Live
<1>2. /\ pgdir' = [pgdir EXCEPT ![n] = FreshVm] /\ vm' = vm \cup {FreshVm}
      /\ parent' = [parent EXCEPT ![n] = p]
      /\ state' = [state EXCEPT ![n] = "RUNNABLE"]
      /\ with' = [with EXCEPT ![p] = NULL] /\ pc' = [pc EXCEPT ![p] = "user"]
      /\ UNCHANGED <<pid, isThread, threadnum, killed>>
  BY DEF ForkDone, Go
<1> HIDE DEF n
<1>3. FreshVm \in PageTable \ vm BY FreshVmOK DEF IInv
<1>4. /\ \A q \in Proc : state'[q] = IF q = n THEN "RUNNABLE" ELSE state[q]
      /\ \A q \in Proc : parent'[q] = IF q = n THEN p ELSE parent[q]
      /\ \A q \in Proc : pgdir'[q] = IF q = n THEN FreshVm ELSE pgdir[q]
      /\ \A q \in Proc : with'[q] = IF q = p THEN NULL ELSE with[q]
      /\ \A q \in Proc : pc'[q] = IF q = p THEN "user" ELSE pc[q]
      /\ \A q \in Proc : Live(q)' <=> Live(q) \/ q = n
      /\ ~isThread[n] /\ parent[n] = NULL /\ pc[n] = "user" /\ threadnum[n] = 0
      /\ n # initproc
  BY <1>1, <1>2 DEF IInv, TypeOK, SlotsOK, Live
<1>5. \A q \in Proc : parent[q] # n BY <1>1, Kinship
<1>6. \A q \in Proc : ThreadsOf(q)' = ThreadsOf(q)
  BY <1>2, <1>4 DEF ThreadsOf, Children
<1>7. \A q \in Proc \ {p} : Children(q)' = Children(q) BY ZenonT(30), <1>4 DEF Children
<1>8. \A q \in Proc : Siblings(q)' = Siblings(q) BY <1>2 DEF Siblings
<1>9. \A q \in Proc : pid[q] = pid[n] => q = n BY <1>1 DEF IInv, PidsOK
<1>10. TypeOK' BY <1>1, <1>2, <1>3 DEF IInv, TypeOK, States, Places
<1>11. SlotsOK' BY <1>1, <1>2, <1>4 DEF IInv, SlotsOK, Live
<1>12. ParentsOK' BY <1>1, <1>2, <1>4, <1>5 DEF IInv, ParentsOK, Live
<1>13. MainOK'
  <2>1. \A q \in Proc : isThread[q] => q # n /\ parent[q] # p
    BY <1>1, <1>4 DEF ThreadsOf, Children
  <2> QED BY <2>1, <1>2, <1>4 DEF IInv, MainOK
<1>14. PidsOK' BY <1>1, <1>2, <1>4, <1>9 DEF IInv, PidsOK
<1>15. HeldOK' BY <1>1, <1>2, <1>4 DEF IInv, HeldOK
<1>16. CallsOK' BY <1>1, <1>2, <1>4, <1>6, <1>7, <1>8 DEF IInv, CallsOK
<1>17. MemoryOK'
  <2>1. vm' = {pgdir'[q] : q \in {x \in Proc : Live(x)'}}
    BY <1>1, <1>2, <1>4 DEF IInv, MemoryOK
  <2>2. \A q \in Proc : Live(q) => pgdir[q] # FreshVm
    BY <1>3 DEF IInv, MemoryOK
  <2> QED BY <1>1, <1>2, <1>4, <1>9, <2>1, <2>2 DEF IInv, MemoryOK
<1>18. CountOK'
  <2>1. ThreadsOf(n) = {} BY <1>5 DEF ThreadsOf, Children
  <2> QED BY <2>1, <1>2, <1>4, <1>6, FS_EmptySet DEF IInv, CountOK
<1> QED BY <1>10, <1>11, <1>12, <1>13, <1>14, <1>15, <1>16, <1>17, <1>18 DEF IInv

LEMMA UnforkKeeps ==
  ASSUME IInv, NEW p \in Proc, ForkFails(p)
  PROVE  IInv'
<1> USE ProcFacts
<1> DEFINE n == with[p]
<1>1. /\ n \in Proc /\ state[n] = "EMBRYO" /\ n # p /\ ~Live(n) /\ Live(p)
      /\ state[p] = "RUNNABLE" /\ pc[p] = "fork"
      /\ \A q \in Proc : pc[q] \in {"fork", "create"} /\ with[q] = n => q = p
  BY DEF IInv, HeldOK, ForkFails, At, Live
<1>2. /\ state' = [state EXCEPT ![n] = "UNUSED"] /\ pid' = [pid EXCEPT ![n] = NULL]
      /\ with' = [with EXCEPT ![p] = NULL] /\ pc' = [pc EXCEPT ![p] = "user"]
      /\ UNCHANGED <<parent, isThread, threadnum, pgdir, killed, vm>>
  BY DEF ForkFails, Go
<1> HIDE DEF n
<1>4. /\ \A q \in Proc : state'[q] = IF q = n THEN "UNUSED" ELSE state[q]
      /\ \A q \in Proc : pid'[q] = IF q = n THEN NULL ELSE pid[q]
      /\ \A q \in Proc : with'[q] = IF q = p THEN NULL ELSE with[q]
      /\ \A q \in Proc : pc'[q] = IF q = p THEN "user" ELSE pc[q]
      /\ \A q \in Proc : Live(q)' <=> Live(q)
      /\ ~isThread[n] /\ parent[n] = NULL /\ pc[n] = "user" /\ threadnum[n] = 0
      /\ n # initproc
  BY <1>1, <1>2 DEF IInv, TypeOK, SlotsOK, Live
<1>5. \A q \in Proc : parent[q] # n BY <1>1, Kinship
<1>6. \A q \in Proc : ThreadsOf(q)' = ThreadsOf(q) /\ Children(q)' = Children(q)
  BY <1>2 DEF ThreadsOf, Children
<1>7. \A q \in Proc : pid[q] # NULL /\ q # n => Siblings(q)' \subseteq Siblings(q)
  BY <1>4 DEF Siblings
<1>8. \A q \in Proc : Live(q) => pid[q] # NULL BY Kinship
<1>10. TypeOK' BY <1>1, <1>2 DEF IInv, TypeOK, States, Places
<1>11. SlotsOK' BY <1>1, <1>2, <1>4 DEF IInv, SlotsOK, Live
<1>12. ParentsOK' BY <1>1, <1>2, <1>4, <1>5 DEF IInv, ParentsOK, Live
<1>13. MainOK' BY <1>2, <1>4, <1>5 DEF IInv, MainOK
<1>14. PidsOK'
  <2>1. \A q \in Proc : pid[q] = NULL => state[q] = "UNUSED" BY DEF IInv, SlotsOK
  <2> QED BY <2>1, <1>1, <1>2, <1>4 DEF IInv, PidsOK
<1>15. HeldOK' BY <1>1, <1>2, <1>4 DEF IInv, HeldOK
<1>16. CallsOK'
  <2>1. \A q \in Proc : pc[q] # "user" => pid[q] # NULL /\ q # n
    BY <1>4, <1>8 DEF IInv, SlotsOK
  <2> QED BY <2>1, <1>2, <1>4, <1>6, <1>7 DEF IInv, CallsOK
<1>17. MemoryOK' BY <1>1, <1>2, <1>4 DEF IInv, MemoryOK
<1>18. CountOK' BY <1>2, <1>4, <1>6 DEF IInv, CountOK
<1> QED BY <1>10, <1>11, <1>12, <1>13, <1>14, <1>15, <1>16, <1>17, <1>18 DEF IInv

LEMMA CreateKeeps ==
  ASSUME IInv, NEW p \in Proc, ThreadCreateDone(p)
  PROVE  IInv'
<1> USE ProcFacts
<1> DEFINE n == with[p]
<1>1. /\ n \in Proc /\ state[n] = "EMBRYO" /\ ~isThread[p] /\ n # p /\ ~Live(n) /\ Live(p)
      /\ state[p] = "RUNNABLE" /\ pc[p] = "create" /\ Children(p) = ThreadsOf(p)
      /\ p # initproc /\ \A q \in Proc : pc[q] \in {"fork", "create"} /\ with[q] = n => q = p
  BY DEF IInv, HeldOK, CallsOK, ThreadCreateDone, At, Live
<1>2. /\ pgdir' = [pgdir EXCEPT ![n] = pgdir[p]]
      /\ state' = [state EXCEPT ![n] = "RUNNABLE"]
      /\ pid' = [pid EXCEPT ![n] = pid[p]]
      /\ parent' = [parent EXCEPT ![n] = p]
      /\ isThread' = [isThread EXCEPT ![n] = TRUE]
      /\ threadnum' = [threadnum EXCEPT ![p] = @ + 1, ![n] = threadnum[p] + 1]
      /\ with' = [with EXCEPT ![p] = NULL] /\ pc' = [pc EXCEPT ![p] = "user"]
      /\ UNCHANGED <<killed, vm>>
  BY DEF ThreadCreateDone, Go
<1> HIDE DEF n
<1>3. threadnum[p] \in Nat BY DEF IInv, TypeOK
<1>4. /\ \A q \in Proc : state'[q] = IF q = n THEN "RUNNABLE" ELSE state[q]
      /\ \A q \in Proc : pid'[q] = IF q = n THEN pid[p] ELSE pid[q]
      /\ \A q \in Proc : parent'[q] = IF q = n THEN p ELSE parent[q]
      /\ \A q \in Proc : isThread'[q] <=> q = n \/ isThread[q]
      /\ \A q \in Proc : pgdir'[q] = IF q = n THEN pgdir[p] ELSE pgdir[q]
      /\ \A q \in Proc : threadnum'[q] = IF q \in {n, p} THEN threadnum[p] + 1
                                                         ELSE threadnum[q]
      /\ \A q \in Proc : with'[q] = IF q = p THEN NULL ELSE with[q]
      /\ \A q \in Proc : pc'[q] = IF q = p THEN "user" ELSE pc[q]
      /\ ~isThread[n] /\ parent[n] = NULL /\ pc[n] = "user" /\ n # initproc
  BY <1>1, <1>2, <1>3 DEF IInv, TypeOK, SlotsOK
<1>4a. \A q \in Proc : Live(q)' <=> Live(q) \/ q = n BY <1>4 DEF Live
<1>5. \A q \in Proc : parent[q] # n BY <1>1, Kinship
<1>6. /\ \A q \in Proc \ {p} : ThreadsOf(q)' = ThreadsOf(q) /\ Children(q)' = Children(q)
      /\ ThreadsOf(p)' = ThreadsOf(p) \cup {n} /\ n \notin ThreadsOf(p)
  BY <1>1, <1>4 DEF ThreadsOf, Children
<1>7. \A q \in Proc : Siblings(q) = {} /\ q # n /\ q # p => Siblings(q)' = {}
  <2> SUFFICES ASSUME NEW q \in Proc, Siblings(q) = {}, q # n, q # p
               PROVE  Siblings(q)' = {}
    OBVIOUS
  <2>1. pid[q] # pid[p] /\ \A r \in Proc : pid[r] = pid[q] => r = q BY DEF Siblings
  <2>2. pid'[q] = pid[q] /\ \A r \in Proc : pid'[r] \in {pid[r], pid[p]} BY <1>4
  <2>3. \A r \in Proc : pid'[r] = pid'[q] => r = q
    BY <2>1, <2>2, <1>4
  <2> QED BY <2>3 DEF Siblings
<1>9. \A q \in Proc : pid[q] = pid[n] => q = n BY <1>1 DEF IInv, PidsOK
<1>10. TypeOK' BY <1>1, <1>2, <1>3 DEF IInv, TypeOK, States, Places
<1>11. SlotsOK'
  <2>1. pid[p] # NULL BY <1>1, Kinship
  <2>2. /\ Live(initproc)' /\ state'[initproc] # "ZOMBIE"
        /\ ~isThread'[initproc] /\ parent'[initproc] = NULL
    BY <1>4, <1>4a DEF IInv, SlotsOK
  <2>3. /\ state'[n] = "RUNNABLE" /\ pid'[n] # NULL /\ state'[p] = "RUNNABLE"
        /\ pid'[p] # NULL
    BY <2>1, <1>1, <1>4
  <2>4. \A q \in Proc \ {n, p} :
          /\ state'[q] = state[q] /\ pid'[q] = pid[q] /\ parent'[q] = parent[q]
          /\ isThread'[q] <=> isThread[q]
          /\ threadnum'[q] = threadnum[q] /\ pc'[q] = pc[q]
    BY <1>4
  <2> QED BY <2>2, <2>3, <2>4 DEF IInv, SlotsOK, Live
<1>12. ParentsOK'
  <2>1. \A q \in Proc \ {initproc} : Live(q)' =>
          parent'[q] \in Proc /\ state'[parent'[q]] \notin {"UNUSED", "EMBRYO"}
    <3> SUFFICES ASSUME NEW q \in Proc \ {initproc}, Live(q)'
                 PROVE  parent'[q] \in Proc /\ state'[parent'[q]] \notin {"UNUSED", "EMBRYO"}
      OBVIOUS
    <3>1. CASE q = n BY <3>1, <1>1, <1>4
    <3>2. CASE q # n
      <4>1. parent'[q] = parent[q] /\ parent[q] \in Proc /\ Live(parent[q])
        BY <3>2, <1>4, <1>4a DEF IInv, ParentsOK
      <4> QED BY <4>1, <1>4 DEF Live
    <3> QED BY <3>1, <3>2
  <2>2. \A q, r \in Proc : parent'[q] = r =>
          q # r /\ ~isThread'[r] /\ state'[r] # "ZOMBIE"
    <3>1. \A q, r \in Proc : parent[q] = r => q # r /\ ~isThread[r] /\ state[r] # "ZOMBIE"
      BY DEF IInv, ParentsOK
    <3> QED BY <3>1, <1>1, <1>4, <1>5
  <2> QED BY <2>1, <2>2 DEF ParentsOK, Live
<1>13. MainOK'
  <2>1. \A q \in Proc : parent[q] = p => isThread[q] BY <1>1 DEF ThreadsOf, Children
  <2>2. \A q, r \in Proc : parent[q] = parent[r] /\ isThread[q] => isThread[r]
    BY DEF IInv, MainOK
  <2>3. \A q \in Proc : isThread[q] => parent[q] # initproc /\ pid[parent[q]] = pid[q]
                                      /\ parent[q] \in Proc
    BY Kinship
  <2>4. \A q \in Proc : isThread'[q] => parent'[q] # initproc /\ pid'[parent'[q]] = pid'[q]
    <3> SUFFICES ASSUME NEW q \in Proc, isThread'[q]
                 PROVE  parent'[q] # initproc /\ pid'[parent'[q]] = pid'[q]
      OBVIOUS
    <3>1. CASE q = n BY <3>1, <1>1, <1>4
    <3>2. CASE q # n
      <4>1. isThread[q] /\ parent'[q] = parent[q] /\ pid'[q] = pid[q] BY <3>2, <1>4
      <4>2. parent[q] \in Proc /\ parent[q] # n BY <4>1, <2>3, <1>5
      <4>3. pid'[parent[q]] = pid[parent[q]] BY <4>2, <1>4
      <4> QED BY <4>1, <4>3, <2>3
    <3> QED BY <3>1, <3>2
  <2>5. \A q, r \in Proc : parent'[q] = parent'[r] /\ isThread'[q] => isThread'[r]
    BY <2>1, <2>2, <1>1, <1>4
  <2> QED BY <2>4, <2>5 DEF MainOK
<1>14. PidsOK'
  <2>1. \A q \in Proc : pid[q] = pid[p] /\ q # n => Live(q)
    BY <1>1, <1>9 DEF IInv, PidsOK, Live
  <2> QED BY <2>1, <1>1, <1>4, <1>4a, <1>9 DEF IInv, PidsOK
<1>15. HeldOK'
  <2>1. \A q \in Proc : pc'[q] \in {"fork", "create"} =>
          pc[q] \in {"fork", "create"} /\ with'[q] = with[q] /\ with[q] # n /\ q # n
    BY <1>1, <1>4
  <2>2. \A q \in Proc \ {n} : state'[q] = state[q] /\ isThread'[q] = isThread[q]
    BY <1>2 DEF IInv, TypeOK
  <2> SUFFICES ASSUME NEW q \in Proc, pc'[q] \in {"fork", "create"}
               PROVE  /\ with'[q] \in Proc /\ state'[with'[q]] = "EMBRYO" /\ ~isThread'[q]
                      /\ \A r \in Proc : pc'[r] \in {"fork", "create"} /\ with'[r] = with'[q]
                           => r = q
    BY DEF HeldOK
  <2>3. pc[q] \in {"fork", "create"} /\ with'[q] = with[q] /\ with[q] # n /\ q # n BY <2>1
  <2>4. /\ with[q] \in Proc /\ state[with[q]] = "EMBRYO" /\ ~isThread[q]
        /\ \A r \in Proc : pc[r] \in {"fork", "create"} /\ with[r] = with[q] => r = q
    BY <2>3 DEF IInv, HeldOK
  <2> QED BY <2>1, <2>2, <2>3, <2>4
<1>16. CallsOK'
  <2>1. \A q \in Proc : Siblings(q)' = {} \/ Siblings(q) # {} \/ q \in {n, p} BY <1>7
  <2> QED BY <2>1, <1>1, <1>4, <1>6 DEF IInv, CallsOK
<1>17. MemoryOK'
  <2>1. vm = {pgdir'[q] : q \in {x \in Proc : Live(x)'}}
    BY <1>1, <1>4, <1>4a DEF IInv, MemoryOK
  <2> QED BY <1>1, <1>2, <1>4, <1>4a, <1>9, <2>1 DEF IInv, MemoryOK
<1>18. CountOK'
  <2>1. Cardinality(ThreadsOf(p)') = Cardinality(ThreadsOf(p)) + 1
    <3>1. IsFiniteSet(ThreadsOf(p)) BY Kinship
    <3> QED BY ZenonT(30), <3>1, <1>6, FS_AddElement
  <2>2. Live(p) /\ ~isThread[p] => threadnum[p] = Cardinality(ThreadsOf(p))
    BY DEF IInv, CountOK
  <2>3. \A q \in Proc : Live(q)' /\ ~isThread'[q] => threadnum'[q] = Cardinality(ThreadsOf(q)')
    <3> SUFFICES ASSUME NEW q \in Proc, Live(q)', ~isThread'[q]
                 PROVE  threadnum'[q] = Cardinality(ThreadsOf(q)')
      OBVIOUS
    <3>1. q # n /\ Live(q) /\ ~isThread[q] BY <1>4, <1>4a
    <3>2. CASE q = p BY <3>2, <2>1, <2>2, <1>1, <1>4
    <3>3. CASE q # p
      <4>1. threadnum'[q] = threadnum[q] /\ ThreadsOf(q)' = ThreadsOf(q)
        BY <3>1, <3>3, <1>4, <1>6
      <4> QED BY <4>1, <3>1 DEF IInv, CountOK
    <3> QED BY <3>2, <3>3
  <2>4. \A q \in Proc : isThread'[q] => threadnum'[q] # 0
    BY <1>1, <1>3, <1>4 DEF IInv, CountOK
  <2> QED BY <2>3, <2>4 DEF CountOK
<1> QED BY <1>10, <1>11, <1>12, <1>13, <1>14, <1>15, <1>16, <1>17, <1>18 DEF IInv

LEMMA AbandonKeeps ==
  ASSUME IInv, NEW p \in Proc, state[p] = "RUNNABLE", pc[p] \in {"dying", "thread_exit"},
         Abandon(p), UNCHANGED <<pid, isThread, threadnum, pgdir, killed, pc, with, vm>>
  PROVE  IInv'
<1> USE ProcFacts
<1>1. /\ p # initproc /\ Live(p)
      /\ pc[p] = "dying" => Siblings(p) = {}
      /\ pc[p] = "thread_exit" => isThread[p]
  BY DEF IInv, CallsOK, Live
<1>2. \A q \in Proc : parent[q] = p => ~isThread[q]
  <2> SUFFICES ASSUME NEW q \in Proc, parent[q] = p, isThread[q] PROVE FALSE OBVIOUS
  <2>1. pid[q] = pid[p] /\ q # p /\ ~isThread[p] BY Kinship
  <2> QED BY <2>1, <1>1 DEF Siblings
<1>3. parent' = [q \in Proc |-> IF parent[q] = p THEN initproc ELSE parent[q]]
  BY DEF Abandon
<1>4. state' \in [Proc -> States] /\ state'[p] = "ZOMBIE"
  BY DEF Abandon, Wake, States, IInv, TypeOK
<1>5. \A q \in Proc \ {p} : state'[q] = state[q]
                            \/ (state[q] = "SLEEPING" /\ state'[q] = "RUNNABLE")
  BY DEF Abandon, Wake, Waiting, IInv, TypeOK
<1>6. \A q \in Proc : Live(q)' <=> Live(q) BY <1>1, <1>4, <1>5 DEF Live
<1>7. \A q \in Proc : state'[q] = "EMBRYO" <=> state[q] = "EMBRYO" BY <1>1, <1>4, <1>5 DEF Live
<1>8. \A q \in Proc : ThreadsOf(q)' = ThreadsOf(q) BY <1>2, <1>3 DEF ThreadsOf, Children
<1>9. \A q \in Proc \ {p, initproc} : Children(q)' = Children(q) BY <1>3 DEF Children
<1>10. \A q \in Proc : Siblings(q)' = Siblings(q) BY DEF Siblings
<1>11. TypeOK' BY <1>3, <1>4 DEF IInv, TypeOK
<1>12. SlotsOK'
  <2>1. parent[initproc] # p BY DEF IInv, SlotsOK
  <2>2. \A q \in Proc : parent[q] = p => Live(q) BY Kinship
  <2> QED BY <2>1, <2>2, <1>1, <1>3, <1>4, <1>5, <1>6 DEF IInv, SlotsOK, Live
<1>13. ParentsOK'
  <2>1. \A q \in Proc : parent'[q] = IF parent[q] = p THEN initproc ELSE parent[q]
    BY <1>3
  <2>2. /\ Live(initproc)' /\ ~isThread[initproc] /\ state'[initproc] # "ZOMBIE"
        /\ parent[initproc] = NULL
    BY <1>12, <1>6 DEF IInv, SlotsOK
  <2>3. \A q \in Proc \ {initproc} : Live(q)' => parent'[q] \in Proc /\ Live(parent'[q])
    BY <2>1, <2>2, <1>6 DEF IInv, ParentsOK
  <2>4. \A q, r \in Proc : parent'[r] = q => r # q /\ ~isThread[q] /\ state'[q] # "ZOMBIE"
    BY <2>1, <2>2, <1>1, <1>5, <1>12 DEF IInv, ParentsOK
  <2> QED BY <2>3, <2>4, <1>6 DEF ParentsOK, Live
<1>14. MainOK' BY <1>2, <1>3 DEF IInv, MainOK
<1>15. PidsOK'
  <2>1. \A q \in Proc : state'[q] # "UNUSED" => state[q] # "UNUSED" BY <1>1, <1>5 DEF Live
  <2> QED BY <2>1, <1>6 DEF IInv, PidsOK
<1>16. HeldOK' BY <1>7 DEF IInv, HeldOK
<1>17. CallsOK'
  <2>1. pc[initproc] # "create" /\ pc[p] # "create" BY DEF IInv, CallsOK
  <2> QED BY <2>1, <1>8, <1>9, <1>10 DEF IInv, CallsOK
<1>18. MemoryOK' BY <1>6 DEF IInv, MemoryOK
<1>19. CountOK' BY <1>6, <1>8 DEF IInv, CountOK
<1> QED BY <1>11, <1>12, <1>13, <1>14, <1>15, <1>16, <1>17, <1>18, <1>19 DEF IInv

\* The process that p belongs to shrinks to p, a child of the parent of its main thread.
LEMMA KillKeeps ==
  ASSUME IInv, NEW p \in Proc, state[p] = "RUNNABLE", pc[p] \in {"user", "exit"},
         p # initproc, NEW there \in {"dying", "exec"}, KillThreads(p, there), UNCHANGED vm
  PROVE  IInv'
<1> USE ProcFacts
<1> DEFINE Q == Siblings(p)
           g == IF isThread[p] THEN parent[parent[p]] ELSE parent[p]
<1>1. /\ p \notin Q /\ Q \subseteq Proc /\ Live(p)
      /\ \A q \in Q : Live(q) /\ pid[q] = pid[p] /\ (isThread[p] \/ isThread[q])
      /\ \A q \in Proc \ (Q \cup {p}) : pid[q] # pid[p]
  BY DEF Siblings, Live, IInv, PidsOK
<1>2. pid[p] # NULL /\ parent[p] # NULL BY <1>1, Kinship
<1>3. /\ state' = [q \in Proc |-> IF q \in Q THEN "UNUSED" ELSE state[q]]
      /\ pid' = [q \in Proc |-> IF q \in Q THEN NULL ELSE pid[q]]
      /\ killed' = [q \in Proc |-> IF q \in Q THEN FALSE ELSE killed[q]]
      /\ isThread' = [q \in Proc |-> IF q \in Q \cup {p} THEN FALSE ELSE isThread[q]]
      /\ threadnum' = [q \in Proc |-> IF q \in Q \cup {p} THEN 0 ELSE threadnum[q]]
      /\ parent' = [[q \in Proc |-> IF q \in Q THEN NULL ELSE parent[q]] EXCEPT ![p] = g]
      /\ pgdir' = [q \in Proc |-> IF q \in Q THEN NULL ELSE pgdir[q]]
      /\ pc' = [[q \in Proc |-> IF q \in Q THEN "user" ELSE pc[q]] EXCEPT ![p] = there]
      /\ with' = [q \in Proc |-> IF q \in Q THEN NULL ELSE with[q]]
  BY <1>2 DEF KillThreads, Cleared, Go
<1>4. \A q, r \in Proc : Live(q) /\ pid[q] = pid[r] /\ ~isThread[q] /\ ~isThread[r] => q = r
  BY Kinship
\* The main thread, if p is another, is the only slot of Q that has children.
<1>5. ASSUME isThread[p]
      PROVE  /\ parent[p] \in Q /\ ~isThread[parent[p]] /\ parent[p] # initproc
             /\ parent[parent[p]] # NULL
             /\ \A q \in Q : ~isThread[q] => q = parent[p]
             /\ \A c \in Proc : parent[c] = parent[p] => isThread[c] /\ c \in Q \cup {p}
  <2>1. /\ parent[p] \in Proc /\ Live(parent[p]) /\ ~isThread[parent[p]] /\ parent[p] # p
        /\ parent[p] # initproc /\ pid[parent[p]] = pid[p]
    BY <1>2, <1>5, Kinship
  <2>2. parent[p] \in Q BY <2>1 DEF Siblings
  <2>3. parent[parent[p]] # NULL BY <2>1, Kinship
  <2>4. \A q \in Q : ~isThread[q] => q = parent[p] BY <2>1, <1>1, <1>4
  <2>5. \A c \in Proc : parent[c] = parent[p] => isThread[c]
    BY <1>5 DEF IInv, MainOK
  <2>6. \A c \in Proc : isThread[c] /\ parent[c] = parent[p] => pid[c] = pid[p]
    BY <2>1, Kinship
  <2> QED BY <2>1, <2>2, <2>3, <2>4, <2>5, <2>6, <1>1
<1>6. initproc \notin Q
  <2>1. ~isThread[initproc] BY DEF IInv, SlotsOK
  <2> QED BY <2>1, <1>1, <1>5
<1>7. \A c \in Proc : parent[c] \in Q => isThread[p] /\ c \in Q \cup {p}
  <2> SUFFICES ASSUME NEW c \in Proc, parent[c] \in Q PROVE isThread[p] /\ c \in Q \cup {p}
    OBVIOUS
  <2>1. ~isThread[parent[c]] BY <1>1, Kinship
  <2>2. isThread[p] BY <2>1, <1>1
  <2> QED BY <2>1, <2>2, <1>5
<1>8. /\ g \in Proc /\ Live(g) /\ ~isThread[g] /\ state[g] # "ZOMBIE" /\ g \notin Q \cup {p}
      /\ \A c \in Proc : parent[c] = g => ~isThread[c]
      /\ pc[g] # "create"
  <2> DEFINE m == IF isThread[p] THEN parent[p] ELSE p
  <2>1. m \in Proc /\ ~isThread[m] /\ parent[m] = g /\ g # NULL /\ m \in Q \cup {p}
    BY <1>1, <1>2, <1>5
  <2> HIDE DEF m, g
  <2>2. g \in Proc /\ Live(g) /\ ~isThread[g] /\ state[g] # "ZOMBIE" /\ g # m
    BY <2>1, Kinship
  <2>3. g \notin Q \cup {p}
    <3>1. pid[m] = pid[p] /\ Live(m) BY <2>1, <1>1
    <3>2. pid[g] # pid[p] BY <3>1, <2>1, <2>2, <1>4
    <3> QED BY <3>2, <1>1
  <2>4. \A c \in Proc : parent[c] = g => ~isThread[c]
    BY <2>1 DEF IInv, MainOK
  <2>5. pc[g] # "create"
    <3>1. m \in Children(g) /\ m \notin ThreadsOf(g) BY <2>1 DEF Children, ThreadsOf
    <3> QED BY <3>1, <2>2 DEF IInv, CallsOK
  <2> QED BY <2>2, <2>3, <2>4, <2>5
<1>9. \A c \in Proc : isThread[c] /\ parent[c] = p => c \in Q
  <2>1. \A c \in Proc : isThread[c] => pid[parent[c]] = pid[c] /\ parent[c] # c BY Kinship
  <2> QED BY <2>1, <1>1
<1> HIDE DEF Q, g
<1>10. /\ \A q \in Proc : state'[q] = IF q \in Q THEN "UNUSED" ELSE state[q]
       /\ \A q \in Proc : pid'[q] = IF q \in Q THEN NULL ELSE pid[q]
       /\ \A q \in Proc : isThread'[q] <=> isThread[q] /\ q \notin Q \cup {p}
       /\ \A q \in Proc : threadnum'[q] = IF q \in Q \cup {p} THEN 0 ELSE threadnum[q]
       /\ \A q \in Proc : parent'[q] = IF q = p THEN g ELSE IF q \in Q THEN NULL ELSE parent[q]
       /\ \A q \in Proc : pgdir'[q] = IF q \in Q THEN NULL ELSE pgdir[q]
       /\ \A q \in Proc : pc'[q] = IF q = p THEN there ELSE IF q \in Q THEN "user" ELSE pc[q]
       /\ \A q \in Proc : with'[q] = IF q \in Q THEN NULL ELSE with[q]
  BY <1>1, <1>3
<1>11. \A q \in Proc : Live(q)' <=> Live(q) /\ q \notin Q BY <1>10 DEF Live
<1>12. /\ ThreadsOf(p)' = {} /\ Siblings(p)' = {}
       /\ \A q \in Proc \ (Q \cup {p}) :
            /\ ThreadsOf(q)' = ThreadsOf(q)
            /\ q # g => Children(q)' = Children(q)
            /\ pid[q] # NULL => Siblings(q)' = Siblings(q)
  <2>1. ThreadsOf(p)' = {} BY ZenonT(30), <1>8, <1>9, <1>10 DEF ThreadsOf, Children
  <2>2a. \A r \in Proc : pid'[r] = pid'[p] => r = p BY <1>1, <1>2, <1>10
  <2>2. Siblings(p)' = {} BY <2>2a DEF Siblings
  <2> SUFFICES ASSUME NEW q \in Proc \ (Q \cup {p})
               PROVE  /\ ThreadsOf(q)' = ThreadsOf(q)
                      /\ q # g => Children(q)' = Children(q)
                      /\ pid[q] # NULL => Siblings(q)' = Siblings(q)
    BY <2>1, <2>2
  <2>3. \A c \in Q \cup {p} : parent[c] # q \/ (q = g /\ ~isThread[c])
    <3> SUFFICES ASSUME NEW c \in Q \cup {p}, parent[c] = q PROVE q = g /\ ~isThread[c]
      OBVIOUS
    <3>1. c \in Proc /\ pid[c] = pid[p] /\ pid[q] # pid[p] BY <1>1
    <3>2. ~isThread[c] BY <3>1, Kinship
    <3>3. q = g BY <3>2, <1>1, <1>5 DEF g
    <3> QED BY <3>2, <3>3
  <2>4. \A c \in Proc \ (Q \cup {p}) : parent'[c] = parent[c] /\ (isThread'[c] <=> isThread[c])
    BY <1>10
  <2>5. \A c \in Q \cup {p} : ~isThread'[c] /\ (parent'[c] = q => c = p /\ q = g)
    BY <1>1, <1>10, ProcFacts
  <2>6. ThreadsOf(q)' = ThreadsOf(q) BY <2>3, <2>4, <2>5 DEF ThreadsOf, Children
  <2>7. q # g => Children(q)' = Children(q) BY <2>3, <2>4, <2>5 DEF Children
  <2>8. pid[q] # NULL => Siblings(q)' = Siblings(q)
    <3>1. \A r \in Proc : pid[q] # NULL => (pid'[r] = pid'[q] <=> pid[r] = pid[q])
      BY <1>1, <1>10
    <3> QED BY <3>1 DEF Siblings
  <2> QED BY <2>6, <2>7, <2>8
<1>13. TypeOK'
  <2>1. /\ state' \in [Proc -> States] /\ pid' \in [Proc -> Pid \cup {NULL}]
        /\ threadnum' \in [Proc -> Nat] /\ pgdir' \in [Proc -> PageTable \cup {NULL}]
        /\ with' \in [Proc -> Proc \cup {NULL}]
    BY <1>3 DEF IInv, TypeOK, States
  <2>2. isThread' \in [Proc -> BOOLEAN] /\ killed' \in [Proc -> BOOLEAN]
    BY <1>3 DEF IInv, TypeOK
  <2>3. parent' \in [Proc -> Proc \cup {NULL}] BY <1>3, <1>8 DEF IInv, TypeOK
  <2>4. pc' \in [Proc -> Places] BY <1>3 DEF IInv, TypeOK, Places
  <2> QED BY <2>1, <2>2, <2>3, <2>4 DEF IInv, TypeOK
<1>14. SlotsOK' BY <1>1, <1>2, <1>6, <1>8, <1>10, <1>11 DEF IInv, SlotsOK, Live
<1>15. ParentsOK'
  <2>1. \A q \in Proc \ {initproc} : Live(q)' =>
          parent'[q] \in Proc /\ state'[parent'[q]] \notin {"UNUSED", "EMBRYO"}
    <3> SUFFICES ASSUME NEW q \in Proc \ {initproc}, Live(q)'
                 PROVE  parent'[q] \in Proc /\ state'[parent'[q]] \notin {"UNUSED", "EMBRYO"}
      OBVIOUS
    <3>1. CASE q = p BY <3>1, <1>8, <1>10 DEF Live
    <3>2. CASE q # p
      <4>1. q \notin Q /\ Live(q) BY <1>11
      <4>2. parent'[q] = parent[q] /\ parent[q] \in Proc /\ Live(parent[q])
        BY <4>1, <3>2, <1>10, Kinship
      <4>3. parent[q] \notin Q BY <4>1, <3>2, <1>7
      <4> QED BY <4>2, <4>3, <1>10 DEF Live
    <3> QED BY <3>1, <3>2
  <2>2. \A q \in Proc \ (Q \cup {p}), r \in Proc : parent[q] = r =>
          q # r /\ ~isThread[r] /\ state[r] # "ZOMBIE"
    BY DEF IInv, ParentsOK
  <2>3. \A r \in Proc : state'[r] = state[r] \/ state'[r] = "UNUSED" BY <1>10
  <2>4. \A q \in Proc \ (Q \cup {p}), r \in Proc : parent'[q] = r =>
          q # r /\ ~isThread'[r] /\ state'[r] # "ZOMBIE"
    BY <2>2, <2>3, <1>10
  <2>5. \A q \in Q \cup {p}, r \in Proc : parent'[q] = r =>
          q # r /\ ~isThread'[r] /\ state'[r] # "ZOMBIE"
    BY <2>3, <1>1, <1>8, <1>10
  <2> QED BY <2>1, <2>4, <2>5 DEF ParentsOK, Live
<1>16. MainOK'
  <2>1. \A q \in Proc : isThread'[q] =>
          /\ q \notin Q \cup {p} /\ isThread[q] /\ parent'[q] = parent[q]
          /\ parent[q] \in Proc /\ parent[q] \notin Q \cup {p} /\ parent[q] # g
    BY <1>7, <1>8, <1>9, <1>10, Kinship
  <2>2. \A q \in Proc : isThread'[q] =>
          parent'[q] # initproc /\ pid'[parent'[q]] = pid'[q]
    <3> SUFFICES ASSUME NEW q \in Proc, isThread'[q]
                 PROVE  parent'[q] # initproc /\ pid'[parent'[q]] = pid'[q]
      OBVIOUS
    <3>1. pid'[parent[q]] = pid[parent[q]] /\ pid'[q] = pid[q] /\ parent'[q] = parent[q]
      BY <2>1, <1>10
    <3> QED BY <2>1, <3>1 DEF IInv, MainOK
  <2>3. \A q, r \in Proc : parent'[q] = parent'[r] /\ isThread'[q] => isThread'[r]
    BY <2>1, <1>1, <1>10 DEF IInv, MainOK
  <2> QED BY <2>2, <2>3 DEF MainOK
<1>17. PidsOK'
  <2>1. \A q \in Proc : state'[q] # "UNUSED" => q \notin Q /\ state[q] # "UNUSED" /\ pid[q] # NULL
    BY <1>10 DEF IInv, SlotsOK
  <2> QED BY <2>1, <1>1, <1>10, <1>11 DEF IInv, PidsOK
<1>18. HeldOK'
  <2>1. \A q \in Proc : state[q] = "EMBRYO" => q \notin Q /\ q # p BY <1>1 DEF Live
  <2>2. \A q \in Proc : pc'[q] \in {"fork", "create"} =>
          q \notin Q /\ q # p /\ pc[q] = pc'[q] /\ with'[q] = with[q]
    BY <1>10
  <2>3. \A q \in Proc \ (Q \cup {p}) : state'[q] = state[q] /\ (isThread'[q] <=> isThread[q])
    BY <1>10
  <2> SUFFICES ASSUME NEW q \in Proc, pc'[q] \in {"fork", "create"}
               PROVE  /\ with'[q] \in Proc /\ state'[with'[q]] = "EMBRYO" /\ ~isThread'[q]
                      /\ \A r \in Proc : pc'[r] \in {"fork", "create"} /\ with'[r] = with'[q]
                           => r = q
    BY DEF HeldOK
  <2>4. pc[q] \in {"fork", "create"} /\ with'[q] = with[q] /\ q \notin Q \cup {p} BY <2>2
  <2>5. with[q] \in Proc /\ state[with[q]] = "EMBRYO" /\ ~isThread[q]
    BY <2>4 DEF IInv, HeldOK
  <2>6. state'[with[q]] = "EMBRYO" BY <2>5, <2>1, <2>3
  <2>7. \A r \in Proc : pc[r] \in {"fork", "create"} /\ with[r] = with[q] => r = q
    BY <2>4 DEF IInv, HeldOK
  <2> QED BY <2>2, <2>3, <2>4, <2>5, <2>6, <2>7
<1>19. CallsOK'
  <2> SUFFICES ASSUME NEW q \in Proc
               PROVE  /\ pc'[q] = "create" => Children(q)' = ThreadsOf(q)'
                      /\ pc'[q] \in {"fork", "wait"} => ThreadsOf(q)' = {}
                      /\ pc'[q] \in {"dying", "exec"} => Siblings(q)' = {}
                      /\ pc'[q] = "thread_exit" => isThread'[q]
                      /\ pc'[q] \in {"create", "exit", "dying", "thread_exit", "exec"}
                         => q # initproc
    BY DEF CallsOK
  <2>1. CASE q \in Q BY <2>1, <1>1, <1>10
  <2>2. CASE q = p BY <2>2, <1>10, <1>12
  <2>3. CASE q \notin Q \cup {p}
    <3>1. pc'[q] = pc[q] /\ (isThread'[q] <=> isThread[q]) BY <2>3, <1>10
    <3>2. pc[q] # "user" => pid[q] # NULL BY DEF IInv, SlotsOK, Live
    <3>3. pc[q] = "create" => q # g BY <1>8
    <3> QED BY <2>3, <3>1, <3>2, <3>3, <1>12 DEF IInv, CallsOK
  <2> QED BY <2>1, <2>2, <2>3
<1>20. MemoryOK'
  <2>1. \A q \in Q : pgdir[q] = pgdir[p] BY <1>1 DEF IInv, MemoryOK
  <2>2. vm = {pgdir'[q] : q \in {x \in Proc : Live(x)'}}
    BY <2>1, <1>1, <1>10, <1>11 DEF IInv, MemoryOK
  <2> QED BY <2>2, <1>10, <1>11 DEF IInv, MemoryOK
<1>21. CountOK'
  <2> SUFFICES ASSUME NEW q \in Proc
               PROVE  /\ Live(q)' /\ ~isThread'[q] => threadnum'[q] = Cardinality(ThreadsOf(q)')
                      /\ isThread'[q] => threadnum'[q] # 0
    BY DEF CountOK
  <2>1. CASE q = p BY <2>1, <1>10, <1>12, FS_EmptySet
  <2>2. CASE q \in Q BY <2>2, <1>10, <1>11
  <2>3. CASE q \notin Q \cup {p} BY <2>3, <1>10, <1>11, <1>12 DEF IInv, CountOK
  <2> QED BY <2>1, <2>2, <2>3
<1> QED BY <1>13, <1>14, <1>15, <1>16, <1>17, <1>18, <1>19, <1>20, <1>21 DEF IInv

\* wait frees a ZOMBIE of which nothing is left, and its page table with it.
LEMMA WaitKeeps ==
  ASSUME Supported, IInv, NEW p \in Proc, Wait(p)
  PROVE  IInv'
<1> USE ProcFacts
<1> DEFINE z == Least(Zombies(p))
<1>1. z \in Proc /\ parent[z] = p /\ state[z] = "ZOMBIE"
  <2>1. Zombies(p) \in SUBSET Nat /\ Zombies(p) # {} BY DEF Wait, Zombies, Children
  <2> QED BY <2>1, LeastOK DEF Zombies, Children
<1>2. /\ state' = [state EXCEPT ![z] = "UNUSED"] /\ pid' = [pid EXCEPT ![z] = NULL]
      /\ parent' = [parent EXCEPT ![z] = NULL] /\ killed' = [killed EXCEPT ![z] = FALSE]
      /\ isThread' = [isThread EXCEPT ![z] = FALSE]
      /\ pgdir' = [pgdir EXCEPT ![z] = NULL] /\ vm' = vm \ {pgdir[z]}
      /\ threadnum' = [threadnum EXCEPT ![z] = 0]
      /\ pc' = [pc EXCEPT ![p] = "user", ![z] = "user"] /\ with' = with
  BY DEF Wait, Free
<1>3. state[p] = "RUNNABLE" /\ pc[p] \in {"user", "wait"} /\ ThreadsOf(p) = {} /\ p # z
  BY <1>1 DEF Wait, InWait, At, User, IInv, CallsOK, Supported
<1> HIDE DEF z
<1>4. ~isThread[z] /\ z # initproc /\ Live(z) /\ Siblings(z) = {}
  <2>1. ~isThread[z] BY <1>1, <1>3 DEF ThreadsOf, Children
  <2>2. pc[z] \in {"dying", "thread_exit"} BY <1>1 DEF IInv, SlotsOK
  <2>3. /\ pc[z] = "thread_exit" => isThread[z]
        /\ pc[z] = "dying" => Siblings(z) = {}
    BY <1>1 DEF IInv, CallsOK
  <2>4. state[initproc] # "ZOMBIE" BY DEF IInv, SlotsOK
  <2> QED BY <2>1, <2>2, <2>3, <2>4, <1>1 DEF Live
<1>5. /\ \A q \in Proc : state'[q] = IF q = z THEN "UNUSED" ELSE state[q]
      /\ \A q \in Proc : pid'[q] = IF q = z THEN NULL ELSE pid[q]
      /\ \A q \in Proc : parent'[q] = IF q = z THEN NULL ELSE parent[q]
      /\ \A q \in Proc : isThread'[q] <=> isThread[q]
      /\ \A q \in Proc : pgdir'[q] = IF q = z THEN NULL ELSE pgdir[q]
      /\ \A q \in Proc : threadnum'[q] = IF q = z THEN 0 ELSE threadnum[q]
      /\ \A q \in Proc : pc'[q] = IF q \in {p, z} THEN "user" ELSE pc[q]
  BY <1>1, <1>2, <1>4 DEF IInv, TypeOK
<1>6. \A q \in Proc : Live(q)' <=> Live(q) /\ q # z BY <1>4, <1>5 DEF Live
<1>7. \A q \in Proc : parent[q] # z BY <1>1, Kinship
<1>8. \A q \in Proc : ThreadsOf(q)' = ThreadsOf(q)
  BY <1>4, <1>5 DEF ThreadsOf, Children
<1>9. \A q \in Proc \ {p} : Children(q)' = Children(q)
  <2>1. \A c \in Proc, q \in Proc \ {p} : parent'[c] = q <=> parent[c] = q BY <1>1, <1>5
  <2> QED BY <2>1 DEF Children
<1>10. \A q \in Proc : q # z /\ pid[q] # NULL => Siblings(q)' \subseteq Siblings(q)
  BY <1>5 DEF Siblings
<1>11. TypeOK'
  <2>1. /\ state' \in [Proc -> States] /\ pid' \in [Proc -> Pid \cup {NULL}]
        /\ threadnum' \in [Proc -> Nat] /\ pgdir' \in [Proc -> PageTable \cup {NULL}]
        /\ parent' \in [Proc -> Proc \cup {NULL}] /\ pc' \in [Proc -> Places]
        /\ vm' \subseteq PageTable /\ with' \in [Proc -> Proc \cup {NULL}]
    BY <1>2 DEF IInv, TypeOK, States, Places
  <2>2. isThread' \in [Proc -> BOOLEAN] /\ killed' \in [Proc -> BOOLEAN]
    BY <1>2 DEF IInv, TypeOK
  <2> QED BY <2>1, <2>2 DEF TypeOK
<1>12. SlotsOK' BY <1>3, <1>4, <1>5, <1>6 DEF IInv, SlotsOK, Live
<1>13. ParentsOK'
  <2>1. \A q \in Proc \ {initproc} : Live(q)' =>
          parent'[q] \in Proc /\ state'[parent'[q]] \notin {"UNUSED", "EMBRYO"}
    <3>1. \A q \in Proc \ {initproc} : Live(q) => parent[q] \in Proc /\ Live(parent[q])
      BY DEF IInv, ParentsOK
    <3> QED BY <3>1, <1>5, <1>6, <1>7 DEF Live
  <2>2. \A q, r \in Proc : parent'[q] = r =>
          q # r /\ ~isThread'[r] /\ state'[r] # "ZOMBIE"
    BY <1>5, <1>7 DEF IInv, ParentsOK
  <2> QED BY <2>1, <2>2 DEF ParentsOK, Live
<1>14. MainOK'
  <2>1. \A q \in Proc : isThread[q] => q # z /\ parent[q] # z /\ parent[q] \in Proc
    BY <1>4, <1>7, Kinship
  <2>2. \A q \in Proc : isThread'[q] => parent'[q] # initproc /\ pid'[parent'[q]] = pid'[q]
    <3> SUFFICES ASSUME NEW q \in Proc, isThread'[q]
                 PROVE  parent'[q] # initproc /\ pid'[parent'[q]] = pid'[q]
      OBVIOUS
    <3>1. isThread[q] BY <1>5
    <3>2. pid'[parent[q]] = pid[parent[q]] /\ pid'[q] = pid[q] /\ parent'[q] = parent[q]
      BY <2>1, <3>1, <1>5
    <3> QED BY <3>1, <3>2, Kinship
  <2>3. \A q, r \in Proc : parent'[q] = parent'[r] /\ isThread'[q] => isThread'[r]
    BY <2>1, <1>5 DEF IInv, MainOK
  <2> QED BY <2>2, <2>3 DEF MainOK
<1>15. PidsOK'
  <2>1. \A q \in Proc : pid[q] = NULL => state[q] = "UNUSED" BY DEF IInv, SlotsOK
  <2> QED BY <2>1, <1>5, <1>6 DEF IInv, PidsOK
<1>16. HeldOK'
  <2>1. \A q \in Proc : pc'[q] \in {"fork", "create"} => pc[q] = pc'[q] BY <1>5
  <2>2. \A q \in Proc : state[q] = "EMBRYO" => state'[q] = "EMBRYO" BY <1>1, <1>5
  <2>3. with' = with /\ \A q \in Proc : isThread'[q] <=> isThread[q] BY <1>2, <1>5
  <2> QED BY <2>1, <2>2, <2>3 DEF IInv, HeldOK
<1>17. CallsOK'
  <2> SUFFICES ASSUME NEW q \in Proc
               PROVE  /\ pc'[q] = "create" => Children(q)' = ThreadsOf(q)'
                      /\ pc'[q] \in {"fork", "wait"} => ThreadsOf(q)' = {}
                      /\ pc'[q] \in {"dying", "exec"} => Siblings(q)' = {}
                      /\ pc'[q] = "thread_exit" => isThread'[q]
                      /\ pc'[q] \in {"create", "exit", "dying", "thread_exit", "exec"}
                         => q # initproc
    BY DEF CallsOK
  <2>1. CASE q \in {p, z} BY <2>1, <1>5
  <2>2. CASE q \notin {p, z}
    <3>1. pc'[q] = pc[q] /\ (isThread'[q] <=> isThread[q]) BY <2>2, <1>5
    <3>2. pc[q] # "user" => pid[q] # NULL BY DEF IInv, SlotsOK, Live
    <3> QED BY <2>2, <3>1, <3>2, <1>8, <1>9, <1>10 DEF IInv, CallsOK
  <2> QED BY <2>1, <2>2
<1>18. MemoryOK'
  <2>1. \A q \in Proc : Live(q) /\ q # z => pgdir[q] # pgdir[z]
    <3>1. \A q \in Proc : pid[q] = pid[z] => q = z BY <1>4 DEF Siblings
    <3> QED BY <3>1, <1>1, <1>4 DEF IInv, MemoryOK
  <2>2. vm' = {pgdir'[q] : q \in {x \in Proc : Live(x)'}}
    BY <2>1, <1>1, <1>2, <1>5, <1>6 DEF IInv, MemoryOK
  <2> QED BY <2>2, <1>5, <1>6 DEF IInv, MemoryOK
<1>19. CountOK' BY <1>4, <1>5, <1>6, <1>8 DEF IInv, CountOK
<1> QED BY <1>11, <1>12, <1>13, <1>14, <1>15, <1>16, <1>17, <1>18, <1>19 DEF IInv

LEMMA JoinKeeps ==
  ASSUME IInv, NEW p \in Proc, NEW t \in Proc, ThreadJoin(p, t)
  PROVE  IInv'
<1> USE ProcFacts
<1>1. /\ parent[t] = p /\ isThread[t] /\ state[t] = "ZOMBIE" /\ state[p] = "RUNNABLE"
      /\ pc[p] \in {"user", "join"}
  BY DEF ThreadJoin, InJoin, At, User, Joinable, ThreadsOf, Children
<1>2. /\ state' = [state EXCEPT ![t] = "UNUSED"] /\ pid' = [pid EXCEPT ![t] = NULL]
      /\ parent' = [parent EXCEPT ![t] = NULL] /\ killed' = [killed EXCEPT ![t] = FALSE]
      /\ isThread' = [isThread EXCEPT ![t] = FALSE]
      /\ pgdir' = [pgdir EXCEPT ![t] = NULL] /\ vm' = vm
      /\ threadnum' = [threadnum EXCEPT ![t] = 0, ![p] = @ - 1]
      /\ pc' = [pc EXCEPT ![p] = "user", ![t] = "user"]
      /\ with' = [with EXCEPT ![p] = NULL]
  BY DEF ThreadJoin, Free
<1>3. /\ t # initproc /\ t # p /\ Live(t) /\ Live(p) /\ ~isThread[p] /\ pid[t] = pid[p]
      /\ p # initproc
  BY <1>1, Kinship
<1>4. /\ threadnum[p] = Cardinality(ThreadsOf(p)) /\ threadnum[p] - 1 \in Nat
      /\ Cardinality(ThreadsOf(p) \ {t}) = threadnum[p] - 1
  <2>1. IsFiniteSet(ThreadsOf(p)) /\ t \in ThreadsOf(p)
    BY <1>1, Kinship DEF ThreadsOf, Children
  <2>2. Cardinality(ThreadsOf(p) \ {t}) = Cardinality(ThreadsOf(p)) - 1
    BY <2>1, FS_RemoveElement
  <2>3. IsFiniteSet(ThreadsOf(p) \ {t}) BY <2>1, FS_RemoveElement
  <2>4. Cardinality(ThreadsOf(p) \ {t}) \in Nat BY <2>3, FS_CardinalityType
  <2>5. threadnum[p] = Cardinality(ThreadsOf(p)) BY <1>3 DEF IInv, CountOK
  <2> QED BY <2>2, <2>4, <2>5
<1>5. /\ \A q \in Proc : state'[q] = IF q = t THEN "UNUSED" ELSE state[q]
      /\ \A q \in Proc : pid'[q] = IF q = t THEN NULL ELSE pid[q]
      /\ \A q \in Proc : parent'[q] = IF q = t THEN NULL ELSE parent[q]
      /\ \A q \in Proc : isThread'[q] <=> isThread[q] /\ q # t
      /\ \A q \in Proc : pgdir'[q] = IF q = t THEN NULL ELSE pgdir[q]
      /\ \A q \in Proc : pc'[q] = IF q \in {p, t} THEN "user" ELSE pc[q]
      /\ \A q \in Proc : with'[q] = IF q = p THEN NULL ELSE with[q]
  BY <1>1, <1>2, <1>3 DEF IInv, TypeOK
<1>5a. \A q \in Proc : threadnum'[q] = IF q = t THEN 0
                         ELSE IF q = p THEN threadnum[p] - 1 ELSE threadnum[q]
  BY <1>2, <1>3 DEF IInv, TypeOK
<1>6. \A q \in Proc : Live(q)' <=> Live(q) /\ q # t BY <1>3, <1>5 DEF Live
<1>7. \A q \in Proc : parent[q] # t BY <1>1, Kinship
<1>8. /\ ThreadsOf(p)' = ThreadsOf(p) \ {t}
      /\ \A q \in Proc \ {p} : ThreadsOf(q)' = ThreadsOf(q) /\ Children(q)' = Children(q)
  <2>1. \A c \in Proc, q \in Proc \ {p} : parent'[c] = q <=> parent[c] = q BY <1>1, <1>5
  <2>2. \A q \in Proc \ {p} : Children(q)' = Children(q) BY <2>1 DEF Children
  <2>3. \A q \in Proc \ {p} : ThreadsOf(q)' = ThreadsOf(q)
    <3>1. \A c \in Proc, q \in Proc \ {p} :
            parent'[c] = q /\ isThread'[c] <=> parent[c] = q /\ isThread[c]
      BY <2>1, <1>1, <1>5
    <3> QED BY <3>1 DEF ThreadsOf, Children
  <2>4. ThreadsOf(p)' = ThreadsOf(p) \ {t} BY <1>1, <1>5 DEF ThreadsOf, Children
  <2> QED BY <2>2, <2>3, <2>4
<1>10. \A q \in Proc : q # t /\ pid[q] # NULL => Siblings(q)' \subseteq Siblings(q)
  BY <1>5 DEF Siblings
<1>11. TypeOK'
  <2>1. /\ state' \in [Proc -> States] /\ pid' \in [Proc -> Pid \cup {NULL}]
        /\ pgdir' \in [Proc -> PageTable \cup {NULL}]
        /\ parent' \in [Proc -> Proc \cup {NULL}] /\ pc' \in [Proc -> Places]
        /\ vm' \subseteq PageTable /\ with' \in [Proc -> Proc \cup {NULL}]
    BY <1>2 DEF IInv, TypeOK, States, Places
  <2>2. isThread' \in [Proc -> BOOLEAN] /\ killed' \in [Proc -> BOOLEAN]
    BY <1>2 DEF IInv, TypeOK
  <2>3. threadnum' \in [Proc -> Nat] BY <1>2, <1>3, <1>4 DEF IInv, TypeOK
  <2> QED BY <2>1, <2>2, <2>3 DEF TypeOK
<1>12. SlotsOK' BY <1>1, <1>3, <1>5, <1>5a, <1>6 DEF IInv, SlotsOK, Live
<1>13. ParentsOK'
  <2>1. \A q \in Proc \ {initproc} : Live(q)' =>
          parent'[q] \in Proc /\ state'[parent'[q]] \notin {"UNUSED", "EMBRYO"}
    <3>1. \A q \in Proc \ {initproc} : Live(q) => parent[q] \in Proc /\ Live(parent[q])
      BY DEF IInv, ParentsOK
    <3> QED BY <3>1, <1>5, <1>6, <1>7 DEF Live
  <2>2. \A q, r \in Proc : parent'[q] = r =>
          q # r /\ ~isThread'[r] /\ state'[r] # "ZOMBIE"
    BY <1>5, <1>7 DEF IInv, ParentsOK
  <2> QED BY <2>1, <2>2 DEF ParentsOK, Live
<1>14. MainOK'
  <2>1. \A q \in Proc : isThread[q] => parent[q] # t /\ parent[q] \in Proc
    BY <1>7, Kinship
  <2>2. \A q \in Proc : isThread'[q] => parent'[q] # initproc /\ pid'[parent'[q]] = pid'[q]
    <3> SUFFICES ASSUME NEW q \in Proc, isThread'[q]
                 PROVE  parent'[q] # initproc /\ pid'[parent'[q]] = pid'[q]
      OBVIOUS
    <3>1. isThread[q] /\ q # t BY <1>5
    <3>2. pid'[parent[q]] = pid[parent[q]] /\ pid'[q] = pid[q] /\ parent'[q] = parent[q]
      BY <2>1, <3>1, <1>5
    <3> QED BY <3>1, <3>2, Kinship
  <2>3. \A q, r \in Proc : parent'[q] = parent'[r] /\ isThread'[q] => isThread'[r]
    BY <2>1, <1>5 DEF IInv, MainOK
  <2> QED BY <2>2, <2>3 DEF MainOK
<1>15. PidsOK'
  <2>1. \A q \in Proc : pid[q] = NULL => state[q] = "UNUSED" BY DEF IInv, SlotsOK
  <2> QED BY <2>1, <1>5, <1>6 DEF IInv, PidsOK
<1>16. HeldOK'
  <2>1. \A q \in Proc : pc'[q] \in {"fork", "create"} =>
          pc[q] = pc'[q] /\ with'[q] = with[q] /\ q # t
    BY <1>5
  <2>2. \A q \in Proc : state[q] = "EMBRYO" => state'[q] = "EMBRYO" BY <1>1, <1>5
  <2>3. \A q \in Proc : isThread'[q] => isThread[q] BY <1>5
  <2> SUFFICES ASSUME NEW q \in Proc, pc'[q] \in {"fork", "create"}
               PROVE  /\ with'[q] \in Proc /\ state'[with'[q]] = "EMBRYO" /\ ~isThread'[q]
                      /\ \A r \in Proc : pc'[r] \in {"fork", "create"} /\ with'[r] = with'[q]
                           => r = q
    BY DEF HeldOK
  <2>4. pc[q] \in {"fork", "create"} /\ with'[q] = with[q] BY <2>1
  <2>5. /\ with[q] \in Proc /\ state[with[q]] = "EMBRYO" /\ ~isThread[q]
        /\ \A r \in Proc : pc[r] \in {"fork", "create"} /\ with[r] = with[q] => r = q
    BY <2>4 DEF IInv, HeldOK
  <2> QED BY <2>1, <2>2, <2>3, <2>4, <2>5
<1>17. CallsOK'
  <2> SUFFICES ASSUME NEW q \in Proc
               PROVE  /\ pc'[q] = "create" => Children(q)' = ThreadsOf(q)'
                      /\ pc'[q] \in {"fork", "wait"} => ThreadsOf(q)' = {}
                      /\ pc'[q] \in {"dying", "exec"} => Siblings(q)' = {}
                      /\ pc'[q] = "thread_exit" => isThread'[q]
                      /\ pc'[q] \in {"create", "exit", "dying", "thread_exit", "exec"}
                         => q # initproc
    BY DEF CallsOK
  <2>1. CASE q \in {p, t} BY <2>1, <1>5
  <2>2. CASE q \notin {p, t}
    <3>1. pc'[q] = pc[q] /\ (isThread'[q] <=> isThread[q]) BY <2>2, <1>5
    <3>2. pc[q] # "user" => pid[q] # NULL BY DEF IInv, SlotsOK, Live
    <3> QED BY <2>2, <3>1, <3>2, <1>8, <1>10 DEF IInv, CallsOK
  <2> QED BY <2>1, <2>2
<1>18. MemoryOK'
  <2>1. pgdir[t] = pgdir[p] BY <1>3 DEF IInv, MemoryOK
  <2>2. vm' = {pgdir'[q] : q \in {x \in Proc : Live(x)'}}
    <3>1. vm = {pgdir[q] : q \in {x \in Proc : Live(x)}} BY DEF IInv, MemoryOK
    <3>2. \A q \in Proc : Live(q)' => Live(q) /\ pgdir'[q] = pgdir[q] BY <1>5, <1>6
    <3>3. \A q \in Proc : Live(q) => \E r \in Proc : Live(r)' /\ pgdir'[r] = pgdir[q]
      BY <2>1, <1>3, <1>5, <1>6
    <3> QED BY <3>1, <3>2, <3>3, <1>2
  <2>3. \A q, r \in Proc : Live(q) /\ Live(r) => (pgdir[q] = pgdir[r] <=> pid[q] = pid[r])
    BY DEF IInv, MemoryOK
  <2>4. \A q, r \in Proc : Live(q)' /\ Live(r)' => (pgdir'[q] = pgdir'[r] <=> pid'[q] = pid'[r])
    BY <2>3, <1>5, <1>6
  <2> QED BY <2>2, <2>4 DEF MemoryOK
<1>19. CountOK'
  <2> SUFFICES ASSUME NEW q \in Proc
               PROVE  /\ Live(q)' /\ ~isThread'[q] => threadnum'[q] = Cardinality(ThreadsOf(q)')
                      /\ isThread'[q] => threadnum'[q] # 0
    BY DEF CountOK
  <2>1. CASE q = p BY <2>1, <1>3, <1>4, <1>5, <1>5a, <1>8
  <2>2. CASE q # p BY <2>2, <1>5, <1>5a, <1>6, <1>8 DEF IInv, CountOK
  <2> QED BY <2>1, <2>2
<1> QED BY <1>11, <1>12, <1>13, <1>14, <1>15, <1>16, <1>17, <1>18, <1>19 DEF IInv

LEMMA ExecKeeps ==
  ASSUME IInv, NEW p \in Proc, ExecDone(p)
  PROVE  IInv'
<1> USE ProcFacts
<1>1. state[p] = "RUNNABLE" /\ pc[p] = "exec" /\ Siblings(p) = {} /\ Live(p)
  BY DEF ExecDone, At, IInv, CallsOK, Live
<1>2. /\ pgdir' = [pgdir EXCEPT ![p] = FreshVm]
      /\ vm' = (vm \cup {FreshVm}) \ {pgdir[p]} /\ pc' = [pc EXCEPT ![p] = "user"]
      /\ UNCHANGED <<state, pid, parent, isThread, threadnum, killed, with>>
  BY DEF ExecDone, Go
<1>3. FreshVm \in PageTable \ vm BY FreshVmOK DEF IInv
<1>4. /\ \A q \in Proc : pgdir'[q] = IF q = p THEN FreshVm ELSE pgdir[q]
      /\ \A q \in Proc : pc'[q] = IF q = p THEN "user" ELSE pc[q]
  BY <1>2 DEF IInv, TypeOK
<1>5. \A q \in Proc : /\ Live(q)' <=> Live(q)
                      /\ ThreadsOf(q)' = ThreadsOf(q) /\ Children(q)' = Children(q)
                      /\ Siblings(q)' = Siblings(q)
  BY <1>2 DEF Live, ThreadsOf, Children, Siblings
<1>6. TypeOK' BY <1>2, <1>3 DEF IInv, TypeOK, Places
<1>7. SlotsOK' BY <1>1, <1>2, <1>4 DEF IInv, SlotsOK, Live
<1>8. ParentsOK' BY <1>2 DEF IInv, ParentsOK, Live
<1>9. MainOK' BY <1>2 DEF IInv, MainOK
<1>10. PidsOK' BY <1>2 DEF IInv, PidsOK, Live
<1>11. HeldOK' BY <1>2, <1>4 DEF IInv, HeldOK
<1>12. CallsOK' BY <1>2, <1>4, <1>5 DEF IInv, CallsOK
<1>13. MemoryOK'
  <2>1. \A q \in Proc : pid[q] = pid[p] => q = p BY <1>1 DEF Siblings
  <2>2. \A q \in Proc : Live(q) => pgdir[q] # FreshVm /\ (pgdir[q] = pgdir[p] => q = p)
    BY <2>1, <1>1, <1>3 DEF IInv, MemoryOK
  <2>3. vm' = {pgdir'[q] : q \in {x \in Proc : Live(x)'}}
    BY <2>2, <1>1, <1>2, <1>4, <1>5 DEF IInv, MemoryOK
  <2> QED BY <2>1, <2>2, <2>3, <1>2, <1>4, <1>5 DEF IInv, MemoryOK
<1>14. CountOK' BY <1>2, <1>5 DEF IInv, CountOK
<1> QED BY <1>6, <1>7, <1>8, <1>9, <1>10, <1>11, <1>12, <1>13, <1>14 DEF IInv

-----------------------------------------------------------------------------
(* Every step keeps the invariant *)

\* A process that counts no threads has the page table for itself.
LEMMA Alone ==
  ASSUME IInv, NEW p \in Proc, Live(p), threadnum[p] = 0
  PROVE  Siblings(p) = {}
<1> USE ProcFacts
<1>1. ~isThread[p] BY DEF IInv, CountOK
<1>2. ThreadsOf(p) = {}
  <2>1. Cardinality(ThreadsOf(p)) = 0 BY <1>1 DEF IInv, CountOK
  <2> QED BY <2>1, Kinship, FS_EmptySet
<1> SUFFICES ASSUME NEW q \in Proc, pid[q] = pid[p], q # p PROVE FALSE BY DEF Siblings
<1>3. isThread[q] BY <1>1, Kinship
<1>4. parent[q] \in Proc /\ ~isThread[parent[q]] /\ pid[parent[q]] = pid[p]
  BY <1>3, Kinship
<1>5. parent[q] = p BY <1>1, <1>4, Kinship
<1> QED BY <1>2, <1>3, <1>5 DEF ThreadsOf, Children

\* Steps of p that only move it to another place, or put it to sleep.
LEMMA Moves ==
  ASSUME Supported, IInv, NEW p \in Proc,
         \/ BeginExit(p) \/ BeginThreadExit(p) \/ WaitFails(p) \/ WaitSleep(p)
         \/ ThreadJoinFails(p) \/ (\E t \in Proc : ThreadJoinSleep(p, t))
         \/ BeginExec2(p) \/ ExecFails(p) \/ ThreadCreateFails(p)
  PROVE  IInv'
<1> USE ProcFacts
<1>1. state \in [Proc -> States] /\ with \in [Proc -> Proc \cup {NULL}] BY DEF IInv, TypeOK
<1>2. state[p] = "RUNNABLE" =>
        state = [state EXCEPT ![p] = "RUNNABLE"] /\ with = [with EXCEPT ![p] = with[p]]
        /\ with[p] \in Proc \cup {NULL}
  BY <1>1
<1>3. CASE BeginExit(p)
  BY <1>2, <1>3, MoveKeeps DEF BeginExit, At, Go, fields, Places
<1>4. CASE BeginThreadExit(p)
  <2>1. isThread[p] BY <1>4 DEF BeginThreadExit, Supported
  <2> QED BY <1>2, <1>4, <2>1, MoveKeeps DEF BeginThreadExit, User, At, Go, fields, Places
<1>5. CASE WaitFails(p)
  BY <1>2, <1>5, MoveKeeps DEF WaitFails, At, Go, fields, Places
<1>6. CASE WaitSleep(p)
  <2>1. ThreadsOf(p) = {} /\ state[p] = "RUNNABLE"
    BY <1>6 DEF WaitSleep, InWait, At, User, Supported, IInv, CallsOK
  <2> QED BY <1>2, <1>6, <2>1, MoveKeeps DEF WaitSleep, Go, Places
<1>7. CASE ThreadJoinFails(p)
  BY <1>2, <1>7, MoveKeeps DEF ThreadJoinFails, At, Go, fields, Places
<1>8. CASE \E t \in Proc : ThreadJoinSleep(p, t)
  <2> PICK t \in Proc : ThreadJoinSleep(p, t) BY <1>8
  <2> QED BY <1>2, MoveKeeps DEF ThreadJoinSleep, InJoin, User, At, Go, Places
<1>9. CASE BeginExec2(p)
  <2>1. Siblings(p) = {} BY <1>9 DEF BeginExec2, Supported
  <2> QED BY <1>2, <1>9, <2>1, MoveKeeps DEF BeginExec2, User, At, Go, fields, Places
<1>10. CASE ExecFails(p)
  BY <1>2, <1>10, MoveKeeps DEF ExecFails, At, Go, fields, Places
<1>11. CASE ThreadCreateFails(p)
  BY <1>2, <1>11, MoveKeeps DEF ThreadCreateFails, At, Go, fields, Places
<1> QED BY <1>3, <1>4, <1>5, <1>6, <1>7, <1>8, <1>9, <1>10, <1>11

LEMMA NextKeeps ==
  ASSUME Supported, IInv, [Next]_vars
  PROVE  IInv'
<1> USE ProcFacts
<1>1. CASE UNCHANGED vars
  BY <1>1 DEF vars, fields, IInv, TypeOK, SlotsOK, ParentsOK, MainOK, PidsOK, HeldOK, CallsOK,
     MemoryOK, CountOK, Live, ThreadsOf, Children, Siblings
<1> SUFFICES ASSUME NEW p \in Proc, Continue(p) \/ Enter(p) PROVE IInv'
  BY <1>1 DEF Next
<1>2. CASE ForkDone(p) BY <1>2, ForkKeeps
<1>3. CASE ForkFails(p) BY <1>3, UnforkKeeps
<1>4. CASE ThreadCreateDone(p) BY <1>4, CreateKeeps
<1>5. CASE ExitKillsThreads(p)
  <2>1. p # initproc BY <1>5 DEF ExitKillsThreads, At, IInv, CallsOK
  <2> QED BY <1>5, <2>1, KillKeeps DEF ExitKillsThreads, At
<1>6. CASE Exit(p) \/ ThreadExit(p)
  BY <1>6, AbandonKeeps DEF Exit, ThreadExit, At
<1>7. CASE Wait(p) BY <1>7, WaitKeeps
<1>8. CASE \E t \in Proc : ThreadJoin(p, t) BY <1>8, JoinKeeps
<1>9. CASE ExecDone(p) BY <1>9, ExecKeeps
<1>10. CASE Fork(p)
  <2>1. state[p] = "RUNNABLE" /\ pc[p] = "user" /\ ~isThread[p] /\ ThreadsOf(p) = {}
    BY <1>10 DEF Fork, User, At, Supported
  <2> QED BY <1>10, <2>1, AllocKeeps DEF Fork
<1>11. CASE ThreadCreate(p)
  <2>1. /\ state[p] = "RUNNABLE" /\ pc[p] = "user" /\ ~isThread[p]
        /\ Children(p) = ThreadsOf(p) /\ p # initproc
    BY <1>11 DEF ThreadCreate, User, At, Supported
  <2> QED BY <1>11, <2>1, AllocKeeps DEF ThreadCreate
<1>12. CASE ThreadCreateRefused(p)
  <2>1. killed' \in [Proc -> BOOLEAN]
    BY <1>12 DEF ThreadCreateRefused, IInv, TypeOK
  <2>2. state' \in [Proc -> States] /\ \A q \in Proc : state'[q] = state[q]
          \/ (state[q] = "SLEEPING" /\ state'[q] = "RUNNABLE")
    BY <1>12 DEF ThreadCreateRefused, IInv, TypeOK, States
  <2> QED BY <1>12, <2>1, <2>2, RouseKeeps DEF ThreadCreateRefused
<1>13. CASE BeginExec(p)
  <2>1. p # initproc /\ state[p] = "RUNNABLE" /\ pc[p] = "user" /\ Live(p)
    BY <1>13 DEF BeginExec, User, At, Live
  <2>2. CASE threadnum[p] # 0 BY <1>13, <2>1, <2>2, KillKeeps DEF BeginExec
  <2>3. CASE threadnum[p] = 0
    <3>1. Siblings(p) = {} BY <2>1, <2>3, Alone
    <3>2. /\ state = [state EXCEPT ![p] = "RUNNABLE"] /\ with = [with EXCEPT ![p] = with[p]]
          /\ with[p] \in Proc \cup {NULL}
      BY <2>1 DEF IInv, TypeOK
    <3> QED BY <1>13, <2>1, <2>3, <3>1, <3>2, MoveKeeps DEF BeginExec, Go, fields, Places
  <2> QED BY <2>2, <2>3
<1>14. CASE \E q \in Proc : Kill(p, pid[q])
  <2> PICK z \in Proc : Kill(p, pid[z]) BY <1>14
  <2>1. killed' \in [Proc -> BOOLEAN] BY DEF Kill, IInv, TypeOK
  <2>2. state' \in [Proc -> States] /\ \A q \in Proc : state'[q] = state[q]
          \/ (state[q] = "SLEEPING" /\ state'[q] = "RUNNABLE")
    BY DEF Kill, IInv, TypeOK, States
  <2> QED BY <2>1, <2>2, RouseKeeps DEF Kill
<1>15. CASE \/ BeginExit(p) \/ BeginThreadExit(p) \/ WaitFails(p) \/ WaitSleep(p)
            \/ ThreadJoinFails(p) \/ (\E t \in Proc : ThreadJoinSleep(p, t))
            \/ BeginExec2(p) \/ ExecFails(p) \/ ThreadCreateFails(p)
  BY <1>15, Moves
<1> QED BY <1>2, <1>3, <1>4, <1>5, <1>6, <1>7, <1>8, <1>9, <1>10, <1>11, <1>12, <1>13, <1>14,
           <1>15 DEF Continue, Enter

LEMMA Invariant == Supported /\ Spec => []IInv
<1> SUFFICES ASSUME Supported PROVE Spec => []IInv OBVIOUS
<1>1. Init => IInv BY InitHolds
<1>2. IInv /\ [Next]_vars => IInv' BY NextKeeps
<1> QED BY <1>1, <1>2, PTL DEF Spec

\* The table says of every process who its parent and how many its threads are: exec,
\* growproc and exit go by parent and threadnum (proc.c of project02).
THEOREM Families == Supported /\ Spec => []FamiliesRight
<1>1. IInv => FamiliesRight
  <2> SUFFICES ASSUME IInv PROVE FamiliesRight OBVIOUS
  <2>1. \A p \in Proc : {q \in ThreadsOf(p) : Live(q)} = ThreadsOf(p)
    BY Kinship DEF ThreadsOf, Children
  <2>2. ThreadCount BY <2>1 DEF ThreadCount, IInv, CountOK
  <2>3. ParentLive BY ProcFacts DEF ParentLive, IInv, ParentsOK
  <2> QED BY <2>2, <2>3 DEF FamiliesRight, IInv
<1> QED BY <1>1, Invariant, PTL

\* wait, exec and growproc never take the page table from under a thread that may run
\* (README.md:114 of project02).
THEOREM TablesLive == Supported /\ Spec => []PgdirLive
<1>1. IInv => PgdirLive BY DEF IInv, MemoryOK, PgdirLive
<1> QED BY <1>1, Invariant, PTL

\* No page table is leaked, whatever order the threads of a process end in.
THEOREM TablesOwned == Supported /\ Spec => []PgdirOwned
<1>1. IInv => PgdirOwned BY DEF IInv, MemoryOK, PgdirOwned
<1> QED BY <1>1, Invariant, PTL

\* exit leaves one slot of the process, for its parent to reap.
THEOREM EndsWhole == Supported /\ Spec => []DiesWhole
<1>1. IInv => DiesWhole
  <2> SUFFICES ASSUME IInv, NEW p \in Proc, state[p] = "ZOMBIE", ~isThread[p]
               PROVE  Siblings(p) = {}
    BY DEF DiesWhole
  <2>1. pc[p] \in {"dying", "thread_exit"} BY DEF IInv, SlotsOK
  <2> QED BY <2>1 DEF IInv, CallsOK
<1> QED BY <1>1, Invariant, PTL

-----------------------------------------------------------------------------
(* Nobody sleeps through what it waits for *)

\* A step that makes no ZOMBIE: who still sleeps had nothing to reap, and has nothing.
LEMMA StillAsleep ==
  ASSUME NoLostWakeup,
         \A q \in Proc : state'[q] = "SLEEPING" =>
           \/ /\ state[q] = "SLEEPING" /\ pc'[q] = pc[q] /\ with'[q] = with[q]
              /\ killed'[q] => killed[q]
           \/ /\ ~killed'[q] /\ (pc'[q] = "wait" => Zombies(q) = {})
              /\ pc'[q] = "join" => ~Joinable(q, with'[q]),
         \A z \in Proc : state'[z] = "ZOMBIE" =>
           state[z] = "ZOMBIE" /\ parent'[z] = parent[z] /\ (isThread'[z] => isThread[z])
  PROVE  NoLostWakeup'
<1> SUFFICES ASSUME NEW p \in Proc, state'[p] = "SLEEPING"
             PROVE  /\ ~killed'[p]
                    /\ pc'[p] = "wait" => Zombies(p)' = {}
                    /\ pc'[p] = "join" => ~(with'[p] \in ThreadsOf(p)' /\ state'[with'[p]] = "ZOMBIE")
  BY DEF NoLostWakeup, Joinable
<1>1. /\ ~killed'[p] /\ (pc'[p] = "wait" => Zombies(p) = {})
      /\ pc'[p] = "join" => ~Joinable(p, with'[p])
  BY DEF NoLostWakeup
<1>2. pc'[p] = "wait" => Zombies(p)' = {} BY <1>1 DEF Zombies, Children
<1>3. pc'[p] = "join" => ~(with'[p] \in ThreadsOf(p)' /\ state'[with'[p]] = "ZOMBIE")
  BY <1>1 DEF Joinable, ThreadsOf, Children
<1> QED BY <1>1, <1>2, <1>3

\* A step that makes p a ZOMBIE wakes the parent it has, or gets.
LEMMA AbandonWakes ==
  ASSUME IInv, NoLostWakeup, NEW p \in Proc, state[p] = "RUNNABLE",
         pc[p] \in {"dying", "thread_exit"}, Abandon(p),
         UNCHANGED <<pid, isThread, threadnum, pgdir, killed, pc, with, vm>>
  PROVE  NoLostWakeup'
<1> USE ProcFacts
<1>1. p # initproc /\ parent[p] \in Proc /\ parent[p] # p
  <2>1. p # initproc /\ Live(p) BY DEF IInv, CallsOK, Live
  <2> QED BY <2>1, Kinship
<1>2. \A q \in Proc : parent'[q] = IF parent[q] = p THEN initproc ELSE parent[q]
  BY DEF Abandon
<1>3. /\ state'[p] = "ZOMBIE"
      /\ \A q \in Proc \ {p} : state'[q] \in {"SLEEPING", "ZOMBIE"} => state[q] = state'[q]
      /\ \A q \in Proc : state'[q] = "SLEEPING" /\ pc[q] \in {"wait", "join"} =>
           /\ q # p /\ q # parent[p]
           /\ q = initproc => \A c \in Proc : parent[c] = p => state[c] # "ZOMBIE"
  BY <1>1 DEF Abandon, Wake, Waiting, Children, IInv, TypeOK
<1> SUFFICES ASSUME NEW q \in Proc, state'[q] = "SLEEPING"
             PROVE  /\ ~killed[q]
                    /\ pc[q] = "wait" => Zombies(q)' = {}
                    /\ pc[q] = "join" => ~(with[q] \in ThreadsOf(q)' /\ state'[with[q]] = "ZOMBIE")
  BY DEF NoLostWakeup, Joinable
<1>4. state[q] = "SLEEPING" /\ q # p BY <1>3
<1>5. /\ ~killed[q] /\ (pc[q] = "wait" => Zombies(q) = {})
      /\ pc[q] = "join" => ~Joinable(q, with[q])
  BY <1>4 DEF NoLostWakeup
<1>6. ASSUME pc[q] \in {"wait", "join"}, NEW c \in Proc, parent'[c] = q, state'[c] = "ZOMBIE"
      PROVE  parent[c] = q /\ state[c] = "ZOMBIE"
  <2>1. c # p BY <1>1, <1>2, <1>3, <1>6
  <2>2. state[c] = "ZOMBIE" BY <2>1, <1>3, <1>6
  <2>3. parent[c] # p BY <2>2, <1>2, <1>3, <1>6
  <2> QED BY <2>2, <2>3, <1>2, <1>6
<1>7. pc[q] = "wait" => Zombies(q)' = {} BY <1>5, <1>6 DEF Zombies, Children
<1>8. pc[q] = "join" => ~(with[q] \in ThreadsOf(q)' /\ state'[with[q]] = "ZOMBIE")
  BY <1>5, <1>6 DEF Joinable, ThreadsOf, Children
<1> QED BY <1>5, <1>7, <1>8

LEMMA WakeKept ==
  ASSUME IInv, NoLostWakeup, [Next]_vars
  PROVE  NoLostWakeup'
<1> USE ProcFacts
<1> DEFINE Slept(q) == /\ state[q] = "SLEEPING" /\ pc'[q] = pc[q] /\ with'[q] = with[q]
                       /\ killed'[q] => killed[q]
           Died(z) == /\ state[z] = "ZOMBIE" /\ parent'[z] = parent[z]
                      /\ isThread'[z] => isThread[z]
           Quiet == /\ \A q \in Proc : state'[q] = "SLEEPING" => Slept(q)
                    /\ \A z \in Proc : state'[z] = "ZOMBIE" => Died(z)
<1>1. Quiet => NoLostWakeup' BY StillAsleep
<1>2. TypeOK BY DEF IInv
<1>3. CASE UNCHANGED vars BY <1>3, <1>1 DEF vars, fields
<1> SUFFICES ASSUME NEW p \in Proc, Continue(p) \/ Enter(p) PROVE NoLostWakeup'
  BY <1>3 DEF Next
<1>4. CASE ForkDone(p) \/ ThreadCreateDone(p)
  <2>1. state[p] = "RUNNABLE" /\ with[p] \in Proc /\ state'[with[p]] = "RUNNABLE"
    BY <1>4, <1>2 DEF ForkDone, ThreadCreateDone, At, IInv, HeldOK, TypeOK
  <2>2. \A q \in Proc \ {with[p]} : /\ state'[q] = state[q] /\ parent'[q] = parent[q]
                                    /\ isThread'[q] = isThread[q] /\ killed'[q] = killed[q]
    BY <1>4, <1>2 DEF ForkDone, ThreadCreateDone, TypeOK
  <2>3. \A q \in Proc \ {p} : pc'[q] = pc[q] /\ with'[q] = with[q]
    BY <1>4, <1>2 DEF ForkDone, ThreadCreateDone, TypeOK, Go
  <2>4. Quiet BY <2>1, <2>2, <2>3
  <2> QED BY <2>4, <1>1
<1>5. CASE Fork(p) \/ ThreadCreate(p) \/ ForkFails(p)
  <2>1. /\ state[p] = "RUNNABLE" /\ UNCHANGED <<parent, killed>>
        /\ \A q \in Proc \ {p} : pc'[q] = pc[q] /\ with'[q] = with[q]
    BY <1>5, <1>2 DEF Fork, ThreadCreate, ForkFails, Alloc, User, At, TypeOK, Go
  <2>2. \A q \in Proc : state'[q] \in {state[q], "UNUSED", "EMBRYO"}
                        /\ (isThread'[q] => isThread[q])
    BY <1>5, <1>2 DEF Fork, ThreadCreate, ForkFails, Alloc, TypeOK
  <2>3. Quiet BY <2>1, <2>2
  <2> QED BY <2>3, <1>1
<1>6. CASE \E there \in Places : state[p] = "RUNNABLE" /\ KillThreads(p, there)
  <2> PICK there \in Places : state[p] = "RUNNABLE" /\ KillThreads(p, there) BY <1>6
  <2>1. p \notin Siblings(p) BY DEF Siblings
  <2>2. \A q \in Proc \ Siblings(p) :
          /\ state'[q] = state[q] /\ killed'[q] = killed[q] /\ with'[q] = with[q]
          /\ q # p => /\ pc'[q] = pc[q] /\ parent'[q] = parent[q]
                      /\ isThread'[q] = isThread[q]
    BY DEF KillThreads, Cleared
  <2>3. \A q \in Siblings(p) : state'[q] = "UNUSED" BY DEF KillThreads, Cleared, Siblings
  <2>4. Quiet BY <2>1, <2>2, <2>3
  <2> QED BY <2>4, <1>1
<1>7. CASE Exit(p) \/ ThreadExit(p)
  BY <1>7, AbandonWakes DEF Exit, ThreadExit, At
<1>8. CASE Wait(p) \/ \E t \in Proc : ThreadJoin(p, t)
  <2>1. PICK z \in Proc : /\ Free(z) /\ pc' = [pc EXCEPT ![p] = "user", ![z] = "user"]
                          /\ state[p] = "RUNNABLE" /\ state[z] = "ZOMBIE"
                          /\ with' = with \/ with' = [with EXCEPT ![p] = NULL]
    <3>1. CASE Wait(p)
      <4>1. Zombies(p) \in SUBSET Nat /\ Zombies(p) # {} BY <3>1 DEF Wait, Zombies, Children
      <4>2. Least(Zombies(p)) \in Proc /\ state[Least(Zombies(p))] = "ZOMBIE"
        BY <4>1, LeastOK DEF Zombies, Children
      <4> QED BY <3>1, <4>2 DEF Wait, InWait, User, At
    <3>2. CASE \E t \in Proc : ThreadJoin(p, t)
      BY <3>2 DEF ThreadJoin, InJoin, User, At, Joinable
    <3> QED BY <1>8, <3>1, <3>2
  <2>2. \A q \in Proc \ {z} : /\ state'[q] = state[q] /\ killed'[q] = killed[q]
                              /\ parent'[q] = parent[q] /\ isThread'[q] = isThread[q]
    BY <2>1, <1>2 DEF Free, TypeOK
  <2>3. \A q \in Proc \ {p, z} : pc'[q] = pc[q] /\ with'[q] = with[q]
    BY <2>1, <1>2 DEF TypeOK
  <2>4. state'[z] = "UNUSED" BY <2>1, <1>2 DEF Free, TypeOK
  <2>5. Quiet BY <2>1, <2>2, <2>3, <2>4
  <2> QED BY <2>5, <1>1
<1>9. CASE \/ WaitFails(p) \/ ThreadJoinFails(p) \/ ExecDone(p) \/ ExecFails(p)
           \/ BeginExit(p) \/ BeginThreadExit(p) \/ BeginExec2(p)
           \/ ThreadCreateFails(p) \/ (BeginExec(p) /\ threadnum[p] = 0)
  <2>1. /\ state[p] = "RUNNABLE" /\ UNCHANGED <<state, parent, isThread, killed>>
        /\ \A q \in Proc \ {p} : pc'[q] = pc[q] /\ with'[q] = with[q]
    BY <1>9, <1>2 DEF WaitFails, ThreadJoinFails, ExecDone, ExecFails, BeginExit,
       BeginThreadExit, BeginExec2, ThreadCreateFails, BeginExec, User, At, Go, fields, TypeOK
  <2>2. Quiet BY <2>1
  <2> QED BY <2>2, <1>1
<1>10. CASE ThreadCreateRefused(p) \/ \E q \in Proc : Kill(p, pid[q])
  <2>1. /\ UNCHANGED <<parent, isThread, pc, with>>
        /\ \A q \in Proc : state'[q] \in {state[q], "RUNNABLE"}
        /\ \A q \in Proc : state'[q] = "SLEEPING" => (killed'[q] => killed[q])
    <3>1. CASE ThreadCreateRefused(p)
      <4>1. \A q \in Proc : killed'[q] <=> killed[q] \/ q \in ThreadsOf(p)
        BY <3>1 DEF ThreadCreateRefused
      <4> QED BY <3>1, <4>1 DEF ThreadCreateRefused
    <3>2. CASE \E q \in Proc : Kill(p, pid[q])
      <4> PICK z \in Proc : Kill(p, pid[z]) BY <3>2
      <4> DEFINE hit == {q \in Proc : pid[q] = pid[z] /\ ~killed[q]}
      <4>1. \A q \in Proc : killed'[q] <=> killed[q] \/ q \in hit BY DEF Kill
      <4>2. \A q \in Proc : state'[q] = IF q \in hit /\ state[q] = "SLEEPING" THEN "RUNNABLE"
                                       ELSE state[q]
        BY DEF Kill
      <4>3. UNCHANGED <<parent, isThread, pc, with>> BY DEF Kill
      <4> HIDE DEF hit
      <4> QED BY <4>1, <4>2, <4>3
    <3> QED BY <1>10, <3>1, <3>2
  <2>2. Quiet BY <2>1
  <2> QED BY <2>2, <1>1
\* p goes to sleep: it looked just before.
<1>11. CASE WaitSleep(p)
  <2>1. /\ UNCHANGED <<parent, isThread, killed, with>> /\ pc'[p] = "wait"
        /\ state'[p] = "SLEEPING" /\ Zombies(p) = {} /\ ~killed[p]
        /\ \A q \in Proc \ {p} : state'[q] = state[q] /\ pc'[q] = pc[q]
    BY <1>11, <1>2 DEF WaitSleep, Go, TypeOK
  <2> QED BY <2>1, StillAsleep
<1>12. CASE \E t \in Proc : ThreadJoinSleep(p, t)
  <2> PICK t \in Proc : ThreadJoinSleep(p, t) BY <1>12
  <2>1. /\ UNCHANGED <<parent, isThread, killed>> /\ pc'[p] = "join" /\ with'[p] = t
        /\ state'[p] = "SLEEPING" /\ ~Joinable(p, t) /\ ~killed[p]
        /\ \A q \in Proc \ {p} : /\ state'[q] = state[q] /\ pc'[q] = pc[q]
                                 /\ with'[q] = with[q]
    BY <1>2 DEF ThreadJoinSleep, Go, TypeOK
  <2> QED BY <2>1, StillAsleep
<1>13. ExitKillsThreads(p) => state[p] = "RUNNABLE" /\ KillThreads(p, "dying")
  BY DEF ExitKillsThreads, At
<1>14. BeginExec(p) /\ threadnum[p] # 0 => state[p] = "RUNNABLE" /\ KillThreads(p, "exec")
  BY DEF BeginExec, User, At
<1> QED BY <1>4, <1>5, <1>6, <1>7, <1>8, <1>9, <1>10, <1>11, <1>12, <1>13, <1>14
        DEF Continue, Enter, Places

\* No wake-up is lost: nobody sleeps in wait or thread_join beside a ZOMBIE it waits for,
\* nor killed, though the scan of the table and the sleep are apart from exit and kill.
THEOREM WakeupsArrive == Supported /\ Spec => []NoLostWakeup
<1>1. Init => NoLostWakeup BY DEF Init, NoLostWakeup
<1>2. IInv /\ NoLostWakeup /\ [Next]_vars => NoLostWakeup' BY WakeKept
<1> QED BY <1>1, <1>2, Invariant, PTL DEF Spec
=============================================================================
