--------------------------------- MODULE Boot ---------------------------------
(***************************************************************************)
(* How the machine comes up (main.c, mp.c and kalloc.c of project03): the  *)
(* first processor finds the others in a table of the firmware, starts     *)
(* them one at a time with arguments at one fixed address, and only then   *)
(* has the memory above 4 Mbyte, the lock of the allocator, and the first  *)
(* process, while the others are already in the scheduler.                 *)
(***************************************************************************)
EXTENDS Naturals, Sequences, FiniteSets

CONSTANTS
  NCPU,
  BSP,       \* the id of the processor that boots
  Tables,    \* the tables of the firmware: ids of processors, SKIPPED and UNKNOWN
  SKIPPED, UNKNOWN,
  Low, High, \* the pages below and above 4 Mbyte
  MaxAllocs  \* bound of the model: pages that the first process asks for

VARIABLES
  table,
  cpus,     \* the processors found
  pc,       \* where each processor is
  args,     \* the stack that entryother.S will take
  stack,    \* the stack that each processor runs on
  started,
  freelist, use_lock, \* kmem
  holder,   \* of kmem.lock
  call,     \* the call of kalloc or kfree that each processor is in
  todo,     \* pages that kinit2 has still to free
  kernel,   \* pages in use by the kernel, besides stacks, and by the first process
  runs,     \* the processor that runs the first process, if any
  made,     \* userinit is done
  left

vars == <<table, cpus, pc, args, stack, started, freelist, use_lock, holder, call, todo, kernel, runs, made, left>>

NONE == 0
Ids(t) == {t[k] : k \in 1 .. Len(t)} \ {SKIPPED, UNKNOWN}
Id == UNION {Ids(t) : t \in Tables}

BootAssumption ==
  /\ NCPU \in Nat \ {0} /\ Low \cup High \subseteq Nat \ {0} /\ IsFiniteSet(Low \cup High)
  /\ Low \cap High = {} /\ MaxAllocs \in Nat /\ BSP \in Id /\ NONE \notin Id

\* The pages of S from the highest, as freerange leaves them on the list.
Pages(S) == CHOOSE s \in [1 .. Cardinality(S) -> S] : \A j, k \in DOMAIN s : j < k => s[j] > s[k]

Idle == [op |-> "none", list |-> <<>>, page |-> NONE]

\* The order of the calls of main that matter.
\* A mutant: all the memory is there before the other processors are.
MainEarly == <<"kinit1", "kvmalloc", "mpinit", "kinit2", "startothers", "userinit", "mpmain">>
\* A mutant: the first process is there before the lock is.
MainHurried == <<"kinit1", "kvmalloc", "mpinit", "startothers", "userinit", "kinit2", "mpmain">>
Main == <<"kinit1", "kvmalloc", "mpinit", "startothers", "kinit2", "userinit", "mpmain">>

After(step) == LET k == CHOOSE k \in 1 .. Len(Main) : Main[k] = step IN Main[k + 1]

Init ==
  /\ table \in Tables
  /\ cpus = <<>>
  /\ pc = [c \in Id |-> IF c = BSP THEN Main[1] ELSE "halted"]
  /\ args = NONE /\ stack = [c \in Id |-> NONE] /\ started = {}
  /\ freelist = <<>> /\ use_lock = FALSE /\ holder = NONE
  /\ call = [c \in Id |-> Idle]
  /\ todo = Pages(High) /\ kernel = {}
  /\ runs = NONE /\ made = FALSE /\ left = MaxAllocs

Goes(c, to) == pc' = [pc EXCEPT ![c] = to]

-----------------------------------------------------------------------------
(* The allocator.  The list is read, and then written, under the lock once *)
(* use_lock is set.                                                        *)

Enter(c, op, page) ==
  /\ call[c] = Idle /\ (use_lock => holder = NONE)
  /\ call' = [call EXCEPT ![c] = [op |-> op, list |-> freelist, page |-> page]]
  /\ holder' = IF use_lock THEN c ELSE holder

\* The first page of the list, or none; and the list without it.
Page(c) == IF call[c].list = <<>> THEN NONE ELSE Head(call[c].list)
Rest(c) == IF call[c].list = <<>> THEN <<>> ELSE Tail(call[c].list)

Leave(c, list) ==
  /\ freelist' = list
  /\ call' = [call EXCEPT ![c] = Idle]
  /\ holder' = IF holder = c THEN NONE ELSE holder

Kalloced(c) == call[c].op = "kalloc" /\ Leave(c, Rest(c))
Kfreed(c) == call[c].op = "kfree" /\ Leave(c, <<call[c].page>> \o call[c].list)

-----------------------------------------------------------------------------
(* main *)

Kinit1 ==
  /\ pc[BSP] = "kinit1" /\ Goes(BSP, After("kinit1"))
  /\ freelist' = Pages(Low)
  /\ UNCHANGED <<table, cpus, args, stack, started, use_lock, holder, call, todo, kernel, runs, made, left>>

\* The page table of the kernel, which is never freed.
Kpgdir == Pages(Low)[1]
Kvmalloc ==
  /\ pc[BSP] = "kvmalloc" /\ freelist # <<>> /\ Goes(BSP, After("kvmalloc"))
  /\ kernel' = {Kpgdir} /\ freelist' = Tail(freelist)
  /\ UNCHANGED <<table, cpus, args, stack, started, use_lock, holder, call, todo, runs, made, left>>

\* The first NCPU processors of the table.  (An entry of an unknown kind is never passed.)
Mpinit ==
  /\ pc[BSP] = "mpinit" /\ UNKNOWN \notin {table[k] : k \in 1 .. Len(table)}
  /\ Goes(BSP, After("mpinit"))
  /\ LET found == SelectSeq(table, LAMBDA e : e # SKIPPED) IN
     cpus' = SubSeq(found, 1, IF Len(found) < NCPU THEN Len(found) ELSE NCPU)
  /\ UNCHANGED <<table, args, stack, started, freelist, use_lock, holder, call, todo, kernel, runs, made, left>>

\* The next processor to start: its stack is allocated, and left at the fixed address.
Others == {k \in 1 .. Len(cpus) : cpus[k] # BSP /\ cpus[k] \notin started}
Other == cpus[CHOOSE k \in Others : \A j \in Others : k <= j]

Startothers ==
  /\ pc[BSP] = "startothers"
  /\ IF Others = {} THEN Goes(BSP, After("startothers")) /\ UNCHANGED <<call, holder>>
     ELSE Enter(BSP, "kalloc", NONE) /\ Goes(BSP, "startap")
  /\ UNCHANGED <<table, cpus, args, stack, started, freelist, use_lock, todo, kernel, runs, made, left>>

\* Without a page the stack is the one at address KSTACKSIZE.
Startap ==
  /\ pc[BSP] = "startap" /\ Kalloced(BSP)
  /\ args' = Page(BSP)
  /\ pc' = [pc EXCEPT ![BSP] = "waits", ![Other] = "entryother"]
  /\ UNCHANGED <<table, cpus, stack, started, use_lock, todo, kernel, runs, made, left>>

\* A mutant: it is not waited for.
StartedAlways ==
  /\ pc[BSP] = "waits" /\ Goes(BSP, "startothers") /\ started' = started \cup {Other}
  /\ UNCHANGED <<table, cpus, args, stack, freelist, use_lock, holder, call, todo, kernel, runs, made, left>>

\* The wait for c->started, which mpmain of c sets.
Started ==
  /\ pc[BSP] = "waits" /\ pc[Other] = "scheduler"
  /\ Goes(BSP, "startothers") /\ started' = started \cup {Other}
  /\ UNCHANGED <<table, cpus, args, stack, freelist, use_lock, holder, call, todo, kernel, runs, made, left>>

Kinit2 ==
  /\ pc[BSP] = "kinit2"
  /\ \/ /\ call[BSP] = Idle /\ todo # <<>> /\ Enter(BSP, "kfree", todo[Len(todo)])
        /\ todo' = SubSeq(todo, 1, Len(todo) - 1)
        /\ UNCHANGED <<pc, freelist, use_lock>>
     \/ Kfreed(BSP) /\ UNCHANGED <<pc, todo, use_lock>>
     \/ /\ call[BSP] = Idle /\ todo = <<>>
        /\ use_lock' = TRUE /\ Goes(BSP, After("kinit2"))
        /\ UNCHANGED <<freelist, todo, call, holder>>
  /\ UNCHANGED <<table, cpus, args, stack, started, kernel, runs, made, left>>

\* A page for the process, which is then runnable.
Userinit ==
  /\ pc[BSP] = "userinit"
  /\ \/ Enter(BSP, "kalloc", NONE) /\ UNCHANGED <<pc, freelist, kernel, made>>
     \/ /\ Kalloced(BSP) /\ Page(BSP) # NONE /\ kernel' = kernel \cup {Page(BSP)}
        /\ made' = TRUE /\ Goes(BSP, After("userinit"))
  /\ UNCHANGED <<table, cpus, args, stack, started, use_lock, todo, runs, left>>

Mpmain ==
  /\ pc[BSP] = "mpmain" /\ Goes(BSP, "scheduler")
  /\ UNCHANGED <<table, cpus, args, stack, started, freelist, use_lock, holder, call, todo, kernel, runs, made, left>>

-----------------------------------------------------------------------------
(* The other processors *)

Entryother(c) ==
  /\ pc[c] = "entryother" /\ Goes(c, "mpenter")
  /\ stack' = [stack EXCEPT ![c] = args]
  /\ UNCHANGED <<table, cpus, args, started, freelist, use_lock, holder, call, todo, kernel, runs, made, left>>

Mpenter(c) ==
  /\ pc[c] = "mpenter" /\ Goes(c, "scheduler")
  /\ UNCHANGED <<table, cpus, args, stack, started, freelist, use_lock, holder, call, todo, kernel, runs, made, left>>

-----------------------------------------------------------------------------
(* The first process: a scheduler runs it, it asks for pages and frees     *)
(* them, and gives up the processor.                                       *)

Runs(c) ==
  /\ pc[c] = "scheduler" /\ made /\ runs = NONE /\ left > 0
  /\ runs' = c /\ Enter(c, "kalloc", NONE) /\ left' = left - 1
  /\ UNCHANGED <<table, cpus, pc, args, stack, started, freelist, use_lock, todo, kernel, made>>

Gets(c) ==
  /\ runs = c /\ Kalloced(c)
  /\ kernel' = IF Page(c) = NONE THEN kernel ELSE kernel \cup {Page(c)}
  /\ UNCHANGED <<table, cpus, pc, args, stack, started, use_lock, todo, runs, made, left>>

Frees(c) ==
  /\ runs = c
  /\ \/ /\ left > 0 /\ left' = left - 1
        /\ \E p \in kernel \ {Kpgdir} : Enter(c, "kfree", p) /\ kernel' = kernel \ {p}
        /\ UNCHANGED <<freelist, runs>>
     \/ Kfreed(c) /\ UNCHANGED <<kernel, left, runs>>
     \/ call[c] = Idle /\ runs' = NONE /\ UNCHANGED <<freelist, holder, call, kernel, left>>
  /\ UNCHANGED <<table, cpus, pc, args, stack, started, use_lock, todo, made>>

Next ==
  \/ Kinit1 \/ Kvmalloc \/ Mpinit \/ Startothers \/ Startap \/ Started \/ Kinit2 \/ Userinit \/ Mpmain
  \/ \E c \in Id : Entryother(c) \/ Mpenter(c) \/ Runs(c) \/ Gets(c) \/ Frees(c)

Spec == Init /\ [][Next]_vars

-----------------------------------------------------------------------------
Stacks == {stack[c] : c \in Id} \ {NONE}
Freed == {freelist[k] : k \in 1 .. Len(freelist)}

\* Every processor runs on a stack of its own, which is mapped by the first page table that it
\* has: below 4 Mbyte.
StacksOwned ==
  \A c, d \in Id : stack[c] # NONE =>
    stack[c] \in Low /\ (c # d => stack[c] # stack[d])

\* A page is on the free list once, or in use, though the allocator has no lock at first.
PagesOwned ==
  /\ Cardinality(Freed) = Len(freelist)
  /\ Freed \cap (kernel \cup Stacks) = {} /\ kernel \cap Stacks = {}
=============================================================================
