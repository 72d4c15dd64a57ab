---------------------------- MODULE AddressSpaces ----------------------------
(***************************************************************************)
(* Frames of memory and the page tables made of them, in the kernel of     *)
(* project02 (kalloc.c, vm.c, exec.c, proc.c).  A call that runs out of    *)
(* frames half way gives back what it took; exec() builds the new image    *)
(* beside the old one and changes over at the end.                         *)
(*                                                                         *)
(* A call is one action: other processes can only change which of its      *)
(* kalloc() fails.  Processes have one thread (Threads.tla has the others).*)
(***************************************************************************)
EXTENDS Integers, SequencesExt

CONSTANTS
  NPROC,     \* slots of ptable; slot 1 is initproc
  NFRAME,    \* frames that kinit gives to kalloc
  PGSIZE,    \* bytes of a page
  NPTE,      \* entries of a page table
  NPDE,      \* page tables of user memory, which ends at KERNBASE
  NKERN,     \* page tables that the kernel's mappings take
  Wrap,      \* sizes are counted modulo Wrap: 2^32
  Programs,  \* images that exec may find: sequences of Segments
  Stacks,    \* stack sizes that exec2 is called with; exec takes 1
  Grows      \* what sbrk is called with

KERNBASE == NPDE * NPTE * PGSIZE
Frame == 1 .. NFRAME
Pdx   == 0 .. NPDE - 1
Page  == 0 .. NPDE * NPTE - 1
Proc  == 1 .. NPROC
NONE  == 0
initproc == 1

\* A segment, and what goes wrong when it is read: nothing, its header is short or
\* memsz < filesz ("header"), or loaduvm reads too little ("data").
Segments == [vaddr : 0 .. Wrap - 1, memsz : 0 .. Wrap - 1, fault : {"none", "header", "data"}]

AddressSpacesAssumption ==
  /\ {NPROC, NFRAME, PGSIZE, NPTE, NPDE, NKERN} \subseteq Nat \ {0}
  /\ NFRAME >= NKERN + 4
  /\ Wrap \in Nat /\ Wrap > KERNBASE
  /\ \A program \in Programs : program \in Seq(Segments)
  /\ Stacks \subseteq Int /\ Grows \subseteq Int

VARIABLES
  state,    \* of the slots of ptable
  kstack,   \* their kernel stacks: frames, or NONE
  pgdir,    \* their address spaces
  sz,       \* their sizes
  free,     \* kmem.freelist
  panicked  \* what the kernel panicked with, or "no"

vars == <<state, kstack, pgdir, sz, free, panicked>>

\* An address space: the frames of the directory, of the kernel's tables, of the
\* user's tables and of the pages.
NoSpace == [dir |-> NONE, kern |-> {}, tables |-> [t \in Pdx |-> NONE],
            pages |-> [a \in Page |-> NONE]]

-----------------------------------------------------------------------------
(* vm.c.  What allocates maps a record r to what it leaves of it: ok says whether it   *)
(* has worked so far, free and d are the free frames and the address space.            *)

Present(d)  == {a \in Page : d.pages[a] # NONE}
FramesOf(d) == ({d.dir} \cup d.kern \cup Range(d.tables) \cup Range(d.pages)) \ {NONE}

RoundUp(size) == (size + PGSIZE - 1) \div PGSIZE
\* The pages of the addresses from PGROUNDUP(lo) to hi, in order.
PagesFrom(lo, hi) == [i \in 1 .. RoundUp(hi) - RoundUp(lo) |-> RoundUp(lo) + i - 1]

\* setupkvm gives back what it has when it fails.
SetupKvm(frames) ==
  LET first(n) == {f \in frames : Cardinality({g \in frames : g < f}) < n}
      dir == Min(frames)
  IN  IF Cardinality(frames) < 1 + NKERN
      THEN [ok |-> FALSE, free |-> frames, d |-> NoSpace]
      ELSE [ok |-> TRUE, free |-> frames \ first(1 + NKERN),
            d |-> [NoSpace EXCEPT !.dir = dir, !.kern = first(1 + NKERN) \ {dir}]]

\* kalloc and mappages of one page: a frame for the page, then one for the table if
\* there is none; without the second the first is given back.
\* A mutant: it is not.
NewPageLeaks(r, a) ==
  LET mem == Min(r.free)
      table == Min(r.free \ {mem})
      d == [r.d EXCEPT !.pages[a] = mem]
  IN  CASE ~r.ok -> r
        [] r.ok /\ r.free # {} /\ r.d.tables[a \div NPTE] # NONE ->
             [r EXCEPT !.free = @ \ {mem}, !.d = d]
        [] r.ok /\ Cardinality(r.free) > 1 /\ r.d.tables[a \div NPTE] = NONE ->
             [r EXCEPT !.free = @ \ {mem, table}, !.d = [d EXCEPT !.tables[a \div NPTE] = table]]
        [] OTHER -> [r EXCEPT !.ok = FALSE, !.free = {}]

NewPage(r, a) ==
  LET mem == Min(r.free)
      table == Min(r.free \ {mem})
      d == [r.d EXCEPT !.pages[a] = mem]
  IN  CASE ~r.ok -> r
        [] r.ok /\ r.free # {} /\ r.d.tables[a \div NPTE] # NONE ->
             [r EXCEPT !.free = @ \ {mem}, !.d = d]
        [] r.ok /\ Cardinality(r.free) > 1 /\ r.d.tables[a \div NPTE] = NONE ->
             [r EXCEPT !.free = @ \ {mem, table}, !.d = [d EXCEPT !.tables[a \div NPTE] = table]]
        [] OTHER -> [r EXCEPT !.ok = FALSE]

\* deallocuvm from PGROUNDUP(newsz) to oldsz; the tables stay.
\* A mutant: from PGROUNDDOWN(newsz).
DeallocDown(r, oldsz, newsz) ==
  LET gone == {a \in Page : a >= newsz \div PGSIZE /\ a < RoundUp(oldsz)} IN
  [r EXCEPT !.free = @ \cup ({r.d.pages[a] : a \in gone} \ {NONE}),
            !.d.pages = [a \in Page |-> IF a \in gone THEN NONE ELSE @[a]]]

Dealloc(r, oldsz, newsz) ==
  LET gone == ToSet(PagesFrom(newsz, oldsz)) IN
  [r EXCEPT !.free = @ \cup ({r.d.pages[a] : a \in gone} \ {NONE}),
            !.d.pages = [a \in Page |-> IF a \in gone THEN NONE ELSE @[a]]]

\* allocuvm and deallocuvm: r with the size they return, and ok unless that is 0.
Sized(r, size) == [ok |-> r.ok /\ size # 0, free |-> r.free, d |-> r.d, sz |-> size]

AllocUvm(r, oldsz, newsz) ==
  LET grown == FoldLeft(NewPage, r, PagesFrom(oldsz, newsz)) IN
  CASE newsz >= KERNBASE -> Sized(r, 0)
    [] newsz < oldsz     -> Sized(r, oldsz)
    [] newsz < KERNBASE /\ newsz >= oldsz ->
         IF grown.ok THEN Sized(grown, newsz) ELSE Sized(Dealloc(grown, newsz, oldsz), 0)

DeallocUvm(r, oldsz, newsz) ==
  IF newsz >= oldsz THEN Sized(r, oldsz) ELSE Sized(Dealloc(r, oldsz, newsz), newsz)

\* A mutant: the page tables are not freed.
FreeVmKeepsTables(frames, d) == frames \cup (({d.dir} \cup Range(d.pages)) \ {NONE})

FreeVm(frames, d) == frames \cup FramesOf(d)

\* A copy of the first pages of a space of size bytes.
CopyUvm(frames, size) ==
  LET r == SetupKvm(frames)
      copy == FoldLeft(NewPage, r, PagesFrom(0, size))
  IN  IF r.ok /\ ~copy.ok THEN [copy EXCEPT !.free = FreeVm(@, copy.d)] ELSE copy

-----------------------------------------------------------------------------
(* exec and exec2 *)

\* One turn of the loop that loads the program.
LoadSegment(r, ph) ==
  LET grown == AllocUvm(r, r.sz, (ph.vaddr + ph.memsz) % Wrap) IN
  IF ~r.ok \/ ph.fault = "header" \/ ph.vaddr + ph.memsz >= Wrap
  THEN [r EXCEPT !.ok = FALSE]
  ELSE [grown EXCEPT !.ok = @ /\ ph.vaddr % PGSIZE = 0 /\ ph.fault # "data"]

\* The image of a program with its stack, below which a page is made inaccessible.
Image(program, stack) ==
  LET r == SetupKvm(free)
      loaded == FoldLeft(LoadSegment, [ok |-> r.ok, free |-> r.free, d |-> r.d, sz |-> 0], program)
      base == RoundUp(loaded.sz) * PGSIZE
  IN  IF loaded.ok THEN AllocUvm(loaded, base, (base + (stack + 1) * PGSIZE) % Wrap) ELSE loaded

\* Where exec2 calls clearpteu, and whether that finds no page table.
Guard(image, stack) == (image.sz - (stack + 1) * PGSIZE) % Wrap
NoGuard(image, stack) ==
  LET t == Guard(image, stack) \div (NPTE * PGSIZE)
  IN  t \in Pdx /\ image.d.tables[t] = NONE

\* argsFit: whether the arguments fit on the stack; nothing fits on the guard page.
Exec(p, program, stack, argsFit) ==
  LET image == Image(program, stack) IN
  /\ state[p] = "LIVE" /\ panicked = "no"
  /\ IF image.ok /\ NoGuard(image, stack)
     THEN panicked' = "clearpteu" /\ UNCHANGED <<pgdir, sz, free>>
     ELSE /\ IF image.ok /\ argsFit /\ stack # 0
             THEN /\ pgdir' = [pgdir EXCEPT ![p] = image.d]
                  /\ sz' = [sz EXCEPT ![p] = image.sz]
                  /\ free' = FreeVm(image.free, pgdir[p])
             ELSE /\ free' = FreeVm(image.free, image.d)
                  /\ UNCHANGED <<pgdir, sz>>
          /\ UNCHANGED panicked
  /\ UNCHANGED <<state, kstack>>

-----------------------------------------------------------------------------
(* sbrk, fork, exit and wait *)

\* growproc gives up ptable.lock only when it succeeds, and sys_sbrk releases a lock
\* it does not hold when growproc failed, which panics.
Sbrk(p, n) ==
  LET r == [ok |-> TRUE, free |-> free, d |-> pgdir[p]]
      newsz == (sz[p] + n) % Wrap
      grown == CASE n > 0 -> AllocUvm(r, sz[p], newsz)
                 [] n < 0 -> DeallocUvm(r, sz[p], newsz)
                 [] n = 0 -> [ok |-> TRUE, free |-> free, d |-> pgdir[p], sz |-> sz[p]]
      remaps == n > 0 /\ grown.ok /\ Present(pgdir[p]) \cap ToSet(PagesFrom(sz[p], newsz)) # {}
  IN
  /\ state[p] = "LIVE" /\ panicked = "no"
  /\ free' = grown.free
  /\ pgdir' = [pgdir EXCEPT ![p] = grown.d]
  /\ sz' = [sz EXCEPT ![p] = IF grown.ok THEN grown.sz ELSE @]
  /\ panicked' = CASE remaps -> "remap" [] ~remaps /\ ~grown.ok -> "release" [] OTHER -> "no"
  /\ UNCHANGED <<state, kstack>>

\* allocproc takes a frame for the kernel stack; copyuvm wants every page of p.
Fork(p) ==
  LET np == Min({q \in Proc : state[q] = "UNUSED"})
      stack == Min(free)
      child == CopyUvm(free \ {stack}, sz[p])
  IN
  /\ state[p] = "LIVE" /\ panicked = "no"
  /\ \E q \in Proc : state[q] = "UNUSED"
  /\ free # {}
  /\ IF child.ok /\ ~(ToSet(PagesFrom(0, sz[p])) \subseteq Present(pgdir[p]))
     THEN panicked' = "absent" /\ UNCHANGED <<state, kstack, pgdir, sz, free>>
     ELSE /\ IF child.ok
             THEN /\ state' = [state EXCEPT ![np] = "LIVE"]
                  /\ kstack' = [kstack EXCEPT ![np] = stack]
                  /\ pgdir' = [pgdir EXCEPT ![np] = child.d]
                  /\ sz' = [sz EXCEPT ![np] = sz[p]]
                  /\ free' = child.free
             ELSE /\ free' = child.free \cup {stack}
                  /\ UNCHANGED <<state, kstack, pgdir, sz>>
          /\ UNCHANGED panicked

Exit(p) ==
  /\ state[p] = "LIVE" /\ p # initproc /\ panicked = "no"
  /\ state' = [state EXCEPT ![p] = "ZOMBIE"]
  /\ UNCHANGED <<kstack, pgdir, sz, free, panicked>>

\* By its parent, or by init: a ZOMBIE gives its frames back.
Wait(p) ==
  /\ state[p] = "ZOMBIE" /\ panicked = "no"
  /\ state' = [state EXCEPT ![p] = "UNUSED"]
  /\ kstack' = [kstack EXCEPT ![p] = NONE]
  /\ pgdir' = [pgdir EXCEPT ![p] = NoSpace]
  /\ sz' = [sz EXCEPT ![p] = 0]
  /\ free' = FreeVm(free, pgdir[p]) \cup {kstack[p]}
  /\ UNCHANGED panicked

\* userinit: one page, for initcode.
Init ==
  LET first == NewPage(SetupKvm(Frame \ {1}), 0) IN
  /\ state = [p \in Proc |-> IF p = initproc THEN "LIVE" ELSE "UNUSED"]
  /\ kstack = [p \in Proc |-> IF p = initproc THEN 1 ELSE NONE]
  /\ pgdir = [p \in Proc |-> IF p = initproc THEN first.d ELSE NoSpace]
  /\ sz = [p \in Proc |-> IF p = initproc THEN PGSIZE ELSE 0]
  /\ free = first.free
  /\ panicked = "no"

Next ==
  \E p \in Proc :
    \/ Fork(p) \/ Exit(p) \/ Wait(p)
    \/ \E n \in Grows : Sbrk(p, n)
    \/ \E program \in Programs, stack \in Stacks, fit \in BOOLEAN : Exec(p, program, stack, fit)

Spec == Init /\ [][Next]_vars

-----------------------------------------------------------------------------
TypeOK ==
  /\ state \in [Proc -> {"UNUSED", "LIVE", "ZOMBIE"}]
  /\ kstack \in [Proc -> Frame \cup {NONE}]
  /\ \A p \in Proc : FramesOf(pgdir[p]) \subseteq Frame
  /\ sz \in [Proc -> 0 .. KERNBASE - 1]
  /\ free \subseteq Frame

\* No call leaks a frame or gives one to two, whichever of its kalloc() fails: the frames
\* that are not free are in one place each (kalloc.c, vm.c, exec.c, fork).
FramesOwned ==
  LET kept(p) == {kstack[p]} \ {NONE}
      used(p) == FramesOf(pgdir[p]) \cup kept(p)
  IN
  /\ \A f \in Frame \ free : \E p \in Proc : f \in used(p)
  /\ \A p \in Proc :
       /\ used(p) \cap free = {}
       /\ \A q \in Proc \ {p} : used(p) \cap used(q) = {}
       /\ kept(p) \cap FramesOf(pgdir[p]) = {}
       /\ Cardinality(FramesOf(pgdir[p])) =
            (IF pgdir[p].dir = NONE THEN 0 ELSE 1) + Cardinality(pgdir[p].kern)
            + Cardinality({t \in Pdx : pgdir[p].tables[t] # NONE}) + Cardinality(Present(pgdir[p]))

\* The pages of a process are those below its size: growing it never maps a page that is
\* mapped, and fork finds every page (the panics of mappages and copyuvm).
PagesBelowSize ==
  /\ panicked \notin {"remap", "absent"}
  /\ panicked = "no" =>
       \A p \in Proc : state[p] # "UNUSED" => Present(pgdir[p]) = ToSet(PagesFrom(0, sz[p]))

\* A call of sbrk that fails returns (proc.c:168).
SbrkReturns == panicked # "release"
=============================================================================
