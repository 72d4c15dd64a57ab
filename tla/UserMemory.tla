------------------------------ MODULE UserMemory ------------------------------
(***************************************************************************)
(* What is in the memory of a process, and what the kernel lets it touch:  *)
(* page tables with their flags, the contents of the frames, and exec with *)
(* the arguments on the stack (vm.c and exec.c of project03).              *)
(*                                                                         *)
(* A cell of memory holds a character or a word; an address counts cells.  *)
(* The operators map a record m of memory to what a function leaves of it, *)
(* where ok says whether it worked, d is the address space it works on and *)
(* panic what the kernel panicked with, or "no".                           *)
(***************************************************************************)
EXTENDS Integers, SequencesExt

CONSTANTS
  NFRAME, \* frames of memory
  PGSIZE, \* cells of a page
  NPTE,   \* entries of a page table
  NPDE,   \* page tables of user memory; the kernel's mappings take one more
  MAXARG

KERNBASE == NPDE * NPTE * PGSIZE
Wrap  == KERNBASE + NPTE * PGSIZE  \* addresses are counted modulo Wrap: 2^32
Frame == 1 .. NFRAME
Table == 0 .. NPDE                 \* entry NPDE of a directory is the kernel's table
Page  == 0 .. NPDE * NPTE - 1
NONE  == 0
JUNK  == 1                         \* what kfree fills a page with

UserMemoryAssumption == {NFRAME, PGSIZE, NPTE, NPDE, MAXARG} \subseteq Nat \ {0}

\* A page table entry is a frame and whether a user may touch it (PTE_U).
NoPte   == [frame |-> NONE, user |-> FALSE]
NoSpace == [dir |-> NONE, tables |-> [t \in Table |-> NONE], pte |-> [a \in Page |-> NoPte]]

FramesOf(d) == ({d.dir} \cup Range(d.tables) \cup {d.pte[a].frame : a \in Page}) \ {NONE}

Zeroed == [i \in 0 .. PGSIZE - 1 |-> 0]
Freed  == [i \in 0 .. PGSIZE - 1 |-> JUNK]

PageOf(va)    == va \div PGSIZE
RoundUp(size) == ((size + PGSIZE - 1) \div PGSIZE) * PGSIZE
LesserOf(a, b) == IF a < b THEN a ELSE b

-----------------------------------------------------------------------------
(* kalloc and kfree: which frame comes first does not matter. *)

Got(m) == Min(m.free)
Kalloc(m) == IF m.free = {} THEN [m EXCEPT !.ok = FALSE] ELSE [m EXCEPT !.free = @ \ {Got(m)}]
Kfree(m, frames) ==
  [m EXCEPT !.free = @ \cup frames, !.cells = [f \in Frame |-> IF f \in frames THEN Freed ELSE @[f]]]

\* kalloc and memset
NewPage(m) ==
  IF m.free = {} THEN [m EXCEPT !.ok = FALSE]
  ELSE [m EXCEPT !.free = @ \ {Got(m)}, !.cells[Got(m)] = Zeroed]

\* walkpgdir with alloc: the table of entry t, made if there is none.
NewTable(m, t) ==
  IF m.d.tables[t] # NONE \/ ~m.ok THEN m
  ELSE IF m.free = {} THEN [m EXCEPT !.ok = FALSE]
  ELSE [NewPage(m) EXCEPT !.d.tables[t] = Got(m)]

\* mappages of one page at a.
MapPage(m, a, pte) ==
  LET r == NewTable(m, a \div NPTE) IN
  IF ~r.ok THEN r
  ELSE IF r.d.pte[a].frame # NONE THEN [r EXCEPT !.panic = "remap"]
  ELSE [r EXCEPT !.d.pte[a] = pte]

FreeVm(m) == [Kfree(m, FramesOf(m.d)) EXCEPT !.d = NoSpace]

SetupKvm(m) ==
  LET dir == [NewPage(m) EXCEPT !.d = [NoSpace EXCEPT !.dir = Got(m)]]
      r == NewTable(dir, NPDE)
  IN
  IF m.free = {} THEN [m EXCEPT !.ok = FALSE, !.d = NoSpace]
  ELSE IF ~r.ok THEN FreeVm(r) ELSE r

-----------------------------------------------------------------------------
(* The size of an address space. *)

\* deallocuvm: the tables stay.
Dealloc(m, oldsz, newsz) ==
  LET gone == {a \in Page : a * PGSIZE >= newsz /\ a * PGSIZE < oldsz} IN
  [Kfree(m, {m.d.pte[a].frame : a \in gone} \ {NONE}) EXCEPT
    !.d.pte = [a \in Page |-> IF a \in gone THEN NoPte ELSE @[a]]]

\* A page more; without a table for it the page is given back.
Grow(m, a) ==
  LET mem == NewPage(m)
      r == MapPage(mem, a, [frame |-> Got(m), user |-> TRUE])
  IN IF ~m.ok THEN m ELSE IF ~mem.ok THEN mem ELSE IF ~r.ok THEN Kfree(r, {Got(m)}) ELSE r

PagesFrom(lo, hi) ==
  [i \in 1 .. PageOf(RoundUp(hi)) - PageOf(RoundUp(lo)) |-> PageOf(RoundUp(lo)) + i - 1]

\* allocuvm and deallocuvm return a size, and callers take 0 for a failure.
Sized(m, size) == [m EXCEPT !.sz = size, !.ok = @ /\ size # 0]

AllocUvm(m, oldsz, newsz) ==
  LET grown == FoldLeft(Grow, m, PagesFrom(oldsz, newsz)) IN
  IF newsz >= KERNBASE THEN [m EXCEPT !.ok = FALSE]
  ELSE IF newsz < oldsz THEN Sized(m, oldsz)
  ELSE IF grown.ok THEN Sized(grown, newsz) ELSE Dealloc(grown, newsz, oldsz)

DeallocUvm(m, oldsz, newsz) ==
  IF newsz >= oldsz THEN Sized(m, oldsz) ELSE Sized(Dealloc(m, oldsz, newsz), newsz)

\* clearpteu, on the page below a stack
ClearPteU(m, va) == [m EXCEPT !.d.pte[PageOf(va)].user = FALSE]

\* copyuvm: the contents and the flags of the pages below sz of the space old.
CopyUvm(m, old, sz) ==
  LET copy(r, a) ==
        LET mem == Kalloc(r)
            filled == [mem EXCEPT !.cells[Got(r)] = r.cells[old.pte[a].frame]]
            mapped == MapPage(filled, a, [frame |-> Got(r), user |-> old.pte[a].user])
        IN
        IF ~r.ok \/ r.panic # "no" THEN r
        ELSE IF old.pte[a].frame = NONE THEN [r EXCEPT !.panic = "absent"]
        ELSE IF ~mem.ok THEN mem
        ELSE IF ~mapped.ok THEN Kfree(mapped, {Got(r)}) ELSE mapped
      r == SetupKvm(m)
      all == FoldLeft(copy, r, PagesFrom(0, sz))
  IN IF r.ok /\ ~all.ok THEN FreeVm(all) ELSE all

-----------------------------------------------------------------------------
(* Getting at cells. *)

\* What is at va, for the kernel, and whether a user may touch it.
Cell(cells, d, va) == cells[d.pte[PageOf(va)].frame][va % PGSIZE]
IsMapped(d, va) == va < KERNBASE /\ d.pte[PageOf(va)].frame # NONE
IsUsers(d, va)  == IsMapped(d, va) /\ d.pte[PageOf(va)].user

\* copyout of a sequence: it stops at the first page that is not the user's.
Copyout(m, va, s) ==
  LET put(r, i) ==
        LET a == (va + i - 1) % Wrap IN
        IF ~r.ok THEN r
        ELSE IF ~IsUsers(r.d, a) THEN [r EXCEPT !.ok = FALSE]
        ELSE [r EXCEPT !.cells[r.d.pte[PageOf(a)].frame][a % PGSIZE] = s[i]]
  IN FoldLeft(put, m, [i \in 1 .. Len(s) |-> i])

-----------------------------------------------------------------------------
(* exec.  A program is whether its file is there with the magic number of ELF, and its    *)
(* segments: where each goes, what it has in the file, how long it is, and if it is to be *)
(* loaded.                                                                                *)

LoadUvm(m, ph) ==
  LET put(r, i) == [r EXCEPT !.cells[r.d.pte[PageOf(ph.vaddr + i - 1)].frame][(i - 1) % PGSIZE] = ph.file[i]]
  IN FoldLeft(put, m, [i \in 1 .. Len(ph.file) |-> i])

LoadSegment(m, ph) ==
  LET grown == AllocUvm(m, m.sz, ph.vaddr + ph.memsz) IN
  IF ~m.ok \/ ~ph.load THEN m
  ELSE IF ph.memsz < Len(ph.file) \/ ph.vaddr + ph.memsz >= Wrap THEN [m EXCEPT !.ok = FALSE]
  ELSE IF ~grown.ok THEN grown
  ELSE IF ph.vaddr % PGSIZE # 0 THEN [grown EXCEPT !.ok = FALSE]
  ELSE LoadUvm(grown, ph)

\* The arguments, then the word after them, their addresses, argv, argc and a return address.
PushArgs(m, args) ==
  LET push(r, arg) ==
        IF ~r.ok \/ Len(r.argv) >= MAXARG THEN [r EXCEPT !.ok = FALSE]
        ELSE LET sp == (r.sp - (Len(arg) + 1)) % Wrap
             IN [Copyout(r, sp, arg \o <<0>>) EXCEPT !.sp = sp, !.argv = Append(@, sp)]
      pushed == FoldLeft(push, m, args)
      argc == Len(args)
      ustack == <<Wrap - 1, argc, (pushed.sp - (argc + 1)) % Wrap>> \o pushed.argv \o <<0>>
      sp == (pushed.sp - (3 + argc + 1)) % Wrap
  IN IF pushed.ok THEN [Copyout(pushed, sp, ustack) EXCEPT !.sp = sp] ELSE pushed

Stacked(m) ==
  LET base == RoundUp(m.sz)
      r == AllocUvm(m, base, base + 2 * PGSIZE)
  IN IF ~m.ok \/ ~r.ok THEN [r EXCEPT !.ok = FALSE]
     ELSE [ClearPteU(r, r.sz - 2 * PGSIZE) EXCEPT !.sp = r.sz]

\* The new image, beside the old one d, which goes when the new one is ready: its directory r,
\* what is loaded into it, and the image with the arguments on its stack.
Loaded(r, program) == FoldLeft(LoadSegment, [r EXCEPT !.sz = 0], program.segments)
Exec(m, r, image, program) ==
  LET fail(x) == [x EXCEPT !.ok = FALSE, !.d = m.d, !.sz = m.sz, !.sp = m.sp] IN
  IF ~program.elf THEN fail(m) ELSE IF ~r.ok THEN fail(r)
  ELSE IF ~image.ok THEN fail(FreeVm(image))
  ELSE Kfree(image, FramesOf(m.d))
=============================================================================
