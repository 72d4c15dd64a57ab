------------------------------- MODULE BootLoader -------------------------------
(***************************************************************************)
(* The boot block (bootmain.c of project01): the segments of the kernel    *)
(* are read from the disk, a sector at a time, to where they belong, with  *)
(* whatever else is in their first and last sectors.                       *)
(***************************************************************************)
EXTENDS Integers, Sequences

CONSTANTS
  SECTSIZE,
  Top,     \* addresses are 0 .. Top
  Images   \* the kernels: sequences of segments

VARIABLES
  image,
  memory,  \* what each address holds: the offset of a byte of the file, ZERO or JUNK
  seg,     \* the segment to load: ph
  pa,      \* the address of the next sector; NONE between calls of readseg
  offset   \* the next sector

vars == <<image, memory, seg, pa, offset>>

ZERO == -1
JUNK == -2
NONE == 0 - SECTSIZE
Addr == 0 .. Top

\* Segments are in increasing order, in memory and in the file, and do not overlap; each starts
\* with a sector, as the linker has it (kernel.ld), which readseg relies on.
InOrder(s, t) == s.paddr + s.memsz <= t.paddr /\ s.off + s.filesz <= t.off
BootLoaderAssumption ==
  /\ SECTSIZE \in Nat \ {0} /\ Top \in Nat
  /\ \A i \in Images : \A k \in 1 .. Len(i) :
       /\ i[k].off % SECTSIZE = 0 /\ i[k].filesz <= i[k].memsz
       /\ i[k].paddr + i[k].memsz + SECTSIZE <= Top
       /\ \A j \in 1 .. k - 1 : InOrder(i[j], i[k])

Init ==
  /\ image \in Images
  /\ memory = [a \in Addr |-> JUNK]
  /\ seg = 1 /\ pa = NONE /\ offset = 0

Ph == image[seg]
More == seg <= Len(image)

\* The loop of readseg begins, with the start rounded down to a sector.
Readseg ==
  /\ More /\ pa = NONE
  /\ pa' = Ph.paddr - (Ph.off % SECTSIZE)
  /\ offset' = Ph.off \div SECTSIZE
  /\ UNCHANGED <<image, memory, seg>>

\* readsect: a whole sector.
Readsect ==
  /\ More /\ pa # NONE /\ pa < Ph.paddr + Ph.filesz
  /\ memory' = [a \in Addr |-> IF a \in pa .. pa + SECTSIZE - 1 THEN offset * SECTSIZE + (a - pa) ELSE memory[a]]
  /\ pa' = pa + SECTSIZE /\ offset' = offset + 1
  /\ UNCHANGED <<image, seg>>

\* A mutant: what is read past the end of the segment in the file is left.
LoadedKeeps ==
  /\ More /\ pa # NONE /\ pa >= Ph.paddr + Ph.filesz
  /\ seg' = seg + 1 /\ pa' = NONE
  /\ UNCHANGED <<image, memory, offset>>

\* The rest of the segment in memory is cleared.
Loaded ==
  /\ More /\ pa # NONE /\ pa >= Ph.paddr + Ph.filesz
  /\ memory' = [a \in Addr |-> IF a \in Ph.paddr + Ph.filesz .. Ph.paddr + Ph.memsz - 1 THEN ZERO ELSE memory[a]]
  /\ seg' = seg + 1 /\ pa' = NONE
  /\ UNCHANGED <<image, offset>>

Next == Readseg \/ Readsect \/ Loaded

Spec == Init /\ [][Next]_vars

-----------------------------------------------------------------------------
\* Every segment that was loaded is there, the bytes of the file and then zeroes, although
\* sectors are read whole: what is loaded after it does not touch it.
SegmentsLoaded ==
  \A k \in 1 .. Len(image) : k < seg =>
    LET s == image[k] IN
    \A n \in 0 .. s.memsz - 1 : memory[s.paddr + n] = IF n < s.filesz THEN s.off + n ELSE ZERO
=============================================================================
