--------------------------------- MODULE Heap ---------------------------------
(***************************************************************************)
(* malloc and free of the user library (umalloc.c of project01): a circular*)
(* list of free blocks in the order of their addresses, which neighbours   *)
(* are joined in.  Addresses and sizes count headers; address 0 is the     *)
(* header base, below the heap.                                            *)
(***************************************************************************)
EXTENDS Naturals, FiniteSets

CONSTANTS
  TOP,      \* sbrk fails above this address
  CORE,     \* morecore asks for this much at least: 4096
  HEADER,   \* bytes of a header
  Requests, \* what malloc is called with, in bytes
  Others    \* what the program takes from sbrk for itself

HeapAssumption ==
  {TOP, CORE, HEADER} \subseteq Nat \ {0} /\ Requests \subseteq Nat /\ Others \subseteq Nat \ {0}

Addr == 0 .. TOP
base == 0
NULL == TOP + 1

VARIABLES
  hdr,    \* the headers, by address; Dead where there is none
  freep,  \* where the search begins, NULL at first
  brk,    \* the end of the heap
  live,   \* the blocks that the program has got from malloc
  core    \* the addresses that morecore got

vars == <<hdr, freep, brk, live, core>>

\* What is in memory where no header is does not matter, nor ptr in the program's blocks.
Dead == [ptr |-> base, size |-> 0]

\* sbrk has moved the end of the heap from 1 on; base is zeroed memory.
Init ==
  /\ hdr = [a \in Addr |-> Dead]
  /\ freep = NULL
  /\ brk = 1
  /\ live = {} /\ core = {}

-----------------------------------------------------------------------------
(* The list: h are the headers and f is freep. *)

\* The k-th node from f.
Node(h, f) == LET node[k \in 0 .. TOP] == IF k = 0 THEN f ELSE h[node[k - 1]].ptr IN node
\* How many nodes there are.
Length(h, f) == CHOOSE k \in 1 .. TOP : Node(h, f)[k] = f /\ \A j \in 1 .. k - 1 : Node(h, f)[j] # f

\* The first node from f on after which the block bp belongs.
Before(h, f, bp) ==
  LET node == Node(h, f)
      here(p) == \/ p < bp /\ bp < h[p].ptr
                 \/ p >= h[p].ptr /\ (bp > p \/ bp < h[p].ptr)
      k == CHOOSE k \in 0 .. TOP : here(node[k]) /\ \A j \in 0 .. k - 1 : ~here(node[j])
  IN  node[k]

\* free(): the block is put in after p, and joined with the block above and with p.
\* A mutant: it is joined with the block above only.
FreedUpwards(h, f, bp) ==
  LET p == Before(h, f, bp)
      above == h[p].ptr
      up == bp + h[bp].size = above
      b == [size |-> h[bp].size + (IF up THEN h[above].size ELSE 0),
            ptr |-> IF up THEN h[above].ptr ELSE above]
  IN  [hdr |-> [a \in Addr |-> CASE a = p -> [h[p] EXCEPT !.ptr = bp]
                                [] a = bp -> b
                                [] a = above /\ a # p /\ up -> Dead
                                [] OTHER -> h[a]],
       freep |-> p]

Freed(h, f, bp) ==
  LET p == Before(h, f, bp)
      above == h[p].ptr
      up == bp + h[bp].size = above
      down == p + h[p].size = bp
      b == [size |-> h[bp].size + (IF up THEN h[above].size ELSE 0),
            ptr |-> IF up THEN h[above].ptr ELSE above]
      q == [size |-> h[p].size + (IF down THEN b.size ELSE 0), ptr |-> IF down THEN b.ptr ELSE bp]
  IN  [hdr |-> [a \in Addr |-> CASE a = p -> q
                                [] a = bp -> IF down THEN Dead ELSE b
                                [] a = above /\ a # p /\ up -> Dead
                                [] OTHER -> h[a]],
       freep |-> p]

\* The loop of malloc: the first node after f that has nunits, and the one before it.
Fits(h, f, nunits) == {k \in 1 .. Length(h, f) : h[Node(h, f)[k]].size >= nunits}

\* A block that is larger gives its upper end.
\* A mutant: the block that is left keeps its size.
CarvedKeepsSize(h, f, nunits) ==
  LET k == CHOOSE k \in Fits(h, f, nunits) : \A j \in Fits(h, f, nunits) : k <= j
      p == Node(h, f)[k]
      prevp == Node(h, f)[k - 1]
      rest == h[p].size - nunits
  IN  IF rest = 0
      THEN [block |-> p, hdr |-> [h EXCEPT ![p].ptr = base, ![prevp].ptr = h[p].ptr], freep |-> prevp]
      ELSE [block |-> p + rest, hdr |-> [h EXCEPT ![p + rest].size = nunits], freep |-> prevp]

Carved(h, f, nunits) ==
  LET k == CHOOSE k \in Fits(h, f, nunits) : \A j \in Fits(h, f, nunits) : k <= j
      p == Node(h, f)[k]
      prevp == Node(h, f)[k - 1]
      rest == h[p].size - nunits
  IN  IF rest = 0
      THEN [block |-> p, hdr |-> [h EXCEPT ![p].ptr = base, ![prevp].ptr = h[p].ptr], freep |-> prevp]
      ELSE [block |-> p + rest,
            hdr |-> [h EXCEPT ![p].size = rest, ![p + rest].size = nunits], freep |-> prevp]

-----------------------------------------------------------------------------
Nunits(nbytes) == (nbytes + HEADER - 1) \div HEADER + 1

\* freep at the first call of malloc: the list is base alone.
First == IF freep = NULL THEN base ELSE freep

Got(r) == /\ hdr' = r.hdr /\ freep' = r.freep
          /\ live' = live \cup {[addr |-> r.block, size |-> r.hdr[r.block].size]}

Malloc(nbytes) ==
  LET n == Nunits(nbytes) IN
  /\ Fits(hdr, First, n) # {}
  /\ Got(Carved(hdr, First, n))
  /\ UNCHANGED <<brk, core>>

\* Back at freep: morecore frees what sbrk gives, and the search begins again.
MallocMore(nbytes) ==
  LET n == Nunits(nbytes)
      nu == IF n < CORE THEN CORE ELSE n
      r == Freed([hdr EXCEPT ![brk].size = nu], First, brk)
  IN
  /\ Fits(hdr, First, n) = {} /\ brk + nu <= TOP
  /\ Got(Carved(r.hdr, r.freep, n))
  /\ brk' = brk + nu
  /\ core' = core \cup (brk .. brk + nu - 1)

\* Without memory malloc returns 0.
MallocFails(nbytes) ==
  LET n == Nunits(nbytes) IN
  /\ Fits(hdr, First, n) = {} /\ brk + (IF n < CORE THEN CORE ELSE n) > TOP
  /\ freep' = First
  /\ UNCHANGED <<hdr, brk, live, core>>

Free(block) ==
  LET r == Freed(hdr, freep, block.addr) IN
  /\ hdr' = r.hdr /\ freep' = r.freep
  /\ live' = live \ {block}
  /\ UNCHANGED <<brk, core>>

\* The program calls sbrk itself: the heap has a gap.
Sbrk(n) ==
  /\ brk + n <= TOP
  /\ brk' = brk + n
  /\ UNCHANGED <<hdr, freep, live, core>>

Next ==
  \/ \E nbytes \in Requests : Malloc(nbytes) \/ MallocMore(nbytes) \/ MallocFails(nbytes)
  \/ \E block \in live : Free(block)
  \/ \E n \in Others : Sbrk(n)

Spec == Init /\ [][Next]_vars

-----------------------------------------------------------------------------
FreeBlocks == IF freep = NULL THEN {}
              ELSE {[addr |-> a, size |-> hdr[a].size] :
                      a \in {Node(hdr, freep)[k] : k \in 0 .. TOP} \ {base}}
Units(block) == block.addr .. block.addr + block.size - 1

\* Every unit that morecore got is in one block, free or the program's; no two free
\* blocks touch, however malloc and free alternate; and the list is a circle through base
\* in the order of the addresses, which free relies on.
HeapPartitioned ==
  /\ UNION {Units(b) : b \in FreeBlocks \cup live} = core
  /\ \A b, c \in FreeBlocks \cup live : b # c => Units(b) \cap Units(c) = {}
  /\ \A b, c \in FreeBlocks : b.addr + b.size # c.addr
  /\ freep # NULL =>
       /\ \E k \in 0 .. TOP : Node(hdr, freep)[k] = base
       /\ Cardinality({k \in 1 .. Length(hdr, freep) :
            Node(hdr, freep)[k] <= Node(hdr, freep)[k - 1]}) = 1
=============================================================================
