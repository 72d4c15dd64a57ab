-------------------------------- MODULE Mkfs --------------------------------
(***************************************************************************)
(* mkfs (mkfs.c of project03), which makes the image of the file system:   *)
(* the root directory, one file for each of its arguments, and the map of  *)
(* the blocks they take.                                                   *)
(*                                                                         *)
(* A step is one turn of the loop of iappend.  A byte is known by the      *)
(* file it belongs to and its place there.                                 *)
(***************************************************************************)
EXTENDS Naturals, Sequences, FiniteSets

CONSTANTS
  BSIZE, NDIRECT, NINDIRECT, MAXFILE, \* as in fs.h
  FSSIZE, NMETA, \* blocks of the image, and of what comes before the data
  NINODES,
  DIRENT,        \* bytes of an entry of a directory
  NBITS,         \* bits of a block
  Arguments      \* bound of the model: lists of the lengths of the files

ROOTINO == 1
Inum == 1 .. NINODES
Block == 0 .. FSSIZE - 1
Zeroes == [k \in 0 .. BSIZE - 1 |-> 0]

MkfsAssumption ==
  /\ {BSIZE, NDIRECT, NINDIRECT, FSSIZE, NMETA, NINODES, DIRENT, NBITS} \subseteq Nat \ {0}
  /\ MAXFILE \in Nat /\ MAXFILE >= NDIRECT + NINDIRECT
  /\ BSIZE % DIRENT = 0 /\ NMETA < FSSIZE
  \* No more files than inodes: mkfs does not look.
  /\ Arguments \subseteq Seq(Nat) /\ \A a \in Arguments : Len(a) < NINODES

VARIABLES
  files,      \* the lengths of the files still to be written
  todo, din,  \* the calls of iappend still to be made; the inode that the first has read
  inode,      \* on the image: the inodes,
  data, ind,  \*   the blocks of data and the indirect blocks,
  bitmap,     \*   and the blocks marked in the block map
  freeinode, freeblock,
  state       \* "run", "done", "failed" (an exit with an error), or "overrun" (below)

vars == <<files, todo, din, inode, data, ind, bitmap, freeinode, freeblock, state>>

NoInode == [type |-> "NONE", size |-> 0, addrs |-> [k \in 0 .. NDIRECT |-> 0]]

\* Every inode is made with one link, of no size.
Ialloc(ino, i, t) == [ino EXCEPT ![i] = [NoInode EXCEPT !.type = t]]

Call(i, n) == [inum |-> i, n |-> n]

\* mkfs writes "." and ".." first.
Init ==
  /\ files \in Arguments
  /\ todo = <<Call(ROOTINO, DIRENT), Call(ROOTINO, DIRENT)>>
  /\ inode = Ialloc([i \in Inum |-> NoInode], ROOTINO, "T_DIR")
  /\ din = inode[ROOTINO]
  /\ data = [b \in Block |-> Zeroes]
  /\ ind = [b \in Block |-> [k \in 0 .. NINDIRECT - 1 |-> 0]]
  /\ bitmap = {}
  /\ freeinode = ROOTINO + 1 /\ freeblock = NMETA
  /\ state = "run"

MinOf(a, b) == IF a < b THEN a ELSE b

-----------------------------------------------------------------------------
(* iappend *)

\* The block of block fbn of the inode in din, and what the indirect block and the count of
\* free blocks become when it has to be made.
\* A mutant: the indirect block is not written back.
PlaceForgets(fbn) ==
  LET new == [b |-> freeblock, addrs |-> din.addrs, ind |-> ind, free |-> freeblock + 1]
      at  == din.addrs[NDIRECT]
  IN
  IF fbn < NDIRECT
  THEN IF din.addrs[fbn] # 0 THEN [new EXCEPT !.b = din.addrs[fbn], !.free = freeblock]
       ELSE [new EXCEPT !.addrs[fbn] = freeblock]
  ELSE IF at = 0 THEN [new EXCEPT !.b = freeblock + 1, !.addrs[NDIRECT] = freeblock, !.free = freeblock + 2]
       ELSE IF ind[at][fbn - NDIRECT] # 0
       THEN [new EXCEPT !.b = ind[at][fbn - NDIRECT], !.free = freeblock]
       ELSE new

Place(fbn) ==
  LET new == [b |-> freeblock, addrs |-> din.addrs, ind |-> ind, free |-> freeblock + 1]
      at  == din.addrs[NDIRECT]
      k   == fbn - NDIRECT
  IN
  IF fbn < NDIRECT
  THEN IF din.addrs[fbn] # 0 THEN [new EXCEPT !.b = din.addrs[fbn], !.free = freeblock]
       ELSE [new EXCEPT !.addrs[fbn] = freeblock]
  ELSE IF at = 0
  THEN [new EXCEPT !.addrs[NDIRECT] = freeblock,
                   !.b = freeblock + 1, !.ind[freeblock][k] = freeblock + 1, !.free = freeblock + 2]
  ELSE IF ind[at][k] # 0 THEN [new EXCEPT !.b = ind[at][k], !.free = freeblock]
  ELSE [new EXCEPT !.ind[at][k] = freeblock]

\* How much of the n bytes, from offset off, goes into the block.
Piece(n, off) == MinOf(n, (off \div BSIZE + 1) * BSIZE - off)

\* Where the first of the calls is.
Fbn == din.size \div BSIZE
Appends == state = "run" /\ todo # <<>>
HasSlot == Fbn < NDIRECT + NINDIRECT

\* The assertion is about MAXFILE, which counts the double and triple indirect blocks too:
\* before it fails, the code reads and writes past the end of indirect[].  What it then puts on
\* the image is not defined, and the model ends there.
TooLong ==
  /\ Appends /\ ~HasSlot
  /\ state' = IF Fbn < MAXFILE THEN "overrun" ELSE "failed"
  /\ UNCHANGED <<files, todo, din, inode, data, ind, bitmap, freeinode, freeblock>>

\* Rsect cannot read a block behind the end of the image: a new indirect block, or, when that
\* is written already, the block itself.
NoIndirect == Fbn >= NDIRECT /\ din.addrs[NDIRECT] = 0 /\ freeblock >= FSSIZE

NoSpace ==
  /\ Appends /\ HasSlot
  /\ \/ NoIndirect /\ UNCHANGED ind
     \/ ~NoIndirect /\ Place(Fbn).b >= FSSIZE /\ ind' = Place(Fbn).ind
  /\ state' = "failed"
  /\ UNCHANGED <<files, todo, din, inode, data, bitmap, freeinode, freeblock>>

Iappend ==
  LET i   == Head(todo).inum
      n   == Head(todo).n
      off == din.size
      pl  == Place(Fbn)
      n1  == Piece(n, off)
      new == [din EXCEPT !.addrs = pl.addrs, !.size = off + n1]
  IN
  /\ Appends /\ HasSlot /\ ~NoIndirect /\ pl.b < FSSIZE
  /\ ind' = pl.ind /\ freeblock' = pl.free
  /\ data' = [data EXCEPT ![pl.b] =
       [k \in 0 .. BSIZE - 1 |->
          IF k \in (off % BSIZE) .. (off % BSIZE) + n1 - 1 THEN <<i, Fbn * BSIZE + k>> ELSE @[k]]]
  /\ IF n1 < n
     THEN todo' = <<Call(i, n - n1)>> \o Tail(todo) /\ din' = new /\ UNCHANGED inode
     ELSE /\ todo' = Tail(todo)
          /\ inode' = [inode EXCEPT ![i] = new]
          /\ din' = IF todo' = <<>> THEN NoInode ELSE inode'[Head(todo').inum]
  /\ UNCHANGED <<files, bitmap, freeinode, state>>

-----------------------------------------------------------------------------
(* main *)

\* The reads of a file, of BSIZE bytes at most.
Chunks(i, len) ==
  [k \in 1 .. (len + BSIZE - 1) \div BSIZE |-> Call(i, MinOf(BSIZE, len - (k - 1) * BSIZE))]

NextFile ==
  /\ state = "run" /\ todo = <<>> /\ files # <<>>
  /\ inode' = Ialloc(inode, freeinode, "T_FILE")
  /\ freeinode' = freeinode + 1
  /\ todo' = <<Call(ROOTINO, DIRENT)>> \o Chunks(freeinode, Head(files))
  /\ din' = inode'[ROOTINO]
  /\ files' = Tail(files)
  /\ UNCHANGED <<data, ind, bitmap, freeblock, state>>

\* The blocks that were used are marked in one block of the map; more do not fit.
BallocFits == freeblock < NBITS

\* At the end the root takes whole blocks (one more than it has, when its last block is full:
\* mkfs.c:163), and the map is written.
\* A mutant: the last block is not marked.
FinishShort ==
  /\ state = "run" /\ todo = <<>> /\ files = <<>>
  /\ inode' = [inode EXCEPT ![ROOTINO].size = (@ \div BSIZE + 1) * BSIZE]
  /\ bitmap' = 0 .. freeblock - 2
  /\ state' = "done"
  /\ UNCHANGED <<files, todo, din, data, ind, freeinode, freeblock>>

Finish ==
  /\ state = "run" /\ todo = <<>> /\ files = <<>>
  /\ inode' = [inode EXCEPT ![ROOTINO].size = (@ \div BSIZE + 1) * BSIZE]
  /\ bitmap' = IF BallocFits THEN 0 .. freeblock - 1 ELSE {}
  /\ state' = IF BallocFits THEN "done" ELSE "failed"
  /\ UNCHANGED <<files, todo, din, data, ind, freeinode, freeblock>>

Next == Iappend \/ TooLong \/ NoSpace \/ NextFile \/ Finish

Spec == Init /\ [][Next]_vars

-----------------------------------------------------------------------------
\* The inode of i as iappend last left it.
Now(i) == IF todo # <<>> /\ Head(todo).inum = i THEN din ELSE inode[i]

\* The block of block fbn of i, as the kernel finds it.
Bmap(i, fbn) ==
  IF fbn < NDIRECT THEN Now(i).addrs[fbn] ELSE ind[Now(i).addrs[NDIRECT]][fbn - NDIRECT]

\* The blocks of i, each with the place where its number is kept.
Slots(i) ==
  {<<i, "addrs", k>> : k \in {k \in 0 .. NDIRECT : Now(i).addrs[k] # 0}} \cup
  (IF Now(i).addrs[NDIRECT] = 0 THEN {} ELSE
   {<<i, "ind", k>> : k \in {k \in 0 .. NINDIRECT - 1 : ind[Now(i).addrs[NDIRECT]][k] # 0}})
Named(s) == IF s[2] = "addrs" THEN Now(s[1]).addrs[s[3]] ELSE ind[Now(s[1]).addrs[NDIRECT]][s[3]]

\* The bytes that were appended to i: for the root, "." and ".." and an entry for each file.
Appended(i) == IF i = ROOTINO /\ state = "done" THEN freeinode * DIRENT ELSE Now(i).size

\* The byte of i at off, as the kernel finds it.
ByteAt(i, off) == data[Bmap(i, off \div BSIZE)][off % BSIZE]

\* Behind its entries the finished root has empty ones up to the end of their block.  When that
\* block is full, its size covers a block more, which nobody allocated (mkfs.c:163): the one
\* block of the image that the kernel does not find, and has to make.
RootEnds ==
  LET size == inode[ROOTINO].size
      last == size \div BSIZE - 1
  IN  IF Appended(ROOTINO) % BSIZE = 0
      THEN Bmap(ROOTINO, last) = 0 /\ last * BSIZE = Appended(ROOTINO)
      ELSE \A off \in Appended(ROOTINO) .. size - 1 : ByteAt(ROOTINO, off) = 0

\* As long as mkfs goes on, and when it is done, the image is one that the kernel can run on:
\* every block up to the first free one is named by just one inode, in one place, and is marked
\* at the end, and no other is; and the bytes of each file, and the entries of the root, are
\* where the kernel looks for them.  Nothing is claimed of an image that mkfs gave up, nor of
\* one with a file of more than NDIRECT + NINDIRECT blocks, which its assertion lets pass.
ImageConsistent ==
  LET slots == UNION {Slots(i) : i \in Inum} IN
  state \in {"run", "done"} =>
    /\ {Named(s) : s \in slots} = NMETA .. freeblock - 1
    /\ Cardinality(slots) = freeblock - NMETA
    /\ \A i \in Inum : \A off \in 0 .. Appended(i) - 1 : ByteAt(i, off) = <<i, off>>
    /\ state = "done" => bitmap = 0 .. freeblock - 1 /\ RootEnds
=============================================================================
