------------------------------- MODULE FileData -------------------------------
(***************************************************************************)
(* The bytes of a file of project01 (fs.c, file.c): readi and writei cut   *)
(* them into blocks, which bmap allocates; filewrite cuts a write into     *)
(* chunks that fit a transaction, and gives up the inode between them.     *)
(* Two processes share an open file, or have one each.                     *)
(***************************************************************************)
EXTENDS Naturals, Sequences, FiniteSets

CONSTANTS
  Proc, Open,  \* processes; open files of the one inode
  BSIZE,       \* bytes of a block
  NDIRECT,     \* direct blocks
  NINDIRECT,   \* blocks of the indirect block
  MAXOPBLOCKS, \* blocks that a transaction may log
  Lengths,     \* of reads and writes
  MaxWrites    \* a bound of the model: write number i writes bytes i

MAXFILE == NDIRECT + NINDIRECT

FileDataAssumption ==
  /\ {BSIZE, NDIRECT, NINDIRECT} \subseteq Nat \ {0}
  /\ MAXOPBLOCKS \in Nat /\ MAXOPBLOCKS >= 6
  /\ Lengths \subseteq Nat \ {0} /\ MaxWrites \in Nat

Bn == 0 .. MAXFILE - 1
Byte == 1 .. MaxWrites
NoBlock == <<>>
Zeroes == [i \in 0 .. BSIZE - 1 |-> 0]

VARIABLES
  blocks, indirect, \* the blocks of the inode, or NoBlock; whether it has an indirect block
  size,             \* bytes of the file
  opened, off,      \* the open file of a process; offsets
  todo, byte,       \* bytes a process has still to write, all the same
  got,              \* what the last read returned
  logged,           \* blocks that the last chunk logged
  writes            \* writes still to begin

vars == <<blocks, indirect, size, opened, off, todo, byte, got, logged, writes>>

Init ==
  /\ blocks = [bn \in Bn |-> NoBlock] /\ indirect = FALSE
  /\ size = 0
  /\ opened \in [Proc -> Open] /\ off = [f \in Open |-> 0]
  /\ todo = [p \in Proc |-> 0] /\ byte = [p \in Proc |-> 0]
  /\ got = <<>>
  /\ logged = 0
  /\ writes = MaxWrites

-----------------------------------------------------------------------------
(* readi and writei *)

\* The blocks of n bytes from at.
Span(at, n) == {bn \in Bn : bn * BSIZE < at + n /\ (bn + 1) * BSIZE > at}

\* bmap, for all of the blocks in S: zeroed ones where there was none.
Mapped(S) == [bn \in Bn |-> IF bn \in S /\ blocks[bn] = NoBlock THEN Zeroes ELSE blocks[bn]]
New(S) == {bn \in S : blocks[bn] = NoBlock}

\* memmove into the blocks: in each the part that the write covers.
Written(at, n, b) ==
  [bn \in Bn |->
     IF bn \notin Span(at, n) THEN blocks[bn]
     ELSE [i \in 0 .. BSIZE - 1 |->
             IF bn * BSIZE + i >= at /\ bn * BSIZE + i < at + n THEN b ELSE Mapped({bn})[bn][i]]]

\* What is logged: the blocks, the bitmap (one block, for FSSIZE blocks) if any is new,
\* the indirect block if it changes, the inode if the file grows.
Logged(at, n) ==
  LET S == Span(at, n)
      one(c) == IF c THEN 1 ELSE 0
  IN  Cardinality(S) + one(New(S) # {}) + one(\E bn \in New(S) : bn >= NDIRECT) + one(at + n > size)

Bytes(at, n) == [i \in 1 .. n |-> blocks[(at + i - 1) \div BSIZE][(at + i - 1) % BSIZE]]

-----------------------------------------------------------------------------
(* filewrite and fileread *)

\* A mutant: no room is left for what is logged besides the data.
MaxChunkAll == MAXOPBLOCKS * BSIZE

MaxChunk == ((MAXOPBLOCKS - 1 - 1 - 2) \div 2) * BSIZE

WriteBegins(p, n) ==
  /\ todo[p] = 0 /\ writes > 0
  /\ writes' = writes - 1
  /\ todo' = [todo EXCEPT ![p] = n]
  /\ byte' = [byte EXCEPT ![p] = MaxWrites - writes + 1]
  /\ UNCHANGED <<blocks, indirect, size, opened, off, got, logged>>

\* A chunk, between ilock and iunlock.  One that would end above MAXFILE is refused, and
\* filewrite returns -1, though earlier chunks were written.
WriteChunkAt(p, at) ==
  LET n == IF todo[p] < MaxChunk THEN todo[p] ELSE MaxChunk IN
  /\ todo[p] > 0
  /\ IF at + n > MAXFILE * BSIZE
     THEN todo' = [todo EXCEPT ![p] = 0] /\ UNCHANGED <<blocks, indirect, size, off, logged>>
     ELSE /\ blocks' = Written(at, n, byte[p])
          /\ indirect' = (indirect \/ \E bn \in Span(at, n) : bn >= NDIRECT)
          /\ size' = IF at + n > size THEN at + n ELSE size
          /\ logged' = Logged(at, n)
          /\ off' = [off EXCEPT ![opened[p]] = at + n]
          /\ todo' = [todo EXCEPT ![p] = @ - n]
  /\ UNCHANGED <<opened, byte, got, writes>>

\* A mutant: the write is at the end of the file, not at the offset.
WriteChunkAppends(p) == WriteChunkAt(p, size)

WriteChunk(p) == WriteChunkAt(p, off[opened[p]])

\* readi of at most n bytes.
\* A mutant: the end of the file is not looked at.
ReadPastEnd(p, n) ==
  LET at == off[opened[p]] IN
  /\ todo[p] = 0 /\ at < size /\ Span(at, n) \cap New(Bn) = {} /\ at + n <= MAXFILE * BSIZE
  /\ got' = Bytes(at, n)
  /\ off' = [off EXCEPT ![opened[p]] = at + n]
  /\ UNCHANGED <<blocks, indirect, size, opened, todo, byte, logged, writes>>

Read(p, n) ==
  LET at == off[opened[p]]
      m == IF at + n > size THEN size - at ELSE n
  IN
  /\ todo[p] = 0 /\ m > 0
  /\ got' = Bytes(at, m)
  /\ off' = [off EXCEPT ![opened[p]] = at + m]
  /\ UNCHANGED <<blocks, indirect, size, opened, todo, byte, logged, writes>>

\* The process closes its file and opens it again: the offset is 0.
Reopen(p) ==
  \E f \in Open \ {opened[q] : q \in Proc \ {p}} :
    /\ todo[p] = 0
    /\ opened' = [opened EXCEPT ![p] = f]
    /\ off' = [off EXCEPT ![f] = 0]
    /\ UNCHANGED <<blocks, indirect, size, todo, byte, got, logged, writes>>

Next ==
  \E p \in Proc :
    \/ WriteChunk(p) \/ Reopen(p)
    \/ \E n \in Lengths : Read(p, n) \/ WriteBegins(p, n)

Spec == Init /\ [][Next]_vars

-----------------------------------------------------------------------------
TypeOK ==
  /\ size \in 0 .. MAXFILE * BSIZE
  /\ \A f \in Open : off[f] \in 0 .. size
  /\ \A bn \in Bn : blocks[bn] # NoBlock <=> bn * BSIZE < size
  /\ indirect <=> size > NDIRECT * BSIZE

\* A chunk fits in the log, however it lies across the blocks (file.c:126-131).
ChunkFitsLog == logged <= MAXOPBLOCKS

\* Cut into blocks and chunks, the file is the sequence of bytes that was written.
Store == INSTANCE FileBytes WITH content <- Bytes(0, size), MaxBytes <- MAXFILE * BSIZE
FilesAreBytes == Store!Spec
=============================================================================
