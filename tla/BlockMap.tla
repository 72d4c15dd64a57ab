------------------------------ MODULE BlockMap ------------------------------
(***************************************************************************)
(* Where the blocks of a file are (fs.c of project03): bmap and itrunc     *)
(* over direct, single, double and triple indirect blocks.  A disk is a    *)
(* record of the bitmap and of the words in each block; an index block and *)
(* a data block are both just words, and a word of data may look like the  *)
(* number of a block.                                                      *)
(***************************************************************************)
EXTENDS Naturals, SequencesExt

CONSTANTS
  NDIRECT,   \* direct blocks of an inode
  ENTRYNUM,  \* words of a block
  NBLOCK     \* data blocks of the disk

ASSUME BlockMapAssumption == {NDIRECT, ENTRYNUM, NBLOCK} \subseteq Nat \ {0}

Block == 1 .. NBLOCK
Word  == 0 .. NBLOCK
Entry == 0 .. ENTRYNUM - 1

NDINDIRECT == ENTRYNUM * ENTRYNUM
NTINDIRECT == ENTRYNUM * NDINDIRECT
MAXFILE    == NDIRECT + ENTRYNUM + NDINDIRECT + NTINDIRECT

Disks == [used: SUBSET Block, data: [Block -> [Entry -> Word]]]

\* The fields addrs, d_addr and t_addr of an inode say where its blocks are; 0 is
\* no block.
NoAddrs == [i \in 0 .. NDIRECT |-> 0]

Zeroes == [e \in Entry |-> 0]

-----------------------------------------------------------------------------
(* balloc and bmap.  A lookup carries the disk along: [disk, addr]. *)

FreeBlocks(disk) == Block \ disk.used

\* balloc: the first free block, zeroed.
Balloc(disk) ==
  LET b == Min(FreeBlocks(disk))
  IN  [disk |-> [used |-> disk.used \cup {b}, data |-> [disk.data EXCEPT ![b] = Zeroes]],
       addr |-> b]

\* A root of the inode, allocated if there is none.
AtRoot(disk, addr) == IF addr = 0 THEN Balloc(disk) ELSE [disk |-> disk, addr |-> addr]

\* Entry e of the index block that r leads to, allocated if there is none.
\* A mutant: the index block is changed without being written.
AtEntryUnlogged(r, e) ==
  IF r.disk.data[r.addr][e] # 0
  THEN [disk |-> r.disk, addr |-> r.disk.data[r.addr][e]]
  ELSE Balloc(r.disk)

AtEntry(r, e) ==
  IF r.disk.data[r.addr][e] # 0
  THEN [disk |-> r.disk, addr |-> r.disk.data[r.addr][e]]
  ELSE LET n == Balloc(r.disk)
       IN  [n EXCEPT !.disk.data[r.addr][e] = n.addr]

\* How many index blocks lead to block bn of a file (below MAXFILE).
\* A mutant: one block too many is direct.
DepthOffByOne(bn) ==
  IF bn <= NDIRECT THEN 0
  ELSE IF bn < NDIRECT + ENTRYNUM THEN 1
  ELSE IF bn < NDIRECT + ENTRYNUM + NDINDIRECT THEN 2
  ELSE 3

Depth(bn) ==
  IF bn < NDIRECT THEN 0
  ELSE IF bn < NDIRECT + ENTRYNUM THEN 1
  ELSE IF bn < NDIRECT + ENTRYNUM + NDINDIRECT THEN 2
  ELSE 3

Bmap(disk, ip, bn) ==
  CASE Depth(bn) = 0 ->
         LET r == AtRoot(disk, ip.addrs[bn])
         IN  [disk |-> r.disk, addr |-> r.addr, ip |-> [ip EXCEPT !.addrs[bn] = r.addr]]
    [] Depth(bn) = 1 ->
         LET n == bn - NDIRECT
             root == AtRoot(disk, ip.addrs[NDIRECT])
             r == AtEntry(root, n)
         IN  [disk |-> r.disk, addr |-> r.addr,
              ip |-> [ip EXCEPT !.addrs[NDIRECT] = root.addr]]
    [] Depth(bn) = 2 ->
         LET n == bn - NDIRECT - ENTRYNUM
             root == AtRoot(disk, ip.d_addr)
             r == AtEntry(AtEntry(root, n \div ENTRYNUM), n % ENTRYNUM)
         IN  [disk |-> r.disk, addr |-> r.addr, ip |-> [ip EXCEPT !.d_addr = root.addr]]
    [] Depth(bn) = 3 ->
         LET n == bn - NDIRECT - ENTRYNUM - NDINDIRECT
             root == AtRoot(disk, ip.t_addr)
             r == AtEntry(AtEntry(AtEntry(root, n \div NDINDIRECT),
                                  (n % NDINDIRECT) \div ENTRYNUM),
                          (n % NDINDIRECT) % ENTRYNUM)
         IN  [disk |-> r.disk, addr |-> r.addr, ip |-> [ip EXCEPT !.t_addr = root.addr]]

-----------------------------------------------------------------------------
(* itrunc: the calls of bfree.  Where the word stands that names the block tells them *)
(* apart: an index into addrs, NDIRECT + 1 for d_addr or NDIRECT + 2 for t_addr, and   *)
(* then entries of index blocks.  (The order of the calls makes no difference.)        *)

At(i, b) == IF b = 0 THEN {} ELSE {[at |-> <<i>>, block |-> b]}

Direct(ip) == UNION {At(i, ip.addrs[i]) : i \in 0 .. NDIRECT - 1}

\* The words in the blocks of S.
Words(disk, S) ==
  {w \in {[at |-> Append(c.at, e), block |-> disk.data[c.block][e]] : c \in S, e \in Entry} :
     w.block # 0}

\* multi_itrunc goes one level too deep for d_addr, into the words of the data blocks;
\* for t_addr itrunc reads block d_addr, which is 0 by then and all zeroes, and frees
\* nothing below.  A mutant: the blocks below the single indirect block stay in use.
Deep(disk, ip) ==
  LET index == Words(disk, At(NDIRECT + 1, ip.d_addr))
      data  == Words(disk, index)
  IN  At(NDIRECT + 1, ip.d_addr) \cup index \cup data \cup Words(disk, data)

FreedKeepsSingle(disk, ip) ==
  Direct(ip) \cup At(NDIRECT, ip.addrs[NDIRECT]) \cup Deep(disk, ip) \cup At(NDIRECT + 2, ip.t_addr)

Freed(disk, ip) ==
  LET root == At(NDIRECT, ip.addrs[NDIRECT])
  IN  Direct(ip) \cup root \cup Words(disk, root) \cup Deep(disk, ip) \cup At(NDIRECT + 2, ip.t_addr)

Blocks(S) == {c.block : c \in S}

\* bfree panics on a block that is free.
FreesOnce(disk, ip) ==
  LET S == Freed(disk, ip) IN
  /\ \A c, d \in S : c.block = d.block => c = d
  /\ Blocks(S) \subseteq disk.used

Itrunc(disk, ip) ==
  [disk |-> [disk EXCEPT !.used = @ \ Blocks(Freed(disk, ip))],
   ip |-> [ip EXCEPT !.addrs = NoAddrs, !.d_addr = 0, !.t_addr = 0]]

-----------------------------------------------------------------------------
(* What the tree of an inode is: the reference for both *)

Below(disk, S) == (UNION {{disk.data[b][e] : e \in Entry} : b \in S}) \ {0}

Single(ip) == {ip.addrs[NDIRECT]} \ {0}
Double(ip) == {ip.d_addr} \ {0}
Triple(ip) == {ip.t_addr} \ {0}

DataBlocks(disk, ip) ==
  LET D == Below(disk, Double(ip))
      T == Below(disk, Below(disk, Triple(ip)))
  IN  ({ip.addrs[i] : i \in 0 .. NDIRECT - 1} \ {0})
      \cup Below(disk, Single(ip)) \cup Below(disk, D) \cup Below(disk, T)

IndexBlocks(disk, ip) ==
  LET t == Below(disk, Triple(ip))
  IN  Single(ip) \cup Double(ip) \cup Below(disk, Double(ip))
      \cup Triple(ip) \cup t \cup Below(disk, t)

Tree(disk, ip) == DataBlocks(disk, ip) \cup IndexBlocks(disk, ip)
=============================================================================
