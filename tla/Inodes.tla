------------------------------- MODULE Inodes -------------------------------
(***************************************************************************)
(* Inodes of project03 (fs.c, sysfile.c, file.c): system calls that create,*)
(* open, link, unlink, write and close files of the root directory share   *)
(* the inode cache.  A step ends where a process may have to wait, or has  *)
(* let go of a lock that others want.  Transactions are left to Log.       *)
(***************************************************************************)
EXTENDS BlockMap, FiniteSets

CONSTANTS
  Proc, Name,  \* processes; names in the root directory
  NINUM,       \* inodes of the disk
  NINODE,      \* entries of the inode cache
  Data,        \* words that programs write
  MaxSize,     \* a bound of the model: blocks of a file
  Calls        \* what programs do, besides create, open and write

ASSUME InodesAssumption ==
  /\ NINUM \in Nat \ {0} /\ NINODE \in Nat \ {0} /\ MaxSize \in 0 .. MAXFILE
  /\ Data \subseteq Word /\ Calls \subseteq {"close", "link", "unlink", "full"}
  /\ IsFiniteSet(Proc) /\ IsFiniteSet(Name) /\ 0 \notin Proc

Inum == 1 .. NINUM
Slot == 1 .. NINODE
NULL == 0
T_FILE == 2

\* struct dinode, without the device numbers; sizes in blocks.
Dinode == [type : {0, T_FILE}, nlink : Nat, size : Nat,
           addrs : [0 .. NDIRECT -> Word], d_addr : Word, t_addr : Word]
NewDinode(type) ==
  [type |-> type, nlink |-> 0, size |-> 0,
   addrs |-> NoAddrs, d_addr |-> 0, t_addr |-> 0]

\* Where a process is: in user mode; about to lock the inode it opened, created,
\* linked or unlinked; with the directory or the inode of sys_link to lock next; in iput.
Places == {"user", "open", "create", "link", "dirlink", "bad", "unlink",
           "iput", "itrunc", "freed", "drop"}

VARIABLES
  disk, dinode,            \* bitmap and blocks; inodes on the disk
  dir,                     \* the root directory
  inum, ref, valid, inode, \* fields of icache.inode: inode is the copy of the dinode
  lock, dirlock,           \* holders of the sleep locks
  pc, ip, name,            \* where a process is, the entry it has, the new name
  fd                       \* the entry of its open file

store == <<disk, dinode, dir>>
cache == <<inum, ref, valid, inode, lock>>
vars  == <<store, cache, dirlock, pc, ip, name, fd>>

TypeOK ==
  /\ disk \in Disks /\ dinode \in [Inum -> Dinode]
  /\ dir \in [Name -> Inum \cup {NULL}]
  /\ inum \in [Slot -> Inum \cup {NULL}] /\ ref \in [Slot -> Nat]
  /\ valid \in [Slot -> BOOLEAN] /\ inode \in [Slot -> Dinode]
  /\ lock \in [Slot -> Proc \cup {NULL}] /\ dirlock \in Proc \cup {NULL}
  /\ pc \in [Proc -> Places] /\ ip \in [Proc -> Slot \cup {NULL}]
  /\ name \in [Proc -> Name \cup {NULL}] /\ fd \in [Proc -> Slot \cup {NULL}]

Init ==
  /\ disk = [used |-> {}, data |-> [b \in Block |-> Zeroes]]
  /\ dinode = [i \in Inum |-> NewDinode(0)]
  /\ dir = [n \in Name |-> NULL]
  /\ inum = [s \in Slot |-> NULL] /\ ref = [s \in Slot |-> 0]
  /\ valid = [s \in Slot |-> FALSE] /\ inode = [s \in Slot |-> NewDinode(0)]
  /\ lock = [s \in Slot |-> NULL] /\ dirlock = NULL
  /\ pc = [p \in Proc |-> "user"] /\ ip = [p \in Proc |-> NULL]
  /\ name = [p \in Proc |-> NULL] /\ fd = [p \in Proc |-> NULL]

-----------------------------------------------------------------------------
(* ialloc, iget, ilock, iupdate *)

Go(p, there) == pc' = [pc EXCEPT ![p] = there]

Cached(i) == {s \in Slot : ref[s] > 0 /\ inum[s] = i}
Empty     == {s \in Slot : ref[s] = 0}

IsFirst(s, S) == s \in S /\ \A t \in S : s <= t

\* Process p takes one more reference to entry s, or takes over s, which keeps what it
\* held but for valid.  Three mutants: a reference to an entry in use is not counted,
\* an entry taken over stays valid, and entries in use are not looked for.
ShareUncounted(p, s) ==
  /\ ip' = [ip EXCEPT ![p] = s]
  /\ UNCHANGED <<inum, ref, valid>>

Share(p, s) ==
  /\ ref' = [ref EXCEPT ![s] = @ + 1]
  /\ ip' = [ip EXCEPT ![p] = s]
  /\ UNCHANGED <<inum, valid>>

RecycleStillValid(p, s, i) ==
  /\ inum' = [inum EXCEPT ![s] = i]
  /\ ref' = [ref EXCEPT ![s] = 1]
  /\ ip' = [ip EXCEPT ![p] = s]
  /\ UNCHANGED valid

Recycle(p, s, i) ==
  /\ inum' = [inum EXCEPT ![s] = i]
  /\ ref' = [ref EXCEPT ![s] = 1]
  /\ valid' = [valid EXCEPT ![s] = FALSE]
  /\ ip' = [ip EXCEPT ![p] = s]

IgetAlwaysEmpty(p, i) == \E s \in Slot : IsFirst(s, Empty) /\ Recycle(p, s, i)

\* Process p gets a reference to inode i.  (Without an empty entry the kernel panics.)
Iget(p, i) ==
  \E s \in Slot :
    \/ IsFirst(s, Cached(i)) /\ Share(p, s)
    \/ Cached(i) = {} /\ IsFirst(s, Empty) /\ Recycle(p, s, i)

\* What ilock finds in entry s: read from the disk unless valid, but for d_addr
\* and t_addr, which ilock does not read, nor iupdate write.
Ilock(s) ==
  IF valid[s] THEN inode[s]
  ELSE [dinode[inum[s]] EXCEPT !.d_addr = inode[s].d_addr, !.t_addr = inode[s].t_addr]

\* iupdate of entry s, changed to x under its lock.
Iupdate(s, x) ==
  LET i == inum[s] IN
  /\ inode' = [inode EXCEPT ![s] = x]
  /\ dinode' = [dinode EXCEPT ![i] = [x EXCEPT !.d_addr = dinode[i].d_addr,
                                              !.t_addr = dinode[i].t_addr]]

\* Process p at a place where it locks its inode can do so.
Locks(p, there) == pc[p] = there /\ lock[ip[p]] = NULL

SetValid(s) == valid' = [valid EXCEPT ![s] = TRUE]

-----------------------------------------------------------------------------
(* open and create *)

User(p)      == pc[p] = "user"
Idle(p, call) == User(p) /\ call \in Calls

\* namei, or create of a name that is there: under the lock of the directory.
Open(p, n) ==
  /\ User(p) /\ fd[p] = NULL /\ dirlock = NULL /\ dir[n] # NULL
  /\ Iget(p, dir[n])
  /\ Go(p, "open")
  /\ UNCHANGED <<store, inode, lock, dirlock, name, fd>>

\* filealloc and fdalloc succeed, or the reference is put back.
FileAlloc(p) ==
  \/ /\ fd' = [fd EXCEPT ![p] = ip[p]]
     /\ ip' = [ip EXCEPT ![p] = NULL]
     /\ Go(p, "user")
  \/ /\ "full" \in Calls
     /\ Go(p, "iput")
     /\ UNCHANGED <<ip, fd>>

OpenDone(p) ==
  /\ Locks(p, "open")
  /\ inode' = [inode EXCEPT ![ip[p]] = Ilock(ip[p])]
  /\ SetValid(ip[p])
  /\ FileAlloc(p)
  /\ UNCHANGED <<store, inum, ref, lock, dirlock, name>>

\* create of a new name: ialloc marks the first free inode, with the directory locked.
\* (Without a free inode the kernel panics.)
Create(p, n) ==
  LET free == {i \in Inum : dinode[i].type = 0} IN
  /\ User(p) /\ fd[p] = NULL /\ dirlock = NULL /\ dir[n] = NULL /\ free # {}
  /\ dirlock' = p
  /\ dinode' = [dinode EXCEPT ![Min(free)] = NewDinode(T_FILE)]
  /\ Iget(p, Min(free))
  /\ name' = [name EXCEPT ![p] = n]
  /\ Go(p, "create")
  /\ UNCHANGED <<disk, dir, inode, lock, fd>>

CreateDone(p) ==
  /\ Locks(p, "create")
  /\ Iupdate(ip[p], [Ilock(ip[p]) EXCEPT !.nlink = 1])
  /\ SetValid(ip[p])
  /\ dir' = [dir EXCEPT ![name[p]] = inum[ip[p]]]
  /\ dirlock' = NULL
  /\ name' = [name EXCEPT ![p] = NULL]
  /\ FileAlloc(p)
  /\ UNCHANGED <<disk, inum, ref, lock>>

-----------------------------------------------------------------------------
(* write *)

\* writei of one block, at most at the end of the file.  (Without a free block the
\* kernel panics.)  iupdate follows only when the file grows.
Write(p, bn, w) ==
  LET s == fd[p]
      r == Bmap(disk, Ilock(s), bn)
      x == [r.ip EXCEPT !.size = bn + 1]
  IN
  /\ User(p) /\ fd[p] # NULL /\ lock[s] = NULL
  /\ bn <= Ilock(s).size /\ Cardinality(FreeBlocks(disk)) > Depth(bn)
  /\ disk' = [r.disk EXCEPT !.data[r.addr] = [e \in Entry |-> w]]
  /\ IF bn = Ilock(s).size
     THEN Iupdate(s, x)
     ELSE inode' = [inode EXCEPT ![s] = r.ip] /\ UNCHANGED dinode
  /\ SetValid(s)
  /\ UNCHANGED <<dir, inum, ref, lock, dirlock, pc, ip, name, fd>>

-----------------------------------------------------------------------------
(* link and unlink *)

Link(p, o, n) ==
  /\ Idle(p, "link") /\ dirlock = NULL /\ dir[o] # NULL
  /\ Iget(p, dir[o])
  /\ name' = [name EXCEPT ![p] = n]
  /\ Go(p, "link")
  /\ UNCHANGED <<store, inode, lock, dirlock, fd>>

\* nlink++ and iupdate.  A mutant: the link is not counted.
LinkCountsUnwritten(p) ==
  /\ Locks(p, "link")
  /\ inode' = [inode EXCEPT ![ip[p]] = Ilock(ip[p])]
  /\ SetValid(ip[p])
  /\ Go(p, "dirlink")
  /\ UNCHANGED <<store, inum, ref, lock, dirlock, ip, name, fd>>

LinkCounts(p) ==
  /\ Locks(p, "link")
  /\ Iupdate(ip[p], [Ilock(ip[p]) EXCEPT !.nlink = @ + 1])
  /\ SetValid(ip[p])
  /\ Go(p, "dirlink")
  /\ UNCHANGED <<disk, dir, inum, ref, lock, dirlock, ip, name, fd>>

\* dirlink.  The reference that it takes to an inode it finds is put back before
\* the directory is unlocked, and not the last: the entry counts as a link.
LinkEnters(p) ==
  /\ pc[p] = "dirlink" /\ dirlock = NULL
  /\ IF dir[name[p]] = NULL
     THEN dir' = [dir EXCEPT ![name[p]] = inum[ip[p]] ] /\ Go(p, "iput")
     ELSE Go(p, "bad") /\ UNCHANGED dir
  /\ name' = [name EXCEPT ![p] = NULL]
  /\ UNCHANGED <<disk, dinode, cache, dirlock, ip, fd>>

\* A mutant: the count of links is not taken back.
LinkUndoneKeepsCount(p) ==
  /\ Locks(p, "bad")
  /\ Go(p, "iput")
  /\ UNCHANGED <<store, cache, dirlock, ip, name, fd>>

LinkUndone(p) ==
  /\ Locks(p, "bad")
  /\ Iupdate(ip[p], [Ilock(ip[p]) EXCEPT !.nlink = @ - 1])
  /\ SetValid(ip[p])
  /\ Go(p, "iput")
  /\ UNCHANGED <<disk, dir, inum, ref, lock, dirlock, ip, name, fd>>

Unlink(p, n) ==
  /\ Idle(p, "unlink") /\ dirlock = NULL /\ dir[n] # NULL
  /\ dirlock' = p
  /\ Iget(p, dir[n])
  /\ name' = [name EXCEPT ![p] = n]
  /\ Go(p, "unlink")
  /\ UNCHANGED <<store, inode, lock, fd>>

UnlinkDone(p) ==
  /\ Locks(p, "unlink")
  /\ dir' = [dir EXCEPT ![name[p]] = NULL]
  /\ dirlock' = NULL
  /\ Iupdate(ip[p], [Ilock(ip[p]) EXCEPT !.nlink = @ - 1])
  /\ SetValid(ip[p])
  /\ name' = [name EXCEPT ![p] = NULL]
  /\ Go(p, "iput")
  /\ UNCHANGED <<disk, inum, ref, lock, ip, fd>>

-----------------------------------------------------------------------------
(* close and iput *)

Close(p) ==
  /\ Idle(p, "close") /\ fd[p] # NULL
  /\ ip' = [ip EXCEPT ![p] = fd[p]]
  /\ fd' = [fd EXCEPT ![p] = NULL]
  /\ Go(p, "iput")
  /\ UNCHANGED <<store, cache, dirlock, name>>

\* Is this the last reference to an inode without links?
\* A mutant: only the links are looked at.
IputAnyRef(p) ==
  LET s == ip[p] IN
  /\ Locks(p, "iput")
  /\ IF valid[s] /\ inode[s].nlink = 0
     THEN lock' = [lock EXCEPT ![s] = p] /\ Go(p, "itrunc")
     ELSE Go(p, "drop") /\ UNCHANGED lock
  /\ UNCHANGED <<store, inum, ref, valid, inode, dirlock, ip, name, fd>>

Iput(p) ==
  LET s == ip[p] IN
  /\ Locks(p, "iput")
  /\ IF valid[s] /\ inode[s].nlink = 0 /\ ref[s] = 1
     THEN lock' = [lock EXCEPT ![s] = p] /\ Go(p, "itrunc")
     ELSE Go(p, "drop") /\ UNCHANGED lock
  /\ UNCHANGED <<store, inum, ref, valid, inode, dirlock, ip, name, fd>>

\* itrunc, ip->type = 0 and iupdate.
IputFrees(p) ==
  LET s == ip[p]
      r == Itrunc(disk, inode[s])
  IN
  /\ pc[p] = "itrunc"
  /\ disk' = r.disk
  /\ Iupdate(s, [r.ip EXCEPT !.type = 0, !.size = 0])
  /\ Go(p, "freed")
  /\ UNCHANGED <<dir, inum, ref, valid, lock, dirlock, ip, name, fd>>

\* ip->valid = 0 and releasesleep.  A mutant: the entry stays valid.
IputUnlocksValid(p) ==
  /\ pc[p] = "freed"
  /\ lock' = [lock EXCEPT ![ip[p]] = NULL]
  /\ Go(p, "drop")
  /\ UNCHANGED <<store, inum, ref, valid, inode, dirlock, ip, name, fd>>

IputUnlocks(p) ==
  /\ pc[p] = "freed"
  /\ valid' = [valid EXCEPT ![ip[p]] = FALSE]
  /\ lock' = [lock EXCEPT ![ip[p]] = NULL]
  /\ Go(p, "drop")
  /\ UNCHANGED <<store, inum, ref, inode, dirlock, ip, name, fd>>

IputDrops(p) ==
  /\ pc[p] = "drop"
  /\ ref' = [ref EXCEPT ![ip[p]] = @ - 1]
  /\ ip' = [ip EXCEPT ![p] = NULL]
  /\ Go(p, "user")
  /\ UNCHANGED <<store, inum, valid, inode, lock, dirlock, name, fd>>

-----------------------------------------------------------------------------
Enter(p) ==
  \/ \E n \in Name : Open(p, n) \/ Create(p, n) \/ Unlink(p, n)
  \/ \E o, n \in Name : Link(p, o, n)
  \/ \E bn \in 0 .. MaxSize - 1, w \in Data : Write(p, bn, w)
  \/ Close(p)

Continue(p) ==
  \/ OpenDone(p) \/ CreateDone(p)
  \/ LinkCounts(p) \/ LinkEnters(p) \/ LinkUndone(p) \/ UnlinkDone(p)
  \/ Iput(p) \/ IputFrees(p) \/ IputUnlocks(p) \/ IputDrops(p)

Next == \E p \in Proc : Enter(p) \/ Continue(p)

Spec == Init /\ [][Next]_vars

-----------------------------------------------------------------------------
(* Safety *)

Holders(s) == {p \in Proc : ip[p] = s \/ fd[p] = s}

\* An inode has one entry in the cache, so that its lock excludes (fs.c:164).
OneEntry == \A s, t \in Slot : ref[s] > 0 /\ ref[t] > 0 /\ inum[s] = inum[t] => s = t

\* ref counts the pointers to the entry (fs.c:125), open files included.
RefsCounted ==
  \A s \in Slot : ref[s] = Cardinality({p \in Proc : ip[p] = s}) + Cardinality({p \in Proc : fd[p] = s})

\* nlink counts the names of the inode and the links under way.
LinksCounted ==
  \A i \in Inum : dinode[i].nlink =
    Cardinality({n \in Name : dir[n] = i})
    + Cardinality({p \in Proc : pc[p] \in {"dirlink", "bad"} /\ inum[ip[p]] = i})

\* A file with a name, or open, is not free on the disk, nor is it a new one's inode.
UsedLives ==
  /\ \A n \in Name : dir[n] # NULL => dinode[dir[n]].type = T_FILE
  /\ \A p \in Proc : fd[p] # NULL => dinode[inum[fd[p]]].type = T_FILE

\* The last reference to an inode without links frees it (fs.c:345): otherwise its
\* inode and its blocks are lost.
LastPutFrees ==
  \A i \in Inum : dinode[i].type = T_FILE =>
    dinode[i].nlink > 0 \/ \E s \in Slot : inum[s] = i /\ Holders(s) # {}

\* The cache is write-through (fs.c:221): a valid entry nobody has locked is as on disk.
WriteThrough ==
  \A s \in Slot : ref[s] > 0 /\ valid[s] /\ lock[s] = NULL => inode[s] = dinode[inum[s]]

\* ilock does not panic with "no type", nor unlink with "nlink < 1", nor bfree with
\* "freeing free block".
NoPanic ==
  \A p \in Proc :
    /\ pc[p] \in {"open", "create", "link", "bad", "unlink"} /\ lock[ip[p]] = NULL
         => Ilock(ip[p]).type # 0
    /\ pc[p] = "unlink" /\ lock[ip[p]] = NULL => Ilock(ip[p]).nlink > 0
    /\ pc[p] = "itrunc" => FreesOnce(disk, inode[ip[p]])

\* The inode as the file system sees it.
Current(i) == IF \E s \in Cached(i) : valid[s] THEN inode[CHOOSE s \in Cached(i) : valid[s]]
                                              ELSE dinode[i]

\* A block in use belongs to one inode, in one place of its tree, and a block that
\* belongs to an inode is in use.
BlocksOwned ==
  /\ disk.used = UNION {Tree(disk, Current(i)) : i \in Inum}
  /\ \A i, j \in Inum : i # j => Tree(disk, Current(i)) \cap Tree(disk, Current(j)) = {}
  /\ \A i \in Inum : DataBlocks(disk, Current(i)) \cap IndexBlocks(disk, Current(i)) = {}

\* Every block of a file below its size is there, each a block of its own.
NoHoles ==
  \A i \in Inum : Cardinality(DataBlocks(disk, Current(i))) = Current(i).size

\* Whatever the order of the calls, an inode in use has one entry, exact counts of its pointers
\* and of its names (fs.c:121), and is not free.
InodesCounted == OneEntry /\ RefsCounted /\ LinksCounted /\ UsedLives

\* Whatever the order of the calls, the cache, the disk and its bitmap agree, and nothing panics.
InodesRight == TypeOK /\ WriteThrough /\ NoPanic /\ BlocksOwned /\ NoHoles

-----------------------------------------------------------------------------
\* For TLC: processes are interchangeable, and names too.
Symmetry == Permutations(Proc) \cup Permutations(Name)
=============================================================================
