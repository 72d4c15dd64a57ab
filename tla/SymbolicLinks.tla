---------------------------- MODULE SymbolicLinks ----------------------------
(***************************************************************************)
(* Symbolic links (sysfile.c and fs.c of project03).  That an inode is a   *)
(* link, and where it leads, is known only to its entry in the cache: it   *)
(* is not written to the disk, and an entry that is used again for another *)
(* inode is not cleared.                                                   *)
(*                                                                         *)
(* All names are in one directory, and a step is a call or the part of it  *)
(* up to the lookup of another name.                                       *)
(***************************************************************************)
EXTENDS Naturals, FiniteSets

CONSTANTS
  Proc, Name,
  NINUM,    \* inodes of the disk, besides that of the directory
  NINODE,   \* entries of the cache, besides that of the directory
  MaxRef,   \* bounds of the model: references to an entry when a call that adds one begins,
  MaxBoots  \* and restarts

NULL == 0
Inum == 1 .. NINUM
Slot == 1 .. NINODE

SymbolicLinksAssumption ==
  /\ NINUM \in Nat /\ NINODE \in Nat /\ MaxRef \in Nat
  /\ MaxBoots \in Nat /\ NULL \notin Name

VARIABLES
  dir,         \* the directory
  type, nlink, \* the inodes on the disk
  cache,       \* the entries of icache
  pc, arg,     \* where a call is, and the names it has still to use
  fd,          \* an open file of each process
  links,       \* for the properties: the links made since the last start
  boots,
  panicked     \* no entry was free, or the kernel used the inode that create did not give

disk == <<dir, type, nlink>>
vars == <<disk, cache, pc, arg, fd, links, boots, panicked>>

Unused == [inum |-> NULL, ref |-> 0, symbolic |-> FALSE, path |-> NULL]
Closed == [slot |-> NULL, w |-> FALSE, followed |-> FALSE]

NoCalls == [p \in Proc |-> <<NULL, NULL>>]
NoFiles == [p \in Proc |-> Closed]
Users   == [p \in Proc |-> "user"]
NoLinks == [i \in Inum |-> NULL]
Clear   == [s \in Slot |-> Unused]

Init ==
  /\ dir = [n \in Name |-> NULL]
  /\ type = [i \in Inum |-> "free"] /\ nlink = [i \in Inum |-> 0]
  /\ cache = Clear /\ pc = Users /\ arg = NoCalls /\ fd = NoFiles /\ links = NoLinks
  /\ boots = 0 /\ panicked = FALSE

-----------------------------------------------------------------------------
(* The cache *)

InUse(i) == {s \in Slot : cache[s].ref > 0 /\ cache[s].inum = i}
Empty == {s \in Slot : cache[s].ref = 0}

\* iget: the entry of inode i, or the first that is not in use; its flag is left as it was.
Iget(i) ==
  IF InUse(i) # {} THEN CHOOSE s \in InUse(i) : TRUE
  ELSE CHOOSE s \in Empty : \A t \in Empty : s <= t
Got(i) == [cache EXCEPT ![Iget(i)].inum = i, ![Iget(i)].ref = @ + 1]
\* The lookup alone, when the inode is put again.
Looked(i) == [cache EXCEPT ![Iget(i)].inum = i]

Fits(i) == InUse(i) # {} \/ Empty # {}

Alive(p) == ~panicked /\ pc[p] = "user"
Bounded == \A s \in Slot : cache[s].ref < MaxRef
Panic == panicked' = TRUE /\ UNCHANGED <<disk, cache, pc, arg, fd, links, boots>>

\* The call of p is over, or goes on at there with names a.
Go(p, there, a) == pc' = [pc EXCEPT ![p] = there] /\ arg' = [arg EXCEPT ![p] = a]

\* create of a file under name n: the inode there, or a free one.
Made(n) == IF dir[n] # NULL THEN dir[n]
           ELSE CHOOSE i \in Inum : type[i] = "free" /\ \A j \in Inum : type[j] = "free" => i <= j
CanMake(n) == dir[n] # NULL \/ \E i \in Inum : type[i] = "free"

Enters(n, i, t) ==
  /\ dir' = [dir EXCEPT ![n] = i]
  /\ type' = [type EXCEPT ![i] = t]
  /\ nlink' = [nlink EXCEPT ![i] = 1]
Create(n) == IF dir[n] = NULL THEN Enters(n, Made(n), "file") ELSE UNCHANGED disk

-----------------------------------------------------------------------------
(* open *)

\* The inode i, with its entry s referred to, is opened; or the path of a link is to be looked
\* up, and the entry of the link is not put.
Opened(p, s, w) ==
  IF cache[s].symbolic THEN Go(p, IF w THEN "follow" ELSE "followr", <<cache[s].path, NULL>>) /\ UNCHANGED fd
  ELSE fd' = [fd EXCEPT ![p] = [slot |-> s, w |-> w, followed |-> FALSE]] /\ UNCHANGED <<pc, arg>>

\* A mutant: a directory is opened to be written.
OpenAny(p, n, w) ==
  LET i == dir[n] IN
  /\ Alive(p) /\ Bounded /\ fd[p] = Closed /\ i # NULL
  /\ IF ~Fits(i) THEN Panic
     ELSE /\ cache' = Got(i) /\ Opened(p, Iget(i), w)
          /\ UNCHANGED <<disk, links, boots, panicked>>

Open(p, n, w) ==
  LET i == dir[n] IN
  /\ Alive(p) /\ Bounded /\ fd[p] = Closed /\ i # NULL
  /\ IF ~Fits(i) THEN Panic
     ELSE /\ IF type[i] = "dir" /\ w THEN cache' = Looked(i) /\ UNCHANGED <<pc, arg, fd>>
             ELSE cache' = Got(i) /\ Opened(p, Iget(i), w)
          /\ UNCHANGED <<disk, links, boots, panicked>>

OpenCreate(p, n) ==
  /\ Alive(p) /\ Bounded /\ fd[p] = Closed /\ CanMake(n)
  /\ LET i == Made(n) IN
     IF ~Fits(i) THEN Panic
     ELSE /\ IF type[i] = "dir" THEN cache' = Looked(i) /\ UNCHANGED <<disk, pc, arg, fd>>
             ELSE Create(n) /\ cache' = Got(i) /\ Opened(p, Iget(i), TRUE)
          /\ UNCHANGED <<links, boots, panicked>>

\* Where the link leads: whatever is there is opened, as it is; and if nothing is, open gives 0.
Follow(p) ==
  LET i == dir[arg[p][1]]
      w == pc[p] = "follow"
  IN
  /\ ~panicked /\ pc[p] \in {"follow", "followr"}
  /\ IF i # NULL /\ ~Fits(i) THEN Panic
     ELSE /\ Go(p, "user", <<NULL, NULL>>)
          /\ IF i = NULL THEN UNCHANGED <<cache, fd>>
             ELSE cache' = Got(i) /\ fd' = [fd EXCEPT ![p] = [slot |-> Iget(i), w |-> w, followed |-> TRUE]]
          /\ UNCHANGED <<disk, links, boots, panicked>>

\* iput: an inode without links that nobody else refers to is freed.
Close(p) ==
  LET s == fd[p].slot
      i == cache[s].inum
  IN
  /\ Alive(p) /\ fd[p] # Closed
  /\ fd' = [fd EXCEPT ![p] = Closed]
  /\ cache' = [cache EXCEPT ![s].ref = @ - 1]
  /\ type' = [type EXCEPT ![i] = IF nlink[i] = 0 /\ cache[s].ref = 1 THEN "free" ELSE @]
  /\ UNCHANGED <<dir, nlink, pc, arg, links, boots, panicked>>

-----------------------------------------------------------------------------
(* symbolic_link *)

\* The old name must be there, and not a directory.  It is referred to from now on.
Symlink(p, old, new) ==
  LET i == dir[old] IN
  /\ Alive(p) /\ Bounded /\ i # NULL
  /\ IF ~Fits(i) THEN Panic
     ELSE /\ IF type[i] = "dir" THEN cache' = Looked(i) /\ UNCHANGED <<pc, arg>>
             ELSE cache' = Got(i) /\ Go(p, "symlink", <<old, new>>)
          /\ UNCHANGED <<disk, fd, links, boots, panicked>>

\* A mutant: the entry is put, as after other calls.
SymlinkPuts(p) ==
  LET new == arg[p][2]
      i == Made(new)
  IN
  /\ ~panicked /\ pc[p] = "symlink" /\ CanMake(new)
  /\ IF ~Fits(i) \/ type[i] = "dir" THEN Panic
     ELSE /\ Create(new)
          /\ cache' = [cache EXCEPT ![Iget(i)].inum = i, ![Iget(i)].symbolic = TRUE, ![Iget(i)].path = arg[p][1]]
          /\ links' = [links EXCEPT ![i] = arg[p][1]]
          /\ Go(p, "user", <<NULL, NULL>>)
          /\ UNCHANGED <<fd, boots, panicked>>

\* The new name becomes a link, even if it is a file already; and its entry stays referred to.
SymlinkMakes(p) ==
  LET new == arg[p][2]
      i == Made(new)
  IN
  /\ ~panicked /\ pc[p] = "symlink" /\ CanMake(new)
  /\ IF ~Fits(i) \/ type[i] = "dir" THEN Panic
     ELSE /\ Create(new)
          /\ cache' = [Got(i) EXCEPT ![Iget(i)].symbolic = TRUE, ![Iget(i)].path = arg[p][1]]
          /\ links' = [links EXCEPT ![i] = arg[p][1]]
          /\ Go(p, "user", <<NULL, NULL>>)
          /\ UNCHANGED <<fd, boots, panicked>>

-----------------------------------------------------------------------------
(* link, unlink, mkdir, and a restart *)

Link(p, old, new) ==
  LET i == dir[old] IN
  /\ Alive(p) /\ i # NULL /\ Fits(i) /\ type[i] # "dir" /\ dir[new] = NULL
  /\ dir' = [dir EXCEPT ![new] = i] /\ nlink' = [nlink EXCEPT ![i] = @ + 1]
  /\ cache' = Looked(i)
  /\ UNCHANGED <<type, pc, arg, fd, links, boots, panicked>>

Unlink(p, n) ==
  LET i == dir[n] IN
  /\ Alive(p) /\ i # NULL /\ Fits(i)
  /\ dir' = [dir EXCEPT ![n] = NULL] /\ nlink' = [nlink EXCEPT ![i] = @ - 1]
  /\ type' = [type EXCEPT ![i] = IF nlink[i] = 1 /\ InUse(i) = {} THEN "free" ELSE @]
  /\ cache' = Looked(i)
  /\ UNCHANGED <<pc, arg, fd, links, boots, panicked>>

Mkdir(p, n) ==
  /\ Alive(p) /\ dir[n] = NULL /\ CanMake(n) /\ Empty # {}
  /\ Enters(n, Made(n), "dir") /\ cache' = Looked(Made(n))
  /\ UNCHANGED <<pc, arg, fd, links, boots, panicked>>

\* The disk is what is left, and the memory is clear.  (A restart in the middle of a call is
\* one before it: the log, which is in Log, loses what was done since.)
Restart ==
  /\ boots < MaxBoots /\ pc = Users
  /\ boots' = boots + 1
  /\ cache' = Clear /\ fd' = NoFiles /\ links' = NoLinks
  /\ panicked' = FALSE /\ UNCHANGED <<disk, pc, arg>>

Next ==
  \/ Restart
  \/ \E p \in Proc :
       \/ Follow(p) \/ Close(p) \/ SymlinkMakes(p)
       \/ \E n \in Name :
            \/ \E w \in BOOLEAN : Open(p, n, w)
            \/ OpenCreate(p, n) \/ Unlink(p, n) \/ Mkdir(p, n)
            \/ \E m \in Name : Symlink(p, n, m) \/ Link(p, n, m)

Spec == Init /\ [][Next]_vars

-----------------------------------------------------------------------------
\* The inodes that count as links are those that symbolic_link made, each with its path: no
\* link forgets that it is one, and no other inode gets the entry of a link.  That holds only
\* because symbolic_link never puts its reference, so that the entry is never used again.
LinksKept ==
  \A i \in Inum :
    LET at == {s \in InUse(i) : cache[s].symbolic} IN
    /\ links[i] # NULL => Cardinality(at) = 1
    /\ \A s \in at : cache[s].path = links[i]

\* No descriptor can write a directory, unless it was got through a link.
DirectoriesReadOnly ==
  \A p \in Proc : fd[p].w /\ ~fd[p].followed => type[cache[fd[p].slot].inum] # "dir"
=============================================================================
