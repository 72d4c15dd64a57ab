---------------------------- MODULE InodesProofs ----------------------------
(***************************************************************************)
(* Proofs about the inode cache of project03: an inode has one entry,      *)
(* references are counted as pointers and links as names, and what has a   *)
(* name or is open is neither freed nor given out.                         *)
(*                                                                         *)
(* The second half is about the blocks of files: bmap, itrunc and iupdate  *)
(* keep every block in use in one place of one inode, a file whole, and    *)
(* what the cache says of it what the disk says, as long as no file is     *)
(* larger than the single indirect block holds.                            *)
(***************************************************************************)
EXTENDS Inodes, Integers, FiniteSetTheorems, WellFoundedInduction, TLAPS

-----------------------------------------------------------------------------
(* How many references and links there are.                                *)

Count(S, f, v) == Cardinality({x \in S : f[x] = v})
One(b) == IF b THEN 1 ELSE 0

\* g is f but for one place.
Moves(S, f, g, p) == p \in S /\ \A q \in S : q # p => g[q] = f[q]

\* The inode whose count of links process p has changed, or will change back.
Linking == [p \in Proc |-> IF pc[p] \in {"dirlink", "bad"} THEN inum[ip[p]] ELSE NULL]

\* An inode has the fields of struct dinode, whatever is in those that say where its blocks are.
IsCopy(x) ==
  x \in [type : {0, T_FILE}, nlink : Nat, size : {x.size},
         addrs : {x.addrs}, d_addr : {x.d_addr}, t_addr : {x.t_addr}]

Typed ==
  /\ dir \in [Name -> Inum \cup {NULL}]
  /\ inum \in [Slot -> Inum \cup {NULL}] /\ ref \in [Slot -> Nat] /\ valid \in [Slot -> BOOLEAN]
  /\ lock \in [Slot -> Proc \cup {NULL}] /\ dirlock \in Proc \cup {NULL}
  /\ pc \in [Proc -> Places] /\ ip \in [Proc -> Slot \cup {NULL}]
  /\ fd \in [Proc -> Slot \cup {NULL}] /\ name = [p \in Proc |-> name[p]]
  /\ inode = [s \in Slot |-> inode[s]] /\ dinode = [i \in Inum |-> dinode[i]]
  /\ \A s \in Slot : IsCopy(inode[s])
  /\ \A i \in Inum : IsCopy(dinode[i])

\* Where a process has an entry, a name, or an open file.
PlacesOK ==
  \A p \in Proc :
    /\ pc[p] = "user" <=> ip[p] = NULL
    /\ pc[p] \in {"open", "create"} => fd[p] = NULL
    /\ pc[p] \in {"create", "link", "dirlink", "unlink"} => name[p] \in Name

\* An entry in use is that of one inode.
EntriesOK == OneEntry /\ \A s \in Slot : ref[s] > 0 => inum[s] \in Inum

\* Whoever is in create or unlink has the directory, where the name is as it was found.
DirOK ==
  \A p \in Proc :
    /\ pc[p] \in {"create", "unlink"} <=> dirlock = p
    /\ pc[p] = "create" => dir[name[p]] = NULL
    /\ pc[p] = "unlink" => dir[name[p]] = inum[ip[p]]

\* iput has the entry locked while it frees the inode.
FreeingLocks == \A p \in Proc : pc[p] \in {"itrunc", "freed"} => lock[ip[p]] = p

\* A valid entry, but for one whose inode is being freed, says what the disk says: a file.
Freeing(s) == \E p \in Proc : ip[p] = s /\ pc[p] = "freed"
CopyOK ==
  \A s \in Slot : ref[s] > 0 /\ valid[s] /\ ~Freeing(s) =>
    /\ inode[s].nlink = dinode[inum[s]].nlink
    /\ inode[s].type = T_FILE /\ dinode[inum[s]].type = T_FILE

\* What is in use is a file.
Using == {"open", "create", "link", "dirlink", "bad", "unlink", "iput", "itrunc"}
UsedOK ==
  /\ UsedLives
  /\ \A p \in Proc : pc[p] \in Using => dinode[inum[ip[p]]].type = T_FILE

\* A new inode has no name yet, and nobody else has it but to drop it.
CreateOK ==
  \A p \in Proc : pc[p] = "create" =>
    /\ dinode[inum[ip[p]]].nlink = 0
    /\ \A q \in Proc : (ip[q] = ip[p] /\ q # p => pc[q] \in {"freed", "drop"}) /\ fd[q] # ip[p]

\* An inode that is being freed has no name, and nobody else has it.
TruncOK ==
  \A p \in Proc : pc[p] = "itrunc" =>
    valid[ip[p]] /\ ref[ip[p]] = 1 /\ dinode[inum[ip[p]]].nlink = 0

IInv ==
  /\ Typed /\ PlacesOK /\ EntriesOK /\ RefsCounted /\ DirOK /\ FreeingLocks /\ CopyOK
  /\ LinksCounted /\ UsedOK /\ CreateOK /\ TruncOK

-----------------------------------------------------------------------------
(* Counting *)

\* A function that changes at one place moves one from the count of the old value to that
\* of the new one.
LEMMA CountMoves ==
  ASSUME NEW S, IsFiniteSet(S), NEW f, NEW g, NEW p, Moves(S, f, g, p), NEW v
  PROVE  /\ Count(S, f, v) \in Nat /\ Count(S, g, v) \in Nat
         /\ Count(S, g, v) + One(f[p] = v) = Count(S, f, v) + One(g[p] = v)
<1> DEFINE A == {x \in S : f[x] = v}
           B == {x \in S : g[x] = v}
<1>1. IsFiniteSet(A) /\ IsFiniteSet(B) BY FS_Subset
<1>2. A \ {p} = B \ {p} BY DEF Moves
<1>3. Cardinality(A) \in Nat /\ Cardinality(B) \in Nat BY <1>1, FS_CardinalityType
<1>4. Cardinality(A \ {p}) = IF p \in A THEN Cardinality(A) - 1 ELSE Cardinality(A)
  BY <1>1, FS_RemoveElement
<1>5. Cardinality(B \ {p}) = IF p \in B THEN Cardinality(B) - 1 ELSE Cardinality(B)
  BY <1>1, FS_RemoveElement
<1>6. (p \in A <=> f[p] = v) /\ (p \in B <=> g[p] = v) BY DEF Moves
<1>7. Count(S, f, v) = Cardinality(A) /\ Count(S, g, v) = Cardinality(B) BY DEF Count
<1> HIDE DEF A, B
<1> QED
  <2>1. One(f[p] = v) = (IF p \in A THEN 1 ELSE 0) /\ One(g[p] = v) = (IF p \in B THEN 1 ELSE 0)
    BY <1>6 DEF One
  <2> QED BY <1>2, <1>3, <1>4, <1>5, <1>7, <2>1

LEMMA CountSome ==
  ASSUME NEW S, IsFiniteSet(S), NEW f, NEW v
  PROVE  /\ Count(S, f, v) \in Nat
         /\ Count(S, f, v) = 0 <=> \A p \in S : f[p] # v
         /\ \A p, q \in S : f[p] = v /\ f[q] = v /\ p # q => Count(S, f, v) >= 2
<1> DEFINE A == {x \in S : f[x] = v}
<1>1. IsFiniteSet(A) BY FS_Subset
<1>2. Cardinality(A) \in Nat /\ (Cardinality(A) = 0 <=> A = {})
  BY <1>1, FS_CardinalityType, FS_EmptySet
<1>3. A = {} <=> \A p \in S : f[p] # v OBVIOUS
<1>4. ASSUME NEW p \in A, NEW q \in A, p # q PROVE Cardinality(A) >= 2
  <2>1. IsFiniteSet(A \ {p}) /\ Cardinality(A \ {p}) = Cardinality(A) - 1
    BY <1>1, <1>4, FS_RemoveElement
  <2>2. A \ {p} # {} BY <1>4
  <2>3. Cardinality(A \ {p}) # 0 /\ Cardinality(A \ {p}) \in Nat
    BY <2>1, <2>2, FS_EmptySet, FS_CardinalityType
  <2> HIDE DEF A
  <2> QED BY <1>2, <2>1, <2>3
<1>5. Count(S, f, v) = Cardinality(A) BY DEF Count
<1>6. \A p \in S : f[p] = v => p \in A OBVIOUS
<1> HIDE DEF A
<1> QED BY <1>2, <1>3, <1>4, <1>5, <1>6

\* The first of some numbers is one of them.
LEMMA FirstIn ==
  ASSUME NEW S \in SUBSET Nat, S # {}
  PROVE  Min(S) \in S
<1> DEFINE R == {xy \in Nat \X Nat : xy[1] < xy[2]}
<1>1. IsWellFoundedOn(R, Nat) BY NatLessThanWellFounded DEF OpToRel
<1>2. \A x, y \in Nat : <<y, x>> \notin R => x <= y OBVIOUS
<1> HIDE DEF R
<1>3. \E x \in S : \A y \in S : <<y, x>> \notin R BY <1>1, WFMin
<1>4. \E x \in S : \A y \in S : x <= y BY <1>2, <1>3
<1> QED BY <1>4 DEF Min

-----------------------------------------------------------------------------
(* What the counts say *)

LEMMA Finite ==
  /\ IsFiniteSet(Proc) /\ IsFiniteSet(Name) /\ NULL \notin Proc /\ NULL \notin Slot
  /\ NULL \notin Inum /\ NINUM \in Nat /\ NINODE \in Nat
BY InodesAssumption DEF NULL, Slot, Inum

\* Who has an entry has counted it, and two who have it have counted it twice.
LEMMA Counted ==
  ASSUME Typed, RefsCounted
  PROVE  /\ \A s \in Slot : ref[s] = Count(Proc, ip, s) + Count(Proc, fd, s)
         /\ \A p \in Proc, s \in Slot : ip[p] = s \/ fd[p] = s => ref[s] > 0
         /\ \A p, q \in Proc, s \in Slot :
              /\ ip[p] = s /\ fd[q] = s => ref[s] > 1
              /\ ip[p] = s /\ ip[q] = s /\ p # q => ref[s] > 1
<1>1. \A s \in Slot : ref[s] = Count(Proc, ip, s) + Count(Proc, fd, s)
  BY DEF RefsCounted, Count
<1>2. ASSUME NEW s \in Slot
      PROVE  /\ Count(Proc, ip, s) \in Nat /\ Count(Proc, fd, s) \in Nat
             /\ Count(Proc, ip, s) = 0 <=> \A p \in Proc : ip[p] # s
             /\ Count(Proc, fd, s) = 0 <=> \A p \in Proc : fd[p] # s
             /\ \A p, q \in Proc : ip[p] = s /\ ip[q] = s /\ p # q => Count(Proc, ip, s) >= 2
  BY Finite, CountSome
<1> QED BY <1>1, <1>2

\* An inode whose links are counted as none has no name, and no link is under way to it.
LEMMA Unlinked ==
  ASSUME Typed, LinksCounted
  PROVE  \A i \in Inum :
           /\ dinode[i].nlink = Count(Name, dir, i) + Count(Proc, Linking, i)
           /\ dinode[i].nlink = 0 =>
                /\ \A n \in Name : dir[n] # i
                /\ \A p \in Proc : Linking[p] # i
           /\ (\E n \in Name : dir[n] = i) => dinode[i].nlink > 0
           /\ (\A n \in Name : dir[n] # i) /\ (\A p \in Proc : Linking[p] # i) => dinode[i].nlink = 0
<1> SUFFICES ASSUME NEW i \in Inum
             PROVE  /\ dinode[i].nlink = Count(Name, dir, i) + Count(Proc, Linking, i)
                    /\ dinode[i].nlink = 0 =>
                         /\ \A n \in Name : dir[n] # i
                         /\ \A p \in Proc : Linking[p] # i
                    /\ (\E n \in Name : dir[n] = i) => dinode[i].nlink > 0
                    /\ (\A n \in Name : dir[n] # i) /\ (\A p \in Proc : Linking[p] # i)
                         => dinode[i].nlink = 0
  OBVIOUS
<1>1. {p \in Proc : Linking[p] = i} = {p \in Proc : pc[p] \in {"dirlink", "bad"} /\ inum[ip[p]] = i}
  BY Finite DEF Linking
<1>2. dinode[i].nlink = Count(Name, dir, i) + Count(Proc, Linking, i)
  BY <1>1 DEF LinksCounted, Count
<1>3. /\ Count(Name, dir, i) \in Nat /\ Count(Proc, Linking, i) \in Nat
      /\ Count(Name, dir, i) = 0 <=> \A n \in Name : dir[n] # i
      /\ Count(Proc, Linking, i) = 0 <=> \A p \in Proc : Linking[p] # i
  BY Finite, CountSome
<1> HIDE DEF Linking
<1> QED BY <1>2, <1>3

\* LinksCounted in terms of Linking, after a step.
LEMMA LinksAre ==
  ASSUME \A i \in Inum : dinode'[i].nlink = Count(Name, dir', i) + Count(Proc, Linking', i)
  PROVE  LinksCounted'
<1> SUFFICES ASSUME NEW i \in Inum
             PROVE  Count(Proc, Linking', i)
                    = Cardinality({p \in Proc : pc'[p] \in {"dirlink", "bad"} /\ inum'[ip'[p]] = i})
  BY DEF LinksCounted, Count
<1>1. {p \in Proc : Linking'[p] = i} = {p \in Proc : pc'[p] \in {"dirlink", "bad"} /\ inum'[ip'[p]] = i}
  BY Finite DEF Linking
<1> QED BY <1>1 DEF Count

-----------------------------------------------------------------------------
(* What the functions of fs.c do to an inode *)

LEMMA BmapKeeps ==
  ASSUME NEW x, IsCopy(x), NEW bn \in 0 .. MaxSize - 1
  PROVE  LET y == Bmap(disk, x, bn).ip IN IsCopy(y) /\ y.type = x.type /\ y.nlink = x.nlink
<1> DEFINE y == Bmap(disk, x, bn).ip
           Keeps(z) == IsCopy(z) /\ z.type = x.type /\ z.nlink = x.nlink
<1>1. ASSUME NEW a, NEW b
      PROVE  /\ Keeps([x EXCEPT !.addrs[b] = a])
             /\ Keeps([x EXCEPT !.d_addr = a]) /\ Keeps([x EXCEPT !.t_addr = a])
  BY DEF IsCopy
<1>2. ASSUME Depth(bn) = 0 PROVE Keeps(y)
  <2>1. y = [x EXCEPT !.addrs[bn] = AtRoot(disk, x.addrs[bn]).addr] BY <1>2 DEF Bmap
  <2> HIDE DEF y, Keeps
  <2> QED BY <1>1, <2>1
<1>3. ASSUME Depth(bn) = 1 PROVE Keeps(y)
  <2>1. y = [x EXCEPT !.addrs[NDIRECT] = AtRoot(disk, x.addrs[NDIRECT]).addr] BY <1>3 DEF Bmap
  <2> HIDE DEF y, Keeps
  <2> QED BY <1>1, <2>1
<1>4. ASSUME Depth(bn) = 2 PROVE Keeps(y)
  <2>1. y = [x EXCEPT !.d_addr = AtRoot(disk, x.d_addr).addr] BY <1>4 DEF Bmap
  <2> HIDE DEF y, Keeps
  <2> QED BY <1>1, <2>1
<1>5. ASSUME Depth(bn) = 3 PROVE Keeps(y)
  <2>1. y = [x EXCEPT !.t_addr = AtRoot(disk, x.t_addr).addr] BY <1>5 DEF Bmap
  <2> HIDE DEF y, Keeps
  <2> QED BY <1>1, <2>1
<1>6. Depth(bn) \in 0 .. 3 BY DEF Depth
<1>7. Keeps(y)
  <2> HIDE DEF y, Keeps
  <2> QED BY <1>2, <1>3, <1>4, <1>5, <1>6
<1> QED BY <1>7 DEF Keeps

LEMMA ItruncKeeps ==
  ASSUME NEW x, IsCopy(x)
  PROVE  LET y == [Itrunc(disk, x).ip EXCEPT !.type = 0, !.size = 0]
         IN IsCopy(y) /\ y.type = 0 /\ y.nlink = x.nlink
BY DEF IsCopy, Itrunc

\* iupdate changes one entry and its inode on the disk.
LEMMA IupdateFacts ==
  ASSUME Typed, NEW s \in Slot, inum[s] \in Inum, NEW x, IsCopy(x), Iupdate(s, x)
  PROVE  /\ inode' = [inode EXCEPT ![s] = x]
         /\ inode' = [t \in Slot |-> inode'[t]] /\ dinode' = [i \in Inum |-> dinode'[i]]
         /\ \A t \in Slot : IsCopy(inode'[t]) /\ (t # s => inode'[t] = inode[t])
         /\ inode'[s] = x
         /\ \A i \in Inum : IsCopy(dinode'[i]) /\ (i # inum[s] => dinode'[i] = dinode[i])
         /\ dinode'[inum[s]].type = x.type /\ dinode'[inum[s]].nlink = x.nlink
<1>1. inode' = [inode EXCEPT ![s] = x] BY DEF Iupdate
<1> DEFINE i == inum[s]
           y == [x EXCEPT !.d_addr = dinode[i].d_addr, !.t_addr = dinode[i].t_addr]
<1>2. dinode' = [dinode EXCEPT ![i] = y] BY DEF Iupdate
<1>3. IsCopy(y) /\ y.type = x.type /\ y.nlink = x.nlink BY DEF IsCopy
<1>4. inode = [t \in Slot |-> inode[t]] /\ dinode = [j \in Inum |-> dinode[j]] BY DEF Typed
<1>5. (\A t \in Slot : IsCopy(inode[t])) /\ \A j \in Inum : IsCopy(dinode[j]) BY DEF Typed
<1> HIDE DEF y
<1> QED BY <1>1, <1>2, <1>3, <1>4, <1>5

-----------------------------------------------------------------------------
(* Consequences of the invariant *)

\* What processes have is in use.
LEMMA Held ==
  ASSUME Typed, RefsCounted, EntriesOK
  PROVE  /\ \A p \in Proc : ip[p] # NULL => ip[p] \in Slot /\ ref[ip[p]] > 0 /\ inum[ip[p]] \in Inum
         /\ \A p \in Proc : fd[p] # NULL => fd[p] \in Slot /\ ref[fd[p]] > 0 /\ inum[fd[p]] \in Inum
<1>1. \A p \in Proc : ip[p] \in Slot \cup {NULL} /\ fd[p] \in Slot \cup {NULL} BY DEF Typed
<1> QED BY <1>1, Counted DEF EntriesOK

\* An entry that is not locked is not being freed: ilock finds what the disk says of it.
LEMMA IlockFinds ==
  ASSUME Typed, FreeingLocks, CopyOK, NEW s \in Slot, ref[s] > 0, inum[s] \in Inum, lock[s] = NULL,
         dinode[inum[s]].type = T_FILE
  PROVE  /\ ~Freeing(s) /\ IsCopy(Ilock(s))
         /\ Ilock(s).type = T_FILE /\ Ilock(s).nlink = dinode[inum[s]].nlink
<1>1. ~Freeing(s) BY Finite DEF Freeing, FreeingLocks
<1>2. IsCopy(inode[s]) /\ IsCopy(dinode[inum[s]]) BY DEF Typed
<1>3. CASE valid[s] BY <1>1, <1>2, <1>3 DEF Ilock, CopyOK
<1>4. CASE ~valid[s]
  <2>1. Ilock(s) = [dinode[inum[s]] EXCEPT !.d_addr = inode[s].d_addr, !.t_addr = inode[s].t_addr]
    BY <1>4 DEF Ilock
  <2> QED BY <1>1, <1>2, <2>1 DEF IsCopy
<1> QED BY <1>3, <1>4

-----------------------------------------------------------------------------
(* Counts that change *)

\* One process changes what it has, and its entries count the difference.
LEMMA RefsChange ==
  ASSUME Typed, RefsCounted, NEW p \in Proc, ref' \in [Slot -> Nat],
         \A q \in Proc : q # p => ip'[q] = ip[q] /\ fd'[q] = fd[q],
         \A s \in Slot : ref'[s] + One(ip[p] = s) + One(fd[p] = s)
                           = ref[s] + One(ip'[p] = s) + One(fd'[p] = s)
  PROVE  RefsCounted'
<1> SUFFICES ASSUME NEW s \in Slot PROVE ref'[s] = Count(Proc, ip', s) + Count(Proc, fd', s)
  BY DEF RefsCounted, Count
<1> Moves(Proc, ip, ip', p) /\ Moves(Proc, fd, fd', p) BY DEF Moves
<1>1. ref[s] = Count(Proc, ip, s) + Count(Proc, fd, s) BY Counted
<1>2. /\ Count(Proc, ip, s) \in Nat /\ Count(Proc, ip', s) \in Nat
      /\ Count(Proc, ip', s) + One(ip[p] = s) = Count(Proc, ip, s) + One(ip'[p] = s)
  BY Finite, CountMoves
<1>3. /\ Count(Proc, fd, s) \in Nat /\ Count(Proc, fd', s) \in Nat
      /\ Count(Proc, fd', s) + One(fd[p] = s) = Count(Proc, fd, s) + One(fd'[p] = s)
  BY Finite, CountMoves
<1>4. ref[s] \in Nat /\ ref'[s] \in Nat BY DEF Typed
<1> QED BY <1>1, <1>2, <1>3, <1>4 DEF One

\* One name and one link under way change, and inodes count the difference.
LEMMA LinksChange ==
  ASSUME Typed, LinksCounted, NEW p \in Proc, NEW n \in Name,
         \A i \in Inum : dinode'[i].nlink \in Nat,
         \A m \in Name : m # n => dir'[m] = dir[m],
         \A q \in Proc : q # p => Linking'[q] = Linking[q],
         \A i \in Inum : dinode'[i].nlink + One(dir[n] = i) + One(Linking[p] = i)
                           = dinode[i].nlink + One(dir'[n] = i) + One(Linking'[p] = i)
  PROVE  LinksCounted'
<1> Moves(Name, dir, dir', n) /\ Moves(Proc, Linking, Linking', p) BY DEF Moves
<1>1. ASSUME NEW i \in Inum
      PROVE  dinode'[i].nlink = Count(Name, dir', i) + Count(Proc, Linking', i)
  <2>1. dinode[i].nlink = Count(Name, dir, i) + Count(Proc, Linking, i) BY Unlinked
  <2>2. /\ Count(Name, dir, i) \in Nat /\ Count(Name, dir', i) \in Nat
        /\ Count(Name, dir', i) + One(dir[n] = i) = Count(Name, dir, i) + One(dir'[n] = i)
    BY Finite, CountMoves
  <2>3. /\ Count(Proc, Linking, i) \in Nat /\ Count(Proc, Linking', i) \in Nat
        /\ Count(Proc, Linking', i) + One(Linking[p] = i)
             = Count(Proc, Linking, i) + One(Linking'[p] = i)
    BY Finite, CountMoves
  <2>4. dinode[i].nlink \in Nat /\ dinode'[i].nlink \in Nat BY DEF Typed, IsCopy
  <2> HIDE DEF Linking
  <2> QED BY <2>1, <2>2, <2>3, <2>4 DEF One
<1> QED BY <1>1, LinksAre

\* The names stay.
LEMMA LinksStay ==
  ASSUME Typed, LinksCounted, NEW p \in Proc, dir' = dir,
         \A i \in Inum : dinode'[i].nlink \in Nat,
         \A q \in Proc : q # p => Linking'[q] = Linking[q],
         \A i \in Inum : dinode'[i].nlink + One(Linking[p] = i) = dinode[i].nlink + One(Linking'[p] = i)
  PROVE  LinksCounted'
<1> Moves(Proc, Linking, Linking', p) BY DEF Moves
<1>1. ASSUME NEW i \in Inum
      PROVE  dinode'[i].nlink = Count(Name, dir', i) + Count(Proc, Linking', i)
  <2>1. dinode[i].nlink = Count(Name, dir, i) + Count(Proc, Linking, i) BY Unlinked
  <2>2. Count(Name, dir, i) \in Nat BY Finite, CountSome
  <2>3. /\ Count(Proc, Linking, i) \in Nat /\ Count(Proc, Linking', i) \in Nat
        /\ Count(Proc, Linking', i) + One(Linking[p] = i)
             = Count(Proc, Linking, i) + One(Linking'[p] = i)
    BY Finite, CountMoves
  <2>4. dinode[i].nlink \in Nat /\ dinode'[i].nlink \in Nat BY DEF Typed, IsCopy
  <2> HIDE DEF Linking
  <2> QED BY <2>1, <2>2, <2>3, <2>4 DEF One
<1> QED BY <1>1, LinksAre

-----------------------------------------------------------------------------
(* Taking a reference *)

\* Process p has got a reference to inode i in entry s.
Got(p, i, s) ==
  /\ ip' = [ip EXCEPT ![p] = s]
  /\ ref' = [ref EXCEPT ![s] = @ + 1]
  /\ inum' = [inum EXCEPT ![s] = i]
  /\ valid' \in [Slot -> BOOLEAN]
  /\ \A t \in Slot : /\ valid'[t] => valid[t] /\ (t = s => ref[s] > 0)
                     /\ ref[t] > 0 => (valid'[t] <=> valid[t])
  /\ IF ref[s] > 0 THEN inum[s] = i ELSE \A t \in Slot : ref[t] > 0 => inum[t] # i

LEMMA IgetFacts ==
  ASSUME Typed, NEW p \in Proc, NEW i \in Inum, Iget(p, i)
  PROVE  \E s \in Slot : Got(p, i, s)
<1>1. PICK s \in Slot :
        \/ IsFirst(s, Cached(i)) /\ Share(p, s)
        \/ Cached(i) = {} /\ IsFirst(s, Empty) /\ Recycle(p, s, i)
  BY DEF Iget
<1>2. /\ inum = [t \in Slot |-> inum[t]] /\ valid \in [Slot -> BOOLEAN] /\ ref \in [Slot -> Nat]
      /\ inum \in [Slot -> Inum \cup {NULL}]
  BY DEF Typed
<1>3. CASE IsFirst(s, Cached(i)) /\ Share(p, s)
  <2>1. s \in Cached(i) BY <1>3 DEF IsFirst
  <2>2. ref[s] > 0 /\ inum[s] = i BY <2>1 DEF Cached
  <2> QED BY <1>2, <1>3, <2>2 DEF Share, Got
<1>4. CASE Cached(i) = {} /\ IsFirst(s, Empty) /\ Recycle(p, s, i)
  <2>1. s \in Empty BY <1>4 DEF IsFirst
  <2>2. ref[s] = 0 BY <2>1 DEF Empty
  <2>3. \A t \in Slot : ref[t] > 0 => inum[t] # i BY <1>4 DEF Cached
  <2>4. /\ inum' = [inum EXCEPT ![s] = i] /\ ip' = [ip EXCEPT ![p] = s]
        /\ ref' = [ref EXCEPT ![s] = 1] /\ valid' = [valid EXCEPT ![s] = FALSE]
    BY <1>4 DEF Recycle
  <2>5. ref' = [ref EXCEPT ![s] = @ + 1] BY <2>2, <2>4
  <2>6. /\ \A t \in Slot : valid'[t] <=> t # s /\ valid[t]
        /\ valid' \in [Slot -> BOOLEAN]
    BY <1>2, <2>4
  <2>7. \A t \in Slot : /\ valid'[t] => valid[t] /\ (t = s => ref[s] > 0)
                        /\ ref[t] > 0 => (valid'[t] <=> valid[t])
    BY <1>2, <2>2, <2>6
  <2>8. Got(p, i, s) BY <2>2, <2>3, <2>4, <2>5, <2>6, <2>7 DEF Got
  <2> QED BY <2>8
<1> QED BY <1>1, <1>3, <1>4

\* What a process in user mode that gets a reference leaves as it was, whatever it wants with
\* it.  Inodes in use stay as they are, and inode i is no longer being freed.
LEMMA GotKeeps ==
  ASSUME IInv, NEW p \in Proc, NEW i \in Inum, NEW s \in Slot, Got(p, i, s),
         NEW there \in {"open", "create", "link", "unlink"},
         pc[p] = "user", pc' = [pc EXCEPT ![p] = there],
         dir' = dir, fd' = fd, lock' = lock, inode' = inode,
         dinode' = [j \in Inum |-> dinode'[j]], dinode'[i].type = T_FILE,
         \A j \in Inum : /\ IsCopy(dinode'[j]) /\ dinode'[j].nlink = dinode[j].nlink
                         /\ dinode[j].type = T_FILE => dinode'[j].type = T_FILE,
         \A q \in Proc : pc[q] = "itrunc" => inum[ip[q]] # i
  PROVE  /\ RefsCounted' /\ EntriesOK' /\ FreeingLocks' /\ CopyOK' /\ LinksCounted' /\ UsedOK' /\ TruncOK'
         /\ ip' \in [Proc -> Slot \cup {NULL}] /\ ref' \in [Slot -> Nat]
         /\ inum' \in [Slot -> Inum \cup {NULL}] /\ valid' \in [Slot -> BOOLEAN]
         /\ pc' \in [Proc -> Places] /\ ip'[p] = s /\ inum'[s] = i
         /\ \A q \in Proc : /\ q # p => ip'[q] = ip[q] /\ pc'[q] = pc[q]
                            /\ ip[q] # NULL => inum'[ip[q]] = inum[ip[q]]
<1> USE DEF IInv
<1>1. /\ ip \in [Proc -> Slot \cup {NULL}] /\ fd \in [Proc -> Slot \cup {NULL}]
      /\ ref \in [Slot -> Nat] /\ inum \in [Slot -> Inum \cup {NULL}] /\ pc \in [Proc -> Places]
  BY DEF Typed
<1>2. ip[p] = NULL BY DEF PlacesOK
<1>3. /\ ip'[p] = s /\ \A q \in Proc : q # p => ip'[q] = ip[q] /\ pc'[q] = pc[q]
      /\ pc'[p] = there
      /\ ref'[s] = ref[s] + 1 /\ \A t \in Slot : t # s => ref'[t] = ref[t]
      /\ inum'[s] = i /\ \A t \in Slot : t # s \/ ref[t] > 0 => inum'[t] = inum[t]
  BY <1>1 DEF Got
<1>4. /\ ip' \in [Proc -> Slot \cup {NULL}] /\ ref' \in [Slot -> Nat]
      /\ inum' \in [Slot -> Inum \cup {NULL}] /\ valid' \in [Slot -> BOOLEAN]
      /\ pc' \in [Proc -> Places]
  BY <1>1 DEF Got, Places
<1>5. /\ \A q \in Proc : ip[q] # NULL => /\ ip[q] \in Slot /\ ref[ip[q]] > 0
                                         /\ inum'[ip[q]] = inum[ip[q]] /\ inum[ip[q]] \in Inum
      /\ \A q \in Proc : fd[q] # NULL => /\ fd[q] \in Slot /\ ref[fd[q]] > 0
                                         /\ inum'[fd[q]] = inum[fd[q]] /\ inum[fd[q]] \in Inum
  BY <1>3, Held
<1>6. RefsCounted'
  <2>1. ASSUME NEW t \in Slot
        PROVE  ref'[t] + One(ip[p] = t) + One(fd[p] = t) = ref[t] + One(ip'[p] = t) + One(fd'[p] = t)
    BY <1>1, <1>2, <1>3, Finite DEF One
  <2> QED BY <1>3, <1>4, <2>1, RefsChange
<1>7. EntriesOK'
  <2>1. \A t \in Slot : ref'[t] > 0 => t = s \/ ref[t] > 0 BY <1>3
  <2>2. \A t \in Slot : ref[t] > 0 /\ inum[t] = i => t = s BY DEF Got, EntriesOK, OneEntry
  <2>3. \A t \in Slot : ref[t] > 0 => inum[t] \in Inum BY DEF EntriesOK
  <2> QED BY <1>3, <2>1, <2>2, <2>3 DEF EntriesOK, OneEntry
<1>8. FreeingLocks' BY <1>3 DEF FreeingLocks
<1>9. CopyOK'
  <2> SUFFICES ASSUME NEW t \in Slot, ref'[t] > 0, valid'[t], ~Freeing(t)'
               PROVE  /\ inode'[t].nlink = dinode'[inum'[t]].nlink
                      /\ inode'[t].type = T_FILE /\ dinode'[inum'[t]].type = T_FILE
    BY DEF CopyOK
  <2>1. valid[t] /\ ref[t] > 0 BY <1>3 DEF Got
  <2>2. ~Freeing(t) BY <1>3 DEF Freeing
  <2>3. inum'[t] = inum[t] /\ inum[t] \in Inum BY <1>3, <2>1 DEF EntriesOK
  <2> QED BY <2>1, <2>2, <2>3 DEF CopyOK
<1>10. LinksCounted'
  <2>1. Linking[p] = NULL /\ Linking'[p] = NULL BY <1>3 DEF Linking
  <2>2. \A q \in Proc : q # p => Linking'[q] = Linking[q]
    BY <1>3, <1>5 DEF Linking, PlacesOK
  <2>3. \A j \in Inum : dinode'[j].nlink \in Nat BY DEF IsCopy
  <2> QED BY <2>1, <2>2, <2>3, LinksStay
<1>11. UsedOK'
  <2>1. \A n \in Name : dir[n] # NULL => dir[n] \in Inum BY DEF Typed
  <2>2. UsedLives' BY <1>5, <2>1 DEF UsedOK, UsedLives
  <2>3. \A q \in Proc : pc[q] \in Using => ip[q] # NULL BY DEF PlacesOK, Using
  <2>4. \A q \in Proc : pc'[q] \in Using => dinode'[inum'[ip'[q]]].type = T_FILE
    BY <1>3, <1>5, <2>3 DEF UsedOK
  <2> QED BY <2>2, <2>4 DEF UsedOK
<1>12. TruncOK'
  <2> SUFFICES ASSUME NEW q \in Proc, pc'[q] = "itrunc"
               PROVE  valid'[ip'[q]] /\ ref'[ip'[q]] = 1 /\ dinode'[inum'[ip'[q]]].nlink = 0
    BY DEF TruncOK
  <2>1. q # p /\ pc[q] = "itrunc" /\ ip'[q] = ip[q] BY <1>3
  <2>2. ip[q] # NULL BY <2>1 DEF PlacesOK
  <2>3. ip[q] \in Slot /\ ref[ip[q]] > 0 /\ inum'[ip[q]] = inum[ip[q]] /\ inum[ip[q]] \in Inum
    BY <1>5, <2>2
  <2>4. ip[q] # s BY <2>1, <2>3 DEF Got
  <2>5. (valid'[ip[q]] <=> valid[ip[q]]) /\ ref'[ip[q]] = ref[ip[q]] BY <1>3, <2>3, <2>4 DEF Got
  <2> QED BY <2>1, <2>3, <2>5 DEF TruncOK
<1> QED BY <1>3, <1>4, <1>5, <1>6, <1>7, <1>8, <1>9, <1>10, <1>11, <1>12

-----------------------------------------------------------------------------
(* The calls that look an inode up *)

\* An inode with a name is a file with links; a free one has none, and nobody has it but to
\* drop it.
LEMMA NamedOrFree ==
  ASSUME IInv
  PROVE  /\ \A n \in Name : dir[n] # NULL =>
              dir[n] \in Inum /\ dinode[dir[n]].type = T_FILE /\ dinode[dir[n]].nlink > 0
         /\ \A i \in Inum : dinode[i].type = 0 =>
              /\ dinode[i].nlink = 0
              /\ \A p \in Proc : /\ ip[p] # NULL /\ inum[ip[p]] = i => pc[p] \in {"freed", "drop"}
                                 /\ fd[p] # NULL => inum[fd[p]] # i
<1> USE DEF IInv
<1>1. \A n \in Name : dir[n] # NULL =>
        dir[n] \in Inum /\ dinode[dir[n]].type = T_FILE /\ dinode[dir[n]].nlink > 0
  <2>1. \A n \in Name : dir[n] # NULL => dir[n] \in Inum /\ dinode[dir[n]].type = T_FILE
    BY DEF Typed, UsedOK, UsedLives
  <2> QED BY <2>1, Unlinked
<1>2. ASSUME NEW i \in Inum, dinode[i].type = 0
      PROVE  /\ dinode[i].nlink = 0
             /\ \A p \in Proc : /\ ip[p] # NULL /\ inum[ip[p]] = i => pc[p] \in {"freed", "drop"}
                                /\ fd[p] # NULL => inum[fd[p]] # i
  <2>1. \A p \in Proc : pc[p] \in Using => inum[ip[p]] # i BY <1>2 DEF UsedOK, T_FILE
  <2>2. \A p \in Proc : ip[p] # NULL /\ inum[ip[p]] = i => pc[p] \in {"freed", "drop"}
    BY <2>1 DEF Typed, Places, Using, PlacesOK
  <2>3. \A p \in Proc : fd[p] # NULL => inum[fd[p]] # i BY <1>2 DEF UsedOK, UsedLives, T_FILE
  <2>4. \A n \in Name : dir[n] # i BY <1>2, Finite DEF UsedOK, UsedLives, T_FILE
  <2>5. \A p \in Proc : Linking[p] # i BY <2>1, Finite DEF Linking, Using
  <2>6. dinode[i].nlink = 0
    <3> HIDE DEF Linking
    <3> QED BY <2>4, <2>5, Unlinked
  <2> QED BY <2>2, <2>3, <2>6
<1> QED BY <1>1, <1>2

LEMMA OpenKeeps == ASSUME IInv, NEW p \in Proc, NEW n \in Name, Open(p, n) PROVE IInv'
<1> USE DEF IInv
<1>1. /\ pc[p] = "user" /\ fd[p] = NULL /\ dirlock = NULL /\ dir[n] # NULL
      /\ Iget(p, dir[n]) /\ pc' = [pc EXCEPT ![p] = "open"]
      /\ UNCHANGED <<dir, dinode, inode, lock, dirlock, name, fd>>
  BY DEF Open, User, Go, store
<1>2. dir[n] \in Inum /\ dinode[dir[n]].type = T_FILE /\ dinode[dir[n]].nlink > 0
  BY <1>1, NamedOrFree
<1>3. PICK s \in Slot : Got(p, dir[n], s) BY <1>1, <1>2, IgetFacts
<1>4. \A j \in Inum : IsCopy(dinode[j]) BY DEF Typed
<1>5. \A q \in Proc : pc[q] = "itrunc" => inum[ip[q]] # dir[n] BY <1>2 DEF TruncOK
<1>6. dinode' = [j \in Inum |-> dinode'[j]] BY <1>1 DEF Typed
<1>7. /\ RefsCounted' /\ EntriesOK' /\ FreeingLocks' /\ CopyOK' /\ LinksCounted' /\ UsedOK' /\ TruncOK'
      /\ ip' \in [Proc -> Slot \cup {NULL}] /\ ref' \in [Slot -> Nat]
      /\ inum' \in [Slot -> Inum \cup {NULL}] /\ valid' \in [Slot -> BOOLEAN]
      /\ pc' \in [Proc -> Places] /\ ip'[p] = s /\ inum'[s] = dir[n]
      /\ \A q \in Proc : /\ q # p => ip'[q] = ip[q] /\ pc'[q] = pc[q]
                         /\ ip[q] # NULL => inum'[ip[q]] = inum[ip[q]]
  BY <1>1, <1>2, <1>3, <1>4, <1>5, <1>6, GotKeeps
<1>8. pc'[p] = "open" BY <1>1 DEF Typed
<1>9. Typed' BY <1>1, <1>7 DEF Typed
<1>10. PlacesOK' BY <1>1, <1>7, <1>8, Finite DEF PlacesOK
<1>11. DirOK' BY <1>1, <1>7, <1>8, Finite DEF DirOK
<1>12. CreateOK' BY <1>1, <1>7, <1>8, Finite DEF CreateOK, DirOK
<1> QED BY <1>7, <1>9, <1>10, <1>11, <1>12

LEMMA LinkKeeps ==
  ASSUME IInv, NEW p \in Proc, NEW o \in Name, NEW n \in Name, Link(p, o, n) PROVE IInv'
<1> USE DEF IInv
<1>1. /\ pc[p] = "user" /\ dirlock = NULL /\ dir[o] # NULL
      /\ Iget(p, dir[o]) /\ pc' = [pc EXCEPT ![p] = "link"] /\ name' = [name EXCEPT ![p] = n]
      /\ UNCHANGED <<dir, dinode, inode, lock, dirlock, fd>>
  BY DEF Link, Idle, User, Go, store
<1>2. dir[o] \in Inum /\ dinode[dir[o]].type = T_FILE /\ dinode[dir[o]].nlink > 0
  BY <1>1, NamedOrFree
<1>3. PICK s \in Slot : Got(p, dir[o], s) BY <1>1, <1>2, IgetFacts
<1>4. \A j \in Inum : IsCopy(dinode[j]) BY DEF Typed
<1>5. \A q \in Proc : pc[q] = "itrunc" => inum[ip[q]] # dir[o] BY <1>2 DEF TruncOK
<1>6. dinode' = [j \in Inum |-> dinode'[j]] BY <1>1 DEF Typed
<1>7. /\ RefsCounted' /\ EntriesOK' /\ FreeingLocks' /\ CopyOK' /\ LinksCounted' /\ UsedOK' /\ TruncOK'
      /\ ip' \in [Proc -> Slot \cup {NULL}] /\ ref' \in [Slot -> Nat]
      /\ inum' \in [Slot -> Inum \cup {NULL}] /\ valid' \in [Slot -> BOOLEAN]
      /\ pc' \in [Proc -> Places] /\ ip'[p] = s /\ inum'[s] = dir[o]
      /\ \A q \in Proc : /\ q # p => ip'[q] = ip[q] /\ pc'[q] = pc[q]
                         /\ ip[q] # NULL => inum'[ip[q]] = inum[ip[q]]
  BY <1>1, <1>2, <1>3, <1>4, <1>5, <1>6, GotKeeps
<1>8. /\ pc'[p] = "link" /\ name'[p] = n /\ \A q \in Proc : q # p => name'[q] = name[q]
      /\ name' = [q \in Proc |-> name'[q]]
  BY <1>1 DEF Typed
<1>9. Typed' BY <1>1, <1>7, <1>8 DEF Typed
<1>10. PlacesOK' BY <1>1, <1>7, <1>8, Finite DEF PlacesOK
<1>11. DirOK' BY <1>1, <1>7, <1>8, Finite DEF DirOK
<1>12. CreateOK' BY <1>1, <1>7, <1>8, Finite DEF CreateOK, DirOK
<1> QED BY <1>7, <1>9, <1>10, <1>11, <1>12

LEMMA UnlinkKeeps ==
  ASSUME IInv, NEW p \in Proc, NEW n \in Name, Unlink(p, n) PROVE IInv'
<1> USE DEF IInv
<1>1. /\ pc[p] = "user" /\ dirlock = NULL /\ dir[n] # NULL
      /\ Iget(p, dir[n]) /\ pc' = [pc EXCEPT ![p] = "unlink"] /\ name' = [name EXCEPT ![p] = n]
      /\ dirlock' = p
      /\ UNCHANGED <<dir, dinode, inode, lock, fd>>
  BY DEF Unlink, Idle, User, Go, store
<1>2. dir[n] \in Inum /\ dinode[dir[n]].type = T_FILE /\ dinode[dir[n]].nlink > 0
  BY <1>1, NamedOrFree
<1>3. PICK s \in Slot : Got(p, dir[n], s) BY <1>1, <1>2, IgetFacts
<1>4. \A j \in Inum : IsCopy(dinode[j]) BY DEF Typed
<1>5. \A q \in Proc : pc[q] = "itrunc" => inum[ip[q]] # dir[n] BY <1>2 DEF TruncOK
<1>6. dinode' = [j \in Inum |-> dinode'[j]] BY <1>1 DEF Typed
<1>7. /\ RefsCounted' /\ EntriesOK' /\ FreeingLocks' /\ CopyOK' /\ LinksCounted' /\ UsedOK' /\ TruncOK'
      /\ ip' \in [Proc -> Slot \cup {NULL}] /\ ref' \in [Slot -> Nat]
      /\ inum' \in [Slot -> Inum \cup {NULL}] /\ valid' \in [Slot -> BOOLEAN]
      /\ pc' \in [Proc -> Places] /\ ip'[p] = s /\ inum'[s] = dir[n]
      /\ \A q \in Proc : /\ q # p => ip'[q] = ip[q] /\ pc'[q] = pc[q]
                         /\ ip[q] # NULL => inum'[ip[q]] = inum[ip[q]]
  BY <1>1, <1>2, <1>3, <1>4, <1>5, <1>6, GotKeeps
<1>8. /\ pc'[p] = "unlink" /\ name'[p] = n /\ \A q \in Proc : q # p => name'[q] = name[q]
      /\ name' = [q \in Proc |-> name'[q]]
  BY <1>1 DEF Typed
<1>9. Typed' BY <1>1, <1>7, <1>8 DEF Typed
<1>10. PlacesOK' BY <1>1, <1>7, <1>8, Finite DEF PlacesOK
<1>11. DirOK' BY <1>1, <1>7, <1>8, Finite DEF DirOK
<1>12. CreateOK' BY <1>1, <1>7, <1>8, Finite DEF CreateOK, DirOK
<1> QED BY <1>7, <1>9, <1>10, <1>11, <1>12

LEMMA CreateKeeps ==
  ASSUME IInv, NEW p \in Proc, NEW n \in Name, Create(p, n) PROVE IInv'
<1> USE DEF IInv
<1> DEFINE free == {j \in Inum : dinode[j].type = 0}
           i == Min(free)
<1>1. /\ pc[p] = "user" /\ fd[p] = NULL /\ dirlock = NULL /\ dir[n] = NULL /\ free # {}
      /\ Iget(p, i) /\ pc' = [pc EXCEPT ![p] = "create"] /\ name' = [name EXCEPT ![p] = n]
      /\ dirlock' = p /\ dinode' = [dinode EXCEPT ![i] = NewDinode(T_FILE)]
      /\ UNCHANGED <<dir, inode, lock, fd>>
  BY DEF Create, User, Go
<1>2. i \in Inum /\ dinode[i].type = 0
  <2>1. i \in free BY <1>1, FirstIn DEF Inum
  <2> HIDE DEF i
  <2> QED BY <2>1
<1> HIDE DEF i
<1>3. /\ dinode[i].nlink = 0
      /\ \A q \in Proc : /\ ip[q] # NULL /\ inum[ip[q]] = i => pc[q] \in {"freed", "drop"}
                         /\ fd[q] # NULL => inum[fd[q]] # i
  BY <1>2, NamedOrFree
<1>4. PICK s \in Slot : Got(p, i, s) BY <1>1, <1>2, IgetFacts
<1>5. /\ dinode' = [j \in Inum |-> dinode'[j]] /\ dinode'[i] = NewDinode(T_FILE)
      /\ \A j \in Inum : j # i => dinode'[j] = dinode[j]
  BY <1>1, <1>2 DEF Typed
<1>6. /\ IsCopy(NewDinode(T_FILE)) /\ NewDinode(T_FILE).nlink = 0 /\ NewDinode(T_FILE).type = T_FILE
  BY DEF IsCopy, NewDinode
<1>7. \A j \in Inum : /\ IsCopy(dinode'[j]) /\ dinode'[j].nlink = dinode[j].nlink
                      /\ dinode[j].type = T_FILE => dinode'[j].type = T_FILE
  BY <1>3, <1>5, <1>6 DEF Typed
<1>8. \A q \in Proc : pc[q] = "itrunc" => inum[ip[q]] # i BY <1>3 DEF PlacesOK
<1>9. dinode'[i].type = T_FILE BY <1>5, <1>6
<1>10. /\ RefsCounted' /\ EntriesOK' /\ FreeingLocks' /\ CopyOK' /\ LinksCounted' /\ UsedOK' /\ TruncOK'
       /\ ip' \in [Proc -> Slot \cup {NULL}] /\ ref' \in [Slot -> Nat]
       /\ inum' \in [Slot -> Inum \cup {NULL}] /\ valid' \in [Slot -> BOOLEAN]
       /\ pc' \in [Proc -> Places] /\ ip'[p] = s /\ inum'[s] = i
       /\ \A q \in Proc : /\ q # p => ip'[q] = ip[q] /\ pc'[q] = pc[q]
                          /\ ip[q] # NULL => inum'[ip[q]] = inum[ip[q]]
  BY <1>1, <1>2, <1>4, <1>5, <1>7, <1>8, <1>9, GotKeeps
<1>11. /\ pc'[p] = "create" /\ name'[p] = n /\ \A q \in Proc : q # p => name'[q] = name[q]
       /\ name' = [q \in Proc |-> name'[q]]
  BY <1>1 DEF Typed
<1>12. Typed' BY <1>1, <1>5, <1>7, <1>10, <1>11 DEF Typed
<1>13. PlacesOK' BY <1>1, <1>10, <1>11, Finite DEF PlacesOK
<1>14. DirOK' BY <1>1, <1>10, <1>11, Finite DEF DirOK
<1>15. CreateOK'
  <2> SUFFICES ASSUME NEW q \in Proc, pc'[q] = "create"
               PROVE  /\ dinode'[inum'[ip'[q]]].nlink = 0
                      /\ \A r \in Proc : (ip'[r] = ip'[q] /\ r # q => pc'[r] \in {"freed", "drop"})
                                         /\ fd'[r] # ip'[q]
    BY DEF CreateOK
  <2>1. q = p BY <1>1, <1>10, Finite DEF DirOK
  <2>2. ASSUME NEW r \in Proc, ip[r] = s, r # p PROVE pc[r] \in {"freed", "drop"}
    <3>1. inum[ip[r]] = i BY <1>4, <2>2, Counted DEF Got
    <3> QED BY <1>3, <2>2, <3>1, Finite
  <2>3. ASSUME NEW r \in Proc PROVE fd[r] # s
    <3>1. fd[r] = s => inum[fd[r]] = i BY <1>4, Counted DEF Got
    <3> QED BY <1>3, <3>1, Finite
  <2> QED BY <1>1, <1>3, <1>7, <1>10, <2>1, <2>2, <2>3, <1>2
<1> QED BY <1>10, <1>12, <1>13, <1>14, <1>15

-----------------------------------------------------------------------------
(* The sections that change an inode under its lock *)

\* Process p changes the inode of entry s, which it has, to x, a file.
Changed(p, s, x) ==
  /\ ip[p] = s \/ fd[p] = s
  /\ lock[s] = NULL /\ x.type = T_FILE /\ inode'[s] = x
  /\ \A t \in Slot : t # s => inode'[t] = inode[t]
  /\ dinode'[inum[s]].type = T_FILE /\ dinode'[inum[s]].nlink = x.nlink
  /\ \A i \in Inum : i # inum[s] => dinode'[i] = dinode[i]
  /\ valid' = [valid EXCEPT ![s] = TRUE] /\ ref' = ref /\ inum' = inum /\ lock' = lock
  /\ {pc[p], pc'[p]} \cap {"itrunc", "freed"} = {}
  /\ \A q \in Proc : q # p => pc'[q] = pc[q] /\ ip'[q] = ip[q]

\* What it leaves as it was.
LEMMA ChangeKeeps ==
  ASSUME IInv, NEW p \in Proc, NEW s \in Slot, NEW x, Changed(p, s, x)
  PROVE  /\ EntriesOK' /\ FreeingLocks' /\ CopyOK' /\ TruncOK'
         /\ valid' \in [Slot -> BOOLEAN]
<1> USE DEF IInv, Changed
<1>1. ref[s] > 0 /\ inum[s] \in Inum BY Counted DEF EntriesOK
<1>2. /\ valid' \in [Slot -> BOOLEAN] /\ valid'[s]
      /\ \A t \in Slot : t # s => (valid'[t] <=> valid[t])
  BY DEF Typed
<1>3. EntriesOK' BY DEF EntriesOK, OneEntry
<1>4. FreeingLocks' BY DEF FreeingLocks
<1>5. \A t \in Slot : t # s /\ ref[t] > 0 => inum[t] # inum[s] /\ inum[t] \in Inum
  BY <1>1 DEF EntriesOK, OneEntry
<1>6. CopyOK'
  <2> SUFFICES ASSUME NEW t \in Slot, ref'[t] > 0, valid'[t], ~Freeing(t)'
               PROVE  /\ inode'[t].nlink = dinode'[inum'[t]].nlink
                      /\ inode'[t].type = T_FILE /\ dinode'[inum'[t]].type = T_FILE
    BY DEF CopyOK
  <2>1. CASE t = s BY <2>1
  <2>2. CASE t # s
    <3>1. ~Freeing(t) BY DEF Freeing
    <3> QED BY <1>2, <1>5, <2>2, <3>1 DEF CopyOK
  <2> QED BY <2>1, <2>2
<1>7. TruncOK'
  <2> SUFFICES ASSUME NEW q \in Proc, pc'[q] = "itrunc"
               PROVE  valid'[ip'[q]] /\ ref'[ip'[q]] = 1 /\ dinode'[inum'[ip'[q]]].nlink = 0
    BY DEF TruncOK
  <2>1. q # p /\ pc[q] = "itrunc" /\ ip'[q] = ip[q] OBVIOUS
  <2>2. ip[q] # NULL BY <2>1 DEF PlacesOK
  <2>3. ip[q] \in Slot /\ ref[ip[q]] = 1 BY <2>1, <2>2, Held DEF TruncOK
  <2>4. ip[q] # s BY <2>1, <2>3, Counted
  <2> QED BY <1>2, <1>5, <2>1, <2>3, <2>4 DEF TruncOK
<1> QED BY <1>2, <1>3, <1>4, <1>6, <1>7

\* filealloc gives the process its file, or leaves it to put the reference back.
LEMMA FileAllocFacts ==
  ASSUME IInv, NEW p \in Proc, pc[p] \in {"open", "create"}, FileAlloc(p)
  PROVE  /\ \/ fd'[p] = ip[p] /\ ip'[p] = NULL /\ pc'[p] = "user"
            \/ fd'[p] = fd[p] /\ ip'[p] = ip[p] /\ pc'[p] = "iput"
         /\ \A q \in Proc : q # p => pc'[q] = pc[q] /\ ip'[q] = ip[q] /\ fd'[q] = fd[q]
         /\ pc' \in [Proc -> Places] /\ ip' \in [Proc -> Slot \cup {NULL}]
         /\ fd' \in [Proc -> Slot \cup {NULL}]
         /\ ref' = ref => RefsCounted'
<1>1. /\ ip \in [Proc -> Slot \cup {NULL}] /\ fd \in [Proc -> Slot \cup {NULL}]
      /\ pc \in [Proc -> Places] /\ ref \in [Slot -> Nat] /\ fd[p] = NULL
  BY DEF IInv, Typed, PlacesOK
<1>2. /\ \/ fd'[p] = ip[p] /\ ip'[p] = NULL /\ pc'[p] = "user"
         \/ fd'[p] = fd[p] /\ ip'[p] = ip[p] /\ pc'[p] = "iput"
      /\ \A q \in Proc : q # p => pc'[q] = pc[q] /\ ip'[q] = ip[q] /\ fd'[q] = fd[q]
      /\ pc' \in [Proc -> Places] /\ ip' \in [Proc -> Slot \cup {NULL}]
      /\ fd' \in [Proc -> Slot \cup {NULL}]
  BY <1>1 DEF FileAlloc, Go, Places
<1>3. ASSUME ref' = ref PROVE RefsCounted'
  <2>1. ASSUME NEW t \in Slot
        PROVE  ref'[t] + One(ip[p] = t) + One(fd[p] = t) = ref[t] + One(ip'[p] = t) + One(fd'[p] = t)
    <3>1. t # NULL /\ ref[t] \in Nat BY <1>1, Finite
    <3> QED BY <1>1, <1>2, <1>3, <3>1 DEF One
  <2> QED BY <1>1, <1>2, <1>3, <2>1, RefsChange DEF IInv
<1> QED BY <1>2, <1>3

LEMMA OpenDoneKeeps == ASSUME IInv, NEW p \in Proc, OpenDone(p) PROVE IInv'
<1> USE DEF IInv
<1> DEFINE s == ip[p]
<1>1. /\ pc[p] = "open" /\ lock[s] = NULL /\ inode' = [inode EXCEPT ![s] = Ilock(s)]
      /\ valid' = [valid EXCEPT ![s] = TRUE] /\ FileAlloc(p)
      /\ UNCHANGED <<dinode, dir, inum, ref, lock, dirlock, name>>
  BY DEF OpenDone, Locks, SetValid, store
<1>2. s # NULL BY <1>1 DEF PlacesOK
<1>3. s \in Slot /\ ref[s] > 0 /\ inum[s] \in Inum BY <1>2, Held
<1>4. dinode[inum[s]].type = T_FILE BY <1>1 DEF UsedOK, Using
<1>5. /\ IsCopy(Ilock(s)) /\ Ilock(s).type = T_FILE /\ Ilock(s).nlink = dinode[inum[s]].nlink
  BY <1>1, <1>3, <1>4, IlockFinds
<1>6. /\ inode' = [t \in Slot |-> inode'[t]] /\ inode'[s] = Ilock(s)
      /\ \A t \in Slot : t # s => inode'[t] = inode[t]
  BY <1>1, <1>3 DEF Typed
<1>7. /\ \/ fd'[p] = ip[p] /\ ip'[p] = NULL /\ pc'[p] = "user"
         \/ fd'[p] = fd[p] /\ ip'[p] = ip[p] /\ pc'[p] = "iput"
      /\ \A q \in Proc : q # p => pc'[q] = pc[q] /\ ip'[q] = ip[q] /\ fd'[q] = fd[q]
      /\ pc' \in [Proc -> Places] /\ ip' \in [Proc -> Slot \cup {NULL}]
      /\ fd' \in [Proc -> Slot \cup {NULL}]
      /\ RefsCounted'
  BY <1>1, FileAllocFacts
<1>8. EntriesOK' /\ FreeingLocks' /\ CopyOK' /\ TruncOK' /\ valid' \in [Slot -> BOOLEAN]
  <2> DEFINE x == Ilock(s)
  <2>1. x.type = T_FILE /\ inode'[s] = x /\ dinode'[inum[s]].nlink = x.nlink BY <1>1, <1>5, <1>6
  <2> HIDE DEF x, IInv
  <2>2. Changed(p, s, x) BY <1>1, <1>4, <1>6, <1>7, <2>1 DEF Changed
  <2> HIDE DEF s
  <2> QED BY <1>3, <2>2, ChangeKeeps
<1>9. \A t \in Slot : IsCopy(inode'[t]) BY <1>5, <1>6 DEF Typed
<1>10. Typed' BY <1>1, <1>6, <1>7, <1>8, <1>9 DEF Typed
<1>11. PlacesOK' BY <1>1, <1>2, <1>7 DEF PlacesOK
<1>12. DirOK' BY <1>1, <1>7 DEF DirOK
<1>13. LinksCounted'
  <2>1. \A q \in Proc : Linking'[q] = Linking[q] BY <1>1, <1>7 DEF Linking
  <2>2. \A i \in Inum : dinode'[i].nlink \in Nat BY <1>1 DEF Typed, IsCopy
  <2> QED BY <1>1, <2>1, <2>2, LinksStay
<1>14. UsedOK' BY <1>1, <1>4, <1>7 DEF UsedOK, UsedLives, Using
<1>15. CreateOK' BY <1>1, <1>3, <1>7, Finite DEF CreateOK, PlacesOK
<1> QED BY <1>7, <1>8, <1>10, <1>11, <1>12, <1>13, <1>14, <1>15

-----------------------------------------------------------------------------
\* nlink of the inode that ilock finds is changed to k, and written.
LEMMA NlinkChanges ==
  ASSUME IInv, NEW s \in Slot, ref[s] > 0, inum[s] \in Inum, lock[s] = NULL,
         dinode[inum[s]].type = T_FILE, NEW k \in Nat, Iupdate(s, [Ilock(s) EXCEPT !.nlink = k])
  PROVE  LET x == [Ilock(s) EXCEPT !.nlink = k] IN
         /\ x.type = T_FILE /\ x.nlink = k
         /\ inode' = [t \in Slot |-> inode'[t]] /\ dinode' = [i \in Inum |-> dinode'[i]]
         /\ \A t \in Slot : IsCopy(inode'[t]) /\ (t # s => inode'[t] = inode[t])
         /\ inode'[s] = x
         /\ \A i \in Inum : /\ IsCopy(dinode'[i]) /\ dinode'[i].nlink \in Nat
                            /\ i # inum[s] => dinode'[i] = dinode[i]
         /\ dinode'[inum[s]].type = T_FILE /\ dinode'[inum[s]].nlink = k
<1> DEFINE x == [Ilock(s) EXCEPT !.nlink = k]
<1>1. IsCopy(Ilock(s)) /\ Ilock(s).type = T_FILE BY IlockFinds DEF IInv
<1>2. IsCopy(x) /\ x.type = T_FILE /\ x.nlink = k
  <2> HIDE DEF Ilock
  <2> QED BY <1>1 DEF IsCopy
<1>3. Iupdate(s, x) OBVIOUS
<1> HIDE DEF x
<1>4. \A i \in Inum : IsCopy(dinode'[i]) => dinode'[i].nlink \in Nat BY DEF IsCopy
<1>5. /\ inode' = [t \in Slot |-> inode'[t]] /\ dinode' = [i \in Inum |-> dinode'[i]]
      /\ \A t \in Slot : IsCopy(inode'[t]) /\ (t # s => inode'[t] = inode[t])
      /\ inode'[s] = x
      /\ \A i \in Inum : IsCopy(dinode'[i]) /\ (i # inum[s] => dinode'[i] = dinode[i])
      /\ dinode'[inum[s]].type = x.type /\ dinode'[inum[s]].nlink = x.nlink
  BY <1>2, <1>3, IupdateFacts DEF IInv
<1>6. /\ x.type = T_FILE /\ x.nlink = k
      /\ inode' = [t \in Slot |-> inode'[t]] /\ dinode' = [i \in Inum |-> dinode'[i]]
      /\ \A t \in Slot : IsCopy(inode'[t]) /\ (t # s => inode'[t] = inode[t])
      /\ inode'[s] = x
      /\ \A i \in Inum : /\ IsCopy(dinode'[i]) /\ dinode'[i].nlink \in Nat
                         /\ i # inum[s] => dinode'[i] = dinode[i]
      /\ dinode'[inum[s]].type = T_FILE /\ dinode'[inum[s]].nlink = k
  BY <1>2, <1>4, <1>5
<1> QED BY <1>6 DEF x

\* The inode that a process uses, or has open, is not the one another is creating.
LEMMA OthersNew ==
  ASSUME IInv, NEW p \in Proc, pc[p] \in Using \/ fd[p] # NULL, NEW q \in Proc, q # p, pc[q] = "create"
  PROVE  /\ pc[p] \in Using => ip[q] # ip[p] /\ inum[ip[q]] # inum[ip[p]]
         /\ fd[p] # NULL => inum[ip[q]] # inum[fd[p]]
<1> USE DEF IInv
<1>1. ip[q] # NULL BY DEF PlacesOK
<1>2. fd[p] # ip[q] BY DEF CreateOK
<1>3. ASSUME pc[p] \in Using PROVE ip[p] # ip[q] /\ ip[p] # NULL
  BY <1>3 DEF CreateOK, Using, PlacesOK
<1>4. ip[q] \in Slot /\ ref[ip[q]] > 0 BY <1>1, Held
<1>5. ASSUME pc[p] \in Using PROVE ip[p] \in Slot /\ ref[ip[p]] > 0 BY <1>3, <1>5, Held
<1>6. fd[p] # NULL => fd[p] \in Slot /\ ref[fd[p]] > 0 BY Held
<1> QED BY <1>2, <1>3, <1>4, <1>5, <1>6 DEF EntriesOK, OneEntry

LEMMA LinkCountsKeeps == ASSUME IInv, NEW p \in Proc, LinkCounts(p) PROVE IInv'
<1> USE DEF IInv
<1> DEFINE s == ip[p]
           k == Ilock(s).nlink + 1
           x == [Ilock(s) EXCEPT !.nlink = k]
<1>1. /\ pc[p] = "link" /\ lock[s] = NULL /\ Iupdate(s, x)
      /\ valid' = [valid EXCEPT ![s] = TRUE] /\ pc' = [pc EXCEPT ![p] = "dirlink"]
      /\ UNCHANGED <<dir, inum, ref, lock, dirlock, ip, name, fd>>
  BY DEF LinkCounts, Locks, SetValid, Go
<1>2. s # NULL /\ name[p] \in Name BY <1>1 DEF PlacesOK
<1>3. s \in Slot /\ ref[s] > 0 /\ inum[s] \in Inum BY <1>2, Held
<1>4. dinode[inum[s]].type = T_FILE BY <1>1 DEF UsedOK, Using
<1>5. Ilock(s).nlink = dinode[inum[s]].nlink BY <1>1, <1>3, <1>4, IlockFinds
<1>6. dinode[inum[s]].nlink \in Nat BY <1>3 DEF Typed, IsCopy
<1>7. k \in Nat /\ k = dinode[inum[s]].nlink + 1 BY <1>5, <1>6
<1> HIDE DEF k
<1>8. /\ x.type = T_FILE /\ x.nlink = k
      /\ inode' = [t \in Slot |-> inode'[t]] /\ dinode' = [i \in Inum |-> dinode'[i]]
      /\ \A t \in Slot : IsCopy(inode'[t]) /\ (t # s => inode'[t] = inode[t])
      /\ inode'[s] = x
      /\ \A i \in Inum : /\ IsCopy(dinode'[i]) /\ dinode'[i].nlink \in Nat
                         /\ i # inum[s] => dinode'[i] = dinode[i]
      /\ dinode'[inum[s]].type = T_FILE /\ dinode'[inum[s]].nlink = k
  BY <1>1, <1>3, <1>4, <1>7, NlinkChanges
<1> HIDE DEF x
<1>9. /\ pc'[p] = "dirlink" /\ pc' \in [Proc -> Places]
      /\ \A q \in Proc : q # p => pc'[q] = pc[q]
  BY <1>1 DEF Typed, Places
<1>10. EntriesOK' /\ FreeingLocks' /\ CopyOK' /\ TruncOK' /\ valid' \in [Slot -> BOOLEAN]
  <2> HIDE DEF IInv
  <2>1. Changed(p, s, x) BY <1>1, <1>8, <1>9 DEF Changed
  <2> HIDE DEF s
  <2> QED BY <1>3, <2>1, ChangeKeeps
<1>11. Typed' BY <1>1, <1>8, <1>9, <1>10 DEF Typed
<1>12. PlacesOK' BY <1>1, <1>2, <1>9 DEF PlacesOK
<1>13. RefsCounted' BY <1>1 DEF RefsCounted
<1>14. DirOK' BY <1>1, <1>9 DEF DirOK
<1>15. LinksCounted'
  <2>1. Linking[p] = NULL /\ Linking'[p] = inum[s] BY <1>1, <1>9 DEF Linking
  <2>2. \A q \in Proc : q # p => Linking'[q] = Linking[q] BY <1>1, <1>9 DEF Linking
  <2>3. ASSUME NEW i \in Inum
        PROVE  dinode'[i].nlink + One(Linking[p] = i) = dinode[i].nlink + One(Linking'[p] = i)
    <3>1. dinode[i].nlink \in Nat /\ i # NULL BY Finite DEF Typed, IsCopy
    <3> HIDE DEF Linking
    <3> QED BY <1>3, <1>7, <1>8, <2>1, <3>1 DEF One
  <2> QED BY <1>1, <1>8, <2>1, <2>2, <2>3, LinksStay
<1>16. UsedOK'
  <2>1. \A i \in Inum : dinode[i].type = T_FILE => dinode'[i].type = T_FILE BY <1>8
  <2>2. \A q \in Proc : pc'[q] \in Using => pc[q] \in Using /\ ip[q] # NULL
    BY <1>1, <1>9 DEF Using, PlacesOK
  <2> QED BY <1>1, <2>1, <2>2, Held, NamedOrFree DEF UsedOK, UsedLives
<1>17. CreateOK'
  <2> SUFFICES ASSUME NEW q \in Proc, pc'[q] = "create"
               PROVE  /\ dinode'[inum'[ip'[q]]].nlink = 0
                      /\ \A r \in Proc : (ip'[r] = ip'[q] /\ r # q => pc'[r] \in {"freed", "drop"})
                                         /\ fd'[r] # ip'[q]
    BY DEF CreateOK
  <2>1. q # p /\ pc[q] = "create" BY <1>9
  <2>2. ip[q] # ip[p] /\ inum[ip[q]] # inum[s] BY <1>1, <2>1, OthersNew DEF Using
  <2>3. inum[ip[q]] \in Inum BY <2>1, Held DEF PlacesOK
  <2> QED BY <1>1, <1>8, <1>9, <2>1, <2>2, <2>3 DEF CreateOK
<1> QED BY <1>10, <1>11, <1>12, <1>13, <1>14, <1>15, <1>16, <1>17

LEMMA LinkUndoneKeeps == ASSUME IInv, NEW p \in Proc, LinkUndone(p) PROVE IInv'
<1> USE DEF IInv
<1> DEFINE s == ip[p]
           k == Ilock(s).nlink - 1
           x == [Ilock(s) EXCEPT !.nlink = k]
<1>1. /\ pc[p] = "bad" /\ lock[s] = NULL /\ Iupdate(s, x)
      /\ valid' = [valid EXCEPT ![s] = TRUE] /\ pc' = [pc EXCEPT ![p] = "iput"]
      /\ UNCHANGED <<dir, inum, ref, lock, dirlock, ip, name, fd>>
  BY DEF LinkUndone, Locks, SetValid, Go
<1>2. s # NULL BY <1>1 DEF PlacesOK
<1>3. s \in Slot /\ ref[s] > 0 /\ inum[s] \in Inum BY <1>2, Held
<1>4. dinode[inum[s]].type = T_FILE BY <1>1 DEF UsedOK, Using
<1>5. Ilock(s).nlink = dinode[inum[s]].nlink BY <1>1, <1>3, <1>4, IlockFinds
<1>6. dinode[inum[s]].nlink \in Nat \ {0}
  <2>1. dinode[inum[s]].nlink \in Nat BY <1>3 DEF Typed, IsCopy
  <2>2. Linking[p] = inum[s] BY <1>1 DEF Linking
  <2> HIDE DEF Linking
  <2> QED BY <1>3, <2>1, <2>2, Unlinked
<1>7. k \in Nat /\ k = dinode[inum[s]].nlink - 1 BY <1>5, <1>6
<1> HIDE DEF k
<1>8. /\ x.type = T_FILE /\ x.nlink = k
      /\ inode' = [t \in Slot |-> inode'[t]] /\ dinode' = [i \in Inum |-> dinode'[i]]
      /\ \A t \in Slot : IsCopy(inode'[t]) /\ (t # s => inode'[t] = inode[t])
      /\ inode'[s] = x
      /\ \A i \in Inum : /\ IsCopy(dinode'[i]) /\ dinode'[i].nlink \in Nat
                         /\ i # inum[s] => dinode'[i] = dinode[i]
      /\ dinode'[inum[s]].type = T_FILE /\ dinode'[inum[s]].nlink = k
  BY <1>1, <1>3, <1>4, <1>7, NlinkChanges
<1> HIDE DEF x
<1>9. /\ pc'[p] = "iput" /\ pc' \in [Proc -> Places]
      /\ \A q \in Proc : q # p => pc'[q] = pc[q]
  BY <1>1 DEF Typed, Places
<1>10. EntriesOK' /\ FreeingLocks' /\ CopyOK' /\ TruncOK' /\ valid' \in [Slot -> BOOLEAN]
  <2> HIDE DEF IInv
  <2>1. Changed(p, s, x) BY <1>1, <1>8, <1>9 DEF Changed
  <2> HIDE DEF s
  <2> QED BY <1>3, <2>1, ChangeKeeps
<1>11. Typed' BY <1>1, <1>8, <1>9, <1>10 DEF Typed
<1>12. PlacesOK' BY <1>1, <1>2, <1>9 DEF PlacesOK
<1>13. RefsCounted' BY <1>1 DEF RefsCounted
<1>14. DirOK' BY <1>1, <1>9 DEF DirOK
<1>15. LinksCounted'
  <2>1. Linking[p] = inum[s] /\ Linking'[p] = NULL BY <1>1, <1>9 DEF Linking
  <2>2. \A q \in Proc : q # p => Linking'[q] = Linking[q] BY <1>1, <1>9 DEF Linking
  <2>3. ASSUME NEW i \in Inum
        PROVE  dinode'[i].nlink + One(Linking[p] = i) = dinode[i].nlink + One(Linking'[p] = i)
    <3>1. dinode[i].nlink \in Nat /\ i # NULL BY Finite DEF Typed, IsCopy
    <3> HIDE DEF Linking
    <3> QED BY <1>3, <1>6, <1>7, <1>8, <2>1, <3>1 DEF One
  <2> QED BY <1>1, <1>8, <2>1, <2>2, <2>3, LinksStay
<1>16. UsedOK'
  <2>1. \A i \in Inum : dinode[i].type = T_FILE => dinode'[i].type = T_FILE BY <1>8
  <2>2. \A q \in Proc : pc'[q] \in Using => pc[q] \in Using /\ ip[q] # NULL
    BY <1>1, <1>9 DEF Using, PlacesOK
  <2> QED BY <1>1, <2>1, <2>2, Held, NamedOrFree DEF UsedOK, UsedLives
<1>17. CreateOK'
  <2> SUFFICES ASSUME NEW q \in Proc, pc'[q] = "create"
               PROVE  /\ dinode'[inum'[ip'[q]]].nlink = 0
                      /\ \A r \in Proc : (ip'[r] = ip'[q] /\ r # q => pc'[r] \in {"freed", "drop"})
                                         /\ fd'[r] # ip'[q]
    BY DEF CreateOK
  <2>1. q # p /\ pc[q] = "create" BY <1>9
  <2>2. ip[q] # ip[p] /\ inum[ip[q]] # inum[s] BY <1>1, <2>1, OthersNew DEF Using
  <2>3. inum[ip[q]] \in Inum BY <2>1, Held DEF PlacesOK
  <2> QED BY <1>1, <1>8, <1>9, <2>1, <2>2, <2>3 DEF CreateOK
<1> QED BY <1>10, <1>11, <1>12, <1>13, <1>14, <1>15, <1>16, <1>17

LEMMA UnlinkDoneKeeps == ASSUME IInv, NEW p \in Proc, UnlinkDone(p) PROVE IInv'
<1> USE DEF IInv
<1> DEFINE s == ip[p]
           n == name[p]
           k == Ilock(s).nlink - 1
           x == [Ilock(s) EXCEPT !.nlink = k]
<1>1. /\ pc[p] = "unlink" /\ lock[s] = NULL /\ Iupdate(s, x)
      /\ dir' = [dir EXCEPT ![n] = NULL] /\ dirlock' = NULL /\ name' = [name EXCEPT ![p] = NULL]
      /\ valid' = [valid EXCEPT ![s] = TRUE] /\ pc' = [pc EXCEPT ![p] = "iput"]
      /\ UNCHANGED <<inum, ref, lock, ip, fd>>
  BY DEF UnlinkDone, Locks, SetValid, Go
<1>2. s # NULL /\ n \in Name BY <1>1 DEF PlacesOK
<1>3. s \in Slot /\ ref[s] > 0 /\ inum[s] \in Inum BY <1>2, Held
<1>4. dinode[inum[s]].type = T_FILE BY <1>1 DEF UsedOK, Using
<1>5. Ilock(s).nlink = dinode[inum[s]].nlink BY <1>1, <1>3, <1>4, IlockFinds
<1>6. dir[n] = inum[s] /\ dinode[inum[s]].nlink \in Nat \ {0}
  <2>1. dinode[inum[s]].nlink \in Nat BY <1>3 DEF Typed, IsCopy
  <2>2. dir[n] = inum[s] BY <1>1 DEF DirOK
  <2> QED BY <1>2, <1>3, <2>1, <2>2, Unlinked
<1>7. k \in Nat /\ k = dinode[inum[s]].nlink - 1 BY <1>5, <1>6
<1> HIDE DEF k
<1>8. /\ x.type = T_FILE /\ x.nlink = k
      /\ inode' = [t \in Slot |-> inode'[t]] /\ dinode' = [i \in Inum |-> dinode'[i]]
      /\ \A t \in Slot : IsCopy(inode'[t]) /\ (t # s => inode'[t] = inode[t])
      /\ inode'[s] = x
      /\ \A i \in Inum : /\ IsCopy(dinode'[i]) /\ dinode'[i].nlink \in Nat
                         /\ i # inum[s] => dinode'[i] = dinode[i]
      /\ dinode'[inum[s]].type = T_FILE /\ dinode'[inum[s]].nlink = k
  BY <1>1, <1>3, <1>4, <1>7, NlinkChanges
<1> HIDE DEF x
<1>9. /\ pc'[p] = "iput" /\ pc' \in [Proc -> Places]
      /\ \A q \in Proc : q # p => pc'[q] = pc[q] /\ name'[q] = name[q]
      /\ name' = [q \in Proc |-> name'[q]]
      /\ dir' \in [Name -> Inum \cup {NULL}] /\ dir'[n] = NULL
      /\ \A m \in Name : m # n => dir'[m] = dir[m]
  BY <1>1, <1>2 DEF Typed, Places
<1>10. EntriesOK' /\ FreeingLocks' /\ CopyOK' /\ TruncOK' /\ valid' \in [Slot -> BOOLEAN]
  <2> HIDE DEF IInv
  <2>1. Changed(p, s, x) BY <1>1, <1>8, <1>9 DEF Changed
  <2> HIDE DEF s
  <2> QED BY <1>3, <2>1, ChangeKeeps
<1>11. Typed' BY <1>1, <1>8, <1>9, <1>10 DEF Typed
<1>12. PlacesOK' BY <1>1, <1>2, <1>9 DEF PlacesOK
<1>13. RefsCounted' BY <1>1 DEF RefsCounted
<1>14. DirOK' BY <1>1, <1>9, Finite DEF DirOK
<1>15. LinksCounted'
  <2>1. Linking[p] = NULL /\ Linking'[p] = NULL BY <1>1, <1>9 DEF Linking
  <2>2. \A q \in Proc : q # p => Linking'[q] = Linking[q] BY <1>1, <1>9 DEF Linking
  <2>3. ASSUME NEW i \in Inum
        PROVE  dinode'[i].nlink + One(dir[n] = i) + One(Linking[p] = i)
                 = dinode[i].nlink + One(dir'[n] = i) + One(Linking'[p] = i)
    <3>1. dinode[i].nlink \in Nat /\ i # NULL BY Finite DEF Typed, IsCopy
    <3> HIDE DEF Linking, n
    <3> QED BY <1>3, <1>6, <1>7, <1>8, <1>9, <2>1, <3>1 DEF One
  <2> HIDE DEF n, Linking
  <2> QED BY <1>2, <1>8, <1>9, <2>2, <2>3, LinksChange
<1>16. UsedOK'
  <2>1. \A i \in Inum : dinode[i].type = T_FILE => dinode'[i].type = T_FILE BY <1>8
  <2>2. \A q \in Proc : pc'[q] \in Using => pc[q] \in Using /\ ip[q] # NULL
    BY <1>1, <1>9 DEF Using, PlacesOK
  <2>3. \A m \in Name : dir'[m] # NULL => dir'[m] = dir[m] BY <1>9
  <2> QED BY <1>1, <2>1, <2>2, <2>3, Held, NamedOrFree DEF UsedOK, UsedLives
<1>17. CreateOK' BY <1>1, <1>9 DEF CreateOK, DirOK
<1> QED BY <1>10, <1>11, <1>12, <1>13, <1>14, <1>15, <1>16, <1>17

LEMMA CreateDoneKeeps == ASSUME IInv, NEW p \in Proc, CreateDone(p) PROVE IInv'
<1> USE DEF IInv
<1> DEFINE s == ip[p]
           n == name[p]
           x == [Ilock(s) EXCEPT !.nlink = 1]
<1>1. /\ pc[p] = "create" /\ lock[s] = NULL /\ Iupdate(s, x)
      /\ dir' = [dir EXCEPT ![n] = inum[s]] /\ dirlock' = NULL /\ name' = [name EXCEPT ![p] = NULL]
      /\ valid' = [valid EXCEPT ![s] = TRUE] /\ FileAlloc(p)
      /\ UNCHANGED <<inum, ref, lock>>
  BY DEF CreateDone, Locks, SetValid
<1>2. s # NULL /\ n \in Name BY <1>1 DEF PlacesOK
<1>3. s \in Slot /\ ref[s] > 0 /\ inum[s] \in Inum BY <1>2, Held
<1>4. dinode[inum[s]].type = T_FILE BY <1>1 DEF UsedOK, Using
<1>5. dir[n] = NULL /\ dinode[inum[s]].nlink = 0 BY <1>1 DEF DirOK, CreateOK
<1>6. 1 \in Nat OBVIOUS
<1>7. /\ x.type = T_FILE /\ x.nlink = 1
      /\ inode' = [t \in Slot |-> inode'[t]] /\ dinode' = [i \in Inum |-> dinode'[i]]
      /\ \A t \in Slot : IsCopy(inode'[t]) /\ (t # s => inode'[t] = inode[t])
      /\ inode'[s] = x
      /\ \A i \in Inum : /\ IsCopy(dinode'[i]) /\ dinode'[i].nlink \in Nat
                         /\ i # inum[s] => dinode'[i] = dinode[i]
      /\ dinode'[inum[s]].type = T_FILE /\ dinode'[inum[s]].nlink = 1
  BY <1>1, <1>3, <1>4, <1>6, NlinkChanges
<1> HIDE DEF x
<1>8. /\ \/ fd'[p] = ip[p] /\ ip'[p] = NULL /\ pc'[p] = "user"
         \/ fd'[p] = fd[p] /\ ip'[p] = ip[p] /\ pc'[p] = "iput"
      /\ \A q \in Proc : q # p => pc'[q] = pc[q] /\ ip'[q] = ip[q] /\ fd'[q] = fd[q]
      /\ pc' \in [Proc -> Places] /\ ip' \in [Proc -> Slot \cup {NULL}]
      /\ fd' \in [Proc -> Slot \cup {NULL}]
      /\ RefsCounted'
  BY <1>1, FileAllocFacts
<1>9. /\ \A q \in Proc : q # p => name'[q] = name[q]
      /\ name' = [q \in Proc |-> name'[q]]
      /\ dir' \in [Name -> Inum \cup {NULL}] /\ dir'[n] = inum[s]
      /\ \A m \in Name : m # n => dir'[m] = dir[m]
  BY <1>1, <1>2, <1>3 DEF Typed
<1>10. EntriesOK' /\ FreeingLocks' /\ CopyOK' /\ TruncOK' /\ valid' \in [Slot -> BOOLEAN]
  <2> HIDE DEF IInv
  <2>1. Changed(p, s, x) BY <1>1, <1>7, <1>8 DEF Changed
  <2> HIDE DEF s
  <2> QED BY <1>3, <2>1, ChangeKeeps
<1>11. Typed' BY <1>1, <1>7, <1>8, <1>9, <1>10 DEF Typed
<1>12. PlacesOK' BY <1>1, <1>2, <1>8, <1>9 DEF PlacesOK
<1>13. DirOK' BY <1>1, <1>8, <1>9, Finite DEF DirOK
<1>14. LinksCounted'
  <2>1. Linking[p] = NULL /\ Linking'[p] = NULL BY <1>1, <1>8 DEF Linking
  <2>2. \A q \in Proc : q # p => Linking'[q] = Linking[q] BY <1>1, <1>8 DEF Linking
  <2>3. ASSUME NEW i \in Inum
        PROVE  dinode'[i].nlink + One(dir[n] = i) + One(Linking[p] = i)
                 = dinode[i].nlink + One(dir'[n] = i) + One(Linking'[p] = i)
    <3>1. dinode[i].nlink \in Nat /\ i # NULL BY Finite DEF Typed, IsCopy
    <3> HIDE DEF Linking, n
    <3> QED BY <1>3, <1>5, <1>7, <1>9, <2>1, <3>1 DEF One
  <2> HIDE DEF n, Linking
  <2> QED BY <1>2, <1>7, <1>9, <2>2, <2>3, LinksChange
<1>15. UsedOK'
  <2>1. \A i \in Inum : dinode[i].type = T_FILE => dinode'[i].type = T_FILE BY <1>7
  <2>2. \A q \in Proc : pc'[q] \in Using => pc[q] \in Using /\ ip[q] # NULL /\ ip'[q] = ip[q]
    BY <1>1, <1>2, <1>8 DEF Using, PlacesOK
  <2>3. \A m \in Name : dir'[m] # NULL => dir'[m] = dir[m] \/ dir'[m] = inum[s] BY <1>9
  <2>4. \A q \in Proc : fd'[q] # NULL => fd'[q] = fd[q] \/ fd'[q] = s BY <1>8
  <2>5. UsedLives' BY <1>1, <1>7, <2>1, <2>3, <2>4, Held, NamedOrFree DEF UsedOK, UsedLives
  <2>6. \A q \in Proc : pc'[q] \in Using => dinode'[inum'[ip'[q]]].type = T_FILE
    BY <1>1, <2>1, <2>2, Held DEF UsedOK
  <2> QED BY <2>5, <2>6 DEF UsedOK
<1>16. CreateOK' BY <1>1, <1>8 DEF CreateOK, DirOK
<1> QED BY <1>8, <1>10, <1>11, <1>12, <1>13, <1>14, <1>15, <1>16

LEMMA LinkEntersKeeps == ASSUME IInv, NEW p \in Proc, LinkEnters(p) PROVE IInv'
<1> USE DEF IInv
<1> DEFINE s == ip[p]
           n == name[p]
<1>1. /\ pc[p] = "dirlink" /\ dirlock = NULL /\ name' = [name EXCEPT ![p] = NULL]
      /\ UNCHANGED <<dinode, inum, ref, valid, inode, lock, dirlock, ip, fd>>
      /\ \/ dir[n] = NULL /\ dir' = [dir EXCEPT ![n] = inum[s]] /\ pc' = [pc EXCEPT ![p] = "iput"]
         \/ dir' = dir /\ pc' = [pc EXCEPT ![p] = "bad"]
  BY DEF LinkEnters, cache, Go
<1>2. s # NULL /\ n \in Name BY <1>1 DEF PlacesOK
<1>3. s \in Slot /\ ref[s] > 0 /\ inum[s] \in Inum BY <1>2, Held
<1>4. dinode[inum[s]].type = T_FILE BY <1>1 DEF UsedOK, Using
<1>5. /\ pc'[p] \in {"iput", "bad"} /\ pc' \in [Proc -> Places]
      /\ \A q \in Proc : q # p => name'[q] = name[q] /\ pc'[q] = pc[q]
      /\ name' = [q \in Proc |-> name'[q]]
      /\ dir' \in [Name -> Inum \cup {NULL}]
      /\ \A m \in Name : m # n => dir'[m] = dir[m]
      /\ \/ dir[n] = NULL /\ dir'[n] = inum[s] /\ pc'[p] = "iput"
         \/ dir'[n] = dir[n] /\ pc'[p] = "bad"
  BY <1>1, <1>2, <1>3 DEF Typed, Places
<1>6. Typed' BY <1>1, <1>5 DEF Typed
<1>7. PlacesOK' BY <1>1, <1>2, <1>5 DEF PlacesOK
<1>8. EntriesOK' BY <1>1 DEF EntriesOK, OneEntry
<1>9. RefsCounted' BY <1>1 DEF RefsCounted
<1>10. DirOK' BY <1>1, <1>5, Finite DEF DirOK
<1>11. FreeingLocks' BY <1>1, <1>5 DEF FreeingLocks
<1>12. CopyOK' BY <1>1, <1>5 DEF CopyOK, Freeing
<1>13. LinksCounted'
  <2>1. Linking[p] = inum[s] /\ Linking'[p] = IF pc'[p] = "bad" THEN inum[s] ELSE NULL
    BY <1>1, <1>5 DEF Linking
  <2>2. \A q \in Proc : q # p => Linking'[q] = Linking[q] BY <1>1, <1>5 DEF Linking
  <2>3. ASSUME NEW i \in Inum
        PROVE  dinode'[i].nlink + One(dir[n] = i) + One(Linking[p] = i)
                 = dinode[i].nlink + One(dir'[n] = i) + One(Linking'[p] = i)
    <3>1. dinode[i].nlink \in Nat /\ i # NULL BY Finite DEF Typed, IsCopy
    <3> HIDE DEF Linking, n
    <3> QED BY <1>1, <1>3, <1>5, <2>1, <3>1 DEF One
  <2>4. \A i \in Inum : dinode'[i].nlink \in Nat BY <1>1 DEF Typed, IsCopy
  <2> HIDE DEF n, Linking
  <2> QED BY <1>2, <1>5, <2>2, <2>3, <2>4, LinksChange
<1>14. UsedOK'
  <2>1. \A q \in Proc : pc'[q] \in Using => pc[q] \in Using BY <1>1, <1>5 DEF Using
  <2>2. \A m \in Name : dir'[m] # NULL => dir'[m] = dir[m] \/ dir'[m] = inum[s] BY <1>5
  <2> QED BY <1>1, <1>4, <2>1, <2>2 DEF UsedOK, UsedLives
<1>15. CreateOK' BY <1>1, <1>5 DEF CreateOK
<1>16. TruncOK' BY <1>1, <1>5 DEF TruncOK
<1> QED BY <1>6, <1>7, <1>8, <1>9, <1>10, <1>11, <1>12, <1>13, <1>14, <1>15, <1>16

LEMMA WriteKeeps ==
  ASSUME IInv, NEW p \in Proc, NEW bn \in 0 .. MaxSize - 1, NEW w \in Data, Write(p, bn, w) PROVE IInv'
<1> USE DEF IInv
<1> DEFINE s == fd[p]
           y == Bmap(disk, Ilock(s), bn).ip
           x == [y EXCEPT !.size = bn + 1]
<1>1. /\ pc[p] = "user" /\ s # NULL /\ lock[s] = NULL
      /\ Iupdate(s, x) \/ (inode' = [inode EXCEPT ![s] = y] /\ dinode' = dinode)
      /\ valid' = [valid EXCEPT ![s] = TRUE]
      /\ UNCHANGED <<dir, inum, ref, lock, dirlock, pc, ip, name, fd>>
  <2> HIDE DEF IInv
  <2>1. /\ User(p) /\ s # NULL /\ lock[s] = NULL
        /\ IF bn = Ilock(s).size THEN Iupdate(s, x)
           ELSE inode' = [inode EXCEPT ![s] = y] /\ UNCHANGED dinode
        /\ SetValid(s) /\ UNCHANGED <<dir, inum, ref, lock, dirlock, pc, ip, name, fd>>
    BY Zenon DEF Write, NULL
  <2> HIDE DEF x, y, s
  <2> QED BY <2>1 DEF User, SetValid
<1>2. s \in Slot /\ ref[s] > 0 /\ inum[s] \in Inum BY <1>1, Held
<1>3. dinode[inum[s]].type = T_FILE BY <1>1 DEF UsedOK, UsedLives
<1>4. IsCopy(Ilock(s)) /\ Ilock(s).type = T_FILE /\ Ilock(s).nlink = dinode[inum[s]].nlink
  BY <1>1, <1>2, <1>3, IlockFinds
<1>5. IsCopy(y) /\ y.type = T_FILE /\ y.nlink = dinode[inum[s]].nlink BY <1>4, BmapKeeps
<1> HIDE DEF y
<1>6. IsCopy(x) /\ x.type = T_FILE /\ x.nlink = dinode[inum[s]].nlink BY <1>5 DEF IsCopy
<1> HIDE DEF x
<1>7. PICK z \in {x, y} : Iupdate(s, z) \/ (inode' = [inode EXCEPT ![s] = z] /\ dinode' = dinode)
  BY <1>1
<1>8. z.type = T_FILE /\ z.nlink = dinode[inum[s]].nlink /\ IsCopy(z) BY <1>5, <1>6, <1>7
<1>9. /\ inode' = [t \in Slot |-> inode'[t]] /\ dinode' = [i \in Inum |-> dinode'[i]]
      /\ \A t \in Slot : IsCopy(inode'[t]) /\ (t # s => inode'[t] = inode[t])
      /\ inode'[s] = z
      /\ \A i \in Inum : IsCopy(dinode'[i]) /\ (i # inum[s] => dinode'[i] = dinode[i])
      /\ dinode'[inum[s]].type = T_FILE /\ dinode'[inum[s]].nlink = z.nlink
  <2>1. CASE Iupdate(s, z) BY <1>2, <1>8, <2>1, IupdateFacts
  <2>2. CASE inode' = [inode EXCEPT ![s] = z] /\ dinode' = dinode
    BY <1>2, <1>3, <1>8, <2>2 DEF Typed
  <2> QED BY <1>7, <2>1, <2>2
<1>10. \A i \in Inum : /\ dinode'[i].nlink = dinode[i].nlink /\ dinode'[i].nlink \in Nat
                       /\ dinode[i].type = T_FILE => dinode'[i].type = T_FILE
  <2>1. \A i \in Inum : dinode'[i].nlink \in Nat BY <1>9 DEF IsCopy
  <2> QED BY <1>8, <1>9, <2>1
<1>11. EntriesOK' /\ FreeingLocks' /\ CopyOK' /\ TruncOK' /\ valid' \in [Slot -> BOOLEAN]
  <2> HIDE DEF IInv
  <2>1. Changed(p, s, z) BY <1>1, <1>8, <1>9 DEF Changed
  <2> HIDE DEF s
  <2> QED BY <1>2, <2>1, ChangeKeeps
<1>12. Typed' BY <1>1, <1>9, <1>11 DEF Typed
<1>13. PlacesOK' BY <1>1 DEF PlacesOK
<1>14. RefsCounted' BY <1>1 DEF RefsCounted
<1>15. DirOK' BY <1>1 DEF DirOK
<1>16. LinksCounted' BY <1>1, <1>10 DEF LinksCounted
<1>17. UsedOK'
  <2>1. \A q \in Proc : pc'[q] \in Using => pc[q] \in Using /\ ip[q] # NULL
    BY <1>1 DEF Using, PlacesOK
  <2> QED BY <1>1, <1>10, <2>1, Held, NamedOrFree DEF UsedOK, UsedLives
<1>18. CreateOK'
  <2>1. \A q \in Proc : pc[q] = "create" => inum[ip[q]] \in Inum BY Held DEF PlacesOK
  <2> QED BY <1>1, <1>10, <2>1 DEF CreateOK
<1> QED BY <1>11, <1>12, <1>13, <1>14, <1>15, <1>16, <1>17, <1>18

-----------------------------------------------------------------------------
(* close and iput *)

LEMMA CloseKeeps == ASSUME IInv, NEW p \in Proc, Close(p) PROVE IInv'
<1> USE DEF IInv
<1>1. /\ pc[p] = "user" /\ fd[p] # NULL /\ ip' = [ip EXCEPT ![p] = fd[p]]
      /\ fd' = [fd EXCEPT ![p] = NULL] /\ pc' = [pc EXCEPT ![p] = "iput"]
      /\ UNCHANGED <<dinode, dir, inum, ref, valid, inode, lock, dirlock, name>>
  BY DEF Close, Idle, User, Go, store, cache
<1>2. fd[p] \in Slot /\ ref[fd[p]] > 0 /\ inum[fd[p]] \in Inum BY <1>1, Held
<1>3. ip[p] = NULL BY <1>1 DEF PlacesOK
<1>4. /\ ip'[p] = fd[p] /\ fd'[p] = NULL /\ pc'[p] = "iput"
      /\ \A q \in Proc : q # p => ip'[q] = ip[q] /\ fd'[q] = fd[q] /\ pc'[q] = pc[q]
      /\ ip' \in [Proc -> Slot \cup {NULL}] /\ fd' \in [Proc -> Slot \cup {NULL}]
      /\ pc' \in [Proc -> Places]
  BY <1>1, <1>2 DEF Typed, Places
<1>5. Typed' BY <1>1, <1>4 DEF Typed
<1>6. PlacesOK' BY <1>1, <1>2, <1>4, Finite DEF PlacesOK
<1>7. EntriesOK' BY <1>1 DEF EntriesOK, OneEntry
<1>8. RefsCounted'
  <2>1. ASSUME NEW t \in Slot
        PROVE  ref'[t] + One(ip[p] = t) + One(fd[p] = t) = ref[t] + One(ip'[p] = t) + One(fd'[p] = t)
    <3>1. t # NULL /\ ref[t] \in Nat BY Finite DEF Typed
    <3> QED BY <1>1, <1>3, <1>4, <3>1 DEF One
  <2>2. ref' \in [Slot -> Nat] BY <1>1 DEF Typed
  <2> QED BY <1>4, <2>1, <2>2, RefsChange
<1>9. DirOK' BY <1>1, <1>4 DEF DirOK
<1>10. FreeingLocks' BY <1>1, <1>4 DEF FreeingLocks
<1>11. CopyOK' BY <1>1, <1>3, <1>4 DEF CopyOK, Freeing
<1>12. LinksCounted'
  <2>1. \A q \in Proc : Linking'[q] = Linking[q] BY <1>1, <1>4 DEF Linking
  <2>2. \A i \in Inum : dinode'[i].nlink \in Nat BY <1>1 DEF Typed, IsCopy
  <2> QED BY <1>1, <2>1, <2>2, LinksStay
<1>13. UsedOK' BY <1>1, <1>4 DEF UsedOK, UsedLives
<1>14. CreateOK' BY <1>1, <1>2, <1>4, Finite DEF CreateOK, PlacesOK
<1>15. TruncOK' BY <1>1, <1>4 DEF TruncOK
<1> QED BY <1>5, <1>6, <1>7, <1>8, <1>9, <1>10, <1>11, <1>12, <1>13, <1>14, <1>15

LEMMA IputKeeps == ASSUME IInv, NEW p \in Proc, Iput(p) PROVE IInv'
<1> USE DEF IInv
<1> DEFINE s == ip[p]
<1>1. /\ pc[p] = "iput" /\ lock[s] = NULL
      /\ UNCHANGED <<dinode, dir, inum, ref, valid, inode, dirlock, ip, name, fd>>
      /\ \/ /\ valid[s] /\ inode[s].nlink = 0 /\ ref[s] = 1
            /\ lock' = [lock EXCEPT ![s] = p] /\ pc' = [pc EXCEPT ![p] = "itrunc"]
         \/ lock' = lock /\ pc' = [pc EXCEPT ![p] = "drop"]
  BY DEF Iput, Locks, Go, store
<1>2. s # NULL BY <1>1 DEF PlacesOK
<1>3. s \in Slot /\ ref[s] > 0 /\ inum[s] \in Inum BY <1>2, Held
<1>4. /\ pc'[p] \in {"itrunc", "drop"} /\ pc' \in [Proc -> Places]
      /\ \A q \in Proc : q # p => pc'[q] = pc[q]
      /\ lock' \in [Slot -> Proc \cup {NULL}] /\ \A t \in Slot : t # s => lock'[t] = lock[t]
      /\ pc'[p] = "itrunc" => valid[s] /\ inode[s].nlink = 0 /\ ref[s] = 1 /\ lock'[s] = p
  BY <1>1, <1>3 DEF Typed, Places
<1>5. ~Freeing(s) BY <1>1, Finite DEF Freeing, FreeingLocks
<1>6. pc'[p] = "itrunc" => dinode[inum[s]].nlink = 0 BY <1>3, <1>4, <1>5 DEF CopyOK
<1>7. Typed' BY <1>1, <1>4 DEF Typed
<1>8. PlacesOK' BY <1>1, <1>2, <1>4 DEF PlacesOK
<1>9. EntriesOK' BY <1>1 DEF EntriesOK, OneEntry
<1>10. RefsCounted' BY <1>1 DEF RefsCounted
<1>11. DirOK' BY <1>1, <1>4 DEF DirOK
<1>12. FreeingLocks'
  <2>1. ASSUME NEW q \in Proc, pc'[q] \in {"itrunc", "freed"}, q # p PROVE lock'[ip[q]] = q
    <3>1. lock[ip[q]] = q /\ ip[q] # NULL BY <1>4, <2>1 DEF FreeingLocks, PlacesOK
    <3>2. ip[q] \in Slot /\ ip[q] # s BY <1>1, <3>1, Held, Finite
    <3> QED BY <1>4, <3>1, <3>2
  <2> QED BY <1>1, <1>4, <2>1 DEF FreeingLocks
<1>13. CopyOK' BY <1>1, <1>4 DEF CopyOK, Freeing
<1>14. LinksCounted'
  <2>1. \A q \in Proc : Linking'[q] = Linking[q] BY <1>1, <1>4 DEF Linking
  <2>2. \A i \in Inum : dinode'[i].nlink \in Nat BY <1>1 DEF Typed, IsCopy
  <2> QED BY <1>1, <2>1, <2>2, LinksStay
<1>15. UsedOK'
  <2>1. \A q \in Proc : pc'[q] \in Using => pc[q] \in Using BY <1>1, <1>4 DEF Using
  <2> QED BY <1>1, <2>1 DEF UsedOK, UsedLives
<1>16. CreateOK'
  <2>1. \A q \in Proc : pc'[q] = "create" => q # p /\ pc[q] = "create" BY <1>4
  <2>2. \A q \in Proc : pc[q] = "create" => ip[p] # ip[q] BY <1>1 DEF CreateOK
  <2> QED BY <1>1, <1>4, <2>1, <2>2 DEF CreateOK
<1>17. TruncOK' BY <1>1, <1>4, <1>6 DEF TruncOK
<1> QED BY <1>7, <1>8, <1>9, <1>10, <1>11, <1>12, <1>13, <1>14, <1>15, <1>16, <1>17

LEMMA IputFreesKeeps == ASSUME IInv, NEW p \in Proc, IputFrees(p) PROVE IInv'
<1> USE DEF IInv
<1> DEFINE s == ip[p]
           x == [Itrunc(disk, inode[s]).ip EXCEPT !.type = 0, !.size = 0]
<1>1. /\ pc[p] = "itrunc" /\ Iupdate(s, x) /\ pc' = [pc EXCEPT ![p] = "freed"]
      /\ UNCHANGED <<dir, inum, ref, valid, lock, dirlock, ip, name, fd>>
  <2> HIDE DEF IInv
  <2> QED BY DEF IputFrees, Go
<1>2. s # NULL BY <1>1 DEF PlacesOK
<1>3. s \in Slot /\ inum[s] \in Inum BY <1>2, Held
<1>4. valid[s] /\ ref[s] = 1 /\ dinode[inum[s]].nlink = 0 BY <1>1 DEF TruncOK
<1>5. \A q \in Proc : (q # p => ip[q] # s) /\ fd[q] # s BY <1>3, <1>4, Counted
<1>6. inode[s].nlink = 0
  <2>1. ~Freeing(s) BY <1>1, <1>5 DEF Freeing
  <2> QED BY <1>3, <1>4, <2>1 DEF CopyOK
<1>7. IsCopy(x) /\ x.type = 0 /\ x.nlink = 0
  <2>1. IsCopy(inode[s]) BY <1>3 DEF Typed
  <2> QED BY <1>6, <2>1, ItruncKeeps
<1> HIDE DEF x
<1>8. /\ inode' = [t \in Slot |-> inode'[t]] /\ dinode' = [i \in Inum |-> dinode'[i]]
      /\ \A t \in Slot : IsCopy(inode'[t]) /\ (t # s => inode'[t] = inode[t])
      /\ \A i \in Inum : IsCopy(dinode'[i]) /\ (i # inum[s] => dinode'[i] = dinode[i])
      /\ dinode'[inum[s]].nlink = 0
  BY <1>1, <1>3, <1>7, IupdateFacts
<1>9. /\ pc'[p] = "freed" /\ pc' \in [Proc -> Places]
      /\ \A q \in Proc : q # p => pc'[q] = pc[q]
  BY <1>1 DEF Typed, Places
<1>10. \A i \in Inum : dinode'[i].nlink = dinode[i].nlink /\ dinode'[i].nlink \in Nat
  <2>1. \A i \in Inum : dinode'[i].nlink \in Nat BY <1>8 DEF IsCopy
  <2> QED BY <1>4, <1>8, <2>1
<1>11. \A t \in Slot : ref[t] > 0 /\ t # s => inum[t] # inum[s] /\ inum[t] \in Inum
  BY <1>3, <1>4 DEF EntriesOK, OneEntry
<1>12. \A n \in Name : dir[n] # inum[s]
  <2> HIDE DEF s
  <2> QED BY <1>3, <1>4, Unlinked
<1>13. /\ \A q \in Proc : q # p /\ ip[q] # NULL => inum[ip[q]] # inum[s] /\ inum[ip[q]] \in Inum
       /\ \A q \in Proc : fd[q] # NULL => inum[fd[q]] # inum[s] /\ inum[fd[q]] \in Inum
  BY <1>5, <1>11, Held
<1>14. Typed' BY <1>1, <1>8, <1>9 DEF Typed
<1>15. PlacesOK' BY <1>1, <1>2, <1>9 DEF PlacesOK
<1>16. EntriesOK' BY <1>1 DEF EntriesOK, OneEntry
<1>17. RefsCounted' BY <1>1 DEF RefsCounted
<1>18. DirOK' BY <1>1, <1>9 DEF DirOK
<1>19. FreeingLocks' BY <1>1, <1>9 DEF FreeingLocks
<1>20. CopyOK'
  <2> SUFFICES ASSUME NEW t \in Slot, ref'[t] > 0, valid'[t], ~Freeing(t)'
               PROVE  /\ inode'[t].nlink = dinode'[inum'[t]].nlink
                      /\ inode'[t].type = T_FILE /\ dinode'[inum'[t]].type = T_FILE
    BY DEF CopyOK
  <2>1. t # s BY <1>1, <1>9 DEF Freeing
  <2>2. ~Freeing(t) BY <1>1, <1>9 DEF Freeing
  <2> QED BY <1>1, <1>8, <1>11, <2>1, <2>2 DEF CopyOK
<1>21. LinksCounted'
  <2>1. \A q \in Proc : Linking'[q] = Linking[q] BY <1>1, <1>9 DEF Linking
  <2> QED BY <1>1, <1>10, <2>1, LinksStay
<1>22. UsedOK'
  <2>1. \A q \in Proc : pc'[q] \in Using => q # p /\ pc[q] \in Using /\ ip[q] # NULL
    BY <1>9 DEF Using, PlacesOK
  <2> QED BY <1>1, <1>8, <1>12, <1>13, <2>1, NamedOrFree DEF UsedOK, UsedLives
<1>23. CreateOK' BY <1>1, <1>8, <1>9, <1>10, <1>13 DEF CreateOK, PlacesOK
<1>24. TruncOK' BY <1>1, <1>8, <1>9, <1>13 DEF TruncOK, PlacesOK
<1> QED BY <1>14, <1>15, <1>16, <1>17, <1>18, <1>19, <1>20, <1>21, <1>22, <1>23, <1>24

LEMMA IputUnlocksKeeps == ASSUME IInv, NEW p \in Proc, IputUnlocks(p) PROVE IInv'
<1> USE DEF IInv
<1> DEFINE s == ip[p]
<1>1. /\ pc[p] = "freed" /\ valid' = [valid EXCEPT ![s] = FALSE]
      /\ lock' = [lock EXCEPT ![s] = NULL] /\ pc' = [pc EXCEPT ![p] = "drop"]
      /\ UNCHANGED <<dinode, dir, inum, ref, inode, dirlock, ip, name, fd>>
  BY DEF IputUnlocks, Go, store
<1>2. s # NULL /\ lock[s] = p BY <1>1 DEF PlacesOK, FreeingLocks
<1>3. s \in Slot BY <1>2, Held
<1>4. /\ pc'[p] = "drop" /\ pc' \in [Proc -> Places]
      /\ \A q \in Proc : q # p => pc'[q] = pc[q]
      /\ lock' \in [Slot -> Proc \cup {NULL}] /\ valid' \in [Slot -> BOOLEAN] /\ ~valid'[s]
      /\ \A t \in Slot : t # s => lock'[t] = lock[t] /\ (valid'[t] <=> valid[t])
  BY <1>1, <1>3 DEF Typed, Places
<1>5. \A q \in Proc : q # p /\ pc[q] \in {"itrunc", "freed"} => ip[q] \in Slot /\ ip[q] # s
  BY <1>2, Held DEF FreeingLocks, PlacesOK
<1>6. Typed' BY <1>1, <1>4 DEF Typed
<1>7. PlacesOK' BY <1>1, <1>2, <1>4 DEF PlacesOK
<1>8. EntriesOK' BY <1>1 DEF EntriesOK, OneEntry
<1>9. RefsCounted' BY <1>1 DEF RefsCounted
<1>10. DirOK' BY <1>1, <1>4 DEF DirOK
<1>11. FreeingLocks' BY <1>1, <1>4, <1>5 DEF FreeingLocks
<1>12. CopyOK'
  <2>1. \A t \in Slot : valid'[t] => t # s /\ valid[t] BY <1>4
  <2>2. \A t \in Slot : t # s /\ Freeing(t) => Freeing(t)' BY <1>1, <1>4 DEF Freeing
  <2> QED BY <1>1, <2>1, <2>2 DEF CopyOK
<1>13. LinksCounted'
  <2>1. \A q \in Proc : Linking'[q] = Linking[q] BY <1>1, <1>4 DEF Linking
  <2>2. \A i \in Inum : dinode'[i].nlink \in Nat BY <1>1 DEF Typed, IsCopy
  <2> QED BY <1>1, <2>1, <2>2, LinksStay
<1>14. UsedOK' BY <1>1, <1>4 DEF UsedOK, UsedLives, Using
<1>15. CreateOK' BY <1>1, <1>4 DEF CreateOK
<1>16. TruncOK' BY <1>1, <1>4, <1>5 DEF TruncOK
<1> QED BY <1>6, <1>7, <1>8, <1>9, <1>10, <1>11, <1>12, <1>13, <1>14, <1>15, <1>16

LEMMA IputDropsKeeps == ASSUME IInv, NEW p \in Proc, IputDrops(p) PROVE IInv'
<1> USE DEF IInv
<1> DEFINE s == ip[p]
<1>1. /\ pc[p] = "drop" /\ ref' = [ref EXCEPT ![s] = @ - 1] /\ ip' = [ip EXCEPT ![p] = NULL]
      /\ pc' = [pc EXCEPT ![p] = "user"]
      /\ UNCHANGED <<dinode, dir, inum, valid, inode, lock, dirlock, name, fd>>
  BY DEF IputDrops, Go, store
<1>2. s # NULL BY <1>1 DEF PlacesOK
<1>3. s \in Slot /\ ref[s] > 0 BY <1>2, Held
<1>4. /\ pc'[p] = "user" /\ pc' \in [Proc -> Places] /\ ip'[p] = NULL
      /\ ip' \in [Proc -> Slot \cup {NULL}]
      /\ \A q \in Proc : q # p => pc'[q] = pc[q] /\ ip'[q] = ip[q]
      /\ ref' \in [Slot -> Nat] /\ ref'[s] = ref[s] - 1
      /\ \A t \in Slot : (t # s => ref'[t] = ref[t]) /\ (ref'[t] > 0 => ref[t] > 0)
  BY <1>1, <1>3 DEF Typed, Places
<1>5. Typed' BY <1>1, <1>4 DEF Typed
<1>6. PlacesOK' BY <1>1, <1>4 DEF PlacesOK
<1>7. EntriesOK' BY <1>1, <1>4 DEF EntriesOK, OneEntry
<1>8. RefsCounted'
  <2>1. ASSUME NEW t \in Slot
        PROVE  ref'[t] + One(ip[p] = t) + One(fd[p] = t) = ref[t] + One(ip'[p] = t) + One(fd'[p] = t)
    <3>1. t # NULL /\ ref[t] \in Nat BY Finite DEF Typed
    <3> QED BY <1>1, <1>4, <3>1 DEF One
  <2> QED BY <1>1, <1>4, <2>1, RefsChange
<1>9. DirOK' BY <1>1, <1>4 DEF DirOK
<1>10. FreeingLocks' BY <1>1, <1>4 DEF FreeingLocks
<1>11. CopyOK'
  <2>1. \A t \in Slot : Freeing(t) => Freeing(t)' BY <1>1, <1>4 DEF Freeing
  <2> QED BY <1>1, <1>4, <2>1 DEF CopyOK
<1>12. LinksCounted'
  <2>1. \A q \in Proc : Linking'[q] = Linking[q] BY <1>1, <1>4 DEF Linking
  <2>2. \A i \in Inum : dinode'[i].nlink \in Nat BY <1>1 DEF Typed, IsCopy
  <2> QED BY <1>1, <2>1, <2>2, LinksStay
<1>13. UsedOK' BY <1>1, <1>4 DEF UsedOK, UsedLives, Using
<1>14. CreateOK' BY <1>1, <1>4, Finite DEF CreateOK, PlacesOK
<1>15. TruncOK'
  <2>1. \A q \in Proc : pc'[q] = "itrunc" => q # p /\ pc[q] = "itrunc" /\ ip'[q] = ip[q] BY <1>4
  <2>2. \A q \in Proc : pc[q] = "itrunc" => ip[q] \in Slot /\ ref[ip[q]] = 1
    BY Held DEF TruncOK, PlacesOK
  <2>3. \A q \in Proc : pc[q] = "itrunc" /\ q # p => ip[q] # s BY <1>3, <2>2, Counted
  <2> QED BY <1>1, <1>4, <2>1, <2>2, <2>3 DEF TruncOK
<1> QED BY <1>5, <1>6, <1>7, <1>8, <1>9, <1>10, <1>11, <1>12, <1>13, <1>14, <1>15

-----------------------------------------------------------------------------
(* The theorems *)

LEMMA InvInit == Init => IInv
<1> SUFFICES ASSUME Init PROVE IInv OBVIOUS
<1>1. /\ IsCopy(NewDinode(0)) /\ NewDinode(0).nlink = 0 BY DEF IsCopy, NewDinode
<1>2. Typed
  <2>1. \A s \in Slot : inode[s] = NewDinode(0) BY DEF Init
  <2>2. \A i \in Inum : dinode[i] = NewDinode(0) BY DEF Init
  <2> HIDE DEF NewDinode
  <2> QED BY <1>1, <2>1, <2>2 DEF Init, Typed, Places
<1>3. PlacesOK BY DEF Init, PlacesOK
<1>4. EntriesOK BY DEF Init, EntriesOK, OneEntry
<1>5. RefsCounted
  <2>1. ASSUME NEW s \in Slot PROVE {p \in Proc : ip[p] = s} = {} /\ {p \in Proc : fd[p] = s} = {}
    BY Finite DEF Init
  <2>2. Cardinality({}) = 0 BY FS_EmptySet
  <2>3. \A s \in Slot : ref[s] = 0 BY DEF Init
  <2> QED BY <2>1, <2>2, <2>3 DEF RefsCounted
<1>6. DirOK BY Finite DEF Init, DirOK
<1>7. FreeingLocks BY DEF Init, FreeingLocks
<1>8. CopyOK BY DEF Init, CopyOK
<1>9. LinksCounted
  <2>1. ASSUME NEW i \in Inum
        PROVE  /\ {n \in Name : dir[n] = i} = {}
               /\ {p \in Proc : pc[p] \in {"dirlink", "bad"} /\ inum[ip[p]] = i} = {}
    BY Finite DEF Init
  <2>2. Cardinality({}) = 0 BY FS_EmptySet
  <2>3. \A i \in Inum : dinode[i].nlink = 0 BY <1>1 DEF Init
  <2>4. ASSUME NEW i \in Inum
        PROVE  dinode[i].nlink = Cardinality({n \in Name : dir[n] = i})
                 + Cardinality({p \in Proc : pc[p] \in {"dirlink", "bad"} /\ inum[ip[p]] = i})
    BY ONLY <2>1, <2>2, <2>3, <2>4
  <2> QED BY <2>4 DEF LinksCounted
<1>10. UsedOK BY DEF Init, UsedOK, UsedLives, Using
<1>11. CreateOK BY DEF Init, CreateOK
<1>12. TruncOK BY DEF Init, TruncOK
<1> QED BY <1>2, <1>3, <1>4, <1>5, <1>6, <1>7, <1>8, <1>9, <1>10, <1>11, <1>12 DEF IInv

LEMMA InvStays == ASSUME IInv, UNCHANGED vars PROVE IInv'
<1>1. UNCHANGED <<dinode, dir, inum, ref, valid, inode, lock, dirlock, pc, ip, name, fd>>
  BY DEF vars, store, cache
<1>2. Typed' BY <1>1 DEF IInv, Typed
<1>3. PlacesOK' /\ EntriesOK' /\ RefsCounted' BY <1>1 DEF IInv, PlacesOK, EntriesOK, OneEntry, RefsCounted
<1>4. DirOK' /\ FreeingLocks' /\ CopyOK' BY <1>1 DEF IInv, DirOK, FreeingLocks, CopyOK, Freeing
<1>5. LinksCounted' BY <1>1 DEF IInv, LinksCounted
<1>6. UsedOK' /\ CreateOK' /\ TruncOK' BY <1>1 DEF IInv, UsedOK, UsedLives, CreateOK, TruncOK
<1> QED BY <1>2, <1>3, <1>4, <1>5, <1>6 DEF IInv

LEMMA InvInductive == IInv /\ [Next]_vars => IInv'
<1> SUFFICES ASSUME IInv, [Next]_vars PROVE IInv' OBVIOUS
<1>1. CASE UNCHANGED vars BY <1>1, InvStays
<1>2. ASSUME NEW p \in Proc, Enter(p) PROVE IInv'
  BY <1>2, OpenKeeps, CreateKeeps, UnlinkKeeps, LinkKeeps, WriteKeeps, CloseKeeps DEF Enter
<1>3. ASSUME NEW p \in Proc, Continue(p) PROVE IInv'
  BY <1>3, OpenDoneKeeps, CreateDoneKeeps, LinkCountsKeeps, LinkEntersKeeps, LinkUndoneKeeps,
     UnlinkDoneKeeps, IputKeeps, IputFreesKeeps, IputUnlocksKeeps, IputDropsKeeps DEF Continue
<1> QED BY <1>1, <1>2, <1>3 DEF Next

LEMMA Invariant == Spec => []IInv
BY InvInit, InvInductive, PTL DEF Spec

\* An inode has one entry in the cache, whatever the calls, the number of processes
\* and the size of the cache: the sleep lock of the entry (fs.c:164) is the inode's.
THEOREM OneEntryEach == Spec => []OneEntry
<1>1. IInv => OneEntry BY DEF IInv, EntriesOK
<1> QED BY <1>1, Invariant, PTL

\* ref counts the pointers to an entry, those in open files included (iget, idup and iput of
\* fs.c:125), for every number of processes and entries and whatever is interleaved.
THEOREM RefsExact == Spec => []RefsCounted
<1>1. IInv => RefsCounted BY DEF IInv
<1> QED BY <1>1, Invariant, PTL

\* nlink counts the names of an inode and the links under way (create, sys_link, sys_unlink).
THEOREM LinksExact == Spec => []LinksCounted
<1>1. IInv => LinksCounted BY DEF IInv
<1> QED BY <1>1, Invariant, PTL

\* iput never frees, nor ialloc gives out, an inode that has a name or is open.
THEOREM UsedNeverFreed == Spec => []UsedLives
<1>1. IInv => UsedLives BY DEF IInv, UsedOK
<1> QED BY <1>1, Invariant, PTL

\* Together they are what the inode cache promises (fs.c:121).
THEOREM CountsExact == Spec => []InodesCounted
<1>1. IInv => InodesCounted BY DEF IInv, InodesCounted, EntriesOK, UsedOK
<1> QED BY <1>1, Invariant, PTL

\* ilock finds a file, and unlink a link to take: neither panics (fs.c, "ilock: no type";
\* sysfile.c, "unlink: nlink < 1").
LocksFiles ==
  \A p \in Proc : lock[ip[p]] = NULL =>
    /\ pc[p] \in {"open", "create", "link", "bad", "unlink"} => Ilock(ip[p]).type # 0
    /\ pc[p] = "unlink" => Ilock(ip[p]).nlink > 0

THEOREM FilesLocked == Spec => []LocksFiles
<1>1. ASSUME IInv PROVE LocksFiles
  <2> SUFFICES ASSUME NEW p \in Proc, lock[ip[p]] = NULL,
                      pc[p] \in {"open", "create", "link", "bad", "unlink"}
               PROVE  Ilock(ip[p]).type # 0 /\ (pc[p] = "unlink" => Ilock(ip[p]).nlink > 0)
    BY DEF LocksFiles
  <2>1. ip[p] # NULL BY <1>1 DEF IInv, PlacesOK
  <2>2. ip[p] \in Slot /\ ref[ip[p]] > 0 /\ inum[ip[p]] \in Inum BY <1>1, <2>1, Held DEF IInv
  <2>3. dinode[inum[ip[p]]].type = T_FILE BY <1>1 DEF IInv, UsedOK, Using
  <2>4. Ilock(ip[p]).type = T_FILE /\ Ilock(ip[p]).nlink = dinode[inum[ip[p]]].nlink
    BY <1>1, <2>2, <2>3, IlockFinds DEF IInv
  <2>5. pc[p] = "unlink" => dinode[inum[ip[p]]].nlink > 0
    BY <1>1, <2>2, NamedOrFree, Finite DEF IInv, DirOK, PlacesOK
  <2> QED BY <2>4, <2>5 DEF T_FILE
<1> QED BY <1>1, Invariant, PTL

-----------------------------------------------------------------------------
(* Where small files have their blocks *)

Addrs == [0 .. NDIRECT -> Word]

\* The places in which an inode up to its single indirect block names a block: in
\* addrs, and behind those in the single indirect block.
Spot == 0 .. NDIRECT + ENTRYNUM

\* What is in place k of the inode with addresses a.
Named(d, a, k) ==
  IF k <= NDIRECT THEN a[k]
  ELSE IF a[NDIRECT] = 0 THEN 0 ELSE d.data[a[NDIRECT]][k - NDIRECT - 1]

\* The place of block bn of the file.
SpotOf(bn) == IF bn < NDIRECT THEN bn ELSE bn + 1

\* The blocks in use are those that the inodes with addresses A name, each in one place.
Laid(d, A) ==
  /\ \A i \in Inum, k \in Spot : Named(d, A[i], k) # 0 => Named(d, A[i], k) \in d.used
  /\ \A b \in d.used : \E i \in Inum, k \in Spot : Named(d, A[i], k) = b
  /\ \A i, j \in Inum, k, m \in Spot :
       Named(d, A[i], k) = Named(d, A[j], m) /\ Named(d, A[i], k) # 0 => i = j /\ k = m

\* The numbers of blocks and entries are positive; 0 names no block.
LEMMA BlockFacts ==
  /\ NDIRECT \in Nat /\ ENTRYNUM \in Nat /\ NBLOCK \in Nat
  /\ NDIRECT > 0 /\ ENTRYNUM > 0 /\ NBLOCK > 0
  /\ 0 \notin Block /\ 0 \in Word /\ Block \subseteq Word /\ Word \subseteq Nat
  /\ \A w \in Word : w # 0 => w \in Block
BY BlockMapAssumption DEF Block, Word

\* What a place names is a block or 0.
LEMMA NamedWord ==
  ASSUME NEW d \in Disks, NEW a \in Addrs, NEW k \in Spot
  PROVE  Named(d, a, k) \in Word
<1> USE BlockFacts
<1>1. CASE k <= NDIRECT BY <1>1 DEF Named, Spot, Addrs
<1>2. CASE ~(k <= NDIRECT) /\ a[NDIRECT] = 0 BY <1>2 DEF Named
<1>3. CASE ~(k <= NDIRECT) /\ a[NDIRECT] # 0
  <2>0. NDIRECT \in 0 .. NDIRECT /\ d.data \in [Block -> [Entry -> Word]] BY DEF Disks
  <2>1. a[NDIRECT] \in Block BY <2>0, <1>3 DEF Addrs
  <2>2. k - NDIRECT - 1 \in Entry BY <1>3 DEF Spot, Entry
  <2>3. d.data[a[NDIRECT]][k - NDIRECT - 1] \in Word BY <2>0, <2>1, <2>2
  <2> QED BY <1>3, <2>3 DEF Named
<1> QED BY <1>1, <1>2, <1>3

\* A block that is free comes into one place, and nothing else changes.
LEMMA PlaceOne ==
  ASSUME NEW d, NEW A, Laid(d, A), 0 \notin d.used, NEW i \in Inum, NEW k \in Spot, NEW b, b \notin d.used, b # 0,
         NEW e, NEW B, e.used = d.used \cup {b},
         Named(d, A[i], k) = 0, Named(e, B[i], k) = b,
         \A j \in Inum, m \in Spot : (j # i \/ m # k) => Named(e, B[j], m) = Named(d, A[j], m)
  PROVE  Laid(e, B)
<1>1. \A j \in Inum, m \in Spot : Named(e, B[j], m) # 0 => Named(e, B[j], m) \in e.used
  BY DEF Laid
<1>2. \A c \in e.used : \E j \in Inum, m \in Spot : Named(e, B[j], m) = c
  <2> SUFFICES ASSUME NEW c \in e.used PROVE \E j \in Inum, m \in Spot : Named(e, B[j], m) = c
    OBVIOUS
  <2>1. CASE c = b BY <2>1
  <2>2. CASE c # b
    <3>1. c \in d.used BY <2>2
    <3>2. PICK j \in Inum, m \in Spot : Named(d, A[j], m) = c BY <3>1 DEF Laid
    <3>3. CASE j = i /\ m = k
      <4>1. c = 0 BY <3>2, <3>3
      <4> QED BY <3>2, <3>3, <4>1, <3>1 DEF Laid
    <3>4. CASE j # i \/ m # k BY <3>2, <3>4
    <3> QED BY <3>3, <3>4
  <2> QED BY <2>1, <2>2
<1>3. \A j, l \in Inum, m, n \in Spot :
        Named(e, B[j], m) = Named(e, B[l], n) /\ Named(e, B[j], m) # 0 => j = l /\ m = n
  BY DEF Laid
<1> QED BY <1>1, <1>2, <1>3 DEF Laid

-----------------------------------------------------------------------------
(* balloc and bmap *)

\* balloc takes one block that was free, and leaves it zeroed.
LEMMA BallocTakes ==
  ASSUME NEW d \in Disks, FreeBlocks(d) # {}
  PROVE  LET r == Balloc(d)
         IN  /\ r.addr \in Block /\ r.addr \notin d.used /\ r.addr # 0
             /\ r.disk \in Disks /\ r.disk.used = d.used \cup {r.addr}
             /\ r.disk.data[r.addr] = Zeroes
             /\ \A b \in Block : b # r.addr => r.disk.data[b] = d.data[b]
             /\ FreeBlocks(r.disk) = FreeBlocks(d) \ {r.addr}
             /\ r.addr \in FreeBlocks(d)
<1> DEFINE b == Min(FreeBlocks(d))
<1>1. b \in FreeBlocks(d) BY FirstIn DEF FreeBlocks, Block
<1>2. b \in Block /\ b \notin d.used /\ b # 0 BY <1>1, BlockFacts DEF FreeBlocks
<1> DEFINE e == [used |-> d.used \cup {b}, data |-> [d.data EXCEPT ![b] = Zeroes]]
<1>3. Balloc(d) = [disk |-> e, addr |-> b] BY DEF Balloc
<1> HIDE DEF b
<1>4. Zeroes \in [Entry -> Word] BY BlockFacts DEF Zeroes
<1>5. d.used \in SUBSET Block /\ d.data \in [Block -> [Entry -> Word]] BY DEF Disks
<1>6. e.data \in [Block -> [Entry -> Word]] BY <1>2, <1>4, <1>5
<1>7. e \in Disks BY <1>2, <1>5, <1>6 DEF Disks
<1>8. e.data[b] = Zeroes /\ \A c \in Block : c # b => e.data[c] = d.data[c] BY <1>2, <1>5
<1>9. FreeBlocks(e) = FreeBlocks(d) \ {b} BY DEF FreeBlocks
<1>10. e.used = d.used \cup {b} OBVIOUS
<1> HIDE DEF e
<1> QED BY <1>1, <1>2, <1>3, <1>7, <1>8, <1>9, <1>10

Placed(d, A) == d \in Disks /\ A \in [Inum -> Addrs] /\ Laid(d, A)

\* Nothing but place k of inode i changes.
Elsewhere(d, A, e, B, i, k) ==
  \A j \in Inum, m \in Spot : (j # i \/ m # k) => Named(e, B[j], m) = Named(d, A[j], m)

\* Where the single indirect block of an inode is in use, and whose it is.
LEMMA Roots ==
  ASSUME NEW d, NEW A, Placed(d, A), NEW i \in Inum
  PROVE  /\ A[i] \in Addrs /\ A[i][NDIRECT] \in Word /\ NDIRECT \in Spot
         /\ A[i][NDIRECT] # 0 => A[i][NDIRECT] \in d.used
         /\ \A j \in Inum : A[i][NDIRECT] = A[j][NDIRECT] /\ A[i][NDIRECT] # 0 => i = j
<1> USE BlockFacts
<1>1. NDIRECT \in Spot /\ NDIRECT \in 0 .. NDIRECT BY DEF Spot
<1>2. \A j \in Inum : Named(d, A[j], NDIRECT) = A[j][NDIRECT] BY DEF Named
<1> QED BY <1>1, <1>2 DEF Placed, Laid, Addrs

\* A block named in addrs, data or index, is found or comes from balloc (bmap, fs.c of project03).
LEMMA RootPlaced ==
  ASSUME NEW d, NEW A, Placed(d, A), NEW i \in Inum, NEW k \in 0 .. NDIRECT, FreeBlocks(d) # {}
  PROVE  LET r == AtRoot(d, A[i][k])
             B == [A EXCEPT ![i] = [A[i] EXCEPT ![k] = r.addr]]
         IN  /\ Placed(r.disk, B) /\ r.addr \in Block
             /\ Elsewhere(d, A, r.disk, B, i, k)
             /\ A[i][k] # 0 => r.disk = d /\ B = A
             /\ A[i][k] = 0 =>
                  r.addr \in FreeBlocks(d) /\ FreeBlocks(r.disk) = FreeBlocks(d) \ {r.addr}
<1> DEFINE r == AtRoot(d, A[i][k])
           B == [A EXCEPT ![i] = [A[i] EXCEPT ![k] = r.addr]]
<1> USE BlockFacts
<1>1. k \in Spot /\ A[i] \in Addrs /\ A[i][k] \in Word /\ d \in Disks
  BY DEF Spot, Placed, Addrs
<1>2. CASE A[i][k] # 0
  <2>1. r = [disk |-> d, addr |-> A[i][k]] BY <1>2 DEF AtRoot
  <2>2. [A[i] EXCEPT ![k] = A[i][k]] = A[i] BY <1>1 DEF Addrs
  <2>3. B = A BY <2>1, <2>2 DEF Placed
  <2> QED BY <1>1, <1>2, <2>1, <2>3 DEF Elsewhere
<1>3. CASE A[i][k] = 0
  <2>1. r = Balloc(d) BY <1>3 DEF AtRoot
  <2> DEFINE b == r.addr
             e == r.disk
  <2>2. /\ b \in Block /\ b \notin d.used /\ b # 0
        /\ e \in Disks /\ e.used = d.used \cup {b} /\ e.data[b] = Zeroes
        /\ \A c \in Block : c # b => e.data[c] = d.data[c]
        /\ FreeBlocks(e) = FreeBlocks(d) \ {b} /\ b \in FreeBlocks(d)
    BY <1>1, <2>1, BallocTakes
  <2>3. B = [A EXCEPT ![i] = [A[i] EXCEPT ![k] = b]] OBVIOUS
  <2> HIDE DEF b, e, r, B
  <2>4. /\ B \in [Inum -> Addrs] /\ B[i][k] = b
        /\ \A j \in Inum : j # i => B[j] = A[j]
        /\ \A m \in 0 .. NDIRECT : m # k => B[i][m] = A[i][m]
    BY <1>1, <2>2, <2>3 DEF Placed, Addrs
  <2>5. Elsewhere(d, A, e, B, i, k)
    <3> SUFFICES ASSUME NEW j \in Inum, NEW m \in Spot, j # i \/ m # k
                 PROVE  Named(e, B[j], m) = Named(d, A[j], m)
      BY DEF Elsewhere
    <3>1. CASE m <= NDIRECT
      <4>1. m \in 0 .. NDIRECT BY <3>1 DEF Spot
      <4> QED BY <2>4, <3>1, <4>1 DEF Named
    <3>2. CASE ~(m <= NDIRECT)
      <4>1. m - NDIRECT - 1 \in Entry BY <3>2 DEF Spot, Entry
      <4>2. CASE j = i /\ k = NDIRECT
        <5>1. B[j][NDIRECT] = b /\ A[j][NDIRECT] = 0 BY <4>2, <2>4, <1>3
        <5>2. Named(e, B[j], m) = Zeroes[m - NDIRECT - 1] BY <3>2, <5>1, <2>2 DEF Named
        <5> QED BY <3>2, <4>1, <5>1, <5>2 DEF Zeroes, Named
      <4>3. CASE ~(j = i /\ k = NDIRECT)
        <5>1. B[j][NDIRECT] = A[j][NDIRECT] BY <4>3, <2>4
        <5>2. A[j][NDIRECT] # 0 => A[j][NDIRECT] \in Block /\ A[j][NDIRECT] # b
          BY <2>2, Roots DEF Disks
        <5> QED BY <3>2, <5>1, <5>2, <2>2 DEF Named
      <4> QED BY <4>2, <4>3
    <3> QED BY <3>1, <3>2
  <2>6. Named(d, A[i], k) = 0 /\ Named(e, B[i], k) = b BY <1>1, <1>3, <2>4 DEF Named
  <2>7. 0 \notin d.used BY <1>1 DEF Disks
  <2>8. Laid(e, B)
    <3>1. \A j \in Inum, m \in Spot : (j # i \/ m # k) => Named(e, B[j], m) = Named(d, A[j], m)
      BY <2>5 DEF Elsewhere
    <3>2. Laid(d, A) BY DEF Placed
    <3> QED BY ONLY <3>1, <3>2, <2>2, <2>6, <2>7, <1>1, PlaceOne
  <2> QED BY <1>3, <2>2, <2>4, <2>5, <2>8 DEF Placed, b, e, r, B
<1> QED BY <1>2, <1>3

\* Words that change inside the block of one place k of inode i, which is no index block.
LEMMA DataWritten ==
  ASSUME NEW d, NEW A, Placed(d, A), NEW i \in Inum, NEW k \in Spot, k # NDIRECT,
         NEW b, b = Named(d, A[i], k), b # 0, NEW v \in [Entry -> Word],
         NEW e, e = [d EXCEPT !.data = [@ EXCEPT ![b] = v]]
  PROVE  Placed(e, A) /\ b \in Block /\ \A j \in Inum, m \in Spot : Named(e, A[j], m) = Named(d, A[j], m)
<1> USE BlockFacts
<1>1. d \in Disks /\ d.used \in SUBSET Block /\ d.data \in [Block -> [Entry -> Word]]
  BY DEF Placed, Disks
<1>2. b \in d.used /\ b \in Block BY <1>1 DEF Placed, Laid
<1>3. /\ e.used = d.used /\ e.data = [d.data EXCEPT ![b] = v]
      /\ e = [used |-> e.used, data |-> e.data]
  BY <1>1 DEF Disks
<1>4. e.data \in [Block -> [Entry -> Word]] /\ \A c \in Block : c # b => e.data[c] = d.data[c]
  BY <1>1, <1>2, <1>3
<1>5. e \in Disks BY <1>1, <1>3, <1>4 DEF Disks
<1>6. \A j \in Inum : A[j][NDIRECT] # b
  <2> SUFFICES ASSUME NEW j \in Inum, A[j][NDIRECT] = b PROVE FALSE OBVIOUS
  <2>1. Named(d, A[j], NDIRECT) = b /\ NDIRECT \in Spot BY Roots DEF Named
  <2> QED BY <2>1 DEF Placed, Laid
<1>7. \A j \in Inum : A[j][NDIRECT] # 0 => A[j][NDIRECT] \in Block BY Roots, <1>1
<1>8. \A j \in Inum, m \in Spot : Named(e, A[j], m) = Named(d, A[j], m)
  BY <1>4, <1>6, <1>7 DEF Named
<1>9. Laid(e, A) BY <1>3, <1>8 DEF Laid, Placed
<1> QED BY <1>2, <1>5, <1>8, <1>9 DEF Placed

\* The same for a block named in the single indirect block.
LEMMA EntryPlaced ==
  ASSUME NEW d, NEW A, Placed(d, A), NEW i \in Inum, NEW n \in Entry,
         A[i][NDIRECT] # 0, d.data[A[i][NDIRECT]][n] = 0 => FreeBlocks(d) # {},
         NEW r, r = AtEntry([disk |-> d, addr |-> A[i][NDIRECT]], n)
  PROVE  /\ Placed(r.disk, A) /\ r.addr \in Block
         /\ Named(r.disk, A[i], n + NDIRECT + 1) = r.addr
         /\ Elsewhere(d, A, r.disk, A, i, n + NDIRECT + 1)
         /\ d.data[A[i][NDIRECT]][n] # 0 => r.disk = d
<1> USE BlockFacts
<1> DEFINE R == A[i][NDIRECT]
           k == n + NDIRECT + 1
<1>1. /\ k \in Spot /\ ~(k <= NDIRECT) /\ k - NDIRECT - 1 = n
      /\ \A f, a : a[NDIRECT] # 0 => Named(f, a, k) = f.data[a[NDIRECT]][n]
  BY DEF Spot, Entry, Named
<1>2. d \in Disks /\ d.used \in SUBSET Block /\ d.data \in [Block -> [Entry -> Word]]
  BY DEF Placed, Disks
<1>3. R # 0 /\ R \in d.used /\ R \in Block BY <1>2, Roots
<1>4. Named(d, A[i], k) = d.data[R][n] BY <1>1, <1>3 DEF Named
<1>5. CASE d.data[R][n] # 0
  <2>1. r = [disk |-> d, addr |-> d.data[R][n]] BY <1>5 DEF AtEntry
  <2>2. d.data[R][n] \in Word BY <1>2, <1>3
  <2>3. r.disk = d /\ r.addr = d.data[R][n] BY <2>1
  <2>4. r.addr \in Block BY <1>5, <2>2, <2>3
  <2>5. Named(r.disk, A[i], k) = r.addr BY <1>4, <2>3
  <2> QED BY <2>3, <2>4, <2>5 DEF Elsewhere
<1>6. CASE d.data[R][n] = 0
  <2> DEFINE f == Balloc(d)
             b == f.addr
             D == f.disk
             e == [used |-> D.used, data |-> [D.data EXCEPT ![R] = [@ EXCEPT ![n] = b]]]
  <2>1. r = [f EXCEPT !.disk.data[R][n] = f.addr]
    <3>1. AtEntry([disk |-> d, addr |-> R], n) = [f EXCEPT !.disk.data[R][n] = f.addr]
      BY <1>6 DEF AtEntry
    <3> QED BY <3>1
  <2>2. f = [disk |-> D, addr |-> b] BY DEF Balloc
  <2>3. D = [used |-> D.used, data |-> D.data] BY DEF Balloc
  <2>4. /\ b \in Block /\ b \notin d.used /\ b # 0
        /\ D \in Disks /\ D.used = d.used \cup {b}
        /\ \A c \in Block : c # b => D.data[c] = d.data[c]
    BY <1>2, <1>6, BallocTakes
  <2> HIDE DEF f, D, b
  <2>5. r.disk = [D EXCEPT !.data[R][n] = b] /\ r.addr = b BY <2>1, <2>2 DEF b, D
  <2>6. r.disk = e BY <2>3, <2>5
  <2>7. D.data \in [Block -> [Entry -> Word]] BY <2>4 DEF Disks
  <2>8. /\ e.used = d.used \cup {b} /\ e = [used |-> e.used, data |-> e.data]
        /\ e.data = [D.data EXCEPT ![R] = [D.data[R] EXCEPT ![n] = b]]
    BY <2>4
  <2> HIDE DEF e
  <2>9. /\ e.data \in [Block -> [Entry -> Word]] /\ e.data[R][n] = b
        /\ \A m \in Entry : m # n => e.data[R][m] = D.data[R][m]
        /\ \A c \in Block : c # R => e.data[c] = D.data[c]
    BY <1>3, <2>4, <2>7, <2>8
  <2>13. e \in Disks BY <1>2, <2>4, <2>8, <2>9 DEF Disks
  <2>10. Elsewhere(d, A, e, A, i, k)
    <3> SUFFICES ASSUME NEW j \in Inum, NEW m \in Spot, j # i \/ m # k
                 PROVE  Named(e, A[j], m) = Named(d, A[j], m)
      BY DEF Elsewhere
    <3>1. CASE m <= NDIRECT \/ A[j][NDIRECT] = 0 BY <3>1 DEF Named
    <3>2. CASE ~(m <= NDIRECT) /\ A[j][NDIRECT] # 0
      <4>1. m - NDIRECT - 1 \in Entry BY <3>2 DEF Spot, Entry
      <4>2. A[j][NDIRECT] \in Block /\ A[j][NDIRECT] # b BY <1>2, <2>4, <3>2, Roots
      <4>3. CASE j = i
        <5>1. m - NDIRECT - 1 # n BY <4>3 DEF Spot, Entry
        <5> QED BY <3>2, <4>1, <4>2, <4>3, <5>1, <2>4, <2>9 DEF Named
      <4>4. CASE j # i
        <5>1. A[j][NDIRECT] # R BY <3>2, <4>4, Roots
        <5> QED BY <3>2, <4>2, <5>1, <2>4, <2>9 DEF Named
      <4> QED BY <4>3, <4>4
    <3> QED BY <3>1, <3>2
  <2>11. Named(d, A[i], k) = 0 /\ Named(e, A[i], k) = b BY <1>1, <1>3, <1>4, <1>6, <2>9 DEF Named
  <2>12. Laid(e, A)
    <3>1. \A j \in Inum, m \in Spot : (j # i \/ m # k) => Named(e, A[j], m) = Named(d, A[j], m)
      BY <2>10 DEF Elsewhere
    <3>2. Laid(d, A) BY DEF Placed
    <3>3. 0 \notin d.used BY <1>2
    <3>4. k \in Spot BY <1>1
    <3> QED BY ONLY <3>1, <3>2, <3>3, <3>4, <2>4, <2>8, <2>11, PlaceOne
  <2> QED BY <1>6, <2>4, <2>5, <2>6, <2>10, <2>11, <2>12, <2>13 DEF Placed
<1> QED BY <1>5, <1>6

\* As many free blocks as bmap has levels are enough for each balloc on the way.
LEMMA EnoughBlocks ==
  ASSUME NEW d \in Disks, NEW n \in {0, 1}, Cardinality(FreeBlocks(d)) > n
  PROVE  FreeBlocks(d) # {} /\ (n = 1 => \A b : FreeBlocks(d) \ {b} # {})
<1>1. IsFiniteSet(FreeBlocks(d))
  <2>1. IsFiniteSet(Block) BY FS_Interval, BlockFacts DEF Block
  <2> QED BY <2>1, FS_Subset DEF FreeBlocks
<1>2. Cardinality(FreeBlocks(d)) \in Nat BY <1>1, FS_CardinalityType
<1>3. FreeBlocks(d) # {} BY <1>2, FS_EmptySet
<1>4. ASSUME n = 1, NEW b, FreeBlocks(d) \ {b} = {} PROVE FALSE
  <2>1. FreeBlocks(d) = {b} BY <1>3, <1>4
  <2>2. Cardinality({b}) = 1 BY FS_Singleton
  <2> QED BY <1>4, <2>1, <2>2
<1> QED BY <1>3, <1>4

\* A block below NDIRECT is at the root; one behind those is one level below.
LEMMA DepthIs ==
  ASSUME NEW bn \in Nat
  PROVE  /\ bn < NDIRECT => Depth(bn) = 0
         /\ ~(bn < NDIRECT) /\ bn < NDIRECT + ENTRYNUM => Depth(bn) = 1
BY BlockFacts DEF Depth

\* bmap leaves every block in one place, finds a block for bn, and changes no other place of data.
LEMMA BmapPlaces ==
  ASSUME NEW d, NEW A, Placed(d, A), NEW i \in Inum, NEW x \in Dinode, x.addrs = A[i],
         NEW bn \in Nat, bn < NDIRECT + ENTRYNUM, Cardinality(FreeBlocks(d)) > Depth(bn),
         NEW r, r = Bmap(d, x, bn)
  PROVE  /\ SpotOf(bn) \in Spot /\ SpotOf(bn) # NDIRECT
         /\ r.addr \in Block /\ r.ip = [x EXCEPT !.addrs = r.ip.addrs]
         /\ Placed(r.disk, [A EXCEPT ![i] = r.ip.addrs])
         /\ r.ip.addrs \in Addrs
         /\ Named(r.disk, r.ip.addrs, SpotOf(bn)) = r.addr
         /\ \A m \in Spot \ {NDIRECT} :
              m # SpotOf(bn) => Named(r.disk, r.ip.addrs, m) = Named(d, A[i], m)
         /\ \A j \in Inum \ {i}, m \in Spot : Named(r.disk, A[j], m) = Named(d, A[j], m)
         /\ Named(d, A[i], SpotOf(bn)) # 0 => r.ip = x
<1> USE BlockFacts
<1>1. d \in Disks /\ A \in [Inum -> Addrs] /\ A[i] \in Addrs /\ A[i] \in [0 .. NDIRECT -> Word]
  BY DEF Placed, Addrs
<1>2. CASE bn < NDIRECT
  <2>1. Depth(bn) = 0 /\ SpotOf(bn) = bn /\ bn \in Spot /\ bn \in 0 .. NDIRECT /\ bn # NDIRECT
    BY <1>2, DepthIs DEF SpotOf, Spot
  <2>2. FreeBlocks(d) # {} BY <1>1, <2>1, EnoughBlocks
  <2> DEFINE q == AtRoot(d, A[i][bn])
             a == [A[i] EXCEPT ![bn] = q.addr]
             B == [A EXCEPT ![i] = [A[i] EXCEPT ![bn] = q.addr]]
  <2>3. r = [disk |-> q.disk, addr |-> q.addr, ip |-> [x EXCEPT !.addrs[bn] = q.addr]]
    BY <2>1 DEF Bmap
  <2>4. r.disk = q.disk /\ r.addr = q.addr /\ r.ip = [x EXCEPT !.addrs = a]
    BY <2>3
  <2>5. r.ip.addrs = a BY <2>4 DEF Dinode
  <2>6. B = [A EXCEPT ![i] = a] OBVIOUS
  <2> HIDE DEF q
  <2>7. /\ Placed(q.disk, B) /\ q.addr \in Block /\ B[i][bn] = q.addr
        /\ Elsewhere(d, A, q.disk, B, i, bn)
        /\ A[i][bn] # 0 => q.disk = d /\ B = A
    <3>1. q = AtRoot(d, A[i][bn]) BY DEF q
    <3>3. Placed(d, A) /\ i \in Inum OBVIOUS
    <3>4. bn \in 0 .. NDIRECT /\ FreeBlocks(d) # {} BY <2>1, <2>2
    <3>5. /\ Placed(q.disk, B) /\ q.addr \in Block
          /\ Elsewhere(d, A, q.disk, B, i, bn)
          /\ A[i][bn] # 0 => q.disk = d /\ B = A
          /\ A[i][bn] = 0 => q.addr \in FreeBlocks(d) /\ FreeBlocks(q.disk) = FreeBlocks(d) \ {q.addr}
      BY ONLY <3>1, <3>3, <3>4, RootPlaced
    <3>6. B[i][bn] = q.addr BY <1>1, <2>1
    <3> QED BY <3>5, <3>6
  <2> HIDE DEF B, a
  <2>8. B[i] = a /\ \A j \in Inum \ {i} : B[j] = A[j] BY <1>1, <2>6
  <2>9. Named(q.disk, a, bn) = q.addr /\ Named(d, A[i], bn) = A[i][bn]
    BY <2>1, <2>7, <2>8, <1>2 DEF Named
  <2>10. A[i][bn] # 0 => r.ip = x
    <3>1. A[i][bn] # 0 => a = A[i] BY <2>7, <2>8
    <3> QED BY <2>4, <3>1 DEF Dinode
  <2>11. a \in Addrs BY <2>7, <2>8 DEF Placed
  <2>12. \A m \in Spot : m # bn => Named(q.disk, a, m) = Named(d, A[i], m)
    BY <2>7, <2>8 DEF Elsewhere
  <2>13. \A j \in Inum \ {i}, m \in Spot : Named(q.disk, A[j], m) = Named(d, A[j], m)
    BY <2>7, <2>8 DEF Elsewhere
  <2> QED BY <2>1, <2>4, <2>5, <2>6, <2>7, <2>9, <2>10, <2>11, <2>12, <2>13
<1>3. CASE ~(bn < NDIRECT)
  <2> DEFINE n == bn - NDIRECT
             k == n + NDIRECT + 1
  <2>1. Depth(bn) = 1 /\ SpotOf(bn) = k /\ k \in Spot /\ n \in Entry /\ k # NDIRECT
        /\ NDIRECT \in 0 .. NDIRECT /\ NDIRECT \in Spot /\ ~(k <= NDIRECT)
        /\ k - NDIRECT - 1 = n
    BY <1>3, DepthIs DEF SpotOf, Spot, Entry
  <2>2. FreeBlocks(d) # {} /\ \A b : FreeBlocks(d) \ {b} # {} BY <1>1, <2>1, EnoughBlocks
  <2> DEFINE q == AtRoot(d, A[i][NDIRECT])
             a == [A[i] EXCEPT ![NDIRECT] = q.addr]
             B == [A EXCEPT ![i] = [A[i] EXCEPT ![NDIRECT] = q.addr]]
             t == AtEntry(q, n)
  <2>3. r = [disk |-> t.disk, addr |-> t.addr, ip |-> [x EXCEPT !.addrs[NDIRECT] = q.addr]]
    BY <2>1 DEF Bmap
  <2>4. r.disk = t.disk /\ r.addr = t.addr /\ r.ip = [x EXCEPT !.addrs = a]
    BY <2>3
  <2>5. r.ip.addrs = a BY <2>4 DEF Dinode
  <2>6. B = [A EXCEPT ![i] = a] OBVIOUS
  <2>0. q = [disk |-> q.disk, addr |-> q.addr] BY DEF AtRoot, Balloc
  <2> HIDE DEF q
  <2>7. /\ Placed(q.disk, B) /\ q.addr \in Block /\ B[i][NDIRECT] = q.addr
        /\ Elsewhere(d, A, q.disk, B, i, NDIRECT)
        /\ A[i][NDIRECT] # 0 => q.disk = d /\ B = A
        /\ A[i][NDIRECT] = 0 => FreeBlocks(q.disk) = FreeBlocks(d) \ {q.addr}
    <3>1. q = AtRoot(d, A[i][NDIRECT]) BY DEF q
    <3>3. Placed(d, A) /\ i \in Inum OBVIOUS
    <3>4. NDIRECT \in 0 .. NDIRECT /\ FreeBlocks(d) # {} BY <2>1, <2>2
    <3>5. /\ Placed(q.disk, B) /\ q.addr \in Block
          /\ Elsewhere(d, A, q.disk, B, i, NDIRECT)
          /\ A[i][NDIRECT] # 0 => q.disk = d /\ B = A
          /\ A[i][NDIRECT] = 0 => q.addr \in FreeBlocks(d) /\ FreeBlocks(q.disk) = FreeBlocks(d) \ {q.addr}
      BY ONLY <3>1, <3>3, <3>4, RootPlaced
    <3>6. B[i][NDIRECT] = q.addr BY <1>1, <2>1
    <3> QED BY <3>5, <3>6
  <2> HIDE DEF B, a
  <2>8. B[i] = a /\ \A j \in Inum \ {i} : B[j] = A[j] BY <1>1, <2>6
  <2>9. FreeBlocks(q.disk) # {} BY <2>2, <2>7
  <2>10. B[i][NDIRECT] # 0 /\ t = AtEntry([disk |-> q.disk, addr |-> B[i][NDIRECT]], n)
    BY <2>0, <2>7
  <2> HIDE DEF t
  <2>11. /\ Placed(t.disk, B) /\ t.addr \in Block /\ Named(t.disk, B[i], k) = t.addr
         /\ Elsewhere(q.disk, B, t.disk, B, i, k)
    BY <2>1, <2>7, <2>9, <2>10, EntryPlaced
  <2> HIDE DEF k, n
  <2>12. \A m \in Spot \ {NDIRECT} : m # k => Named(t.disk, a, m) = Named(d, A[i], m)
    BY <2>7, <2>8, <2>11 DEF Elsewhere
  <2>13. \A j \in Inum \ {i}, m \in Spot : Named(t.disk, A[j], m) = Named(d, A[j], m)
    BY <2>7, <2>8, <2>11 DEF Elsewhere
  <2>14. Named(d, A[i], k) # 0 => r.ip = x
    <3>1. Named(d, A[i], k) # 0 => A[i][NDIRECT] # 0 BY <2>1 DEF Named
    <3>2. A[i][NDIRECT] # 0 => a = A[i] BY <2>7, <2>8
    <3> QED BY <2>4, <3>1, <3>2 DEF Dinode
  <2>15. a \in Addrs BY <2>7, <2>8 DEF Placed
  <2> QED BY <2>1, <2>4, <2>5, <2>6, <2>8, <2>11, <2>12, <2>13, <2>14, <2>15
<1> QED BY <1>2, <1>3

-----------------------------------------------------------------------------
(* itrunc, and what the blocks of an inode are *)

Small(x) == x \in Dinode /\ x.d_addr = 0 /\ x.t_addr = 0

Path(k) == IF k <= NDIRECT THEN <<k>> ELSE Append(<<NDIRECT>>, k - NDIRECT - 1)

\* What itrunc passes to bfree is what the places of the inode name, once each.
LEMMA FreedNames ==
  ASSUME NEW d \in Disks, NEW x, Small(x)
  PROVE  /\ \A c \in Freed(d, x) : \E k \in Spot :
              c = [at |-> Path(k), block |-> Named(d, x.addrs, k)] /\ Named(d, x.addrs, k) # 0
         /\ \A k \in Spot : Named(d, x.addrs, k) # 0 =>
              [at |-> Path(k), block |-> Named(d, x.addrs, k)] \in Freed(d, x)
<1> USE BlockFacts
<1> DEFINE a == x.addrs
           R == a[NDIRECT]
           root == At(NDIRECT, R)
<1>1. Words(d, {}) = {} BY DEF Words
<1>2. x.d_addr = 0 /\ x.t_addr = 0 BY DEF Small
<1>3. At(NDIRECT + 1, x.d_addr) = {} /\ At(NDIRECT + 2, x.t_addr) = {} BY <1>2 DEF At
<1>4. Deep(d, x) = {} BY <1>1, <1>3 DEF Deep
<1>5. Freed(d, x) = Direct(x) \cup root \cup Words(d, root) BY <1>3, <1>4 DEF Freed
<1>6. \A c : c \in Direct(x) <=>
        \E k \in 0 .. NDIRECT - 1 : a[k] # 0 /\ c = [at |-> <<k>>, block |-> a[k]]
  <2>1. \A c, k : c \in At(k, a[k]) <=> a[k] # 0 /\ c = [at |-> <<k>>, block |-> a[k]] BY DEF At
  <2>2. Direct(x) = UNION {At(k, a[k]) : k \in 0 .. NDIRECT - 1} BY DEF Direct
  <2>3. \A c : c \in Direct(x) <=> \E k \in 0 .. NDIRECT - 1 : c \in At(k, a[k])
    BY ONLY <2>2
  <2> QED BY ONLY <2>1, <2>3
<1>7. \A c : c \in root <=> R # 0 /\ c = [at |-> <<NDIRECT>>, block |-> R] BY DEF At
<1>8. \A c : c \in Words(d, root) <=>
        \E e \in Entry : /\ R # 0 /\ d.data[R][e] # 0
                        /\ c = [at |-> Append(<<NDIRECT>>, e), block |-> d.data[R][e]]
  <2> DEFINE item(w, e) == [at |-> Append(w.at, e), block |-> d.data[w.block][e]]
             all == {item(w, e) : w \in root, e \in Entry}
  <2> HIDE DEF root
  <2>1. Words(d, root) = {c \in all : c.block # 0} BY DEF Words
  <2>2. \A c : c \in all <=> \E w \in root, e \in Entry : c = item(w, e) OBVIOUS
  <2>3. \A w, e : item(w, e).block = d.data[w.block][e] OBVIOUS
  <2>4. \A c : c \in Words(d, root) <=>
          \E w \in root, e \in Entry : c = item(w, e) /\ d.data[w.block][e] # 0
    <3> HIDE DEF item, all
    <3> QED BY ONLY <2>1, <2>2, <2>3
  <2>5. ASSUME NEW w, w = [at |-> <<NDIRECT>>, block |-> R], NEW e
        PROVE  item(w, e) = [at |-> Append(<<NDIRECT>>, e), block |-> d.data[R][e]]
               /\ d.data[w.block][e] = d.data[R][e]
    <3>1. w.at = <<NDIRECT>> /\ w.block = R BY <2>5
    <3> QED BY ONLY <3>1
  <2>6. \A w, e : w = [at |-> <<NDIRECT>>, block |-> R] =>
          item(w, e) = [at |-> Append(<<NDIRECT>>, e), block |-> d.data[R][e]]
          /\ d.data[w.block][e] = d.data[R][e]
    BY ONLY <2>5
  <2> HIDE DEF item, all
  <2> SUFFICES ASSUME NEW c
               PROVE  c \in Words(d, root) <=>
                        \E e \in Entry : /\ R # 0 /\ d.data[R][e] # 0
                                        /\ c = [at |-> Append(<<NDIRECT>>, e), block |-> d.data[R][e]]
    OBVIOUS
  <2> DEFINE w0 == [at |-> <<NDIRECT>>, block |-> R]
  <2>7. ASSUME c \in Words(d, root)
        PROVE  \E e \in Entry : /\ R # 0 /\ d.data[R][e] # 0
                                /\ c = [at |-> Append(<<NDIRECT>>, e), block |-> d.data[R][e]]
    <3>1. PICK w \in root, e \in Entry : c = item(w, e) /\ d.data[w.block][e] # 0
      BY ONLY <2>4, <2>7
    <3>2. R # 0 /\ w = w0 BY ONLY <1>7, <3>1
    <3>3. c = [at |-> Append(<<NDIRECT>>, e), block |-> d.data[R][e]] /\ d.data[R][e] # 0
      BY ONLY <2>6, <3>1, <3>2
    <3> QED BY ONLY <3>1, <3>2, <3>3
  <2>8. ASSUME NEW e \in Entry, R # 0, d.data[R][e] # 0,
               c = [at |-> Append(<<NDIRECT>>, e), block |-> d.data[R][e]]
        PROVE  c \in Words(d, root)
    <3>1. w0 \in root BY ONLY <1>7, <2>8
    <3>2. c = item(w0, e) /\ d.data[w0.block][e] # 0 BY ONLY <2>6, <2>8
    <3> QED BY ONLY <2>4, <3>1, <3>2, <2>8
  <2> QED BY ONLY <2>7, <2>8
<1> HIDE DEF root
<1>9. \A k \in Spot : k <= NDIRECT => Named(d, a, k) = a[k] /\ Path(k) = <<k>>
  BY DEF Named, Path
<1>13. \A k \in Spot : k <= NDIRECT => k \in 0 .. NDIRECT - 1 \/ k = NDIRECT
  BY DEF Spot
<1>14. \A k \in Spot : ~(k <= NDIRECT) =>
         k - NDIRECT - 1 \in Entry /\ Path(k) = Append(<<NDIRECT>>, k - NDIRECT - 1)
  BY DEF Path, Spot, Entry
<1>15. \A k \in Spot : ~(k <= NDIRECT) => /\ R = 0 => Named(d, a, k) = 0
                                          /\ R # 0 => Named(d, a, k) = d.data[R][k - NDIRECT - 1]
  BY DEF Named
<1>10. /\ \A k \in 0 .. NDIRECT - 1 : k \in Spot /\ k <= NDIRECT
       /\ NDIRECT \in Spot /\ NDIRECT <= NDIRECT
       /\ \A e \in Entry : /\ e + NDIRECT + 1 \in Spot /\ ~(e + NDIRECT + 1 <= NDIRECT)
                            /\ (e + NDIRECT + 1) - NDIRECT - 1 = e
  BY DEF Spot, Entry
<1>11. ASSUME NEW c \in Freed(d, x)
       PROVE  \E k \in Spot : c = [at |-> Path(k), block |-> Named(d, a, k)] /\ Named(d, a, k) # 0
  <2>1. CASE c \in Direct(x)
    <3>1. PICK k \in 0 .. NDIRECT - 1 : a[k] # 0 /\ c = [at |-> <<k>>, block |-> a[k]]
      BY ONLY <2>1, <1>6
    <3>2. k \in Spot /\ Named(d, a, k) = a[k] /\ Path(k) = <<k>> BY ONLY <1>9, <1>10, <3>1
    <3> QED BY ONLY <3>1, <3>2
  <2>2. CASE c \in root
    <3>1. Named(d, a, NDIRECT) = R /\ Path(NDIRECT) = <<NDIRECT>> BY ONLY <1>9, <1>10
    <3> QED BY ONLY <3>1, <2>2, <1>7, <1>10
  <2>3. CASE c \in Words(d, root)
    <3>1. PICK e \in Entry : /\ R # 0 /\ d.data[R][e] # 0
                            /\ c = [at |-> Append(<<NDIRECT>>, e), block |-> d.data[R][e]]
      BY ONLY <2>3, <1>8
    <3> DEFINE k == e + NDIRECT + 1
    <3>0. k \in Spot /\ ~(k <= NDIRECT) /\ k - NDIRECT - 1 = e BY <1>10
    <3> HIDE DEF k
    <3>2. Named(d, a, k) = d.data[R][e] BY ONLY <1>15, <3>0, <3>1
    <3>3. Path(k) = Append(<<NDIRECT>>, e) BY ONLY <1>14, <3>0
    <3> QED BY ONLY <3>0, <3>1, <3>2, <3>3
  <2> QED BY <1>5, <2>1, <2>2, <2>3
<1>12. ASSUME NEW k \in Spot, Named(d, a, k) # 0
       PROVE  [at |-> Path(k), block |-> Named(d, a, k)] \in Freed(d, x)
  <2> DEFINE c == [at |-> Path(k), block |-> Named(d, a, k)]
  <2>1. CASE k <= NDIRECT
    <3>1. c = [at |-> <<k>>, block |-> a[k]] /\ a[k] # 0 BY ONLY <1>9, <1>12, <2>1
    <3>2. CASE k \in 0 .. NDIRECT - 1
      <4>1. c \in Direct(x) BY ONLY <3>1, <3>2, <1>6
      <4> QED BY ONLY <4>1, <1>5
    <3>3. CASE k = NDIRECT
      <4>1. c \in root BY ONLY <3>1, <3>3, <1>7
      <4> QED BY ONLY <4>1, <1>5
    <3> QED BY ONLY <1>12, <1>13, <2>1, <3>2, <3>3
  <2>2. CASE ~(k <= NDIRECT)
    <3> DEFINE e == k - NDIRECT - 1
    <3>1. e \in Entry /\ Path(k) = Append(<<NDIRECT>>, e) BY ONLY <1>12, <1>14, <2>2
    <3>2. R # 0 /\ Named(d, a, k) = d.data[R][e] BY ONLY <1>12, <1>15, <2>2
    <3>3. c \in Words(d, root)
      <4> HIDE DEF e
      <4> QED BY ONLY <3>1, <3>2, <1>8, <1>12
    <3> QED BY ONLY <3>3, <1>5
  <2> QED BY <2>1, <2>2
<1> QED BY <1>11, <1>12

\* itrunc frees no block twice, and leaves the blocks of the other inodes where they were.
LEMMA TruncPlaces ==
  ASSUME NEW d, NEW A, Placed(d, A), NEW i \in Inum, NEW x, Small(x), x.addrs = A[i],
         NEW r, r = Itrunc(d, x)
  PROVE  /\ FreesOnce(d, x) /\ Placed(r.disk, [A EXCEPT ![i] = NoAddrs])
         /\ r.ip \in Dinode /\ r.ip.addrs = NoAddrs /\ r.ip.d_addr = 0 /\ r.ip.t_addr = 0
         /\ \A j \in Inum \ {i}, m \in Spot : Named(r.disk, A[j], m) = Named(d, A[j], m)
<1> USE BlockFacts
<1>1. d \in Disks /\ A \in [Inum -> Addrs] /\ Laid(d, A) BY DEF Placed
<1>2. \A b : b \in Blocks(Freed(d, x)) <=> \E k \in Spot : Named(d, A[i], k) = b /\ b # 0
  <2>1. \A b : b \in Blocks(Freed(d, x)) <=> \E c \in Freed(d, x) : c.block = b
    BY DEF Blocks
  <2>2. ASSUME NEW c \in Freed(d, x)
        PROVE  \E k \in Spot : Named(d, A[i], k) = c.block /\ c.block # 0
    <3>1. PICK k \in Spot : c = [at |-> Path(k), block |-> Named(d, A[i], k)] /\ Named(d, A[i], k) # 0
      BY <1>1, FreedNames
    <3> QED BY ONLY <3>1
  <2>3. ASSUME NEW k \in Spot, Named(d, A[i], k) # 0
        PROVE  \E c \in Freed(d, x) : c.block = Named(d, A[i], k)
    <3>1. [at |-> Path(k), block |-> Named(d, A[i], k)] \in Freed(d, x)
      BY <1>1, <2>3, FreedNames
    <3> QED BY ONLY <3>1
  <2> QED BY ONLY <2>1, <2>2, <2>3
<1>3. FreesOnce(d, x)
  <2>1. ASSUME NEW c \in Freed(d, x), NEW f \in Freed(d, x), c.block = f.block PROVE c = f
    <3>1. PICK k \in Spot : c = [at |-> Path(k), block |-> Named(d, A[i], k)] /\ Named(d, A[i], k) # 0
      BY <1>1, FreedNames
    <3>2. PICK m \in Spot : f = [at |-> Path(m), block |-> Named(d, A[i], m)] /\ Named(d, A[i], m) # 0
      BY <1>1, FreedNames
    <3>3. Named(d, A[i], k) = Named(d, A[i], m) BY <2>1, <3>1, <3>2
    <3>4. k = m BY <1>1, <3>1, <3>3 DEF Laid
    <3> QED BY <3>1, <3>2, <3>4
  <2>2. Blocks(Freed(d, x)) \subseteq d.used BY <1>1, <1>2 DEF Laid
  <2> QED BY <2>1, <2>2 DEF FreesOnce
<1> DEFINE e == [d EXCEPT !.used = @ \ Blocks(Freed(d, x))]
           B == [A EXCEPT ![i] = NoAddrs]
<1>4. r = [disk |-> e, ip |-> [x EXCEPT !.addrs = NoAddrs, !.d_addr = 0, !.t_addr = 0]]
  BY DEF Itrunc
<1>5. /\ e.used = d.used \ Blocks(Freed(d, x)) /\ e.data = d.data /\ e \in Disks
  BY <1>1 DEF Disks
<1>6. /\ NoAddrs \in Addrs /\ B \in [Inum -> Addrs] /\ B[i] = NoAddrs
      /\ \A j \in Inum : j # i => B[j] = A[j]
  BY <1>1 DEF NoAddrs, Addrs
<1> HIDE DEF e, B
<1>7. \A k \in Spot : Named(e, B[i], k) = 0
  <2>1. NoAddrs[NDIRECT] = 0 /\ \A k \in 0 .. NDIRECT : NoAddrs[k] = 0 BY DEF NoAddrs
  <2>2. \A k \in Spot : k <= NDIRECT => k \in 0 .. NDIRECT BY DEF Spot
  <2> QED BY <1>6, <2>1, <2>2 DEF Named
<1>8. \A j \in Inum \ {i}, m \in Spot :
        Named(e, B[j], m) = Named(d, A[j], m) /\ Named(e, A[j], m) = Named(d, A[j], m)
  BY <1>5, <1>6 DEF Named
<1>9. Laid(e, B)
  <2>1. \A j \in Inum, k \in Spot : Named(e, B[j], k) # 0 => Named(e, B[j], k) \in e.used
    <3> SUFFICES ASSUME NEW j \in Inum, NEW k \in Spot, Named(e, B[j], k) # 0
                 PROVE  Named(e, B[j], k) \in e.used
      OBVIOUS
    <3>1. j # i /\ Named(e, B[j], k) = Named(d, A[j], k) BY <1>7, <1>8
    <3>2. Named(d, A[j], k) \in d.used BY <1>1, <3>1 DEF Laid
    <3>3. Named(d, A[j], k) \notin Blocks(Freed(d, x))
      <4>1. \A m \in Spot : Named(d, A[i], m) # Named(d, A[j], k) BY <1>1, <3>1 DEF Laid
      <4> QED BY <1>2, <4>1
    <3> QED BY <1>5, <3>1, <3>2, <3>3
  <2>2. \A b \in e.used : \E j \in Inum, k \in Spot : Named(e, B[j], k) = b
    <3> SUFFICES ASSUME NEW b \in e.used PROVE \E j \in Inum, k \in Spot : Named(e, B[j], k) = b
      OBVIOUS
    <3>1. b \in d.used /\ b \notin Blocks(Freed(d, x)) /\ b # 0 BY <1>1, <1>5 DEF Disks
    <3>2. PICK j \in Inum, k \in Spot : Named(d, A[j], k) = b BY <1>1, <3>1 DEF Laid
    <3>3. j # i BY <1>2, <3>1, <3>2
    <3> QED BY <1>8, <3>2, <3>3
  <2>3. \A j, l \in Inum, k, m \in Spot :
          Named(e, B[j], k) = Named(e, B[l], m) /\ Named(e, B[j], k) # 0 => j = l /\ k = m
    <3> SUFFICES ASSUME NEW j \in Inum, NEW l \in Inum, NEW k \in Spot, NEW m \in Spot,
                        Named(e, B[j], k) = Named(e, B[l], m), Named(e, B[j], k) # 0
                 PROVE  j = l /\ k = m
      OBVIOUS
    <3>1. j # i /\ l # i BY <1>7
    <3>2. Named(d, A[j], k) = Named(d, A[l], m) /\ Named(d, A[j], k) # 0 BY <1>8, <3>1
    <3> QED BY <1>1, <3>2 DEF Laid
  <2> QED BY <2>1, <2>2, <2>3 DEF Laid
<1>10. Placed(e, B) BY <1>5, <1>6, <1>9 DEF Placed
<1>11. r.ip \in Dinode /\ r.ip.addrs = NoAddrs /\ r.ip.d_addr = 0 /\ r.ip.t_addr = 0
  <2>1. r.ip = [x EXCEPT !.addrs = NoAddrs, !.d_addr = 0, !.t_addr = 0] BY <1>4
  <2>2. x \in [type : {0, T_FILE}, nlink : Nat, size : Nat,
               addrs : [0 .. NDIRECT -> Word], d_addr : Word, t_addr : Word]
    BY DEF Small, Dinode
  <2>3. NoAddrs \in [0 .. NDIRECT -> Word] BY <1>6 DEF Addrs
  <2>4. 0 \in Word OBVIOUS
  <2> QED BY ONLY <2>1, <2>2, <2>3, <2>4 DEF Dinode
<1>12. r.disk = e BY <1>4
<1> QED BY <1>3, <1>8, <1>10, <1>11, <1>12 DEF B

\* The tree of a small inode, in terms of its places.
LEMMA TreeNames ==
  ASSUME NEW d \in Disks, NEW x, Small(x)
  PROVE  /\ \A b : b \in DataBlocks(d, x) <=> b # 0 /\ \E k \in Spot \ {NDIRECT} : Named(d, x.addrs, k) = b
         /\ \A b : b \in IndexBlocks(d, x) <=> b # 0 /\ b = Named(d, x.addrs, NDIRECT)
         /\ NDIRECT \in Spot
<1> USE BlockFacts
<1> DEFINE a == x.addrs
           R == a[NDIRECT]
<1>1. Double(x) = {} /\ Triple(x) = {} BY DEF Small, Double, Triple
<1>2. Below(d, {}) = {} BY DEF Below
<1>3. /\ \A b : b \in Below(d, Single(x)) <=> b # 0 /\ R # 0 /\ \E e \in Entry : d.data[R][e] = b
  <2>1. \A S : Below(d, S) = (UNION {{d.data[r][e] : e \in Entry} : r \in S}) \ {0} BY DEF Below
  <2>2. \A S, b : b \in Below(d, S) <=> b # 0 /\ \E r \in S : \E e \in Entry : d.data[r][e] = b
    BY ONLY <2>1
  <2>3. \A r : r \in Single(x) <=> r = R /\ r # 0 BY DEF Single
  <2> QED BY ONLY <2>2, <2>3
<1>4. DataBlocks(d, x) = ({a[i] : i \in 0 .. NDIRECT - 1} \ {0}) \cup Below(d, Single(x))
  BY <1>1, <1>2 DEF DataBlocks
<1>5. IndexBlocks(d, x) = Single(x) BY <1>1, <1>2 DEF IndexBlocks
<1>6. /\ \A k \in 0 .. NDIRECT - 1 : k \in Spot \ {NDIRECT} /\ Named(d, a, k) = a[k]
      /\ NDIRECT \in Spot /\ Named(d, a, NDIRECT) = R
      /\ \A e \in Entry : /\ e + NDIRECT + 1 \in Spot \ {NDIRECT}
                          /\ R # 0 => Named(d, a, e + NDIRECT + 1) = d.data[R][e]
  BY DEF Spot, Entry, Named
<1>7. ASSUME NEW k \in Spot \ {NDIRECT}
      PROVE  \/ k \in 0 .. NDIRECT - 1 /\ Named(d, a, k) = a[k]
             \/ R = 0 /\ Named(d, a, k) = 0
             \/ R # 0 /\ \E e \in Entry : Named(d, a, k) = d.data[R][e]
  <2>1. CASE k <= NDIRECT BY <2>1 DEF Spot, Named
  <2>2. CASE ~(k <= NDIRECT)
    <3>1. k - NDIRECT - 1 \in Entry BY <2>2 DEF Spot, Entry
    <3> QED BY <2>2, <3>1 DEF Named
  <2> QED BY <2>1, <2>2
<1>8. \A b : b \in IndexBlocks(d, x) <=> b # 0 /\ b = Named(d, a, NDIRECT)
  BY <1>5, <1>6 DEF Single
<1>9. ASSUME NEW b, b # 0, NEW k \in Spot \ {NDIRECT}, Named(d, a, k) = b
      PROVE  b \in DataBlocks(d, x)
  BY <1>3, <1>4, <1>7, <1>9
<1>10. ASSUME NEW b \in DataBlocks(d, x)
       PROVE  b # 0 /\ \E k \in Spot \ {NDIRECT} : Named(d, a, k) = b
  <2>1. CASE b \in Below(d, Single(x))
    <3>1. PICK e \in Entry : b # 0 /\ R # 0 /\ d.data[R][e] = b BY ONLY <2>1, <1>3
    <3> QED BY ONLY <3>1, <1>6
  <2>2. CASE b \in {a[i] : i \in 0 .. NDIRECT - 1} \ {0}
    <3>1. PICK i \in 0 .. NDIRECT - 1 : a[i] = b /\ b # 0 BY ONLY <2>2
    <3> QED BY ONLY <3>1, <1>6
  <2> QED BY ONLY <1>10, <1>4, <2>1, <2>2
<1> QED BY <1>6, <1>8, <1>9, <1>10

-----------------------------------------------------------------------------
(* The invariant of the blocks, and what follows from it *)

\* The model's files end within their single indirect block.
SmallFiles == MaxSize <= NDIRECT + ENTRYNUM

Addresses == [i \in Inum |-> dinode[i].addrs]

SameBlocks(x, y) ==
  /\ x.addrs = y.addrs /\ x.size = y.size
  /\ x.d_addr = y.d_addr /\ x.t_addr = y.t_addr

\* What the inode on the disk says of its blocks: those below its size are there, no others.
Filled(d, x) ==
  /\ Small(x) /\ x.size <= MaxSize
  /\ \A bn \in 0 .. NDIRECT + ENTRYNUM - 1 : Named(d, x.addrs, SpotOf(bn)) # 0 <=> bn < x.size
  /\ x.type = 0 => x.addrs = NoAddrs /\ x.size = 0

BlocksOK ==
  /\ Placed(disk, Addresses)
  /\ \A i \in Inum : Filled(disk, dinode[i])
  /\ \A s \in Slot : Small(inode[s])
  /\ \A s \in Slot : ref[s] > 0 /\ valid[s] => SameBlocks(inode[s], dinode[inum[s]])
  /\ name \in [Proc -> Name \cup {NULL}]

\* Inodes without double and triple indirect blocks, in terms of their fields.
LEMMA SmallFacts ==
  /\ \A x : Small(x) <=> /\ IsCopy(x) /\ x.addrs \in Addrs /\ x.size \in Nat
                         /\ x.d_addr = 0 /\ x.t_addr = 0
  /\ \A x, y : Small(x) /\ Small(y) /\ SameBlocks(x, y) /\ x.type = y.type /\ x.nlink = y.nlink
                 => x = y
<1>1. ASSUME NEW x, Small(x)
      PROVE  /\ x = [type |-> x.type, nlink |-> x.nlink, size |-> x.size,
                     addrs |-> x.addrs, d_addr |-> x.d_addr, t_addr |-> x.t_addr]
             /\ x.type \in {0, T_FILE} /\ x.nlink \in Nat /\ x.addrs \in Addrs /\ x.size \in Nat
             /\ x.d_addr = 0 /\ x.t_addr = 0
  BY <1>1 DEF Small, Dinode, Addrs
<1>2. ASSUME NEW x, Small(x) PROVE IsCopy(x)
  BY <1>1, <1>2 DEF IsCopy
<1>3. ASSUME NEW x, IsCopy(x), x.addrs \in Addrs, x.size \in Nat, x.d_addr = 0, x.t_addr = 0
      PROVE  Small(x)
  <2>1. /\ x = [type |-> x.type, nlink |-> x.nlink, size |-> x.size,
                addrs |-> x.addrs, d_addr |-> x.d_addr, t_addr |-> x.t_addr]
        /\ x.type \in {0, T_FILE} /\ x.nlink \in Nat
    BY <1>3 DEF IsCopy
  <2> QED BY <1>3, <2>1, BlockFacts DEF Small, Dinode, Addrs
<1>4. ASSUME NEW x, NEW y, Small(x), Small(y), SameBlocks(x, y), x.type = y.type, x.nlink = y.nlink
      PROVE  x = y
  BY <1>1, <1>4 DEF SameBlocks
<1> QED BY <1>1, <1>2, <1>3, <1>4

\* What ilock finds says of the blocks what the disk says.
LEMMA IlockBlocks ==
  ASSUME IInv, BlocksOK, NEW s \in Slot, ref[s] > 0, inum[s] \in Inum
  PROVE  Small(Ilock(s)) /\ SameBlocks(Ilock(s), dinode[inum[s]])
<1> DEFINE x == dinode[inum[s]]
<1>1. Small(inode[s]) /\ Small(x) BY DEF BlocksOK, Filled
<1>2. CASE valid[s] BY <1>1, <1>2 DEF Ilock, BlocksOK
<1>3. CASE ~valid[s]
  <2>1. Ilock(s) = [x EXCEPT !.d_addr = inode[s].d_addr, !.t_addr = inode[s].t_addr]
    BY <1>3 DEF Ilock
  <2>2. inode[s].d_addr = 0 /\ inode[s].t_addr = 0 /\ x.d_addr = 0 /\ x.t_addr = 0
    BY <1>1 DEF Small
  <2>3. [x EXCEPT !.d_addr = 0, !.t_addr = 0] = x
    BY <1>1, <2>2 DEF Small, Dinode
  <2>4. Ilock(s) = x BY <2>1, <2>2, <2>3
  <2> QED BY <1>1, <2>4 DEF SameBlocks
<1> QED BY <1>2, <1>3

\* Where neither the disk's blocks nor what inodes say of them changes.
LEMMA BlocksStay ==
  ASSUME BlocksOK, IInv', disk' = disk, name' \in [Proc -> Name \cup {NULL}],
         \A i \in Inum : SameBlocks(dinode'[i], dinode[i]) /\ (dinode'[i].type = 0 => dinode[i].type = 0),
         \A s \in Slot : SameBlocks(inode'[s], inode[s])
                           \/ (inum[s] \in Inum /\ SameBlocks(inode'[s], dinode[inum[s]])),
         \A s \in Slot : ref'[s] > 0 /\ valid'[s] => SameBlocks(inode'[s], dinode'[inum'[s]])
  PROVE  BlocksOK'
<1>1. Addresses' = Addresses BY DEF Addresses, SameBlocks
<1>2. Placed(disk', Addresses') BY <1>1 DEF BlocksOK
<1>3. ASSUME NEW x, NEW y, Small(x), SameBlocks(y, x), IsCopy(y) PROVE Small(y)
  <2>1. IsCopy(x) /\ x.addrs \in Addrs /\ x.size \in Nat /\ x.d_addr = 0 /\ x.t_addr = 0
    BY <1>3, SmallFacts
  <2>2. y.addrs \in Addrs /\ y.size \in Nat /\ y.d_addr = 0 /\ y.t_addr = 0
    BY <1>3, <2>1 DEF SameBlocks
  <2> QED BY <1>3, <2>2, SmallFacts
<1>4. (\A s \in Slot : IsCopy(inode'[s])) /\ \A i \in Inum : IsCopy(dinode'[i])
  BY DEF IInv, Typed, IsCopy
<1>5. ASSUME NEW i \in Inum PROVE Filled(disk', dinode'[i])
  <2>1. Filled(disk, dinode[i]) BY DEF BlocksOK
  <2>2. Small(dinode'[i]) BY <1>3, <1>4, <2>1 DEF Filled
  <2>3. dinode'[i].addrs = dinode[i].addrs /\ dinode'[i].size = dinode[i].size
        /\ (dinode'[i].type = 0 => dinode[i].type = 0)
    BY DEF SameBlocks
  <2> QED BY <2>1, <2>2, <2>3 DEF Filled
<1>6. ASSUME NEW s \in Slot PROVE Small(inode'[s])
  <2>1. Small(inode[s]) /\ \A i \in Inum : Small(dinode[i]) BY DEF BlocksOK, Filled
  <2> QED BY <1>3, <1>4, <2>1
<1> QED BY <1>2, <1>5, <1>6 DEF BlocksOK

\* Taking a reference, with or without a new inode of no blocks.
LEMMA GotBlocks ==
  ASSUME IInv, BlocksOK, IInv', NEW p \in Proc, NEW i \in Inum, NEW s \in Slot, Got(p, i, s),
         disk' = disk, inode' = inode, name' \in [Proc -> Name \cup {NULL}],
         \A j \in Inum : SameBlocks(dinode'[j], dinode[j]) /\ (dinode'[j].type = 0 => dinode[j].type = 0)
  PROVE  BlocksOK'
<1>1. \A t \in Slot : ref'[t] > 0 /\ valid'[t] => ref[t] > 0 /\ valid[t] /\ inum'[t] = inum[t]
  <2>1. /\ ref \in [Slot -> Nat] /\ inum \in [Slot -> Inum \cup {NULL}] BY DEF IInv, Typed
  <2> QED BY <2>1 DEF Got
<1>2. \A t \in Slot : ref[t] > 0 => inum[t] \in Inum BY DEF IInv, EntriesOK
<1>3. \A t \in Slot : ref'[t] > 0 /\ valid'[t] => SameBlocks(inode'[t], dinode'[inum'[t]])
  <2> SUFFICES ASSUME NEW t \in Slot, ref'[t] > 0, valid'[t]
               PROVE  SameBlocks(inode'[t], dinode'[inum'[t]])
    OBVIOUS
  <2>1. inum[t] \in Inum /\ SameBlocks(inode[t], dinode[inum[t]]) BY <1>1, <1>2 DEF BlocksOK
  <2> QED BY <1>1, <2>1 DEF SameBlocks
<1>4. \A t \in Slot : SameBlocks(inode'[t], inode[t])
                        \/ (inum[t] \in Inum /\ SameBlocks(inode'[t], dinode[inum[t]]))
  BY DEF SameBlocks
<1> QED BY ONLY BlocksOK, IInv', disk' = disk, name' \in [Proc -> Name \cup {NULL}],
     \A j \in Inum : SameBlocks(dinode'[j], dinode[j]) /\ (dinode'[j].type = 0 => dinode[j].type = 0),
     <1>3, <1>4, BlocksStay

\* The first steps of open, link and unlink (sysfile.c) keep the invariant.
LEMMA EnterBlocks ==
  ASSUME IInv, BlocksOK, IInv', NEW p \in Proc, NEW o \in Name, NEW n \in Name,
         Open(p, n) \/ Create(p, n) \/ Unlink(p, n) \/ Link(p, o, n)
  PROVE  BlocksOK'
<1>1. name \in [Proc -> Name \cup {NULL}] BY DEF BlocksOK
<1>2. \A j \in Inum : SameBlocks(dinode[j], dinode[j]) BY DEF SameBlocks
<1>3. ASSUME NEW m \in Name, dir[m] # NULL, Iget(p, dir[m]), UNCHANGED <<disk, dinode, inode>>,
             name' = name \/ name' = [name EXCEPT ![p] = n]
      PROVE  BlocksOK'
  <2>1. dir[m] \in Inum BY <1>3 DEF IInv, Typed
  <2>2. PICK s \in Slot : Got(p, dir[m], s) BY <1>3, <2>1, IgetFacts DEF IInv
  <2>3. name' \in [Proc -> Name \cup {NULL}] BY <1>1, <1>3
  <2> QED BY <1>2, <1>3, <2>1, <2>2, <2>3, GotBlocks
<1>4. CASE Open(p, n) BY <1>3, <1>4 DEF Open, store
<1>5. CASE Unlink(p, n) BY <1>3, <1>5 DEF Unlink, store
<1>6. CASE Link(p, o, n) BY <1>3, <1>6 DEF Link, store
<1>7. CASE Create(p, n)
  <2> DEFINE free == {j \in Inum : dinode[j].type = 0}
             i == Min(free)
  <2>1. /\ free # {} /\ Iget(p, i) /\ name' = [name EXCEPT ![p] = n]
        /\ dinode' = [dinode EXCEPT ![i] = NewDinode(T_FILE)] /\ disk' = disk /\ inode' = inode
    BY <1>7 DEF Create
  <2>2. i \in Inum /\ dinode[i].type = 0
    <3>1. i \in free BY <2>1, FirstIn DEF Inum
    <3> HIDE DEF i
    <3> QED BY <3>1
  <2> HIDE DEF i
  <2>3. PICK s \in Slot : Got(p, i, s) BY <2>1, <2>2, IgetFacts DEF IInv
  <2>4. name' \in [Proc -> Name \cup {NULL}] BY <1>1, <2>1
  <2>5. dinode = [j \in Inum |-> dinode[j]] BY DEF IInv, Typed
  <2>6. dinode'[i] = NewDinode(T_FILE) /\ \A j \in Inum : j # i => dinode'[j] = dinode[j]
    BY <2>1, <2>2, <2>5
  <2>7. SameBlocks(dinode'[i], dinode[i]) /\ dinode'[i].type # 0
    <3>1. Filled(disk, dinode[i]) BY <2>2 DEF BlocksOK
    <3>2. /\ dinode[i].addrs = NoAddrs /\ dinode[i].size = 0
          /\ dinode[i].d_addr = 0 /\ dinode[i].t_addr = 0
      BY <2>2, <3>1 DEF Filled, Small
    <3> QED BY <2>6, <3>2 DEF NewDinode, SameBlocks, T_FILE
  <2>8. \A j \in Inum : SameBlocks(dinode'[j], dinode[j]) /\ (dinode'[j].type = 0 => dinode[j].type = 0)
    BY <1>2, <2>6, <2>7
  <2> QED BY <2>1, <2>2, <2>3, <2>4, <2>8, GotBlocks
<1> QED BY <1>4, <1>5, <1>6, <1>7

\* Changes of one entry, found by ilock, that leave its blocks alone.
LEMMA ChangedBlocks ==
  ASSUME IInv, BlocksOK, IInv', NEW s \in Slot, ref[s] > 0, inum[s] \in Inum,
         NEW x, SameBlocks(x, Ilock(s)), x.type = 0 => dinode[inum[s]].type = 0,
         Iupdate(s, x) \/ (inode' = [inode EXCEPT ![s] = x] /\ dinode' = dinode),
         disk' = disk, inum' = inum, ref' = ref, valid' = [valid EXCEPT ![s] = TRUE],
         name' \in [Proc -> Name \cup {NULL}]
  PROVE  BlocksOK'
<1> DEFINE i == inum[s]
           y == [x EXCEPT !.d_addr = dinode[i].d_addr, !.t_addr = dinode[i].t_addr]
<1>1. inode = [t \in Slot |-> inode[t]] /\ dinode = [j \in Inum |-> dinode[j]]
      /\ valid \in [Slot -> BOOLEAN]
  BY DEF IInv, Typed
<1>2. inode' = [inode EXCEPT ![s] = x] /\ (dinode' = dinode \/ dinode' = [dinode EXCEPT ![i] = y])
  BY DEF Iupdate
<1>3. SameBlocks(x, dinode[i]) BY IlockBlocks DEF SameBlocks
<1>4. inode'[s] = x /\ \A t \in Slot : t # s => inode'[t] = inode[t] BY <1>1, <1>2
<1>5. IsCopy(x) BY <1>4 DEF IInv, Typed
<1>6. SameBlocks(y, dinode[i]) /\ y.type = x.type
  <2>1. y.addrs = x.addrs /\ y.size = x.size /\ y.type = x.type
        /\ y.d_addr = dinode[i].d_addr /\ y.t_addr = dinode[i].t_addr
    BY <1>5 DEF IsCopy
  <2> HIDE DEF y
  <2> QED BY <1>3, <2>1 DEF SameBlocks
<1> HIDE DEF y
<1>7. /\ dinode'[i] = y \/ dinode'[i] = dinode[i]
      /\ \A j \in Inum : j # i => dinode'[j] = dinode[j]
  BY <1>1, <1>2
<1>8. \A j \in Inum : SameBlocks(dinode'[j], dinode[j]) /\ (dinode'[j].type = 0 => dinode[j].type = 0)
  BY <1>6, <1>7 DEF SameBlocks
<1>9. \A t \in Slot : SameBlocks(inode'[t], inode[t])
                           \/ (inum[t] \in Inum /\ SameBlocks(inode'[t], dinode[inum[t]]))
  <2> SUFFICES ASSUME NEW t \in Slot
               PROVE  SameBlocks(inode'[t], inode[t])
                        \/ (inum[t] \in Inum /\ SameBlocks(inode'[t], dinode[inum[t]]))
    OBVIOUS
  <2>1. CASE t = s BY <1>3, <1>4, <2>1
  <2>2. CASE t # s BY <1>4, <2>2 DEF SameBlocks
  <2> QED BY <2>1, <2>2
<1>10. \A t \in Slot : ref'[t] > 0 /\ valid'[t] => SameBlocks(inode'[t], dinode'[inum'[t]])
  <2> SUFFICES ASSUME NEW t \in Slot, ref[t] > 0, valid'[t]
               PROVE  SameBlocks(inode'[t], dinode'[inum[t]])
    OBVIOUS
  <2>1. CASE t = s BY <1>3, <1>4, <1>8, <2>1 DEF SameBlocks
  <2>2. CASE t # s
    <3>1. valid[t] /\ inum[t] \in Inum BY <1>1, <2>2 DEF IInv, EntriesOK
    <3>2. SameBlocks(inode[t], dinode[inum[t]]) BY <3>1 DEF BlocksOK
    <3> QED BY <1>4, <1>8, <2>2, <3>1, <3>2 DEF SameBlocks
  <2> QED BY <2>1, <2>2
<1> QED BY <1>8, <1>9, <1>10, BlocksStay

\* And so do their steps under the lock of the inode.
LEMMA ContinueBlocks ==
  ASSUME IInv, BlocksOK, IInv', NEW p \in Proc,
         OpenDone(p) \/ CreateDone(p) \/ LinkCounts(p) \/ LinkUndone(p) \/ UnlinkDone(p)
  PROVE  BlocksOK'
<1> DEFINE s == ip[p]
           z == Ilock(s)
<1>1. name \in [Proc -> Name \cup {NULL}] BY DEF BlocksOK
<1>2. /\ pc[p] \in {"open", "create", "link", "bad", "unlink"} /\ lock[s] = NULL
      /\ \/ inode' = [inode EXCEPT ![s] = z] /\ dinode' = dinode
         \/ \E k : Iupdate(s, [z EXCEPT !.nlink = k])
      /\ disk' = disk /\ inum' = inum /\ ref' = ref /\ valid' = [valid EXCEPT ![s] = TRUE]
      /\ name' = name \/ name' = [name EXCEPT ![p] = NULL]
  <2>1. CASE OpenDone(p) BY <2>1 DEF OpenDone, Locks, SetValid, store
  <2>2. CASE CreateDone(p) BY <2>2 DEF CreateDone, Locks, SetValid
  <2>3. CASE LinkCounts(p) BY <2>3 DEF LinkCounts, Locks, SetValid
  <2>4. CASE LinkUndone(p) BY <2>4 DEF LinkUndone, Locks, SetValid
  <2>5. CASE UnlinkDone(p) BY <2>5 DEF UnlinkDone, Locks, SetValid
  <2> QED BY <2>1, <2>2, <2>3, <2>4, <2>5
<1>3. s # NULL BY <1>2 DEF IInv, PlacesOK
<1>4. s \in Slot /\ ref[s] > 0 /\ inum[s] \in Inum BY <1>3, Held DEF IInv
<1>5. dinode[inum[s]].type = T_FILE BY <1>2 DEF IInv, UsedOK, Using
<1>6. IsCopy(z) /\ z.type = T_FILE BY <1>2, <1>4, <1>5, IlockFinds DEF IInv
<1>7. name' \in [Proc -> Name \cup {NULL}] BY <1>1, <1>2
<1> HIDE DEF s
<1>8. PICK x : /\ Iupdate(s, x) \/ (inode' = [inode EXCEPT ![s] = x] /\ dinode' = dinode)
               /\ SameBlocks(x, z) /\ x.type = T_FILE
  <2>1. CASE inode' = [inode EXCEPT ![s] = z] /\ dinode' = dinode BY <1>6, <2>1 DEF SameBlocks
  <2>2. ASSUME NEW k, Iupdate(s, [z EXCEPT !.nlink = k])
        PROVE  \E x : /\ Iupdate(s, x) \/ (inode' = [inode EXCEPT ![s] = x] /\ dinode' = dinode)
                      /\ SameBlocks(x, z) /\ x.type = T_FILE
    <3>1. SameBlocks([z EXCEPT !.nlink = k], z) /\ [z EXCEPT !.nlink = k].type = T_FILE
      <4> HIDE DEF z
      <4> QED BY <1>6 DEF SameBlocks, IsCopy
    <3> QED BY <2>2, <3>1
  <2> QED BY <1>2, <2>1, <2>2
<1> QED
  <2>1. x.type # 0 BY <1>8 DEF T_FILE
  <2> QED BY <1>2, <1>4, <1>7, <1>8, <2>1, ChangedBlocks

\* Steps that only move processes, take locks and drop references.
LEMMA MovesBlocks ==
  ASSUME IInv, BlocksOK, IInv', NEW p \in Proc,
         LinkEnters(p) \/ Close(p) \/ Iput(p) \/ IputUnlocks(p) \/ IputDrops(p)
  PROVE  BlocksOK'
<1>1. name \in [Proc -> Name \cup {NULL}] /\ ref \in [Slot -> Nat] /\ valid \in [Slot -> BOOLEAN]
  BY DEF BlocksOK, IInv, Typed
<1>2. /\ disk' = disk /\ dinode' = dinode /\ inode' = inode /\ inum' = inum
      /\ name' = name \/ name' = [name EXCEPT ![p] = NULL]
      /\ \/ ref' = ref /\ valid' = valid
         \/ ref' = ref /\ valid' = [valid EXCEPT ![ip[p]] = FALSE]
         \/ valid' = valid /\ ref' = [ref EXCEPT ![ip[p]] = @ - 1]
  <2>1. CASE LinkEnters(p) BY <2>1 DEF LinkEnters, cache
  <2>2. CASE Close(p) BY <2>2 DEF Close, store, cache
  <2>3. CASE Iput(p) BY <2>3 DEF Iput, store
  <2>4. CASE IputUnlocks(p) BY <2>4 DEF IputUnlocks, store
  <2>5. CASE IputDrops(p) BY <2>5 DEF IputDrops, store
  <2> QED BY <2>1, <2>2, <2>3, <2>4, <2>5
<1>3. \A t \in Slot : ref'[t] > 0 /\ valid'[t] => ref[t] > 0 /\ valid[t]
  BY <1>1, <1>2
<1>4. name' \in [Proc -> Name \cup {NULL}] BY <1>1, <1>2
<1>5. \A t \in Slot : ref'[t] > 0 /\ valid'[t] => SameBlocks(inode'[t], dinode'[inum'[t]])
  BY <1>2, <1>3 DEF BlocksOK
<1>6. \A i \in Inum : SameBlocks(dinode'[i], dinode[i]) /\ (dinode'[i].type = 0 => dinode[i].type = 0)
  BY <1>2 DEF SameBlocks
<1>7. \A t \in Slot : SameBlocks(inode'[t], inode[t])
                        \/ (inum[t] \in Inum /\ SameBlocks(inode'[t], dinode[inum[t]]))
  BY <1>2 DEF SameBlocks
<1>8. disk' = disk BY <1>2
<1> QED BY ONLY BlocksOK, IInv', <1>4, <1>5, <1>6, <1>7, <1>8, BlocksStay

\* Where one inode, i, and its entry s change, both to addresses a and size k.
LEMMA OneChanges ==
  ASSUME IInv, BlocksOK, IInv', NEW s \in Slot, inum[s] \in Inum, ref[s] > 0,
         NEW a \in Addrs, NEW k \in Nat, k <= MaxSize,
         Placed(disk', [Addresses EXCEPT ![inum[s]] = a]),
         \A j \in Inum \ {inum[s]}, m \in Spot : Named(disk', Addresses[j], m) = Named(disk, Addresses[j], m),
         \A bn \in 0 .. NDIRECT + ENTRYNUM - 1 : Named(disk', a, SpotOf(bn)) # 0 <=> bn < k,
         dinode'[inum[s]].type = 0 => a = NoAddrs /\ k = 0,
         SameBlocks(inode'[s], [addrs |-> a, size |-> k, d_addr |-> 0, t_addr |-> 0]),
         SameBlocks(dinode'[inum[s]], [addrs |-> a, size |-> k, d_addr |-> 0, t_addr |-> 0]),
         \A t \in Slot \ {s} : inode'[t] = inode[t] /\ (valid'[t] <=> valid[t]),
         \A j \in Inum \ {inum[s]} : dinode'[j] = dinode[j],
         inum' = inum, ref' = ref, name' = name
  PROVE  BlocksOK'
<1> DEFINE i == inum[s]
<1>1. (\A t \in Slot : IsCopy(inode'[t])) /\ \A j \in Inum : IsCopy(dinode'[j])
  BY DEF IInv, Typed, IsCopy
<1>2. /\ inode'[s].addrs = a /\ inode'[s].size = k /\ inode'[s].d_addr = 0 /\ inode'[s].t_addr = 0
      /\ dinode'[i].addrs = a /\ dinode'[i].size = k /\ dinode'[i].d_addr = 0 /\ dinode'[i].t_addr = 0
  BY DEF SameBlocks
<1>3. Small(inode'[s]) /\ Small(dinode'[i]) BY <1>1, <1>2, SmallFacts
<1>4. Addresses' = [Addresses EXCEPT ![i] = a]
  <2>1. \A j \in Inum : Addresses'[j] = IF j = i THEN a ELSE Addresses[j] BY <1>2 DEF Addresses
  <2>2. Addresses = [j \in Inum |-> Addresses[j]] /\ Addresses' = [j \in Inum |-> Addresses'[j]]
    BY DEF Addresses
  <2> QED BY <2>1, <2>2
<1>5. Placed(disk', Addresses') BY <1>4
<1>6. ASSUME NEW j \in Inum PROVE Filled(disk', dinode'[j])
  <2>1. CASE j = i BY <1>2, <1>3, <2>1 DEF Filled
  <2>2. CASE j # i
    <3>1. Filled(disk, dinode[j]) /\ dinode'[j] = dinode[j] /\ Addresses[j] = dinode[j].addrs
      BY <2>2 DEF BlocksOK, Addresses
    <3>2. \A bn \in 0 .. NDIRECT + ENTRYNUM - 1 : SpotOf(bn) \in Spot BY BlockFacts DEF SpotOf, Spot
    <3>3. \A bn \in 0 .. NDIRECT + ENTRYNUM - 1 :
            Named(disk', dinode[j].addrs, SpotOf(bn)) = Named(disk, dinode[j].addrs, SpotOf(bn))
      BY <2>2, <3>1, <3>2
    <3> QED BY <3>1, <3>3 DEF Filled
  <2> QED BY <2>1, <2>2
<1>7. \A t \in Slot : Small(inode'[t]) BY <1>3 DEF BlocksOK
<1>8. ASSUME NEW t \in Slot, ref'[t] > 0, valid'[t] PROVE SameBlocks(inode'[t], dinode'[inum'[t]])
  <2>1. CASE t = s BY <1>2, <2>1 DEF SameBlocks
  <2>2. CASE t # s
    <3>1. inum[t] \in Inum /\ inum[t] # i BY <1>8, <2>2 DEF IInv, EntriesOK, OneEntry
    <3>2. SameBlocks(inode[t], dinode[inum[t]]) BY <1>8, <2>2 DEF BlocksOK
    <3> QED BY <2>2, <3>1, <3>2
  <2> QED BY <2>1, <2>2
<1>9. name' \in [Proc -> Name \cup {NULL}] BY DEF BlocksOK
<1> QED BY <1>5, <1>6, <1>7, <1>8, <1>9 DEF BlocksOK

\* Different blocks of a file have different places.
LEMMA SpotsDiffer ==
  ASSUME NEW bn \in 0 .. NDIRECT + ENTRYNUM - 1
  PROVE  /\ SpotOf(bn) \in Spot \ {NDIRECT}
         /\ \A b \in 0 .. NDIRECT + ENTRYNUM - 1 : SpotOf(b) = SpotOf(bn) => b = bn
BY BlockFacts DEF SpotOf, Spot

\* writei of one block, with its bmap and its iupdate, keeps the invariant.
LEMMA WriteBlocks ==
  ASSUME SmallFiles, IInv, BlocksOK, IInv', NEW p \in Proc,
         NEW bn \in 0 .. MaxSize - 1, NEW w \in Data, Write(p, bn, w)
  PROVE  BlocksOK'
<1> DEFINE s == fd[p]
           i == inum[s]
           z == Ilock(s)
           r == Bmap(disk, z, bn)
           x == [r.ip EXCEPT !.size = bn + 1]
           v == [e \in Entry |-> w]
<1>1. /\ s # NULL /\ lock[s] = NULL /\ bn <= z.size /\ Cardinality(FreeBlocks(disk)) > Depth(bn)
      /\ disk' = [r.disk EXCEPT !.data[r.addr] = v]
      /\ IF bn = z.size THEN Iupdate(s, x) ELSE inode' = [inode EXCEPT ![s] = r.ip] /\ dinode' = dinode
      /\ valid' = [valid EXCEPT ![s] = TRUE] /\ inum' = inum /\ ref' = ref /\ name' = name
  <2>1. /\ s # NULL /\ lock[s] = NULL /\ bn <= z.size /\ Cardinality(FreeBlocks(disk)) > Depth(bn)
        /\ disk' = [r.disk EXCEPT !.data[r.addr] = v]
        /\ IF bn = z.size THEN Iupdate(s, x) ELSE inode' = [inode EXCEPT ![s] = r.ip] /\ UNCHANGED dinode
        /\ SetValid(s) /\ UNCHANGED <<dir, inum, ref, lock, dirlock, pc, ip, name, fd>>
    BY Zenon DEF Write, NULL
  <2> HIDE DEF x, r, s, z, v
  <2> QED BY <2>1 DEF SetValid
<1>2. s \in Slot /\ ref[s] > 0 /\ i \in Inum BY <1>1, Held DEF IInv
<1>3. Small(z) /\ SameBlocks(z, dinode[i]) BY <1>2, IlockBlocks
<1>4. dinode[i].type = T_FILE BY <1>1 DEF IInv, UsedOK, UsedLives
<1>5. z.type = T_FILE BY <1>1, <1>2, <1>4, IlockFinds DEF IInv
<1> HIDE DEF z
<1>6. /\ z.addrs = Addresses[i] /\ z.size = dinode[i].size /\ dinode[i].addrs = Addresses[i]
      /\ z.d_addr = 0 /\ z.t_addr = 0 /\ z \in Dinode /\ z.size \in Nat
  BY <1>2, <1>3 DEF SameBlocks, Addresses, Small, Dinode
<1>7. /\ bn \in Nat /\ bn < NDIRECT + ENTRYNUM /\ bn + 1 <= MaxSize /\ MaxSize \in Nat
      /\ bn \in 0 .. NDIRECT + ENTRYNUM - 1
  BY InodesAssumption, BlockFacts DEF SmallFiles, MAXFILE, NDINDIRECT, NTINDIRECT
<1>8. Placed(disk, Addresses) /\ Filled(disk, dinode[i]) BY <1>2 DEF BlocksOK
<1> DEFINE a == r.ip.addrs
           B == [Addresses EXCEPT ![i] = a]
<1>9. /\ SpotOf(bn) \in Spot /\ SpotOf(bn) # NDIRECT
      /\ r.addr \in Block /\ r.ip = [z EXCEPT !.addrs = a]
      /\ Placed(r.disk, B) /\ a \in Addrs
      /\ Named(r.disk, a, SpotOf(bn)) = r.addr
      /\ \A m \in Spot \ {NDIRECT} : m # SpotOf(bn) => Named(r.disk, a, m) = Named(disk, Addresses[i], m)
      /\ \A j \in Inum \ {i}, m \in Spot : Named(r.disk, Addresses[j], m) = Named(disk, Addresses[j], m)
      /\ Named(disk, Addresses[i], SpotOf(bn)) # 0 => r.ip = z
  <2> HIDE DEF i
  <2> QED BY <1>1, <1>2, <1>6, <1>7, <1>8, BmapPlaces
<1> HIDE DEF r
<1>10. B[i] = a /\ \A j \in Inum \ {i} : B[j] = Addresses[j]
  <2>1. Addresses = [j \in Inum |-> Addresses[j]] BY DEF Addresses
  <2> HIDE DEF i, a
  <2> QED BY <1>2, <2>1
<1>11. r.addr # 0 BY <1>9, BlockFacts
<1>12. v \in [Entry -> Word] BY InodesAssumption
<1>13. disk' = [r.disk EXCEPT !.data = [@ EXCEPT ![r.addr] = v]] BY <1>1
<1> HIDE DEF v
<1>14. Placed(disk', B) /\ \A j \in Inum, m \in Spot : Named(disk', B[j], m) = Named(r.disk, B[j], m)
  <2> HIDE DEF B, a
  <2>1. r.addr = Named(r.disk, B[i], SpotOf(bn)) BY <1>9, <1>10
  <2> QED BY <1>2, <1>9, <1>11, <1>12, <1>13, <2>1, DataWritten
<1>15. \A j \in Inum \ {i}, m \in Spot : Named(disk', Addresses[j], m) = Named(disk, Addresses[j], m)
  BY <1>9, <1>10, <1>14
<1>16. \A m \in Spot : Named(disk', a, m) = Named(r.disk, a, m) BY <1>2, <1>10, <1>14
<1> DEFINE k == IF bn = z.size THEN bn + 1 ELSE z.size
<1>17. k \in Nat /\ k <= MaxSize BY <1>6, <1>7, <1>8 DEF Filled
<1>18. ASSUME NEW b \in 0 .. NDIRECT + ENTRYNUM - 1 PROVE Named(disk', a, SpotOf(b)) # 0 <=> b < k
  <2>1. SpotOf(b) \in Spot \ {NDIRECT} /\ (SpotOf(b) = SpotOf(bn) => b = bn) BY <1>7, SpotsDiffer
  <2>2. CASE b = bn
    <3>1. Named(disk', a, SpotOf(b)) = r.addr BY <1>9, <1>16, <2>2
    <3> QED BY <1>1, <1>6, <1>7, <1>11, <2>2, <3>1
  <2>3. CASE b # bn
    <3>1. Named(disk', a, SpotOf(b)) = Named(disk, Addresses[i], SpotOf(b)) BY <1>9, <1>16, <2>1, <2>3
    <3>2. Named(disk, Addresses[i], SpotOf(b)) # 0 <=> b < z.size BY <1>6, <1>8 DEF Filled
    <3>3. b < k <=> b < z.size BY <1>6, <1>7, <2>3
    <3> QED BY <3>1, <3>2, <3>3
  <2> QED BY <2>2, <2>3
<1>19. r.ip.size = z.size /\ r.ip.d_addr = 0 /\ r.ip.t_addr = 0 /\ r.ip \in Dinode /\ r.ip.type = T_FILE
  <2> HIDE DEF a
  <2>1. a \in [0 .. NDIRECT -> Word] BY <1>9 DEF Addrs
  <2> QED BY <1>5, <1>6, <1>9, <2>1 DEF Dinode
<1> DEFINE blocks == [addrs |-> a, size |-> k, d_addr |-> 0, t_addr |-> 0]
<1>20. /\ SameBlocks(inode'[s], blocks) /\ SameBlocks(dinode'[i], blocks) /\ dinode'[i].type # 0
       /\ \A t \in Slot \ {s} : inode'[t] = inode[t]
       /\ \A j \in Inum \ {i} : dinode'[j] = dinode[j]
  <2>1. inode = [t \in Slot |-> inode[t]] /\ dinode = [j \in Inum |-> dinode[j]] BY DEF IInv, Typed
  <2>2. blocks.addrs = a /\ blocks.size = k /\ blocks.d_addr = 0 /\ blocks.t_addr = 0 OBVIOUS
  <2>3. dinode[i].d_addr = 0 /\ dinode[i].t_addr = 0 BY <1>8 DEF Filled, Small
  <2>4. CASE bn = z.size
    <3>1. Iupdate(s, x) BY <1>1, <2>4
    <3> DEFINE y == [x EXCEPT !.d_addr = dinode[i].d_addr, !.t_addr = dinode[i].t_addr]
    <3>2. inode' = [inode EXCEPT ![s] = x] /\ dinode' = [dinode EXCEPT ![i] = y]
      BY <3>1 DEF Iupdate
    <3>3. x.addrs = a /\ x.size = bn + 1 /\ x.d_addr = 0 /\ x.t_addr = 0 /\ x.type = T_FILE
          /\ x \in [type : {0, T_FILE}, nlink : Nat, size : Nat,
                    addrs : [0 .. NDIRECT -> Word], d_addr : Word, t_addr : Word]
      BY <1>7, <1>19 DEF Dinode
    <3> HIDE DEF x
    <3>4. y.addrs = a /\ y.size = bn + 1 /\ y.d_addr = 0 /\ y.t_addr = 0 /\ y.type = T_FILE
      BY <2>3, <3>3
    <3> HIDE DEF y, i, a
    <3>5. inode'[s] = x /\ dinode'[i] = y /\ k = bn + 1 BY <1>2, <2>1, <2>4, <3>2
    <3>6. \A t \in Slot \ {s} : inode'[t] = inode[t] BY <2>1, <3>2
    <3>7. \A j \in Inum \ {i} : dinode'[j] = dinode[j] BY <2>1, <3>2
    <3> HIDE DEF blocks, k
    <3> QED BY <2>2, <3>3, <3>4, <3>5, <3>6, <3>7 DEF SameBlocks, T_FILE
  <2>5. CASE bn # z.size
    <3>1. inode' = [inode EXCEPT ![s] = r.ip] /\ dinode' = dinode BY <1>1, <2>5
    <3>2. Named(disk, Addresses[i], SpotOf(bn)) # 0
      <4>1. bn < z.size BY <1>1, <1>6, <1>7, <2>5
      <4> QED BY <1>6, <1>7, <1>8, <4>1 DEF Filled
    <3>3. r.ip = z BY <1>9, <3>2
    <3>4. dinode'[i].addrs = a /\ dinode'[i].size = z.size /\ dinode'[i].type = T_FILE
      BY <1>4, <1>6, <3>1, <3>3
    <3>5. inode'[s] = r.ip /\ k = z.size /\ \A t \in Slot \ {s} : inode'[t] = inode[t]
      <4> HIDE DEF s
      <4> QED BY <1>2, <2>1, <2>5, <3>1
    <3>6. \A j \in Inum \ {i} : dinode'[j] = dinode[j] BY <3>1
    <3>7. dinode'[i].d_addr = 0 /\ dinode'[i].t_addr = 0 BY <2>3, <3>1
    <3> HIDE DEF blocks, k, i
    <3> QED BY <1>19, <2>2, <3>4, <3>5, <3>6, <3>7 DEF SameBlocks, T_FILE
  <2> QED BY <2>4, <2>5
<1>21. \A t \in Slot \ {s} : inode'[t] = inode[t] /\ (valid'[t] <=> valid[t])
  BY <1>1, <1>20 DEF IInv, Typed
<1> HIDE DEF a, k
<1> QED BY <1>1, <1>2, <1>9, <1>14, <1>15, <1>17, <1>18, <1>20, <1>21, OneChanges

\* iput of the last reference to an inode without links, with its itrunc, keeps it.
LEMMA FreesBlocks == ASSUME IInv, BlocksOK, IInv', NEW p \in Proc, IputFrees(p) PROVE BlocksOK'
<1> DEFINE s == ip[p]
           i == inum[s]
           z == inode[s]
           r == Itrunc(disk, z)
           x == [r.ip EXCEPT !.type = 0, !.size = 0]
<1>1. /\ pc[p] = "itrunc" /\ disk' = r.disk /\ Iupdate(s, x)
      /\ UNCHANGED <<dir, inum, ref, valid, lock, dirlock, ip, name, fd>>
  BY DEF IputFrees
<1>2. s # NULL BY <1>1 DEF IInv, PlacesOK
<1>3. s \in Slot /\ ref[s] > 0 /\ i \in Inum BY <1>2, Held DEF IInv
<1>4. valid[s] BY <1>1 DEF IInv, TruncOK
<1>5. Small(z) /\ SameBlocks(z, dinode[i]) /\ Placed(disk, Addresses) /\ Filled(disk, dinode[i])
  BY <1>3, <1>4 DEF BlocksOK
<1>6. z.addrs = Addresses[i] BY <1>3, <1>5 DEF SameBlocks, Addresses
<1>7. /\ Placed(disk', [Addresses EXCEPT ![i] = NoAddrs])
      /\ r.ip \in Dinode /\ r.ip.addrs = NoAddrs /\ r.ip.d_addr = 0 /\ r.ip.t_addr = 0
      /\ \A j \in Inum \ {i}, m \in Spot : Named(disk', Addresses[j], m) = Named(disk, Addresses[j], m)
  <2>1. /\ Placed(r.disk, [Addresses EXCEPT ![i] = NoAddrs])
        /\ r.ip \in Dinode /\ r.ip.addrs = NoAddrs /\ r.ip.d_addr = 0 /\ r.ip.t_addr = 0
        /\ \A j \in Inum \ {i}, m \in Spot : Named(r.disk, Addresses[j], m) = Named(disk, Addresses[j], m)
    <3>2. i \in Inum BY <1>3
    <3> HIDE DEF i, z
    <3> QED BY ONLY <1>5, <1>6, <3>2, TruncPlaces
  <2> QED BY <1>1, <2>1
<1> HIDE DEF r
<1>8. /\ NoAddrs \in Addrs /\ \A m \in Spot : Named(disk', NoAddrs, m) = 0
  BY BlockFacts DEF NoAddrs, Addrs, Named, Spot
<1>9. \A bn \in 0 .. NDIRECT + ENTRYNUM - 1 : Named(disk', NoAddrs, SpotOf(bn)) # 0 <=> bn < 0
  BY <1>8, SpotsDiffer, BlockFacts
<1> DEFINE blocks == [addrs |-> NoAddrs, size |-> 0, d_addr |-> 0, t_addr |-> 0]
           y == [x EXCEPT !.d_addr = dinode[i].d_addr, !.t_addr = dinode[i].t_addr]
<1>10. blocks.addrs = NoAddrs /\ blocks.size = 0 /\ blocks.d_addr = 0 /\ blocks.t_addr = 0 OBVIOUS
<1>11. inode' = [inode EXCEPT ![s] = x] /\ dinode' = [dinode EXCEPT ![i] = y]
  BY <1>1 DEF Iupdate
<1>12. /\ x.addrs = NoAddrs /\ x.size = 0 /\ x.d_addr = 0 /\ x.t_addr = 0
       /\ x \in [type : {0, T_FILE}, nlink : Nat, size : Nat,
                addrs : [0 .. NDIRECT -> Word], d_addr : Word, t_addr : Word]
  BY <1>7 DEF Dinode
<1> HIDE DEF x
<1>13. dinode[i].d_addr = 0 /\ dinode[i].t_addr = 0 BY <1>5 DEF Filled, Small
<1>14. y.addrs = NoAddrs /\ y.size = 0 /\ y.d_addr = 0 /\ y.t_addr = 0 BY <1>12, <1>13
<1>15. inode = [t \in Slot |-> inode[t]] /\ dinode = [j \in Inum |-> dinode[j]] BY DEF IInv, Typed
<1> HIDE DEF y
<1>16. /\ inode'[s] = x /\ dinode'[i] = y
       /\ \A t \in Slot \ {s} : inode'[t] = inode[t]
       /\ \A j \in Inum \ {i} : dinode'[j] = dinode[j]
  <2> HIDE DEF s, i
  <2> QED BY <1>3, <1>11, <1>15
<1> HIDE DEF blocks
<1>17. SameBlocks(inode'[s], blocks) /\ SameBlocks(dinode'[i], blocks)
  BY <1>10, <1>12, <1>14, <1>16 DEF SameBlocks
<1>18. 0 \in Nat /\ 0 <= MaxSize BY InodesAssumption
<1>19. /\ SameBlocks(inode'[s], [addrs |-> NoAddrs, size |-> 0, d_addr |-> 0, t_addr |-> 0])
       /\ SameBlocks(dinode'[inum[s]], [addrs |-> NoAddrs, size |-> 0, d_addr |-> 0, t_addr |-> 0])
  BY <1>17 DEF blocks
<1>20. valid' = valid /\ inum' = inum /\ ref' = ref /\ name' = name BY <1>1
<1> HIDE DEF s, z
<1> QED BY <1>3, <1>7, <1>8, <1>9, <1>16, <1>18, <1>19, <1>20, OneChanges

-----------------------------------------------------------------------------
(* What the invariant says, and that it is one *)

\* An empty file system has the invariant.
LEMMA BlocksInit == Init => BlocksOK
<1> SUFFICES ASSUME Init PROVE BlocksOK OBVIOUS
<1>1. /\ disk = [used |-> {}, data |-> [b \in Block |-> Zeroes]]
      /\ \A i \in Inum : dinode[i] = NewDinode(0)
      /\ \A s \in Slot : inode[s] = NewDinode(0) /\ ref[s] = 0
      /\ name = [p \in Proc |-> NULL]
  BY DEF Init
<1>2. Small(NewDinode(0)) BY BlockFacts DEF Small, Dinode, NewDinode, NoAddrs
<1>3. /\ NoAddrs \in Addrs /\ \A m \in Spot : Named(disk, NoAddrs, m) = 0
  BY BlockFacts DEF NoAddrs, Addrs, Named, Spot
<1>4. NewDinode(0).addrs = NoAddrs /\ NewDinode(0).size = 0 BY DEF NewDinode
<1>5. Filled(disk, NewDinode(0))
  <2>1. 0 <= MaxSize BY InodesAssumption
  <2>2. \A bn \in 0 .. NDIRECT + ENTRYNUM - 1 : Named(disk, NoAddrs, SpotOf(bn)) = 0 /\ ~(bn < 0)
    BY <1>3, SpotsDiffer, BlockFacts
  <2> QED BY <1>2, <1>4, <2>1, <2>2 DEF Filled
<1>6. Placed(disk, Addresses)
  <2>1. \A i \in Inum : Addresses[i] = NoAddrs BY <1>1, <1>4 DEF Addresses
  <2>2. Addresses \in [Inum -> Addrs] BY <1>1, <1>3, <1>4 DEF Addresses
  <2>3. disk \in Disks /\ disk.used = {} BY <1>1, BlockFacts DEF Disks, Zeroes
  <2>4. Laid(disk, Addresses) BY <1>3, <2>1, <2>3 DEF Laid
  <2> QED BY <2>2, <2>3, <2>4 DEF Placed
<1>7. name \in [Proc -> Name \cup {NULL}] BY <1>1
<1> HIDE DEF Init
<1> QED BY <1>1, <1>2, <1>5, <1>6, <1>7 DEF BlocksOK

\* No step breaks the invariant.
LEMMA BlocksInductive == ASSUME SmallFiles PROVE IInv /\ IInv' /\ BlocksOK /\ [Next]_vars => BlocksOK'
<1> SUFFICES ASSUME IInv, IInv', BlocksOK, [Next]_vars PROVE BlocksOK' OBVIOUS
<1>1. CASE UNCHANGED vars
  <2>1. UNCHANGED <<disk, dinode, inum, ref, valid, inode, name>> BY <1>1 DEF vars, store, cache
  <2> QED BY <2>1 DEF BlocksOK, Addresses
<1>2. ASSUME NEW p \in Proc, Enter(p) PROVE BlocksOK'
  <2>1. CASE \E n \in Name : Open(p, n) \/ Create(p, n) \/ Unlink(p, n) BY <2>1, EnterBlocks
  <2>2. CASE \E o, n \in Name : Link(p, o, n) BY <2>2, EnterBlocks
  <2>3. CASE \E bn \in 0 .. MaxSize - 1, w \in Data : Write(p, bn, w) BY <2>3, WriteBlocks
  <2>4. CASE Close(p) BY <2>4, MovesBlocks
  <2> QED BY <1>2, <2>1, <2>2, <2>3, <2>4 DEF Enter
<1>3. ASSUME NEW p \in Proc, Continue(p) PROVE BlocksOK'
  BY <1>3, ContinueBlocks, MovesBlocks, FreesBlocks DEF Continue
<1> QED BY <1>1, <1>2, <1>3 DEF Next

\* So it holds in every reachable state.
LEMMA BlocksInvariant == ASSUME SmallFiles PROVE Spec => [](IInv /\ BlocksOK)
<1>1. Init => IInv /\ BlocksOK BY InvInit, BlocksInit
<1>2. IInv /\ BlocksOK /\ [Next]_vars => (IInv /\ BlocksOK)' BY InvInductive, BlocksInductive
<1> QED BY <1>1, <1>2, PTL DEF Spec

\* Read from the cache or from the disk, an inode has the blocks the disk says.
LEMMA CurrentBlocks ==
  ASSUME IInv, BlocksOK, NEW i \in Inum
  PROVE  Small(Current(i)) /\ SameBlocks(Current(i), dinode[i])
<1>1. Small(dinode[i]) BY DEF BlocksOK, Filled
<1>2. CASE \E s \in Cached(i) : valid[s]
  <2> DEFINE s == CHOOSE s \in Cached(i) : valid[s]
  <2>1. s \in Cached(i) /\ valid[s] BY <1>2
  <2>2. Current(i) = inode[s] BY <1>2 DEF Current
  <2> HIDE DEF s
  <2>3. s \in Slot /\ ref[s] > 0 /\ inum[s] = i BY <2>1 DEF Cached
  <2> QED BY <2>1, <2>2, <2>3 DEF BlocksOK
<1>3. CASE ~\E s \in Cached(i) : valid[s]
  <2>1. Current(i) = dinode[i] BY <1>3 DEF Current
  <2> QED BY <1>1, <2>1 DEF SameBlocks
<1> QED BY <1>2, <1>3

\* The blocks that an inode, as the cache or the disk has it, reaches from addrs.
LEMMA TreesAre ==
  ASSUME IInv, BlocksOK, NEW i \in Inum
  PROVE  /\ \A b : b \in Tree(disk, Current(i)) <=> b # 0 /\ \E k \in Spot : Named(disk, Addresses[i], k) = b
         /\ \A b : b \in DataBlocks(disk, Current(i)) <=>
                     b # 0 /\ \E k \in Spot \ {NDIRECT} : Named(disk, Addresses[i], k) = b
         /\ \A b : b \in IndexBlocks(disk, Current(i)) <=> b # 0 /\ b = Named(disk, Addresses[i], NDIRECT)
<1>1. Current(i).addrs = Addresses[i] /\ Small(Current(i)) BY CurrentBlocks DEF SameBlocks, Addresses
<1>2. disk \in Disks BY DEF BlocksOK, Placed
<1> DEFINE x == Current(i)
<1> HIDE DEF x
<1>3. /\ \A b : b \in DataBlocks(disk, x) <=> b # 0 /\ \E k \in Spot \ {NDIRECT} : Named(disk, x.addrs, k) = b
      /\ \A b : b \in IndexBlocks(disk, x) <=> b # 0 /\ b = Named(disk, x.addrs, NDIRECT)
      /\ NDIRECT \in Spot
  BY <1>1, <1>2, TreeNames DEF x
<1>4. Tree(disk, x) = DataBlocks(disk, x) \cup IndexBlocks(disk, x) BY DEF Tree
<1>5. \A b : b \in Tree(disk, x) <=> b # 0 /\ \E k \in Spot : Named(disk, x.addrs, k) = b
  BY <1>3, <1>4
<1> QED BY <1>1, <1>3, <1>5 DEF x

\* It gives every block in use to one inode.
LEMMA Owned == ASSUME IInv, BlocksOK PROVE BlocksOwned
<1>1. Laid(disk, Addresses) /\ disk \in Disks BY DEF BlocksOK, Placed
<1>2. 0 \notin disk.used BY <1>1, BlockFacts DEF Disks
<1>3. disk.used = UNION {Tree(disk, Current(i)) : i \in Inum}
  <2>1. ASSUME NEW b \in disk.used PROVE \E i \in Inum : b \in Tree(disk, Current(i))
    <3>1. PICK i \in Inum, k \in Spot : Named(disk, Addresses[i], k) = b BY <1>1 DEF Laid
    <3> QED BY <1>2, <3>1, TreesAre
  <2>2. ASSUME NEW i \in Inum, NEW b \in Tree(disk, Current(i)) PROVE b \in disk.used
    <3>1. PICK k \in Spot : Named(disk, Addresses[i], k) = b /\ b # 0 BY <2>2, TreesAre
    <3> QED BY <1>1, <3>1 DEF Laid
  <2> QED BY <2>1, <2>2
<1>4. ASSUME NEW i \in Inum, NEW j \in Inum, i # j, NEW b \in Tree(disk, Current(i)),
             b \in Tree(disk, Current(j))
      PROVE  FALSE
  <2>1. PICK k \in Spot : Named(disk, Addresses[i], k) = b /\ b # 0 BY <1>4, TreesAre
  <2>2. PICK m \in Spot : Named(disk, Addresses[j], m) = b BY <1>4, TreesAre
  <2> QED BY <1>1, <1>4, <2>1, <2>2 DEF Laid
<1>5. ASSUME NEW i \in Inum, NEW b \in DataBlocks(disk, Current(i)),
             b \in IndexBlocks(disk, Current(i))
      PROVE  FALSE
  <2>1. PICK k \in Spot \ {NDIRECT} : Named(disk, Addresses[i], k) = b /\ b # 0 BY <1>5, TreesAre
  <2>2. b = Named(disk, Addresses[i], NDIRECT) /\ NDIRECT \in Spot BY <1>5, TreesAre, BlockFacts DEF Spot
  <2> QED BY <1>1, <2>1, <2>2 DEF Laid
<1> QED BY <1>3, <1>4, <1>5 DEF BlocksOwned

\* A file has as many data blocks as its size says.
LEMMA Full == ASSUME SmallFiles, IInv, BlocksOK PROVE NoHoles
<1> SUFFICES ASSUME NEW i \in Inum
             PROVE  Cardinality(DataBlocks(disk, Current(i))) = Current(i).size
  BY DEF NoHoles
<1> DEFINE a == Addresses[i]
           n == dinode[i].size
           T == DataBlocks(disk, Current(i))
           f == [bn \in 0 .. n - 1 |-> Named(disk, a, SpotOf(bn))]
<1> USE BlockFacts
<1>1. /\ Current(i).size = n /\ n \in Nat /\ a = dinode[i].addrs
      /\ \A bn \in 0 .. NDIRECT + ENTRYNUM - 1 : Named(disk, a, SpotOf(bn)) # 0 <=> bn < n
  BY CurrentBlocks, SmallFacts DEF SameBlocks, Addresses, BlocksOK, Filled
<1>2. \A b : b \in T <=> b # 0 /\ \E k \in Spot \ {NDIRECT} : Named(disk, a, k) = b
  BY TreesAre
<1>3. n <= NDIRECT + ENTRYNUM
  <2>1. MaxSize \in Nat BY InodesAssumption DEF MAXFILE, NDINDIRECT, NTINDIRECT
  <2>2. n <= MaxSize BY DEF BlocksOK, Filled
  <2> QED BY <1>1, <2>1, <2>2 DEF SmallFiles
<1> HIDE DEF n, a, T
<1>4. f \in [0 .. n - 1 -> T]
  <2> SUFFICES ASSUME NEW bn \in 0 .. n - 1 PROVE Named(disk, a, SpotOf(bn)) \in T OBVIOUS
  <2>1. bn \in 0 .. NDIRECT + ENTRYNUM - 1 /\ bn < n BY <1>1, <1>3
  <2> QED BY <1>1, <1>2, <2>1, SpotsDiffer
<1>5. \A b \in T : \E bn \in 0 .. n - 1 : f[bn] = b
  <2> SUFFICES ASSUME NEW b \in T PROVE \E bn \in 0 .. n - 1 : Named(disk, a, SpotOf(bn)) = b OBVIOUS
  <2>1. PICK k \in Spot \ {NDIRECT} : Named(disk, a, k) = b /\ b # 0 BY <1>2
  <2>2. PICK bn \in 0 .. NDIRECT + ENTRYNUM - 1 : SpotOf(bn) = k
    <3>1. CASE k < NDIRECT BY <3>1 DEF SpotOf, Spot
    <3>2. CASE ~(k < NDIRECT)
      <4>1. k - 1 \in 0 .. NDIRECT + ENTRYNUM - 1 /\ SpotOf(k - 1) = k BY <3>2 DEF SpotOf, Spot
      <4> QED BY <4>1
    <3> QED BY <3>1, <3>2
  <2>3. bn < n BY <1>1, <2>1, <2>2
  <2> QED BY <1>1, <2>1, <2>2, <2>3
<1>6. \A b, c \in 0 .. n - 1 : f[b] = f[c] => b = c
  <2> SUFFICES ASSUME NEW b \in 0 .. n - 1, NEW c \in 0 .. n - 1,
                      Named(disk, a, SpotOf(b)) = Named(disk, a, SpotOf(c))
               PROVE  b = c
    OBVIOUS
  <2>1. /\ b \in 0 .. NDIRECT + ENTRYNUM - 1 /\ b < n
        /\ c \in 0 .. NDIRECT + ENTRYNUM - 1
    BY <1>1, <1>3
  <2>2. Laid(disk, Addresses) BY DEF BlocksOK, Placed
  <2>3. SpotOf(b) = SpotOf(c) BY <1>1, <2>1, <2>2, SpotsDiffer DEF Laid, a
  <2> QED BY <2>1, <2>3, SpotsDiffer
<1>7. f \in Surjection(0 .. n - 1, T) /\ f \in Injection(0 .. n - 1, T)
  <2>1. DOMAIN f = 0 .. n - 1 OBVIOUS
  <2> HIDE DEF f
  <2> QED BY <1>4, <1>5, <1>6, <2>1 DEF Surjection, Injection, IsInjective
<1>8. IsFiniteSet(0 .. n - 1) /\ Cardinality(0 .. n - 1) = n
  <2>1. 0 \in Int /\ n - 1 \in Int /\ (0 > n - 1 <=> n = 0) /\ (n - 1) - 0 + 1 = n BY <1>1
  <2> QED BY <2>1, FS_Interval
<1> QED BY <1>1, <1>7, <1>8, FS_Surjection DEF T

\* A valid entry that nobody has locked is the inode on the disk.
LEMMA CopiesRight == ASSUME IInv, BlocksOK PROVE WriteThrough
<1> SUFFICES ASSUME NEW s \in Slot, ref[s] > 0, valid[s], lock[s] = NULL
             PROVE  inode[s] = dinode[inum[s]]
  BY DEF WriteThrough
<1>1. ~Freeing(s) BY Finite DEF IInv, Freeing, FreeingLocks
<1>2. inum[s] \in Inum BY DEF IInv, EntriesOK
<1>3. inode[s].nlink = dinode[inum[s]].nlink /\ inode[s].type = dinode[inum[s]].type
  BY <1>1 DEF IInv, CopyOK
<1>4. /\ Small(inode[s]) /\ Small(dinode[inum[s]]) /\ SameBlocks(inode[s], dinode[inum[s]])
  BY <1>2 DEF BlocksOK, Filled
<1> QED BY <1>3, <1>4, SmallFacts

\* itrunc never calls bfree on a free block: bfree does not panic.
LEMMA FreesRight == ASSUME IInv, BlocksOK, NEW p \in Proc, pc[p] = "itrunc" PROVE FreesOnce(disk, inode[ip[p]])
<1> DEFINE s == ip[p]
           z == inode[s]
           i == inum[s]
<1>1. s # NULL BY DEF IInv, PlacesOK
<1>2. s \in Slot /\ ref[s] > 0 /\ i \in Inum BY <1>1, Held DEF IInv
<1>3. valid[s] BY DEF IInv, TruncOK
<1>4. Small(z) /\ SameBlocks(z, dinode[i]) /\ Placed(disk, Addresses) BY <1>2, <1>3 DEF BlocksOK
<1>5. z.addrs = Addresses[i] BY <1>2, <1>4 DEF SameBlocks, Addresses
<1> HIDE DEF z, i
<1>6. FreesOnce(disk, z) BY ONLY <1>2, <1>4, <1>5, TruncPlaces
<1> QED BY <1>6 DEF z

\* All variables have their types.
LEMMA TypesRight == ASSUME IInv, BlocksOK PROVE TypeOK
<1>1. disk \in Disks BY DEF BlocksOK, Placed
<1>2. dinode \in [Inum -> Dinode]
  <2>1. dinode = [i \in Inum |-> dinode[i]] BY DEF IInv, Typed
  <2>2. \A i \in Inum : dinode[i] \in Dinode BY DEF BlocksOK, Filled, Small
  <2> QED BY <2>1, <2>2
<1>3. inode \in [Slot -> Dinode]
  <2>1. inode = [s \in Slot |-> inode[s]] BY DEF IInv, Typed
  <2>2. \A s \in Slot : inode[s] \in Dinode BY DEF BlocksOK, Small
  <2> QED BY <2>1, <2>2
<1>4. name \in [Proc -> Name \cup {NULL}] BY DEF BlocksOK
<1> QED BY <1>1, <1>2, <1>3, <1>4 DEF IInv, Typed, TypeOK

\* In every reachable state the blocks marked in the bitmap are those that the inodes
\* reach, and no two inodes reach one block: the calls of balloc in bmap and of bfree in
\* itrunc (fs.c of project03) neither lose a block nor give it away twice.
THEOREM TreesOwned == ASSUME SmallFiles PROVE Spec => []BlocksOwned
<1>1. IInv /\ BlocksOK => BlocksOwned BY Owned
<1> QED BY <1>1, BlocksInvariant, PTL

\* A valid cache entry that nobody has locked says what the inode on the disk says:
\* every change under ilock ends in iupdate (fs.c, sysfile.c of project03).
THEOREM CacheWrittenThrough == ASSUME SmallFiles PROVE Spec => []WriteThrough
<1>1. IInv /\ BlocksOK => WriteThrough BY CopiesRight
<1> QED BY <1>1, BlocksInvariant, PTL

\* All that is checked of the inodes by run inodes holds in every reachable state, for
\* any number of processes, names, entries and blocks: types, write-through, no panic in
\* ilock, unlink and bfree, the blocks' owners, and files without holes.
THEOREM RightAlways == ASSUME SmallFiles PROVE Spec => []InodesRight
<1>1. ASSUME IInv, BlocksOK, LocksFiles PROVE InodesRight
  <2>1. TypeOK /\ WriteThrough /\ BlocksOwned /\ NoHoles
    BY <1>1, TypesRight, CopiesRight, Owned, Full
  <2>2. NoPanic BY <1>1, FreesRight DEF NoPanic, LocksFiles
  <2> QED BY <2>1, <2>2 DEF InodesRight
<1>2. IInv /\ BlocksOK /\ LocksFiles => InodesRight BY <1>1
<1> QED BY <1>2, BlocksInvariant, FilesLocked, PTL
=============================================================================
