----------------------------- MODULE NamesProofs -----------------------------
(***************************************************************************)
(* Directories and path names of project01: whatever processes look up,    *)
(* make and remove at the same time, a name leads to an inode that is not  *)
(* free, with a count no smaller than its names call for, and the          *)
(* directories form no cycle, for every number of processes, inodes, names *)
(* and calls.                                                              *)
(***************************************************************************)
EXTENDS Names, Integers, FiniteSetTheorems, WellFoundedInduction, TLAPS

Places == Calls \cup {"user", "newlink", "bad", "unlinked"}
Kinds  == {"free", "dir", "file"}
Elem   == Name \cup {DOTDOT}
Inode0 == Inum \cup {NULL}
Tables == [Inum -> [Name -> Inode0]]

InodesTyped(t, n, e, d) ==
  t \in [Inum -> Kinds] /\ n \in [Inum -> Nat] /\ e \in Tables /\ d \in [Inum -> Inode0]

CallsTyped ==
  /\ pc \in [Proc -> Places] /\ rest \in [Proc -> Seq(Elem)]
  /\ ip \in [Proc -> Inode0] /\ dp \in [Proc -> Inode0]
  /\ old \in [Proc -> Inode0] /\ new \in [Proc -> Paths \cup {<<>>}]
  /\ cwd \in [Proc -> Inum] /\ fd \in [Proc -> Inode0]
  /\ \A p \in Proc : pc[p] = "link" => new[p] \in Paths

Typed ==
  /\ InodesTyped(type, nlink, entries, dotdot) /\ CallsTyped
  /\ lock \in [Inum -> Proc \cup {NULL}] /\ panicked \in BOOLEAN

\* What is said of the inodes is said of functions t, n, e and d in place of type, nlink,
\* entries and dotdot, and a and o in place of pc and old: a call changes them first, and
\* frees what nothing refers to then.
LinksIn(e, i) == {l \in Inum \X Name : e[l[1]][l[2]] = i}
SubdirsIn(t, e, d, i) == {x \in Inum \ {ROOTINO} : t[x] = "dir" /\ d[x] = i /\ LinksIn(e, x) # {}}
AheadIn(a, o, i) == {p \in Proc : a[p] \in Counting /\ o[p] = i}

\* The root has a link for itself.
Own(i) == IF i = ROOTINO THEN 1 ELSE 0

\* Only directories have entries, and all of them have "..".
KindsOK(t, e, d) ==
  /\ t[ROOTINO] = "dir"
  /\ \A i \in Inum : IF t[i] = "dir" THEN d[i] # NULL ELSE e[i] = NoEntries

\* An entry is of an inode that is not free, and is not the root.
EntriesOK(t, e) ==
  \A l \in Inum \X Name : e[l[1]][l[2]] # NULL =>
    e[l[1]][l[2]] # ROOTINO /\ t[e[l[1]][l[2]]] # "free"

CountsOK(t, n, e, d, a, o) ==
  \A i \in Inum : n[i] >= Own(i) + Cardinality(LinksIn(e, i)) + Cardinality(SubdirsIn(t, e, d, i))
                            + Cardinality(AheadIn(a, o, i))

\* A directory is in one place, which its ".." names.
OnePlace(t, e, d) ==
  \A i \in Inum : t[i] = "dir" =>
    \A l \in LinksIn(e, i) : LinksIn(e, i) = {l} /\ d[i] = l[1]

\* What a count without a name is of: what is linked anew is a file.
CountedOK(t, b, i) == i \in Inum /\ t[i] # "free" /\ (b # "unlinked" => t[i] = "file")
AheadOK(t, a, o) == \A p \in Proc : a[p] \in Counting => CountedOK(t, a[p], o[p])

\* Some inode of any set has no name in a directory of that set: there is no cycle.
NoCycle(e) ==
  \A S \in SUBSET Inum : S # {} => \E i \in S : \A c \in S, x \in Name : e[c][x] # i

Sound(t, n, e, d, a, o) ==
  /\ KindsOK(t, e, d) /\ EntriesOK(t, e) /\ CountsOK(t, n, e, d, a, o) /\ OnePlace(t, e, d)
  /\ AheadOK(t, a, o) /\ NoCycle(e)

\* A call refers to an inode, and unlink holds the lock of the directory in which it found it,
\* and then of the inode: so with a, i, r, c, o and k in place of pc, ip, rest, dp, old and lock.
CallOK(a, i, r, c, o, k, e, p) ==
  /\ IF a[p] = "user" THEN r[p] = <<>> ELSE i[p] # NULL
  /\ c[p] # NULL => /\ a[p] = "unlink" /\ k[c[p]] = p /\ Len(r[p]) = 1
                    /\ Head(r[p]) \in Name /\ e[c[p]][Head(r[p])] = i[p]
  /\ a[p] = "unlinked" => k[i[p]] = p /\ o[p] = i[p]
CallsOK == \A p \in Proc : CallOK(pc, ip, rest, dp, old, lock, entries, p)

\* The current directory and the open file of p are not free.
PlaceLive(t, w, f, p) == t[w[p]] # "free" /\ (f[p] # NULL => t[f[p]] # "free")
PlacesLive == \A p \in Proc : PlaceLive(type, cwd, fd, p)

IInv == Typed /\ Sound(type, nlink, entries, dotdot, pc, old) /\ CallsOK /\ PlacesLive

\* No directory is below itself, however it was made and removed.
Acyclic == NoCycle(entries)

-----------------------------------------------------------------------------
(* The inodes *)

\* The root is an inode, and the sets whose sizes a count is compared with are finite.
LEMMA Finite ==
  ASSUME NamesAssumption, NEW t, NEW e, NEW d, NEW a, NEW o, NEW i
  PROVE  /\ IsFiniteSet(LinksIn(e, i)) /\ Cardinality(LinksIn(e, i)) \in Nat
         /\ IsFiniteSet(SubdirsIn(t, e, d, i)) /\ Cardinality(SubdirsIn(t, e, d, i)) \in Nat
         /\ IsFiniteSet(AheadIn(a, o, i)) /\ Cardinality(AheadIn(a, o, i)) \in Nat
<1>1. IsFiniteSet(Inum) BY FS_Interval DEF Inum, NamesAssumption
<1>2. IsFiniteSet(Inum \X Name) BY <1>1, FS_Product DEF NamesAssumption
<1>3. LinksIn(e, i) \subseteq Inum \X Name BY DEF LinksIn
<1>4. SubdirsIn(t, e, d, i) \subseteq Inum BY DEF SubdirsIn
<1>5. AheadIn(a, o, i) \subseteq Proc BY DEF AheadIn
<1>6. IsFiniteSet(LinksIn(e, i)) BY <1>2, <1>3, FS_Subset
<1>7. IsFiniteSet(SubdirsIn(t, e, d, i)) BY <1>1, <1>4, FS_Subset
<1>8. IsFiniteSet(AheadIn(a, o, i)) BY <1>5, FS_Subset DEF NamesAssumption
<1> QED BY <1>6, <1>7, <1>8, FS_CardinalityType

LEMMA Root == ASSUME NamesAssumption PROVE ROOTINO \in Inum /\ NULL \notin Inum /\ Inum \subseteq Nat
BY DEF NamesAssumption, ROOTINO, NULL, Inum

\* A count that is 0 says that the inode has no name, is no parent, and is not linked now.
LEMMA Unlinked ==
  ASSUME NamesAssumption, NEW t, NEW n \in [Inum -> Nat], NEW e, NEW d, NEW a, NEW o,
         CountsOK(t, n, e, d, a, o), NEW i \in Inum, n[i] = 0
  PROVE  /\ LinksIn(e, i) = {} /\ SubdirsIn(t, e, d, i) = {} /\ AheadIn(a, o, i) = {}
         /\ i # ROOTINO
<1> DEFINE l == Cardinality(LinksIn(e, i))
           s == Cardinality(SubdirsIn(t, e, d, i))
           h == Cardinality(AheadIn(a, o, i))
<1>1. l \in Nat /\ s \in Nat /\ h \in Nat BY Finite
<1>2. n[i] >= Own(i) + l + s + h BY DEF CountsOK
<1>3. Own(i) \in {0, 1} /\ (i = ROOTINO => Own(i) = 1) BY DEF Own
<1> HIDE DEF l, s, h
<1>4. l = 0 /\ s = 0 /\ h = 0 /\ Own(i) = 0 BY <1>1, <1>2, <1>3
<1> QED BY <1>3, <1>4, Finite, FS_EmptySet DEF l, s, h

\* Sets that shrink keep a count large enough.
LEMMA Shrinks ==
  ASSUME NamesAssumption, NEW t, NEW n \in [Inum -> Nat], NEW e, NEW d, NEW a, NEW o,
         NEW t2, NEW e2, NEW d2, NEW a2, NEW o2, CountsOK(t, n, e, d, a, o),
         \A i \in Inum : /\ LinksIn(e2, i) \subseteq LinksIn(e, i)
                         /\ SubdirsIn(t2, e2, d2, i) \subseteq SubdirsIn(t, e, d, i)
                         /\ AheadIn(a2, o2, i) \subseteq AheadIn(a, o, i)
  PROVE  CountsOK(t2, n, e2, d2, a2, o2)
<1>1. ASSUME NEW i \in Inum
      PROVE  n[i] >= Own(i) + Cardinality(LinksIn(e2, i)) + Cardinality(SubdirsIn(t2, e2, d2, i))
                            + Cardinality(AheadIn(a2, o2, i))
  <2> DEFINE l == Cardinality(LinksIn(e, i))
             s == Cardinality(SubdirsIn(t, e, d, i))
             h == Cardinality(AheadIn(a, o, i))
             l2 == Cardinality(LinksIn(e2, i))
             s2 == Cardinality(SubdirsIn(t2, e2, d2, i))
             h2 == Cardinality(AheadIn(a2, o2, i))
  <2>1. l \in Nat /\ s \in Nat /\ h \in Nat /\ l2 \in Nat /\ s2 \in Nat /\ h2 \in Nat BY Finite
  <2>2. l2 <= l BY Finite, FS_Subset
  <2>3. s2 <= s BY Finite, FS_Subset
  <2>4. h2 <= h BY Finite, FS_Subset
  <2>5. n[i] >= Own(i) + l + s + h /\ n[i] \in Nat /\ Own(i) \in Nat BY DEF CountsOK, Own
  <2> HIDE DEF l, s, h, l2, s2, h2
  <2>6. n[i] >= Own(i) + l2 + s2 + h2 BY <2>1, <2>2, <2>3, <2>4, <2>5
  <2> QED BY <2>6 DEF l2, s2, h2
<1> QED BY <1>1 DEF CountsOK

\* Inodes without links can be freed, all at once.
LEMMA Frees ==
  ASSUME NamesAssumption, NEW t \in [Inum -> Kinds], NEW n \in [Inum -> Nat], NEW e \in Tables,
         NEW d \in [Inum -> Inode0], NEW a, NEW o, Sound(t, n, e, d, a, o),
         NEW gone \in SUBSET Inum, \A i \in gone : n[i] = 0,
         NEW t2, NEW e2, NEW d2,
         \A i \in Inum : /\ t2[i] = IF i \in gone THEN "free" ELSE t[i]
                         /\ e2[i] = IF i \in gone THEN NoEntries ELSE e[i]
                         /\ d2[i] = IF i \in gone THEN NULL ELSE d[i]
  PROVE  Sound(t2, n, e2, d2, a, o)
<1>0. CountsOK(t, n, e, d, a, o) BY DEF Sound
<1>1. \A i \in gone : LinksIn(e, i) = {} /\ AheadIn(a, o, i) = {} /\ i # ROOTINO
  BY <1>0, Unlinked
<1>2. /\ \A i \in Inum : t2[i] = IF i \in gone THEN "free" ELSE t[i]
      /\ \A i \in Inum : d2[i] = IF i \in gone THEN NULL ELSE d[i]
      /\ \A i \in Inum : e2[i] = IF i \in gone THEN NoEntries ELSE e[i]
      /\ \A x \in Name : NoEntries[x] = NULL
  BY DEF NoEntries
<1>4. \A l \in Inum \X Name : e2[l[1]][l[2]] = IF l[1] \in gone THEN NULL ELSE e[l[1]][l[2]]
  BY <1>2
<1>5. \A i \in Inum : LinksIn(e2, i) \subseteq LinksIn(e, i)
  BY <1>4, Root DEF LinksIn
<1>6. \A i \in Inum : SubdirsIn(t2, e2, d2, i) \subseteq SubdirsIn(t, e, d, i)
  BY <1>2, <1>5 DEF SubdirsIn
<1>7. CountsOK(t2, n, e2, d2, a, o) BY <1>0, <1>5, <1>6, Shrinks
<1>8. KindsOK(t2, e2, d2) BY <1>1, <1>2, Root DEF Sound, KindsOK
<1>9. EntriesOK(t2, e2)
  <2>1. ASSUME NEW l \in Inum \X Name, e2[l[1]][l[2]] # NULL
        PROVE  e2[l[1]][l[2]] # ROOTINO /\ t2[e2[l[1]][l[2]]] # "free"
    <3> DEFINE i == e[l[1]][l[2]]
    <3>1. e2[l[1]][l[2]] = i /\ i # NULL BY <1>4, <2>1
    <3>2. i \in Inum BY <3>1 DEF Tables, Inode0
    <3>3. l \in LinksIn(e, i) BY DEF LinksIn
    <3>4. i \notin gone BY <1>1, <3>3
    <3>5. i # ROOTINO /\ t[i] # "free" BY <3>1 DEF Sound, EntriesOK
    <3>6. t2[i] = t[i] BY <1>2, <3>2, <3>4
    <3> QED BY <3>1, <3>5, <3>6
  <2> QED BY <2>1 DEF EntriesOK
<1>10. OnePlace(t2, e2, d2)
  <2>1. ASSUME NEW i \in Inum, t2[i] = "dir", NEW l \in LinksIn(e2, i)
        PROVE  LinksIn(e2, i) = {l} /\ d2[i] = l[1]
    <3>1. i \notin gone BY <1>2, <2>1
    <3>2. t[i] = "dir" /\ d2[i] = d[i] BY <1>2, <2>1, <3>1
    <3>3. l \in LinksIn(e, i) BY <1>5, <2>1
    <3>4. LinksIn(e, i) = {l} /\ d[i] = l[1] BY <3>2, <3>3 DEF Sound, OnePlace
    <3> QED BY <1>5, <2>1, <3>2, <3>4
  <2> QED BY <2>1 DEF OnePlace
<1>11. AheadOK(t2, a, o)
  <2>1. ASSUME NEW p \in Proc, a[p] \in Counting
        PROVE  CountedOK(t2, a[p], o[p])
    <3>1. CountedOK(t, a[p], o[p]) BY <2>1 DEF Sound, AheadOK
    <3>2. p \in AheadIn(a, o, o[p]) BY <2>1 DEF AheadIn
    <3> QED BY <1>1, <1>2, <3>1, <3>2 DEF CountedOK
  <2> QED BY <2>1 DEF AheadOK
<1>12. NoCycle(e2)
  <2>1. ASSUME NEW S \in SUBSET Inum, S # {}
        PROVE  \E i \in S : \A c \in S, x \in Name : e2[c][x] # i
    <3>1. PICK i \in S : \A c \in S, x \in Name : e[c][x] # i BY <2>1 DEF Sound, NoCycle
    <3>2. ASSUME NEW c \in S, NEW x \in Name PROVE e2[c][x] # i
      <4>1. e2[c][x] = NULL \/ e2[c][x] = e[c][x] BY <1>2
      <4> QED BY <3>1, <4>1, Root
    <3> QED BY <3>2
  <2> QED BY <2>1 DEF NoCycle
<1> QED BY <1>7, <1>8, <1>9, <1>10, <1>11, <1>12 DEF Sound

-----------------------------------------------------------------------------
(* A step of a process *)

\* A step of p, of whose call nobody else's depends.
Moves(p) ==
  /\ CallsTyped'
  /\ \A q \in Proc \ {p} : /\ pc'[q] = pc[q] /\ ip'[q] = ip[q] /\ rest'[q] = rest[q] /\ dp'[q] = dp[q]
                           /\ old'[q] = old[q] /\ cwd'[q] = cwd[q] /\ fd'[q] = fd[q]

\* What changed stays, unless it is freed, and what a process refers to is not freed.
LEMMA Changed ==
  ASSUME NamesAssumption, NEW S, NEW t \in [Inum -> Kinds], NEW n \in [Inum -> Nat],
         NEW e \in Tables, NEW d \in [Inum -> Inode0], Change(S, t, n, e, d),
         Sound(t, n, e, d, pc', old')
  PROVE  /\ Sound(type', nlink', entries', dotdot', pc', old')
         /\ InodesTyped(type', nlink', entries', dotdot')
         /\ \A i \in Inum, q \in Proc : i \in {ip'[q], dp'[q], cwd'[q], fd'[q]} =>
              type'[i] = t[i] /\ entries'[i] = e[i]
<1>1. PICK gone \in SUBSET Inum :
        /\ \A i \in gone : n[i] = 0
        /\ \A i \in gone, q \in Proc : i \notin {ip'[q], dp'[q], old'[q], cwd'[q], fd'[q]}
        /\ type' = [i \in Inum |-> IF i \in gone THEN "free" ELSE t[i]]
        /\ entries' = [i \in Inum |-> IF i \in gone THEN NoEntries ELSE e[i]]
        /\ dotdot' = [i \in Inum |-> IF i \in gone THEN NULL ELSE d[i]]
        /\ nlink' = n
  <2> DEFINE all == Put(S, n)
             gone == all \cap Inum
  <2>1. \A i \in all : n[i] = 0 /\ \A q \in Proc : i \notin {ip'[q], dp'[q], old'[q], cwd'[q], fd'[q]}
    BY DEF Put
  <2>2. /\ type' = [i \in Inum |-> IF i \in all THEN "free" ELSE t[i]]
        /\ entries' = [i \in Inum |-> IF i \in all THEN NoEntries ELSE e[i]]
        /\ dotdot' = [i \in Inum |-> IF i \in all THEN NULL ELSE d[i]]
        /\ nlink' = n
    BY DEF Change
  <2> HIDE DEF all
  <2>3. /\ type' = [i \in Inum |-> IF i \in gone THEN "free" ELSE t[i]]
        /\ entries' = [i \in Inum |-> IF i \in gone THEN NoEntries ELSE e[i]]
        /\ dotdot' = [i \in Inum |-> IF i \in gone THEN NULL ELSE d[i]]
    BY <2>2
  <2>4. gone \in SUBSET Inum OBVIOUS
  <2> QED BY <2>1, <2>2, <2>3, <2>4
<1>2. Sound(type', n, entries', dotdot', pc', old')
  <2>1. \A i \in Inum : /\ type'[i] = IF i \in gone THEN "free" ELSE t[i]
                        /\ entries'[i] = IF i \in gone THEN NoEntries ELSE e[i]
                        /\ dotdot'[i] = IF i \in gone THEN NULL ELSE d[i]
    BY <1>1
  <2> QED BY <1>1, <2>1, Frees
<1>4. type' \in [Inum -> Kinds] /\ entries' \in Tables /\ dotdot' \in [Inum -> Inode0]
  BY <1>1 DEF Kinds, Tables, Inode0, NoEntries
<1>3. \A i \in Inum, q \in Proc : i \in {ip'[q], dp'[q], cwd'[q], fd'[q]} =>
        type'[i] = t[i] /\ entries'[i] = e[i]
  BY <1>1
<1> QED BY <1>1, <1>2, <1>3, <1>4 DEF InodesTyped

\* What p changes and leaves to others: the directories that they hold, and what is not free.
Leaves(p, t, e) ==
  /\ lock' \in [Inum -> Proc \cup {NULL}] /\ panicked' \in BOOLEAN
  /\ \A q \in Proc \ {p} : /\ dp[q] # NULL => lock'[dp[q]] = q /\ e[dp[q]] = entries[dp[q]]
                           /\ pc[q] = "unlinked" => lock'[ip[q]] = q
  /\ \A j \in Inum : type[j] # "free" => t[j] # "free"
  /\ CallOK(pc', ip', rest', dp', old', lock', e, p) /\ PlaceLive(t, cwd', fd', p)

LEMMA Step ==
  ASSUME NamesAssumption, IInv, NEW p \in Proc, Moves(p),
         NEW S, NEW t \in [Inum -> Kinds], NEW n \in [Inum -> Nat],
         NEW e \in Tables, NEW d \in [Inum -> Inode0], Change(S, t, n, e, d),
         Sound(t, n, e, d, pc', old'), Leaves(p, t, e)
  PROVE  IInv'
<1>1. CallsTyped' /\ lock' \in [Inum -> Proc \cup {NULL}] /\ panicked' \in BOOLEAN
  BY DEF Moves, Leaves
<1>2. \A q \in Proc \ {p} : /\ pc'[q] = pc[q] /\ ip'[q] = ip[q] /\ rest'[q] = rest[q] /\ dp'[q] = dp[q]
                            /\ old'[q] = old[q] /\ cwd'[q] = cwd[q] /\ fd'[q] = fd[q]
  BY DEF Moves
<1>3. /\ Sound(type', nlink', entries', dotdot', pc', old')
      /\ InodesTyped(type', nlink', entries', dotdot')
      /\ \A j \in Inum, q \in Proc : j \in {ip'[q], dp'[q], cwd'[q], fd'[q]} =>
           type'[j] = t[j] /\ entries'[j] = e[j]
  BY Changed
<1>4. Typed' BY <1>1, <1>3 DEF Typed
<1>5. ASSUME NEW q \in Proc PROVE CallOK(pc', ip', rest', dp', old', lock', entries', q)
  <2>1. dp'[q] # NULL => dp'[q] \in Inum /\ entries'[dp'[q]] = e[dp'[q]]
    BY <1>1, <1>3 DEF CallsTyped, Inode0
  <2>2. CASE q = p
    <3>1. CallOK(pc', ip', rest', dp', old', lock', e, p) BY DEF Leaves
    <3> QED BY <2>1, <2>2, <3>1 DEF CallOK
  <2>3. CASE q # p
    <3>1. CallOK(pc, ip, rest, dp, old, lock, entries, q) BY DEF IInv, CallsOK
    <3>2. /\ dp[q] # NULL => lock'[dp[q]] = q /\ e[dp[q]] = entries[dp[q]]
          /\ pc[q] = "unlinked" => lock'[ip[q]] = q
      BY <2>3 DEF Leaves
    <3> QED BY <1>2, <2>1, <2>3, <3>1, <3>2 DEF CallOK
  <2> QED BY <2>2, <2>3
<1>6. ASSUME NEW q \in Proc PROVE PlaceLive(type', cwd', fd', q)
  <2>1. cwd'[q] \in Inum /\ (fd'[q] # NULL => fd'[q] \in Inum)
    BY <1>1 DEF CallsTyped, Inode0
  <2>2. type'[cwd'[q]] = t[cwd'[q]] /\ (fd'[q] # NULL => type'[fd'[q]] = t[fd'[q]])
    BY <1>3, <2>1
  <2>3. CASE q = p
    <3>1. PlaceLive(t, cwd', fd', p) BY DEF Leaves
    <3> QED BY <2>2, <2>3, <3>1 DEF PlaceLive
  <2>4. CASE q # p
    <3>1. type[cwd[q]] # "free" /\ (fd[q] # NULL => type[fd[q]] # "free")
      BY DEF IInv, PlacesLive, PlaceLive
    <3>2. \A j \in Inum : type[j] # "free" => t[j] # "free" BY DEF Leaves
    <3> QED BY <1>2, <2>1, <2>2, <2>4, <3>1, <3>2 DEF PlaceLive
  <2> QED BY <2>3, <2>4
<1> QED BY <1>3, <1>4, <1>5, <1>6 DEF IInv, CallsOK, PlacesLive

\* The links made ahead stay, unless p has made one, or has it no longer.
LEMMA Keeps ==
  ASSUME NamesAssumption, IInv, NEW p \in Proc,
         \A q \in Proc \ {p} : pc'[q] = pc[q] /\ old'[q] = old[q],
         pc'[p] \in Counting => {pc[p], pc'[p]} \subseteq {"newlink", "bad"} /\ old'[p] = old[p]
  PROVE  Sound(type, nlink, entries, dotdot, pc', old')
<1>1. Sound(type, nlink, entries, dotdot, pc, old) /\ nlink \in [Inum -> Nat]
  BY DEF IInv, Typed, InodesTyped
<1>2. \A i : AheadIn(pc', old', i) \subseteq AheadIn(pc, old, i) BY DEF AheadIn, Counting
<1>3. CountsOK(type, nlink, entries, dotdot, pc', old')
  <2>1. CountsOK(type, nlink, entries, dotdot, pc, old) BY <1>1 DEF Sound
  <2> QED BY <1>1, <1>2, <2>1, Shrinks
<1>4. AheadOK(type, pc', old')
  <2>1. ASSUME NEW q \in Proc, pc'[q] \in Counting
        PROVE  CountedOK(type, pc'[q], old'[q])
    <3>1. pc[q] \in Counting /\ old'[q] = old[q] /\ (pc'[q] # "unlinked" => pc[q] # "unlinked")
      BY <2>1 DEF Counting
    <3>2. CountedOK(type, pc[q], old[q]) BY <1>1, <3>1 DEF Sound, AheadOK
    <3> QED BY <3>1, <3>2 DEF CountedOK
  <2> QED BY <2>1 DEF AheadOK
<1> QED BY <1>1, <1>3, <1>4 DEF Sound

\* A step of p that only puts inodes.
LEMMA Plain ==
  ASSUME NamesAssumption, IInv, NEW p \in Proc, Moves(p), NEW S, JustPut(S),
         Leaves(p, type, entries),
         pc'[p] \in Counting => {pc[p], pc'[p]} \subseteq {"newlink", "bad"} /\ old'[p] = old[p]
  PROVE  IInv'
<1>1. InodesTyped(type, nlink, entries, dotdot) BY DEF IInv, Typed
<1>2. \A q \in Proc \ {p} : pc'[q] = pc[q] /\ old'[q] = old[q] BY DEF Moves
<1>3. Sound(type, nlink, entries, dotdot, pc', old') BY <1>2, Keeps
<1>4. PICK t \in [Inum -> Kinds], n \in [Inum -> Nat], e \in Tables, d \in [Inum -> Inode0] :
        t = type /\ n = nlink /\ e = entries /\ d = dotdot
  BY <1>1 DEF InodesTyped
<1>5. Change(S, t, n, e, d) /\ Sound(t, n, e, d, pc', old') /\ Leaves(p, t, e)
  BY <1>3, <1>4 DEF JustPut
<1> QED BY <1>5, Step

LEMMA Idle ==
  ASSUME IInv, UNCHANGED inodes
  PROVE  JustPut({})
<1>1. InodesTyped(type, nlink, entries, dotdot) BY DEF IInv, Typed
<1>2. Put({}, nlink) = {} BY DEF Put
<1>3. /\ type' = type /\ entries' = entries /\ dotdot' = dotdot /\ nlink' = nlink BY DEF inodes
<1>4. /\ type = [i \in Inum |-> type[i]] /\ entries = [i \in Inum |-> entries[i]]
      /\ dotdot = [i \in Inum |-> dotdot[i]]
  BY <1>1 DEF InodesTyped, Tables
<1> QED BY <1>2, <1>3, <1>4 DEF JustPut, Change

\* Where p is, and what the others hold.
LEMMA Here ==
  ASSUME NamesAssumption, IInv, NEW p \in Proc
  PROVE  /\ pc[p] \in Places /\ rest[p] \in Seq(Elem) /\ ip[p] \in Inode0 /\ dp[p] \in Inode0
         /\ old[p] \in Inode0 /\ cwd[p] \in Inum /\ fd[p] \in Inode0
         /\ type[cwd[p]] # "free" /\ (fd[p] # NULL => type[fd[p]] # "free")
         /\ (pc[p] # "user" => ip[p] \in Inum)
         /\ (dp[p] # NULL => /\ dp[p] \in Inum /\ pc[p] = "unlink" /\ lock[dp[p]] = p /\ Len(rest[p]) = 1
                             /\ Head(rest[p]) \in Name /\ entries[dp[p]][Head(rest[p])] = ip[p])
         /\ (pc[p] = "unlinked" => old[p] = ip[p])
         /\ new \in [Proc -> Paths \cup {<<>>}]
         /\ lock \in [Inum -> Proc \cup {NULL}] /\ panicked \in BOOLEAN
         /\ \A q \in Proc : /\ dp[q] # NULL => lock[dp[q]] = q
                            /\ pc[q] = "unlinked" => ip[q] \in Inum /\ lock[ip[q]] = q
<1>1. CallsTyped /\ lock \in [Inum -> Proc \cup {NULL}] /\ panicked \in BOOLEAN BY DEF IInv, Typed
<1>2. /\ pc[p] \in Places /\ rest[p] \in Seq(Elem) /\ ip[p] \in Inode0 /\ dp[p] \in Inode0
      /\ old[p] \in Inode0 /\ cwd[p] \in Inum /\ fd[p] \in Inode0
      /\ new \in [Proc -> Paths \cup {<<>>}]
  BY <1>1 DEF CallsTyped
<1>4. \A q \in Proc : CallOK(pc, ip, rest, dp, old, lock, entries, q) /\ PlaceLive(type, cwd, fd, q)
  BY DEF IInv, CallsOK, PlacesLive
<1>5. \A q \in Proc : /\ dp[q] # NULL => lock[dp[q]] = q
                      /\ pc[q] = "unlinked" => ip[q] \in Inum /\ lock[ip[q]] = q
  BY <1>1, <1>4 DEF CallOK, CallsTyped, Inode0
<1>6. type[cwd[p]] # "free" /\ (fd[p] # NULL => type[fd[p]] # "free") BY <1>4 DEF PlaceLive
<1>7. /\ (pc[p] # "user" => ip[p] \in Inum)
      /\ (dp[p] # NULL => /\ dp[p] \in Inum /\ pc[p] = "unlink" /\ lock[dp[p]] = p /\ Len(rest[p]) = 1
                          /\ Head(rest[p]) \in Name /\ entries[dp[p]][Head(rest[p])] = ip[p])
      /\ (pc[p] = "unlinked" => old[p] = ip[p])
  BY <1>2, <1>4 DEF CallOK, Inode0
<1> QED BY <1>1, <1>2, <1>5, <1>6, <1>7

\* What others hold is theirs after a step of p that changes no lock.
LEMMA Locked ==
  ASSUME NamesAssumption, IInv, NEW p \in Proc, UNCHANGED <<lock, panicked>>,
         CallOK(pc', ip', rest', dp', old', lock', entries, p), PlaceLive(type, cwd', fd', p)
  PROVE  Leaves(p, type, entries)
BY Here DEF Leaves

\* What a step leaves of the call of p when it is over.
LEMMA Returns ==
  ASSUME NamesAssumption, IInv, NEW p \in Proc, Return(p), NEW w \in Inum, NEW f \in Inode0,
         cwd' = [cwd EXCEPT ![p] = w], fd' = [fd EXCEPT ![p] = f]
  PROVE  /\ Moves(p) /\ pc'[p] = "user" /\ old'[p] = NULL /\ cwd'[p] = w /\ fd'[p] = f
         /\ \A k, e : CallOK(pc', ip', rest', dp', old', k, e, p)
<1>1. CallsTyped BY DEF IInv, Typed
<1>2. <<>> \in Seq(Elem) /\ NULL \in Inode0 /\ "user" \in Places BY DEF Inode0, Places
<1>3. CallsTyped' BY <1>1, <1>2 DEF CallsTyped, Return, Go
<1>4. Moves(p) BY <1>1, <1>3 DEF CallsTyped, Return, Go, Moves
<1>5. /\ pc'[p] = "user" /\ rest'[p] = <<>> /\ dp'[p] = NULL /\ old'[p] = NULL
      /\ cwd'[p] = w /\ fd'[p] = f
  BY <1>1 DEF CallsTyped, Return, Go
<1> QED BY <1>4, <1>5 DEF CallOK

LEMMA FailKeeps ==
  ASSUME NamesAssumption, IInv, NEW p \in Proc, pc[p] # "user", Fail(p),
         lock' \in [Inum -> Proc \cup {NULL}], panicked' \in BOOLEAN,
         \A q \in Proc \ {p} : /\ dp[q] # NULL => lock'[dp[q]] = q
                               /\ pc[q] = "unlinked" => lock'[ip[q]] = q
  PROVE  IInv'
<1>1. JustPut({ip[p], dp[p]}) /\ cwd' = cwd /\ fd' = fd BY DEF Fail
<1>2. CallsTyped BY DEF IInv, Typed
<1>3. /\ PlaceLive(type, cwd', fd', p)
      /\ lock' \in [Inum -> Proc \cup {NULL}] /\ panicked' \in BOOLEAN
      /\ \A q \in Proc \ {p} : /\ dp[q] # NULL => lock'[dp[q]] = q
                               /\ pc[q] = "unlinked" => lock'[ip[q]] = q
  BY <1>1 DEF IInv, PlacesLive
<1>4. CASE pc[p] = "newlink"
  <2>1. Go(p, "bad", old[p], <<>>) /\ dp' = dp /\ old' = old /\ new' = new BY <1>4 DEF Fail
  <2>2. dp[p] = NULL BY <1>4, Here
  <2>3. old[p] \in Inum /\ old[p] # NULL
    <3>1. old[p] \in Inum BY <1>4 DEF IInv, Sound, AheadOK, CountedOK, Counting
    <3> QED BY <3>1, Root
  <2>4. <<>> \in Seq(Elem) /\ "bad" \in Places BY DEF Places
  <2>5. Moves(p) BY <1>1, <1>2, <2>1, <2>3, <2>4 DEF Moves, CallsTyped, Go, Inode0
  <2>6. pc'[p] = "bad" /\ ip'[p] = old[p] /\ dp'[p] = NULL BY <1>2, <2>1, <2>2 DEF CallsTyped, Go
  <2>7. CallOK(pc', ip', rest', dp', old', lock', entries, p) BY <2>3, <2>6 DEF CallOK
  <2>8. Leaves(p, type, entries) BY <1>3, <2>7 DEF Leaves
  <2>9. pc'[p] # "unlinked" BY <2>6
  <2> QED BY <1>1, <1>4, <2>1, <2>5, <2>8, <2>9, Plain DEF Counting
<1>5. CASE pc[p] # "newlink"
  <2>1. Return(p) BY <1>5 DEF Fail
  <2>2. cwd' = [cwd EXCEPT ![p] = cwd[p]] /\ fd' = [fd EXCEPT ![p] = fd[p]]
        /\ cwd[p] \in Inum /\ fd[p] \in Inode0
    BY <1>1, <1>2 DEF CallsTyped
  <2>3. Moves(p) /\ pc'[p] = "user" /\ CallOK(pc', ip', rest', dp', old', lock', entries, p)
    BY <2>1, <2>2, Returns
  <2>4. Leaves(p, type, entries) BY <1>3, <2>3 DEF Leaves
  <2> QED BY <1>1, <2>3, <2>4, Plain DEF Counting
<1> QED BY <1>4, <1>5

-----------------------------------------------------------------------------
(* Walking a path *)

\* The inode that a call has locked is there.
LEMMA AtInode ==
  ASSUME NamesAssumption, IInv, NEW p \in Proc, NEW what, NEW n \in Nat, Locks(p, what, n)
  PROVE  /\ pc[p] = what /\ Len(rest[p]) = n /\ lock[ip[p]] = NULL /\ ip[p] \in Inode0
         /\ type[ip[p]] # "free" /\ (what # "user" => ip[p] \in Inum)
BY Here DEF Locks

\* A name that is looked up in a directory is of an inode.
LEMMA Found ==
  ASSUME NamesAssumption, IInv, NEW i \in Inum, NEW x \in Elem
  PROVE  Lookup(i, x) \in Inode0
BY DEF Lookup, IInv, Typed, InodesTyped, Tables, Elem

LEMMA InitHolds == ASSUME NamesAssumption, Init PROVE IInv
<1>1. ROOTINO \in Inum /\ NULL \notin Inum /\ NULL \notin Proc /\ ROOTINO # NULL BY Root DEF NamesAssumption
<1>2. Typed
  <2>1. <<>> \in Seq(Elem) OBVIOUS
  <2>2. InodesTyped(type, nlink, entries, dotdot)
    BY <1>1 DEF Init, InodesTyped, Kinds, Tables, Inode0, NoEntries
  <2>3. CallsTyped BY <1>1, <2>1 DEF Init, CallsTyped, Inode0, Places
  <2> QED BY <2>2, <2>3 DEF Init, Typed
<1>3. \A l \in Inum \X Name : entries[l[1]][l[2]] = NULL BY DEF Init, NoEntries
<1>4. KindsOK(type, entries, dotdot) BY <1>1 DEF Init, KindsOK
<1>5. EntriesOK(type, entries) BY <1>3 DEF EntriesOK
<1>6. CountsOK(type, nlink, entries, dotdot, pc, old)
  <2>1. ASSUME NEW i \in Inum
        PROVE  /\ LinksIn(entries, i) = {} /\ SubdirsIn(type, entries, dotdot, i) = {}
               /\ AheadIn(pc, old, i) = {}
    <3>1. \A j \in Inum : LinksIn(entries, j) = {} BY <1>1, <1>3 DEF LinksIn
    <3>2. AheadIn(pc, old, i) = {} BY DEF Init, AheadIn, Counting
    <3> QED BY <3>1, <3>2 DEF SubdirsIn
  <2>2. \A i \in Inum : nlink[i] = Own(i) /\ Own(i) \in Nat BY DEF Init, Own
  <2>3. Cardinality({}) = 0 BY FS_EmptySet
  <2> QED BY <2>1, <2>2, <2>3 DEF CountsOK
<1>7. OnePlace(type, entries, dotdot)
  <2>1. \A j \in Inum : LinksIn(entries, j) = {} BY <1>1, <1>3 DEF LinksIn
  <2> QED BY <2>1 DEF OnePlace
<1>8. AheadOK(type, pc, old) BY DEF Init, AheadOK, Counting
<1>9. NoCycle(entries)
  <2>1. \A c \in Inum, x \in Name : entries[c][x] = NULL BY DEF Init, NoEntries
  <2> QED BY <1>1, <2>1 DEF NoCycle
<1>10. CallsOK /\ PlacesLive BY <1>1 DEF Init, CallsOK, CallOK, PlacesLive, PlaceLive
<1> QED BY <1>2, <1>4, <1>5, <1>6, <1>7, <1>8, <1>9, <1>10 DEF IInv, Sound

LEMMA BeginKeeps ==
  ASSUME NamesAssumption, IInv, NEW p \in Proc, NEW what \in Calls, NEW path \in Paths,
         Begin(p, what, path)
  PROVE  IInv'
<1>1. CallsTyped BY DEF IInv, Typed
<1>2. /\ pc[p] = "user" /\ Go(p, what, From(p, path), path.elems)
      /\ UNCHANGED <<inodes, lock, dp, old, cwd, fd, panicked>>
      /\ IF what = "link" THEN \E to \in Paths : new' = [new EXCEPT ![p] = to] ELSE new' = new
  BY DEF Begin
<1>3. From(p, path) \in Inum BY <1>1, Root DEF From, CallsTyped
<1>4. path.elems \in Seq(Elem) BY DEF NamesAssumption, Elem
<1>5. what \in Places BY DEF Places
<1>6. new' \in [Proc -> Paths \cup {<<>>}] BY <1>1, <1>2 DEF CallsTyped
<1>7. CallsTyped' BY <1>1, <1>2, <1>3, <1>4, <1>5, <1>6 DEF CallsTyped, Go, Inode0
<1>8. Moves(p) BY <1>1, <1>2, <1>7 DEF Moves, CallsTyped, Go
<1>9. dp[p] = NULL /\ old' = old BY <1>2, Here
<1>10. pc'[p] = what /\ ip'[p] = From(p, path) /\ dp'[p] = NULL
  BY <1>1, <1>2, <1>9 DEF CallsTyped, Go
<1>11. CallOK(pc', ip', rest', dp', old', lock', entries, p)
  <2>1. what # "user" /\ what # "unlinked" BY DEF Calls
  <2> QED BY <1>3, <1>10, <2>1, Root DEF CallOK
<1>12. PlaceLive(type, cwd', fd', p) BY <1>2 DEF IInv, PlacesLive
<1>13. Leaves(p, type, entries) BY <1>2, <1>11, <1>12, Locked
<1>14. JustPut({}) BY <1>2, Idle
<1>15. pc'[p] \notin Counting BY <1>10 DEF Calls, Counting
<1> QED BY <1>8, <1>13, <1>14, <1>15, Plain DEF Counting

LEMMA WalkKeeps == ASSUME NamesAssumption, IInv, NEW p \in Proc, Walk(p) PROVE IInv'
<1> DEFINE i == ip[p]
           next == Lookup(i, Head(rest[p]))
<1>1. CallsTyped BY DEF IInv, Typed
<1>2. /\ Len(rest[p]) > (IF pc[p] \in Parents THEN 1 ELSE 0) /\ Locks(p, pc[p], Len(rest[p]))
      /\ UNCHANGED <<lock, left, panicked>>
  BY DEF Walk
<1>3. rest[p] \in Seq(Elem) /\ Len(rest[p]) \in Nat /\ Len(rest[p]) > 0
      /\ (pc[p] \in Parents => Len(rest[p]) # 1)
  <2>1. rest[p] \in Seq(Elem) BY <1>1 DEF CallsTyped
  <2> DEFINE l == Len(rest[p])
  <2>2. l \in Nat BY <2>1
  <2>3. l > (IF pc[p] \in Parents THEN 1 ELSE 0) BY <1>2
  <2> HIDE DEF l
  <2>4. l > 0 /\ (pc[p] \in Parents => l # 1) BY <2>2, <2>3
  <2> QED BY <2>1, <2>2, <2>4 DEF l
<1>4. Head(rest[p]) \in Elem /\ Tail(rest[p]) \in Seq(Elem) BY <1>3
<1>5. pc[p] # "user"
  <2>1. pc[p] = "user" => rest[p] = <<>> BY DEF IInv, CallsOK, CallOK
  <2> QED BY <1>3, <2>1
<1>5a. pc[p] # "unlinked"
  <2>1. lock[ip[p]] = NULL /\ NULL \notin Proc BY <1>2 DEF Locks, NamesAssumption
  <2> QED BY <2>1, Here
<1>6. i \in Inum BY <1>5, Here
<1>7. next \in Inode0 BY <1>4, <1>6, Found
<1>8. CASE type[i] # "dir" \/ next = NULL
  <2>1. Fail(p) BY <1>8 DEF Walk
  <2> QED BY <1>2, <1>5, <2>1, FailKeeps, Here
<1>9. CASE ~(type[i] # "dir" \/ next = NULL)
  <2>1. /\ Go(p, pc[p], next, Tail(rest[p])) /\ UNCHANGED <<dp, old, new, cwd, fd>> /\ JustPut({i})
    BY <1>9 DEF Walk
  <2> HIDE DEF i, next
  <2>2. dp[p] = NULL BY <1>3, Here DEF Parents
  <2>3. pc[p] \in Places BY <1>1 DEF CallsTyped
  <2>4. CallsTyped' BY <1>1, <1>4, <1>7, <2>1, <2>3 DEF CallsTyped, Go
  <2>5. Moves(p) BY <1>1, <2>1, <2>4 DEF Moves, CallsTyped, Go
  <2>6. pc'[p] = pc[p] /\ ip'[p] = next /\ dp'[p] = NULL /\ old'[p] = old[p]
    BY <1>1, <2>1, <2>2 DEF CallsTyped, Go
  <2>7. CallOK(pc', ip', rest', dp', old', lock', entries, p) BY <1>5, <1>5a, <1>9, <2>6 DEF CallOK
  <2>8. PlaceLive(type, cwd', fd', p) BY <2>1 DEF IInv, PlacesLive
  <2>9. Leaves(p, type, entries) BY <1>2, <2>7, <2>8, Locked
  <2>10. pc'[p] \in Counting => {pc[p], pc'[p]} \subseteq {"newlink", "bad"} /\ old'[p] = old[p]
    BY <1>5a, <2>6 DEF Counting
  <2> QED BY <2>1, <2>5, <2>9, <2>10, Plain
<1> QED BY <1>8, <1>9

-----------------------------------------------------------------------------
(* open, chdir, close, and what create and unlink find *)

LEMMA OpenKeeps == ASSUME NamesAssumption, IInv, NEW p \in Proc, Open(p) PROVE IInv'
<1>1. /\ Locks(p, "open", 0) /\ fd' = [fd EXCEPT ![p] = ip[p]] /\ Return(p)
      /\ UNCHANGED inodes /\ UNCHANGED <<lock, panicked>> /\ cwd' = cwd
  BY DEF Open
<1>2. ip[p] \in Inum /\ type[ip[p]] # "free" BY <1>1, AtInode
<1>3. cwd' = [cwd EXCEPT ![p] = cwd[p]] /\ cwd[p] \in Inum BY <1>1 DEF IInv, Typed, CallsTyped
<1>4. /\ Moves(p) /\ pc'[p] = "user" /\ cwd'[p] = cwd[p] /\ fd'[p] = ip[p]
      /\ CallOK(pc', ip', rest', dp', old', lock', entries, p)
  BY <1>1, <1>2, <1>3, Returns DEF Inode0
<1>5. PlaceLive(type, cwd', fd', p) BY <1>2, <1>4, Here DEF PlaceLive
<1>6. Leaves(p, type, entries) BY <1>1, <1>4, <1>5, Locked
<1>7. JustPut({}) BY <1>1, Idle
<1> QED BY <1>4, <1>6, <1>7, Plain DEF Counting

LEMMA ChdirKeeps == ASSUME NamesAssumption, IInv, NEW p \in Proc, Chdir(p) PROVE IInv'
<1> DEFINE w == IF type[ip[p]] = "dir" THEN ip[p] ELSE cwd[p]
<1>1. /\ Locks(p, "chdir", 0) /\ cwd' = [cwd EXCEPT ![p] = w] /\ Return(p) /\ fd' = fd
      /\ JustPut({ip[p], cwd[p]}) /\ UNCHANGED <<lock, panicked>>
  BY DEF Chdir
<1>2. ip[p] \in Inum BY <1>1, AtInode
<1>3. fd' = [fd EXCEPT ![p] = fd[p]] /\ fd[p] \in Inode0 /\ cwd[p] \in Inum
  BY <1>1 DEF IInv, Typed, CallsTyped
<1>4. w \in Inum /\ type[w] # "free" BY <1>2, <1>3, Here
<1> HIDE DEF w
<1>5. /\ Moves(p) /\ pc'[p] = "user" /\ cwd'[p] = w /\ fd'[p] = fd[p]
      /\ CallOK(pc', ip', rest', dp', old', lock', entries, p)
  BY <1>1, <1>3, <1>4, Returns
<1>6. PlaceLive(type, cwd', fd', p) BY <1>4, <1>5, Here DEF PlaceLive
<1>7. Leaves(p, type, entries) BY <1>1, <1>5, <1>6, Locked
<1> QED BY <1>1, <1>5, <1>7, Plain DEF Counting

LEMMA CloseKeeps == ASSUME NamesAssumption, IInv, NEW p \in Proc, Close(p) PROVE IInv'
<1>1. /\ pc[p] = "user" /\ fd' = [fd EXCEPT ![p] = NULL] /\ UNCHANGED call /\ cwd' = cwd
      /\ JustPut({fd[p]}) /\ UNCHANGED <<lock, panicked>>
  BY DEF Close
<1>2. CallsTyped BY DEF IInv, Typed
<1>3. /\ pc' = pc /\ ip' = ip /\ rest' = rest /\ dp' = dp /\ old' = old /\ new' = new
  BY <1>1 DEF call
<1>4. CallsTyped' BY <1>1, <1>2, <1>3 DEF CallsTyped, Inode0
<1>5. Moves(p) BY <1>1, <1>2, <1>3, <1>4 DEF Moves, CallsTyped
<1>6. CallOK(pc', ip', rest', dp', old', lock', entries, p) BY <1>1, <1>3 DEF IInv, CallsOK
<1>7. PlaceLive(type, cwd', fd', p)
  <2>1. fd'[p] = NULL BY <1>1, <1>2 DEF CallsTyped
  <2> QED BY <1>1, <2>1, Here DEF PlaceLive
<1>8. Leaves(p, type, entries) BY <1>1, <1>6, <1>7, Locked
<1> QED BY <1>1, <1>3, <1>5, <1>8, Plain DEF Counting

LEMMA CreateExistsKeeps ==
  ASSUME NamesAssumption, IInv, NEW p \in Proc, CreateExists(p) PROVE IInv'
<1>1. pc[p] \in {"create", "mkdir"} /\ Locks(p, pc[p], 0) /\ UNCHANGED <<lock, panicked>>
  BY DEF CreateExists
<1>2. ip[p] \in Inum /\ type[ip[p]] # "free" /\ pc[p] # "user" BY <1>1, AtInode
<1>3. CASE pc[p] = "create" /\ type[ip[p]] = "file"
  <2>1. fd' = [fd EXCEPT ![p] = ip[p]] /\ Return(p) /\ cwd' = cwd /\ UNCHANGED inodes
    BY <1>3 DEF CreateExists
  <2>2. cwd' = [cwd EXCEPT ![p] = cwd[p]] /\ cwd[p] \in Inum BY <2>1 DEF IInv, Typed, CallsTyped
  <2>3. /\ Moves(p) /\ pc'[p] = "user" /\ cwd'[p] = cwd[p] /\ fd'[p] = ip[p]
        /\ CallOK(pc', ip', rest', dp', old', lock', entries, p)
    BY <1>2, <2>1, <2>2, Returns DEF Inode0
  <2>4. PlaceLive(type, cwd', fd', p) BY <1>2, <2>3, Here DEF PlaceLive
  <2>5. Leaves(p, type, entries) BY <1>1, <2>3, <2>4, Locked
  <2>6. JustPut({}) BY <2>1, Idle
  <2> QED BY <2>3, <2>5, <2>6, Plain DEF Counting
<1>4. CASE ~(pc[p] = "create" /\ type[ip[p]] = "file")
  <2>1. Fail(p) BY <1>4 DEF CreateExists
  <2> QED BY <1>1, <1>2, <2>1, FailKeeps, Here
<1> QED BY <1>3, <1>4

LEMMA UnlinkFindsKeeps ==
  ASSUME NamesAssumption, IInv, NEW p \in Proc, UnlinkFinds(p) PROVE IInv'
<1> DEFINE x == Head(rest[p])
           d == ip[p]
           i == Lookup(d, x)
<1>1. dp[p] = NULL /\ Locks(p, "unlink", 1) /\ panicked' = panicked BY DEF UnlinkFinds
<1>2. CallsTyped BY DEF IInv, Typed
<1>3. pc[p] = "unlink" /\ Len(rest[p]) = 1 /\ lock[d] = NULL /\ d \in Inum /\ type[d] # "free"
  <2>1. Locks(p, "unlink", 1) BY <1>1
  <2>2. pc[p] = "unlink" /\ Len(rest[p]) = 1 /\ lock[ip[p]] = NULL /\ type[ip[p]] # "free" BY <2>1 DEF Locks
  <2> QED BY <2>2, Here
<1>4. rest[p] \in Seq(Elem) /\ x \in Elem
  <2>1. rest[p] \in Seq(Elem) BY <1>2 DEF CallsTyped
  <2> DEFINE r == rest[p]
  <2>2. r \in Seq(Elem) /\ Len(r) = 1 BY <1>3, <2>1
  <2> HIDE DEF r
  <2>3. r # <<>> BY <2>2
  <2>4. Head(r) \in Elem BY <2>2, <2>3
  <2> QED BY <2>2, <2>4 DEF r
<1>5. i \in Inode0 BY <1>3, <1>4, Found
<1>6. lock \in [Inum -> Proc \cup {NULL}] /\ panicked \in BOOLEAN BY Here
<1>7. CASE type[d] # "dir" \/ x = DOTDOT \/ i = NULL
  <2>1. Fail(p) /\ lock' = lock BY <1>7 DEF UnlinkFinds
  <2> QED BY <1>1, <1>3, <1>6, <2>1, FailKeeps, Here
<1>8. CASE ~(type[d] # "dir" \/ x = DOTDOT \/ i = NULL)
  <2>1. /\ lock' = [lock EXCEPT ![d] = p] /\ dp' = [dp EXCEPT ![p] = d]
        /\ Go(p, "unlink", i, rest[p]) /\ UNCHANGED inodes
        /\ old' = old /\ new' = new /\ cwd' = cwd /\ fd' = fd
    BY <1>8 DEF UnlinkFinds
  <2>2. x \in Name /\ entries[d][x] = i BY <1>4, <1>8 DEF Lookup, Elem
  <2> HIDE DEF x, d, i
  <2>3. "unlink" \in Places BY DEF Places, Calls
  <2>4. CallsTyped' BY <1>2, <1>3, <1>4, <1>5, <2>1, <2>3 DEF CallsTyped, Go, Inode0
  <2>5. Moves(p) BY <1>2, <2>1, <2>4 DEF Moves, CallsTyped, Go
  <2>6. pc'[p] = "unlink" /\ ip'[p] = i /\ dp'[p] = d /\ rest'[p] = rest[p]
    BY <1>2, <2>1 DEF CallsTyped, Go
  <2>7. lock'[d] = p /\ lock' \in [Inum -> Proc \cup {NULL}] BY <1>3, <1>6, <2>1
  <2>8. CallOK(pc', ip', rest', dp', old', lock', entries, p)
    BY <1>3, <1>8, <2>2, <2>6, <2>7 DEF CallOK, x
  <2>9. PlaceLive(type, cwd', fd', p) BY <2>1 DEF IInv, PlacesLive
  <2>10. \A q \in Proc \ {p} : /\ dp[q] # NULL => lock'[dp[q]] = q
                               /\ pc[q] = "unlinked" => lock'[ip[q]] = q
    <3>1. \A q \in Proc : /\ dp[q] # NULL => lock[dp[q]] = q /\ dp[q] \in Inum
                          /\ pc[q] = "unlinked" => lock[ip[q]] = q /\ ip[q] \in Inum
      BY Here
    <3>2. NULL \notin Proc BY DEF NamesAssumption
    <3> QED BY <1>3, <1>6, <2>1, <3>1, <3>2
  <2>11. Leaves(p, type, entries) BY <1>1, <1>6, <2>7, <2>8, <2>9, <2>10 DEF Leaves
  <2>12. JustPut({}) BY <2>1, Idle
  <2> QED BY <2>5, <2>6, <2>11, <2>12, Plain DEF Counting
<1> QED BY <1>7, <1>8

LEMMA PanicKeeps == ASSUME NamesAssumption, IInv, NEW p \in Proc, Panic(p) PROVE IInv'
<1>1. panicked' = TRUE /\ UNCHANGED <<inodes, lock, call, cwd, fd>> BY DEF Panic
<1>2. /\ pc' = pc /\ ip' = ip /\ rest' = rest /\ dp' = dp /\ old' = old /\ new' = new
      /\ cwd' = cwd /\ fd' = fd /\ lock' = lock
      /\ type' = type /\ nlink' = nlink /\ entries' = entries /\ dotdot' = dotdot
  BY <1>1 DEF call, inodes
<1>3. Typed' BY <1>1, <1>2 DEF IInv, Typed, CallsTyped, InodesTyped
<1>4. Sound(type, nlink, entries, dotdot, pc, old)' BY <1>2 DEF IInv
<1>5. CallsOK' /\ PlacesLive' BY <1>2 DEF IInv, CallsOK, PlacesLive
<1> QED BY <1>3, <1>4, <1>5 DEF IInv

-----------------------------------------------------------------------------
(* Names that come and go *)

LEMMA Grown ==
  ASSUME NEW A, IsFiniteSet(A), NEW B, NEW x, B \subseteq A \cup {x}
  PROVE  Cardinality(B) <= Cardinality(A) + 1
<1>1. IsFiniteSet(A \cup {x}) /\ Cardinality(A \cup {x}) <= Cardinality(A) + 1
  <2>1. IsFiniteSet(A \cup {x})
        /\ Cardinality(A \cup {x}) = IF x \in A THEN Cardinality(A) ELSE Cardinality(A) + 1
    BY FS_AddElement
  <2>2. Cardinality(A) \in Nat BY FS_CardinalityType
  <2> QED BY <2>1, <2>2
<1>2. Cardinality(B) <= Cardinality(A \cup {x}) /\ IsFiniteSet(B) BY <1>1, FS_Subset
<1>3. Cardinality(A) \in Nat /\ Cardinality(B) \in Nat /\ Cardinality(A \cup {x}) \in Nat
  BY <1>1, <1>2, FS_CardinalityType
<1> QED BY <1>1, <1>2, <1>3

LEMMA Shrunk ==
  ASSUME NEW A, IsFiniteSet(A), NEW B, NEW x \in A, B \subseteq A \ {x}
  PROVE  Cardinality(B) + 1 <= Cardinality(A)
<1>1. IsFiniteSet(A \ {x}) /\ Cardinality(A \ {x}) = Cardinality(A) - 1 BY FS_RemoveElement
<1>2. Cardinality(B) <= Cardinality(A \ {x}) /\ IsFiniteSet(B) BY <1>1, FS_Subset
<1>3. Cardinality(A) \in Nat /\ Cardinality(B) \in Nat BY <1>2, FS_CardinalityType
<1> QED BY <1>1, <1>2, <1>3

\* An inode without entries gets a name in another directory; if it is a directory, its
\* first one.
LEMMA Enters ==
  ASSUME NamesAssumption, NEW t \in [Inum -> Kinds], NEW e \in Tables, NEW d \in [Inum -> Inode0],
         KindsOK(t, e, d), EntriesOK(t, e), OnePlace(t, e, d), NoCycle(e),
         NEW c \in Inum, NEW x \in Name, NEW i \in Inum,
         e[c][x] = NULL, t[c] = "dir", i # c, i # ROOTINO, t[i] # "free", e[i] = NoEntries,
         t[i] = "dir" => LinksIn(e, i) = {} /\ d[i] = c,
         NEW e2 \in Tables,
         \A b \in Inum, y \in Name : e2[b][y] = IF b = c /\ y = x THEN i ELSE e[b][y],
         \A b \in Inum \ {c} : e2[b] = e[b]
  PROVE  /\ KindsOK(t, e2, d) /\ EntriesOK(t, e2) /\ OnePlace(t, e2, d) /\ NoCycle(e2)
         /\ LinksIn(e2, i) \subseteq LinksIn(e, i) \cup {<<c, x>>}
         /\ \A j \in Inum \ {i} : LinksIn(e2, j) = LinksIn(e, j)
         /\ \A j \in Inum \ {c} : SubdirsIn(t, e2, d, j) \subseteq SubdirsIn(t, e, d, j)
         /\ SubdirsIn(t, e2, d, c) \subseteq SubdirsIn(t, e, d, c) \cup {i}
         /\ t[i] # "dir" => SubdirsIn(t, e2, d, c) \subseteq SubdirsIn(t, e, d, c)
<1>2. /\ \A b \in Inum, y \in Name : e2[b][y] = IF b = c /\ y = x THEN i ELSE e[b][y]
      /\ \A b \in Inum \ {c} : e2[b] = e[b]
  OBVIOUS
<1>3. \A l \in Inum \X Name : e2[l[1]][l[2]] = IF l = <<c, x>> THEN i ELSE e[l[1]][l[2]]
  BY <1>2
<1>4. LinksIn(e2, i) \subseteq LinksIn(e, i) \cup {<<c, x>>} BY <1>3 DEF LinksIn
<1>5. \A j \in Inum \ {i} : LinksIn(e2, j) = LinksIn(e, j)
  <2>1. \A j \in Inum : j # NULL BY Root
  <2> QED BY <1>3, <2>1 DEF LinksIn
<1>6. \A j \in Inum : SubdirsIn(t, e2, d, j) \subseteq
        SubdirsIn(t, e, d, j) \cup (IF t[i] = "dir" /\ j = c THEN {i} ELSE {})
  <2>1. ASSUME NEW j \in Inum, NEW y \in SubdirsIn(t, e2, d, j)
        PROVE  y \in SubdirsIn(t, e, d, j) \cup (IF t[i] = "dir" /\ j = c THEN {i} ELSE {})
    <3>1. y \in Inum \ {ROOTINO} /\ t[y] = "dir" /\ d[y] = j /\ LinksIn(e2, y) # {}
      BY <2>1 DEF SubdirsIn
    <3>2. CASE y = i BY <3>1, <3>2
    <3>3. CASE y # i
      <4>1. LinksIn(e, y) # {} BY <1>5, <3>1, <3>3
      <4> QED BY <3>1, <4>1 DEF SubdirsIn
    <3> QED BY <3>2, <3>3
  <2> QED BY <2>1
<1>7. KindsOK(t, e2, d) BY <1>2 DEF KindsOK
<1>8. EntriesOK(t, e2) BY <1>3 DEF EntriesOK
<1>9. OnePlace(t, e2, d)
  <2>1. ASSUME NEW j \in Inum, t[j] = "dir", NEW l \in LinksIn(e2, j)
        PROVE  LinksIn(e2, j) = {l} /\ d[j] = l[1]
    <3>1. CASE j = i
      <4>1. LinksIn(e2, i) \subseteq {<<c, x>>} BY <1>4, <2>1, <3>1
      <4>2. l = <<c, x>> BY <2>1, <3>1, <4>1
      <4> QED BY <2>1, <3>1, <4>1, <4>2
    <3>2. CASE j # i
      <4>1. l \in LinksIn(e, j) /\ LinksIn(e2, j) = LinksIn(e, j) BY <1>5, <2>1, <3>2
      <4> QED BY <2>1, <4>1 DEF OnePlace
    <3> QED BY <3>1, <3>2
  <2> QED BY <2>1 DEF OnePlace
<1>10. NoCycle(e2)
  <2>1. ASSUME NEW S \in SUBSET Inum, S # {}
        PROVE  \E j \in S : \A b \in S, y \in Name : e2[b][y] # j
    <3>1. CASE c \in S
      <4>1. S \ {i} # {} /\ S \ {i} \in SUBSET Inum BY <3>1
      <4>2. PICK j \in S \ {i} : \A b \in S \ {i}, y \in Name : e[b][y] # j BY <4>1 DEF NoCycle
      <4>3. j # NULL BY Root
      <4>4. ASSUME NEW b \in S, NEW y \in Name PROVE e2[b][y] # j
        <5>1. CASE b = i
          <6>1. e2[b][y] = NULL BY <1>2, <5>1 DEF NoEntries
          <6> QED BY <4>3, <6>1
        <5>2. CASE b # i BY <1>2, <4>2, <5>2
        <5> QED BY <5>1, <5>2
      <4> QED BY <4>4
    <3>2. CASE c \notin S
      <4>1. PICK j \in S : \A b \in S, y \in Name : e[b][y] # j BY <2>1 DEF NoCycle
      <4> QED BY <1>2, <3>2, <4>1
    <3> QED BY <3>1, <3>2
  <2> QED BY <2>1 DEF NoCycle
<1> QED BY <1>4, <1>5, <1>6, <1>7, <1>8, <1>9, <1>10

\* The tables e2 are e without the name x of directory c.
Without(e, c, x, e2) ==
  /\ e2 \in Tables
  /\ \A b \in Inum, y \in Name : e2[b][y] = IF b = c /\ y = x THEN NULL ELSE e[b][y]
  /\ \A b \in Inum \ {c} : e2[b] = e[b]

\* A name is removed.
LEMMA Removes ==
  ASSUME NamesAssumption, NEW t \in [Inum -> Kinds], NEW e \in Tables, NEW d \in [Inum -> Inode0],
         KindsOK(t, e, d), EntriesOK(t, e), OnePlace(t, e, d), NoCycle(e),
         NEW c \in Inum, NEW x \in Name, NEW i \in Inum, e[c][x] = i,
         NEW e2, Without(e, c, x, e2)
  PROVE  /\ KindsOK(t, e2, d) /\ EntriesOK(t, e2) /\ OnePlace(t, e2, d) /\ NoCycle(e2)
         /\ <<c, x>> \in LinksIn(e, i) /\ LinksIn(e2, i) \subseteq LinksIn(e, i) \ {<<c, x>>}
         /\ \A j \in Inum : LinksIn(e2, j) \subseteq LinksIn(e, j)
         /\ \A j \in Inum : SubdirsIn(t, e2, d, j) \subseteq SubdirsIn(t, e, d, j)
         /\ t[i] = "dir" => /\ i \in SubdirsIn(t, e, d, c)
                            /\ SubdirsIn(t, e2, d, c) \subseteq SubdirsIn(t, e, d, c) \ {i}
         /\ t[c] = "dir" /\ i # ROOTINO
<1>0. i # NULL BY Root
<1>2. /\ \A b \in Inum, y \in Name : e2[b][y] = IF b = c /\ y = x THEN NULL ELSE e[b][y]
      /\ \A b \in Inum \ {c} : e2[b] = e[b]
      /\ e2 \in Tables
  BY DEF Without
<1>3. \A l \in Inum \X Name : e2[l[1]][l[2]] = IF l = <<c, x>> THEN NULL ELSE e[l[1]][l[2]]
  BY <1>2
<1>4. <<c, x>> \in LinksIn(e, i) /\ LinksIn(e2, i) \subseteq LinksIn(e, i) \ {<<c, x>>}
  BY <1>0, <1>3 DEF LinksIn
<1>5. \A j \in Inum : LinksIn(e2, j) \subseteq LinksIn(e, j)
  <2>1. \A j \in Inum : j # NULL BY Root
  <2> QED BY <1>3, <2>1 DEF LinksIn
<1>6. \A j \in Inum : SubdirsIn(t, e2, d, j) \subseteq SubdirsIn(t, e, d, j)
  BY <1>5 DEF SubdirsIn
<1>7. i # ROOTINO /\ t[c] = "dir"
  <2>1. e[c] # NoEntries BY <1>0 DEF NoEntries
  <2>2. t[c] = "dir" BY <2>1 DEF KindsOK
  <2>3. \A l \in Inum \X Name : e[l[1]][l[2]] # NULL => e[l[1]][l[2]] # ROOTINO BY DEF EntriesOK
  <2>4. <<c, x>> \in Inum \X Name OBVIOUS
  <2>5. e[<<c, x>>[1]][<<c, x>>[2]] = i OBVIOUS
  <2>6. i # ROOTINO BY <1>0, <2>3, <2>4, <2>5
  <2> QED BY <2>2, <2>6
<1>8. ASSUME t[i] = "dir"
      PROVE  /\ i \in SubdirsIn(t, e, d, c)
             /\ SubdirsIn(t, e2, d, c) \subseteq SubdirsIn(t, e, d, c) \ {i}
  <2>1. LinksIn(e, i) = {<<c, x>>} /\ d[i] = <<c, x>>[1] BY <1>4, <1>8 DEF OnePlace
  <2>2. LinksIn(e2, i) = {} BY <1>4, <2>1
  <2> QED BY <1>6, <1>7, <1>8, <2>1, <2>2 DEF SubdirsIn
<1>9. KindsOK(t, e2, d) BY <1>2, <1>7 DEF KindsOK
<1>10. EntriesOK(t, e2) BY <1>3 DEF EntriesOK
<1>11. OnePlace(t, e2, d)
  <2>1. ASSUME NEW j \in Inum, t[j] = "dir", NEW l \in LinksIn(e2, j)
        PROVE  LinksIn(e2, j) = {l} /\ d[j] = l[1]
    <3>1. l \in LinksIn(e, j) BY <1>5, <2>1
    <3>2. LinksIn(e, j) = {l} /\ d[j] = l[1] BY <2>1, <3>1 DEF OnePlace
    <3> QED BY <1>5, <2>1, <3>2
  <2> QED BY <2>1 DEF OnePlace
<1>12. NoCycle(e2)
  <2>1. ASSUME NEW S \in SUBSET Inum, S # {}
        PROVE  \E j \in S : \A b \in S, y \in Name : e2[b][y] # j
    <3>1. PICK j \in S : \A b \in S, y \in Name : e[b][y] # j BY <2>1 DEF NoCycle
    <3>2. j # NULL BY Root
    <3> QED BY <1>2, <3>1, <3>2
  <2> QED BY <2>1 DEF NoCycle
<1> QED BY <1>4, <1>5, <1>6, <1>7, <1>8, <1>9, <1>10, <1>11, <1>12

-----------------------------------------------------------------------------
(* link *)

LEMMA LinkCountsKeeps ==
  ASSUME NamesAssumption, IInv, NEW p \in Proc, LinkCounts(p) PROVE IInv'
<1> DEFINE i == ip[p]
<1>1. Locks(p, "link", 0) /\ UNCHANGED <<lock, panicked>> BY DEF LinkCounts
<1>2. pc[p] = "link" /\ i \in Inum /\ type[i] # "free" BY <1>1, AtInode
<1>3. CallsTyped /\ InodesTyped(type, nlink, entries, dotdot) BY DEF IInv, Typed
<1>4. CASE type[i] = "dir"
  <2>1. Fail(p) BY <1>4 DEF LinkCounts
  <2> QED BY <1>1, <1>2, <2>1, FailKeeps, Here
<1>5. CASE type[i] # "dir"
  <2>1. /\ old' = [old EXCEPT ![p] = i] /\ Go(p, "newlink", From(p, new[p]), new[p].elems)
        /\ new' = [new EXCEPT ![p] = <<>>] /\ nlink' = [nlink EXCEPT ![i] = @ + 1]
        /\ dp' = dp /\ cwd' = cwd /\ fd' = fd
        /\ type' = type /\ entries' = entries /\ dotdot' = dotdot
    BY <1>5 DEF LinkCounts
  <2>2. type[i] = "file" BY <1>2, <1>3, <1>5 DEF InodesTyped, Kinds
  <2> HIDE DEF i
  <2>3. From(p, new[p]) \in Inum BY <1>3, Root DEF From, CallsTyped
  <2>4. new[p].elems \in Seq(Elem) BY <1>2, <1>3 DEF CallsTyped, NamesAssumption, Elem
  <2>5. "newlink" \in Places BY DEF Places
  <2>6. CallsTyped' BY <1>2, <1>3, <2>1, <2>3, <2>4, <2>5 DEF CallsTyped, Go, Inode0
  <2>7. Moves(p) BY <1>3, <2>1, <2>6 DEF Moves, CallsTyped, Go
  <2>8. dp[p] = NULL BY <1>2, Here
  <2>9. /\ pc'[p] = "newlink" /\ ip'[p] = From(p, new[p]) /\ dp'[p] = NULL
        /\ \A q \in Proc : old'[q] = IF q = p THEN i ELSE old[q]
        /\ \A q \in Proc \ {p} : pc'[q] = pc[q]
    BY <1>3, <2>1, <2>8 DEF CallsTyped, Go
  <2>10. CallOK(pc', ip', rest', dp', old', lock', entries, p) BY <2>3, <2>9, Root DEF CallOK
  <2>11. PlaceLive(type, cwd', fd', p) BY <2>1 DEF IInv, PlacesLive
  <2>12. Leaves(p, type, entries) BY <1>1, <2>10, <2>11, Locked
  <2>13. \A j \in Inum : nlink'[j] = IF j = i THEN nlink[j] + 1 ELSE nlink[j]
    BY <1>3, <2>1 DEF InodesTyped
  <2>14. nlink \in [Inum -> Nat] /\ nlink' \in [Inum -> Nat] BY <1>2, <1>3, <2>1 DEF InodesTyped
  <2>15. CountsOK(type, nlink', entries, dotdot, pc', old')
    <3>1. ASSUME NEW j \in Inum
          PROVE  nlink'[j] >= Own(j) + Cardinality(LinksIn(entries, j))
                   + Cardinality(SubdirsIn(type, entries, dotdot, j)) + Cardinality(AheadIn(pc', old', j))
      <4> DEFINE l == Cardinality(LinksIn(entries, j))
                 s == Cardinality(SubdirsIn(type, entries, dotdot, j))
                 h == Cardinality(AheadIn(pc, old, j))
                 h2 == Cardinality(AheadIn(pc', old', j))
      <4>1. l \in Nat /\ s \in Nat /\ h \in Nat /\ h2 \in Nat /\ Own(j) \in Nat BY Finite DEF Own
      <4>2. nlink[j] >= Own(j) + l + s + h BY DEF IInv, Sound, CountsOK
      <4>3. h2 <= h + (IF j = i THEN 1 ELSE 0)
        <5>1. CASE j = i
          <6>1. AheadIn(pc', old', j) \subseteq AheadIn(pc, old, j) \cup {p} BY <2>9 DEF AheadIn, Counting
          <6>2. h2 <= h + 1 BY <6>1, Finite, Grown
          <6> QED BY <5>1, <6>2
        <5>2. CASE j # i
          <6>1. AheadIn(pc', old', j) \subseteq AheadIn(pc, old, j) BY <2>9, <5>2 DEF AheadIn
          <6>2. h2 <= h BY <6>1, Finite, FS_Subset
          <6> QED BY <4>1, <5>2, <6>2
        <5> QED BY <5>1, <5>2
      <4>4. nlink[j] \in Nat /\ nlink'[j] = IF j = i THEN nlink[j] + 1 ELSE nlink[j]
        BY <2>13, <2>14
      <4> HIDE DEF l, s, h, h2
      <4>5. nlink'[j] >= Own(j) + l + s + h2
        <5>1. CASE j = i BY <4>1, <4>2, <4>3, <4>4, <5>1
        <5>2. CASE j # i BY <4>1, <4>2, <4>3, <4>4, <5>2
        <5> QED BY <5>1, <5>2
      <4> QED BY <4>5 DEF l, s, h2
    <3> QED BY <3>1 DEF CountsOK
  <2>16. AheadOK(type, pc', old')
    <3>1. ASSUME NEW q \in Proc, pc'[q] \in Counting
          PROVE  CountedOK(type, pc'[q], old'[q])
      <4>1. CASE q = p BY <1>2, <2>2, <2>9, <4>1 DEF CountedOK
      <4>2. CASE q # p
        <5>1. pc'[q] = pc[q] /\ old'[q] = old[q] BY <2>9, <4>2
        <5> QED BY <3>1, <5>1 DEF IInv, Sound, AheadOK
      <4> QED BY <4>1, <4>2
    <3> QED BY <3>1 DEF AheadOK
  <2>17. PICK t \in [Inum -> Kinds], n \in [Inum -> Nat], e \in Tables, d \in [Inum -> Inode0] :
          t = type /\ n = nlink' /\ e = entries /\ d = dotdot
    BY <1>3, <2>14 DEF InodesTyped
  <2>18. Sound(t, n, e, d, pc', old') BY <2>15, <2>16, <2>17 DEF IInv, Sound
  <2>19. Change({}, t, n, e, d)
    <3>1. Put({}, n) = {} BY DEF Put
    <3>2. type' = t /\ nlink' = n /\ entries' = e /\ dotdot' = d BY <2>1, <2>17
    <3>3. t = [k \in Inum |-> t[k]] /\ e = [k \in Inum |-> e[k]] /\ d = [k \in Inum |-> d[k]]
      BY DEF Tables
    <3> QED BY <3>1, <3>2, <3>3 DEF Change
  <2>20. Leaves(p, t, e) BY <2>12, <2>17
  <2> QED BY <2>7, <2>18, <2>19, <2>20, Step
<1> QED BY <1>4, <1>5

LEMMA LinkEntersKeeps ==
  ASSUME NamesAssumption, IInv, NEW p \in Proc, LinkEnters(p) PROVE IInv'
<1> DEFINE c == ip[p]
           x == Head(rest[p])
           i == old[p]
<1>1. Locks(p, "newlink", 1) /\ UNCHANGED <<lock, panicked>> BY DEF LinkEnters
<1>2. pc[p] = "newlink" /\ Len(rest[p]) = 1 /\ lock[c] = NULL /\ c \in Inum /\ type[c] # "free"
  <2>1. Locks(p, "newlink", 1) BY <1>1
  <2>2. pc[p] = "newlink" /\ Len(rest[p]) = 1 /\ lock[ip[p]] = NULL /\ type[ip[p]] # "free" BY <2>1 DEF Locks
  <2> QED BY <2>2, Here
<1>3. CallsTyped /\ InodesTyped(type, nlink, entries, dotdot) BY DEF IInv, Typed
<1>4. x \in Elem
  <2>1. rest[p] \in Seq(Elem) BY <1>3 DEF CallsTyped
  <2> DEFINE r == rest[p]
  <2>2. r \in Seq(Elem) /\ Len(r) = 1 BY <1>2, <2>1
  <2> HIDE DEF r
  <2>3. Head(r) \in Elem BY <2>2
  <2> QED BY <2>3 DEF r
<1>5. CASE type[c] # "dir" \/ Lookup(c, x) # NULL
  <2>1. Fail(p) BY <1>5 DEF LinkEnters
  <2> QED BY <1>1, <1>2, <2>1, FailKeeps, Here
<1>6. CASE ~(type[c] # "dir" \/ Lookup(c, x) # NULL)
  <2>1. /\ Return(p) /\ cwd' = cwd /\ fd' = fd
        /\ Change({c, i}, type, nlink, [entries EXCEPT ![c][x] = i], dotdot)
    BY <1>6 DEF LinkEnters
  <2>2. x \in Name /\ entries[c][x] = NULL
    <3>1. dotdot[c] # NULL BY <1>2, <1>6 DEF IInv, Sound, KindsOK
    <3> QED BY <1>4, <1>6, <3>1 DEF Lookup, Elem
  <2>3. i \in Inum /\ type[i] = "file"
    BY <1>2 DEF IInv, Sound, AheadOK, CountedOK, Counting
  <2> HIDE DEF x, c, i
  <2>4. PICK t \in [Inum -> Kinds], n \in [Inum -> Nat], e \in Tables, d \in [Inum -> Inode0] :
          t = type /\ n = nlink /\ e = entries /\ d = dotdot
    BY <1>3 DEF InodesTyped
  <2>5. PICK e2 : e2 = [e EXCEPT ![c][x] = i] OBVIOUS
  <2>6. Change({c, i}, t, n, e2, d) BY <2>1, <2>4, <2>5
  <2>7. KindsOK(t, e, d) /\ EntriesOK(t, e) /\ OnePlace(t, e, d) /\ NoCycle(e)
    BY <2>4 DEF IInv, Sound
  <2>8. /\ e[c][x] = NULL /\ t[c] = "dir" /\ t[i] = "file" /\ i # c /\ i # ROOTINO /\ e[i] = NoEntries
    BY <1>6, <2>2, <2>3, <2>4, <2>7 DEF KindsOK
  <2>9. /\ e2 \in Tables /\ KindsOK(t, e2, d) /\ EntriesOK(t, e2) /\ OnePlace(t, e2, d) /\ NoCycle(e2)
        /\ LinksIn(e2, i) \subseteq LinksIn(e, i) \cup {<<c, x>>}
        /\ \A j \in Inum \ {i} : LinksIn(e2, j) = LinksIn(e, j)
        /\ \A j \in Inum : SubdirsIn(t, e2, d, j) \subseteq SubdirsIn(t, e, d, j)
    <3>1. t[i] # "free" /\ t[i] # "dir" BY <2>8
    <3>2. c \in Inum /\ x \in Name /\ i \in Inum BY <1>2, <2>2, <2>3
    <3>3. PICK b \in Inum, y \in Name, k \in Inum : b = c /\ y = x /\ k = i BY <3>2
    <3>4. /\ e[b][y] = NULL /\ t[b] = "dir" /\ k # b /\ k # ROOTINO /\ e[k] = NoEntries
          /\ t[k] # "free" /\ t[k] # "dir"
          /\ e2 \in Tables /\ \A f \in Inum, z \in Name : e2[f][z] = IF f = b /\ z = y THEN k ELSE e[f][z]
          /\ \A f \in Inum \ {b} : e2[f] = e[f]
      BY <2>5, <2>8, <3>1, <3>3 DEF Tables, Inode0
    <3>5. /\ e2 \in Tables /\ KindsOK(t, e2, d) /\ EntriesOK(t, e2) /\ OnePlace(t, e2, d) /\ NoCycle(e2)
          /\ LinksIn(e2, k) \subseteq LinksIn(e, k) \cup {<<b, y>>}
          /\ \A j \in Inum \ {k} : LinksIn(e2, j) = LinksIn(e, j)
          /\ \A j \in Inum \ {b} : SubdirsIn(t, e2, d, j) \subseteq SubdirsIn(t, e, d, j)
          /\ SubdirsIn(t, e2, d, b) \subseteq SubdirsIn(t, e, d, b)
      BY <2>7, <3>4, Enters
    <3> QED BY <3>3, <3>5
  <2>10. cwd' = [cwd EXCEPT ![p] = cwd[p]] /\ fd' = [fd EXCEPT ![p] = fd[p]]
         /\ cwd[p] \in Inum /\ fd[p] \in Inode0
    BY <1>3, <2>1 DEF CallsTyped
  <2>11. /\ Moves(p) /\ pc'[p] = "user" /\ CallOK(pc', ip', rest', dp', old', lock', e2, p)
    BY <2>1, <2>10, Returns
  <2>12. /\ i = old[p] /\ \A q \in Proc \ {p} : pc'[q] = pc[q] /\ old'[q] = old[q]
    BY <2>11 DEF Moves, i
  <2>13. CountsOK(t, n, e2, d, pc', old')
    <3>1. ASSUME NEW j \in Inum
          PROVE  n[j] >= Own(j) + Cardinality(LinksIn(e2, j))
                   + Cardinality(SubdirsIn(t, e2, d, j)) + Cardinality(AheadIn(pc', old', j))
      <4> DEFINE l == Cardinality(LinksIn(e, j))
                 s == Cardinality(SubdirsIn(t, e, d, j))
                 h == Cardinality(AheadIn(pc, old, j))
                 l2 == Cardinality(LinksIn(e2, j))
                 s2 == Cardinality(SubdirsIn(t, e2, d, j))
                 h2 == Cardinality(AheadIn(pc', old', j))
      <4>1. l \in Nat /\ s \in Nat /\ h \in Nat /\ l2 \in Nat /\ s2 \in Nat /\ h2 \in Nat /\ Own(j) \in Nat
        BY Finite DEF Own
      <4>2. n[j] >= Own(j) + l + s + h BY <2>4 DEF IInv, Sound, CountsOK
      <4>3. n[j] \in Nat OBVIOUS
      <4>4. s2 <= s BY <2>9, Finite, FS_Subset
      <4>5. l2 + h2 <= l + h
        <5>1. CASE j = i
          <6>1. l2 <= l + 1 BY <2>9, <5>1, Finite, Grown
          <6>2. p \in AheadIn(pc, old, j) /\ AheadIn(pc', old', j) \subseteq AheadIn(pc, old, j) \ {p}
            BY <1>2, <2>11, <2>12, <5>1 DEF AheadIn, Counting
          <6>3. h2 + 1 <= h BY <6>2, Finite, Shrunk
          <6> HIDE DEF l, h, l2, h2
          <6> QED BY <4>1, <6>1, <6>3
        <5>2. CASE j # i
          <6>1. l2 = l BY <2>9, <5>2
          <6>2. AheadIn(pc', old', j) \subseteq AheadIn(pc, old, j)
            BY <2>11, <2>12 DEF AheadIn, Counting
          <6>3. h2 <= h BY <6>2, Finite, FS_Subset
          <6> HIDE DEF l, h, l2, h2
          <6> QED BY <4>1, <6>1, <6>3
        <5> QED BY <5>1, <5>2
      <4> HIDE DEF l, s, h, l2, s2, h2
      <4>6. n[j] >= Own(j) + l2 + s2 + h2 BY <4>1, <4>2, <4>3, <4>4, <4>5
      <4> QED BY <4>6 DEF l2, s2, h2
    <3> QED BY <3>1 DEF CountsOK
  <2>14. AheadOK(t, pc', old')
    BY <2>4, <2>11, <2>12 DEF IInv, Sound, AheadOK, Counting
  <2>15. Sound(t, n, e2, d, pc', old') BY <2>9, <2>13, <2>14 DEF Sound
  <2>16. Leaves(p, t, e2)
    <3>1. \A q \in Proc \ {p} : /\ dp[q] # NULL => lock'[dp[q]] = q /\ e2[dp[q]] = entries[dp[q]]
                                /\ pc[q] = "unlinked" => lock'[ip[q]] = q
      <4>1. ASSUME NEW q \in Proc, dp[q] # NULL PROVE lock'[dp[q]] = q /\ e2[dp[q]] = entries[dp[q]]
        <5>1. lock[dp[q]] = q /\ dp[q] \in Inum /\ q # NULL BY <4>1, Here DEF NamesAssumption
        <5>2. dp[q] # c BY <1>2, <5>1
        <5> QED BY <1>1, <2>4, <2>5, <5>1, <5>2 DEF Tables
      <4>2. ASSUME NEW q \in Proc, pc[q] = "unlinked" PROVE lock'[ip[q]] = q
        BY <1>1, <4>2, Here
      <4> QED BY <4>1, <4>2
    <3>2. PlaceLive(type, cwd', fd', p) BY <2>1 DEF IInv, PlacesLive
    <3> QED BY <1>1, <2>4, <2>11, <3>1, <3>2, Here DEF Leaves
  <2> QED BY <2>6, <2>9, <2>11, <2>15, <2>16, Step
<1> QED BY <1>5, <1>6

\* The count without a name goes, and the call is over.
LEMMA TakesBack ==
  ASSUME NamesAssumption, IInv, NEW p \in Proc, pc[p] \in Counting, Return(p),
         UNCHANGED <<panicked, cwd, fd>>, lock' \in [Inum -> Proc \cup {NULL}],
         \A q \in Proc \ {p} : /\ dp[q] # NULL => lock'[dp[q]] = q
                               /\ pc[q] = "unlinked" => lock'[ip[q]] = q,
         Change({old[p]}, type, [nlink EXCEPT ![old[p]] = @ - 1], entries, dotdot)
  PROVE  IInv'
<1> DEFINE i == old[p]
<1>1. Return(p) /\ cwd' = cwd /\ fd' = fd
      /\ Change({i}, type, [nlink EXCEPT ![i] = @ - 1], entries, dotdot)
  OBVIOUS
<1>2. pc[p] \in Counting /\ lock' \in [Inum -> Proc \cup {NULL}] /\ panicked' \in BOOLEAN
      /\ \A q \in Proc \ {p} : /\ dp[q] # NULL => lock'[dp[q]] = q
                               /\ pc[q] = "unlinked" => lock'[ip[q]] = q
  BY Here
<1>3. CallsTyped /\ InodesTyped(type, nlink, entries, dotdot) BY DEF IInv, Typed
<1>4. i \in Inum BY <1>2 DEF IInv, Sound, AheadOK, CountedOK
<1>5. p \in AheadIn(pc, old, i) BY <1>2 DEF AheadIn
<1> HIDE DEF i
<1>6. PICK t \in [Inum -> Kinds], n \in [Inum -> Nat], e \in Tables, d \in [Inum -> Inode0] :
        t = type /\ n = nlink /\ e = entries /\ d = dotdot
  BY <1>3 DEF InodesTyped
<1>7. PICK n2 : n2 = [n EXCEPT ![i] = @ - 1] OBVIOUS
<1>8. Change({i}, t, n2, e, d) BY <1>1, <1>6, <1>7
<1>9. cwd' = [cwd EXCEPT ![p] = cwd[p]] /\ fd' = [fd EXCEPT ![p] = fd[p]]
      /\ cwd[p] \in Inum /\ fd[p] \in Inode0
  BY <1>1, <1>3 DEF CallsTyped
<1>10. Moves(p) /\ pc'[p] = "user" /\ CallOK(pc', ip', rest', dp', old', lock', entries, p)
  BY <1>1, <1>9, Returns
<1>11. \A q \in Proc \ {p} : pc'[q] = pc[q] /\ old'[q] = old[q] BY <1>10 DEF Moves
<1>12. \A j \in Inum : /\ n2[j] = IF j = i THEN n[j] - 1 ELSE n[j]
                       /\ n2[j] \in Nat
                       /\ n2[j] >= Own(j) + Cardinality(LinksIn(e, j))
                            + Cardinality(SubdirsIn(t, e, d, j)) + Cardinality(AheadIn(pc', old', j))
  <2>1. ASSUME NEW j \in Inum
        PROVE  /\ n2[j] = IF j = i THEN n[j] - 1 ELSE n[j]
               /\ n2[j] \in Nat
               /\ n2[j] >= Own(j) + Cardinality(LinksIn(e, j))
                    + Cardinality(SubdirsIn(t, e, d, j)) + Cardinality(AheadIn(pc', old', j))
    <3> DEFINE l == Cardinality(LinksIn(e, j))
               s == Cardinality(SubdirsIn(t, e, d, j))
               h == Cardinality(AheadIn(pc, old, j))
               h2 == Cardinality(AheadIn(pc', old', j))
    <3>1. l \in Nat /\ s \in Nat /\ h \in Nat /\ h2 \in Nat /\ Own(j) \in Nat BY Finite DEF Own
    <3>2. n[j] >= Own(j) + l + s + h BY <1>6 DEF IInv, Sound, CountsOK
    <3>3. n[j] \in Nat /\ n2[j] = IF j = i THEN n[j] - 1 ELSE n[j] BY <1>7
    <3>4. h2 + (IF j = i THEN 1 ELSE 0) <= h
      <4>1. CASE j = i
        <5>1. AheadIn(pc', old', j) \subseteq AheadIn(pc, old, j) \ {p}
          BY <1>10, <1>11 DEF AheadIn, Counting
        <5>2. h2 + 1 <= h BY <1>5, <4>1, <5>1, Finite, Shrunk
        <5> QED BY <4>1, <5>2
      <4>2. CASE j # i
        <5>1. AheadIn(pc', old', j) \subseteq AheadIn(pc, old, j) BY <1>10, <1>11 DEF AheadIn, Counting
        <5>2. h2 <= h BY <5>1, Finite, FS_Subset
        <5> HIDE DEF h, h2
        <5> QED BY <3>1, <4>2, <5>2
      <4> QED BY <4>1, <4>2
    <3> HIDE DEF l, s, h, h2
    <3>5. n2[j] \in Nat /\ n2[j] >= Own(j) + l + s + h2
      <4>1. CASE j = i BY <3>1, <3>2, <3>3, <3>4, <4>1
      <4>2. CASE j # i BY <3>1, <3>2, <3>3, <3>4, <4>2
      <4> QED BY <4>1, <4>2
    <3> QED BY <3>3, <3>5 DEF l, s, h2
  <2> QED BY <2>1
<1>13. n2 \in [Inum -> Nat]
  <2>1. n2 = [j \in Inum |-> n2[j]] BY <1>7
  <2>2. \A j \in Inum : n2[j] \in Nat BY <1>12
  <2> HIDE DEF i
  <2> QED BY <2>1, <2>2
<1>14. CountsOK(t, n2, e, d, pc', old') BY <1>12 DEF CountsOK
<1>15. AheadOK(t, pc', old') BY <1>6, <1>10, <1>11 DEF IInv, Sound, AheadOK, Counting
<1>16. Sound(t, n2, e, d, pc', old') BY <1>6, <1>14, <1>15 DEF IInv, Sound
<1>17. PlaceLive(type, cwd', fd', p) BY <1>1 DEF IInv, PlacesLive
<1>18. Leaves(p, t, e) BY <1>2, <1>6, <1>10, <1>17 DEF Leaves
<1> QED BY <1>8, <1>10, <1>13, <1>16, <1>18, Step

LEMMA LinkUndoneKeeps ==
  ASSUME NamesAssumption, IInv, NEW p \in Proc, LinkUndone(p) PROVE IInv'
<1>1. /\ Locks(p, "bad", 0) /\ UNCHANGED <<lock, panicked, cwd, fd>> /\ Return(p)
      /\ Change({old[p]}, type, [nlink EXCEPT ![old[p]] = @ - 1], entries, dotdot)
  BY DEF LinkUndone
<1>2. pc[p] \in Counting BY <1>1, AtInode DEF Counting
<1> QED BY <1>1, <1>2, Here, TakesBack

-----------------------------------------------------------------------------
(* create *)

\* The inode that ialloc finds.
LeastFree == CHOOSE i \in Inum : type[i] = "free" /\ \A j \in Inum : type[j] = "free" => i <= j

LEMMA LeastIsFree ==
  ASSUME NamesAssumption, \E j \in Inum : type[j] = "free"
  PROVE  LeastFree \in Inum /\ type[LeastFree] = "free"
<1> DEFINE R == OpToRel(<, Nat)
           S == {j \in Inum : type[j] = "free"}
<1>1. IsWellFoundedOn(R, Nat) BY NatLessThanWellFounded
<1>2. \A x, m \in Nat : <<x, m>> \in R <=> x < m BY DEF OpToRel
<1>3. S \subseteq Nat /\ S # {} BY Root
<1> HIDE DEF R, S
<1>4. PICK m \in S : \A x \in S : ~ (<<x, m>> \in R) BY <1>1, <1>3, WFMin
<1>5. m \in Nat /\ \A x \in S : x \in Nat BY <1>3, <1>4
<1>6. \A x \in S : m <= x
  <2>1. \A x \in S : ~ (x < m) BY <1>2, <1>4, <1>5
  <2> QED BY <1>5, <2>1
<1>7. m \in Inum /\ type[m] = "free" /\ \A j \in Inum : type[j] = "free" => m <= j
  BY <1>4, <1>6 DEF S
<1> QED BY <1>7 DEF LeastFree

\* A free inode has no name and no entries, and is neither a parent nor linked anew.
LEMMA FreeInode ==
  ASSUME NamesAssumption, IInv, NEW i \in Inum, type[i] = "free"
  PROVE  /\ LinksIn(entries, i) = {} /\ AheadIn(pc, old, i) = {} /\ entries[i] = NoEntries
         /\ SubdirsIn(type, entries, dotdot, i) = {} /\ i # ROOTINO
<1>1. LinksIn(entries, i) = {}
  <2>1. ASSUME NEW l \in Inum \X Name, entries[l[1]][l[2]] = i PROVE FALSE
    <3>1. entries[l[1]][l[2]] # NULL BY <2>1, Root
    <3> QED BY <2>1, <3>1 DEF IInv, Sound, EntriesOK
  <2> QED BY <2>1 DEF LinksIn
<1>2. AheadIn(pc, old, i) = {} BY DEF IInv, Sound, AheadOK, CountedOK, AheadIn
<1>3. entries[i] = NoEntries /\ i # ROOTINO BY DEF IInv, Sound, KindsOK
<1>4. ASSUME NEW y \in SubdirsIn(type, entries, dotdot, i) PROVE FALSE
  <2>1. y \in Inum /\ type[y] = "dir" /\ dotdot[y] = i /\ LinksIn(entries, y) # {}
    BY <1>4 DEF SubdirsIn
  <2>2. PICK l \in LinksIn(entries, y) : TRUE BY <2>1
  <2>3. i = l[1] BY <2>1, <2>2 DEF IInv, Sound, OnePlace
  <2>4. l \in Inum \X Name /\ entries[l[1]][l[2]] = y BY <2>2 DEF LinksIn
  <2>5. entries[l[1]][l[2]] = NULL BY <1>3, <2>3, <2>4 DEF NoEntries
  <2> QED BY <2>1, <2>4, <2>5, Root
<1> QED BY <1>1, <1>2, <1>3, <1>4

LEMMA CreateKeeps == ASSUME NamesAssumption, IInv, NEW p \in Proc, Create(p) PROVE IInv'
<1> DEFINE c == ip[p]
           x == Head(rest[p])
           isdir == pc[p] = "mkdir"
           i == LeastFree
           found == Lookup(c, x)
<1>1. pc[p] \in {"create", "mkdir"} /\ Locks(p, pc[p], 1) /\ UNCHANGED <<lock, panicked>>
  BY DEF Create
<1>2. Len(rest[p]) = 1 /\ lock[c] = NULL /\ c \in Inum /\ type[c] # "free" /\ pc[p] # "user"
  <2>1. Len(rest[p]) = 1 /\ lock[ip[p]] = NULL /\ type[ip[p]] # "free" BY <1>1 DEF Locks
  <2>2. pc[p] # "user" BY <1>1
  <2> QED BY <2>1, <2>2, Here
<1>3. CallsTyped /\ InodesTyped(type, nlink, entries, dotdot) BY DEF IInv, Typed
<1>4. x \in Elem
  <2>1. rest[p] \in Seq(Elem) BY <1>3 DEF CallsTyped
  <2> DEFINE r == rest[p]
  <2>2. r \in Seq(Elem) /\ Len(r) = 1 BY <1>2, <2>1
  <2> HIDE DEF r
  <2>3. Head(r) \in Elem BY <2>2
  <2> QED BY <2>3 DEF r
<1>5. CASE type[c] # "dir"
  <2>1. Fail(p) BY <1>5 DEF Create
  <2> QED BY <1>1, <1>2, <2>1, FailKeeps, Here
<1>6. CASE type[c] = "dir" /\ found # NULL
  <2>1. /\ Go(p, pc[p], found, <<>>) /\ UNCHANGED <<dp, old, new, cwd, fd>> /\ JustPut({c})
    BY <1>6 DEF Create
  <2>2. found \in Inode0 BY <1>2, <1>4, Found
  <2> HIDE DEF c, x, found
  <2>3. dp[p] = NULL BY <1>1, Here
  <2>4. pc[p] \in Places /\ <<>> \in Seq(Elem) BY <1>3 DEF CallsTyped
  <2>5. CallsTyped' BY <1>3, <2>1, <2>2, <2>4 DEF CallsTyped, Go
  <2>6. Moves(p) BY <1>3, <2>1, <2>5 DEF Moves, CallsTyped, Go
  <2>7. pc'[p] = pc[p] /\ ip'[p] = found /\ dp'[p] = NULL /\ old'[p] = old[p]
    BY <1>3, <2>1, <2>3 DEF CallsTyped, Go
  <2>8. CallOK(pc', ip', rest', dp', old', lock', entries, p) BY <1>1, <1>2, <1>6, <2>7 DEF CallOK
  <2>9. PlaceLive(type, cwd', fd', p) BY <2>1 DEF IInv, PlacesLive
  <2>10. Leaves(p, type, entries) BY <1>1, <2>8, <2>9, Locked
  <2> QED BY <1>1, <2>1, <2>6, <2>7, <2>10, Plain DEF Counting
<1>7. CASE type[c] = "dir" /\ found = NULL
  <2>1. /\ \E j \in Inum : type[j] = "free"
        /\ Return(p) /\ cwd' = cwd
        /\ fd' = [fd EXCEPT ![p] = IF isdir THEN @ ELSE i]
        /\ Change({c}, [type EXCEPT ![i] = IF isdir THEN "dir" ELSE "file"],
                  [nlink EXCEPT ![i] = 1, ![c] = IF isdir THEN @ + 1 ELSE @],
                  [entries EXCEPT ![c][x] = i],
                  [dotdot EXCEPT ![i] = IF isdir THEN c ELSE NULL])
    BY <1>7 DEF Create, LeastFree
  <2>2. x \in Name /\ entries[c][x] = NULL
    <3>1. dotdot[c] # NULL BY <1>2, <1>7 DEF IInv, Sound, KindsOK
    <3> QED BY <1>4, <1>7, <3>1 DEF Lookup, Elem
  <2>3. i \in Inum /\ type[i] = "free" BY <2>1, LeastIsFree
  <2>4. isdir \in BOOLEAN OBVIOUS
  <2> HIDE DEF x, c, i, isdir
  <2>5. PICK cc \in Inum, xx \in Name, ii \in Inum, dir \in BOOLEAN :
          cc = c /\ xx = x /\ ii = i /\ dir = isdir
    BY <1>2, <2>2, <2>3, <2>4
  <2>6. PICK t \in [Inum -> Kinds], n \in [Inum -> Nat], e \in Tables, d \in [Inum -> Inode0] :
          t = type /\ n = nlink /\ e = entries /\ d = dotdot
    BY <1>3 DEF InodesTyped
  <2>7. PICK t2, n2, e2, d2 :
          /\ t2 = [t EXCEPT ![ii] = IF dir THEN "dir" ELSE "file"]
          /\ n2 = [n EXCEPT ![ii] = 1, ![cc] = IF dir THEN @ + 1 ELSE @]
          /\ e2 = [e EXCEPT ![cc][xx] = ii]
          /\ d2 = [d EXCEPT ![ii] = IF dir THEN cc ELSE NULL]
    OBVIOUS
  <2>8. Change({cc}, t2, n2, e2, d2) BY <2>1, <2>5, <2>6, <2>7
  <2>9. KindsOK(t, e, d) /\ EntriesOK(t, e) /\ OnePlace(t, e, d) /\ NoCycle(e)
    BY <2>6 DEF IInv, Sound
  <2>10. /\ LinksIn(e, ii) = {} /\ AheadIn(pc, old, ii) = {} /\ e[ii] = NoEntries
         /\ SubdirsIn(t, e, d, ii) = {} /\ ii # ROOTINO /\ t[ii] = "free" /\ t[cc] = "dir" /\ ii # cc
         /\ e[cc][xx] = NULL
    BY <1>7, <2>2, <2>3, <2>5, <2>6, FreeInode
  <2>11. /\ t2 \in [Inum -> Kinds] /\ e2 \in Tables /\ d2 \in [Inum -> Inode0]
         /\ t2[ii] = (IF dir THEN "dir" ELSE "file") /\ d2[ii] = (IF dir THEN cc ELSE NULL)
         /\ \A j \in Inum \ {ii} : t2[j] = t[j] /\ d2[j] = d[j]
         /\ \A f \in Inum, z \in Name : e2[f][z] = IF f = cc /\ z = xx THEN ii ELSE e[f][z]
         /\ \A f \in Inum \ {cc} : e2[f] = e[f]
    BY <2>7 DEF Tables, Inode0, Kinds
  <2>12. /\ n2 \in [Inum -> Nat] /\ n2[ii] = 1 /\ n2[cc] = (IF dir THEN n[cc] + 1 ELSE n[cc])
         /\ \A j \in Inum \ {ii, cc} : n2[j] = n[j]
    BY <2>7, <2>10
  <2>13. KindsOK(t2, e, d2) BY <2>9, <2>10, <2>11, Root DEF KindsOK
  <2>14. EntriesOK(t2, e)
    <3>1. \A l \in Inum \X Name : e[l[1]][l[2]] # NULL => e[l[1]][l[2]] \in Inum
      BY DEF Tables, Inode0
    <3>2. \A j \in Inum : t[j] # "free" => t2[j] # "free" BY <2>10, <2>11
    <3> QED BY <2>9, <3>1, <3>2 DEF EntriesOK
  <2>15. OnePlace(t2, e, d2) BY <2>9, <2>10, <2>11 DEF OnePlace
  <2>16. \A j \in Inum : SubdirsIn(t2, e, d2, j) = SubdirsIn(t, e, d, j)
    BY <2>10, <2>11 DEF SubdirsIn
  <2>17. /\ KindsOK(t2, e2, d2) /\ EntriesOK(t2, e2) /\ OnePlace(t2, e2, d2) /\ NoCycle(e2)
         /\ LinksIn(e2, ii) \subseteq LinksIn(e, ii) \cup {<<cc, xx>>}
         /\ \A j \in Inum \ {ii} : LinksIn(e2, j) = LinksIn(e, j)
         /\ \A j \in Inum \ {cc} : SubdirsIn(t2, e2, d2, j) \subseteq SubdirsIn(t2, e, d2, j)
         /\ SubdirsIn(t2, e2, d2, cc) \subseteq SubdirsIn(t2, e, d2, cc) \cup {ii}
         /\ t2[ii] # "dir" => SubdirsIn(t2, e2, d2, cc) \subseteq SubdirsIn(t2, e, d2, cc)
    <3>1. t2[ii] # "free" /\ t2[cc] = "dir" /\ (t2[ii] = "dir" => LinksIn(e, ii) = {} /\ d2[ii] = cc)
      BY <2>10, <2>11
    <3>2. e[cc][xx] = NULL /\ ii # cc /\ ii # ROOTINO /\ e[ii] = NoEntries BY <2>10
    <3>3. t2 \in [Inum -> Kinds] /\ e2 \in Tables /\ d2 \in [Inum -> Inode0] BY <2>11
    <3>4. /\ \A f \in Inum, z \in Name : e2[f][z] = IF f = cc /\ z = xx THEN ii ELSE e[f][z]
          /\ \A f \in Inum \ {cc} : e2[f] = e[f]
      BY <2>11
    <3>5. NoCycle(e) BY <2>9
    <3>6. \A j \in Inum \ {ii} : LinksIn(e2, j) = LinksIn(e, j)
      BY <2>13, <2>14, <2>15, <3>1, <3>2, <3>3, <3>4, <3>5, Enters
    <3>7. t2[ii] # "dir" => SubdirsIn(t2, e2, d2, cc) \subseteq SubdirsIn(t2, e, d2, cc)
      BY SMTT(30), <2>13, <2>14, <2>15, <3>1, <3>2, <3>3, <3>4, <3>5, Enters
    <3> QED BY SMTT(30), <2>13, <2>14, <2>15, <3>1, <3>2, <3>3, <3>4, <3>5, <3>6, <3>7, Enters
  <2>18. PICK w \in Inum, f2 \in Inode0 : w = cwd[p] /\ f2 = IF isdir THEN fd[p] ELSE i
    <3>1. cwd[p] \in Inum /\ fd[p] \in Inode0 /\ i \in Inode0 BY <1>3, <2>3 DEF CallsTyped, Inode0
    <3> QED BY <3>1
  <2>19. cwd' = [cwd EXCEPT ![p] = w] /\ fd' = [fd EXCEPT ![p] = f2] /\ (f2 = fd[p] \/ f2 = ii)
    BY <1>3, <2>1, <2>5, <2>18 DEF CallsTyped
  <2>20. /\ Moves(p) /\ pc'[p] = "user" /\ cwd'[p] = w /\ fd'[p] = f2
         /\ CallOK(pc', ip', rest', dp', old', lock', e2, p)
    <3>1. Return(p) BY <2>1
    <3>2. cwd' = [cwd EXCEPT ![p] = w] BY <2>19
    <3>3. fd' = [fd EXCEPT ![p] = f2] BY <2>19
    <3>4. Moves(p) BY <3>1, <3>2, <3>3, Returns
    <3>5. pc'[p] = "user" /\ cwd'[p] = w /\ fd'[p] = f2 BY <3>1, <3>2, <3>3, Returns
    <3>6. \A k, f : CallOK(pc', ip', rest', dp', old', k, f, p) BY <3>1, <3>2, <3>3, Returns
    <3> QED BY <3>4, <3>5, <3>6
  <2>21. \A q \in Proc \ {p} : pc'[q] = pc[q] /\ old'[q] = old[q] BY <2>20 DEF Moves
  <2>22. CountsOK(t2, n2, e2, d2, pc', old')
    <3>1. ASSUME NEW j \in Inum
          PROVE  n2[j] >= Own(j) + Cardinality(LinksIn(e2, j))
                   + Cardinality(SubdirsIn(t2, e2, d2, j)) + Cardinality(AheadIn(pc', old', j))
      <4> DEFINE l == Cardinality(LinksIn(e, j))
                 s == Cardinality(SubdirsIn(t, e, d, j))
                 h == Cardinality(AheadIn(pc, old, j))
                 l2 == Cardinality(LinksIn(e2, j))
                 s2 == Cardinality(SubdirsIn(t2, e2, d2, j))
                 h2 == Cardinality(AheadIn(pc', old', j))
      <4>1. l \in Nat /\ s \in Nat /\ h \in Nat /\ l2 \in Nat /\ s2 \in Nat /\ h2 \in Nat /\ Own(j) \in Nat
        BY Finite DEF Own
      <4>2. n[j] >= Own(j) + l + s + h /\ n[j] \in Nat BY <2>6 DEF IInv, Sound, CountsOK
      <4>3. h2 <= h
        <5>1. AheadIn(pc', old', j) \subseteq AheadIn(pc, old, j) BY <2>20, <2>21 DEF AheadIn, Counting
        <5> QED BY <5>1, Finite, FS_Subset
      <4>4. CASE j = ii
        <5>1. l2 <= l + 1 BY <2>17, <4>4, Finite, Grown
        <5>2. SubdirsIn(t2, e2, d2, j) \subseteq SubdirsIn(t, e, d, j) BY <2>10, <2>16, <2>17, <4>4
        <5>3. s2 <= s BY <5>2, Finite, FS_Subset
        <5>4. Cardinality({}) = 0 BY FS_EmptySet
        <5>5. l = 0 /\ s = 0 /\ h = 0 /\ Own(j) = 0 BY <2>10, <4>4, <5>4 DEF Own
        <5>6. n2[j] = 1 BY <2>12, <4>4
        <5> HIDE DEF l, s, h, l2, s2, h2
        <5>7. n2[j] >= Own(j) + l2 + s2 + h2 BY <4>1, <4>3, <5>1, <5>3, <5>5, <5>6
        <5> QED BY <5>7 DEF l2, s2, h2
      <4>5. CASE j = cc
        <5>1. l2 = l BY <2>10, <2>17, <4>5
        <5>2. CASE dir
          <6>1. SubdirsIn(t2, e2, d2, j) \subseteq SubdirsIn(t, e, d, j) \cup {ii} BY <2>16, <2>17, <4>5
          <6>2. s2 <= s + 1 BY <6>1, Finite, Grown
          <6>3. n2[j] = n[j] + 1 BY <2>12, <4>5, <5>2
          <6> HIDE DEF l, s, h, l2, s2, h2
          <6>4. n2[j] >= Own(j) + l2 + s2 + h2 BY <4>1, <4>2, <4>3, <5>1, <6>2, <6>3
          <6> QED BY <6>4 DEF l2, s2, h2
        <5>3. CASE ~dir
          <6>1. SubdirsIn(t2, e2, d2, j) \subseteq SubdirsIn(t, e, d, j)
            BY <2>11, <2>16, <2>17, <4>5, <5>3
          <6>2. s2 <= s BY <6>1, Finite, FS_Subset
          <6>3. n2[j] = n[j] BY <2>12, <4>5, <5>3
          <6> HIDE DEF l, s, h, l2, s2, h2
          <6>4. n2[j] >= Own(j) + l2 + s2 + h2 BY <4>1, <4>2, <4>3, <5>1, <6>2, <6>3
          <6> QED BY <6>4 DEF l2, s2, h2
        <5> QED BY <5>2, <5>3
      <4>6. CASE j # ii /\ j # cc
        <5>1. l2 = l /\ n2[j] = n[j] BY <2>12, <2>17, <4>6
        <5>2. SubdirsIn(t2, e2, d2, j) \subseteq SubdirsIn(t, e, d, j) BY <2>16, <2>17, <4>6
        <5>3. s2 <= s BY <5>2, Finite, FS_Subset
        <5> HIDE DEF l, s, h, l2, s2, h2
        <5>4. n2[j] >= Own(j) + l2 + s2 + h2 BY <4>1, <4>2, <4>3, <5>1, <5>3
        <5> QED BY <5>4 DEF l2, s2, h2
      <4> QED BY <4>4, <4>5, <4>6
    <3> QED BY <3>1 DEF CountsOK
  <2>23. AheadOK(t2, pc', old')
    <3>1. ASSUME NEW q \in Proc, pc'[q] \in Counting
          PROVE  CountedOK(t2, pc'[q], old'[q])
      <4>1. q # p BY <2>20, <3>1 DEF Counting
      <4>2. pc[q] \in Counting /\ pc'[q] = pc[q] /\ old'[q] = old[q] BY <2>21, <3>1, <4>1
      <4>3. CountedOK(t, pc[q], old[q]) BY <2>6, <4>2 DEF IInv, Sound, AheadOK
      <4> QED BY <2>10, <2>11, <4>2, <4>3 DEF CountedOK
    <3> QED BY <3>1 DEF AheadOK
  <2>24. Sound(t2, n2, e2, d2, pc', old') BY <2>17, <2>22, <2>23 DEF Sound
  <2>25. \A j \in Inum : t[j] # "free" => t2[j] # "free" BY <2>10, <2>11
  <2>26. PlaceLive(t2, cwd', fd', p)
    <3>1. w \in Inum /\ t2[w] # "free" BY <2>6, <2>19, <2>18, <2>25, Here
    <3>2. f2 # NULL => t2[f2] # "free"
      <4>1. CASE f2 = ii BY <2>11, <4>1
      <4>2. CASE f2 = fd[p] BY <2>6, <2>19, <2>25, <4>2, Here DEF Inode0
      <4> QED BY <2>19, <4>1, <4>2
    <3> QED BY <2>20, <3>1, <3>2 DEF PlaceLive
  <2>27. \A q \in Proc \ {p} : /\ dp[q] # NULL => lock'[dp[q]] = q /\ e2[dp[q]] = entries[dp[q]]
                               /\ pc[q] = "unlinked" => lock'[ip[q]] = q
    <3>1. ASSUME NEW q \in Proc, dp[q] # NULL PROVE lock'[dp[q]] = q /\ e2[dp[q]] = entries[dp[q]]
      <4>1. lock[dp[q]] = q /\ dp[q] \in Inum /\ q # NULL BY <3>1, Here DEF NamesAssumption
      <4>2. dp[q] # cc BY <1>2, <2>5, <4>1
      <4> QED BY <1>1, <2>6, <2>11, <4>1, <4>2
    <3>2. ASSUME NEW q \in Proc, pc[q] = "unlinked" PROVE lock'[ip[q]] = q BY <1>1, <3>2, Here
    <3> QED BY <3>1, <3>2
  <2>28. Leaves(p, t2, e2) BY <1>1, <2>6, <2>20, <2>25, <2>26, <2>27, Here DEF Leaves
  <2> QED BY <2>8, <2>11, <2>12, <2>20, <2>24, <2>28, Step
<1> QED BY <1>5, <1>6, <1>7

-----------------------------------------------------------------------------
(* unlink *)

LEMMA UnlinkKeeps == ASSUME NamesAssumption, IInv, NEW p \in Proc, Unlink(p) PROVE IInv'
<1> DEFINE c == dp[p]
           i == ip[p]
           x == Head(rest[p])
<1>1. /\ c # NULL /\ Locks(p, "unlink", 1)
      /\ lock' \in {[lock EXCEPT ![c] = NULL], [lock EXCEPT ![c] = NULL, ![i] = p]}
      /\ panicked' = (nlink[i] < 1)
  BY DEF Unlink
<1>2. CallsTyped /\ InodesTyped(type, nlink, entries, dotdot) BY DEF IInv, Typed
<1>3. pc[p] = "unlink" /\ lock[i] = NULL /\ type[i] # "free" /\ i \in Inum BY <1>1, AtInode
<1>4. /\ c \in Inum /\ lock[c] = p /\ x \in Name /\ entries[c][x] = i /\ lock \in [Inum -> Proc \cup {NULL}]
      /\ \A q \in Proc : /\ dp[q] # NULL => lock[dp[q]] = q /\ dp[q] \in Inum
                         /\ pc[q] = "unlinked" => lock[ip[q]] = q /\ ip[q] \in Inum
  BY <1>1, Here
<1>5. i # c /\ NULL \notin Proc BY <1>3, <1>4 DEF NamesAssumption
<1>6. PICK cc \in Inum, xx \in Name, ii \in Inum : cc = c /\ xx = x /\ ii = i BY <1>3, <1>4
<1>7. /\ lock' \in [Inum -> Proc \cup {NULL}]
      /\ \A q \in Proc \ {p} : /\ dp[q] # NULL => lock'[dp[q]] = q /\ dp[q] \in Inum /\ dp[q] # cc
                               /\ pc[q] = "unlinked" => lock'[ip[q]] = q
  <2>1. \A q \in Proc \ {p} : /\ dp[q] # NULL => dp[q] \notin {c, i}
                              /\ pc[q] = "unlinked" => ip[q] \notin {c, i}
    BY <1>3, <1>4, <1>5
  <2>2. \A j \in Inum \ {c, i} : lock'[j] = lock[j] BY <1>1, <1>3, <1>4
  <2>3. lock' \in [Inum -> Proc \cup {NULL}] BY <1>1, <1>3, <1>4
  <2> QED BY <1>4, <1>6, <2>1, <2>2, <2>3
<1> HIDE DEF c, i, x
<1>8. PICK t \in [Inum -> Kinds], n \in [Inum -> Nat], e \in Tables, d \in [Inum -> Inode0] :
        t = type /\ n = nlink /\ e = entries /\ d = dotdot
  BY <1>2 DEF InodesTyped
<1>9. KindsOK(t, e, d) /\ EntriesOK(t, e) /\ OnePlace(t, e, d) /\ NoCycle(e) BY <1>8 DEF IInv, Sound
<1>10. e[cc][xx] = ii /\ ii # cc BY <1>4, <1>5, <1>6, <1>8
<1>11. PICK e2 : e2 = [e EXCEPT ![cc][xx] = NULL] OBVIOUS
<1>12. /\ Without(e, cc, xx, e2)
       /\ KindsOK(t, e2, d) /\ EntriesOK(t, e2) /\ OnePlace(t, e2, d) /\ NoCycle(e2)
       /\ <<cc, xx>> \in LinksIn(e, ii) /\ LinksIn(e2, ii) \subseteq LinksIn(e, ii) \ {<<cc, xx>>}
       /\ \A j \in Inum : LinksIn(e2, j) \subseteq LinksIn(e, j)
       /\ \A j \in Inum : SubdirsIn(t, e2, d, j) \subseteq SubdirsIn(t, e, d, j)
       /\ t[ii] = "dir" => /\ ii \in SubdirsIn(t, e, d, cc)
                           /\ SubdirsIn(t, e2, d, cc) \subseteq SubdirsIn(t, e, d, cc) \ {ii}
       /\ t[cc] = "dir" /\ ii # ROOTINO
  <2>1. Without(e, cc, xx, e2) BY <1>11 DEF Without, Tables, Inode0
  <2> QED BY <1>9, <1>10, <2>1, Removes
<1>15. nlink[i] >= 1
  <2> DEFINE l == Cardinality(LinksIn(e, ii))
             l2 == Cardinality(LinksIn(e2, ii))
             s == Cardinality(SubdirsIn(t, e, d, ii))
             h == Cardinality(AheadIn(pc, old, ii))
  <2>1. l \in Nat /\ l2 \in Nat /\ s \in Nat /\ h \in Nat /\ Own(ii) \in Nat BY Finite DEF Own
  <2>2. l2 + 1 <= l BY <1>12, Finite, Shrunk
  <2>3. n[ii] >= Own(ii) + l + s + h /\ n[ii] \in Nat BY <1>8 DEF IInv, Sound, CountsOK
  <2> HIDE DEF l, l2, s, h
  <2>4. n[ii] >= 1 BY <2>1, <2>2, <2>3
  <2> QED BY <1>6, <1>8, <2>4
<1>16. ~(nlink[i] < 1) /\ panicked' \in BOOLEAN
  <2>1. nlink[i] \in Nat BY <1>6, <1>8
  <2>2. ~(nlink[i] < 1) BY <1>15, <2>1
  <2> DEFINE b == nlink[i] < 1
  <2>3. panicked' = b /\ b \in BOOLEAN BY <1>1
  <2> QED BY <2>2, <2>3
<1>17. CASE type[i] = "dir" /\ entries[i] # NoEntries
  <2>1. Fail(p) BY <1>16, <1>17 DEF Unlink, i
  <2> QED BY <1>3, <1>7, <1>16, <2>1, FailKeeps
<1>18. CASE ~(type[i] = "dir" /\ entries[i] # NoEntries)
  <2>1. /\ lock' = [lock EXCEPT ![c] = NULL, ![i] = p]
        /\ Go(p, "unlinked", i, <<>>) /\ dp' = [dp EXCEPT ![p] = NULL] /\ old' = [old EXCEPT ![p] = i]
        /\ new' = new /\ cwd' = cwd /\ fd' = fd
        /\ Change({c}, type, [nlink EXCEPT ![c] = IF type[i] = "dir" THEN @ - 1 ELSE @],
                  [entries EXCEPT ![c][x] = NULL], dotdot)
    BY <1>16, <1>18 DEF Unlink, c, i, x
  <2>2. PICK n2 : n2 = [n EXCEPT ![cc] = IF t[ii] = "dir" THEN @ - 1 ELSE @] OBVIOUS
  <2>3. Change({cc}, t, n2, e2, d) BY <1>6, <1>8, <1>11, <2>1, <2>2
  <2>4. "unlinked" \in Places /\ <<>> \in Seq(Elem) /\ NULL \in Inode0 /\ ii \in Inode0
    BY DEF Places, Inode0
  <2>5. CallsTyped' BY <1>2, <1>6, <2>1, <2>4 DEF CallsTyped, Go
  <2>6. Moves(p) BY <1>2, <2>1, <2>5 DEF Moves, CallsTyped, Go
  <2>7. pc'[p] = "unlinked" /\ ip'[p] = ii /\ dp'[p] = NULL /\ old'[p] = ii
    BY <1>2, <1>6, <2>1 DEF CallsTyped, Go
  <2>8. lock'[ii] = p BY <1>4, <1>6, <2>1
  <2>9. CallOK(pc', ip', rest', dp', old', lock', e2, p) BY <2>7, <2>8, Root DEF CallOK
  <2>10. \A q \in Proc \ {p} : pc'[q] = pc[q] /\ old'[q] = old[q] BY <2>6 DEF Moves
  <2>11. \A j \in Inum :
           /\ n2[j] \in Nat
           /\ n2[j] >= Own(j) + Cardinality(LinksIn(e2, j)) + Cardinality(SubdirsIn(t, e2, d, j))
                         + Cardinality(AheadIn(pc', old', j))
    <3>1. ASSUME NEW j \in Inum
          PROVE  /\ n2[j] \in Nat
                 /\ n2[j] >= Own(j) + Cardinality(LinksIn(e2, j)) + Cardinality(SubdirsIn(t, e2, d, j))
                               + Cardinality(AheadIn(pc', old', j))
      <4> DEFINE l == Cardinality(LinksIn(e, j))
                 s == Cardinality(SubdirsIn(t, e, d, j))
                 h == Cardinality(AheadIn(pc, old, j))
                 l2 == Cardinality(LinksIn(e2, j))
                 s2 == Cardinality(SubdirsIn(t, e2, d, j))
                 h2 == Cardinality(AheadIn(pc', old', j))
      <4>1. l \in Nat /\ s \in Nat /\ h \in Nat /\ l2 \in Nat /\ s2 \in Nat /\ h2 \in Nat /\ Own(j) \in Nat
        BY Finite DEF Own
      <4>2. n[j] >= Own(j) + l + s + h /\ n[j] \in Nat BY <1>8 DEF IInv, Sound, CountsOK
      <4>3. n2[j] = IF j = cc /\ t[ii] = "dir" THEN n[j] - 1 ELSE n[j] BY <2>2
      <4>4. l2 <= l /\ s2 <= s BY <1>12, Finite, FS_Subset
      <4>5. j = cc /\ t[ii] = "dir" => s2 + 1 <= s BY <1>12, Finite, Shrunk
      <4>6. CASE j = ii
        <5>1. l2 + 1 <= l BY <1>12, <4>6, Finite, Shrunk
        <5>2. AheadIn(pc', old', j) \subseteq AheadIn(pc, old, j) \cup {p}
          BY <2>7, <2>10 DEF AheadIn, Counting
        <5>3. h2 <= h + 1 BY <5>2, Finite, Grown
        <5>4. n2[j] = n[j] BY <1>10, <4>3, <4>6
        <5> HIDE DEF l, s, h, l2, s2, h2
        <5>5. n2[j] \in Nat /\ n2[j] >= Own(j) + l2 + s2 + h2
          BY <4>1, <4>2, <4>4, <5>1, <5>3, <5>4
        <5> QED BY <5>5 DEF l2, s2, h2
      <4>7. CASE j # ii
        <5>1. AheadIn(pc', old', j) \subseteq AheadIn(pc, old, j)
          BY <2>7, <2>10, <4>7 DEF AheadIn, Counting
        <5>2. h2 <= h BY <5>1, Finite, FS_Subset
        <5> HIDE DEF l, s, h, l2, s2, h2
        <5>3. n2[j] \in Nat /\ n2[j] >= Own(j) + l2 + s2 + h2
          <6>1. CASE j = cc /\ t[ii] = "dir"
            <7>1. n2[j] = n[j] - 1 /\ s2 + 1 <= s BY <4>3, <4>5, <6>1
            <7> QED BY <4>1, <4>2, <4>4, <5>2, <7>1
          <6>2. CASE ~(j = cc /\ t[ii] = "dir")
            <7>1. n2[j] = n[j] BY <4>3, <6>2
            <7> QED BY <4>1, <4>2, <4>4, <5>2, <7>1
          <6> QED BY <6>1, <6>2
        <5> QED BY <5>3 DEF l2, s2, h2
      <4> QED BY <4>6, <4>7
    <3> QED BY <3>1
  <2>12. n2 \in [Inum -> Nat]
    <3>1. n2 = [j \in Inum |-> n2[j]] BY <2>2
    <3>2. \A j \in Inum : n2[j] \in Nat BY <2>11
    <3> QED BY <3>1, <3>2
  <2>13. CountsOK(t, n2, e2, d, pc', old') BY <2>11 DEF CountsOK
  <2>14. AheadOK(t, pc', old')
    <3>1. ASSUME NEW q \in Proc, pc'[q] \in Counting PROVE CountedOK(t, pc'[q], old'[q])
      <4>1. CASE q = p BY <1>3, <1>6, <1>8, <2>7, <4>1 DEF CountedOK
      <4>2. CASE q # p
        <5>1. pc'[q] = pc[q] /\ old'[q] = old[q] BY <2>10, <4>2
        <5> QED BY <1>8, <3>1, <5>1 DEF IInv, Sound, AheadOK
      <4> QED BY <4>1, <4>2
    <3> QED BY <3>1 DEF AheadOK
  <2>15. Sound(t, n2, e2, d, pc', old') BY <1>12, <2>13, <2>14 DEF Sound
  <2>16. PlaceLive(t, cwd', fd', p) BY <1>8, <2>1 DEF IInv, PlacesLive
  <2>17. Leaves(p, t, e2)
    BY <1>7, <1>8, <1>12, <1>16, <2>9, <2>16 DEF Leaves, Without
  <2>18. e2 \in Tables BY <1>12 DEF Without
  <2> QED BY <2>3, <2>6, <2>12, <2>15, <2>17, <2>18, Step
<1> QED BY <1>17, <1>18

LEMMA UnlinkDoneKeeps ==
  ASSUME NamesAssumption, IInv, NEW p \in Proc, UnlinkDone(p) PROVE IInv'
<1>1. /\ pc[p] = "unlinked" /\ lock' = [lock EXCEPT ![ip[p]] = NULL] /\ Return(p)
      /\ UNCHANGED <<panicked, cwd, fd>>
      /\ Change({ip[p]}, type, [nlink EXCEPT ![ip[p]] = @ - 1], entries, dotdot)
  BY DEF UnlinkDone
<1>2. old[p] = ip[p] /\ ip[p] \in Inum /\ lock[ip[p]] = p /\ pc[p] \in Counting
  BY <1>1, Here DEF Counting
<1>3. lock \in [Inum -> Proc \cup {NULL}]
      /\ \A q \in Proc : /\ dp[q] # NULL => lock[dp[q]] = q /\ dp[q] \in Inum
                         /\ pc[q] = "unlinked" => lock[ip[q]] = q /\ ip[q] \in Inum
  BY Here
<1>4. lock' \in [Inum -> Proc \cup {NULL}] BY <1>1, <1>3
<1>5. \A q \in Proc \ {p} : /\ dp[q] # NULL => lock'[dp[q]] = q
                            /\ pc[q] = "unlinked" => lock'[ip[q]] = q
  BY <1>1, <1>2, <1>3
<1> QED BY <1>1, <1>2, <1>4, <1>5, TakesBack

-----------------------------------------------------------------------------
(* The theorems *)

LEMMA NextKeeps == ASSUME NamesAssumption, IInv, [Next]_vars PROVE IInv'
<1>1. CASE Next
  <2>1. PICK p \in Proc :
          \/ \E what \in Calls, path \in Paths : Begin(p, what, path)
          \/ Walk(p) \/ Open(p) \/ Chdir(p) \/ Close(p) \/ Create(p) \/ CreateExists(p)
          \/ LinkCounts(p) \/ LinkEnters(p) \/ LinkUndone(p)
          \/ UnlinkFinds(p) \/ Unlink(p) \/ UnlinkDone(p) \/ Panic(p)
    BY <1>1 DEF Next
  <2>2. CASE \E what \in Calls, path \in Paths : Begin(p, what, path) BY <2>2, BeginKeeps
  <2>3. CASE Walk(p) BY <2>3, WalkKeeps
  <2>4. CASE Open(p) BY <2>4, OpenKeeps
  <2>5. CASE Chdir(p) BY <2>5, ChdirKeeps
  <2>6. CASE Close(p) BY <2>6, CloseKeeps
  <2>7. CASE Create(p) BY <2>7, CreateKeeps
  <2>8. CASE CreateExists(p) BY <2>8, CreateExistsKeeps
  <2>9. CASE LinkCounts(p) BY <2>9, LinkCountsKeeps
  <2>10. CASE LinkEnters(p) BY <2>10, LinkEntersKeeps
  <2>11. CASE LinkUndone(p) BY <2>11, LinkUndoneKeeps
  <2>12. CASE UnlinkFinds(p) BY <2>12, UnlinkFindsKeeps
  <2>13. CASE Unlink(p) BY <2>13, UnlinkKeeps
  <2>14. CASE UnlinkDone(p) BY <2>14, UnlinkDoneKeeps
  <2>15. CASE Panic(p) BY <2>15, PanicKeeps
  <2> QED BY <2>1, <2>2, <2>3, <2>4, <2>5, <2>6, <2>7, <2>8, <2>9, <2>10, <2>11, <2>12, <2>13, <2>14, <2>15
<1>2. CASE UNCHANGED vars
  <2>1. /\ pc' = pc /\ ip' = ip /\ rest' = rest /\ dp' = dp /\ old' = old /\ new' = new
        /\ cwd' = cwd /\ fd' = fd /\ lock' = lock /\ panicked' = panicked
        /\ type' = type /\ nlink' = nlink /\ entries' = entries /\ dotdot' = dotdot
    BY <1>2 DEF vars, call, inodes
  <2>2. Typed' BY <2>1 DEF IInv, Typed, CallsTyped, InodesTyped
  <2>3. Sound(type, nlink, entries, dotdot, pc, old)' BY <2>1 DEF IInv
  <2>4. CallsOK' /\ PlacesLive' BY <2>1 DEF IInv, CallsOK, PlacesLive
  <2> QED BY <2>2, <2>3, <2>4 DEF IInv
<1> QED BY <1>1, <1>2

\* The inodes, the entries and the counts agree, whatever the processes are in the middle
\* of: create, link, unlink, chdir and the walk of namex keep it, in any interleaving.
THEOREM Invariance == ASSUME NamesAssumption PROVE Spec => []IInv
<1>1. Init => IInv BY InitHolds
<1>2. IInv /\ [Next]_vars => IInv' BY NextKeeps
<1> QED BY <1>1, <1>2, PTL DEF Spec

\* An inode that has a name, or is a current directory or an open file, is not free, and
\* its count is never below the number of its names (iput frees at 0, and at once).
THEOREM LiveNames == ASSUME NamesAssumption PROVE Spec => []NamesLive
<1>1. ASSUME IInv PROVE NamesLive
  <2>1. ASSUME NEW i \in Inum
        PROVE  /\ Links(i) # {} \/ (\E p \in Proc : i \in {cwd[p], fd[p]}) => type[i] # "free"
               /\ nlink[i] >= Cardinality(Links(i)) + Cardinality(Subdirs(i)) + Cardinality(Ahead(i))
    <3>1. /\ \A j : Links(j) = LinksIn(entries, j)
          /\ Ahead(i) = AheadIn(pc, old, i)
      BY DEF Links, LinksIn, Ahead, AheadIn
    <3>2. Subdirs(i) = SubdirsIn(type, entries, dotdot, i) BY <3>1 DEF Subdirs, SubdirsIn
    <3>3. ASSUME NEW l \in Links(i) PROVE type[i] # "free"
      <4>1. l \in Inum \X Name /\ entries[l[1]][l[2]] = i BY <3>3 DEF Links
      <4> QED BY <1>1, <4>1, Root DEF IInv, Sound, EntriesOK
    <3>4. ASSUME NEW p \in Proc, i \in {cwd[p], fd[p]} PROVE type[i] # "free"
      <4>1. type[cwd[p]] # "free" /\ (fd[p] # NULL => type[fd[p]] # "free") BY <1>1, Here
      <4> QED BY <3>4, <4>1, Root
    <3> DEFINE l == Cardinality(Links(i))
               s == Cardinality(Subdirs(i))
               h == Cardinality(Ahead(i))
    <3>5. l \in Nat /\ s \in Nat /\ h \in Nat /\ Own(i) \in Nat BY <3>1, <3>2, Finite DEF Own
    <3>6. nlink[i] >= Own(i) + l + s + h BY <1>1, <3>1, <3>2 DEF IInv, Sound, CountsOK
    <3>7. nlink[i] \in Nat BY <1>1 DEF IInv, Typed, InodesTyped
    <3> HIDE DEF l, s, h
    <3>8. nlink[i] >= l + s + h BY <3>5, <3>6, <3>7
    <3> QED BY <3>3, <3>4, <3>8 DEF l, s, h
  <2> QED BY <2>1 DEF NamesLive
<1> QED BY <1>1, Invariance, PTL

\* A directory has one name at most, in the directory that its ".." names, and no two
\* processes in unlink wait for each other's directory.
THEOREM TreeOfDirectories == ASSUME NamesAssumption PROVE Spec => []DirectoriesFormTree
<1>1. ASSUME IInv PROVE DirectoriesFormTree
  <2>1. ASSUME NEW i \in Inum \ {ROOTINO}, type[i] = "dir", NEW l \in Links(i)
        PROVE  Links(i) = {l} /\ dotdot[i] = l[1]
    <3>1. Links(i) = LinksIn(entries, i) BY DEF Links, LinksIn
    <3> QED BY <1>1, <2>1, <3>1 DEF IInv, Sound, OnePlace
  <2>2. ASSUME NEW p \in Proc, NEW q \in Proc, dp[p] # NULL, dp[q] # NULL, ip[p] = dp[q], ip[q] = dp[p]
        PROVE  FALSE
    <3> DEFINE a == dp[p]
               b == dp[q]
    <3>1. /\ a \in Inum /\ Head(rest[p]) \in Name /\ entries[a][Head(rest[p])] = b
          /\ b \in Inum /\ Head(rest[q]) \in Name /\ entries[b][Head(rest[q])] = a
      BY <1>1, <2>2, Here
    <3>2. {a, b} \in SUBSET Inum /\ {a, b} # {} BY <3>1
    <3>3. NoCycle(entries) BY <1>1 DEF IInv, Sound
    <3>4. PICK i \in {a, b} : \A c \in {a, b}, x \in Name : entries[c][x] # i
      BY <3>2, <3>3 DEF NoCycle
    <3> QED BY <3>1, <3>4
  <2> QED BY <2>1, <2>2 DEF DirectoriesFormTree
<1> QED BY <1>1, Invariance, PTL

\* No directory is below itself: among any directories there is one that none of them
\* names, so no walk down comes back, and every chain of locks taken down the tree ends.
THEOREM NoCycles == ASSUME NamesAssumption PROVE Spec => []Acyclic
<1>1. IInv => Acyclic BY DEF IInv, Sound, Acyclic
<1> QED BY <1>1, Invariance, PTL
=============================================================================
