---------------------------- MODULE BuffersProofs ----------------------------
(***************************************************************************)
(* The buffer cache keeps each block in one buffer, leaks no buffer, loses *)
(* no wake-up, and to its callers is an array of registers                 *)
(* (BlockStore.tla), for any number of processes, blocks and buffers.      *)
(***************************************************************************)
EXTENDS Buffers, Integers, FiniteSetTheorems, SequenceTheorems, WellFoundedInduction, TLAPS

Places == {"idle", "acquire", "read", "write", "hold", "brelse"}

\* Whoever waits for the disk in iderw, or is about to call it.
Asks == {"read", "write"}

Buffer == [blockno : Block \cup {NONE}, valid : BOOLEAN, dirty : BOOLEAN, refcnt : Nat, data : Val]

Typed ==
  /\ buf \in [Buf -> Buffer] /\ lock \in [Buf -> Proc \cup {NONE}] /\ disk \in [Block -> Val]
  /\ queue \in Seq(Buf) /\ asleep \subseteq Proc /\ load \in Loads
  /\ pc \in [Proc -> Places] /\ has \in [Proc -> Buf \cup {NONE}]

\* The list has all the buffers.
ListOK == mru \in Seq(Buf) /\ Len(mru) = NBUF /\ \A b \in Buf : \E i \in Buf : mru[i] = b

Users(b) == {p \in Proc : has[p] = b}

\* Who is in bread, bwrite or brelse has a buffer, and the buffer a block.
UsersOK ==
  /\ \A p \in Proc : has[p] = NONE <=> pc[p] = "idle"
  /\ \A p \in Proc : pc[p] # "idle" => p \in load.procs
  /\ \A p \in Proc : has[p] # NONE => buf[has[p]].blockno # NONE
  /\ \A b \in Buf : buf[b].refcnt = Cardinality(Users(b))
  /\ \A b, c \in Buf : buf[b].blockno = buf[c].blockno /\ buf[b].blockno # NONE => b = c

LocksOK ==
  /\ \A p \in Proc : pc[p] \in Asks \cup {"hold"} => lock[has[p]] = p
  /\ \A b \in Buf : lock[b] # NONE => has[lock[b]] = b /\ pc[lock[b]] \in Asks \cup {"hold"}

\* A buffer that is not dirty says what is on the disk.
ContentsOK ==
  /\ \A b \in Buf : /\ buf[b].dirty => buf[b].valid
                    /\ buf[b].valid => buf[b].blockno # NONE
                    /\ buf[b].valid /\ ~buf[b].dirty => buf[b].data = disk[buf[b].blockno]
  /\ \A p \in Proc : /\ pc[p] \in {"hold", "write"} => buf[has[p]].valid
                     /\ pc[p] = "read" => ~buf[has[p]].dirty

\* The requests are those of the processes asleep in iderw, once each.
QueueOK ==
  /\ \A i, j \in 1 .. Len(queue) : queue[i] = queue[j] => i = j
  /\ \A i \in 1 .. Len(queue) : \E p \in asleep :
       /\ has[p] = queue[i] /\ pc[p] \in Asks
       /\ pc[p] = "read" => ~buf[queue[i]].valid
       /\ pc[p] = "write" => buf[queue[i]].dirty
  /\ drive = IF queue = <<>> THEN Idle ELSE Command(Head(queue))

SleepersOK == \A p \in asleep :
  /\ pc[p] \in Asks \cup {"acquire"}
  /\ IF pc[p] = "acquire" THEN lock[has[p]] # NONE ELSE Contains(queue, has[p])

\* What log.c has changed and not yet written.
Logged == {b \in Buf : buf[b].dirty /\ \A p \in Users(b) : pc[p] # "write"}
LoggedOK == Cardinality(Logged) <= load.dirty

IInv ==
  Typed /\ ListOK /\ UsersOK /\ LocksOK /\ ContentsOK /\ QueueOK /\ SleepersOK /\ LoggedOK

-----------------------------------------------------------------------------
(* The list of the buffers *)

\* A set of natural numbers that is not empty has a least one.
LEMMA LeastNatural ==
  ASSUME NEW T \in SUBSET Nat, T # {}
  PROVE  \E m \in T : \A x \in T : m <= x
<1> DEFINE R == OpToRel(<, Nat)
<1>1. IsWellFoundedOn(R, Nat) BY NatLessThanWellFounded
<1>2. \A x, m \in Nat : <<x, m>> \in R <=> x < m BY DEF OpToRel
<1> HIDE DEF R
<1>3. PICK m \in T : \A x \in T : ~ (<<x, m>> \in R) BY <1>1, WFMin
<1>4. T \subseteq Nat /\ m \in T OBVIOUS
<1>5. \A x \in T : ~ (x < m) BY <1>2, <1>3, <1>4
<1>6. \A x \in T : m <= x BY <1>4, <1>5
<1> QED BY <1>4, <1>6

\* The least recently used of some buffers is one of them.
LEMMA OldestIn ==
  ASSUME BuffersAssumption, ListOK, NEW S \in SUBSET Buf, S # {}
  PROVE  Oldest(S) \in S
<1> USE DEF Buf
<1>0. NBUF \in Nat BY DEF BuffersAssumption
<1> DEFINE T == {NBUF - i : i \in {j \in Buf : mru[j] \in S}}
<1>1. T \in SUBSET Nat BY <1>0
<1>2. T # {}
  <2>1. PICK b \in S : TRUE OBVIOUS
  <2>2. PICK i \in Buf : mru[i] = b BY <2>1 DEF ListOK
  <2>3. NBUF - i \in T BY <2>1, <2>2
  <2> QED BY <2>3
<1>3. PICK m \in T : \A x \in T : m <= x BY <1>1, <1>2, LeastNatural
<1>4. PICK i \in Buf : m = NBUF - i /\ mru[i] \in S OBVIOUS
<1>5. ASSUME NEW c \in S PROVE \E j \in Buf : mru[j] = c /\ i >= j
  <2>1. PICK j \in Buf : mru[j] = c BY DEF ListOK
  <2>2. NBUF - j \in T BY <2>1
  <2>3. NBUF - i <= NBUF - j BY <1>3, <1>4, <2>2
  <2> QED BY <1>0, <2>1, <2>3
<1> HIDE DEF T
<1>6. \A c \in S : \E k, j \in Buf : mru[k] = mru[i] /\ mru[j] = c /\ k >= j BY <1>5
<1>7. \E b \in S : \A c \in S : \E k, j \in Buf : mru[k] = b /\ mru[j] = c /\ k >= j BY <1>4, <1>6
<1> QED BY <1>7 DEF Oldest

\* Moved to the front, a buffer is still in the list, and so are the others.
LEMMA MovedToFront ==
  ASSUME BuffersAssumption, ListOK, NEW b \in Buf
  PROVE  LET m == <<b>> \o RemoveAt(mru, Place(b))
         IN  m \in Seq(Buf) /\ Len(m) = NBUF /\ \A c \in Buf : \E i \in Buf : m[i] = c
<1> DEFINE k == Place(b)
           s == SubSeq(mru, 1, k - 1)
           t == SubSeq(mru, k + 1, Len(mru))
           r == s \o t
           m == <<b>> \o r
<1>0. NBUF \in Nat BY DEF BuffersAssumption
<1>1. k \in 1 .. NBUF /\ mru[k] = b
  <2>1. \E i \in Buf : mru[i] = b BY DEF ListOK
  <2> QED BY <2>1 DEF Place, Buf
<1>2. mru \in Seq(Buf) /\ Len(mru) = NBUF /\ \A i \in 1 .. NBUF : mru[i] \in Buf
  BY LenProperties DEF ListOK
<1> HIDE DEF k
<1>3. s \in Seq(Buf) /\ Len(s) = k - 1 /\ \A i \in 1 .. k - 1 : s[i] = mru[i]
  <2>1. \A i \in 1 .. k - 1 : mru[i] \in Buf BY <1>1, <1>2
  <2> HIDE DEF Buf
  <2>2. /\ s \in Seq(Buf) /\ Len(s) = IF 1 <= k - 1 THEN (k - 1) - 1 + 1 ELSE 0
        /\ \A i \in 1 .. (k - 1) - 1 + 1 : s[i] = mru[1 + i - 1]
    <3>1. 1 \in Int /\ k - 1 \in Int BY <1>1
    <3> QED BY ONLY <2>1, <3>1, SubSeqProperties
  <2>3. \A i \in 1 .. k - 1 : i \in 1 .. (k - 1) - 1 + 1 /\ 1 + i - 1 = i BY <1>1
  <2> QED BY <1>1, <2>2, <2>3
<1>4. t \in Seq(Buf) /\ Len(t) = NBUF - k /\ \A i \in 1 .. NBUF - k : t[i] = mru[k + i]
  <2>1. \A i \in k + 1 .. NBUF : mru[i] \in Buf BY <1>1, <1>2
  <2>2. /\ t \in Seq(Buf) /\ Len(t) = IF k + 1 <= NBUF THEN NBUF - (k + 1) + 1 ELSE 0
        /\ \A i \in 1 .. NBUF - (k + 1) + 1 : t[i] = mru[(k + 1) + i - 1]
    <3>1. NBUF \in Int /\ k + 1 \in Int BY <1>0, <1>1
    <3> QED BY ONLY <1>2, <2>1, <3>1, SubSeqProperties
  <2>3. \A i \in 1 .. NBUF - k : i \in 1 .. NBUF - (k + 1) + 1 /\ (k + 1) + i - 1 = k + i
    BY <1>0, <1>1
  <2> QED BY <1>0, <1>1, <2>2, <2>3
<1> HIDE DEF s, t
<1>5. /\ r \in Seq(Buf) /\ Len(r) = NBUF - 1
      /\ \A i \in 1 .. NBUF - 1 : r[i] = IF i <= k - 1 THEN mru[i] ELSE mru[i + 1]
  <2>1. /\ r \in Seq(Buf) /\ Len(r) = Len(s) + Len(t)
        /\ \A i \in 1 .. Len(s) + Len(t) : r[i] = IF i <= Len(s) THEN s[i] ELSE t[i - Len(s)]
    BY ONLY <1>3, <1>4, ConcatProperties
  <2>2. Len(s) + Len(t) = NBUF - 1 BY <1>0, <1>1, <1>3, <1>4
  <2>3. ASSUME NEW i \in 1 .. NBUF - 1, i <= k - 1 PROVE r[i] = mru[i]
    <3>1. i \in 1 .. k - 1 /\ i <= Len(s) BY <1>1, <1>3, <2>3
    <3>2. r[i] = s[i] BY ONLY <2>1, <2>2, <3>1, i \in 1 .. NBUF - 1
    <3> QED BY ONLY <1>3, <3>1, <3>2
  <2>4. ASSUME NEW i \in 1 .. NBUF - 1, ~(i <= k - 1) PROVE r[i] = mru[i + 1]
    <3>1. i - (k - 1) \in 1 .. NBUF - k /\ k + (i - (k - 1)) = i + 1 BY <1>0, <1>1, <2>4
    <3>2. r[i] = t[i - (k - 1)] BY ONLY <1>3, <2>1, <2>2, <2>4
    <3> QED BY ONLY <1>4, <3>1, <3>2
  <2> QED BY <2>1, <2>2, <2>3, <2>4
<1> HIDE DEF r
<1>6. /\ m \in Seq(Buf) /\ Len(m) = NBUF
      /\ m[1] = b /\ \A i \in 1 .. NBUF - 1 : m[i + 1] = r[i]
  <2>1. <<b>> \in Seq(Buf) /\ Len(<<b>>) = 1 /\ <<b>>[1] = b OBVIOUS
  <2>2. /\ m \in Seq(Buf) /\ Len(m) = 1 + Len(r)
        /\ \A i \in 1 .. 1 + Len(r) : m[i] = IF i <= 1 THEN <<b>>[i] ELSE r[i - 1]
    BY ONLY <1>5, <2>1, ConcatProperties
  <2>3. \A i \in 1 .. NBUF - 1 : i + 1 \in 1 .. 1 + Len(r) /\ ~(i + 1 <= 1) /\ (i + 1) - 1 = i
    BY <1>0, <1>5
  <2>4. 1 \in 1 .. 1 + Len(r) /\ 1 + Len(r) = NBUF BY <1>0, <1>1, <1>5
  <2> QED BY ONLY <2>1, <2>2, <2>3, <2>4
<1>7. ASSUME NEW c \in Buf PROVE \E i \in Buf : m[i] = c
  <2>1. PICK j \in 1 .. NBUF : mru[j] = c BY DEF ListOK, Buf
  <2>2. CASE j < k
    <3>1. j \in 1 .. NBUF - 1 /\ j <= k - 1 /\ j + 1 \in 1 .. NBUF BY <1>0, <1>1, <2>2
    <3>2. m[j + 1] = c BY ONLY <1>5, <1>6, <2>1, <3>1
    <3> QED BY <3>1, <3>2 DEF Buf
  <2>3. CASE j = k BY <1>0, <1>1, <1>6, <2>1, <2>3 DEF Buf
  <2>4. CASE j > k
    <3>1. j - 1 \in 1 .. NBUF - 1 /\ ~(j - 1 <= k - 1) /\ (j - 1) + 1 = j BY <1>0, <1>1, <2>4
    <3>2. m[j] = c BY ONLY <1>5, <1>6, <2>1, <3>1
    <3> QED BY <3>2 DEF Buf
  <2>5. j < k \/ j = k \/ j > k BY ONLY <1>0, <1>1, j \in 1 .. NBUF
  <2> QED BY ONLY <2>2, <2>3, <2>4, <2>5
<1> HIDE DEF m
<1>8. m \in Seq(Buf) /\ Len(m) = NBUF /\ \A c \in Buf : \E i \in Buf : m[i] = c BY <1>6, <1>7
<1> QED BY ONLY <1>8 DEF m, r, s, t, k, RemoveAt

-----------------------------------------------------------------------------
(* Where nothing changes *)

\* A process that is not idle has a buffer of some block.
LEMMA HasBuffer ==
  ASSUME BuffersAssumption, IInv, NEW p \in Proc, pc[p] # "idle"
  PROVE  /\ has[p] \in Buf /\ has[p] # NONE /\ p \in load.procs /\ p \in Users(has[p])
         /\ buf[has[p]].blockno \in Block /\ buf[has[p]] \in Buffer
BY DEF IInv, Typed, UsersOK, Users, Buffer

\* As many processes use a buffer as are counted: none of a buffer that has no references.
LEMMA FiniteUsers ==
  ASSUME BuffersAssumption, IInv, NEW b \in Buf
  PROVE  /\ IsFiniteSet(Users(b)) /\ buf[b].refcnt \in 0 .. Cardinality(Proc)
         /\ buf[b].refcnt = 0 <=> Users(b) = {}
<1>1. IsFiniteSet(Proc) /\ Users(b) \in SUBSET Proc BY DEF BuffersAssumption, Users
<1>2. IsFiniteSet(Users(b)) /\ Cardinality(Users(b)) <= Cardinality(Proc) BY <1>1, FS_Subset
<1>3. Cardinality(Users(b)) \in Nat /\ Cardinality(Proc) \in Nat BY <1>1, <1>2, FS_CardinalityType
<1>4. Cardinality(Users(b)) = 0 <=> Users(b) = {} BY <1>2, FS_EmptySet
<1> QED BY <1>2, <1>3, <1>4 DEF IInv, UsersOK

\* A buffer in the queue is that of a process asleep in iderw, which nobody else holds.
LEMMA Queued ==
  ASSUME IInv, NEW i \in 1 .. Len(queue)
  PROVE  /\ queue[i] \in Buf
         /\ \E p \in Proc : p \in asleep /\ has[p] = queue[i] /\ pc[p] \in Asks /\ lock[queue[i]] = p
<1>1. queue[i] \in Buf BY ElementOfSeq DEF IInv, Typed
<1> QED BY <1>1 DEF IInv, Typed, QueueOK, LocksOK

\* A step that changes neither who uses which buffer nor which block a buffer has.
LEMMA UsersStay ==
  ASSUME UsersOK, has' = has, load' = load,
         \A p \in Proc : pc'[p] = "idle" <=> pc[p] = "idle",
         \A b \in Buf : buf'[b].blockno = buf[b].blockno /\ buf'[b].refcnt = buf[b].refcnt,
         Typed
  PROVE  UsersOK'
<1>1. \A b : Users(b)' = Users(b) BY DEF Users
<1>2. \A p \in Proc : has[p] # NONE => has[p] \in Buf BY DEF Typed
<1> QED BY <1>1, <1>2 DEF UsersOK

\* A step that leaves the requests, and those who wait for them, as they are.
LEMMA QueueStays ==
  ASSUME IInv, queue' = queue, drive' = drive,
         \A p \in asleep : pc[p] \in Asks => p \in asleep' /\ pc'[p] = pc[p] /\ has'[p] = has[p],
         \A p \in asleep : pc[p] \in Asks =>
           /\ buf'[has[p]].blockno = buf[has[p]].blockno /\ buf'[has[p]].data = buf[has[p]].data
           /\ buf'[has[p]].valid = buf[has[p]].valid /\ buf'[has[p]].dirty = buf[has[p]].dirty
  PROVE  QueueOK'
<1>1. ASSUME NEW i \in 1 .. Len(queue)
      PROVE  /\ Command(queue[i])' = Command(queue[i])
             /\ \E p \in asleep' :
                  /\ has'[p] = queue[i] /\ pc'[p] \in Asks
                  /\ pc'[p] = "read" => ~buf'[queue[i]].valid
                  /\ pc'[p] = "write" => buf'[queue[i]].dirty
  <2>1. PICK p \in asleep : /\ has[p] = queue[i] /\ pc[p] \in Asks
                            /\ pc[p] = "read" => ~buf[queue[i]].valid
                            /\ pc[p] = "write" => buf[queue[i]].dirty
    BY DEF IInv, QueueOK
  <2> QED BY <2>1 DEF Command
<1>2. queue # <<>> => 1 \in 1 .. Len(queue) /\ Head(queue) = queue[1]
  <2>1. queue # <<>> => Len(queue) \in Nat \ {0} BY EmptySeq DEF IInv, Typed
  <2> QED BY <2>1
<1>3. queue # <<>> => Command(Head(queue))' = Command(Head(queue)) BY <1>1, <1>2
<1> QED BY <1>1, <1>3 DEF IInv, QueueOK

\* A step that leaves no more buffers dirty for log.c to write.
LEMMA LoggedLess ==
  ASSUME BuffersAssumption, LoggedOK, Typed, load' = load, Logged' \subseteq Logged
  PROVE  LoggedOK'
<1>1. IsFiniteSet(Logged)
  <2>1. IsFiniteSet(Buf) BY FS_Interval DEF Buf, BuffersAssumption
  <2> QED BY <2>1, FS_Subset DEF Logged
<1>2. Cardinality(Logged') <= Cardinality(Logged) BY <1>1, FS_Subset
<1>3. Cardinality(Logged) \in Nat /\ Cardinality(Logged') \in Nat
  BY <1>1, FS_Subset, FS_CardinalityType
<1>4. load.dirty \in Nat BY DEF Typed, BuffersAssumption
<1> QED BY <1>2, <1>3, <1>4 DEF LoggedOK

-----------------------------------------------------------------------------
(* bget *)

\* When no buffer is free, processes use as many as log.c does not keep (bio.c:92).
LEMMA AllNeeded ==
  ASSUME BuffersAssumption, IInv, Free = {}
  PROVE  NBUF <= Cardinality({q \in Proc : has[q] # NONE}) + load.dirty
<1> DEFINE P == {q \in Proc : has[q] # NONE}
           U == {has[q] : q \in P}
<1>1. load.dirty \in Nat /\ NBUF \in Nat /\ IsFiniteSet(Proc)
  BY DEF BuffersAssumption, IInv, Typed
<1>3. IsFiniteSet(P) BY <1>1, FS_Subset
<1>4. IsFiniteSet(U) /\ Cardinality(U) <= Cardinality(P)
  <2> DEFINE f == [q \in P |-> has[q]]
  <2>1. f \in Surjection(P, U) BY DEF Surjection
  <2> QED BY ONLY <1>3, <2>1, FS_Surjection
<1>5. IsFiniteSet(Buf) /\ Cardinality(Buf) = NBUF BY <1>1, FS_Interval DEF Buf
<1>6. IsFiniteSet(Logged) BY <1>5, FS_Subset DEF Logged
<1>7. Buf \subseteq U \cup Logged
  <2> SUFFICES ASSUME NEW b \in Buf, b \notin U PROVE b \in Logged OBVIOUS
  <2>2. Users(b) = {}
    <3> SUFFICES ASSUME NEW q \in Users(b) PROVE FALSE OBVIOUS
    <3>1. q \in Proc /\ has[q] = b /\ b # NONE BY DEF Users, BuffersAssumption, Buf
    <3> QED BY <3>1
  <2>3. buf[b].refcnt = 0 BY <2>2, FiniteUsers
  <2>4. buf[b].dirty BY <2>3 DEF Free
  <2> QED BY <2>2, <2>4 DEF Logged
<1> HIDE DEF P, U
<1>8. /\ IsFiniteSet(U \cup Logged)
      /\ Cardinality(U \cup Logged) = Cardinality(U) + Cardinality(Logged) - Cardinality(U \cap Logged)
  BY ONLY <1>4, <1>6, FS_Union
<1>9. Cardinality(Buf) <= Cardinality(U \cup Logged) BY ONLY <1>7, <1>8, FS_Subset
<1>10. IsFiniteSet(U \cap Logged) BY ONLY <1>6, FS_Subset
<1>11. /\ Cardinality(U) \in Nat /\ Cardinality(Logged) \in Nat /\ Cardinality(U \cap Logged) \in Nat
       /\ Cardinality(P) \in Nat
  BY ONLY <1>3, <1>4, <1>6, <1>10, FS_CardinalityType
<1>12. Cardinality(Logged) <= load.dirty BY DEF IInv, LoggedOK
<1>13. NBUF <= Cardinality(P) + load.dirty
  BY ONLY <1>1, <1>4, <1>5, <1>8, <1>9, <1>11, <1>12
<1> QED BY <1>13 DEF P

\* bget: a reference more to the buffer of the block, or another block in one that nobody uses.
LEMMA BgetKeeps ==
  ASSUME BuffersAssumption, IInv, NEW p \in Proc, NEW n \in Block, Bget(p, n)
  PROVE  IInv'
<1>1. PICK b \in Buf :
        /\ b \in IF Cached(n) # {} THEN Cached(n) ELSE {Oldest(Free)}
        /\ buf' = IF Cached(n) # {} THEN [buf EXCEPT ![b].refcnt = @ + 1]
                  ELSE [buf EXCEPT ![b].blockno = n, ![b].valid = FALSE, ![b].dirty = FALSE,
                                   ![b].refcnt = 1]
        /\ has' = [has EXCEPT ![p] = b]
  <2>1. Free \in SUBSET Buf /\ Cached(n) \in SUBSET Buf BY DEF Free, Cached
  <2>2. Cached(n) = {} => Oldest(Free) \in Free
    <3>1. ListOK BY DEF IInv
    <3>2. Cached(n) = {} => Free # {} BY DEF Bget, OutOfBuffers
    <3> QED BY ONLY <2>1, <3>1, <3>2, BuffersAssumption, OldestIn
  <2> QED BY <2>1, <2>2 DEF Bget
<1>2. /\ pc[p] = "idle" /\ p \notin asleep /\ p \in load.procs /\ has[p] = NONE
      /\ pc' = [pc EXCEPT ![p] = "acquire"]
      /\ UNCHANGED <<mru, lock, queue, drive, disk, asleep, load>>
  BY DEF Bget, At, Go, IInv, UsersOK
<1>3. Typed /\ ListOK /\ UsersOK /\ LocksOK /\ ContentsOK /\ QueueOK /\ SleepersOK /\ LoggedOK BY DEF IInv
<1>4. n # NONE /\ NONE \notin Buf BY DEF BuffersAssumption, Buf
\* Either a reference more, or another block in a buffer that nobody uses.
<1>5. \/ /\ buf[b].blockno = n
         /\ buf' = [buf EXCEPT ![b].refcnt = @ + 1]
      \/ /\ Cached(n) = {} /\ Users(b) = {} /\ buf[b].refcnt = 0 /\ ~buf[b].dirty
         /\ buf' = [buf EXCEPT ![b].blockno = n, ![b].valid = FALSE, ![b].dirty = FALSE, ![b].refcnt = 1]
  <2>1. CASE Cached(n) # {}
    <3>1. b \in Cached(n) /\ buf' = [buf EXCEPT ![b].refcnt = @ + 1] BY ONLY <1>1, <2>1
    <3> QED BY <3>1 DEF Cached
  <2>2. CASE Cached(n) = {}
    <3>1. Free # {} /\ Free \in SUBSET Buf BY <2>2 DEF Bget, OutOfBuffers, Free
    <3>2. Oldest(Free) \in Free BY ONLY <1>3, <3>1, BuffersAssumption, OldestIn
    <3>3. b \in Free BY <1>1, <2>2, <3>2
    <3> QED BY <1>1, <2>2, <3>3, FiniteUsers DEF Free
  <2> QED BY <2>1, <2>2
<1>6. buf[b] \in Buffer /\ buf[b].refcnt \in Nat BY <1>3 DEF Typed, Buffer
<1>7. \A c \in Buf \ {b} : buf'[c] = buf[c] BY <1>5, <1>3 DEF Typed
<1>8. /\ buf'[b] \in Buffer /\ buf'[b].blockno = n /\ buf'[b].refcnt = buf[b].refcnt + 1
      /\ buf'[b].dirty = buf[b].dirty
      /\ \/ buf[b].blockno = n /\ buf'[b].valid = buf[b].valid /\ buf'[b].data = buf[b].data
         \/ Cached(n) = {} /\ Users(b) = {} /\ ~buf'[b].valid /\ ~buf'[b].dirty
  <2>1. buf \in [Buf -> Buffer] BY <1>3 DEF Typed
  <2>2. CASE /\ buf[b].blockno = n
             /\ buf' = [buf EXCEPT ![b].refcnt = @ + 1]
    <3>1. buf'[b] = [buf[b] EXCEPT !.refcnt = @ + 1] BY ONLY <2>1, <2>2, b \in Buf
    <3> QED BY ONLY <1>6, <2>2, <3>1 DEF Buffer
  <2>3. CASE /\ Cached(n) = {} /\ Users(b) = {} /\ buf[b].refcnt = 0 /\ ~buf[b].dirty
             /\ buf' = [buf EXCEPT ![b].blockno = n, ![b].valid = FALSE, ![b].dirty = FALSE, ![b].refcnt = 1]
    <3>1. buf'[b] = [buf[b] EXCEPT !.blockno = n, !.valid = FALSE, !.dirty = FALSE, !.refcnt = 1]
      BY ONLY <2>1, <2>3, b \in Buf
    <3>2. /\ buf'[b].blockno = n /\ ~buf'[b].valid /\ ~buf'[b].dirty
          /\ buf'[b].refcnt = 1 /\ buf'[b] \in Buffer
      <4>1. buf[b] = [blockno |-> buf[b].blockno, valid |-> buf[b].valid, dirty |-> buf[b].dirty,
                      refcnt |-> buf[b].refcnt, data |-> buf[b].data] /\ buf[b].data \in Val
        BY ONLY <1>6 DEF Buffer
      <4>2. buf'[b] = [blockno |-> n, valid |-> FALSE, dirty |-> FALSE, refcnt |-> 1, data |-> buf[b].data]
        BY ONLY <3>1, <4>1
      <4>3. buf'[b] \in Buffer BY ONLY <4>1, <4>2, n \in Block DEF Buffer
      <4> QED BY ONLY <4>2, <4>3
    <3>3. buf[b].dirty \in BOOLEAN /\ ~buf[b].dirty /\ buf'[b].dirty \in BOOLEAN
      BY ONLY <1>6, <2>3, <3>2 DEF Buffer
    <3>4. buf'[b].dirty = buf[b].dirty BY ONLY <3>2, <3>3, Zenon
    <3>5. buf'[b].refcnt = buf[b].refcnt + 1 BY ONLY <2>3, <3>2
    <3> QED BY ONLY <2>3, <3>2, <3>4, <3>5
  <2> QED BY ONLY <1>5, <2>2, <2>3
<1>9. \A c \in Buf : Users(c)' = IF c = b THEN Users(c) \cup {p} ELSE Users(c)
  BY <1>1, <1>2, <1>3, <1>4 DEF Users, Typed
<1>10. buf' \in [Buf -> Buffer]
  <2>1. buf' = [c \in Buf |-> buf'[c]] BY <1>1, <1>3 DEF Typed
  <2>2. \A c \in Buf : buf'[c] \in Buffer BY <1>3, <1>7, <1>8 DEF Typed
  <2> QED BY <2>1, <2>2
<1>11. Typed' BY <1>1, <1>2, <1>3, <1>10 DEF Typed, Places
<1>12. ListOK' BY <1>2, <1>3 DEF ListOK
<1>13. UsersOK'
  <2>1. /\ \A q \in Proc : has'[q] = IF q = p THEN b ELSE has[q]
        /\ \A q \in Proc : pc'[q] = IF q = p THEN "acquire" ELSE pc[q]
    BY <1>1, <1>2, <1>3 DEF Typed
  <2>2. \A q \in Proc : has'[q] = NONE <=> pc'[q] = "idle" BY <1>3, <1>4, <2>1 DEF UsersOK
  <2>3. \A q \in Proc : pc'[q] # "idle" => q \in load'.procs BY <1>2, <1>3, <2>1 DEF UsersOK
  <2>4. \A q \in Proc : has'[q] # NONE => buf'[has'[q]].blockno # NONE
    <3>1. \A q \in Proc : has[q] \in Buf \cup {NONE} BY <1>3 DEF Typed
    <3> QED BY <1>3, <1>4, <1>7, <1>8, <2>1, <3>1 DEF UsersOK
  <2>5. ASSUME NEW c \in Buf PROVE buf'[c].refcnt = Cardinality(Users(c)')
    <3>1. IsFiniteSet(Users(c)) /\ p \notin Users(c) BY <1>2, <1>4, FiniteUsers DEF Users
    <3>2. Cardinality(Users(c) \cup {p}) = Cardinality(Users(c)) + 1 BY <3>1, FS_AddElement
    <3>3. buf[c].refcnt = Cardinality(Users(c)) BY <1>3 DEF UsersOK
    <3> QED BY <1>7, <1>8, <1>9, <3>2, <3>3
  <2>6. ASSUME NEW c \in Buf, NEW d \in Buf, buf'[c].blockno = buf'[d].blockno, buf'[c].blockno # NONE
        PROVE  c = d
    <3>1. ASSUME NEW e \in Buf, e # b, buf[e].blockno = n PROVE FALSE
      BY <1>3, <1>4, <1>8, <3>1 DEF UsersOK, Cached
    <3> QED BY <1>3, <1>7, <1>8, <2>6, <3>1 DEF UsersOK
  <2> QED BY <2>2, <2>3, <2>4, <2>5, <2>6 DEF UsersOK
<1>14. LocksOK'
  <2>1. \A q \in Proc \ {p} : has'[q] = has[q] /\ pc'[q] = pc[q] BY <1>1, <1>2, <1>3 DEF Typed
  <2>2. pc'[p] = "acquire" BY <1>2, <1>3 DEF Typed
  <2>3. \A c \in Buf : lock[c] # NONE => lock[c] \in Proc \ {p}
    BY <1>2, <1>3 DEF LocksOK, Typed, Asks
  <2> QED BY <1>2, <1>3, <2>1, <2>2, <2>3 DEF LocksOK, Asks
<1>15. ContentsOK'
  <2>1. \A q \in Proc \ {p} : has'[q] = has[q] /\ pc'[q] = pc[q] BY <1>1, <1>2, <1>3 DEF Typed
  <2>2. pc'[p] = "acquire" BY <1>2, <1>3 DEF Typed
  <2>3. \A q \in Proc : pc[q] # "idle" => has[q] \in Buf /\ q \in Users(has[q]) BY HasBuffer
  <2>4. ASSUME NEW q \in Proc, pc'[q] \in {"hold", "write", "read"}
        PROVE /\ pc'[q] \in {"hold", "write"} => buf'[has'[q]].valid
              /\ pc'[q] = "read" => ~buf'[has'[q]].dirty
    <3>1. q # p /\ pc[q] = pc'[q] /\ has'[q] = has[q] /\ has[q] \in Buf /\ q \in Users(has[q])
      BY <2>1, <2>2, <2>3, <2>4
    <3> QED BY <1>3, <1>7, <1>8, <3>1 DEF ContentsOK
  <2>5. \A c \in Buf : /\ buf'[c].dirty => buf'[c].valid
                       /\ buf'[c].valid => buf'[c].blockno # NONE
                       /\ buf'[c].valid /\ ~buf'[c].dirty => buf'[c].data = disk'[buf'[c].blockno]
    BY <1>2, <1>3, <1>4, <1>7, <1>8 DEF ContentsOK
  <2> QED BY <2>4, <2>5 DEF ContentsOK
<1>16. QueueOK'
  <2>1. ASSUME NEW q \in asleep, pc[q] \in Asks
        PROVE  /\ q \in asleep' /\ pc'[q] = pc[q] /\ has'[q] = has[q]
               /\ buf'[has[q]].blockno = buf[has[q]].blockno /\ buf'[has[q]].data = buf[has[q]].data
               /\ buf'[has[q]].valid = buf[has[q]].valid /\ buf'[has[q]].dirty = buf[has[q]].dirty
    <3>1. q \in Proc /\ q # p BY <1>2, <1>3, <2>1 DEF Typed
    <3>2. pc'[q] = pc[q] /\ has'[q] = has[q] BY <1>1, <1>2, <1>3, <3>1 DEF Typed
    <3>3. has[q] \in Buf /\ q \in Users(has[q]) BY <2>1, <3>1, HasBuffer DEF Asks
    <3> QED BY <1>2, <1>7, <1>8, <2>1, <3>2, <3>3
  <2> QED BY <1>2, <2>1, QueueStays
<1>17. SleepersOK'
  <2>1. \A q \in asleep : q \in Proc /\ has'[q] = has[q] /\ pc'[q] = pc[q]
    BY <1>1, <1>2, <1>3 DEF Typed
  <2> QED BY <1>2, <1>3, <2>1 DEF SleepersOK
<1>18. LoggedOK'
  <2>1. \A q \in Proc \ {p} : pc'[q] = pc[q] BY <1>2, <1>3 DEF Typed
  <2>2. \A c \in Buf : buf'[c].dirty = buf[c].dirty BY <1>7, <1>8
  <2>3. pc'[p] = "acquire" BY <1>2, <1>3 DEF Typed
  <2>4. ASSUME NEW c \in Logged' PROVE c \in Logged
    <3>1. c \in Buf /\ buf[c].dirty BY <2>2 DEF Logged
    <3>2. ASSUME NEW q \in Users(c) PROVE pc[q] # "write"
      <4>1. q \in Users(c)' /\ q \in Proc BY <1>9, <3>1 DEF Users
      <4>2. pc'[q] # "write" BY <4>1 DEF Logged
      <4> QED BY <1>2, <2>1, <4>1, <4>2
    <3> QED BY <3>1, <3>2 DEF Logged
  <2> QED BY <1>2, <1>3, <2>4, LoggedLess
<1> QED BY <1>11, <1>12, <1>13, <1>14, <1>15, <1>16, <1>17, <1>18 DEF IInv

-----------------------------------------------------------------------------
(* acquiresleep, iderw *)

\* acquiresleep: the process holds the lock, or sleeps for whoever does.
LEMMA AcquireSleepKeeps ==
  ASSUME BuffersAssumption, IInv, NEW p \in Proc, AcquireSleep(p)
  PROVE  IInv'
<1> DEFINE b == has[p]
<1>1. /\ pc[p] = "acquire" /\ p \notin asleep
      /\ UNCHANGED <<buf, mru, queue, drive, disk, has, load>>
  BY DEF AcquireSleep, At
<1>2. b \in Buf /\ b # NONE /\ p \in load.procs BY <1>1, HasBuffer
<1>3. Typed /\ ListOK /\ UsersOK /\ LocksOK /\ ContentsOK /\ QueueOK /\ SleepersOK /\ LoggedOK BY DEF IInv
<1>4. ListOK' BY <1>1, <1>3 DEF ListOK
<1>5. CASE lock[b] # NONE
  <2>1. asleep' = asleep \cup {p} /\ lock' = lock /\ pc' = pc BY <1>5 DEF AcquireSleep
  <2>2. Typed' BY <1>1, <1>3, <2>1 DEF Typed
  <2>3. UsersOK' BY <1>1, <1>3, <2>1 DEF UsersOK, Users
  <2>4. LocksOK' BY <1>1, <1>3, <2>1 DEF LocksOK
  <2>5. ContentsOK' BY <1>1, <1>3, <2>1 DEF ContentsOK
  <2>6. QueueOK' BY <1>1, <1>3, <2>1 DEF QueueOK, Command
  <2>7. SleepersOK' BY <1>1, <1>3, <1>5, <2>1 DEF SleepersOK
  <2>8. LoggedOK' BY <1>1, <1>3, <2>1 DEF LoggedOK, Logged, Users
  <2> QED BY <1>4, <2>2, <2>3, <2>4, <2>5, <2>6, <2>7, <2>8 DEF IInv
<1>6. CASE lock[b] = NONE
  <2>1. /\ lock' = [lock EXCEPT ![b] = p] /\ asleep' = asleep
        /\ pc' = [pc EXCEPT ![p] = IF buf[b].valid THEN "hold" ELSE "read"]
    BY <1>6 DEF AcquireSleep, Go
  <2>2. /\ \A q \in Proc \ {p} : pc'[q] = pc[q]
        /\ pc'[p] \in {"hold", "read"} /\ (pc'[p] = "hold" <=> buf[b].valid)
        /\ \A c \in Buf : lock'[c] = IF c = b THEN p ELSE lock[c]
    BY <1>2, <1>3, <2>1 DEF Typed
  <2>3. Typed' BY <1>1, <1>2, <1>3, <2>1 DEF Typed, Places
  <2>4. UsersOK'
    <3>1. \A q \in Proc : pc'[q] = "idle" <=> pc[q] = "idle" BY <1>1, <2>2
    <3> QED BY <1>1, <1>3, <3>1, UsersStay
  <2>5. LocksOK'
    <3>1. ASSUME NEW q \in Proc, pc'[q] \in Asks \cup {"hold"} PROVE lock'[has[q]] = q
      <4>1. CASE q = p BY <1>2, <2>2, <4>1
      <4>2. CASE q # p
        <5>1. lock[has[q]] = q /\ has[q] \in Buf
          <6>1. pc[q] \in Asks \cup {"hold"} BY <2>2, <3>1, <4>2
          <6> QED BY <1>3, <6>1, HasBuffer DEF LocksOK, Asks
        <5>2. q # NONE BY DEF BuffersAssumption
        <5> QED BY <1>6, <2>2, <5>1, <5>2
      <4> QED BY <4>1, <4>2
    <3>2. ASSUME NEW c \in Buf, lock'[c] # NONE
          PROVE  has[lock'[c]] = c /\ pc'[lock'[c]] \in Asks \cup {"hold"}
      <4>1. CASE c = b BY <2>2, <4>1 DEF Asks
      <4>2. CASE c # b
        <5>1. lock'[c] = lock[c] BY <2>2, <4>2
        <5>2. lock[c] \in Proc BY <1>3, <3>2, <5>1 DEF Typed
        <5>3. has[lock[c]] = c /\ pc[lock[c]] \in Asks \cup {"hold"} BY <1>3, <3>2, <5>1 DEF LocksOK
        <5> QED BY <2>2, <4>2, <5>1, <5>2, <5>3
      <4> QED BY <4>1, <4>2
    <3> QED BY <1>1, <3>1, <3>2 DEF LocksOK
  <2>6. ContentsOK'
    <3>1. \A q \in Proc : /\ pc'[q] \in {"hold", "write"} => buf[has[q]].valid
                          /\ pc'[q] = "read" => ~buf[has[q]].dirty
      BY <1>2, <1>3, <2>2 DEF ContentsOK
    <3> QED BY <1>1, <1>3, <3>1 DEF ContentsOK
  <2>7. QueueOK'
    <3>1. \A q \in asleep : pc'[q] = pc[q] BY <1>1, <1>3, <2>2 DEF Typed
    <3> QED BY <1>1, <2>1, <3>1, QueueStays
  <2>8. SleepersOK'
    <3>1. \A q \in asleep : q \in Proc /\ pc'[q] = pc[q] BY <1>1, <1>3, <2>2 DEF Typed
    <3>2. ASSUME NEW q \in asleep, pc[q] = "acquire" PROVE lock'[has[q]] # NONE
      <4>1. has[q] \in Buf /\ lock[has[q]] # NONE BY <1>3, <3>1, <3>2, HasBuffer DEF SleepersOK
      <4>2. p # NONE BY DEF BuffersAssumption
      <4> QED BY <2>2, <4>1, <4>2
    <3> QED BY <1>1, <1>3, <2>1, <3>1, <3>2 DEF SleepersOK
  <2>9. LoggedOK'
    <3>1. \A q \in Proc : pc'[q] = "write" <=> pc[q] = "write" BY <1>1, <2>2
    <3>2. Logged' = Logged BY <1>1, <3>1 DEF Logged, Users
    <3> QED BY <1>1, <1>3, <3>2 DEF LoggedOK
  <2> QED BY <1>4, <2>3, <2>4, <2>5, <2>6, <2>7, <2>8, <2>9 DEF IInv
<1> QED BY <1>5, <1>6

\* iderw: a request more, of a buffer that is not in the queue.
LEMMA IderwKeeps ==
  ASSUME BuffersAssumption, IInv, NEW p \in Proc, Iderw(p)
  PROVE  IInv'
<1> DEFINE b == has[p]
           n == Len(queue) + 1
<1>1. /\ pc[p] \in Asks /\ p \notin asleep /\ ~Contains(queue, b) /\ (~buf[b].valid \/ buf[b].dirty)
      /\ queue' = Append(queue, b)
      /\ drive' = (IF queue = <<>> THEN Command(b) ELSE drive) /\ asleep' = asleep \cup {p}
      /\ UNCHANGED <<buf, mru, lock, disk, pc, has, load>>
  BY DEF Iderw, Asks
<1>2. b \in Buf /\ b # NONE /\ p \in load.procs BY <1>1, HasBuffer DEF Asks
<1>3. Typed /\ ListOK /\ UsersOK /\ LocksOK /\ ContentsOK /\ QueueOK /\ SleepersOK /\ LoggedOK BY DEF IInv
<1>4. ListOK' BY <1>1, <1>3 DEF ListOK
<1>5. /\ queue \in Seq(Buf) /\ Len(queue) \in Nat
      /\ queue' \in Seq(Buf) /\ queue' # <<>> /\ Len(queue') = n
      /\ \A i \in 1 .. Len(queue) : queue'[i] = queue[i]
      /\ queue'[n] = b
  <2>1. queue \in Seq(Buf) BY <1>3 DEF Typed
  <2> QED BY <1>1, <1>2, <2>1, AppendProperties, LenProperties
<1>6. Typed' BY <1>1, <1>3, <1>5 DEF Typed
<1>7. UsersOK' /\ LocksOK' /\ ContentsOK'
  BY <1>1, <1>3 DEF UsersOK, Users, LocksOK, ContentsOK
<1>8. LoggedOK' BY <1>1, <1>3 DEF LoggedOK, Logged, Users
<1>9. QueueOK'
  <2>1. \A i \in 1 .. n : i \in 1 .. Len(queue) \/ i = n BY <1>5
  <2>2. \A i \in 1 .. Len(queue) : queue[i] # b BY <1>1 DEF Contains
  <2>3. \A i, j \in 1 .. n : queue'[i] = queue'[j] => i = j
    BY <1>3, <1>5, <2>1, <2>2 DEF QueueOK
  <2>4. ASSUME NEW i \in 1 .. n
        PROVE  \E q \in asleep' : /\ has[q] = queue'[i] /\ pc[q] \in Asks
                                  /\ pc[q] = "read" => ~buf[queue'[i]].valid
                                  /\ pc[q] = "write" => buf[queue'[i]].dirty
    <3>1. CASE i \in 1 .. Len(queue) BY <1>1, <1>3, <1>5, <3>1 DEF QueueOK
    <3>2. CASE i = n
      <4>1. pc[p] = "read" => ~buf[b].dirty BY <1>3 DEF ContentsOK
      <4>2. pc[p] = "write" => buf[b].valid BY <1>3 DEF ContentsOK
      <4> QED BY <1>1, <1>5, <3>2, <4>1, <4>2
    <3> QED BY <2>1, <3>1, <3>2
  <2>5. drive' = Command(Head(queue'))
    <3>1. CASE queue = <<>>
      <4>1. Len(queue) = 0 BY <3>1, EmptySeq
      <4>2. Head(queue') = b BY <1>5, <4>1
      <4> QED BY <1>1, <3>1, <4>2
    <3>2. CASE queue # <<>>
      <4>1. Len(queue) # 0 BY <1>5, <3>2, EmptySeq
      <4>2. Head(queue') = queue'[1] /\ Head(queue) = queue[1] BY <1>5, <3>2
      <4>3. Head(queue') = Head(queue) BY <1>5, <4>1, <4>2
      <4> QED BY <1>1, <1>3, <3>2, <4>3 DEF QueueOK
    <3> QED BY <3>1, <3>2
  <2>6. drive' = Command(Head(queue))' BY <1>1, <2>5 DEF Command
  <2>7. \A i, j \in 1 .. Len(queue') : queue'[i] = queue'[j] => i = j BY <1>5, <2>3
  <2>8. \A i \in 1 .. Len(queue') : \E q \in asleep' :
          /\ has'[q] = queue'[i] /\ pc'[q] \in Asks
          /\ pc'[q] = "read" => ~buf'[queue'[i]].valid
          /\ pc'[q] = "write" => buf'[queue'[i]].dirty
    BY <1>1, <1>5, <2>4
  <2> QED BY ONLY <1>5, <2>6, <2>7, <2>8 DEF QueueOK
<1>10. SleepersOK'
  <2>1. \A c : Contains(queue, c) \/ c = b => Contains(queue', c)
    <3>1. n \in 1 .. Len(queue') BY <1>5
    <3>2. Contains(queue', b) BY <1>5, <3>1 DEF Contains
    <3>3. ASSUME NEW c, Contains(queue, c) PROVE Contains(queue', c)
      <4>1. PICK i \in 1 .. Len(queue) : queue[i] = c BY <3>3 DEF Contains
      <4>2. i \in 1 .. Len(queue') /\ queue'[i] = c BY <1>5, <4>1
      <4> QED BY <4>2 DEF Contains
    <3> QED BY <3>2, <3>3
  <2> QED BY <1>1, <1>3, <2>1 DEF SleepersOK, Asks
<1> QED BY <1>4, <1>6, <1>7, <1>8, <1>9, <1>10 DEF IInv

\* iderw returns: the buffer is valid, and what it says is on the disk.
LEMMA IderwDoneKeeps ==
  ASSUME BuffersAssumption, IInv, NEW p \in Proc, IderwDone(p)
  PROVE  IInv'
<1> DEFINE b == has[p]
<1>1. /\ pc[p] \in Asks /\ p \notin asleep /\ buf[b].valid /\ ~buf[b].dirty
      /\ pc' = [pc EXCEPT ![p] = "hold"]
      /\ UNCHANGED <<buf, mru, lock, queue, drive, disk, has, asleep, load>>
  BY DEF IderwDone, Asks, Go
<1>2. b \in Buf /\ b # NONE /\ p \in load.procs BY <1>1, HasBuffer DEF Asks
<1>3. Typed /\ ListOK /\ UsersOK /\ LocksOK /\ ContentsOK /\ QueueOK /\ SleepersOK /\ LoggedOK BY DEF IInv
<1>4. (\A q \in Proc \ {p} : pc'[q] = pc[q]) /\ pc'[p] = "hold" BY <1>1, <1>3 DEF Typed
<1>5. ListOK' BY <1>1, <1>3 DEF ListOK
<1>6. Typed' BY <1>1, <1>3 DEF Typed, Places
<1>7. UsersOK'
  <2>1. \A q \in Proc : pc'[q] = "idle" <=> pc[q] = "idle" BY <1>1, <1>4 DEF Asks
  <2> QED BY <1>1, <1>3, <2>1, UsersStay
<1>8. LocksOK'
  <2>1. \A q \in Proc : pc'[q] \in Asks \cup {"hold"} <=> pc[q] \in Asks \cup {"hold"} BY <1>1, <1>4
  <2>2. \A c \in Buf : lock[c] # NONE => lock[c] \in Proc BY <1>3 DEF Typed
  <2> QED BY <1>1, <1>3, <2>1, <2>2 DEF LocksOK
<1>9. ContentsOK' BY <1>1, <1>3, <1>4 DEF ContentsOK
<1>10. \A q \in asleep : q \in Proc /\ pc'[q] = pc[q] BY <1>1, <1>3, <1>4 DEF Typed
<1>11. QueueOK' BY <1>1, <1>10, QueueStays
<1>12. SleepersOK' BY <1>1, <1>3, <1>10 DEF SleepersOK
<1>13. LoggedOK'
  <2>1. ASSUME NEW c \in Logged' PROVE c \in Logged
    <3>1. c \in Buf /\ buf[c].dirty /\ c # b BY <1>1, <2>1 DEF Logged
    <3>2. ASSUME NEW q \in Users(c) PROVE pc[q] # "write"
      <4>1. q \in Users(c)' /\ q \in Proc /\ q # p BY <1>1, <3>1 DEF Users
      <4>2. pc'[q] # "write" BY <4>1 DEF Logged
      <4> QED BY <1>4, <4>1, <4>2
    <3> QED BY <3>1, <3>2 DEF Logged
  <2> QED BY <1>1, <1>3, <2>1, LoggedLess
<1> QED BY <1>5, <1>6, <1>7, <1>8, <1>9, <1>11, <1>12, <1>13 DEF IInv

-----------------------------------------------------------------------------
(* ideintr *)

\* The request under way: its process, its command, and what comes after it.
LEMMA UnderWay ==
  ASSUME BuffersAssumption, IInv, queue # <<>>
  PROVE  /\ Head(queue) \in Buf /\ drive = Command(Head(queue)) /\ Len(queue) \in Nat \ {0}
         /\ buf[Head(queue)].blockno \in Block /\ buf[Head(queue)] \in Buffer
         /\ Head(queue) = queue[1]
         /\ Tail(queue) \in Seq(Buf) /\ Len(Tail(queue)) = Len(queue) - 1
         /\ \A i \in 1 .. Len(queue) - 1 : Tail(queue)[i] = queue[i + 1]
         /\ \A i \in 1 .. Len(queue) - 1 : queue[i + 1] # Head(queue)
         /\ \E p \in asleep : has[p] = Head(queue) /\ pc[p] \in Asks
<1>1. queue \in Seq(Buf) BY DEF IInv, Typed
<1>2. /\ Head(queue) = queue[1] /\ Len(queue) \in Nat \ {0}
      /\ Tail(queue) \in Seq(Buf) /\ Len(Tail(queue)) = Len(queue) - 1
      /\ \A i \in 1 .. Len(queue) - 1 : Tail(queue)[i] = queue[i + 1]
  BY <1>1, EmptySeq, HeadTailProperties
<1>3. PICK p \in Proc : p \in asleep /\ has[p] = queue[1] /\ pc[p] \in Asks BY <1>2, Queued
<1>4. has[p] \in Buf /\ buf[has[p]].blockno \in Block /\ buf[has[p]] \in Buffer
  BY <1>3, HasBuffer DEF Asks
<1>5. \A i \in 1 .. Len(queue) - 1 : queue[i + 1] # queue[1]
  BY <1>2 DEF IInv, QueueOK
<1>6. drive = Command(Head(queue)) BY DEF IInv, QueueOK
<1> QED BY <1>2, <1>3, <1>4, <1>5, <1>6

\* ideintr: the first buffer of the queue and its block agree, and the next request is under way.
LEMMA IdeintrKeeps ==
  ASSUME BuffersAssumption, IInv, Ideintr
  PROVE  IInv'
<1> DEFINE b == Head(queue)
           m == buf[b].blockno
<1>1. /\ queue # <<>> /\ drive # Idle
      /\ disk' = IF drive.writes THEN [disk EXCEPT ![drive.blockno] = drive.data] ELSE disk
      /\ buf' = [buf EXCEPT ![b].data = IF buf[b].dirty THEN @ ELSE disk[drive.blockno],
                            ![b].valid = TRUE, ![b].dirty = FALSE]
      /\ queue' = Tail(queue)
      /\ drive' = IF Len(queue) > 1 THEN Command(queue[2]) ELSE Idle
      /\ asleep' = asleep \ Sleeping(b, Asks)
      /\ UNCHANGED <<mru, lock, pc, has, load>>
  BY DEF Ideintr, Asks
<1>2. /\ b \in Buf /\ drive = Command(b) /\ Len(queue) \in Nat \ {0} /\ m \in Block /\ buf[b] \in Buffer
      /\ Tail(queue) \in Seq(Buf) /\ Len(Tail(queue)) = Len(queue) - 1
      /\ \A i \in 1 .. Len(queue) - 1 : Tail(queue)[i] = queue[i + 1] /\ queue[i + 1] # b
      /\ b = queue[1]
  BY <1>1, UnderWay
<1>3. Typed /\ ListOK /\ UsersOK /\ LocksOK /\ ContentsOK /\ QueueOK /\ SleepersOK /\ LoggedOK BY DEF IInv
<1>4. drive.blockno = m /\ (drive.writes <=> buf[b].dirty) /\ drive.data = buf[b].data
  BY <1>2 DEF Command
<1> HIDE DEF b, m
<1>5. disk' \in [Block -> Val] /\ \A n \in Block : n # m => disk'[n] = disk[n]
  BY <1>1, <1>2, <1>3, <1>4 DEF Typed, Buffer
<1>6. \A c \in Buf \ {b} : buf'[c] = buf[c] BY <1>1, <1>2, <1>3 DEF Typed
<1>7. /\ buf'[b] \in Buffer /\ buf'[b].blockno = m /\ buf'[b].refcnt = buf[b].refcnt
      /\ buf'[b].valid /\ ~buf'[b].dirty /\ buf'[b].data = disk'[m]
  <2> DEFINE x == IF buf[b].dirty THEN buf[b].data ELSE disk[m]
  <2>1. buf[b] = [blockno |-> m, valid |-> buf[b].valid, dirty |-> buf[b].dirty,
                  refcnt |-> buf[b].refcnt, data |-> buf[b].data]
        /\ buf[b].data \in Val /\ buf[b].refcnt \in Nat
    BY ONLY <1>2 DEF Buffer, m
  <2>2. x \in Val BY <1>2, <1>3, <2>1 DEF Typed
  <2>3. buf'[b] = [blockno |-> m, valid |-> TRUE, dirty |-> FALSE, refcnt |-> buf[b].refcnt, data |-> x]
    <3>1. buf \in [Buf -> Buffer] BY <1>3 DEF Typed
    <3>2. buf' = [buf EXCEPT ![b].data = x, ![b].valid = TRUE, ![b].dirty = FALSE] BY <1>1, <1>4
    <3> HIDE DEF x
    <3>3. buf'[b] = [buf[b] EXCEPT !.data = x, !.valid = TRUE, !.dirty = FALSE] BY ONLY <1>2, <3>1, <3>2
    <3> QED BY ONLY <1>2, <3>3 DEF Buffer, m
  <2>4. x = disk'[m] BY <1>1, <1>2, <1>3, <1>4 DEF Typed
  <2> HIDE DEF x
  <2>5. buf'[b] \in Buffer BY ONLY <1>2, <2>1, <2>2, <2>3 DEF Buffer
  <2> QED BY ONLY <2>3, <2>4, <2>5
<1>8. buf' \in [Buf -> Buffer]
  <2>1. buf' = [c \in Buf |-> buf'[c]] BY <1>1, <1>3 DEF Typed
  <2>2. \A c \in Buf : buf'[c] \in Buffer BY <1>3, <1>6, <1>7 DEF Typed
  <2> QED BY <2>1, <2>2
<1>9. Typed' BY <1>1, <1>2, <1>3, <1>5, <1>8 DEF Typed
<1>10. ListOK' BY <1>1, <1>3 DEF ListOK
<1>11. UsersOK'
  <2>1. \A c \in Buf : buf'[c].blockno = buf[c].blockno /\ buf'[c].refcnt = buf[c].refcnt
    BY <1>6, <1>7 DEF m
  <2> QED BY <1>1, <1>3, <2>1, UsersStay
<1>12. LocksOK' BY <1>1, <1>3 DEF LocksOK
<1>13. ContentsOK'
  <2>1. \A c \in Buf \ {b} : buf[c].blockno # NONE => buf[c].blockno # m /\ buf[c].blockno \in Block
    <3>1. m # NONE BY <1>2 DEF BuffersAssumption
    <3> QED BY <1>2, <1>3, <3>1 DEF UsersOK, m, Typed, Buffer
  <2>2. ASSUME NEW c \in Buf
        PROVE  /\ buf'[c].dirty => buf'[c].valid
               /\ buf'[c].valid => buf'[c].blockno # NONE
               /\ buf'[c].valid /\ ~buf'[c].dirty => buf'[c].data = disk'[buf'[c].blockno]
    <3>1. CASE c = b BY <1>2, <1>7, <3>1 DEF BuffersAssumption
    <3>2. CASE c # b BY <1>3, <1>5, <1>6, <2>1, <3>2 DEF ContentsOK
    <3> QED BY <3>1, <3>2
  <2>3. ASSUME NEW p \in Proc, pc[p] \in {"hold", "write", "read"}
        PROVE  /\ pc[p] \in {"hold", "write"} => buf'[has[p]].valid
               /\ pc[p] = "read" => ~buf'[has[p]].dirty
    <3>1. has[p] \in Buf BY <2>3, HasBuffer
    <3> QED BY <1>3, <1>6, <1>7, <3>1 DEF ContentsOK
  <2> QED BY <1>1, <2>2, <2>3 DEF ContentsOK
<1>14. \A p \in asleep : has[p] # b \/ pc[p] \notin Asks <=> p \in asleep'
  BY <1>1 DEF Sleeping
<1>15. QueueOK'
  <2> DEFINE n == Len(queue) - 1
  <2>1. /\ n \in Nat /\ Len(queue') = n
        /\ \A i \in 1 .. n : queue'[i] = queue[i + 1] /\ queue[i + 1] # b /\ i + 1 \in 1 .. Len(queue)
    BY <1>1, <1>2
  <2>2. ASSUME NEW i \in 1 .. n, NEW j \in 1 .. n, queue'[i] = queue'[j] PROVE i = j
    <3>1. i + 1 = j + 1 BY <1>3, <2>1, <2>2 DEF QueueOK
    <3> QED BY <2>1, <3>1
  <2>3. ASSUME NEW i \in 1 .. n
        PROVE  /\ queue'[i] \in Buf \ {b}
               /\ \E p \in asleep' : /\ has[p] = queue'[i] /\ pc[p] \in Asks
                                     /\ pc[p] = "read" => ~buf'[queue'[i]].valid
                                     /\ pc[p] = "write" => buf'[queue'[i]].dirty
    <3>1. i + 1 \in 1 .. Len(queue) /\ queue'[i] = queue[i + 1] BY <2>1
    <3>2. queue'[i] \in Buf \ {b} BY <2>1, <3>1, Queued
    <3>3. PICK p \in asleep : /\ has[p] = queue[i + 1] /\ pc[p] \in Asks
                              /\ pc[p] = "read" => ~buf[queue[i + 1]].valid
                              /\ pc[p] = "write" => buf[queue[i + 1]].dirty
      BY <1>3, <3>1 DEF QueueOK
    <3>4. p \in asleep' BY <1>14, <3>1, <3>2, <3>3
    <3> QED BY <1>6, <3>1, <3>2, <3>3, <3>4
  <2>4. drive' = IF queue' = <<>> THEN Idle ELSE Command(Head(queue))'
    <3>1. CASE queue' = <<>>
      <4>1. n = 0 BY <2>1, <3>1, EmptySeq
      <4>0. Len(queue) \in Nat BY <1>2
      <4>2. Len(queue) = 1 BY ONLY <4>0, <4>1
      <4>3. drive' = Idle BY <1>1, <4>2
      <4> QED BY ONLY <3>1, <4>3
    <3>2. CASE queue' # <<>>
      <4>1. queue' \in Seq(Buf) BY <1>1, <1>2
      <4>2. Len(queue') # 0 /\ Head(queue') = queue'[1] BY <3>2, <4>1, EmptySeq
      <4>3. n >= 1 /\ 1 \in 1 .. n /\ Len(queue) > 1 BY <2>1, <4>2, <1>2
      <4>4. Head(queue') = queue[2] /\ queue[2] \in Buf \ {b} BY <2>1, <2>3, <4>2, <4>3
      <4>5. drive' = Command(queue[2]) BY <1>1, <4>3
      <4>6. buf'[queue[2]] = buf[queue[2]] BY <1>6, <4>4
      <4>7. Command(Head(queue))' = [blockno |-> buf'[Head(queue')].blockno,
                                     writes |-> buf'[Head(queue')].dirty, data |-> buf'[Head(queue')].data]
        BY DEF Command
      <4>8. Command(queue[2]) = [blockno |-> buf[queue[2]].blockno,
                                 writes |-> buf[queue[2]].dirty, data |-> buf[queue[2]].data]
        BY DEF Command
      <4> QED BY ONLY <3>2, <4>4, <4>5, <4>6, <4>7, <4>8
    <3> QED BY <3>1, <3>2
  <2>5. \A i, j \in 1 .. Len(queue') : queue'[i] = queue'[j] => i = j BY <2>1, <2>2
  <2>6. \A i \in 1 .. Len(queue') : \E p \in asleep' :
          /\ has'[p] = queue'[i] /\ pc'[p] \in Asks
          /\ pc'[p] = "read" => ~buf'[queue'[i]].valid
          /\ pc'[p] = "write" => buf'[queue'[i]].dirty
    <3>1. has' = has /\ pc' = pc BY <1>1
    <3>2. 1 .. Len(queue') = 1 .. n BY <2>1
    <3> QED BY ONLY <2>3, <3>1, <3>2
  <2> QED BY ONLY <2>4, <2>5, <2>6 DEF QueueOK
<1>16. SleepersOK'
  <2>1. ASSUME NEW p \in asleep', pc[p] # "acquire" PROVE Contains(queue', has[p])
    <3>1. p \in asleep /\ pc[p] \in Asks /\ Contains(queue, has[p]) BY <1>1, <1>3, <2>1 DEF SleepersOK
    <3>2. PICK i \in 1 .. Len(queue) : queue[i] = has[p] BY <3>1 DEF Contains
    <3>3. i # 1 BY <1>2, <1>14, <3>1, <3>2
    <3>4. i - 1 \in 1 .. Len(queue) - 1 /\ (i - 1) + 1 = i BY <1>2, <3>3
    <3>5. i - 1 \in 1 .. Len(queue') /\ queue'[i - 1] = has[p] BY <1>1, <1>2, <3>2, <3>4
    <3> QED BY <3>5 DEF Contains
  <2>2. \A p \in asleep' : p \in asleep BY <1>1
  <2> QED BY <1>1, <1>3, <2>1, <2>2 DEF SleepersOK
<1>17. LoggedOK'
  <2>1. ASSUME NEW c \in Logged' PROVE c \in Logged
    <3>1. c \in Buf /\ c # b BY <1>7, <2>1 DEF Logged
    <3> QED BY <1>1, <1>6, <2>1, <3>1 DEF Logged, Users
  <2> QED BY <1>1, <1>3, <2>1, LoggedLess
<1> QED BY <1>9, <1>10, <1>11, <1>12, <1>13, <1>15, <1>16, <1>17 DEF IInv

-----------------------------------------------------------------------------
(* bwrite, log_write, brelse *)

\* The holder of a buffer puts something into it; nobody has asked for the buffer then.
LEMMA PutsKeeps ==
  ASSUME BuffersAssumption, IInv, NEW p \in Proc, NEW v \in Val, pc[p] = "hold", p \notin asleep,
         buf' = [buf EXCEPT ![has[p]].data = v, ![has[p]].dirty = TRUE],
         pc' = pc \/ pc' = [pc EXCEPT ![p] = "write"],
         UNCHANGED <<mru, lock, queue, drive, disk, has, asleep, load>>
  PROVE  /\ Typed' /\ ListOK' /\ UsersOK' /\ LocksOK' /\ ContentsOK' /\ QueueOK' /\ SleepersOK'
         /\ \A c \in Buf \ {has[p]} : buf'[c] = buf[c]
         /\ \A q \in Proc \ {p} : pc'[q] = pc[q]
<1> DEFINE b == has[p]
<1>1. b \in Buf /\ b # NONE /\ p \in load.procs /\ buf[b] \in Buffer /\ buf[b].blockno # NONE
  BY HasBuffer DEF BuffersAssumption
<1>2. Typed /\ ListOK /\ UsersOK /\ LocksOK /\ ContentsOK /\ QueueOK /\ SleepersOK BY DEF IInv
<1>3. /\ \A q \in Proc \ {p} : pc'[q] = pc[q]
      /\ pc'[p] \in {"hold", "write"}
  BY <1>2 DEF Typed
<1>4. \A c \in Buf \ {b} : buf'[c] = buf[c] BY <1>1, <1>2 DEF Typed
<1>5. /\ buf'[b] \in Buffer /\ buf'[b].blockno = buf[b].blockno /\ buf'[b].refcnt = buf[b].refcnt
      /\ buf'[b].valid = buf[b].valid /\ buf'[b].dirty
  <2>1. buf \in [Buf -> Buffer] BY <1>2 DEF Typed
  <2>2. buf'[b] = [buf[b] EXCEPT !.data = v, !.dirty = TRUE] BY <1>1, <2>1
  <2> QED BY ONLY <1>1, <2>2, v \in Val DEF Buffer
<1>6. Typed'
  <2>1. buf' = [c \in Buf |-> buf'[c]] BY <1>2 DEF Typed
  <2>2. \A c \in Buf : buf'[c] \in Buffer BY <1>2, <1>4, <1>5 DEF Typed
  <2>3. buf' \in [Buf -> Buffer] BY <2>1, <2>2
  <2> QED BY <1>2, <2>3 DEF Typed, Places
<1>7. ListOK' BY <1>2 DEF ListOK
<1>8. UsersOK'
  <2>1. \A q \in Proc : pc'[q] = "idle" <=> pc[q] = "idle" BY <1>3
  <2>2. \A c \in Buf : buf'[c].blockno = buf[c].blockno /\ buf'[c].refcnt = buf[c].refcnt BY <1>4, <1>5
  <2> QED BY <1>2, <2>1, <2>2, UsersStay
<1>9. LocksOK'
  <2>1. \A q \in Proc : pc'[q] \in Asks \cup {"hold"} <=> pc[q] \in Asks \cup {"hold"} BY <1>3 DEF Asks
  <2>2. \A c \in Buf : lock[c] # NONE => lock[c] \in Proc BY <1>2 DEF Typed
  <2> QED BY <1>2, <2>1, <2>2 DEF LocksOK
\* Nobody else waits for the disk with this buffer.
<1>10. \A q \in Proc \ {p} : pc[q] \in Asks \cup {"hold"} => has[q] \in Buf \ {b}
  BY <1>2, HasBuffer DEF LocksOK, Asks
<1>11. ContentsOK'
  <2>1. ASSUME NEW c \in Buf
        PROVE  /\ buf'[c].dirty => buf'[c].valid
               /\ buf'[c].valid => buf'[c].blockno # NONE
               /\ buf'[c].valid /\ ~buf'[c].dirty => buf'[c].data = disk'[buf'[c].blockno]
    <3>1. CASE c = b BY <1>1, <1>2, <1>5, <3>1 DEF ContentsOK
    <3>2. CASE c # b BY ZenonT(30), <1>2, <1>4, <3>2 DEF ContentsOK
    <3> QED BY <3>1, <3>2
  <2>2. ASSUME NEW q \in Proc
        PROVE  /\ pc'[q] \in {"hold", "write"} => buf'[has[q]].valid
               /\ pc'[q] = "read" => ~buf'[has[q]].dirty
    <3>1. CASE q = p BY <1>2, <1>3, <1>5, <3>1 DEF ContentsOK
    <3>2. CASE q # p
      <4>1. pc'[q] = pc[q] BY <1>3, <3>2
      <4>2. pc[q] \in {"hold", "write", "read"} => buf'[has[q]] = buf[has[q]]
        BY <1>4, <1>10, <3>2 DEF Asks
      <4> QED BY <1>2, <4>1, <4>2 DEF ContentsOK
    <3> QED BY <3>1, <3>2
  <2> QED BY <2>1, <2>2 DEF ContentsOK
<1>12. \A q \in asleep : q \in Proc \ {p} /\ pc'[q] = pc[q] BY <1>2, <1>3 DEF Typed
<1>13. QueueOK' BY <1>4, <1>10, <1>12, QueueStays
<1>14. SleepersOK' BY <1>2, <1>12 DEF SleepersOK
<1> QED BY <1>3, <1>4, <1>6, <1>7, <1>8, <1>9, <1>11, <1>13, <1>14

\* bwrite: the owner's buffer is dirty, and the owner about to have it written.
LEMMA BwriteKeeps ==
  ASSUME BuffersAssumption, IInv, NEW p \in Proc, NEW v \in Val, Bwrite(p, v)
  PROVE  IInv'
<1>1. /\ pc[p] = "hold" /\ p \notin asleep /\ pc' = [pc EXCEPT ![p] = "write"]
      /\ buf' = [buf EXCEPT ![has[p]].data = v, ![has[p]].dirty = TRUE]
      /\ UNCHANGED <<mru, lock, queue, drive, disk, has, asleep, load>>
  BY DEF Bwrite, At, Go
<1>2. /\ Typed' /\ ListOK' /\ UsersOK' /\ LocksOK' /\ ContentsOK' /\ QueueOK' /\ SleepersOK'
      /\ \A c \in Buf \ {has[p]} : buf'[c] = buf[c]
      /\ \A q \in Proc \ {p} : pc'[q] = pc[q]
  BY <1>1, PutsKeeps
<1>3. Typed /\ LoggedOK /\ pc'[p] = "write" BY <1>1 DEF IInv, Typed
<1>4. ASSUME NEW c \in Logged' PROVE c \in Logged
  <2>1. c # has[p] BY <1>1, <1>3, <1>4 DEF Logged, Users
  <2>2. c \in Buf /\ buf[c].dirty BY <1>2, <1>4, <2>1 DEF Logged
  <2>3. ASSUME NEW q \in Users(c) PROVE pc[q] # "write"
    <3>1. q \in Users(c)' /\ q \in Proc \ {p} BY <1>1, <2>1 DEF Users
    <3>2. pc'[q] # "write" BY <1>4, <3>1 DEF Logged
    <3> QED BY <1>2, <3>1, <3>2
  <2> QED BY <2>2, <2>3 DEF Logged
<1>5. LoggedOK' BY <1>1, <1>3, <1>4, LoggedLess
<1> QED BY <1>2, <1>5 DEF IInv

\* log_write: a buffer more that the log keeps, if it has room.
LEMMA LogWriteKeeps ==
  ASSUME BuffersAssumption, IInv, NEW p \in Proc, NEW v \in Val, LogWrite(p, v)
  PROVE  IInv'
<1> DEFINE b == has[p]
           D == {c \in Buf \ {b} : buf[c].dirty}
<1>1. /\ pc[p] = "hold" /\ p \notin asleep /\ Cardinality(D) < load.dirty /\ pc' = pc
      /\ buf' = [buf EXCEPT ![b].data = v, ![b].dirty = TRUE]
      /\ UNCHANGED <<mru, lock, queue, drive, disk, has, asleep, load>>
  BY DEF LogWrite, At
<1>2. /\ Typed' /\ ListOK' /\ UsersOK' /\ LocksOK' /\ ContentsOK' /\ QueueOK' /\ SleepersOK'
      /\ \A c \in Buf \ {b} : buf'[c] = buf[c]
  BY <1>1, PutsKeeps
<1>3. LoggedOK'
  <2>1. IsFiniteSet(Buf) BY FS_Interval DEF Buf, BuffersAssumption
  <2>2. IsFiniteSet(D) BY <2>1, FS_Subset
  <2>3. IsFiniteSet(D \cup {b}) /\ Cardinality(D \cup {b}) = Cardinality(D) + 1
    BY ONLY <2>2, FS_AddElement DEF D
  <2>4. Logged' \subseteq D \cup {b} BY <1>2 DEF Logged
  <2>5. Cardinality(Logged') <= Cardinality(D \cup {b}) /\ IsFiniteSet(Logged') BY ONLY <2>3, <2>4, FS_Subset
  <2>6. Cardinality(D) \in Nat /\ Cardinality(Logged') \in Nat BY ONLY <2>2, <2>5, FS_CardinalityType
  <2>7. load.dirty \in Nat /\ load' = load BY <1>1 DEF BuffersAssumption, IInv, Typed
  <2>8. Cardinality(Logged') <= load'.dirty BY ONLY <1>1, <2>3, <2>5, <2>6, <2>7
  <2> QED BY <2>8 DEF LoggedOK
<1> QED BY <1>2, <1>3 DEF IInv

\* releasesleep: the lock is free, and nobody sleeps for it.
LEMMA ReleaseSleepKeeps ==
  ASSUME BuffersAssumption, IInv, NEW p \in Proc, ReleaseSleep(p)
  PROVE  IInv'
<1> DEFINE b == has[p]
<1>1. /\ pc[p] = "hold" /\ p \notin asleep /\ pc' = [pc EXCEPT ![p] = "brelse"]
      /\ lock' = [lock EXCEPT ![b] = NONE] /\ asleep' = asleep \ Sleeping(b, {"acquire"})
      /\ UNCHANGED <<buf, mru, queue, drive, disk, has, load>>
  BY DEF ReleaseSleep, At, Go
<1>2. b \in Buf /\ b # NONE /\ p \in load.procs BY <1>1, HasBuffer
<1>3. Typed /\ ListOK /\ UsersOK /\ LocksOK /\ ContentsOK /\ QueueOK /\ SleepersOK /\ LoggedOK BY DEF IInv
<1>4. /\ \A q \in Proc \ {p} : pc'[q] = pc[q]
      /\ pc'[p] = "brelse"
      /\ \A c \in Buf : lock'[c] = IF c = b THEN NONE ELSE lock[c]
  BY <1>1, <1>2, <1>3 DEF Typed
<1>5. ListOK' BY <1>1, <1>3 DEF ListOK
<1>6. Typed' BY <1>1, <1>2, <1>3 DEF Typed, Places
<1>7. UsersOK'
  <2>1. \A q \in Proc : pc'[q] = "idle" <=> pc[q] = "idle" BY <1>1, <1>4
  <2> QED BY <1>1, <1>3, <2>1, UsersStay
<1>8. lock[b] = p /\ p # NONE BY <1>1, <1>3 DEF LocksOK, BuffersAssumption
<1>9. LocksOK'
  <2>1. ASSUME NEW q \in Proc, pc'[q] \in Asks \cup {"hold"} PROVE lock'[has[q]] = q
    <3>1. q # p BY <1>4, <2>1 DEF Asks
    <3>2. pc[q] \in Asks \cup {"hold"} BY <1>4, <2>1, <3>1
    <3>3. lock[has[q]] = q /\ has[q] \in Buf BY <1>3, <3>2, HasBuffer DEF LocksOK, Asks
    <3> QED BY <1>4, <1>8, <3>1, <3>3
  <2>2. ASSUME NEW c \in Buf, lock'[c] # NONE
        PROVE  has[lock'[c]] = c /\ pc'[lock'[c]] \in Asks \cup {"hold"}
    <3>1. c # b /\ lock'[c] = lock[c] BY <1>4, <2>2
    <3>2. lock[c] \in Proc /\ has[lock[c]] = c /\ pc[lock[c]] \in Asks \cup {"hold"}
      BY <1>3, <2>2, <3>1 DEF LocksOK, Typed
    <3> QED BY <1>4, <3>1, <3>2
  <2> QED BY <1>1, <2>1, <2>2 DEF LocksOK
<1>10. ContentsOK' BY <1>1, <1>3, <1>4 DEF ContentsOK
<1>11. \A q \in asleep : q \in Proc /\ pc'[q] = pc[q] BY <1>1, <1>3, <1>4 DEF Typed
<1>12. QueueOK'
  <2>1. \A q \in asleep : pc[q] \in Asks => q \in asleep' BY <1>1 DEF Sleeping, Asks
  <2> QED BY <1>1, <1>11, <2>1, QueueStays
<1>13. SleepersOK'
  <2>1. ASSUME NEW q \in asleep', pc[q] = "acquire" PROVE lock'[has[q]] # NONE
    <3>1. q \in asleep /\ has[q] # b BY <1>1, <2>1 DEF Sleeping
    <3>2. q \in Proc /\ has[q] \in Buf /\ lock[has[q]] # NONE
      BY <1>3, <1>11, <2>1, <3>1, HasBuffer DEF SleepersOK
    <3> QED BY <1>4, <3>1, <3>2
  <2>2. \A q \in asleep' : q \in asleep BY <1>1
  <2> QED BY <1>1, <1>3, <1>11, <2>1, <2>2 DEF SleepersOK
<1>14. LoggedOK'
  <2>1. \A q \in Proc : pc'[q] = "write" <=> pc[q] = "write" BY <1>1, <1>4
  <2>2. Logged' = Logged BY <1>1, <2>1 DEF Logged, Users
  <2> QED BY <1>1, <1>3, <2>2 DEF LoggedOK
<1> QED BY <1>5, <1>6, <1>7, <1>9, <1>10, <1>12, <1>13, <1>14 DEF IInv

\* brelse: a user less, and the buffer first in the list when it was the last.
LEMMA BrelseKeeps ==
  ASSUME BuffersAssumption, IInv, NEW p \in Proc, Brelse(p)
  PROVE  IInv'
<1> DEFINE b == has[p]
<1>1. /\ pc[p] = "brelse" /\ p \notin asleep /\ pc' = [pc EXCEPT ![p] = "idle"]
      /\ buf' = [buf EXCEPT ![b].refcnt = @ - 1] /\ has' = [has EXCEPT ![p] = NONE]
      /\ mru' = (IF buf[b].refcnt = 1 THEN <<b>> \o RemoveAt(mru, Place(b)) ELSE mru)
      /\ UNCHANGED <<lock, queue, drive, disk, asleep, load>>
  BY DEF Brelse, At, Go
<1>2. b \in Buf /\ b # NONE /\ p \in load.procs /\ p \in Users(b) /\ buf[b] \in Buffer BY <1>1, HasBuffer
<1>3. Typed /\ ListOK /\ UsersOK /\ LocksOK /\ ContentsOK /\ QueueOK /\ SleepersOK /\ LoggedOK BY DEF IInv
<1>4. /\ \A q \in Proc \ {p} : pc'[q] = pc[q] /\ has'[q] = has[q]
      /\ pc'[p] = "idle" /\ has'[p] = NONE
  BY <1>1, <1>3 DEF Typed
<1>5. \A c \in Buf \ {b} : buf'[c] = buf[c] BY <1>1, <1>2, <1>3 DEF Typed
<1>6. buf[b].refcnt \in Nat /\ buf[b].refcnt # 0 BY <1>2, FiniteUsers DEF Buffer
<1>7. /\ buf'[b] \in Buffer /\ buf'[b].refcnt = buf[b].refcnt - 1
      /\ buf'[b].blockno = buf[b].blockno /\ buf'[b].valid = buf[b].valid
      /\ buf'[b].dirty = buf[b].dirty /\ buf'[b].data = buf[b].data
  <2>1. buf \in [Buf -> Buffer] BY <1>3 DEF Typed
  <2>2. buf'[b] = [buf[b] EXCEPT !.refcnt = @ - 1] BY <1>1, <1>2, <2>1
  <2>3. buf[b].refcnt - 1 \in Nat BY <1>6
  <2> QED BY ONLY <1>2, <2>2, <2>3 DEF Buffer
<1>8. ListOK'
  <2>1. /\ mru' \in Seq(Buf) /\ Len(mru') = NBUF /\ \A c \in Buf : \E i \in Buf : mru'[i] = c
    <3>1. CASE buf[b].refcnt = 1 BY <1>1, <1>2, <1>3, <3>1, MovedToFront
    <3>2. CASE buf[b].refcnt # 1 BY <1>1, <1>3, <3>2 DEF ListOK
    <3> QED BY <3>1, <3>2
  <2> QED BY <2>1 DEF ListOK
<1>9. Typed'
  <2>1. buf' = [c \in Buf |-> buf'[c]] BY <1>1, <1>3 DEF Typed
  <2>2. \A c \in Buf : buf'[c] \in Buffer BY <1>3, <1>5, <1>7 DEF Typed
  <2>3. buf' \in [Buf -> Buffer] BY <2>1, <2>2
  <2> QED BY <1>1, <1>2, <1>3, <2>3 DEF Typed, Places
<1>10. \A c \in Buf : Users(c)' = IF c = b THEN Users(c) \ {p} ELSE Users(c)
  <2>1. NONE \notin Buf BY DEF BuffersAssumption, Buf
  <2> QED BY <1>2, <1>4, <2>1 DEF Users
<1>11. \A c \in Buf : /\ buf'[c].blockno = buf[c].blockno /\ buf'[c].valid = buf[c].valid
                      /\ buf'[c].dirty = buf[c].dirty /\ buf'[c].data = buf[c].data
  BY <1>5, <1>7
<1>12. \A q \in Proc : has[q] # NONE => has[q] \in Buf BY <1>3 DEF Typed
<1>13. UsersOK'
  <2>1. \A q \in Proc : has'[q] = NONE <=> pc'[q] = "idle" BY <1>3, <1>4 DEF UsersOK
  <2>2. \A q \in Proc : pc'[q] # "idle" => q \in load'.procs BY <1>1, <1>3, <1>4 DEF UsersOK
  <2>3. \A q \in Proc : has'[q] # NONE => buf'[has'[q]].blockno # NONE
    BY <1>3, <1>4, <1>11, <1>12 DEF UsersOK
  <2>4. ASSUME NEW c \in Buf PROVE buf'[c].refcnt = Cardinality(Users(c)')
    <3>1. buf[c].refcnt = Cardinality(Users(c)) BY <1>3 DEF UsersOK
    <3>2. CASE c # b BY <1>5, <1>10, <3>1, <3>2
    <3>3. CASE c = b
      <4>1. IsFiniteSet(Users(b)) BY <1>2, FiniteUsers
      <4>2. Cardinality(Users(b) \ {p}) = Cardinality(Users(b)) - 1
        BY ONLY <1>2, <4>1, FS_RemoveElement
      <4> QED BY <1>7, <1>10, <3>1, <3>3, <4>2
    <3> QED BY <3>2, <3>3
  <2>5. \A c, d \in Buf : buf'[c].blockno = buf'[d].blockno /\ buf'[c].blockno # NONE => c = d
    BY <1>3, <1>11 DEF UsersOK
  <2> QED BY <2>1, <2>2, <2>3, <2>4, <2>5 DEF UsersOK
<1>14. LocksOK'
  <2>1. ASSUME NEW q \in Proc, pc'[q] \in Asks \cup {"hold"} PROVE lock[has'[q]] = q
    <3>1. q # p BY <1>4, <2>1 DEF Asks
    <3> QED BY <1>3, <1>4, <2>1, <3>1 DEF LocksOK
  <2>2. ASSUME NEW c \in Buf, lock[c] # NONE
        PROVE  has'[lock[c]] = c /\ pc'[lock[c]] \in Asks \cup {"hold"}
    <3>1. lock[c] \in Proc /\ has[lock[c]] = c /\ pc[lock[c]] \in Asks \cup {"hold"}
      BY <1>3, <2>2 DEF LocksOK, Typed
    <3>2. lock[c] # p BY <1>1, <3>1 DEF Asks
    <3> QED BY <1>4, <3>1, <3>2
  <2> QED BY <1>1, <2>1, <2>2 DEF LocksOK
<1>15. ContentsOK'
  <2>1. ASSUME NEW c \in Buf
        PROVE  /\ buf'[c].dirty => buf'[c].valid
               /\ buf'[c].valid => buf'[c].blockno # NONE
               /\ buf'[c].valid /\ ~buf'[c].dirty => buf'[c].data = disk'[buf'[c].blockno]
    BY <1>1, <1>3, <1>11 DEF ContentsOK
  <2>2. ASSUME NEW q \in Proc, pc'[q] \in {"hold", "write", "read"}
        PROVE  /\ pc'[q] \in {"hold", "write"} => buf'[has'[q]].valid
               /\ pc'[q] = "read" => ~buf'[has'[q]].dirty
    <3>1. q # p BY <1>4, <2>2
    <3>2. pc'[q] = pc[q] /\ has'[q] = has[q] /\ has[q] \in Buf BY <1>4, <2>2, <3>1, HasBuffer
    <3> QED BY <1>3, <1>11, <3>2 DEF ContentsOK
  <2> QED BY <2>1, <2>2 DEF ContentsOK
<1>16. \A q \in asleep : q \in Proc /\ pc'[q] = pc[q] /\ has'[q] = has[q] BY <1>1, <1>3, <1>4 DEF Typed
<1>17. QueueOK'
  <2>1. \A q \in asleep : pc[q] \in Asks => has[q] \in Buf BY <1>16, HasBuffer DEF Asks
  <2> QED BY <1>1, <1>11, <1>16, <2>1, QueueStays
<1>18. SleepersOK' BY <1>1, <1>3, <1>16 DEF SleepersOK
<1>19. LoggedOK'
  <2>1. \A c \in Buf : c \in Logged' => c \in Logged
    <3> SUFFICES ASSUME NEW c \in Buf, c \in Logged' PROVE c \in Logged OBVIOUS
    <3>1. buf[c].dirty BY <1>11 DEF Logged
    <3>2. ASSUME NEW q \in Users(c) PROVE pc[q] # "write"
      <4>1. CASE q = p BY <1>1, <4>1
      <4>2. CASE q # p
        <5>1. q \in Users(c)' /\ q \in Proc BY <1>10, <4>2 DEF Users
        <5>2. pc'[q] # "write" BY <5>1 DEF Logged
        <5> QED BY <1>4, <4>2, <5>1, <5>2
      <4> QED BY <4>1, <4>2
    <3> QED BY <3>1, <3>2 DEF Logged
  <2>2. Logged' \subseteq Buf BY DEF Logged
  <2> QED BY <1>1, <1>3, <2>1, <2>2, LoggedLess
<1> QED BY <1>8, <1>9, <1>13, <1>14, <1>15, <1>17, <1>18, <1>19 DEF IInv

-----------------------------------------------------------------------------
(* The invariant, and what it says *)

\* After binit and ideinit the invariant holds.
LEMMA InitHolds == ASSUME BuffersAssumption, Init PROVE IInv
<1>1. NBUF \in Nat /\ IsFiniteSet(Proc) /\ NONE \notin Proc /\ Idle.data \in Val
  BY DEF BuffersAssumption, Idle
<1>2. /\ disk = [n \in Block |-> Idle.data]
      /\ buf = [b \in Buf |-> [blockno |-> NONE, valid |-> FALSE, dirty |-> FALSE,
                               refcnt |-> 0, data |-> Idle.data]]
      /\ mru = [i \in Buf |-> NBUF + 1 - i] /\ lock = [b \in Buf |-> NONE]
      /\ queue = <<>> /\ drive = Idle
      /\ pc = [p \in Proc |-> "idle"] /\ has = [p \in Proc |-> NONE] /\ asleep = {} /\ load \in Loads
  BY DEF Init
<1>3. Typed
  <2>1. buf \in [Buf -> Buffer] BY <1>1, <1>2 DEF Buffer
  <2>2. queue \in Seq(Buf) BY <1>2, EmptySeq
  <2>3. disk \in [Block -> Val] BY <1>1, <1>2
  <2> QED BY <1>2, <2>1, <2>2, <2>3 DEF Typed, Places
<1>4. ListOK
  <2>1. \A i \in 1 .. NBUF : NBUF + 1 - i \in 1 .. NBUF /\ NBUF + 1 - (NBUF + 1 - i) = i BY <1>1
  <2>2. mru \in [1 .. NBUF -> Buf] BY <1>2, <2>1 DEF Buf
  <2>3. mru \in Seq(Buf) /\ Len(mru) = NBUF BY <1>1, <2>2
  <2>4. ASSUME NEW b \in Buf PROVE \E i \in Buf : mru[i] = b
    <3>1. NBUF + 1 - b \in Buf /\ mru[NBUF + 1 - b] = b BY <1>2, <2>1 DEF Buf
    <3> QED BY <3>1
  <2> QED BY <2>3, <2>4 DEF ListOK
<1>5. \A b \in Buf : Users(b) = {}
  <2>1. NONE \notin Buf BY DEF BuffersAssumption, Buf
  <2> QED BY <1>2, <2>1 DEF Users
<1>6. UsersOK BY <1>2, <1>5, FS_EmptySet DEF UsersOK
<1>7. LocksOK /\ ContentsOK /\ SleepersOK BY <1>2 DEF LocksOK, ContentsOK, SleepersOK, Asks
<1>8. QueueOK
  <2>1. Len(queue) = 0 BY <1>2, EmptySeq
  <2>2. 1 .. Len(queue) = {} BY <2>1
  <2> QED BY <1>2, <2>2 DEF QueueOK
<1>9. LoggedOK
  <2>1. Logged = {} BY <1>2 DEF Logged
  <2>2. load.dirty \in Nat BY <1>2 DEF BuffersAssumption
  <2> QED BY <2>1, <2>2, FS_EmptySet DEF LoggedOK
<1> QED BY <1>3, <1>4, <1>6, <1>7, <1>8, <1>9 DEF IInv

\* Every step keeps it.
LEMMA NextKeeps == ASSUME BuffersAssumption, IInv, [Next]_vars PROVE IInv'
<1>1. CASE UNCHANGED vars
  BY <1>1 DEF vars, IInv, Typed, ListOK, UsersOK, Users, LocksOK, ContentsOK, QueueOK, Command,
              SleepersOK, LoggedOK, Logged
<1>2. CASE Ideintr BY <1>2, IdeintrKeeps
<1>3. ASSUME NEW p \in Proc, Continue(p) PROVE IInv'
  BY <1>3, AcquireSleepKeeps, IderwKeeps, IderwDoneKeeps, ReleaseSleepKeeps, BrelseKeeps DEF Continue
<1>4. ASSUME NEW p \in Proc, NEW n \in Block, Bget(p, n) PROVE IInv' BY <1>4, BgetKeeps
<1>5. ASSUME NEW p \in Proc, NEW v \in Val, Bwrite(p, v) \/ LogWrite(p, v) PROVE IInv'
  BY <1>5, BwriteKeeps, LogWriteKeeps
<1> QED BY <1>1, <1>2, <1>3, <1>4, <1>5 DEF Next

\* It holds in every reachable state.
LEMMA Invariance == ASSUME BuffersAssumption PROVE Spec => []IInv
<1>1. Init => IInv BY InitHolds
<1>2. IInv /\ [Next]_vars => IInv' BY NextKeeps
<1> QED BY <1>1, <1>2, PTL DEF Spec

\* Two buffers never have the same block.
LEMMA AtMostOne ==
  ASSUME IInv, NEW n \in Block, BuffersAssumption
  PROVE  Cardinality(Cached(n)) <= 1
<1>1. \A b, c \in Cached(n) : b = c BY DEF IInv, UsersOK, Cached, BuffersAssumption
<1>2. CASE Cached(n) = {} BY <1>2, FS_EmptySet
<1>3. CASE Cached(n) # {}
  <2>1. PICK b \in Cached(n) : TRUE BY <1>3
  <2>2. Cached(n) = {b} BY <1>1, <2>1
  <2> QED BY <2>2, FS_Singleton
<1> QED BY <1>2, <1>3

\* In every reachable state a block is in one buffer at most, the reference count of a
\* buffer is the number of its users, and who uses the disk holds the lock (bget, brelse and
\* iderw of bio.c and ide.c).
THEOREM CachedOnceAlways == ASSUME BuffersAssumption PROVE Spec => []CachedOnce
<1>1. ASSUME IInv PROVE CachedOnce
  <2>1. \A p \in Proc : pc[p] \in {"hold", "read", "write"} => lock[has[p]] = p
    BY <1>1 DEF IInv, LocksOK, Asks
  <2>2. \A b \in Buf : buf[b].refcnt = Cardinality({p \in Proc : has[p] = b})
    BY <1>1 DEF IInv, UsersOK, Users
  <2> QED BY <1>1, <2>1, <2>2, AtMostOne DEF CachedOnce
<1>2. IInv => CachedOnce BY <1>1
<1> QED BY <1>2, Invariance, PTL

\* bget comes to its panic "no buffers" (bio.c:92) only when the processes in bread,
\* bwrite or brelse and the blocks that the log keeps dirty take all NBUF buffers: none is
\* leaked.  The kernel's numbers do not exclude that (NBUF is LOGSIZE, param.h).
THEOREM BuffersSuffice == ASSUME BuffersAssumption PROVE Spec => []BuffersLeft
<1>1. IInv => BuffersLeft BY AllNeeded DEF BuffersLeft, OutOfBuffers
<1> QED BY <1>1, Invariance, PTL

\* No wake-up is lost between iderw and ideintr, nor between acquiresleep and releasesleep.
THEOREM NoWakeupLost == ASSUME BuffersAssumption PROVE Spec => []NoLostWakeup
<1>1. ASSUME IInv, NEW p \in asleep, pc[p] # "acquire" PROVE Contains(queue, has[p]) /\ drive # Idle
  <2>1. Contains(queue, has[p]) BY <1>1 DEF IInv, SleepersOK
  <2>2. queue # <<>>
    <3> SUFFICES ASSUME queue = <<>> PROVE FALSE OBVIOUS
    <3>1. Len(queue) = 0 BY EmptySeq
    <3> QED BY <2>1, <3>1 DEF Contains
  <2>3. drive.blockno \in Block BY <1>1, <2>2, UnderWay DEF Command
  <2>4. drive # Idle BY <2>3 DEF Idle, BuffersAssumption
  <2> QED BY <2>1, <2>4
<1>2. IInv => NoLostWakeup BY <1>1 DEF NoLostWakeup, IInv, SleepersOK
<1> QED BY <1>2, Invariance, PTL

\* All variables have their types, and the list of bio.c has every buffer.
THEOREM TypeCorrect == ASSUME BuffersAssumption PROVE Spec => []TypeOK
<1>1. ASSUME IInv
      PROVE  buf \in [Buf -> [blockno : Block \cup {NONE}, valid : BOOLEAN, dirty : BOOLEAN,
                              refcnt : 0 .. Cardinality(Proc), data : Val]]
  <2>1. \A b \in Buf : buf[b].refcnt \in 0 .. Cardinality(Proc) BY <1>1, FiniteUsers
  <2> QED BY <1>1, <2>1 DEF IInv, Typed, Buffer
<1>2. IInv => TypeOK BY <1>1 DEF IInv, Typed, ListOK, TypeOK
<1> QED BY <1>2, Invariance, PTL

-----------------------------------------------------------------------------
(* The blocks are registers (BlockStore.tla). *)

\* What a block contains is what is in its buffer when that is dirty, and what is on the disk
\* when not.
ValuesRight == \A n \in Block :
  /\ \A b \in Buf : buf[b].blockno = n /\ buf[b].dirty => ValueOf(n) = buf[b].data
  /\ (\A b \in Buf : buf[b].blockno = n => ~buf[b].dirty) => ValueOf(n) = disk[n]
  /\ ValueOf(n) \in Val

\* The refinement map gives these values.
LEMMA ValuesAre == ASSUME BuffersAssumption PROVE IInv => ValuesRight
<1> SUFFICES ASSUME IInv, NEW n \in Block
             PROVE  /\ \A b \in Buf : buf[b].blockno = n /\ buf[b].dirty => ValueOf(n) = buf[b].data
                    /\ (\A b \in Buf : buf[b].blockno = n => ~buf[b].dirty) => ValueOf(n) = disk[n]
                    /\ ValueOf(n) \in Val
  BY DEF ValuesRight
<1> DEFINE V == {b \in Cached(n) : buf[b].valid}
<1>1. /\ \A b \in Buf : /\ buf[b].dirty => buf[b].valid
                        /\ buf[b].valid /\ ~buf[b].dirty => buf[b].data = disk[buf[b].blockno]
      /\ \A b, c \in Buf : buf[b].blockno = n /\ buf[c].blockno = n => b = c
  BY DEF IInv, ContentsOK, UsersOK, BuffersAssumption
<1>2. disk[n] \in Val /\ \A b \in Buf : buf[b].data \in Val BY DEF IInv, Typed, Buffer
<1>3. CASE V = {}
  <2>1. ValueOf(n) = disk[n] BY <1>3 DEF ValueOf
  <2>2. \A b \in Buf : buf[b].blockno = n => ~buf[b].dirty BY <1>1, <1>3 DEF Cached
  <2> QED BY <1>2, <2>1, <2>2
<1>4. CASE V # {}
  <2> DEFINE c == CHOOSE b \in V : TRUE
  <2>1. c \in V BY <1>4
  <2>2. ValueOf(n) = buf[c].data BY <1>4 DEF ValueOf
  <2>3. c \in Buf /\ buf[c].blockno = n /\ buf[c].valid BY <2>1 DEF Cached
  <2> HIDE DEF c
  <2> QED BY <1>1, <1>2, <2>2, <2>3
<1> QED BY <1>3, <1>4

Owns(p, n) == pc[p] \in {"hold", "write"} /\ buf[has[p]].blockno = n

\* Who has a block is who holds the lock of its buffer.
OwnersRight == \A n \in Block :
  /\ \A p \in Proc : OwnerOf(n) = p <=> Owns(p, n)
  /\ (\A p \in Proc : ~Owns(p, n)) => OwnerOf(n) = NONE

\* The refinement map gives these owners: the lock has one holder.
LEMMA OwnersAre == ASSUME BuffersAssumption PROVE IInv => OwnersRight
<1> SUFFICES ASSUME IInv, NEW n \in Block
             PROVE  /\ \A p \in Proc : OwnerOf(n) = p <=> Owns(p, n)
                    /\ (\A p \in Proc : ~Owns(p, n)) => OwnerOf(n) = NONE
  BY DEF OwnersRight
<1> DEFINE O == {p \in Proc : pc[p] \in {"hold", "write"} /\ has[p] \in Cached(n)}
<1>1. \A p \in Proc : p \in O <=> Owns(p, n) BY HasBuffer DEF Owns, Cached
<1>2. \A p, q \in O : p = q
  <2> SUFFICES ASSUME NEW p \in O, NEW q \in O PROVE p = q OBVIOUS
  <2>1. has[p] = has[q] BY DEF Cached, IInv, UsersOK, BuffersAssumption
  <2>2. lock[has[p]] = p /\ lock[has[q]] = q BY DEF IInv, LocksOK, Asks
  <2> QED BY <2>1, <2>2
<1>3. NONE \notin Proc /\ O \subseteq Proc BY DEF BuffersAssumption
<1>4. CASE O = {}
  <2>1. OwnerOf(n) = NONE BY <1>4 DEF OwnerOf
  <2> QED BY <1>1, <1>3, <1>4, <2>1
<1>5. CASE O # {}
  <2>1. OwnerOf(n) \in O BY <1>5 DEF OwnerOf
  <2> HIDE DEF O
  <2> QED BY <1>1, <1>2, <1>3, <2>1
<1> QED BY <1>4, <1>5

\* Both before and after a step.
LEMMA BothAre ==
  ASSUME BuffersAssumption
  PROVE  (IInv => ValuesRight /\ OwnersRight) /\ (IInv' => ValuesRight' /\ OwnersRight')
<1>1. IInv => ValuesRight /\ OwnersRight BY ValuesAre, OwnersAre
<1> QED BY <1>1, PTL

Values == [n \in Block |-> ValueOf(n)]
Owners == [n \in Block |-> OwnerOf(n)]

\* A step that leaves the values of all blocks as they are.
LEMMA ValuesStay ==
  ASSUME BuffersAssumption, IInv, IInv', disk' = disk,
         \A b \in Buf : (buf'[b].dirty <=> buf[b].dirty)
                        /\ (buf[b].dirty => buf'[b].blockno = buf[b].blockno /\ buf'[b].data = buf[b].data)
  PROVE  Values' = Values
<1>0. ValuesRight /\ ValuesRight' BY BothAre
<1>1. ASSUME NEW n \in Block PROVE ValueOf(n)' = ValueOf(n)
  <2>1. CASE \E b \in Buf : buf[b].blockno = n /\ buf[b].dirty
    <3>1. PICK b \in Buf : buf[b].blockno = n /\ buf[b].dirty BY <2>1
    <3>2. ValueOf(n) = buf[b].data BY <1>0, <3>1 DEF ValuesRight
    <3>3. buf'[b].blockno = n /\ buf'[b].dirty /\ buf'[b].data = buf[b].data BY <3>1
    <3>4. ValueOf(n)' = buf'[b].data BY <1>0, <3>3 DEF ValuesRight
    <3> QED BY <3>2, <3>3, <3>4
  <2>2. CASE \A b \in Buf : buf[b].blockno = n => ~buf[b].dirty
    <3>1. CASE \E b \in Buf : buf'[b].blockno = n /\ buf'[b].dirty
      <4>1. PICK b \in Buf : buf'[b].blockno = n /\ buf'[b].dirty BY <3>1
      <4> QED BY <2>2, <4>1
    <3>2. CASE \A b \in Buf : buf'[b].blockno = n => ~buf'[b].dirty
      <4>1. ValueOf(n) = disk[n] BY <1>0, <2>2 DEF ValuesRight
      <4>2. ValueOf(n)' = disk'[n] BY <1>0, <3>2 DEF ValuesRight
      <4> QED BY <4>1, <4>2
    <3> QED BY <3>1, <3>2
  <2> QED BY <2>1, <2>2
<1> QED BY <1>1 DEF Values

\* A step that leaves everybody what they have.
LEMMA OwnersStay ==
  ASSUME BuffersAssumption, IInv, IInv', \A q \in Proc, n \in Block : Owns(q, n)' <=> Owns(q, n)
  PROVE  Owners' = Owners
<1>0. OwnersRight /\ OwnersRight' BY BothAre
<1>1. ASSUME NEW n \in Block PROVE OwnerOf(n)' = OwnerOf(n)
  <2>1. CASE \E q \in Proc : Owns(q, n)
    <3>1. PICK q \in Proc : Owns(q, n) BY <2>1
    <3>2. Owns(q, n)' BY <3>1
    <3>3. OwnerOf(n) = q BY <1>0, <3>1 DEF OwnersRight
    <3>4. OwnerOf(n)' = q BY <1>0, <3>2 DEF OwnersRight
    <3> QED BY <3>3, <3>4
  <2>2. CASE \A q \in Proc : ~Owns(q, n)
    <3>1. \A q \in Proc : ~Owns(q, n)' BY <2>2
    <3>2. OwnerOf(n) = NONE BY <1>0, <2>2 DEF OwnersRight
    <3>3. OwnerOf(n)' = NONE BY <1>0, <3>1 DEF OwnersRight
    <3> QED BY <3>2, <3>3
  <2> QED BY <2>1, <2>2
<1> QED BY <1>1 DEF Owners

\* A step in which p gets or gives back block m.
LEMMA OwnerChanges ==
  ASSUME BuffersAssumption, IInv, IInv', NEW p \in Proc, NEW m \in Block,
         \A q \in Proc, n \in Block : q # p \/ n # m => (Owns(q, n)' <=> Owns(q, n))
  PROVE  /\ Owns(p, m)' => Owners' = [Owners EXCEPT ![m] = p]
         /\ Owns(p, m) => Owners[m] = p
         /\ Owns(p, m) /\ ~Owns(p, m)' => Owners' = [Owners EXCEPT ![m] = NONE]
         /\ ~Owns(p, m) /\ Owns(p, m)' => Owners[m] = NONE
<1>0. OwnersRight /\ OwnersRight' BY BothAre
<1>1. ASSUME NEW n \in Block, n # m PROVE OwnerOf(n)' = OwnerOf(n)
  <2>0. \A q \in Proc : Owns(q, n)' <=> Owns(q, n) BY <1>1
  <2>1. CASE \E q \in Proc : Owns(q, n)
    <3>1. PICK q \in Proc : Owns(q, n) BY <2>1
    <3>2. Owns(q, n)' BY <2>0, <3>1
    <3>3. OwnerOf(n) = q BY <1>0, <3>1 DEF OwnersRight
    <3>4. OwnerOf(n)' = q BY <1>0, <3>2 DEF OwnersRight
    <3> QED BY <3>3, <3>4
  <2>2. CASE \A q \in Proc : ~Owns(q, n)
    <3>1. \A q \in Proc : ~Owns(q, n)' BY <2>0, <2>2
    <3>2. OwnerOf(n) = NONE BY <1>0, <2>2 DEF OwnersRight
    <3>3. OwnerOf(n)' = NONE BY <1>0, <3>1 DEF OwnersRight
    <3> QED BY <3>2, <3>3
  <2> QED BY <2>1, <2>2
<1>2. Owners' = [n \in Block |-> IF n = m THEN OwnerOf(m)' ELSE Owners[n]] BY <1>1 DEF Owners
<1>3. \A q \in Proc \ {p} : Owns(q, m)' <=> Owns(q, m) OBVIOUS
<1>4. Owns(p, m) => OwnerOf(m) = p BY <1>0 DEF OwnersRight
<1>5. Owns(p, m)' => OwnerOf(m)' = p BY <1>0 DEF OwnersRight
<1>6. \A x : OwnerOf(m)' = x => Owners' = [Owners EXCEPT ![m] = x] BY <1>2 DEF Owners
<1>7. ASSUME Owns(p, m), ~Owns(p, m)' PROVE OwnerOf(m)' = NONE
  <2>1. \A q \in Proc \ {p} : ~Owns(q, m) BY <1>0, <1>4, <1>7 DEF OwnersRight
  <2>2. \A q \in Proc : ~Owns(q, m)' BY <1>3, <1>7, <2>1
  <2> QED BY <1>0, <2>2 DEF OwnersRight
<1>8. ASSUME ~Owns(p, m), Owns(p, m)' PROVE OwnerOf(m) = NONE
  <2>1. \A q \in Proc \ {p} : ~Owns(q, m)' BY <1>0, <1>5, <1>8 DEF OwnersRight
  <2>2. \A q \in Proc : ~Owns(q, m) BY <1>3, <1>8, <2>1
  <2> QED BY <1>0, <2>2 DEF OwnersRight
<1> QED BY <1>4, <1>5, <1>6, <1>7, <1>8 DEF Owners

\* What a block owner puts into its buffer is what the block contains.
LEMMA ValueChanges ==
  ASSUME BuffersAssumption, IInv, IInv', NEW b \in Buf, NEW m \in Block, buf[b].blockno = m,
         disk' = disk, \A c \in Buf \ {b} : buf'[c] = buf[c], buf'[b].blockno = m, buf'[b].dirty
  PROVE  Values' = [Values EXCEPT ![m] = buf'[b].data]
<1>0. ValuesRight /\ ValuesRight' BY BothAre
<1>1. ValueOf(m)' = buf'[b].data BY <1>0 DEF ValuesRight
<1>2. ASSUME NEW n \in Block, n # m PROVE ValueOf(n)' = ValueOf(n)
  <2>1. \A c \in Buf : (buf'[c].blockno = n <=> buf[c].blockno = n)
                       /\ (buf[c].blockno = n => buf'[c] = buf[c]) BY <1>2
  <2>2. CASE \E c \in Buf : buf[c].blockno = n /\ buf[c].dirty
    <3>1. PICK c \in Buf : buf[c].blockno = n /\ buf[c].dirty BY <2>2
    <3>2. ValueOf(n) = buf[c].data BY <1>0, <3>1 DEF ValuesRight
    <3>3. buf'[c] = buf[c] BY <2>1, <3>1
    <3>4. ValueOf(n)' = buf'[c].data BY <1>0, <3>1, <3>3 DEF ValuesRight
    <3> QED BY <3>2, <3>3, <3>4
  <2>3. CASE \A c \in Buf : buf[c].blockno = n => ~buf[c].dirty
    <3>1. \A c \in Buf : buf'[c].blockno = n => ~buf'[c].dirty BY <2>1, <2>3
    <3>2. ValueOf(n) = disk[n] BY <1>0, <2>3 DEF ValuesRight
    <3>3. ValueOf(n)' = disk'[n] BY <1>0, <3>1 DEF ValuesRight
    <3> QED BY <3>2, <3>3
  <2> QED BY <2>2, <2>3
<1> QED BY <1>1, <1>2 DEF Values

\* To the callers bget is a stutter: the buffer it takes over is not dirty.
LEMMA BgetMaps ==
  ASSUME BuffersAssumption, IInv, NEW p \in Proc, NEW n \in Block, Bget(p, n)
  PROVE  UNCHANGED <<Values, Owners>>
<1>0. IInv' BY BgetKeeps
<1>1. PICK b : /\ b \in IF Cached(n) # {} THEN Cached(n) ELSE {Oldest(Free)}
               /\ buf' = IF Cached(n) # {} THEN [buf EXCEPT ![b].refcnt = @ + 1]
                         ELSE [buf EXCEPT ![b].blockno = n, ![b].valid = FALSE, ![b].dirty = FALSE,
                                          ![b].refcnt = 1]
               /\ has' = [has EXCEPT ![p] = b]
  BY DEF Bget
<1>2. /\ pc[p] = "idle" /\ pc' = [pc EXCEPT ![p] = "acquire"] /\ disk' = disk /\ p \in load.procs
  BY DEF Bget, At, Go
<1>3. buf \in [Buf -> Buffer] /\ has \in [Proc -> Buf \cup {NONE}] /\ pc \in [Proc -> Places] /\ ListOK
  BY DEF IInv, Typed
\* The buffer has the block already, or belongs to nobody.
<1>4. /\ b \in Buf /\ \A c \in Buf \ {b} : buf'[c] = buf[c]
      /\ \/ /\ buf'[b].blockno = buf[b].blockno /\ (buf'[b].dirty <=> buf[b].dirty)
            /\ buf'[b].data = buf[b].data
         \/ Users(b) = {} /\ ~buf[b].dirty /\ ~buf'[b].dirty
  <2>1. CASE Cached(n) # {}
    <3>1. b \in Buf /\ buf' = [buf EXCEPT ![b].refcnt = @ + 1] BY <1>1, <2>1 DEF Cached
    <3> QED BY ONLY <1>3, <3>1 DEF Buffer
  <2>2. CASE Cached(n) = {}
    <3>1. Free # {} /\ Free \in SUBSET Buf BY <2>2 DEF Bget, OutOfBuffers, Free
    <3>2. b \in Free BY <1>1, <1>3, <2>2, <3>1, OldestIn
    <3>3. b \in Buf /\ Users(b) = {} /\ ~buf[b].dirty BY <3>1, <3>2, FiniteUsers DEF Free
    <3>4. buf' = [buf EXCEPT ![b].blockno = n, ![b].valid = FALSE, ![b].dirty = FALSE, ![b].refcnt = 1]
      BY <1>1, <2>2
    <3>5. buf'[b] = [buf[b] EXCEPT !.blockno = n, !.valid = FALSE, !.dirty = FALSE, !.refcnt = 1]
          /\ \A c \in Buf \ {b} : buf'[c] = buf[c]
      BY ONLY <1>3, <3>3, <3>4
    <3>6. buf[b] \in Buffer BY <1>3, <3>3
    <3>7. ~buf'[b].dirty BY ONLY <3>5, <3>6 DEF Buffer
    <3> QED BY <3>3, <3>5, <3>7
  <2> QED BY <2>1, <2>2
<1>5. Values' = Values BY <1>0, <1>2, <1>4, ValuesStay
<1>6. ASSUME NEW q \in Proc, NEW m \in Block PROVE Owns(q, m)' <=> Owns(q, m)
  <2>1. CASE q = p BY <1>2, <1>3, <2>1 DEF Owns
  <2>2. CASE q # p
    <3>1. pc'[q] = pc[q] /\ has'[q] = has[q] BY <1>1, <1>2, <1>3, <2>2
    <3>2. pc[q] \in {"hold", "write"} => buf'[has[q]].blockno = buf[has[q]].blockno
      <4>1. pc[q] \in {"hold", "write"} => has[q] \in Buf /\ q \in Users(has[q]) BY HasBuffer
      <4> QED BY <1>4, <4>1
    <3> QED BY <3>1, <3>2 DEF Owns
  <2> QED BY <2>1, <2>2
<1>7. Owners' = Owners BY <1>0, <1>6, OwnersStay
<1> QED BY <1>5, <1>7

\* Queueing a request is a stutter too.
LEMMA IderwMaps ==
  ASSUME BuffersAssumption, IInv, NEW p \in Proc, Iderw(p) PROVE UNCHANGED <<Values, Owners>>
<1>0. IInv' BY IderwKeeps
<1>1. buf' = buf /\ disk' = disk /\ pc' = pc /\ has' = has BY DEF Iderw
<1>2. Values' = Values BY <1>0, <1>1, ValuesStay
<1>3. Owners' = Owners BY <1>0, <1>1, OwnersStay DEF Owns
<1> QED BY <1>2, <1>3

\* What was in the buffer is on the disk now, and what was on the disk in the buffer.
LEMMA IdeintrMaps ==
  ASSUME BuffersAssumption, IInv, Ideintr PROVE UNCHANGED <<Values, Owners>>
<1> DEFINE b == Head(queue)
           m == buf[b].blockno
<1>0. IInv' /\ ValuesRight /\ ValuesRight'
  <2>1. IInv' BY IdeintrKeeps
  <2> QED BY <2>1, BothAre
<1>1. /\ queue # <<>> /\ pc' = pc /\ has' = has
      /\ disk' = IF drive.writes THEN [disk EXCEPT ![drive.blockno] = drive.data] ELSE disk
      /\ buf' = [buf EXCEPT ![b].data = IF buf[b].dirty THEN @ ELSE disk[drive.blockno],
                            ![b].valid = TRUE, ![b].dirty = FALSE]
  BY DEF Ideintr
<1>2. b \in Buf /\ drive = Command(b) /\ m \in Block /\ buf[b] \in Buffer BY <1>1, UnderWay
<1>3. buf \in [Buf -> Buffer] /\ disk \in [Block -> Val] BY DEF IInv, Typed
<1>4. drive.blockno = m /\ (drive.writes <=> buf[b].dirty) /\ drive.data = buf[b].data
  BY <1>2 DEF Command
<1> HIDE DEF b
<1>5. /\ \A c \in Buf \ {b} : buf'[c] = buf[c]
      /\ buf'[b].blockno = buf[b].blockno /\ ~buf'[b].dirty
  <2>1. PICK x : buf' = [buf EXCEPT ![b].data = x, ![b].valid = TRUE, ![b].dirty = FALSE] BY <1>1
  <2>2. buf'[b] = [buf[b] EXCEPT !.data = x, !.valid = TRUE, !.dirty = FALSE]
        /\ \A c \in Buf \ {b} : buf'[c] = buf[c]
    BY ONLY <1>2, <1>3, <2>1
  <2> QED BY ONLY <1>2, <2>2 DEF Buffer
<1>6. \A n \in Block : disk'[n] = IF n = m /\ buf[b].dirty THEN buf[b].data ELSE disk[n]
  BY <1>1, <1>2, <1>3, <1>4
<1>7. ASSUME NEW n \in Block PROVE ValueOf(n)' = ValueOf(n)
  <2>1. CASE \E c \in Buf \ {b} : buf[c].blockno = n /\ buf[c].dirty
    <3>1. PICK c \in Buf \ {b} : buf[c].blockno = n /\ buf[c].dirty BY <2>1
    <3>2. ValueOf(n) = buf[c].data BY <1>0, <3>1 DEF ValuesRight
    <3>3. buf'[c] = buf[c] BY <1>5, <3>1
    <3>4. ValueOf(n)' = buf'[c].data BY <1>0, <3>1, <3>3 DEF ValuesRight
    <3> QED BY <3>2, <3>3, <3>4
  <2>2. CASE \A c \in Buf \ {b} : buf[c].blockno = n => ~buf[c].dirty
    <3>1. \A c \in Buf : buf'[c].blockno = n => ~buf'[c].dirty BY <1>5, <2>2
    <3>2. ValueOf(n)' = disk'[n] BY <1>0, <3>1 DEF ValuesRight
    <3>3. CASE n = m /\ buf[b].dirty
      <4>1. ValueOf(n) = buf[b].data BY <1>0, <1>2, <3>3 DEF ValuesRight
      <4> QED BY <1>6, <3>2, <3>3, <4>1
    <3>4. CASE ~(n = m /\ buf[b].dirty)
      <4>1. \A c \in Buf : buf[c].blockno = n => ~buf[c].dirty BY <2>2, <3>4
      <4>2. ValueOf(n) = disk[n] BY <1>0, <4>1 DEF ValuesRight
      <4> QED BY <1>6, <3>2, <3>4, <4>2
    <3> QED BY <3>3, <3>4
  <2> QED BY <2>1, <2>2
<1>8. ASSUME NEW q \in Proc, NEW n \in Block PROVE Owns(q, n)' <=> Owns(q, n)
  <2>1. pc[q] \in {"hold", "write"} => has[q] \in Buf BY HasBuffer
  <2> QED BY <1>1, <1>5, <2>1 DEF Owns
<1>9. Owners' = Owners BY <1>0, <1>8, OwnersStay
<1> QED BY <1>7, <1>9 DEF Values

\* Whoever gets the lock of a buffer that is valid has the block.
LEMMA AcquireSleepMaps ==
  ASSUME BuffersAssumption, IInv, NEW p \in Proc, AcquireSleep(p)
  PROVE  Values' = Values /\ (Owners' = Owners \/ \E m \in Block : Store!Get(p, m))
<1>0. IInv' BY AcquireSleepKeeps
<1>1. buf' = buf /\ disk' = disk /\ has' = has /\ pc[p] = "acquire" BY DEF AcquireSleep, At
<1>2. Values' = Values BY <1>0, <1>1, ValuesStay
<1>3. PICK b \in Buf, m \in Block : b = has[p] /\ m = buf[b].blockno BY <1>1, HasBuffer
<1>4. CASE lock[b] # NONE
  <2>1. pc' = pc BY <1>3, <1>4 DEF AcquireSleep
  <2>2. Owners' = Owners BY <1>0, <1>1, <2>1, OwnersStay DEF Owns
  <2> QED BY <1>2, <2>2
<1>5. CASE lock[b] = NONE
  <2>1. pc' = [pc EXCEPT ![p] = IF buf[b].valid THEN "hold" ELSE "read"] BY <1>3, <1>5 DEF AcquireSleep, Go
  <2>2. pc'[p] \in {"hold", "read"} /\ \A q \in Proc \ {p} : pc'[q] = pc[q] BY <2>1 DEF IInv, Typed
  <2>3. \A q \in Proc, n \in Block : q # p \/ n # m => (Owns(q, n)' <=> Owns(q, n))
    BY <1>1, <1>3, <2>2 DEF Owns
  <2>4. ~Owns(p, m) BY <1>1 DEF Owns
  <2>5. CASE pc'[p] = "read"
    <3>1. ~Owns(p, m)' BY <2>5 DEF Owns
    <3>2. Owners' = Owners BY <1>0, <2>3, <2>4, <3>1, OwnersStay
    <3> QED BY <1>2, <3>2
  <2>6. CASE pc'[p] = "hold"
    <3>1. Owns(p, m)' BY <1>1, <1>3, <2>6 DEF Owns
    <3>2. Owners[m] = NONE /\ Owners' = [Owners EXCEPT ![m] = p]
      BY <1>0, <1>3, <2>3, <2>4, <3>1, OwnerChanges
    <3>3. Store!Get(p, m) BY <1>2, <3>2 DEF Store!Get, Values, Owners
    <3> QED BY <1>2, <1>3, <3>3
  <2> QED BY <2>2, <2>5, <2>6
<1> QED BY <1>4, <1>5

\* Whoever waited for a block to be read has it; whoever wrote one had it already.
LEMMA IderwDoneMaps ==
  ASSUME BuffersAssumption, IInv, NEW p \in Proc, IderwDone(p)
  PROVE  Values' = Values /\ (Owners' = Owners \/ \E m \in Block : Store!Get(p, m))
<1>0. IInv' BY IderwDoneKeeps
<1>1. /\ buf' = buf /\ disk' = disk /\ has' = has /\ pc[p] \in {"read", "write"}
      /\ pc' = [pc EXCEPT ![p] = "hold"]
  BY DEF IderwDone, Go
<1>2. Values' = Values BY <1>0, <1>1, ValuesStay
<1>3. PICK m \in Block : m = buf[has[p]].blockno BY <1>1, HasBuffer
<1>4. pc'[p] = "hold" /\ \A q \in Proc \ {p} : pc'[q] = pc[q] BY <1>1 DEF IInv, Typed
<1>5. \A q \in Proc, n \in Block : q # p \/ n # m => (Owns(q, n)' <=> Owns(q, n))
  BY <1>1, <1>3, <1>4 DEF Owns
<1>6. Owns(p, m)' BY <1>1, <1>3, <1>4 DEF Owns
<1>7. CASE pc[p] = "write"
  <2>1. Owns(p, m) BY <1>3, <1>7 DEF Owns
  <2>2. Owners' = Owners BY <1>0, <1>5, <1>6, <2>1, OwnersStay
  <2> QED BY <1>2, <2>2
<1>8. CASE pc[p] = "read"
  <2>1. ~Owns(p, m) BY <1>8 DEF Owns
  <2>2. Owners[m] = NONE /\ Owners' = [Owners EXCEPT ![m] = p]
    BY <1>0, <1>3, <1>5, <1>6, <2>1, OwnerChanges
  <2>3. Store!Get(p, m) BY <1>2, <2>2 DEF Store!Get, Values, Owners
  <2> QED BY <1>2, <1>3, <2>3
<1> QED BY <1>1, <1>7, <1>8

\* bwrite and log_write change the block of the caller.
LEMMA WriteMaps ==
  ASSUME BuffersAssumption, IInv, NEW p \in Proc, NEW v \in Val, Bwrite(p, v) \/ LogWrite(p, v)
  PROVE  \E m \in Block : Store!Change(p, m)
<1>0. IInv' BY BwriteKeeps, LogWriteKeeps
<1>1. /\ buf' = [buf EXCEPT ![has[p]].data = v, ![has[p]].dirty = TRUE] /\ pc[p] = "hold"
      /\ disk' = disk /\ has' = has
      /\ pc' = [pc EXCEPT ![p] = "write"] \/ pc' = pc
  BY DEF Bwrite, LogWrite, At, Go
<1>2. PICK b \in Buf, m \in Block : b = has[p] /\ m = buf[b].blockno /\ buf[b] \in Buffer
  BY <1>1, HasBuffer
<1>3. buf \in [Buf -> Buffer] /\ pc \in [Proc -> Places] BY DEF IInv, Typed
<1>4. /\ buf'[b].blockno = m /\ buf'[b].dirty /\ buf'[b].data = v
      /\ \A c \in Buf \ {b} : buf'[c] = buf[c]
  <2>1. buf'[b] = [buf[b] EXCEPT !.data = v, !.dirty = TRUE] /\ \A c \in Buf \ {b} : buf'[c] = buf[c]
    BY ONLY <1>1, <1>2, <1>3
  <2> QED BY ONLY <1>2, <2>1 DEF Buffer
<1>5. Values' = [Values EXCEPT ![m] = v]
  <2>1. buf[b].blockno = m /\ disk' = disk BY <1>1, <1>2
  <2>2. Values' = [Values EXCEPT ![m] = buf'[b].data]
    BY ONLY BuffersAssumption, IInv, <1>0, <1>4, <2>1, ValueChanges
  <2> QED BY <1>4, <2>2
<1>6. ASSUME NEW q \in Proc, NEW n \in Block PROVE Owns(q, n)' <=> Owns(q, n)
  <2>1. pc'[q] \in {"hold", "write"} <=> pc[q] \in {"hold", "write"} BY <1>1, <1>3
  <2>2. pc[q] \in {"hold", "write"} => buf'[has[q]].blockno = buf[has[q]].blockno
    <3>1. pc[q] \in {"hold", "write"} => has[q] \in Buf BY HasBuffer
    <3> QED BY <1>2, <1>4, <3>1
  <2> QED BY <1>1, <2>1, <2>2 DEF Owns
<1>7. Owners' = Owners BY <1>0, <1>6, OwnersStay
<1>8. Owners[m] = p
  <2>1. Owns(p, m) BY <1>1, <1>2 DEF Owns
  <2>2. \A q \in Proc, n \in Block : q # p \/ n # m => (Owns(q, n)' <=> Owns(q, n)) BY <1>6
  <2> QED BY <1>0, <1>2, <2>1, <2>2, OwnerChanges
<1>9. Store!Change(p, m) BY <1>5, <1>7, <1>8 DEF Store!Change, Values, Owners
<1> QED BY <1>2, <1>9

\* releasesleep gives the block back.
LEMMA ReleaseSleepMaps ==
  ASSUME BuffersAssumption, IInv, NEW p \in Proc, ReleaseSleep(p)
  PROVE  \E m \in Block : Store!Release(p, m)
<1>0. IInv' BY ReleaseSleepKeeps
<1>1. buf' = buf /\ disk' = disk /\ has' = has /\ pc[p] = "hold" /\ pc' = [pc EXCEPT ![p] = "brelse"]
  BY DEF ReleaseSleep, At, Go
<1>2. Values' = Values BY <1>0, <1>1, ValuesStay
<1>3. PICK m \in Block : m = buf[has[p]].blockno BY <1>1, HasBuffer
<1>4. pc'[p] = "brelse" /\ \A q \in Proc \ {p} : pc'[q] = pc[q] BY <1>1 DEF IInv, Typed
<1>5. \A q \in Proc, n \in Block : q # p \/ n # m => (Owns(q, n)' <=> Owns(q, n))
  BY <1>1, <1>3, <1>4 DEF Owns
<1>6. Owns(p, m) /\ ~Owns(p, m)' BY <1>1, <1>3, <1>4 DEF Owns
<1>7. Owners[m] = p /\ Owners' = [Owners EXCEPT ![m] = NONE]
  BY <1>0, <1>3, <1>5, <1>6, OwnerChanges
<1>8. Store!Release(p, m) BY <1>2, <1>7 DEF Store!Release, Values, Owners
<1> QED BY <1>3, <1>8

\* brelse is a stutter: the block was given back before.
LEMMA BrelseMaps ==
  ASSUME BuffersAssumption, IInv, NEW p \in Proc, Brelse(p) PROVE UNCHANGED <<Values, Owners>>
<1>0. IInv' BY BrelseKeeps
<1>1. /\ pc[p] = "brelse" /\ pc' = [pc EXCEPT ![p] = "idle"] /\ has' = [has EXCEPT ![p] = NONE]
      /\ buf' = [buf EXCEPT ![has[p]].refcnt = @ - 1] /\ disk' = disk
  BY DEF Brelse, At, Go
<1>2. /\ buf \in [Buf -> Buffer] /\ has \in [Proc -> Buf \cup {NONE}] /\ pc \in [Proc -> Places]
      /\ has[p] \in Buf
  BY <1>1, HasBuffer DEF IInv, Typed
<1>3. \A b \in Buf : /\ buf'[b].blockno = buf[b].blockno /\ (buf'[b].dirty <=> buf[b].dirty)
                     /\ buf'[b].data = buf[b].data
  BY ONLY <1>1, <1>2 DEF Buffer
<1>4. Values' = Values BY <1>0, <1>1, <1>3, ValuesStay
<1>5. ASSUME NEW q \in Proc, NEW n \in Block PROVE Owns(q, n)' <=> Owns(q, n)
  <2>1. CASE q = p BY <1>1, <1>2, <2>1 DEF Owns
  <2>2. CASE q # p
    <3>1. pc'[q] = pc[q] /\ has'[q] = has[q] BY <1>1, <1>2, <2>2
    <3>2. pc[q] \in {"hold", "write"} => has[q] \in Buf BY HasBuffer
    <3> QED BY <1>3, <3>1, <3>2 DEF Owns
  <2> QED BY <2>1, <2>2
<1>6. Owners' = Owners BY <1>0, <1>5, OwnersStay
<1> QED BY <1>4, <1>6

\* At first everything is on the disk, and nobody has a block.
LEMMA InitMaps == ASSUME BuffersAssumption, Init PROVE Store!Init
<1>1. IInv /\ ValuesRight /\ OwnersRight
  <2>1. IInv BY InitHolds
  <2> QED BY <2>1, BothAre
<1>2. Values \in [Block -> Val] BY <1>1 DEF Values, ValuesRight
<1>3. \A p \in Proc, n \in Block : ~Owns(p, n) BY DEF Init, Owns
<1>4. Owners = [n \in Block |-> NONE] BY <1>1, <1>3 DEF Owners, OwnersRight
<1> QED BY <1>2, <1>4 DEF Store!Init, Values, Owners

\* Every step of the cache is one of the store, or none.
LEMMA StepMaps ==
  ASSUME BuffersAssumption, IInv, [Next]_vars PROVE Store!Next \/ UNCHANGED <<Values, Owners>>
<1>1. CASE UNCHANGED vars
  BY <1>1 DEF vars, Values, Owners, ValueOf, OwnerOf, Cached
<1>2. CASE Ideintr BY <1>2, IdeintrMaps
<1>3. ASSUME NEW p \in Proc, Continue(p) PROVE Store!Next \/ UNCHANGED <<Values, Owners>>
  <2>1. CASE AcquireSleep(p) BY <2>1, AcquireSleepMaps DEF Store!Next
  <2>2. CASE Iderw(p) BY <2>2, IderwMaps
  <2>3. CASE IderwDone(p) BY <2>3, IderwDoneMaps DEF Store!Next
  <2>4. CASE ReleaseSleep(p) BY <2>4, ReleaseSleepMaps DEF Store!Next
  <2>5. CASE Brelse(p) BY <2>5, BrelseMaps
  <2> QED BY <1>3, <2>1, <2>2, <2>3, <2>4, <2>5 DEF Continue
<1>4. ASSUME NEW p \in Proc, NEW n \in Block, Bget(p, n)
      PROVE  UNCHANGED <<Values, Owners>> BY <1>4, BgetMaps
<1>5. ASSUME NEW p \in Proc, NEW v \in Val, Bwrite(p, v) \/ LogWrite(p, v)
      PROVE  Store!Next BY <1>5, WriteMaps DEF Store!Next
<1> QED BY <1>1, <1>2, <1>3, <1>4, <1>5 DEF Next

\* The buffer cache implements BlockStore: one process at a time has a block, it sees what was
\* last put there, and evicting, reading and writing behind its back change nothing (bread,
\* bwrite, brelse and ideintr).
THEOREM BlocksAlwaysRegisters == ASSUME BuffersAssumption PROVE Spec => BlocksAreRegisters
<1>1. Init => Store!Init BY InitMaps
<1>2. IInv /\ [Next]_vars => [Store!Next]_(Store!vars)
  BY StepMaps DEF Store!vars, Values, Owners
<1> QED BY <1>1, <1>2, Invariance, PTL DEF Spec, BlocksAreRegisters, Store!Spec
=============================================================================
