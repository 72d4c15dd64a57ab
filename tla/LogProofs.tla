------------------------------ MODULE LogProofs ------------------------------
(***************************************************************************)
(* The log implements StableStore for every number of processes and blocks *)
(* and every size of the log: system calls are atomic across crashes.      *)
(***************************************************************************)
EXTENDS Log, FiniteSetTheorems, TLAPS

\* The lookup of Restored finds the only log block of a home block.
LEMMA LookupOK ==
  ASSUME NEW s \in Seq(Block), Distinct(s), NEW i \in 1 .. Len(s)
  PROVE  (CHOOSE j \in 1 .. Len(s) : s[j] = s[i]) = i
BY DEF Distinct

LEMMA ReplayValue ==
  ASSUME NEW h \in Seq(Block), Distinct(h), NEW s, NEW d
  PROVE  /\ \A i \in 1 .. Len(h) : Replay(h, s, d)[h[i]] = s[i]
         /\ \A b \in Block \ Elems(h) : Replay(h, s, d)[b] = d[b]
<1>1. ASSUME NEW i \in 1 .. Len(h) PROVE Replay(h, s, d)[h[i]] = s[i]
  <2>1. h[i] \in Block /\ h[i] \in Elems(h) BY DEF Elems
  <2>2. (CHOOSE j \in 1 .. Len(h) : h[j] = h[i]) = i BY LookupOK
  <2> QED BY <2>1, <2>2 DEF Replay
<1> QED BY <1>1 DEF Replay

\* A function on blocks is what Replay gives once it gives the same blocks.
LEMMA ReplayIs ==
  ASSUME NEW h \in Seq(Block), Distinct(h), NEW s, NEW d,
         NEW f, f = [b \in Block |-> f[b]],
         \A i \in 1 .. Len(h) : f[h[i]] = s[i],
         \A b \in Block \ Elems(h) : f[b] = d[b]
  PROVE  Replay(h, s, d) = f
<1>1. ASSUME NEW b \in Block PROVE Replay(h, s, d)[b] = f[b]
  <2>1. CASE b \in Elems(h)
    <3>1. PICK i \in 1 .. Len(h) : b = h[i] BY <2>1 DEF Elems
    <3> QED BY <3>1, ReplayValue
  <2>2. CASE b \notin Elems(h) BY <2>2, ReplayValue
  <2> QED BY <2>1, <2>2
<1>2. Replay(h, s, d) = [b \in Block |-> Replay(h, s, d)[b]] BY DEF Replay
<1> QED BY <1>1, <1>2

\* Replay changes nothing once every block of the log is home.
LEMMA ReplayInstalled ==
  ASSUME NEW h \in Seq(Block), Distinct(h), NEW s, NEW d,
         \A i \in 1 .. Len(h) : d[h[i]] = s[i]
  PROVE  Replay(h, s, d) = [b \in Block |-> d[b]]
<1>1. ASSUME NEW b \in Block PROVE Replay(h, s, d)[b] = d[b]
  <2>1. CASE b \in Elems(h)
    <3>1. PICK i \in 1 .. Len(h) : b = h[i] BY <2>1 DEF Elems
    <3> QED BY <3>1, ReplayValue
  <2>2. CASE b \notin Elems(h) BY <2>2, ReplayValue
  <2> QED BY <2>1, <2>2
<1>2. Replay(h, s, d) = [b \in Block |-> Replay(h, s, d)[b]] BY DEF Replay
<1> QED BY <1>1, <1>2

-----------------------------------------------------------------------------
(* The inductive invariant *)

LEMMA InitHolds == ASSUME LogAssumption, Init PROVE IInv
<1> USE DEF Init
<1>1. TypeOK
  <2>1. home \in [Block -> Val] /\ slot \in [Slots -> Val] BY DEF LogAssumption
  <2>2. hd \in Seq(Block) /\ lh \in Seq(Block) /\ Len(hd) <= LOGSIZE /\ Len(lh) <= LOGSIZE
    BY DEF LogAssumption
  <2>3. cache \in [Block -> Val \cup {NoBuf}] OBVIOUS
  <2>4. tail \in 0 .. LOGSIZE /\ outstanding \in Nat BY DEF LogAssumption
  <2>5. pc \in [Proc -> Places] /\ used \in [Proc -> SUBSET Block] BY DEF Places
  <2> QED BY <2>1, <2>2, <2>3, <2>4, <2>5 DEF TypeOK, Phases
<1>2. OpsOK
  <2>1. Ops = {} BY DEF Ops
  <2> QED BY <2>1, FS_EmptySet DEF OpsOK
<1>3. LogOK BY DEF LogOK, Distinct
<1>4. CacheOK BY DEF CacheOK
<1> QED BY <1>1, <1>2, <1>3, <1>4 DEF IInv

\* Whoever is inside a system call sees neither a commit nor recovery.
LEMMA QuietInOp ==
  ASSUME IInv, NEW p \in Proc, pc[p] = "op"
  PROVE  phase = "none" /\ ~committing
BY DEF IInv, OpsOK, Ops

LEMMA QuietAtBegin ==
  ASSUME IInv, ~Recovering, ~committing PROVE phase = "none"
BY DEF IInv, TypeOK, OpsOK, Recovering, Phases

LEMMA ElemsAppend ==
  ASSUME NEW s \in Seq(Block), NEW b \in Block
  PROVE  Elems(Append(s, b)) = Elems(s) \cup {b}
BY DEF Elems

LEMMA BreadKeeps ==
  ASSUME LogAssumption, IInv, NEW b \in Block, Bread(b) PROVE IInv'
<1> USE DEF IInv, Bread, disk
<1>1. TypeOK' BY DEF TypeOK
<1>2. OpsOK' BY DEF OpsOK, Ops
<1>3. LogOK' BY DEF LogOK, Distinct
<1>4. CacheOK'
  <2>1. b \notin dirty
    <3>1. CASE phase \in {"none", "log", "done"} BY <3>1 DEF CacheOK
    <3>2. CASE phase \notin {"none", "log", "done"}
      <4>1. phase = "install" /\ committing BY <3>2 DEF Recovering, TypeOK, Phases
      <4>2. \A i \in 1 .. Len(lh) : slot[i] \in Val BY DEF TypeOK, Slots
      <4>3. dirty = {lh[i] : i \in tail + 1 .. Len(lh)}
            /\ \A i \in tail + 1 .. Len(lh) : cache[lh[i]] = slot[i] BY <4>1 DEF CacheOK
      <4>4. \A i \in tail + 1 .. Len(lh) : i \in 1 .. Len(lh) BY DEF TypeOK
      <4> QED BY <4>2, <4>3, <4>4 DEF LogAssumption
    <3> QED BY <3>1, <3>2
  <2>2. \A c \in Block : cache'[c] = IF c = b THEN home[b] ELSE cache[c] BY DEF TypeOK
  <2>3. NoBuf \notin Val /\ home[b] \in Val BY DEF LogAssumption, TypeOK
  <2>4. \A i \in 1 .. Len(lh) : lh[i] \in Elems(lh) /\ lh[i] \in Block BY DEF Elems, TypeOK
  <2>5. \A c \in Block \ dirty : cache'[c] \in {NoBuf, home[c]} BY <2>2 DEF CacheOK
  <2>6. \A c \in dirty : cache'[c] = cache[c] BY <2>1, <2>2 DEF TypeOK
  <2>7. phase = "log" => \A i \in 1 .. tail : lh[i] \in dirty
    BY <2>4 DEF CacheOK, LogOK, TypeOK
  <2>8. phase = "install" /\ committing => \A i \in tail + 1 .. Len(lh) : lh[i] \in dirty
    BY DEF CacheOK
  <2>9. phase # "boot" BY DEF Recovering
  <2> QED BY <2>5, <2>6, <2>7, <2>8, <2>9 DEF CacheOK, Elems
<1> QED BY <1>1, <1>2, <1>3, <1>4

LEMMA EvictKeeps ==
  ASSUME LogAssumption, IInv, NEW b \in Block, Evict(b) PROVE IInv'
<1> USE DEF IInv, Evict, disk
<1>1. TypeOK' BY DEF TypeOK
<1>2. OpsOK' BY DEF OpsOK, Ops
<1>3. LogOK' BY DEF LogOK, Distinct
<1>4. CacheOK'
  <2>1. \A i \in 1 .. Len(lh) : lh[i] \in Elems(lh) BY DEF Elems
  <2> QED BY <2>1 DEF TypeOK, LogAssumption, CacheOK, LogOK, Recovering, Elems, OpsOK
<1> QED BY <1>1, <1>2, <1>3, <1>4

LEMMA BeginOpKeeps ==
  ASSUME LogAssumption, IInv, NEW p \in Proc, BeginOp(p) PROVE IInv'
<1> USE DEF IInv, BeginOp, disk
<1>0. phase = "none" BY QuietAtBegin
<1>1. TypeOK' BY DEF TypeOK, Places
<1>2. OpsOK'
  <2>1. Ops' = Ops \cup {p} /\ p \notin Ops BY DEF Ops, TypeOK
  <2>2. IsFiniteSet(Ops') /\ Cardinality(Ops') = Cardinality(Ops) + 1
    BY <2>1, FS_AddElement DEF OpsOK
  <2> QED BY <1>0, <2>1, <2>2 DEF OpsOK
<1>3. LogOK' BY DEF LogOK, Distinct
<1>4. CacheOK' BY DEF CacheOK, Elems
<1> QED BY <1>1, <1>2, <1>3, <1>4

LEMMA BeginSleepsKeeps ==
  ASSUME IInv, NEW p \in Proc, BeginSleeps(p) PROVE IInv'
<1> USE DEF IInv, BeginSleeps, disk
<1>1. TypeOK' BY DEF TypeOK, Places
<1>2. OpsOK'
  <2>1. Ops' = Ops BY DEF Ops, TypeOK
  <2> QED BY <2>1 DEF OpsOK
<1>3. LogOK' BY DEF LogOK, Distinct
<1>4. CacheOK' BY DEF CacheOK, Elems
<1> QED BY <1>1, <1>2, <1>3, <1>4

LEMMA LogWriteKeeps ==
  ASSUME LogAssumption, IInv, NEW p \in Proc, NEW b \in Block, NEW v \in Val,
         LogWrite(p, b, v)
  PROVE  IInv'
<1> USE DEF IInv, LogWrite, MayLog, disk
<1>0. phase = "none" /\ ~committing BY QuietInOp
<1>1. TypeOK' BY DEF TypeOK, Fits, LogAssumption
<1>2. OpsOK' BY DEF OpsOK, Ops
<1>3. LogOK'
  <2>1. Distinct(lh')
    <3>1. CASE b \in Elems(lh) BY <3>1 DEF LogOK, Distinct
    <3>2. CASE b \notin Elems(lh) BY <3>2 DEF LogOK, Distinct, Elems, TypeOK
    <3> QED BY <3>1, <3>2
  <2>2. Len(lh') >= Len(lh) BY DEF TypeOK
  <2> QED BY <1>0, <2>1, <2>2 DEF LogOK, TypeOK, Distinct
<1>4. CacheOK'
  <2>1. Elems(lh') = Elems(lh) \cup {b} BY ElemsAppend DEF TypeOK
  <2>2. dirty' = Elems(lh') BY <1>0, <2>1 DEF CacheOK
  <2>3. NoBuf \notin Val BY DEF LogAssumption
  <2>4. \A c \in dirty' : cache'[c] # NoBuf BY <1>0, <2>3 DEF CacheOK, TypeOK
  <2>5. \A c \in Block \ dirty' : cache'[c] \in {NoBuf, home[c]} BY DEF CacheOK, TypeOK
  <2> QED BY <1>0, <2>2, <2>4, <2>5 DEF CacheOK
<1> QED BY <1>1, <1>2, <1>3, <1>4

\* The processes inside system calls once p leaves its own.
LEMMA OpsLeaves ==
  ASSUME IInv, NEW p \in Proc, pc[p] = "op", Ops' = Ops \ {p}
  PROVE  IsFiniteSet(Ops') /\ Cardinality(Ops') = outstanding - 1
<1>1. p \in Ops BY DEF Ops
<1> QED BY <1>1, FS_RemoveElement DEF IInv, OpsOK

LEMMA EndOpKeeps == ASSUME IInv, NEW p \in Proc, EndOp(p) PROVE IInv'
<1> USE DEF IInv, EndOp, Wakeup, disk
<1>0. phase = "none" /\ ~committing BY QuietInOp
<1>1. TypeOK' BY DEF TypeOK, Places
<1>2. OpsOK'
  <2>1. Ops' = Ops \ {p} BY DEF Ops
  <2>2. IsFiniteSet(Ops') /\ Cardinality(Ops') = outstanding - 1 BY <2>1, OpsLeaves
  <2>3. Ops' # {} BY <2>2, FS_EmptySet DEF TypeOK
  <2> QED BY <1>0, <2>2, <2>3 DEF OpsOK, TypeOK
<1>3. LogOK' BY DEF LogOK, Distinct
<1>4. CacheOK' BY DEF CacheOK, Elems
<1> QED BY <1>1, <1>2, <1>3, <1>4

LEMMA EndLastOpKeeps ==
  ASSUME LogAssumption, IInv, NEW p \in Proc, EndLastOp(p) PROVE IInv'
<1> USE DEF IInv, EndLastOp, disk
<1>0. phase = "none" /\ ~committing BY QuietInOp
<1>1. TypeOK' BY DEF TypeOK, Places, Phases
<1>2. OpsOK'
  <2>1. Ops' = Ops \ {p} BY DEF Ops, TypeOK
  <2>2. IsFiniteSet(Ops') /\ Cardinality(Ops') = outstanding - 1 BY <2>1, OpsLeaves
  <2>3. Ops' = {} BY <2>2, FS_EmptySet, outstanding = 1
  <2> QED BY <2>2, <2>3 DEF OpsOK
<1>3. LogOK' BY <1>0 DEF LogOK, Distinct
<1>4. CacheOK'
  <2>1. tail = 0 /\ 1 .. tail = {} BY <1>0 DEF LogOK
  <2>2. phase' \in {"log", "done"} OBVIOUS
  <2> QED BY <1>0, <2>1, <2>2 DEF CacheOK, Elems
<1> QED BY <1>1, <1>2, <1>3, <1>4

LEMMA WriteLogKeeps == ASSUME LogAssumption, IInv, WriteLog PROVE IInv'
<1> USE DEF IInv, WriteLog
<1>1. Read(lh[tail + 1]) = cache[lh[tail + 1]] /\ cache[lh[tail + 1]] \in Val
  <2>1. tail + 1 \in 1 .. Len(lh) BY DEF TypeOK
  <2>2. lh[tail + 1] \in Elems(lh) /\ lh[tail + 1] \in Block BY <2>1 DEF Elems, TypeOK
  <2> QED BY <2>2 DEF CacheOK, Read, TypeOK
<1>2. tail + 1 \in Slots BY DEF Slots, TypeOK
<1>3. TypeOK' BY <1>1, <1>2 DEF TypeOK, Slots
<1>4. OpsOK' BY DEF OpsOK, Ops
<1>5. LogOK' BY DEF LogOK, Distinct, TypeOK
<1>6. CacheOK'
  <2>1. \A i \in 1 .. tail + 1 : slot'[i] = cache[lh[i]]
    BY <1>1, <1>2 DEF CacheOK, TypeOK, Slots
  <2> QED BY <2>1 DEF CacheOK, Elems
<1> QED BY <1>3, <1>4, <1>5, <1>6

LEMMA WriteHeadKeeps == ASSUME LogAssumption, IInv, WriteHead PROVE IInv'
<1> USE DEF IInv, WriteHead
<1>1. TypeOK' BY DEF TypeOK, Phases, LogAssumption
<1>2. OpsOK' BY DEF OpsOK, Ops
<1>3. LogOK' BY DEF LogOK, Distinct, TypeOK
<1>4. CacheOK'
  <2>1. committing BY DEF OpsOK
  <2>2. dirty = {lh[i] : i \in 1 .. Len(lh)} BY DEF CacheOK, Elems
  <2>3. \A i \in 1 .. Len(lh) : cache[lh[i]] = slot[i] BY DEF CacheOK
  <2>4. 0 + 1 = 1 /\ 1 .. 0 = {} OBVIOUS
  <2> QED BY <2>1, <2>2, <2>3, <2>4 DEF CacheOK
<1> QED BY <1>1, <1>2, <1>3, <1>4

LEMMA InstallTransKeeps == ASSUME LogAssumption, IInv, InstallTrans PROVE IInv'
<1> USE DEF IInv, InstallTrans
<1> DEFINE b == lh[tail + 1]
<1>1. tail \in Nat /\ tail + 1 \in 1 .. Len(lh) /\ b \in Block /\ slot[tail + 1] \in Val
  BY DEF TypeOK, Slots
<1>2. \A i \in 1 .. Len(lh) : lh[i] \in Block /\ (lh[i] = b => i = tail + 1)
  BY <1>1 DEF LogOK, Distinct, TypeOK
<1>3. TypeOK' BY <1>1 DEF TypeOK, Slots
<1>4. OpsOK' BY DEF OpsOK, Ops
<1>5. LogOK' BY DEF LogOK, Distinct, TypeOK
<1>6. CacheOK'
  <2>1. \A c \in Block : home'[c] = IF c = b THEN slot[tail + 1] ELSE home[c]
    BY DEF TypeOK
  <2>2. \A c \in Block : cache'[c] = IF c = b THEN slot[tail + 1] ELSE cache[c]
    BY DEF TypeOK
  <2>3. \A i \in 1 .. tail + 1 : home'[lh[i]] = slot[i]
    <3> TAKE i \in 1 .. tail + 1
    <3>1. i \in 1 .. Len(lh) /\ lh[i] \in Block BY <1>1, <1>2
    <3>2. CASE i = tail + 1 BY <3>1, <3>2, <2>1
    <3>3. CASE i # tail + 1
      <4>1. i \in 1 .. tail /\ lh[i] # b BY <1>1, <1>2, <3>1, <3>3
      <4>2. home[lh[i]] = slot[i] BY <4>1 DEF CacheOK
      <4> QED BY <2>1, <3>1, <4>1, <4>2
    <3> QED BY <3>2, <3>3
  <2>4. CASE committing
    <3>1. dirty = {lh[i] : i \in tail + 1 .. Len(lh)} BY <2>4 DEF CacheOK
    <3>2. \A i \in tail + 1 .. Len(lh) : cache[lh[i]] = slot[i] BY <2>4 DEF CacheOK
    <3>3. \A i \in tail + 2 .. Len(lh) :
            i \in tail + 1 .. Len(lh) /\ lh[i] # b /\ lh[i] \in Block
      BY <1>1, <1>2
    <3>4. tail' + 1 = tail + 2 BY <1>1
    <3>5. dirty' = {lh[i] : i \in tail + 2 .. Len(lh)}
      <4>1. \A i \in tail + 1 .. Len(lh) : i = tail + 1 \/ i \in tail + 2 .. Len(lh) BY <1>1
      <4> QED BY <3>1, <3>3, <4>1
    <3>6. \A i \in tail + 2 .. Len(lh) : cache'[lh[i]] = slot[i] BY <2>2, <3>2, <3>3
    <3>7. \A c \in Block \ dirty' : cache'[c] \in {NoBuf, home'[c]}
      BY <2>1, <2>2 DEF CacheOK
    <3> QED BY <2>3, <2>4, <3>4, <3>5, <3>6, <3>7 DEF CacheOK
  <2>5. CASE ~committing
    <3>1. dirty' = {} BY <2>5 DEF CacheOK
    <3>2. \A c \in Block \ dirty' : cache'[c] \in {NoBuf, home'[c]}
      BY <2>1, <2>2, <2>5 DEF CacheOK
    <3> QED BY <2>3, <2>5, <3>1, <3>2 DEF CacheOK
  <2> QED BY <2>4, <2>5
<1> QED BY <1>3, <1>4, <1>5, <1>6

LEMMA EraseKeeps == ASSUME LogAssumption, IInv, Erase PROVE IInv'
<1> USE DEF IInv, Erase
<1>1. TypeOK' BY DEF TypeOK, Phases, LogAssumption
<1>2. OpsOK' BY DEF OpsOK, Ops
<1>3. LogOK' BY DEF LogOK, Distinct
<1>4. CacheOK'
  <2>1. dirty = {}
    <3>1. CASE committing
      <4>1. dirty = {lh[i] : i \in tail + 1 .. Len(lh)} BY <3>1 DEF CacheOK
      <4>2. tail + 1 .. Len(lh) = {} BY DEF TypeOK
      <4> QED BY <4>1, <4>2
    <3>2. CASE ~committing BY <3>2 DEF CacheOK
    <3> QED BY <3>1, <3>2
  <2>2. Elems(lh') = {} BY DEF Elems
  <2> QED BY <2>1, <2>2 DEF CacheOK
<1> QED BY <1>1, <1>2, <1>3, <1>4

LEMMA CommitEndsKeeps ==
  ASSUME IInv, NEW p \in Proc, CommitEnds(p) PROVE IInv'
<1> USE DEF IInv, CommitEnds, Wakeup, disk
<1>1. TypeOK' BY DEF TypeOK, Places, Phases
<1>2. OpsOK'
  <2>1. Ops' = Ops BY DEF Ops
  <2> QED BY <2>1 DEF OpsOK, LogOK
<1>3. LogOK' BY DEF LogOK, Distinct
<1>4. CacheOK' BY DEF CacheOK, Elems
<1> QED BY <1>1, <1>2, <1>3, <1>4

LEMMA ReadHeadKeeps == ASSUME LogAssumption, IInv, ReadHead PROVE IInv'
<1> USE DEF IInv, ReadHead, disk
<1>1. TypeOK' BY DEF TypeOK, Phases, LogAssumption
<1>2. OpsOK' BY DEF OpsOK, Ops
<1>3. LogOK' BY DEF LogOK, Distinct, TypeOK
<1>4. CacheOK' BY DEF CacheOK, OpsOK
<1> QED BY <1>1, <1>2, <1>3, <1>4

LEMMA CrashKeeps == ASSUME LogAssumption, IInv, Crash PROVE IInv'
<1> USE DEF IInv, Crash, disk
<1>1. TypeOK'
  <2>1. lh' \in Seq(Block) /\ Len(lh') <= LOGSIZE BY DEF LogAssumption
  <2>2. tail' \in 0 .. LOGSIZE /\ outstanding' \in Nat BY DEF LogAssumption
  <2>3. cache' \in [Block -> Val \cup {NoBuf}] OBVIOUS
  <2>4. pc' \in [Proc -> Places] /\ used' \in [Proc -> SUBSET Block] BY DEF Places
  <2> QED BY <2>1, <2>2, <2>3, <2>4 DEF TypeOK, Phases
<1>2. OpsOK'
  <2>1. Ops' = {} BY DEF Ops
  <2> QED BY <2>1, FS_EmptySet DEF OpsOK
<1>3. LogOK' BY DEF LogOK, Distinct
<1>4. CacheOK' BY DEF CacheOK
<1> QED BY <1>1, <1>2, <1>3, <1>4

LEMMA StutterKeeps == ASSUME IInv, UNCHANGED vars PROVE IInv'
BY DEF vars, disk, IInv, TypeOK, OpsOK, Ops, LogOK, CacheOK, Elems, Distinct

LEMMA NextKeeps == ASSUME LogAssumption, IInv, [Next]_vars PROVE IInv'
<1>1. ASSUME NEW p \in Proc, SystemCall(p) PROVE IInv'
  BY <1>1, BeginOpKeeps, BeginSleepsKeeps, LogWriteKeeps, EndOpKeeps, EndLastOpKeeps
  DEF SystemCall
<1>2. CASE Progress
  BY <1>2, WriteLogKeeps, WriteHeadKeeps, InstallTransKeeps, EraseKeeps, ReadHeadKeeps
  DEF Progress
<1> QED BY <1>1, <1>2, CommitEndsKeeps, BreadKeeps, EvictKeeps, CrashKeeps, StutterKeeps
  DEF Next

\* Calls under way, log and cache are consistent in every reachable state.
THEOREM Invariance == Spec => []IInv
<1>1. Init => IInv BY InitHolds, LogAssumption
<1>2. IInv /\ [Next]_vars => IInv' BY NextKeeps, LogAssumption
<1> QED BY <1>1, <1>2, PTL DEF Spec

-----------------------------------------------------------------------------
(* The refinement *)

\* Without a header on disk, a restart gives back the home blocks.
LEMMA RestoredHome ==
  ASSUME IInv, hd = <<>> PROVE Restored = [b \in Block |-> home[b]]
BY DEF Restored, Replay, Elems

LEMMA InitMaps == ASSUME LogAssumption, Init PROVE Abstract!Init
<1>1. Ops = {} BY DEF Init, Ops
<1>2. Restored = [b \in Block |-> Zero]
  <2>1. IInv BY InitHolds
  <2> QED BY <2>1, RestoredHome DEF Init
<1>3. Now = Restored BY DEF Init, Now, Recovering
<1> QED BY <1>1, <1>2, <1>3 DEF Abstract!Init

LEMMA BreadMaps ==
  ASSUME IInv, NEW b \in Block, Bread(b)
  PROVE  UNCHANGED <<Now, Restored, Ops>>
<1>1. \A c \in Block : Read(c)' = Read(c) BY DEF Bread, disk, Read, IInv, TypeOK
<1>2. Restored' = Restored BY DEF Restored, Bread, disk
<1>3. ~Recovering /\ ~Recovering' BY DEF Bread, Recovering
<1> QED BY <1>1, <1>2, <1>3 DEF Now, Ops, Bread

LEMMA EvictMaps ==
  ASSUME IInv, NEW b \in Block, Evict(b)
  PROVE  UNCHANGED <<Now, Restored, Ops>>
<1>1. \A c \in Block : Read(c)' = Read(c)
  BY DEF Evict, disk, Read, IInv, TypeOK, CacheOK
<1>2. Restored' = Restored BY DEF Restored, Evict, disk
<1>3. ~Recovering /\ ~Recovering' BY DEF Evict, Recovering
<1> QED BY <1>1, <1>2, <1>3 DEF Now, Ops, Evict

LEMMA BeginOpMaps ==
  ASSUME IInv, NEW p \in Proc, BeginOp(p) PROVE Abstract!Begin(p)
<1>1. p \notin Ops /\ Ops' = Ops \cup {p} BY DEF BeginOp, Ops, IInv, TypeOK
<1>2. Restored' = Restored BY DEF Restored, BeginOp, disk
<1>3. Now' = Now BY <1>2 DEF Now, Read, Recovering, BeginOp, disk
<1> QED BY <1>1, <1>2, <1>3 DEF Abstract!Begin

LEMMA BeginSleepsMaps ==
  ASSUME IInv, NEW p \in Proc, BeginSleeps(p)
  PROVE  UNCHANGED <<Now, Restored, Ops>>
<1>1. Ops' = Ops BY DEF BeginSleeps, Ops, IInv, TypeOK
<1>2. Restored' = Restored BY DEF Restored, BeginSleeps, disk
<1>3. Now' = Now BY <1>2 DEF Now, Read, Recovering, BeginSleeps, disk
<1> QED BY <1>1, <1>2, <1>3

LEMMA LogWriteMaps ==
  ASSUME LogAssumption, IInv, NEW p \in Proc, NEW b \in Block, NEW v \in Val,
         LogWrite(p, b, v)
  PROVE  Abstract!Write(p, b, v)
<1> USE DEF LogWrite, MayLog, disk
<1>1. p \in Ops /\ Ops' = Ops BY DEF Ops
<1>2. Restored' = Restored BY DEF Restored
<1>3. ~Recovering /\ ~Recovering'
  <2>1. phase = "none" BY QuietInOp
  <2> QED BY <2>1 DEF Recovering
<1>4. \A c \in Block : Read(c)' = IF c = b THEN v ELSE Read(c)
  BY DEF Read, IInv, TypeOK, LogAssumption
<1>5. Now = [c \in Block |-> Read(c)] /\ Now' = [c \in Block |-> Read(c)'] BY <1>3 DEF Now
<1>6. Now' = [Now EXCEPT ![b] = v] BY <1>4, <1>5
<1> QED BY <1>1, <1>2, <1>6 DEF Abstract!Write

LEMMA EndOpMaps ==
  ASSUME IInv, NEW p \in Proc, EndOp(p) PROVE Abstract!End(p)
<1>1. p \in Ops /\ Ops' = Ops \ {p} BY DEF EndOp, Wakeup, Ops
<1>2. Restored' = Restored BY DEF Restored, EndOp, disk
<1>3. Now' = Now BY <1>2 DEF Now, Read, Recovering, EndOp, disk
<1> QED BY <1>1, <1>2, <1>3 DEF Abstract!End

LEMMA EndLastOpMaps ==
  ASSUME IInv, NEW p \in Proc, EndLastOp(p) PROVE Abstract!End(p)
<1>1. p \in Ops /\ Ops' = Ops \ {p} BY DEF EndLastOp, Ops, IInv, TypeOK
<1>2. Restored' = Restored BY DEF Restored, EndLastOp, disk
<1>3. ~Recovering /\ ~Recovering'
  <2>1. phase = "none" /\ phase' \in {"log", "done"} BY QuietInOp DEF EndLastOp
  <2> QED BY <2>1 DEF Recovering
<1>4. Now' = Now BY <1>3 DEF Now, Read, EndLastOp, disk
<1> QED BY <1>1, <1>2, <1>4 DEF Abstract!End

LEMMA WriteLogMaps ==
  ASSUME LogAssumption, IInv, WriteLog PROVE UNCHANGED <<Now, Restored, Ops>>
<1>1. Ops' = Ops BY DEF WriteLog, Ops
<1>2. Restored' = Restored
  <2>1. hd = <<>> /\ hd' = <<>> BY DEF WriteLog, IInv, LogOK
  <2> QED BY <2>1 DEF WriteLog, Restored, Replay, Elems
<1>3. Now' = Now BY <1>2 DEF Now, Read, Recovering, WriteLog
<1> QED BY <1>1, <1>2, <1>3

\* The header is the commit: a restart gives back what system calls see.
LEMMA WriteHeadMaps ==
  ASSUME LogAssumption, IInv, WriteHead PROVE Abstract!Commit
<1> USE DEF WriteHead
<1>1. Ops = {} /\ Ops' = Ops BY DEF Ops, IInv, OpsOK
<1>2. committing /\ ~Recovering /\ ~Recovering' BY DEF Recovering, IInv, OpsOK
<1>3. Now' = Now /\ Now = [b \in Block |-> Read(b)] BY <1>2 DEF Now, Read
<1>4. Restored' = Now
  <2>1. lh \in Seq(Block) /\ Distinct(lh) BY DEF IInv, TypeOK, LogOK
  <2>2. \A i \in 1 .. Len(lh) : Now[lh[i]] = slot[i]
    <3> TAKE i \in 1 .. Len(lh)
    <3>1. lh[i] \in Block /\ lh[i] \in Elems(lh) BY <2>1 DEF Elems
    <3>2. slot[i] = cache[lh[i]] /\ cache[lh[i]] # NoBuf BY <3>1 DEF IInv, CacheOK
    <3> QED BY SMTT(30), <1>3, <3>1, <3>2 DEF Read
  <2>3. \A b \in Block \ Elems(lh) : Now[b] = home[b]
    BY <1>3 DEF Read, IInv, CacheOK
  <2>4. Replay(lh, slot, home) = Now BY <1>3, <2>1, <2>2, <2>3, ReplayIs
  <2> QED BY <2>4 DEF Restored
<1> QED BY <1>1, <1>3, <1>4 DEF Abstract!Commit

\* Copying a logged block home changes neither what a restart gives back nor what
\* system calls read.
LEMMA InstallTransMaps ==
  ASSUME LogAssumption, IInv, InstallTrans PROVE UNCHANGED <<Now, Restored, Ops>>
<1> USE DEF InstallTrans
<1> DEFINE b == lh[tail + 1]
<1>1. tail + 1 \in 1 .. Len(lh) /\ b \in Block /\ slot[tail + 1] \in Val
  BY DEF IInv, TypeOK, Slots
<1>2. b \in Elems(hd)
  <2>1. hd = lh BY DEF IInv, LogOK
  <2> QED BY <1>1, <2>1 DEF Elems
<1>3. Ops' = Ops BY DEF Ops
<1>4. Restored' = Restored
  <2>1. \A c \in Block \ Elems(hd) : home'[c] = home[c] BY <1>2 DEF IInv, TypeOK
  <2> QED BY <2>1 DEF Restored, Replay
<1>5. CASE committing
  <2>1. cache[b] = slot[tail + 1] /\ cache[b] # NoBuf
    <3>1. tail + 1 \in tail + 1 .. Len(lh) BY <1>1 DEF IInv, TypeOK
    <3> QED BY <1>1, <1>5, <3>1 DEF IInv, CacheOK, LogAssumption
  <2>2. \A c \in Block : Read(c)' = Read(c) BY <1>1, <2>1 DEF Read, IInv, TypeOK
  <2>3. ~Recovering /\ ~Recovering' BY <1>5 DEF Recovering
  <2> QED BY <1>3, <1>4, <2>2, <2>3 DEF Now
<1>6. CASE ~committing
  <2>1. Recovering /\ Recovering' BY <1>6 DEF Recovering
  <2> QED BY <1>3, <1>4, <2>1 DEF Now
<1> QED BY <1>5, <1>6

\* Once every block is home the header can go.
LEMMA EraseMaps ==
  ASSUME LogAssumption, IInv, Erase PROVE UNCHANGED <<Now, Restored, Ops>>
<1> USE DEF Erase
<1>0. IInv' BY EraseKeeps
<1>1. Ops' = Ops BY DEF Ops
<1>2. hd \in Seq(Block) /\ Distinct(hd) /\ hd = lh /\ tail = Len(hd)
  BY DEF IInv, TypeOK, LogOK
<1>3. Restored = [b \in Block |-> home[b]]
  <2>1. \A i \in 1 .. Len(hd) : home[hd[i]] = slot[i] BY <1>2 DEF IInv, CacheOK
  <2> QED BY <1>2, <2>1, ReplayInstalled DEF Restored
<1>4. Restored' = [b \in Block |-> home[b]] BY DEF Restored, Replay, Elems
<1>5. CASE committing
  <2>1. ~Recovering /\ ~Recovering' BY <1>5 DEF Recovering
  <2> QED BY <1>1, <1>3, <1>4, <2>1 DEF Now, Read
<1>6. CASE ~committing
  <2>1. Recovering /\ ~Recovering' BY <1>6 DEF Recovering
  <2>2. \A b \in Block : Read(b)' = home[b] BY <1>6 DEF Read, IInv, CacheOK
  <2> QED BY <1>1, <1>3, <1>4, <2>1, <2>2 DEF Now
<1> QED BY <1>5, <1>6

LEMMA CommitEndsMaps ==
  ASSUME IInv, NEW p \in Proc, CommitEnds(p) PROVE UNCHANGED <<Now, Restored, Ops>>
<1>1. Ops' = Ops BY DEF CommitEnds, Wakeup, Ops
<1>2. Restored' = Restored BY DEF Restored, CommitEnds, disk
<1>3. ~Recovering /\ ~Recovering' BY DEF CommitEnds, Recovering
<1> QED BY <1>1, <1>2, <1>3 DEF Now, Read, CommitEnds, disk

LEMMA ReadHeadMaps ==
  ASSUME IInv, ReadHead PROVE UNCHANGED <<Now, Restored, Ops>>
<1>1. Ops' = Ops BY DEF ReadHead, Ops
<1>2. Restored' = Restored BY DEF Restored, ReadHead, disk
<1>3. Recovering /\ Recovering' BY DEF ReadHead, Recovering, IInv, OpsOK
<1> QED BY <1>1, <1>2, <1>3 DEF Now

LEMMA CrashMaps == ASSUME Crash PROVE Abstract!Crash
<1>1. Ops' = {} BY DEF Crash, Ops
<1>2. Restored' = Restored BY DEF Restored, Crash, disk
<1>3. Recovering' BY DEF Crash, Recovering
<1> QED BY <1>1, <1>2, <1>3 DEF Now, Abstract!Crash

LEMMA StutterMaps == ASSUME UNCHANGED vars PROVE UNCHANGED <<Now, Restored, Ops>>
BY DEF vars, disk, Now, Restored, Ops, Recovering, Read

LEMMA StepMaps ==
  ASSUME LogAssumption, IInv, [Next]_vars
  PROVE  Abstract!Next \/ UNCHANGED <<Now, Restored, Ops>>
<1>1. ASSUME NEW p \in Proc, SystemCall(p)
      PROVE  Abstract!Next \/ UNCHANGED <<Now, Restored, Ops>>
  <2>1. CASE BeginOp(p) BY <2>1, BeginOpMaps DEF Abstract!Next
  <2>2. CASE BeginSleeps(p) BY <2>2, BeginSleepsMaps
  <2>3. ASSUME NEW b \in Block, NEW v \in Val, LogWrite(p, b, v) PROVE Abstract!Next
    BY <2>3, LogWriteMaps DEF Abstract!Next
  <2>4. CASE EndOp(p) BY <2>4, EndOpMaps DEF Abstract!Next
  <2>5. CASE EndLastOp(p) BY <2>5, EndLastOpMaps DEF Abstract!Next
  <2> QED BY <1>1, <2>1, <2>2, <2>3, <2>4, <2>5 DEF SystemCall
<1>2. CASE WriteHead BY <1>2, WriteHeadMaps DEF Abstract!Next
<1>3. CASE Crash BY <1>3, CrashMaps DEF Abstract!Next
<1>4. CASE WriteLog BY <1>4, WriteLogMaps
<1>5. CASE InstallTrans BY <1>5, InstallTransMaps
<1>6. CASE Erase BY <1>6, EraseMaps
<1>7. CASE ReadHead BY <1>7, ReadHeadMaps
<1>8. ASSUME NEW b \in Block, Bread(b) \/ Evict(b)
      PROVE  UNCHANGED <<Now, Restored, Ops>> BY <1>8, BreadMaps, EvictMaps
<1>9. ASSUME NEW p \in Proc, CommitEnds(p)
      PROVE  UNCHANGED <<Now, Restored, Ops>> BY <1>9, CommitEndsMaps
<1>10. CASE UNCHANGED vars BY <1>10, StutterMaps
<1> QED BY <1>1, <1>2, <1>3, <1>4, <1>5, <1>6, <1>7, <1>8, <1>9, <1>10
  DEF Next, Progress

\* The log implements StableStore: a crash at any point, during commit and during
\* recovery too, leaves each system call done as a whole or not at all.
THEOREM Atomicity == Spec => AtomicCalls
<1>1. Init => Abstract!Init BY InitMaps, LogAssumption
<1>2. IInv /\ [Next]_vars => [Abstract!Next]_(Abstract!vars)
  BY StepMaps, LogAssumption DEF Abstract!vars
<1> QED BY <1>1, <1>2, Invariance, PTL DEF Spec, AtomicCalls, Abstract!Spec

\* A buffer that bget may recycle holds what its home block holds.
THEOREM EvictionLosesNothing == Spec => []CleanIsHome
<1>1. IInv => CleanIsHome BY DEF IInv, CacheOK, CleanIsHome
<1> QED BY <1>1, Invariance, PTL

\* Once the last end_op has returned, everything written survives a crash.
THEOREM Durability == Spec => []QuiescentIsDurable
<1>1. ASSUME IInv, phase = "none", \A p \in Proc : pc[p] # "op" PROVE Restored = Now
  <2>1. hd = <<>> /\ lh = <<>> BY <1>1 DEF IInv, OpsOK, LogOK, Ops
  <2>2. dirty = {} BY <1>1, <2>1 DEF IInv, CacheOK, Elems
  <2>3. \A b \in Block : Read(b) = home[b] BY <1>1, <2>2 DEF IInv, CacheOK, Read
  <2>4. Restored = [b \in Block |-> home[b]] BY <1>1, <2>1, RestoredHome
  <2> QED BY <1>1, <2>3, <2>4 DEF Now, Recovering
<1>2. IInv => QuiescentIsDurable BY <1>1 DEF QuiescentIsDurable
<1> QED BY <1>2, Invariance, PTL

-----------------------------------------------------------------------------
(* Room in the log *)

\* As in param.h: MAXOPBLOCKS is what any call logs at most, and mkfs.c makes
\* sb.nlog LOGSIZE.
Contract == OpBlocks <= MAXOPBLOCKS /\ LOGSIZE <= NLOG

\* The blocks logged by the calls under way, once for each call.
Logged == {pb \in Ops \X Block : pb[2] \in used[pb[1]]}

\* There is room for what is logged and what the calls under way may still log.
RoomOK ==
  /\ \A p \in Proc : IsFiniteSet(used[p]) /\ Cardinality(used[p]) <= OpBlocks
  /\ \A p \in Proc : used[p] # {} => pc[p] = "op" /\ used[p] \subseteq Elems(lh)
  /\ IsFiniteSet(Logged)
  /\ Ops # {} => Len(lh) + outstanding * OpBlocks <= Cardinality(Logged) + LOGSIZE

LEMMA LogWriteRoom ==
  ASSUME LogAssumption, IInv, RoomOK, NEW p \in Proc, NEW b \in Block, NEW v \in Val,
         LogWrite(p, b, v)
  PROVE  RoomOK'
<1> USE DEF LogWrite, MayLog
<1>1. Ops' = Ops /\ p \in Ops BY DEF Ops
<1>2. used \in [Proc -> SUBSET Block] /\ lh \in Seq(Block) /\ outstanding \in Nat
      /\ OpBlocks \in Nat /\ LOGSIZE \in Nat
  BY DEF IInv, TypeOK, LogAssumption
<1>3. Elems(lh') = Elems(lh) \cup {b} BY <1>2, ElemsAppend
<1>4. \A q \in Proc : IsFiniteSet(used'[q]) /\ Cardinality(used'[q]) <= OpBlocks
  BY <1>2, FS_AddElement DEF RoomOK
<1>5. \A q \in Proc : used'[q] # {} => pc'[q] = "op" /\ used'[q] \subseteq Elems(lh')
  BY <1>2, <1>3 DEF RoomOK
<1>6. Logged' = Logged \cup {<<p, b>>} BY <1>1, <1>2 DEF Logged
<1>7. IsFiniteSet(Logged') /\ Cardinality(Logged') =
        IF <<p, b>> \in Logged THEN Cardinality(Logged) ELSE Cardinality(Logged) + 1
  BY <1>6, FS_AddElement DEF RoomOK
<1>8. Cardinality(Logged) \in Nat BY FS_CardinalityType DEF RoomOK
<1>9. Len(lh') - Len(lh) <= Cardinality(Logged') - Cardinality(Logged)
  <2>1. CASE b \in Elems(lh) BY <2>1, <1>2, <1>7, <1>8
  <2>2. CASE b \notin Elems(lh)
    <3>1. <<p, b>> \notin Logged BY <2>2 DEF Logged, RoomOK
    <3>2. Len(lh') = Len(lh) + 1 BY <2>2, <1>2
    <3> QED BY <3>1, <3>2, <1>2, <1>7, <1>8
  <2> QED BY <2>1, <2>2
<1>10. outstanding * OpBlocks \in Nat BY <1>2
<1>11. Len(lh) \in Nat /\ Len(lh') \in Nat /\ Cardinality(Logged') \in Nat
  BY <1>2, <1>7, <1>8
<1>12. Len(lh) + outstanding * OpBlocks <= Cardinality(Logged) + LOGSIZE
  BY <1>1 DEF RoomOK
<1>13. outstanding' = outstanding OBVIOUS
<1> HIDE DEF LogWrite, MayLog
<1>14. Len(lh') + outstanding' * OpBlocks <= Cardinality(Logged') + LOGSIZE
  BY <1>2, <1>8, <1>9, <1>10, <1>11, <1>12, <1>13
<1> QED BY <1>4, <1>5, <1>7, <1>14 DEF RoomOK

\* begin_op reserves no less than the calls log.
LEMMA ReservedBlocks ==
  ASSUME NEW n \in Nat, NEW k \in Nat, NEW m \in Nat, k <= m
  PROVE  (n + 1) * k <= (n + 1) * m
OBVIOUS

LEMMA BeginOpRoom ==
  ASSUME LogAssumption, Contract, IInv, RoomOK, NEW p \in Proc, BeginOp(p)
  PROVE  RoomOK'
<1> USE DEF BeginOp
<1>1. outstanding \in Nat /\ OpBlocks \in Nat /\ MAXOPBLOCKS \in Nat /\ LOGSIZE \in Nat
      /\ pc \in [Proc -> Places] /\ lh \in Seq(Block)
  BY DEF IInv, TypeOK, LogAssumption
<1>2. Ops' = Ops \cup {p} /\ used[p] = {} BY <1>1 DEF Ops, RoomOK
<1>3. Logged' = Logged BY <1>2 DEF Logged
<1>4. Cardinality(Logged) \in Nat /\ Len(lh) \in Nat
  BY <1>1, FS_CardinalityType DEF RoomOK
<1>5. Len(lh) + (outstanding + 1) * OpBlocks <= LOGSIZE
  <2>1. (outstanding + 1) * OpBlocks <= (outstanding + 1) * MAXOPBLOCKS
    BY <1>1, ReservedBlocks DEF Contract
  <2>2. Len(lh) + (outstanding + 1) * MAXOPBLOCKS <= LOGSIZE BY DEF HasRoom
  <2>3. (outstanding + 1) * OpBlocks \in Nat /\ (outstanding + 1) * MAXOPBLOCKS \in Nat
    BY <1>1
  <2> HIDE DEF BeginOp
  <2> QED BY <2>1, <2>2, <2>3, <1>1, <1>4
<1>6. (outstanding + 1) * OpBlocks \in Nat BY <1>1
<1>7. Len(lh') + outstanding' * OpBlocks <= Cardinality(Logged') + LOGSIZE
  BY <1>1, <1>3, <1>4, <1>5, <1>6
<1>8. \A q \in Proc : used'[q] # {} => pc'[q] = "op" /\ used'[q] \subseteq Elems(lh')
  BY <1>1 DEF RoomOK, Elems
<1> QED BY <1>3, <1>7, <1>8 DEF RoomOK

\* A call that ends gives up at most OpBlocks of what is logged.
LEMMA EndOpRoom ==
  ASSUME LogAssumption, IInv, RoomOK, NEW p \in Proc, EndOp(p) PROVE RoomOK'
<1> USE DEF EndOp, Wakeup
<1>1. outstanding \in Nat /\ OpBlocks \in Nat /\ LOGSIZE \in Nat
      /\ lh \in Seq(Block) /\ used \in [Proc -> SUBSET Block]
  BY DEF IInv, TypeOK, LogAssumption
<1>2. Ops' = Ops \ {p} /\ p \in Ops BY DEF Ops
<1>3. Logged' \subseteq Logged BY <1>2, <1>1 DEF Logged
<1>4. IsFiniteSet(Logged') BY <1>3, FS_Subset DEF RoomOK
<1> DEFINE Gone == {p} \X used[p]
<1>5. IsFiniteSet(Gone) /\ Cardinality(Gone) <= OpBlocks
  <2>1. IsFiniteSet({p}) /\ Cardinality({p}) = 1 BY FS_Singleton
  <2>2. IsFiniteSet(used[p]) /\ Cardinality(used[p]) <= OpBlocks BY DEF RoomOK
  <2>3. IsFiniteSet(Gone) /\ Cardinality(Gone) = 1 * Cardinality(used[p])
    BY <2>1, <2>2, FS_Product
  <2>4. Cardinality(used[p]) \in Nat BY <2>2, FS_CardinalityType
  <2> QED BY <2>2, <2>3, <2>4
<1>6. Logged \subseteq Logged' \cup Gone BY <1>2, <1>1 DEF Logged
<1>7. Cardinality(Logged) <= Cardinality(Logged') + OpBlocks
  <2>1. IsFiniteSet(Logged' \cup Gone) /\ Cardinality(Logged' \cup Gone)
          = Cardinality(Logged') + Cardinality(Gone) - Cardinality(Logged' \cap Gone)
    BY <1>4, <1>5, FS_Union
  <2>2. Cardinality(Logged) <= Cardinality(Logged' \cup Gone) BY <2>1, <1>6, FS_Subset
  <2>3. IsFiniteSet(Logged' \cap Gone) BY <1>4, FS_Intersection
  <2>4. /\ Cardinality(Logged) \in Nat /\ Cardinality(Logged') \in Nat
        /\ Cardinality(Gone) \in Nat /\ Cardinality(Logged' \cap Gone) \in Nat
        /\ Cardinality(Logged' \cup Gone) \in Nat
    BY <1>4, <1>5, <2>1, <2>3, FS_CardinalityType DEF RoomOK
  <2> HIDE DEF Gone, EndOp
  <2> QED BY <2>1, <2>2, <2>4, <1>1, <1>5
<1>8. (outstanding - 1) * OpBlocks = outstanding * OpBlocks - OpBlocks BY <1>1
<1>9. Len(lh) + outstanding * OpBlocks <= Cardinality(Logged) + LOGSIZE
  BY <1>2 DEF RoomOK
<1>10. Cardinality(Logged) \in Nat /\ Cardinality(Logged') \in Nat /\ Len(lh) \in Nat
       /\ outstanding * OpBlocks \in Nat
  BY <1>1, <1>4, FS_CardinalityType DEF RoomOK
<1>11. Len(lh') + outstanding' * OpBlocks <= Cardinality(Logged') + LOGSIZE
  <2>1. Len(lh) + (outstanding * OpBlocks - OpBlocks) <= Cardinality(Logged') + LOGSIZE
    BY <1>1, <1>7, <1>9, <1>10
  <2> QED BY <2>1, <1>8
<1>12. \A q \in Proc : IsFiniteSet(used'[q]) /\ Cardinality(used'[q]) <= OpBlocks
  BY <1>1, FS_EmptySet DEF RoomOK
<1>13. \A q \in Proc : used'[q] # {} => pc'[q] = "op" /\ used'[q] \subseteq Elems(lh')
  BY <1>1 DEF RoomOK, Elems
<1> QED BY <1>4, <1>11, <1>12, <1>13 DEF RoomOK

\* Nothing is logged by a call when none is under way.
LEMMA NoOpsRoom ==
  ASSUME LogAssumption, Ops' = {}, \A p \in Proc : used'[p] = {} PROVE RoomOK'
<1>1. Logged' = {} BY DEF Logged
<1> QED BY <1>1, FS_EmptySet DEF RoomOK, LogAssumption

LEMMA EndLastOpRoom ==
  ASSUME LogAssumption, IInv, RoomOK, NEW p \in Proc, EndLastOp(p) PROVE RoomOK'
<1>1. Ops' = Ops \ {p} /\ pc[p] = "op" BY DEF Ops, EndLastOp, IInv, TypeOK
<1>2. IsFiniteSet(Ops') /\ Cardinality(Ops') = outstanding - 1 BY <1>1, OpsLeaves
<1>3. Ops' = {}
  <2>1. outstanding = 1 BY DEF EndLastOp
  <2> QED BY <1>2, <2>1, FS_EmptySet
<1>4. \A q \in Proc : q # p => pc[q] # "op" BY <1>1, <1>3 DEF Ops
<1>5. \A q \in Proc : used'[q] = {} BY <1>4 DEF RoomOK, EndLastOp, IInv, TypeOK
<1> QED BY <1>3, <1>5, NoOpsRoom

\* The steps of commit and recovery come while no call is under way.
LEMMA QuietRoom ==
  ASSUME LogAssumption, IInv, RoomOK, phase # "none", used' = used,
         \A p \in Proc : pc'[p] = "op" => pc[p] = "op"
  PROVE  RoomOK'
<1>1. Ops = {} BY DEF IInv, OpsOK
<1>2. Ops' = {} BY <1>1 DEF Ops
<1>3. \A p \in Proc : used[p] = {} BY <1>1 DEF Ops, RoomOK
<1> QED BY <1>2, <1>3, NoOpsRoom

LEMMA SameRoom ==
  ASSUME RoomOK, UNCHANGED <<lh, outstanding, used, Ops>> PROVE RoomOK'
<1>1. Logged' = Logged BY DEF Logged
<1>2. \A p \in Proc : pc[p] = "op" <=> pc'[p] = "op" BY DEF Ops
<1> QED BY <1>1, <1>2 DEF RoomOK, Elems

LEMMA RoomKept == ASSUME LogAssumption, Contract, IInv, RoomOK, [Next]_vars PROVE RoomOK'
<1>1. ASSUME NEW p \in Proc, SystemCall(p) PROVE RoomOK'
  <2>1. CASE BeginSleeps(p)
    <3>1. Ops' = Ops BY <2>1 DEF BeginSleeps, Ops, IInv, TypeOK
    <3> QED BY <2>1, <3>1, SameRoom DEF BeginSleeps
  <2> QED BY <1>1, <2>1, BeginOpRoom, LogWriteRoom, EndOpRoom, EndLastOpRoom
    DEF SystemCall
<1>2. ASSUME NEW p \in Proc, CommitEnds(p) PROVE RoomOK'
  BY <1>2, QuietRoom DEF CommitEnds, Wakeup, IInv, TypeOK
<1>3. CASE Progress
  BY <1>3, QuietRoom DEF Progress, WriteLog, WriteHead, InstallTrans, Erase, ReadHead
<1>4. ASSUME NEW b \in Block, Bread(b) \/ Evict(b) PROVE RoomOK'
  BY <1>4, SameRoom DEF Bread, Evict, Ops
<1>5. CASE Crash
  <2>1. Ops' = {} BY <1>5 DEF Crash, Ops
  <2>2. \A p \in Proc : used'[p] = {} BY <1>5 DEF Crash
  <2> QED BY <2>1, <2>2, NoOpsRoom
<1>6. CASE UNCHANGED vars BY <1>6, SameRoom DEF vars, Ops
<1> QED BY <1>1, <1>2, <1>3, <1>4, <1>5, <1>6 DEF Next

\* The blocks a call has logged, numbered.
Order(p) == CHOOSE g : g \in Bijection(1 .. Cardinality(used[p]), used[p])

Index(p, b) == CHOOSE i \in 1 .. Cardinality(used[p]) : Order(p)[i] = b

LEMMA IndexOK ==
  ASSUME LogAssumption, RoomOK, NEW p \in Proc, NEW b \in used[p]
  PROVE  /\ Index(p, b) \in 1 .. OpBlocks /\ ~ (Index(p, b) > Cardinality(used[p]))
         /\ Order(p)[Index(p, b)] = b
<1> DEFINE n == Cardinality(used[p])
<1>1. IsFiniteSet(used[p]) /\ n <= OpBlocks BY DEF RoomOK
<1>2. n \in Nat /\ ExistsBijection(1 .. n, used[p]) BY <1>1, FS_CardinalityType
<1>3. Order(p) \in Bijection(1 .. n, used[p]) BY <1>2 DEF ExistsBijection, Order
<1>4. \E i \in 1 .. n : Order(p)[i] = b BY <1>3 DEF Bijection, Surjection
<1>5. Index(p, b) \in 1 .. n /\ Order(p)[Index(p, b)] = b BY <1>4 DEF Index
<1> QED BY <1>1, <1>2, <1>5 DEF LogAssumption

\* Of the blocks reserved for the calls under way, those that are logged and those
\* still to be logged are different ones.
LEMMA LoggedAndToLog ==
  ASSUME LogAssumption, IInv, RoomOK
  PROVE  /\ IsFiniteSet(StillToLog)
         /\ Cardinality(Logged) + Cardinality(StillToLog) <= outstanding * OpBlocks
<1> DEFINE Seats == Ops \X (1 .. OpBlocks)
           Taken == Seats \ StillToLog
           f == [pb \in Logged |-> <<pb[1], Index(pb[1], pb[2])>>]
<1>1. OpBlocks \in Nat /\ IsFiniteSet(Ops) /\ outstanding = Cardinality(Ops)
  BY DEF LogAssumption, IInv, OpsOK
<1>2. \A pb \in Logged : pb[1] \in Ops /\ pb[1] \in Proc /\ pb[2] \in used[pb[1]]
                         /\ pb = <<pb[1], pb[2]>>
  BY DEF Logged, Ops
<1>3. \A pb \in Logged : /\ Index(pb[1], pb[2]) \in 1 .. OpBlocks
                         /\ ~ (Index(pb[1], pb[2]) > Cardinality(used[pb[1]]))
                         /\ Order(pb[1])[Index(pb[1], pb[2])] = pb[2]
  BY <1>2, IndexOK
<1>4. f \in Injection(Logged, Taken)
  <2>1. f \in [Logged -> Taken]
    <3>1. ASSUME NEW pb \in Logged PROVE f[pb] \in Taken
      <4>1. f[pb] \in Seats BY <1>2, <1>3
      <4>2. f[pb][1] = pb[1] /\ f[pb][2] = Index(pb[1], pb[2]) OBVIOUS
      <4>3. f[pb] \notin StillToLog BY <4>2, <1>3 DEF StillToLog
      <4> QED BY <4>1, <4>3
    <3> QED BY <3>1
  <2>2. ASSUME NEW s \in Logged, NEW t \in Logged, f[s] = f[t] PROVE s = t
    <3>1. <<s[1], Index(s[1], s[2])>> = <<t[1], Index(t[1], t[2])>> BY <2>2
    <3>2. s[1] = t[1] /\ Index(s[1], s[2]) = Index(t[1], t[2]) BY <3>1
    <3>3. s[2] = t[2] BY <3>2, <1>3
    <3> QED BY <3>2, <3>3, <1>2
  <2> HIDE DEF f, Taken
  <2> QED BY <2>1, <2>2 DEF Injection, IsInjective
<1>5. IsFiniteSet(Seats) /\ Cardinality(Seats) = outstanding * OpBlocks
  <2>1. IsFiniteSet(1 .. OpBlocks) /\ Cardinality(1 .. OpBlocks) = OpBlocks
    BY <1>1, FS_Interval
  <2> QED BY <2>1, <1>1, FS_Product
<1>6. StillToLog \subseteq Seats BY DEF StillToLog
<1> HIDE DEF f, Seats
<1>7. /\ IsFiniteSet(StillToLog) /\ IsFiniteSet(Taken)
      /\ Cardinality(Taken) = Cardinality(Seats) - Cardinality(Seats \cap StillToLog)
  BY <1>5, <1>6, FS_Subset, FS_Difference
<1>8. Seats \cap StillToLog = StillToLog BY <1>6
<1> HIDE DEF Taken
<1>9. Cardinality(Logged) <= Cardinality(Taken) BY <1>4, <1>7, FS_Injection
<1>10. /\ Cardinality(Logged) \in Nat /\ Cardinality(Taken) \in Nat
       /\ Cardinality(StillToLog) \in Nat /\ Cardinality(Seats) \in Nat
  BY <1>5, <1>7, FS_CardinalityType DEF RoomOK
<1>11. Cardinality(Taken) = outstanding * OpBlocks - Cardinality(StillToLog)
  BY <1>5, <1>7, <1>8
<1>12. outstanding * OpBlocks \in Nat BY <1>5, <1>10
<1> QED BY <1>7, <1>9, <1>10, <1>11, <1>12

\* When no call logs more than MAXOPBLOCKS blocks, what begin_op reserved is there:
\* for any number of calls, joined and ended in any order, those that log a block
\* again included.  Log_write's test keeps one block back (log.c:225).
THEOREM ReservationHolds == Contract /\ Spec => []ReservationKept
<1>1. ASSUME Init PROVE RoomOK
  <2>1. Ops = {} BY <1>1 DEF Init, Ops
  <2>2. Logged = {} BY <2>1 DEF Logged
  <2> QED BY <1>1, <2>1, <2>2, FS_EmptySet, LogAssumption DEF Init, RoomOK, LogAssumption
<1>2. ASSUME IInv, RoomOK, Contract PROVE ReservationKept
  <2> SUFFICES ASSUME Ops # {}
               PROVE  /\ ~committing
                      /\ Len(lh) + Cardinality(StillToLog) <= LOGSIZE
                      /\ StillToLog # {} /\ ~Fits => Len(lh) + 1 = LOGSIZE /\ NLOG = LOGSIZE
    BY DEF ReservationKept
  <2>1. ~committing BY <1>2, QuietInOp DEF Ops
  <2>2. Len(lh) + outstanding * OpBlocks <= Cardinality(Logged) + LOGSIZE
    BY <1>2 DEF RoomOK
  <2>3. /\ IsFiniteSet(StillToLog)
        /\ Cardinality(Logged) + Cardinality(StillToLog) <= outstanding * OpBlocks
    BY <1>2, LoggedAndToLog, LogAssumption
  <2>4. /\ Len(lh) \in Nat /\ Cardinality(Logged) \in Nat /\ Cardinality(StillToLog) \in Nat
        /\ LOGSIZE \in Nat /\ NLOG \in Nat /\ outstanding \in Nat /\ OpBlocks \in Nat
    BY <1>2, <2>3, LogAssumption, FS_CardinalityType DEF IInv, TypeOK, RoomOK, LogAssumption
  <2>5. outstanding * OpBlocks \in Nat BY <2>4
  <2>6. Len(lh) + Cardinality(StillToLog) <= LOGSIZE BY <2>2, <2>3, <2>4, <2>5
  <2>7. ASSUME StillToLog # {}, ~Fits PROVE Len(lh) + 1 = LOGSIZE /\ NLOG = LOGSIZE
    <3>1. Cardinality(StillToLog) # 0 BY <2>3, <2>7, FS_EmptySet
    <3> QED BY <3>1, <2>4, <2>6, <2>7, <1>2 DEF Fits, Contract
  <2> QED BY <2>1, <2>6, <2>7
<1>3. Contract /\ IInv /\ RoomOK /\ [Next]_vars => RoomOK' BY RoomKept, LogAssumption
<1>4. Contract => Contract' BY DEF Contract
<1> QED BY <1>1, <1>2, <1>3, <1>4, Invariance, PTL DEF Spec
=============================================================================
