--------------------------------- MODULE Log ---------------------------------
(***************************************************************************)
(* The redo log of project03 (log.c) with the part of the buffer cache     *)
(* (bio.c) it relies on, under crashes.  A block write of the disk is      *)
(* atomic.  Every function that touches log.lh or log.outstanding holds    *)
(* log.lock and is one action; commit() runs without the lock and is one   *)
(* action per block written, so that a crash can come between any two.     *)
(***************************************************************************)
EXTENDS Naturals, Sequences, FiniteSets

CONSTANTS
  Proc,         \* processes making file system calls
  Block, Val,   \* home blocks, and what a block may hold
  Zero,         \* what mkfs leaves in every block
  NoBuf,        \* the content of a block that is not in the cache
  LOGSIZE, MAXOPBLOCKS,
  NLOG,         \* sb.nlog, log.size: blocks of the log on disk, header included
  OpBlocks      \* distinct blocks one system call really logs

ASSUME LogAssumption ==
  /\ Zero \in Val /\ NoBuf \notin Val
  /\ LOGSIZE \in Nat /\ MAXOPBLOCKS \in Nat \ {0} /\ NLOG \in Nat /\ OpBlocks \in Nat

VARIABLES
  home, hd, slot,           \* on disk: home blocks, header of the log, log blocks
  cache, dirty,             \* content of each block's buffer; buffers with B_DIRTY
  lh,                       \* log.lh: the block numbers logged
  outstanding, committing,  \* fields of log
  pc,                       \* where each process is
  used,                     \* the blocks the call under way of each process has logged
  phase, tail               \* progress of commit() or recover_from_log()

disk == <<home, hd, slot>>
vars == <<disk, cache, dirty, lh, outstanding, committing, pc, used, phase, tail>>

\* "asleep" in begin_op on &log; "retry": woken and about to look again; "op":
\* between begin_op and end_op; "commit": in end_op, committing.
Places == {"idle", "asleep", "retry", "op", "commit"}

\* "boot": recovery has not read the header; "install": copying log blocks home,
\* for recovery if ~committing; "log": writing log blocks; "done": committed.
Phases == {"boot", "install", "none", "log", "done"}

Slots   == 1 .. LOGSIZE
Elems(s) == {s[i] : i \in 1 .. Len(s)}

TypeOK ==
  /\ home \in [Block -> Val] /\ slot \in [Slots -> Val]
  /\ hd \in Seq(Block) /\ lh \in Seq(Block)
  /\ Len(hd) <= LOGSIZE /\ Len(lh) <= LOGSIZE
  /\ cache \in [Block -> Val \cup {NoBuf}]
  /\ dirty \subseteq Block
  /\ outstanding \in Nat /\ committing \in BOOLEAN
  /\ pc \in [Proc -> Places] /\ used \in [Proc -> SUBSET Block]
  /\ phase \in Phases /\ tail \in 0 .. LOGSIZE

\* The image mkfs makes; the kernel is about to recover.
Init ==
  /\ home = [b \in Block |-> Zero] /\ slot = [i \in Slots |-> Zero] /\ hd = <<>>
  /\ cache = [b \in Block |-> NoBuf] /\ dirty = {}
  /\ lh = <<>> /\ outstanding = 0 /\ committing = FALSE
  /\ pc = [p \in Proc |-> "idle"] /\ used = [p \in Proc |-> {}]
  /\ phase = "boot" /\ tail = 0

Recovering == phase = "boot" \/ (phase = "install" /\ ~committing)

\* What bread(b) returns.
Read(b) == IF cache[b] = NoBuf THEN home[b] ELSE cache[b]

-----------------------------------------------------------------------------
(* The buffer cache *)

\* bread of a block outside the log.
Bread(b) ==
  /\ ~Recovering /\ cache[b] = NoBuf
  /\ cache' = [cache EXCEPT ![b] = home[b]]
  /\ UNCHANGED <<disk, dirty, lh, outstanding, committing, pc, used, phase, tail>>

\* bget recycles a buffer that nobody uses; B_DIRTY pins it.
Evict(b) ==
  /\ ~Recovering /\ cache[b] # NoBuf /\ b \notin dirty
  /\ cache' = [cache EXCEPT ![b] = NoBuf]
  /\ UNCHANGED <<disk, dirty, lh, outstanding, committing, pc, used, phase, tail>>

-----------------------------------------------------------------------------
(* System calls *)

\* begin_op: the log must have room for one more call that logs MAXOPBLOCKS.
\* A mutant: the calls under way are not counted.
HasRoomNow == Len(lh) + MAXOPBLOCKS <= LOGSIZE

HasRoom == Len(lh) + (outstanding + 1) * MAXOPBLOCKS <= LOGSIZE

BeginOp(p) ==
  /\ pc[p] \in {"idle", "retry"} /\ ~Recovering
  /\ ~committing /\ HasRoom
  /\ outstanding' = outstanding + 1
  /\ pc' = [pc EXCEPT ![p] = "op"]
  /\ UNCHANGED <<disk, cache, dirty, lh, committing, used, phase, tail>>

BeginSleeps(p) ==
  /\ pc[p] \in {"idle", "retry"} /\ ~Recovering
  /\ committing \/ ~HasRoom
  /\ pc' = [pc EXCEPT ![p] = "asleep"]
  /\ UNCHANGED <<disk, cache, dirty, lh, outstanding, committing, used, phase, tail>>

\* log_write panics without this, even for a block that is logged already: the
\* machine stops, and there is no step.
Fits == Len(lh) < LOGSIZE /\ Len(lh) + 1 < NLOG

MayLog(p, b) == pc[p] = "op" /\ Cardinality(used[p] \cup {b}) <= OpBlocks

\* bread(b), a change of b->data, log_write and brelse.
\* A mutant: the buffer is not marked dirty.
LogWriteUnpinned(p, b, v) ==
  /\ MayLog(p, b) /\ Fits
  /\ cache' = [cache EXCEPT ![b] = v]
  /\ lh' = IF b \in Elems(lh) THEN lh ELSE Append(lh, b)
  /\ used' = [used EXCEPT ![p] = @ \cup {b}]
  /\ UNCHANGED <<disk, dirty, outstanding, committing, pc, phase, tail>>

LogWrite(p, b, v) ==
  /\ MayLog(p, b) /\ Fits
  /\ cache' = [cache EXCEPT ![b] = v]
  /\ dirty' = dirty \cup {b}
  /\ lh' = IF b \in Elems(lh) THEN lh ELSE Append(lh, b)
  /\ used' = [used EXCEPT ![p] = @ \cup {b}]
  /\ UNCHANGED <<disk, outstanding, committing, pc, phase, tail>>

\* wakeup(&log) after process p moved to the place there.
Wakeup(p, there) ==
  pc' = [q \in Proc |-> IF q = p THEN there
                        ELSE IF pc[q] = "asleep" THEN "retry" ELSE pc[q]]

\* end_op with other calls under way.
EndOp(p) ==
  /\ pc[p] = "op" /\ outstanding > 1
  /\ outstanding' = outstanding - 1
  /\ used' = [used EXCEPT ![p] = {}]
  /\ Wakeup(p, "idle")
  /\ UNCHANGED <<disk, cache, dirty, lh, committing, phase, tail>>

\* end_op of the last call: begin to commit, if something was logged.
\* A mutant: commit only when the log is nearly full.
EndLastOpLazy(p) ==
  /\ pc[p] = "op" /\ outstanding = 1
  /\ outstanding' = 0
  /\ used' = [used EXCEPT ![p] = {}]
  /\ IF Len(lh) + MAXOPBLOCKS <= LOGSIZE
                THEN /\ pc' = [pc EXCEPT ![p] = "idle"]
                     /\ UNCHANGED <<committing, phase>>
                ELSE /\ pc' = [pc EXCEPT ![p] = "commit"]
                     /\ committing' = TRUE /\ phase' = "log"
  /\ UNCHANGED <<disk, cache, dirty, lh, tail>>

EndLastOp(p) ==
  /\ pc[p] = "op" /\ outstanding = 1
  /\ outstanding' = 0
  /\ committing' = TRUE
  /\ pc' = [pc EXCEPT ![p] = "commit"]
  /\ phase' = IF lh = <<>> THEN "done" ELSE "log"
  /\ used' = [used EXCEPT ![p] = {}]
  /\ UNCHANGED <<disk, cache, dirty, lh, tail>>

-----------------------------------------------------------------------------
(* commit() and recover_from_log(), a block at a time *)

WriteLog ==
  /\ phase = "log" /\ tail < Len(lh)
  /\ slot' = [slot EXCEPT ![tail + 1] = Read(lh[tail + 1])]
  /\ tail' = tail + 1
  /\ UNCHANGED <<home, hd, cache, dirty, lh, outstanding, committing, pc, used, phase>>

\* write_head with the whole header: the commit.
\* A mutant: the header is written before the last block of the log.
WriteHeadEarly ==
  /\ phase = "log" /\ tail + 1 >= Len(lh)
  /\ hd' = lh
  /\ phase' = "install" /\ tail' = 0
  /\ UNCHANGED <<home, slot, cache, dirty, lh, outstanding, committing, pc, used>>

WriteHead ==
  /\ phase = "log" /\ tail = Len(lh)
  /\ hd' = lh
  /\ phase' = "install" /\ tail' = 0
  /\ UNCHANGED <<home, slot, cache, dirty, lh, outstanding, committing, pc, used>>

InstallTrans ==
  /\ phase = "install" /\ tail < Len(lh)
  /\ home' = [home EXCEPT ![lh[tail + 1]] = slot[tail + 1]]
  /\ cache' = [cache EXCEPT ![lh[tail + 1]] = slot[tail + 1]]
  /\ dirty' = dirty \ {lh[tail + 1]}
  /\ tail' = tail + 1
  /\ UNCHANGED <<hd, slot, lh, outstanding, committing, pc, used, phase>>

\* log.lh.n = 0 and write_head: the transaction is erased.
Erase ==
  /\ phase = "install" /\ tail = Len(lh)
  /\ lh' = <<>> /\ hd' = <<>>
  /\ phase' = IF committing THEN "done" ELSE "none"
  /\ tail' = 0
  /\ UNCHANGED <<home, slot, cache, dirty, outstanding, committing, pc, used>>

\* The end of end_op after commit().  Two mutants: whoever sleeps in begin_op is
\* not woken, and log.committing stays set.
CommitEndsSilent(p) ==
  /\ pc[p] = "commit" /\ phase = "done"
  /\ committing' = FALSE
  /\ phase' = "none"
  /\ pc' = [pc EXCEPT ![p] = "idle"]
  /\ UNCHANGED <<disk, cache, dirty, lh, outstanding, used, tail>>

CommitEndsStillSet(p) ==
  /\ pc[p] = "commit" /\ phase = "done"
  /\ phase' = "none"
  /\ Wakeup(p, "idle")
  /\ UNCHANGED <<disk, cache, dirty, lh, outstanding, committing, used, tail>>

CommitEnds(p) ==
  /\ pc[p] = "commit" /\ phase = "done"
  /\ committing' = FALSE
  /\ phase' = "none"
  /\ Wakeup(p, "idle")
  /\ UNCHANGED <<disk, cache, dirty, lh, outstanding, used, tail>>

ReadHead ==
  /\ phase = "boot"
  /\ lh' = hd
  /\ phase' = "install" /\ tail' = 0
  /\ UNCHANGED <<disk, cache, dirty, outstanding, committing, pc, used>>

\* Power failure and restart: only the disk is left.
Crash ==
  /\ cache' = [b \in Block |-> NoBuf] /\ dirty' = {}
  /\ lh' = <<>> /\ outstanding' = 0 /\ committing' = FALSE
  /\ pc' = [p \in Proc |-> "idle"] /\ used' = [p \in Proc |-> {}]
  /\ phase' = "boot" /\ tail' = 0
  /\ UNCHANGED disk

-----------------------------------------------------------------------------
SystemCall(p) ==
  \/ BeginOp(p) \/ BeginSleeps(p)
  \/ \E b \in Block, v \in Val : LogWrite(p, b, v)
  \/ EndOp(p) \/ EndLastOp(p)

Progress == WriteLog \/ WriteHead \/ InstallTrans \/ Erase \/ ReadHead

Next ==
  \/ \E p \in Proc : SystemCall(p) \/ CommitEnds(p)
  \/ Progress
  \/ \E b \in Block : Bread(b) \/ Evict(b)
  \/ Crash

Spec == Init /\ [][Next]_vars

\* A disk request is answered, and a system call ends: the file system never
\* blocks for long between begin_op and end_op.
Fairness ==
  /\ WF_vars(Progress)
  /\ \A p \in Proc : WF_vars(CommitEnds(p)) /\ WF_vars(EndOp(p) \/ EndLastOp(p))

FairSpec == Spec /\ Fairness

-----------------------------------------------------------------------------
(* What a restart gives back, and what system calls see *)

Replay(h, s, d) == [b \in Block |->
  IF b \in Elems(h) THEN s[CHOOSE i \in 1 .. Len(h) : h[i] = b] ELSE d[b]]

Restored == Replay(hd, slot, home)

Now == IF Recovering THEN Restored ELSE [b \in Block |-> Read(b)]

Ops == {p \in Proc : pc[p] = "op"}

Abstract == INSTANCE StableStore WITH now <- Now, durable <- Restored, active <- Ops

\* A buffer that is not pinned holds what its home block holds, so recycling it
\* loses nothing (bio.c:75).
CleanIsHome ==
  ~Recovering => \A b \in Block \ dirty : cache[b] \in {NoBuf, home[b]}

\* The inductive invariant behind AtomicCalls, in three parts.  The counter counts
\* the calls under way, there are none while the log is committed or recovered, and
\* the last of them leaves nothing logged behind.
OpsOK ==
  /\ IsFiniteSet(Ops) /\ outstanding = Cardinality(Ops)
  /\ phase # "none" => Ops = {}
  /\ phase = "none" /\ lh # <<>> => Ops # {}
  /\ phase \in {"boot", "none"} => ~committing
  /\ phase \in {"log", "done"} => committing

\* A block is logged once, and the header on disk is empty but while installing.
Distinct(s) == \A i, j \in 1 .. Len(s) : s[i] = s[j] => i = j

LogOK ==
  /\ tail <= Len(lh)
  /\ Distinct(lh) /\ Distinct(hd)
  /\ phase \in {"none", "log", "done"} => hd = <<>>
  /\ phase = "done" => lh = <<>>
  /\ phase = "install" => hd = lh
  /\ phase \notin {"install", "log"} => tail = 0

\* What has been copied to the log, or home, is what the cache holds.
CacheOK ==
  /\ phase \in {"none", "log", "done"} =>
       dirty = Elems(lh) /\ \A b \in dirty : cache[b] # NoBuf
  /\ phase = "log" => \A i \in 1 .. tail : slot[i] = cache[lh[i]]
  /\ phase = "boot" => dirty = {} /\ \A b \in Block : cache[b] = NoBuf
  /\ phase = "install" =>
       /\ \A i \in 1 .. tail : home[lh[i]] = slot[i]
       /\ IF committing
          THEN /\ dirty = {lh[i] : i \in tail + 1 .. Len(lh)}
               /\ \A i \in tail + 1 .. Len(lh) : cache[lh[i]] = slot[i]
          ELSE dirty = {}
  /\ \A b \in Block \ dirty : cache[b] \in {NoBuf, home[b]}

IInv == TypeOK /\ OpsOK /\ LogOK /\ CacheOK

\* The log makes each system call atomic with respect to crashes, those during
\* commit and during recovery included.
AtomicCalls == Abstract!Spec

\* When no call is under way and nothing is being committed, all that was
\* written survives a crash (end_op of the last call returns after the commit).
QuiescentIsDurable ==
  (phase = "none" /\ \A p \in Proc : pc[p] # "op") => Restored = Now

\* What the calls under way have not logged yet of the blocks they may log.
StillToLog == {s \in Ops \X (1 .. OpBlocks) : s[2] > Cardinality(used[s[1]])}

\* What begin_op reserved stays there until it is used: the header has room for all
\* that the calls under way may still log, and end_op never panics with
\* "log.committing".  "Too big a transaction" (log.c:225) stops a call within its
\* reservation all the same: the test keeps one block back when sb.nlog is LOGSIZE,
\* and only the last block of a full log meets it.
ReservationKept ==
  Ops # {} =>
    /\ ~committing
    /\ Len(lh) + Cardinality(StillToLog) <= LOGSIZE
    /\ StillToLog # {} /\ ~Fits => Len(lh) + 1 = LOGSIZE /\ NLOG = LOGSIZE

\* A commit ends, and whoever sleeps in begin_op looks again.
EverySleeperWakes == \A p \in Proc : pc[p] = "asleep" ~> pc[p] # "asleep"
=============================================================================
