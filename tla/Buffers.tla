------------------------------- MODULE Buffers -------------------------------
(***************************************************************************)
(* The buffer cache, its sleep locks and the driver of the disk (bio.c,    *)
(* sleeplock.c, ide.c of project02).                                       *)
(*                                                                         *)
(* An action is one section under bcache.lock, under the spin lock inside  *)
(* a sleep lock, or under idelock, or what the holder of a buffer does     *)
(* between two of them.  The disk takes a command when idestart gives it   *)
(* one, carries it out, and interrupts.                                    *)
(***************************************************************************)
EXTENDS Naturals, Sequences, SequencesExt, FiniteSets

CONSTANTS
  Proc, Block, Val,
  NBUF,    \* buffers: 30
  Loads,   \* workloads: who uses the cache, and how many buffers log.c leaves dirty at once
  NONE     \* no process, no block

BuffersAssumption ==
  /\ NBUF \in Nat /\ IsFiniteSet(Proc) /\ Val # {} /\ NONE \notin Proc \cup Block \cup 1 .. NBUF
  /\ \A l \in Loads : l.procs \subseteq Proc /\ l.dirty \in Nat

Buf == 1 .. NBUF

VARIABLES
  buf,    \* buffers: blockno, B_VALID, B_DIRTY, refcnt, data
  mru,    \* bcache.head: the buffers, the most recently used first
  lock,   \* the sleep lock of each buffer: who holds it
  queue,  \* idequeue; its head is the request under way
  drive,  \* the command the drive was given: a block, and what to write to it
  disk,   \* what is on the disk
  pc, has, \* per process: where it is, and the buffer it is about
  asleep, \* the processes in sleep()
  load    \* the workload

vars == <<buf, mru, lock, queue, drive, disk, pc, has, asleep, load>>

Idle == [blockno |-> NONE, writes |-> FALSE, data |-> CHOOSE v \in Val : TRUE]

Init ==
  /\ disk = [n \in Block |-> Idle.data]
  /\ buf = [b \in Buf |-> [blockno |-> NONE, valid |-> FALSE, dirty |-> FALSE,
                           refcnt |-> 0, data |-> Idle.data]]
  /\ mru = [i \in Buf |-> NBUF + 1 - i]
  /\ lock = [b \in Buf |-> NONE]
  /\ queue = <<>> /\ drive = Idle
  /\ pc = [p \in Proc |-> "idle"] /\ has = [p \in Proc |-> NONE] /\ asleep = {}
  /\ load \in Loads

-----------------------------------------------------------------------------
(* Helpers *)

At(p, there) == pc[p] = there /\ p \notin asleep
Go(p, there) == pc' = [pc EXCEPT ![p] = there]

Cached(n)  == {b \in Buf : buf[b].blockno = n}
\* Two mutants: a reference, or B_DIRTY, does not keep a buffer.
FreeUsed == {b \in Buf : ~buf[b].dirty}
FreeDirty == {b \in Buf : buf[b].refcnt = 0}
Free == {b \in Buf : buf[b].refcnt = 0 /\ ~buf[b].dirty}
\* Where a buffer is in the list, and the least recently used of a set.
Place(b)   == CHOOSE i \in Buf : mru[i] = b
Oldest(S)  == CHOOSE b \in S : \A c \in S : \E i, j \in Buf : mru[i] = b /\ mru[j] = c /\ i >= j

\* wakeup(b) of ideintr, and wakeup(&b->lock) of releasesleep.
Sleeping(b, places) == {p \in asleep : has[p] = b /\ pc[p] \in places}

-----------------------------------------------------------------------------
(* bread *)

\* bget: the buffer of the block, or the oldest free one; without one it panics, and
\* there is no step.
OutOfBuffers(n) == Cached(n) = {} /\ Free = {}

Bget(p, n) ==
  /\ At(p, "idle") /\ p \in load.procs /\ ~OutOfBuffers(n)
  /\ \E b \in IF Cached(n) # {} THEN Cached(n) ELSE {Oldest(Free)} :
       /\ buf' = IF Cached(n) # {} THEN [buf EXCEPT ![b].refcnt = @ + 1]
                 ELSE [buf EXCEPT ![b].blockno = n, ![b].valid = FALSE, ![b].dirty = FALSE,
                                  ![b].refcnt = 1]
       /\ has' = [has EXCEPT ![p] = b]
  /\ Go(p, "acquire")
  /\ UNCHANGED <<mru, lock, queue, drive, disk, asleep, load>>

AcquireSleep(p) ==
  /\ At(p, "acquire")
  /\ IF lock[has[p]] # NONE
     THEN asleep' = asleep \cup {p} /\ UNCHANGED <<lock, pc>>
     ELSE /\ lock' = [lock EXCEPT ![has[p]] = p]
          /\ Go(p, IF buf[has[p]].valid THEN "hold" ELSE "read")
          /\ UNCHANGED asleep
  /\ UNCHANGED <<buf, mru, queue, drive, disk, has, load>>

-----------------------------------------------------------------------------
(* iderw, idestart and the interrupt *)

Command(b) == [blockno |-> buf[b].blockno, writes |-> buf[b].dirty, data |-> buf[b].data]

\* iderw: queue the request, start the disk if it has nothing to do, and sleep.
Iderw(p) ==
  /\ pc[p] \in {"read", "write"} /\ p \notin asleep /\ ~Contains(queue, has[p])
  /\ ~buf[has[p]].valid \/ buf[has[p]].dirty
  /\ queue' = Append(queue, has[p])
  /\ drive' = IF queue = <<>> THEN Command(has[p]) ELSE drive
  /\ asleep' = asleep \cup {p}
  /\ UNCHANGED <<buf, mru, lock, disk, pc, has, load>>

\* Woken: the request was answered.
IderwDone(p) ==
  /\ pc[p] \in {"read", "write"} /\ p \notin asleep
  /\ buf[has[p]].valid /\ ~buf[has[p]].dirty
  /\ Go(p, "hold")
  /\ UNCHANGED <<buf, mru, lock, queue, drive, disk, has, asleep, load>>

\* ideintr: the disk has carried out the command, and gets the next one.
\* A mutant: the next request is left in the queue, and the disk idle.
IdeintrStalls ==
  LET b == Head(queue) IN
  /\ queue # <<>> /\ drive # Idle
  /\ disk' = IF drive.writes THEN [disk EXCEPT ![drive.blockno] = drive.data] ELSE disk
  /\ buf' = [buf EXCEPT ![b].data = IF buf[b].dirty THEN @ ELSE disk[drive.blockno],
                        ![b].valid = TRUE, ![b].dirty = FALSE]
  /\ queue' = Tail(queue)
  /\ drive' = Idle
  /\ asleep' = asleep \ Sleeping(b, {"read", "write"})
  /\ UNCHANGED <<mru, lock, pc, has, load>>

Ideintr ==
  LET b == Head(queue) IN
  /\ queue # <<>> /\ drive # Idle
  /\ disk' = IF drive.writes THEN [disk EXCEPT ![drive.blockno] = drive.data] ELSE disk
  /\ buf' = [buf EXCEPT ![b].data = IF buf[b].dirty THEN @ ELSE disk[drive.blockno],
                        ![b].valid = TRUE, ![b].dirty = FALSE]
  /\ queue' = Tail(queue)
  /\ drive' = IF Len(queue) > 1 THEN Command(queue[2]) ELSE Idle
  /\ asleep' = asleep \ Sleeping(b, {"read", "write"})
  /\ UNCHANGED <<mru, lock, pc, has, load>>

-----------------------------------------------------------------------------
(* What the holder of a buffer does: bwrite, log_write, brelse *)

Bwrite(p, v) ==
  /\ At(p, "hold")
  /\ buf' = [buf EXCEPT ![has[p]].data = v, ![has[p]].dirty = TRUE]
  /\ Go(p, "write")
  /\ UNCHANGED <<mru, lock, queue, drive, disk, has, asleep, load>>

\* log.c changes a buffer and leaves it dirty; install_trans will bwrite it.
LogWrite(p, v) ==
  /\ At(p, "hold")
  /\ Cardinality({b \in Buf \ {has[p]} : buf[b].dirty}) < load.dirty
  /\ buf' = [buf EXCEPT ![has[p]].data = v, ![has[p]].dirty = TRUE]
  /\ UNCHANGED <<mru, lock, queue, drive, disk, pc, has, asleep, load>>

ReleaseSleep(p) ==
  /\ At(p, "hold")
  /\ lock' = [lock EXCEPT ![has[p]] = NONE]
  /\ asleep' = asleep \ Sleeping(has[p], {"acquire"})
  /\ Go(p, "brelse")
  /\ UNCHANGED <<buf, mru, queue, drive, disk, has, load>>

Brelse(p) ==
  LET b == has[p] IN
  /\ At(p, "brelse")
  /\ buf' = [buf EXCEPT ![b].refcnt = @ - 1]
  /\ mru' = IF buf[b].refcnt = 1 THEN <<b>> \o RemoveAt(mru, Place(b)) ELSE mru
  /\ has' = [has EXCEPT ![p] = NONE]
  /\ Go(p, "idle")
  /\ UNCHANGED <<lock, queue, drive, disk, asleep, load>>

-----------------------------------------------------------------------------
Continue(p) ==
  \/ AcquireSleep(p) \/ Iderw(p) \/ IderwDone(p) \/ ReleaseSleep(p) \/ Brelse(p)

Next ==
  \/ Ideintr
  \/ \E p \in Proc : \/ Continue(p)
                     \/ \E n \in Block : Bget(p, n)
                     \/ \E v \in Val : Bwrite(p, v) \/ LogWrite(p, v)

Spec == Init /\ [][Next]_vars

-----------------------------------------------------------------------------
TypeOK ==
  /\ buf \in [Buf -> [blockno : Block \cup {NONE}, valid : BOOLEAN, dirty : BOOLEAN,
                      refcnt : 0 .. Cardinality(Proc), data : Val]]
  /\ \A b \in Buf : \E i \in Buf : mru[i] = b
  /\ lock \in [Buf -> Proc \cup {NONE}]
  /\ disk \in [Block -> Val]
  /\ asleep \subseteq Proc

\* A block is in one buffer at most, and the references to it are the processes that
\* hold its lock, wait for it or are about to give it back: none of them is recycled.
CachedOnce ==
  /\ \A n \in Block : Cardinality(Cached(n)) <= 1
  /\ \A b \in Buf : buf[b].refcnt = Cardinality({p \in Proc : has[p] = b})
  /\ \A p \in Proc : pc[p] \in {"hold", "read", "write"} => lock[has[p]] = p

\* bget panics (bio.c:92) only when the calls under way and the blocks that the log may
\* keep really take all NBUF buffers: no reference and no B_DIRTY is left behind on a
\* buffer that nobody needs.
BuffersLeft ==
  \A n \in Block : OutOfBuffers(n) =>
    NBUF <= Cardinality({p \in Proc : has[p] # NONE}) + load.dirty

\* Nobody sleeps for a lock that is free, nor in iderw outside the queue.
NoLostWakeup ==
  \A p \in asleep :
    IF pc[p] = "acquire" THEN lock[has[p]] # NONE
    ELSE Contains(queue, has[p]) /\ drive # Idle

\* bread gives what was last written (BlockStore.tla), whether it is on the disk, in
\* the cache, or under way.
ValueOf(n) == LET V == {b \in Cached(n) : buf[b].valid}
              IN  IF V = {} THEN disk[n] ELSE buf[CHOOSE b \in V : TRUE].data
OwnerOf(n) == LET O == {p \in Proc : pc[p] \in {"hold", "write"} /\ has[p] \in Cached(n)}
              IN  IF O = {} THEN NONE ELSE CHOOSE p \in O : TRUE
Store == INSTANCE BlockStore WITH value <- [n \in Block |-> ValueOf(n)],
                                  owner <- [n \in Block |-> OwnerOf(n)]
BlocksAreRegisters == Store!Spec
=============================================================================
