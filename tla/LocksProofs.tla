--------------------------- MODULE LocksProofs -----------------------------
(***************************************************************************)
(* Locks of project03, for every number of CPUs, processes and locks.      *)
(*                                                                         *)
(* Spin locks (Spinlocks): a CPU that holds or wants a lock is not         *)
(* interrupted, never waits for itself, and every process finds the        *)
(* interrupts as it left them.                                             *)
(*                                                                         *)
(* Sleep locks and the clock (Sleeping): sleep and wakeup lose no wake-up, *)
(* a sleep lock has one holder and sys_sleep lasts as long as it should,   *)
(* for every size of the clock.                                            *)
(***************************************************************************)
EXTENDS Spinlocks, Integers, FiniteSetTheorems, SequenceTheorems, TLAPS

Kinds  == {"syscall", "interrupt", "scheduler", "forkret"}
Frames == [kind : Kinds, held : SUBSET Lock, spins : Lock \cup {NONE}]

\* A stack: at most an interrupt handler on top of another frame, which holds and wants
\* nothing; the scheduler is at the bottom of the stack of a CPU and nowhere else.
StackOK(x, s) ==
  /\ s \in Seq(Frames) /\ Len(s) <= 2
  /\ Len(s) = 2 => /\ s[2].kind = "interrupt" /\ s[1].kind # "interrupt"
                   /\ s[1].held = {} /\ s[1].spins = NONE
  /\ Len(s) >= 1 => (s[1].kind = "scheduler" <=> x \in CPU)
  /\ x \in CPU => Len(s) >= 1

StacksOK ==
  /\ frames = [x \in Context |-> frames[x]]
  /\ \A x \in Context : StackOK(x, frames[x])

\* A process runs on one CPU.
CurrentOK == \A c, d \in CPU : current[c] = current[d] => c = d

\* The flags that a frame of this kind finds when it holds no lock.
Flag(kind) == kind = "syscall"

\* What does not run waits in sched or forkret: a scheduler below nothing else, a process with
\* the interrupts of its top frame in saved.
ParkedOK ==
  \A x \in Context : (\A c \in CPU : current[c] # x) =>
    /\ Len(frames[x]) >= 1 /\ Last(frames[x]).spins = NONE
    /\ x \in CPU => Len(frames[x]) = 1 /\ Last(frames[x]).held = {}
    /\ x \in Process => LET kind == Last(frames[x]).kind IN
         /\ saved[x] = "new" <=> kind = "forkret"
         /\ kind # "forkret" => (saved[x] = "on" <=> Flag(kind))

\* A CPU holds what its top frame holds, and counts it; its interrupts are off as long as
\* there is something, and as the kind of the frame says after that.
CpuOK(c) ==
  IF Stack(c) = <<>>
  THEN ncli[c] = 0 /\ IF_[c] /\ \A l \in Lock : owner[l] # c
  ELSE /\ \A l \in Lock : l \in Top(c).held <=> owner[l] = c
       /\ ncli[c] = Cardinality(Top(c).held) + (IF Top(c).spins # NONE THEN 1 ELSE 0)
       /\ ncli[c] > 0 => ~IF_[c]
       /\ Top(c).spins # NONE => \A h \in Top(c).held : h < Top(c).spins
       /\ Top(c).kind \in {"syscall", "interrupt"} =>
            IF ncli[c] = 0 THEN IF_[c] <=> Flag(Top(c).kind) ELSE intena[c] <=> Flag(Top(c).kind)

IInv == TypeOK /\ StacksOK /\ CurrentOK /\ ParkedOK /\ \A c \in CPU : CpuOK(c)

-----------------------------------------------------------------------------
(* Facts about the constants, sets of locks, and stacks *)

\* CPUs and locks are not NONE, and processes are not CPUs.
LEMMA Constants ==
  ASSUME SpinlocksAssumption
  PROVE  /\ NONE \notin CPU /\ NONE \notin Lock /\ CPU \cap Process = {}
         /\ Context = CPU \cup Process /\ ptable \in Lock /\ Lock \subseteq Nat
BY DEF SpinlocksAssumption, CPU, Process, Context, Lock, ptable

\* Sets of locks are finite, and a lock more or less counts one.
LEMMA Counting ==
  ASSUME SpinlocksAssumption, NEW S \in SUBSET Lock, NEW l \in Lock
  PROVE  /\ Cardinality(S) \in Nat /\ (S = {} <=> Cardinality(S) = 0) /\ Cardinality({l}) = 1
         /\ l \notin S => Cardinality(S \cup {l}) = Cardinality(S) + 1
         /\ l \in S => Cardinality(S \ {l}) = Cardinality(S) - 1
<1>1. IsFiniteSet(Lock) BY FS_Interval DEF SpinlocksAssumption, Lock
<1>2. IsFiniteSet(S) BY <1>1, FS_Subset
<1>3. Cardinality(S) \in Nat /\ (S = {} <=> Cardinality(S) = 0) BY <1>2, FS_CardinalityType, FS_EmptySet
<1>4. Cardinality({l}) = 1 BY FS_Singleton
<1>5. l \notin S => Cardinality(S \cup {l}) = Cardinality(S) + 1 BY <1>2, FS_AddElement
<1>6. l \in S => Cardinality(S \ {l}) = Cardinality(S) - 1 BY <1>2, FS_RemoveElement
<1> QED BY <1>3, <1>4, <1>5, <1>6

\* A stack with another frame on top.
LEMMA NewTop ==
  ASSUME NEW S, NEW s \in Seq(S), Len(s) \in 1 .. 2, NEW f \in S, NEW r, r = Front(s) \o <<f>>
  PROVE  /\ r \in Seq(S) /\ Len(r) = Len(s) /\ r[Len(s)] = f
         /\ Len(s) = 2 => r[1] = s[1]
<1>1. /\ Front(s) \in Seq(S) /\ Len(Front(s)) = Len(s) - 1
      /\ \A i \in 1 .. Len(s) - 1 : Front(s)[i] = s[i]
  <2>1. \A i \in 1 .. Len(s) - 1 : s[i] \in S BY ElementOfSeq
  <2> QED BY <2>1, SubSeqProperties DEF Front
<1>2. <<f>> \in Seq(S) /\ Len(<<f>>) = 1 /\ <<f>>[1] = f OBVIOUS
<1>3. /\ r \in Seq(S) /\ Len(r) = Len(s)
      /\ \A i \in 1 .. Len(s) : r[i] = IF i <= Len(s) - 1 THEN Front(s)[i] ELSE <<f>>[i - (Len(s) - 1)]
  <2> HIDE DEF Front
  <2> QED BY <1>1, <1>2, ConcatProperties
<1>4. r[Len(s)] = f BY <1>2, <1>3
<1>5. Len(s) = 2 => r[1] = s[1] BY <1>1, <1>3
<1> QED BY <1>3, <1>4, <1>5

\* A stack has no frame, one, or two.
LEMMA Sizes ==
  ASSUME NEW x, NEW s, StackOK(x, s), s # <<>>
  PROVE  Len(s) \in 1 .. 2 /\ Last(s) = s[Len(s)] /\ Last(s) \in Frames
<1>1. s \in Seq(Frames) /\ Len(s) <= 2 BY DEF StackOK
<1>2. Len(s) \in 1 .. 2
  <2> DEFINE n == Len(s)
  <2>1. n \in Nat /\ n # 0 /\ n <= 2 BY <1>1, EmptySeq
  <2> HIDE DEF n
  <2>2. n \in 1 .. 2 BY <2>1
  <2> QED BY <2>2 DEF n
<1>3. s[Len(s)] \in Frames BY <1>1, <1>2, ElementOfSeq
<1> QED BY <1>2, <1>3 DEF Last

\* A stack of one frame.
LEMMA OneFrame ==
  ASSUME NEW s \in Seq(Frames), Len(s) = 1, NEW x, s[1].kind = "scheduler" <=> x \in CPU
  PROVE  StackOK(x, s) /\ s # <<>> /\ Last(s) = s[1] /\ s[1] \in Frames
<1>1. Last(s) = s[1] BY DEF Last
<1>2. s # <<>> OBVIOUS
<1>3. s[1] \in Frames BY ElementOfSeq
<1>4. StackOK(x, s) BY DEF StackOK
<1> QED BY <1>1, <1>2, <1>3, <1>4

\* A stack without its top frame.
LEMMA Below ==
  ASSUME NEW s \in Seq(Frames)
  PROVE  /\ Len(s) = 1 => Front(s) = <<>>
         /\ Len(s) = 2 => Front(s) \in Seq(Frames) /\ Len(Front(s)) = 1 /\ Front(s)[1] = s[1]
<1>1. Len(s) = 1 => Front(s) = <<>> BY DEF Front
<1>2. ASSUME Len(s) = 2 PROVE Front(s) \in Seq(Frames) /\ Len(Front(s)) = 1 /\ Front(s)[1] = s[1]
  <2>1. \A i \in 1 .. 1 : s[i] \in Frames BY <1>2, ElementOfSeq
  <2>2. /\ SubSeq(s, 1, 1) \in Seq(Frames)
        /\ Len(SubSeq(s, 1, 1)) = IF 1 <= 1 THEN 1 - 1 + 1 ELSE 0
        /\ \A i \in 1 .. 1 - 1 + 1 : SubSeq(s, 1, 1)[i] = s[1 + i - 1]
    BY ONLY <2>1, SubSeqProperties
  <2>3. Front(s) = SubSeq(s, 1, 1) BY <1>2 DEF Front
  <2> QED BY <2>2, <2>3
<1> QED BY <1>1, <1>2

\* Only the top frame of a stack holds locks.
LEMMA HeldByTop ==
  ASSUME SpinlocksAssumption, TypeOK, StacksOK, NEW c \in CPU
  PROVE  /\ current[c] \in Context /\ StackOK(current[c], Stack(c))
         /\ Stack(c) = <<>> => Held(c) = {}
         /\ Stack(c) # <<>> => /\ Len(Stack(c)) \in 1 .. 2 /\ Top(c) \in Frames
                               /\ Held(c) = Top(c).held /\ Top(c) = Stack(c)[Len(Stack(c))]
<1>1. current[c] \in Context BY Constants DEF TypeOK
<1>2. StackOK(current[c], Stack(c)) BY <1>1 DEF StacksOK, Stack
<1>3. ASSUME Stack(c) = <<>> PROVE Held(c) = {} BY <1>3 DEF Held
<1>4. ASSUME Stack(c) # <<>>
      PROVE  /\ Len(Stack(c)) \in 1 .. 2 /\ Top(c) \in Frames
             /\ Held(c) = Top(c).held /\ Top(c) = Stack(c)[Len(Stack(c))]
  <2>1. Len(Stack(c)) \in 1 .. 2 /\ Top(c) = Stack(c)[Len(Stack(c))] /\ Top(c) \in Frames BY <1>2, <1>4, Sizes DEF Top
  <2>2. CASE Len(Stack(c)) = 1
    <3>1. DOMAIN Stack(c) = {1} BY <1>2, <2>2 DEF StackOK
    <3> QED BY <2>1, <2>2, <3>1 DEF Held
  <2>3. CASE Len(Stack(c)) = 2
    <3>1. DOMAIN Stack(c) = {1, 2} BY <1>2, <2>3 DEF StackOK
    <3>2. Stack(c)[1].held = {} BY <1>2, <2>3 DEF StackOK
    <3> QED BY <2>1, <2>3, <3>1, <3>2 DEF Held
  <2> QED BY <2>1, <2>2, <2>3
<1> QED BY <1>1, <1>2, <1>3, <1>4

-----------------------------------------------------------------------------
(* Steps of a CPU on its own stack *)

\* What of the invariant the other CPUs and the contexts that do not run keep by themselves,
\* when a CPU changes the stack that it is on.
LEMMA OwnStack ==
  ASSUME SpinlocksAssumption, IInv, NEW c \in CPU, NEW s, StackOK(current[c], s),
         frames' = [frames EXCEPT ![current[c]] = s], current' = current, saved' = saved,
         TypeOK',
         \A d \in CPU \ {c} : /\ IF_'[d] = IF_[d] /\ ncli'[d] = ncli[d] /\ intena'[d] = intena[d]
                              /\ \A l \in Lock : owner'[l] = d <=> owner[l] = d,
         CpuOK(c)'
  PROVE  IInv'
<1>1. current[c] \in Context BY HeldByTop DEF IInv
<1>2. StacksOK'
  BY <1>1 DEF IInv, StacksOK
<1>3. CurrentOK' BY DEF IInv, CurrentOK
<1>4. ParkedOK'
  <2>1. \A x \in Context : x # current[c] => frames'[x] = frames[x] BY DEF IInv, StacksOK
  <2> QED BY <2>1 DEF IInv, ParkedOK
<1>5. ASSUME NEW d \in CPU, d # c PROVE CpuOK(d)'
  <2>1. current[d] # current[c] BY <1>5 DEF IInv, CurrentOK
  <2>2. current[d] \in Context BY HeldByTop DEF IInv
  <2>3. Stack(d)' = Stack(d) BY <2>1, <2>2 DEF Stack, IInv, StacksOK
  <2>4. Top(d)' = Top(d) BY <2>3 DEF Top
  <2>5. CpuOK(d) BY DEF IInv
  <2> QED BY <2>3, <2>4, <2>5, <1>5 DEF CpuOK
<1> QED BY <1>2, <1>3, <1>4, <1>5 DEF IInv

\* What a CPU finds on top of its stack, in the words of the invariant.
LEMMA OnTop ==
  ASSUME SpinlocksAssumption, IInv, NEW c \in CPU, Stack(c) # <<>>
  PROVE  /\ current[c] \in Context /\ StackOK(current[c], Stack(c)) /\ Len(Stack(c)) \in 1 .. 2
         /\ Top(c) \in Frames /\ Held(c) = Top(c).held /\ Top(c) = Stack(c)[Len(Stack(c))]
         /\ Top(c).held \in SUBSET Lock /\ Top(c).spins \in Lock \cup {NONE}
         /\ \A l \in Lock : l \in Top(c).held <=> owner[l] = c
         /\ ncli[c] = Cardinality(Top(c).held) + (IF Top(c).spins # NONE THEN 1 ELSE 0)
         /\ ncli[c] > 0 => ~IF_[c]
         /\ Top(c).spins # NONE => \A h \in Top(c).held : h < Top(c).spins
         /\ Top(c).kind \in {"syscall", "interrupt"} =>
              IF ncli[c] = 0 THEN IF_[c] <=> Flag(Top(c).kind) ELSE intena[c] <=> Flag(Top(c).kind)
<1>1. TypeOK /\ StacksOK /\ CpuOK(c) BY DEF IInv
<1>2. /\ current[c] \in Context /\ StackOK(current[c], Stack(c)) /\ Len(Stack(c)) \in 1 .. 2
      /\ Top(c) \in Frames /\ Held(c) = Top(c).held /\ Top(c) = Stack(c)[Len(Stack(c))]
  BY <1>1, HeldByTop
<1>3. Top(c).held \in SUBSET Lock /\ Top(c).spins \in Lock \cup {NONE} BY <1>2 DEF Frames
<1> QED BY <1>1, <1>2, <1>3 DEF CpuOK

\* Another frame of the same kind on top, as acquire and release leave it.
LEMMA SetTopOK ==
  ASSUME SpinlocksAssumption, IInv, NEW c \in CPU, Stack(c) # <<>>,
         NEW f \in Frames, f.kind = Top(c).kind, SetTop(c, f), current' = current
  PROVE  \E s : /\ frames' = [frames EXCEPT ![current[c]] = s] /\ StackOK(current[c], s)
               /\ Stack(c)' = s /\ s # <<>> /\ Top(c)' = f
<1> DEFINE new == Front(Stack(c)) \o <<f>>
<1>1. /\ current[c] \in Context /\ StackOK(current[c], Stack(c)) /\ Len(Stack(c)) \in 1 .. 2
      /\ Top(c) = Stack(c)[Len(Stack(c))]
  BY OnTop
<1>2. frames' = [frames EXCEPT ![current[c]] = new] BY DEF SetTop, Stack
<1>3. Stack(c) \in Seq(Frames) BY <1>1 DEF StackOK
<1>4. /\ new \in Seq(Frames) /\ Len(new) = Len(Stack(c)) /\ Last(new) = f /\ new[Len(Stack(c))] = f
      /\ Len(Stack(c)) = 2 => new[1] = Stack(c)[1]
  <2>1. PICK old \in Seq(Frames) : old = Stack(c) BY <1>3
  <2>2. PICK r : r = Front(old) \o <<f>> OBVIOUS
  <2>3. Len(old) \in 1 .. 2 BY <1>1, <2>1
  <2>4. /\ r \in Seq(Frames) /\ Len(r) = Len(old) /\ r[Len(old)] = f
        /\ Len(old) = 2 => r[1] = old[1]
    <3> HIDE DEF new
    <3>1. r \in Seq(Frames) BY ONLY old \in Seq(Frames), f \in Frames, <2>2, <2>3, NewTop
    <3>2. Len(r) = Len(old) BY ONLY old \in Seq(Frames), f \in Frames, <2>2, <2>3, NewTop
    <3>3. r[Len(old)] = f BY ONLY old \in Seq(Frames), f \in Frames, <2>2, <2>3, NewTop
    <3>4. Len(old) = 2 => r[1] = old[1] BY ONLY old \in Seq(Frames), f \in Frames, <2>2, <2>3, NewTop
    <3> QED BY <3>1, <3>2, <3>3, <3>4
  <2>5. new = r BY <2>1, <2>2
  <2> HIDE DEF new
  <2> QED BY <2>1, <2>4, <2>5 DEF Last
<1> HIDE DEF new
<1>5. StackOK(current[c], new)
  <2>1. CASE Len(Stack(c)) = 1 BY <1>1, <1>4, <2>1 DEF StackOK
  <2>2. CASE Len(Stack(c)) = 2 BY <1>1, <1>4, <2>2 DEF StackOK
  <2> QED BY <1>1, <2>1, <2>2
<1>6. Stack(c)' = new BY <1>1, <1>2 DEF Stack, IInv, StacksOK
<1>7. new # <<>> BY <1>1, <1>4
<1>8. Top(c)' = f BY <1>4, <1>6 DEF Top
<1> QED BY <1>2, <1>5, <1>6, <1>7, <1>8

\* The types of a CPU's own fields.
LEMMA Fields ==
  ASSUME TypeOK
  PROVE  /\ owner \in [Lock -> CPU \cup {NONE}] /\ IF_ \in [CPU -> BOOLEAN] /\ intena \in [CPU -> BOOLEAN]
         /\ ncli \in [CPU -> Nat] /\ current \in [CPU -> Context]
         /\ saved \in [Process -> {"new", "on", "off"}]
BY DEF TypeOK

-----------------------------------------------------------------------------
(* The actions *)

LEMMA AcquireKeeps ==
  ASSUME SpinlocksAssumption, IInv, NEW c \in CPU, NEW l \in Lock, Acquire(c, l)
  PROVE  IInv'
<1> DEFINE f == [Top(c) EXCEPT !.spins = l]
<1>0. TypeOK BY DEF IInv
<1>1. Stack(c) # <<>> /\ Top(c).spins = NONE BY DEF Acquire, Running
<1>2. /\ Top(c) \in Frames /\ Held(c) = Top(c).held /\ Top(c).held \in SUBSET Lock
      /\ \A m \in Lock : m \in Top(c).held <=> owner[m] = c
      /\ ncli[c] = Cardinality(Top(c).held)
      /\ Top(c).kind \in {"syscall", "interrupt"} =>
              IF ncli[c] = 0 THEN IF_[c] <=> Flag(Top(c).kind) ELSE intena[c] <=> Flag(Top(c).kind)
  <2>1. Cardinality(Top(c).held) \in Nat BY <1>1, OnTop, Counting
  <2> QED BY <1>1, <2>1, OnTop
<1>3. f \in Frames /\ f.kind = Top(c).kind /\ f.held = Top(c).held /\ f.spins = l
  BY <1>2 DEF Frames
<1>4. /\ SetTop(c, f) /\ current' = current /\ saved' = saved /\ owner' = owner
      /\ IF_' = [IF_ EXCEPT ![c] = FALSE]
      /\ intena' = IF ncli[c] = 0 THEN [intena EXCEPT ![c] = IF_[c]] ELSE intena
      /\ ncli' = [ncli EXCEPT ![c] = @ + 1] /\ \A h \in Held(c) : h < l
  BY DEF Acquire
<1> HIDE DEF f
<1>5. PICK s : /\ frames' = [frames EXCEPT ![current[c]] = s] /\ StackOK(current[c], s)
               /\ Stack(c)' = s /\ s # <<>> /\ Top(c)' = f
  BY <1>1, <1>3, <1>4, SetTopOK
<1>6. TypeOK' BY <1>0, <1>4, Fields DEF TypeOK
<1>7. /\ IF_'[c] = FALSE /\ ncli'[c] = ncli[c] + 1 /\ ncli[c] \in Nat
      /\ intena'[c] = IF ncli[c] = 0 THEN IF_[c] ELSE intena[c]
  BY <1>0, <1>4, Fields
<1>8. l # NONE BY Constants
<1>9. CpuOK(c)'
  <2>1. ncli'[c] = Cardinality(f.held) + 1 BY <1>2, <1>3, <1>7
  <2>2. f.kind \in {"syscall", "interrupt"} => (intena'[c] <=> Flag(f.kind)) BY <1>2, <1>3, <1>7
  <2>3. ncli'[c] # 0 BY <1>7
  <2>4. \A h \in f.held : h < l BY <1>2, <1>3, <1>4
  <2>5. \A m \in Lock : m \in f.held <=> owner'[m] = c BY <1>2, <1>3, <1>4
  <2> QED BY <1>3, <1>5, <1>7, <1>8, <2>1, <2>2, <2>3, <2>4, <2>5 DEF CpuOK
<1>10. \A d \in CPU \ {c} : /\ IF_'[d] = IF_[d] /\ ncli'[d] = ncli[d] /\ intena'[d] = intena[d]
                            /\ \A m \in Lock : owner'[m] = d <=> owner[m] = d
  BY <1>0, <1>4, Fields
<1> QED BY <1>4, <1>5, <1>6, <1>9, <1>10, OwnStack

LEMMA AcquiredKeeps ==
  ASSUME SpinlocksAssumption, IInv, NEW c \in CPU, Acquired(c)
  PROVE  IInv'
<1> DEFINE l == Top(c).spins
           f == [Top(c) EXCEPT !.held = @ \cup {Top(c).spins}, !.spins = NONE]
<1>0. TypeOK BY DEF IInv
<1>1. Stack(c) # <<>> /\ l # NONE /\ owner[l] = NONE BY DEF Acquired
<1>2. /\ Top(c) \in Frames /\ Top(c).held \in SUBSET Lock /\ l \in Lock
      /\ \A m \in Lock : m \in Top(c).held <=> owner[m] = c
      /\ ncli[c] = Cardinality(Top(c).held) + 1
      /\ ncli[c] > 0 => ~IF_[c]
      /\ Top(c).kind \in {"syscall", "interrupt"} =>
              IF ncli[c] = 0 THEN IF_[c] <=> Flag(Top(c).kind) ELSE intena[c] <=> Flag(Top(c).kind)
  BY <1>1, OnTop
<1>3. f \in Frames /\ f.kind = Top(c).kind /\ f.held = Top(c).held \cup {l} /\ f.spins = NONE
  BY <1>2 DEF Frames
<1>4. /\ SetTop(c, f) /\ current' = current /\ saved' = saved /\ owner' = [owner EXCEPT ![l] = c]
      /\ IF_' = IF_ /\ intena' = intena /\ ncli' = ncli
  BY DEF Acquired
<1> HIDE DEF f
<1>5. PICK s : /\ frames' = [frames EXCEPT ![current[c]] = s] /\ StackOK(current[c], s)
               /\ Stack(c)' = s /\ s # <<>> /\ Top(c)' = f
  BY <1>1, <1>3, <1>4, SetTopOK
<1>6. TypeOK' BY <1>0, <1>2, <1>4, Fields DEF TypeOK
<1>7. c # NONE BY Constants
<1>8. l \notin Top(c).held BY <1>1, <1>2, <1>7
<1>9. \A m \in Lock : owner'[m] = IF m = l THEN c ELSE owner[m] BY <1>0, <1>2, <1>4, Fields
<1>10. CpuOK(c)'
  <2>1. Cardinality(f.held) = Cardinality(Top(c).held) + 1
    <3>1. PICK S \in SUBSET Lock, m \in Lock : S = Top(c).held /\ m = l BY <1>2
    <3>2. Cardinality(S \cup {m}) = Cardinality(S) + 1 BY <1>8, <3>1, Counting
    <3> QED BY <1>3, <3>1, <3>2
  <2>2. ncli'[c] = Cardinality(f.held) BY <1>2, <1>4, <2>1
  <2>3. Cardinality(f.held) \in Nat BY <1>0, <1>4, <2>2, Fields
  <2>4. \A m \in Lock : m \in f.held <=> owner'[m] = c BY <1>2, <1>3, <1>9
  <2>5. ncli'[c] = Cardinality(f.held) + (IF f.spins # NONE THEN 1 ELSE 0) BY <1>3, <2>2, <2>3
  <2>6. ncli'[c] > 0 => ~IF_'[c] BY <1>2, <1>4
  <2>7. f.kind \in {"syscall", "interrupt"} =>
              IF ncli'[c] = 0 THEN IF_'[c] <=> Flag(f.kind) ELSE intena'[c] <=> Flag(f.kind)
    BY <1>2, <1>3, <1>4
  <2> QED BY <1>3, <1>5, <2>4, <2>5, <2>6, <2>7 DEF CpuOK
<1>11. \A d \in CPU \ {c} : \A m \in Lock : owner'[m] = d <=> owner[m] = d
  BY <1>1, <1>9, Constants
<1> QED BY <1>4, <1>5, <1>6, <1>10, <1>11, OwnStack

LEMMA ReleaseKeeps ==
  ASSUME SpinlocksAssumption, IInv, NEW c \in CPU, NEW l \in Lock, Release(c, l)
  PROVE  IInv'
<1> DEFINE f == [Top(c) EXCEPT !.held = @ \ {l}]
<1>0. TypeOK BY DEF IInv
<1>1. Stack(c) # <<>> /\ Top(c).spins = NONE /\ l \in Top(c).held BY DEF Release, Running
<1>2. /\ Top(c) \in Frames /\ Top(c).held \in SUBSET Lock
      /\ \A m \in Lock : m \in Top(c).held <=> owner[m] = c
      /\ ncli[c] = Cardinality(Top(c).held)
      /\ ncli[c] > 0 => ~IF_[c]
      /\ Top(c).kind \in {"syscall", "interrupt"} =>
              IF ncli[c] = 0 THEN IF_[c] <=> Flag(Top(c).kind) ELSE intena[c] <=> Flag(Top(c).kind)
  <2>1. Cardinality(Top(c).held) \in Nat BY <1>1, OnTop, Counting
  <2> QED BY <1>1, <2>1, OnTop
<1>3. f \in Frames /\ f.kind = Top(c).kind /\ f.held = Top(c).held \ {l} /\ f.spins = NONE
  BY <1>1, <1>2 DEF Frames
<1>4. /\ SetTop(c, f) /\ current' = current /\ saved' = saved /\ owner' = [owner EXCEPT ![l] = NONE]
      /\ IF_' = [IF_ EXCEPT ![c] = @ \/ (ncli[c] = 1 /\ intena[c])]
      /\ intena' = intena /\ ncli' = [ncli EXCEPT ![c] = @ - 1]
  BY DEF Release
<1> HIDE DEF f
<1>5. PICK s : /\ frames' = [frames EXCEPT ![current[c]] = s] /\ StackOK(current[c], s)
               /\ Stack(c)' = s /\ s # <<>> /\ Top(c)' = f
  BY <1>1, <1>3, <1>4, SetTopOK
<1>6. /\ Cardinality(f.held) = Cardinality(Top(c).held) - 1 /\ Cardinality(f.held) \in Nat
      /\ ncli[c] \in Nat /\ ncli[c] > 0
  <2>1. f.held \in SUBSET Lock BY <1>2, <1>3
  <2>2. Cardinality(f.held) = Cardinality(Top(c).held) - 1
    <3>1. PICK S \in SUBSET Lock : S = Top(c).held BY <1>2
    <3>2. Cardinality(S \ {l}) = Cardinality(S) - 1 BY <1>1, <3>1, Counting
    <3> QED BY <1>3, <3>1, <3>2
  <2>3. Cardinality(f.held) \in Nat BY <2>1, Counting
  <2>4. ncli[c] \in Nat BY <1>0, Fields
  <2> QED BY <1>2, <2>2, <2>3, <2>4
<1>7. /\ ncli'[c] = ncli[c] - 1 /\ ncli'[c] \in Nat /\ ~IF_[c]
      /\ IF_'[c] <=> (ncli[c] = 1 /\ intena[c])
  BY <1>0, <1>2, <1>4, <1>6, Fields
<1>8. TypeOK'
  <2>1. IF_' \in [CPU -> BOOLEAN] BY <1>0, <1>4, Fields
  <2>2. ncli' \in [CPU -> Nat] BY <1>0, <1>4, <1>7, Fields
  <2>3. owner' \in [Lock -> CPU \cup {NONE}] BY <1>0, <1>4, Fields
  <2> QED BY <1>0, <1>4, <2>1, <2>2, <2>3, Fields DEF TypeOK
<1>9. \A m \in Lock : owner'[m] = IF m = l THEN NONE ELSE owner[m] BY <1>0, <1>4, Fields
<1>10. CpuOK(c)'
  <2>1. ncli'[c] = Cardinality(f.held) BY <1>2, <1>6, <1>7
  <2>2. \A m \in Lock : m \in f.held <=> owner'[m] = c BY <1>2, <1>3, <1>9, Constants
  <2>3. ncli'[c] > 0 => ~IF_'[c] BY <1>6, <1>7
  <2>4. f.kind \in {"syscall", "interrupt"} =>
              IF ncli'[c] = 0 THEN IF_'[c] <=> Flag(f.kind) ELSE intena'[c] <=> Flag(f.kind)
    BY <1>2, <1>3, <1>4, <1>6, <1>7
  <2>5. ncli'[c] = Cardinality(f.held) + (IF f.spins # NONE THEN 1 ELSE 0) BY <1>3, <1>6, <2>1
  <2> QED BY <1>3, <1>5, <2>2, <2>3, <2>4, <2>5 DEF CpuOK
<1>11. \A d \in CPU \ {c} : /\ IF_'[d] = IF_[d] /\ ncli'[d] = ncli[d]
                            /\ \A m \in Lock : owner'[m] = d <=> owner[m] = d
  <2>1. owner[l] = c BY <1>1, <1>2
  <2> QED BY <1>0, <1>4, <1>9, <2>1, Fields, Constants
<1> QED BY <1>4, <1>5, <1>8, <1>10, <1>11, OwnStack

\* What a step has to show of a CPU that it leaves without locks.
LEMMA NoLocks ==
  ASSUME NEW c \in CPU, NEW f \in Frames, Stack(c)' # <<>>, Top(c)' = f, f.held = {}, f.spins = NONE,
         ncli'[c] = 0, \A l \in Lock : owner'[l] # c,
         f.kind \in {"syscall", "interrupt"} => (IF_'[c] <=> Flag(f.kind))
  PROVE  CpuOK(c)'
<1>1. Cardinality(f.held) = 0 BY FS_EmptySet
<1>2. ncli'[c] = Cardinality(f.held) + (IF f.spins # NONE THEN 1 ELSE 0) BY <1>1
<1>3. \A l \in Lock : l \in f.held <=> owner'[l] = c OBVIOUS
<1>4. ~(ncli'[c] > 0) OBVIOUS
<1>5. f.kind \in {"syscall", "interrupt"} =>
              IF ncli'[c] = 0 THEN IF_'[c] <=> Flag(f.kind) ELSE intena'[c] <=> Flag(f.kind)
  OBVIOUS
<1> QED BY <1>2, <1>3, <1>4, <1>5 DEF CpuOK

LEMMA SyscallKeeps ==
  ASSUME SpinlocksAssumption, IInv, NEW c \in CPU, Syscall(c)
  PROVE  IInv'
<1> DEFINE f == Frame("syscall", {})
           s == <<f>>
<1>0. TypeOK /\ CpuOK(c) BY DEF IInv
<1>1. current[c] \in Context /\ current[c] \notin CPU BY Constants DEF Syscall
<1>2. f \in Frames /\ f.kind = "syscall" /\ f.held = {} /\ f.spins = NONE
  BY DEF Frame, Frames, Kinds
<1>3. StackOK(current[c], s) /\ s # <<>> /\ Last(s) = f
  <2>1. s \in Seq(Frames) /\ Len(s) = 1 /\ s[1] = f BY <1>2
  <2> HIDE DEF s
  <2> QED BY <1>1, <1>2, <2>1, OneFrame
<1>4. /\ Stack(c) = <<>> /\ frames' = [frames EXCEPT ![current[c]] = s] /\ current' = current
      /\ UNCHANGED <<owner, IF_, ncli, intena, saved>>
  BY DEF Syscall
<1> HIDE DEF s, f
<1>5. Stack(c)' = s /\ Top(c)' = f
  <2>1. Stack(c)' = s BY <1>1, <1>4 DEF Stack, IInv, StacksOK
  <2> QED BY <1>3, <2>1 DEF Top
<1>6. ncli[c] = 0 /\ IF_[c] /\ \A l \in Lock : owner[l] # c BY <1>0, <1>4 DEF CpuOK
<1>8. TypeOK' BY <1>0, <1>4 DEF TypeOK
<1>9. CpuOK(c)' BY <1>2, <1>3, <1>4, <1>5, <1>6, NoLocks DEF Flag
<1> QED BY <1>3, <1>4, <1>8, <1>9, OwnStack

LEMMA InterruptKeeps ==
  ASSUME SpinlocksAssumption, IInv, NEW c \in CPU, Interrupt(c)
  PROVE  IInv'
<1> DEFINE f == Frame("interrupt", {})
           s == Append(Stack(c), f)
<1>0. TypeOK /\ StacksOK /\ CpuOK(c) BY DEF IInv
<1>1. current[c] \in Context /\ StackOK(current[c], Stack(c)) BY <1>0, HeldByTop
<1>2. f \in Frames /\ f.kind = "interrupt" /\ f.held = {} /\ f.spins = NONE
  BY DEF Frame, Frames, Kinds
<1>3. /\ frames' = [frames EXCEPT ![current[c]] = s] /\ current' = current
      /\ IF_[c] /\ IF_' = [IF_ EXCEPT ![c] = FALSE] /\ UNCHANGED <<owner, ncli, intena, saved>>
  BY DEF Interrupt, Stack
<1> HIDE DEF f
<1>4. ncli[c] = 0 /\ \A l \in Lock : owner[l] # c
  <2>1. CASE Stack(c) = <<>> BY <1>0, <2>1 DEF CpuOK
  <2>2. CASE Stack(c) # <<>>
    <3>1. ncli[c] \in Nat /\ (ncli[c] > 0 => ~IF_[c]) BY <1>0, <2>2, OnTop, Fields
    <3>2. ncli[c] = 0 BY <1>3, <3>1
    <3>3. Cardinality(Top(c).held) = 0
      <4>1. ncli[c] = Cardinality(Top(c).held) + (IF Top(c).spins # NONE THEN 1 ELSE 0) BY <2>2, OnTop
      <4>2. Cardinality(Top(c).held) \in Nat BY <2>2, OnTop, Counting, Constants
      <4> QED BY <3>2, <4>1, <4>2
    <3>4. Top(c).held = {} BY <2>2, <3>3, OnTop, Counting, Constants
    <3> QED BY <2>2, <3>2, <3>4, OnTop
  <2> QED BY <2>1, <2>2
<1>5. StackOK(current[c], s) /\ s # <<>> /\ Last(s) = f
  <2>1. CASE Stack(c) = <<>>
    <3>1. s \in Seq(Frames) /\ Len(s) = 1 /\ s[1] = f BY <1>2, <2>1
    <3>2. Len(Stack(c)) = 0 BY <2>1
    <3>3. current[c] \notin CPU BY <1>1, <3>2 DEF StackOK
    <3> HIDE DEF s
    <3> QED BY <1>2, <3>1, <3>3, OneFrame
  <2>2. CASE Stack(c) # <<>>
    <3>1. /\ Top(c) \in Frames /\ Len(Stack(c)) \in 1 .. 2 /\ Top(c) = Stack(c)[Len(Stack(c))]
          /\ ncli[c] = Cardinality(Top(c).held) + (IF Top(c).spins # NONE THEN 1 ELSE 0)
          /\ Top(c).held \in SUBSET Lock
          /\ Top(c).kind \in {"syscall", "interrupt"} =>
              IF ncli[c] = 0 THEN IF_[c] <=> Flag(Top(c).kind) ELSE intena[c] <=> Flag(Top(c).kind)
      BY <2>2, OnTop
    <3>2. Cardinality(Top(c).held) \in Nat /\ (Top(c).held = {} <=> Cardinality(Top(c).held) = 0)
      BY <3>1, Counting, Constants
    <3>3. Top(c).held = {} /\ Top(c).spins = NONE BY <1>4, <3>1, <3>2
    <3>4. Top(c).kind # "interrupt" BY <1>3, <1>4, <3>1 DEF Flag
    <3>5. Len(Stack(c)) = 1 BY <1>1, <3>1, <3>4 DEF StackOK
    <3>6. Stack(c) \in Seq(Frames) BY <1>1 DEF StackOK
    <3>7. /\ s \in Seq(Frames) /\ Len(s) = 2 /\ s[1] = Stack(c)[1] /\ s[2] = f
      BY SMTT(30), <1>2, <3>5, <3>6, AppendProperties
    <3> HIDE DEF s
    <3>8. StackOK(current[c], s) BY <1>1, <1>2, <3>1, <3>3, <3>4, <3>5, <3>7 DEF StackOK
    <3>9. Last(s) = f BY <3>7 DEF Last
    <3>10. s # <<>> BY <3>7
    <3> QED BY <3>8, <3>9, <3>10
  <2> QED BY <2>1, <2>2
<1> HIDE DEF s
<1>6. Stack(c)' = s /\ Top(c)' = f
  <2>1. Stack(c)' = s BY <1>0, <1>1, <1>3 DEF Stack, StacksOK
  <2> QED BY <1>5, <2>1 DEF Top
<1>8. IF_'[c] = FALSE /\ IF_' \in [CPU -> BOOLEAN] BY <1>0, <1>3, Fields
<1>9. TypeOK' BY <1>0, <1>3, <1>8 DEF TypeOK
<1>10. CpuOK(c)' BY <1>2, <1>3, <1>4, <1>5, <1>6, <1>8, NoLocks DEF Flag
<1>11. \A d \in CPU \ {c} : IF_'[d] = IF_[d] BY <1>0, <1>3, Fields
<1> QED BY <1>3, <1>5, <1>9, <1>10, <1>11, OwnStack

LEMMA ReturnKeeps ==
  ASSUME SpinlocksAssumption, IInv, NEW c \in CPU, Return(c)
  PROVE  IInv'
<1> DEFINE s == Front(Stack(c))
<1>0. TypeOK /\ StacksOK /\ CpuOK(c) BY DEF IInv
<1>1. /\ Stack(c) # <<>> /\ Top(c).spins = NONE /\ Top(c).held = {} /\ Top(c).kind # "scheduler"
      /\ frames' = [frames EXCEPT ![current[c]] = s] /\ current' = current
      /\ IF_' = [IF_ EXCEPT ![c] = TRUE] /\ UNCHANGED <<owner, ncli, intena, saved>>
  BY DEF Return, Running, Stack
<1>2. /\ current[c] \in Context /\ StackOK(current[c], Stack(c)) /\ Len(Stack(c)) \in 1 .. 2
      /\ Top(c) = Stack(c)[Len(Stack(c))]
      /\ \A l \in Lock : l \in Top(c).held <=> owner[l] = c
      /\ ncli[c] = Cardinality(Top(c).held) + (IF Top(c).spins # NONE THEN 1 ELSE 0)
  BY <1>1, OnTop
<1>3. Stack(c) \in Seq(Frames) BY <1>2 DEF StackOK
<1>4. /\ Len(Stack(c)) = 1 => s = <<>>
      /\ Len(Stack(c)) = 2 => s \in Seq(Frames) /\ Len(s) = 1 /\ s[1] = Stack(c)[1]
  BY <1>3, Below
<1> HIDE DEF s
<1>5. Cardinality(Top(c).held) = 0 BY <1>1, FS_EmptySet
<1>6. ncli[c] = 0 /\ \A l \in Lock : owner[l] # c BY <1>1, <1>2, <1>5
<1>7. IF_'[c] = TRUE /\ IF_' \in [CPU -> BOOLEAN] BY <1>0, <1>1, Fields
<1>8. TypeOK' BY <1>0, <1>1, <1>7 DEF TypeOK
<1>9. Stack(c)' = s BY <1>0, <1>1, <1>2 DEF Stack, StacksOK
<1>10. StackOK(current[c], s) /\ CpuOK(c)'
  <2>1. CASE Len(Stack(c)) = 1
    <3>1. current[c] \notin CPU BY <1>1, <1>2, <2>1 DEF StackOK
    <3>2. s = <<>> BY <1>4, <2>1
    <3>3. s \in Seq(Frames) /\ Len(s) = 0 BY <3>2
    <3>4. StackOK(current[c], s) BY <3>1, <3>3 DEF StackOK
    <3>5. CpuOK(c)' BY <1>1, <1>6, <1>7, <1>9, <3>2 DEF CpuOK
    <3> QED BY <3>4, <3>5
  <2>2. CASE Len(Stack(c)) = 2
    <3> DEFINE f == s[1]
    <3>1. /\ f.kind # "interrupt" /\ f.held = {} /\ f.spins = NONE
          /\ f.kind = "scheduler" <=> current[c] \in CPU
      BY <1>2, <1>4, <2>2 DEF StackOK
    <3>2. StackOK(current[c], s) /\ s # <<>> /\ Last(s) = f /\ f \in Frames
      BY <1>4, <2>2, <3>1, OneFrame
    <3> HIDE DEF f
    <3>3. s # <<>> /\ Last(s) = f BY <3>2
    <3>4. Top(c)' = f BY <1>9, <3>3 DEF Top
    <3>5. f.kind \in {"syscall", "interrupt"} => (IF_'[c] <=> Flag(f.kind)) BY <1>7, <3>1 DEF Flag
    <3>6. CpuOK(c)' BY <1>1, <1>6, <1>9, <3>1, <3>2, <3>3, <3>4, <3>5, NoLocks
    <3> QED BY <3>2, <3>6
  <2>3. Len(Stack(c)) = 1 \/ Len(Stack(c)) = 2 BY <1>2
  <2> QED BY <2>1, <2>2, <2>3
<1>11. \A d \in CPU \ {c} : IF_'[d] = IF_[d] BY <1>0, <1>1, Fields
<1> QED BY <1>1, <1>8, <1>10, <1>11, OwnStack

LEMMA StiKeeps ==
  ASSUME SpinlocksAssumption, IInv, NEW c \in CPU, Sti(c)
  PROVE  IInv'
<1>0. TypeOK /\ StacksOK /\ CpuOK(c) BY DEF IInv
<1>1. /\ Stack(c) # <<>> /\ Top(c).spins = NONE /\ Top(c).held = {} /\ Top(c).kind = "scheduler"
      /\ IF_' = [IF_ EXCEPT ![c] = TRUE] /\ UNCHANGED <<owner, ncli, intena, current, frames, saved>>
  BY DEF Sti, Running
<1>2. /\ current[c] \in Context /\ StackOK(current[c], Stack(c)) /\ Top(c) \in Frames
      /\ \A l \in Lock : owner[l] # c
      /\ ncli[c] = Cardinality(Top(c).held) + (IF Top(c).spins # NONE THEN 1 ELSE 0)
  BY <1>1, OnTop
<1>3. Cardinality(Top(c).held) = 0 BY <1>1, FS_EmptySet
<1>4. ncli[c] = 0 BY <1>1, <1>2, <1>3
<1>5. IF_'[c] = TRUE /\ IF_' \in [CPU -> BOOLEAN] BY <1>0, <1>1, Fields
<1>6. TypeOK' BY <1>0, <1>1, <1>5 DEF TypeOK
<1>7. Stack(c)' = Stack(c) /\ Top(c)' = Top(c) BY <1>1 DEF Stack, Top
<1>8. CpuOK(c)' BY <1>1, <1>2, <1>4, <1>7, NoLocks
<1>9. \A d \in CPU \ {c} : IF_'[d] = IF_[d] BY <1>0, <1>1, Fields
<1>10. frames' = [frames EXCEPT ![current[c]] = Stack(c)] BY <1>0, <1>1 DEF Stack, StacksOK
<1> QED BY <1>1, <1>2, <1>6, <1>8, <1>9, <1>10, OwnStack

-----------------------------------------------------------------------------
(* From the scheduler to a process and back *)

\* A stack with another frame of the same kind on top, as sched and scheduler leave it.
LEMMA TopFrame ==
  ASSUME NEW x, NEW s, StackOK(x, s), Len(s) \in 1 .. 2, NEW f \in Frames, f.kind = Last(s).kind,
         NEW r, r = [s EXCEPT ![Len(s)] = f]
  PROVE  StackOK(x, r) /\ Len(r) = Len(s) /\ r # <<>> /\ Last(r) = f
<1>1. s \in Seq(Frames) /\ s[Len(s)] \in Frames BY ElementOfSeq DEF StackOK
<1>3. f \in Frames /\ f.kind = s[Len(s)].kind BY DEF Last
<1>5. r \in Seq(Frames) /\ Len(r) = Len(s) /\ \A i \in 1 .. Len(s) : r[i] = IF i = Len(s) THEN f ELSE s[i]
  <2>1. PICK k \in 1 .. Len(s) : k = Len(s) OBVIOUS
  <2>2. r = [s EXCEPT ![k] = f] BY <2>1
  <2>3. r \in Seq(Frames) BY <1>1, <1>3, <2>2, ExceptSeq
  <2>4. Len(r) = Len(s) BY <1>1, <1>3, <2>2, ExceptSeq
  <2>5. \A i \in 1 .. Len(s) : r[i] = IF i = k THEN f ELSE s[i] BY <1>1, <1>3, <2>2, ExceptSeq
  <2> QED BY <2>1, <2>3, <2>4, <2>5
<1>6. Last(r) = f BY <1>5 DEF Last
<1>7. r # <<>> BY <1>5
<1>8. StackOK(x, r)
  <2>1. Len(r) <= 2 BY <1>5
  <2>2. r[1].kind = s[1].kind BY <1>3, <1>5
  <2>3. ASSUME Len(r) = 2
        PROVE  r[2].kind = "interrupt" /\ r[1].kind # "interrupt" /\ r[1].held = {} /\ r[1].spins = NONE
    BY <1>3, <1>5, <2>3 DEF StackOK
  <2>4. /\ Len(r) >= 1 => (r[1].kind = "scheduler" <=> x \in CPU)
        /\ x \in CPU => Len(r) >= 1
    BY <1>5, <2>2 DEF StackOK
  <2> QED BY <1>5, <2>1, <2>3, <2>4 DEF StackOK
<1> QED BY <1>5, <1>6, <1>7, <1>8

\* A CPU that a step does not touch.
LEMMA OtherCpu ==
  ASSUME NEW d \in CPU, CpuOK(d), current'[d] = current[d],
         frames'[current[d]] = frames[current[d]], owner' = owner,
         IF_'[d] = IF_[d], ncli'[d] = ncli[d], intena'[d] = intena[d]
  PROVE  CpuOK(d)'
<1>1. Stack(d)' = Stack(d) BY DEF Stack
<1>2. Top(d)' = Top(d) BY <1>1 DEF Top
<1> QED BY <1>1, <1>2 DEF CpuOK

\* A CPU is the scheduler's when its top frame is the scheduler's.
LEMMA InScheduler ==
  ASSUME SpinlocksAssumption, IInv, NEW c \in CPU, Stack(c) # <<>>
  PROVE  /\ Top(c).kind = "scheduler" => current[c] = c /\ Len(Stack(c)) = 1
         /\ current[c] \in Process => Top(c).kind # "scheduler"
<1>1. /\ StackOK(current[c], Stack(c)) /\ Len(Stack(c)) \in 1 .. 2
      /\ Top(c) = Stack(c)[Len(Stack(c))]
  BY OnTop
<1>2. current[c] \in Process \cup {c} BY DEF IInv, TypeOK
<1>3. Top(c).kind = "scheduler" => Len(Stack(c)) = 1 /\ current[c] \in CPU BY <1>1 DEF StackOK
<1> QED BY <1>2, <1>3, Constants

LEMMA SwtchInKeepsIInv ==
  ASSUME SpinlocksAssumption, IInv, NEW c \in CPU, NEW p \in Process, SwtchIn(c, p)
  PROVE  IInv'
<1>0. TypeOK /\ StacksOK /\ CurrentOK /\ ParkedOK BY DEF IInv
<1>1. /\ Stack(c) # <<>> /\ Top(c).spins = NONE /\ Top(c).kind = "scheduler" /\ Held(c) = {ptable}
      /\ \A d \in CPU : current[d] # p
      /\ frames' = [frames EXCEPT ![c][1].held = {}, ![p][Len(frames[p])].held = {ptable}]
      /\ current' = [current EXCEPT ![c] = p]
      /\ intena' = IF saved[p] = "new" THEN intena ELSE [intena EXCEPT ![c] = saved[p] = "on"]
      /\ owner' = owner /\ IF_' = IF_ /\ ncli' = ncli /\ saved' = saved
  BY DEF SwtchIn, Running, Runs
<1>2. current[c] = c /\ Len(frames[c]) = 1 BY <1>1, InScheduler DEF Stack
<1>3. c \in Context /\ p \in Context /\ c # p /\ c \notin Process /\ p \notin CPU /\ ptable \in Lock BY Constants
<1>4. Top(c).held = {ptable} BY <1>1, OnTop
<1>5. Cardinality({ptable}) = 1 BY FS_Singleton
<1>6. ncli[c] = 1 /\ ~IF_[c] /\ \A l \in Lock : l \in {ptable} <=> owner[l] = c
  <2>1. ncli[c] = Cardinality(Top(c).held) + (IF Top(c).spins # NONE THEN 1 ELSE 0) BY <1>1, OnTop
  <2>2. ncli[c] = 1 BY <1>1, <1>4, <1>5, <2>1
  <2>3. ncli[c] > 0 => ~IF_[c] BY <1>1, OnTop
  <2>4. \A l \in Lock : l \in Top(c).held <=> owner[l] = c BY <1>1, OnTop
  <2> QED BY <1>4, <2>2, <2>3, <2>4
<1>7. /\ StackOK(c, frames[c]) /\ StackOK(p, frames[p])
      /\ Len(frames[p]) >= 1 /\ Last(frames[p]).spins = NONE
      /\ saved[p] = "new" <=> Last(frames[p]).kind = "forkret"
      /\ Last(frames[p]).kind # "forkret" => (saved[p] = "on" <=> Flag(Last(frames[p]).kind))
  BY <1>0, <1>1, <1>3 DEF StacksOK, ParkedOK
<1>8. Len(frames[p]) \in 1 .. 2
  <2>1. frames[p] # <<>> BY <1>7
  <2> QED BY <1>7, <2>1, Sizes
<1>9. /\ frames'[c] = [frames[c] EXCEPT ![Len(frames[c])].held = {}]
      /\ frames'[p] = [frames[p] EXCEPT ![Len(frames[p])].held = {ptable}]
      /\ \A x \in Context \ {c, p} : frames'[x] = frames[x]
      /\ frames' = [x \in Context |-> frames'[x]]
  BY <1>0, <1>1, <1>2, <1>3 DEF StacksOK
<1>10. /\ StackOK(c, frames'[c]) /\ Len(frames'[c]) = 1 /\ Last(frames'[c]).held = {}
       /\ Last(frames'[c]).spins = Last(frames[c]).spins
  <2>1. PICK s, r : s = frames[c] /\ r = frames'[c] OBVIOUS
  <2>2. StackOK(c, s) /\ Len(s) \in 1 .. 2 BY <1>2, <1>7, <2>1
  <2>3. Last(s) \in Frames /\ Last(s) = s[Len(s)]
    <3>1. s # <<>> BY <2>2
    <3> QED BY <2>2, <3>1, Sizes
  <2>4. PICK f : f = [Last(s) EXCEPT !.held = {}] OBVIOUS
  <2>5. f \in Frames /\ f.held = {} /\ f.kind = Last(s).kind /\ f.spins = Last(s).spins
    BY <2>3, <2>4 DEF Frames
  <2>6. r = [s EXCEPT ![Len(s)] = f] BY <1>9, <2>1, <2>3, <2>4
  <2>7. StackOK(c, r) /\ Len(r) = Len(s) /\ r # <<>> /\ Last(r) = f
    BY ONLY <2>2, <2>5, <2>6, TopFrame
  <2> QED BY <1>2, <2>1, <2>5, <2>7
<1>11. /\ StackOK(p, frames'[p]) /\ frames'[p] # <<>> /\ Last(frames'[p]).held = {ptable}
       /\ Last(frames'[p]).kind = Last(frames[p]).kind /\ Last(frames'[p]).spins = NONE
  <2>1. PICK s, r : s = frames[p] /\ r = frames'[p] OBVIOUS
  <2>2. StackOK(p, s) /\ Len(s) \in 1 .. 2 BY <1>7, <1>8, <2>1
  <2>3. Last(s) \in Frames /\ Last(s) = s[Len(s)]
    <3>1. s # <<>> BY <2>2
    <3> QED BY <2>2, <3>1, Sizes
  <2>4. PICK f : f = [Last(s) EXCEPT !.held = {ptable}] OBVIOUS
  <2>5. f \in Frames /\ f.held = {ptable} /\ f.kind = Last(s).kind /\ f.spins = Last(s).spins
    BY <1>3, <2>3, <2>4 DEF Frames
  <2>6. r = [s EXCEPT ![Len(s)] = f] BY <1>9, <2>1, <2>3, <2>4
  <2>7. StackOK(p, r) /\ Len(r) = Len(s) /\ r # <<>> /\ Last(r) = f
    BY ONLY <2>2, <2>5, <2>6, TopFrame
  <2> QED BY <1>7, <2>1, <2>5, <2>7
<1>12. StacksOK' BY <1>0, <1>9, <1>10, <1>11 DEF StacksOK
<1>13. current' \in [CPU -> Context] /\ current'[c] = p /\ \A d \in CPU \ {c} : current'[d] = current[d]
  BY <1>0, <1>1, <1>3, Fields
<1>14. intena' \in [CPU -> BOOLEAN] /\ \A d \in CPU \ {c} : intena'[d] = intena[d]
  BY <1>0, <1>1, Fields
<1>15. saved[p] # "new" => (intena'[c] <=> saved[p] = "on") BY <1>0, <1>1, Fields
<1>16. TypeOK'
  <2>1. \A d \in CPU : current'[d] \in Process \cup {d} BY <1>0, <1>13 DEF TypeOK
  <2> QED BY <1>0, <1>1, <1>13, <1>14, <2>1, Fields DEF TypeOK
<1>17. CurrentOK' BY <1>0, <1>1, <1>13 DEF CurrentOK
<1>18. ParkedOK'
  <2> SUFFICES ASSUME NEW x \in Context, \A d \in CPU : current'[d] # x
               PROVE  /\ Len(frames'[x]) >= 1 /\ Last(frames'[x]).spins = NONE
                      /\ x \in CPU => Len(frames'[x]) = 1 /\ Last(frames'[x]).held = {}
                      /\ x \in Process => LET kind == Last(frames'[x]).kind IN
                           /\ saved'[x] = "new" <=> kind = "forkret"
                           /\ kind # "forkret" => (saved'[x] = "on" <=> Flag(kind))
    BY DEF ParkedOK
  <2>1. x # p BY <1>13
  <2>2. CASE x = c
    <3>1. Last(frames[c]).spins = NONE BY <1>1, <1>2 DEF Top, Stack
    <3> QED BY <1>3, <1>10, <2>2, <3>1
  <2>3. CASE x # c
    <3>1. \A d \in CPU : current[d] # x BY <1>2, <1>13, <2>3
    <3>2. frames'[x] = frames[x] BY <1>9, <2>1, <2>3
    <3>3. saved'[x] = saved[x] BY <1>1
    <3> QED BY <1>0, <3>1, <3>2, <3>3 DEF ParkedOK
  <2> QED BY <2>2, <2>3
<1>19. CpuOK(c)'
  <2> DEFINE f == Last(frames'[p])
  <2>1. Stack(c)' = frames'[p] /\ Top(c)' = f BY <1>13 DEF Stack, Top
  <2>2. ncli'[c] = Cardinality(f.held) + (IF f.spins # NONE THEN 1 ELSE 0)
    <3>1. f.spins = NONE /\ Cardinality(f.held) = 1 BY <1>5, <1>11
    <3>2. ncli'[c] = 1 BY <1>1, <1>6
    <3> HIDE DEF f
    <3> QED BY <3>1, <3>2
  <2>3. f.kind \in {"syscall", "interrupt"} => (intena'[c] <=> Flag(f.kind)) BY <1>7, <1>11, <1>15
  <2>4. \A l \in Lock : l \in f.held <=> owner'[l] = c BY <1>1, <1>6, <1>11
  <2>5. ncli'[c] = 1 /\ ~IF_'[c] BY <1>1, <1>6
  <2>6. f.spins = NONE /\ frames'[p] # <<>> BY <1>11
  <2> HIDE DEF f
  <2> QED BY <2>1, <2>2, <2>3, <2>4, <2>5, <2>6 DEF CpuOK
<1>20. ASSUME NEW d \in CPU, d # c PROVE CpuOK(d)'
  <2>1. current[d] # c /\ current[d] # p /\ current[d] \in Context BY <1>0, <1>1, <1>2, <1>20, Fields DEF CurrentOK
  <2>2. frames'[current[d]] = frames[current[d]] BY <1>9, <2>1
  <2>3. CpuOK(d) BY DEF IInv
  <2> QED BY <1>1, <1>13, <1>14, <1>20, <2>2, <2>3, OtherCpu
<1> QED BY <1>12, <1>16, <1>17, <1>18, <1>19, <1>20 DEF IInv

LEMMA SchedKeeps ==
  ASSUME SpinlocksAssumption, IInv, NEW c \in CPU, Sched(c)
  PROVE  IInv'
<1>0. TypeOK /\ StacksOK /\ CurrentOK /\ ParkedOK BY DEF IInv
<1> DEFINE p == current[c]
<1>1. /\ p \in Process /\ Stack(c) # <<>> /\ Top(c).spins = NONE /\ Top(c).kind # "forkret"
      /\ Top(c).held = {ptable} /\ ncli[c] = 1 /\ ~IF_[c]
      /\ saved' = [saved EXCEPT ![p] = IF intena[c] THEN "on" ELSE "off"]
      /\ frames' = [frames EXCEPT ![p][Len(frames[p])].held = {}, ![c][1].held = {ptable}]
      /\ current' = [current EXCEPT ![c] = c]
      /\ owner' = owner /\ IF_' = IF_ /\ ncli' = ncli /\ intena' = intena
  BY DEF Sched, Running
<1>2. /\ StackOK(p, frames[p]) /\ Len(frames[p]) \in 1 .. 2 /\ Top(c) = Last(frames[p])
      /\ Top(c) \in Frames /\ \A l \in Lock : l \in {ptable} <=> owner[l] = c
      /\ Top(c).kind \in {"syscall", "interrupt"} => (intena[c] <=> Flag(Top(c).kind))
  BY <1>1, OnTop DEF Stack, Top
<1>3. Top(c).kind \in {"syscall", "interrupt"}
  <2>1. Top(c).kind \in Kinds BY <1>2 DEF Frames
  <2>2. Top(c).kind # "scheduler" BY <1>1, InScheduler
  <2> QED BY <1>1, <2>1, <2>2 DEF Kinds
<1> HIDE DEF p
<1>4. c \in Context /\ p \in Context /\ c # p /\ c \notin Process /\ p \notin CPU /\ ptable \in Lock
  BY <1>1, Constants
<1>5. \A d \in CPU : current[d] # c
  BY <1>0, <1>4, Constants DEF TypeOK, p
<1>6. /\ StackOK(c, frames[c]) /\ Len(frames[c]) = 1 /\ Last(frames[c]).spins = NONE
  BY <1>0, <1>4, <1>5 DEF StacksOK, ParkedOK
<1>7. /\ frames'[c] = [frames[c] EXCEPT ![Len(frames[c])].held = {ptable}]
      /\ frames'[p] = [frames[p] EXCEPT ![Len(frames[p])].held = {}]
      /\ \A x \in Context \ {c, p} : frames'[x] = frames[x]
      /\ frames' = [x \in Context |-> frames'[x]]
  BY <1>0, <1>1, <1>4, <1>6 DEF StacksOK
<1>8. /\ StackOK(c, frames'[c]) /\ frames'[c] # <<>> /\ Last(frames'[c]).held = {ptable}
      /\ Last(frames'[c]).spins = NONE /\ Last(frames'[c]).kind = Last(frames[c]).kind
  <2>1. PICK s, r : s = frames[c] /\ r = frames'[c] OBVIOUS
  <2>2. StackOK(c, s) /\ Len(s) \in 1 .. 2 BY <1>6, <2>1
  <2>3. Last(s) \in Frames /\ Last(s) = s[Len(s)]
    <3>1. s # <<>> BY <2>2
    <3> QED BY <2>2, <3>1, Sizes
  <2>4. PICK f : f = [Last(s) EXCEPT !.held = {ptable}] OBVIOUS
  <2>5. f \in Frames /\ f.held = {ptable} /\ f.kind = Last(s).kind /\ f.spins = Last(s).spins
    BY <1>4, <2>3, <2>4 DEF Frames
  <2>6. r = [s EXCEPT ![Len(s)] = f] BY <1>7, <2>1, <2>3, <2>4
  <2>7. StackOK(c, r) /\ Len(r) = Len(s) /\ r # <<>> /\ Last(r) = f
    BY ONLY <2>2, <2>5, <2>6, TopFrame
  <2> QED BY <1>6, <2>1, <2>5, <2>7
<1>9. /\ StackOK(p, frames'[p]) /\ Len(frames'[p]) = Len(frames[p])
      /\ Last(frames'[p]).spins = Last(frames[p]).spins /\ Last(frames'[p]).kind = Last(frames[p]).kind
  <2>1. PICK s, r : s = frames[p] /\ r = frames'[p] OBVIOUS
  <2>2. StackOK(p, s) /\ Len(s) \in 1 .. 2 BY <1>2, <2>1
  <2>3. Last(s) \in Frames /\ Last(s) = s[Len(s)]
    <3>1. s # <<>> BY <2>2
    <3> QED BY <2>2, <3>1, Sizes
  <2>4. PICK f : f = [Last(s) EXCEPT !.held = {}] OBVIOUS
  <2>5. f \in Frames /\ f.held = {} /\ f.kind = Last(s).kind /\ f.spins = Last(s).spins
    BY <2>3, <2>4 DEF Frames
  <2>6. r = [s EXCEPT ![Len(s)] = f] BY <1>7, <2>1, <2>3, <2>4
  <2>7. StackOK(p, r) /\ Len(r) = Len(s) /\ r # <<>> /\ Last(r) = f
    BY ONLY <2>2, <2>5, <2>6, TopFrame
  <2> QED BY <1>2, <2>1, <2>5, <2>7
<1>10. Last(frames'[c]).kind = "scheduler"
  BY <1>4, <1>6, <1>8 DEF StackOK, Last
<1>11. StacksOK' BY <1>0, <1>7, <1>8, <1>9 DEF StacksOK
<1>12. current' \in [CPU -> Context] /\ current'[c] = c /\ \A d \in CPU \ {c} : current'[d] = current[d]
  BY <1>0, <1>1, <1>4, Fields
<1>13. /\ saved' \in [Process -> {"new", "on", "off"}]
       /\ saved'[p] = IF intena[c] THEN "on" ELSE "off"
       /\ \A x \in Process \ {p} : saved'[x] = saved[x]
  BY <1>0, <1>1, Fields
<1>14. TypeOK'
  <2>1. \A d \in CPU : current'[d] \in Process \cup {d} BY <1>0, <1>12 DEF TypeOK
  <2> QED BY <1>0, <1>1, <1>12, <1>13, <2>1, Fields DEF TypeOK
<1>15. CurrentOK' BY <1>0, <1>5, <1>12 DEF CurrentOK
<1>16. ParkedOK'
  <2> SUFFICES ASSUME NEW x \in Context, \A d \in CPU : current'[d] # x
               PROVE  /\ Len(frames'[x]) >= 1 /\ Last(frames'[x]).spins = NONE
                      /\ x \in CPU => Len(frames'[x]) = 1 /\ Last(frames'[x]).held = {}
                      /\ x \in Process => LET kind == Last(frames'[x]).kind IN
                           /\ saved'[x] = "new" <=> kind = "forkret"
                           /\ kind # "forkret" => (saved'[x] = "on" <=> Flag(kind))
    BY DEF ParkedOK
  <2>1. x # c BY <1>12
  <2>2. CASE x = p
    <3>1. Len(frames'[p]) >= 1 /\ Last(frames'[p]).spins = NONE
      <4>1. PICK m \in 1 .. 2 : m = Len(frames[p]) BY <1>2
      <4>2. m >= 1 OBVIOUS
      <4> QED BY <1>1, <1>2, <1>9, <4>1, <4>2
    <3>2. Last(frames'[p]).kind = Top(c).kind BY <1>2, <1>9
    <3>3. saved'[p] # "new" /\ (saved'[p] = "on" <=> intena[c]) BY <1>13
    <3> QED BY <1>1, <1>2, <1>3, <1>4, <2>2, <3>1, <3>2, <3>3
  <2>3. CASE x # p
    <3>1. \A d \in CPU : current[d] # x BY <1>12, <2>3 DEF p
    <3>2. frames'[x] = frames[x] BY <1>7, <2>1, <2>3
    <3>3. x \in Process => saved'[x] = saved[x] BY <1>13, <2>3
    <3> QED BY <1>0, <3>1, <3>2, <3>3 DEF ParkedOK
  <2> QED BY <2>2, <2>3
<1>17. CpuOK(c)'
  <2> DEFINE f == Last(frames'[c])
  <2>1. Stack(c)' = frames'[c] /\ Top(c)' = f BY <1>12 DEF Stack, Top
  <2>2. Cardinality({ptable}) = 1 BY FS_Singleton
  <2>3. ncli'[c] = Cardinality(f.held) + (IF f.spins # NONE THEN 1 ELSE 0) 
    <3>1. f.spins = NONE /\ Cardinality(f.held) = 1 BY <1>8, <2>2
    <3>2. ncli'[c] = 1 BY <1>1
    <3> HIDE DEF f
    <3> QED BY <3>1, <3>2
  <2>4. f.kind = "scheduler" BY <1>10
  <2>5. \A l \in Lock : l \in f.held <=> owner'[l] = c BY <1>1, <1>2, <1>8
  <2>6. ~IF_'[c] BY <1>1
  <2>7. f.spins = NONE /\ frames'[c] # <<>> BY <1>8
  <2> HIDE DEF f
  <2> QED BY <2>1, <2>3, <2>4, <2>5, <2>6, <2>7 DEF CpuOK
<1>18. ASSUME NEW d \in CPU, d # c PROVE CpuOK(d)'
  <2>1. current[d] # c /\ current[d] # p /\ current[d] \in Context BY <1>0, <1>5, <1>18, Fields DEF CurrentOK, p
  <2>2. frames'[current[d]] = frames[current[d]] BY <1>7, <2>1
  <2>3. CpuOK(d) BY DEF IInv
  <2> QED BY <1>1, <1>12, <1>18, <2>2, <2>3, OtherCpu
<1> QED BY <1>11, <1>14, <1>15, <1>16, <1>17, <1>18 DEF IInv

-----------------------------------------------------------------------------
(* The invariant, and what follows from it *)

\* A spin for a lock is never for one of its own CPU, and what a CPU counts is what it holds.
LEMMA IInvImplies ==
  ASSUME SpinlocksAssumption
  PROVE  IInv => TypeOK /\ InterruptsOff /\ NoSpinForOwn /\ InterruptsRestored
<1> SUFFICES ASSUME IInv PROVE TypeOK /\ InterruptsOff /\ NoSpinForOwn /\ InterruptsRestored
  OBVIOUS
<1>0. TypeOK /\ StacksOK BY DEF IInv
<1>1. InterruptsOff
  <2> SUFFICES ASSUME NEW c \in CPU
               PROVE  /\ Held(c) = {l \in Lock : owner[l] = c}
                      /\ ncli[c] = Cardinality(Held(c))
                                   + (IF Stack(c) # <<>> /\ Top(c).spins # NONE THEN 1 ELSE 0)
                      /\ ncli[c] > 0 => ~IF_[c]
    BY DEF InterruptsOff
  <2>1. CASE Stack(c) = <<>>
    <3>1. ncli[c] = 0 /\ \A l \in Lock : owner[l] # c BY <2>1 DEF IInv, CpuOK
    <3>2. Held(c) = {} BY <1>0, <2>1, HeldByTop
    <3>3. Cardinality({}) = 0 BY FS_EmptySet
    <3> QED BY <2>1, <3>1, <3>2, <3>3
  <2>2. CASE Stack(c) # <<>>
    <3>1. Held(c) = Top(c).held /\ Top(c).held \in SUBSET Lock BY <2>2, OnTop
    <3>2. \A l \in Lock : l \in Top(c).held <=> owner[l] = c BY <2>2, OnTop
    <3>3. ncli[c] = Cardinality(Top(c).held) + (IF Top(c).spins # NONE THEN 1 ELSE 0) BY <2>2, OnTop
    <3>4. ncli[c] > 0 => ~IF_[c] BY <2>2, OnTop
    <3>5. Held(c) = {l \in Lock : owner[l] = c} BY <3>1, <3>2
    <3>6. ncli[c] = Cardinality(Held(c)) + (IF Stack(c) # <<>> /\ Top(c).spins # NONE THEN 1 ELSE 0)
      BY <2>2, <3>1, <3>3
    <3> QED BY <3>4, <3>5, <3>6
  <2> QED BY <2>1, <2>2
<1>2. NoSpinForOwn
  <2> SUFFICES ASSUME NEW c \in CPU, Stack(c) # <<>>, Top(c).spins # NONE
               PROVE  owner[Top(c).spins] # c /\ \A l \in Held(c) : l < Top(c).spins
    BY DEF NoSpinForOwn
  <2>1. Held(c) = Top(c).held /\ Top(c).spins \in Lock BY OnTop
  <2>2. \A h \in Top(c).held : h < Top(c).spins BY OnTop
  <2>3. \A l \in Lock : l \in Top(c).held <=> owner[l] = c BY OnTop
  <2>4. Top(c).spins \notin Top(c).held
    <3>1. Top(c).spins \in Nat BY <2>1, Constants
    <3>2. ~(Top(c).spins < Top(c).spins) BY <3>1
    <3> QED BY <2>2, <3>2
  <2> QED BY <2>1, <2>2, <2>3, <2>4
<1>3. InterruptsRestored
  <2> SUFFICES ASSUME NEW c \in CPU, current[c] \in Process, Stack(c) # <<>>, ncli[c] = 0, Top(c).kind # "forkret"
               PROVE  IF_[c] = (Top(c).kind = "syscall")
    BY DEF InterruptsRestored
  <2>1. Top(c).kind # "scheduler" BY InScheduler
  <2>2. Top(c).kind \in Kinds BY OnTop DEF Frames
  <2>3. Top(c).kind \in {"syscall", "interrupt"} BY <2>1, <2>2 DEF Kinds
  <2>4. IF_[c] <=> Flag(Top(c).kind) BY <2>3, OnTop
  <2>5. IF_[c] \in BOOLEAN BY <1>0, Fields
  <2> QED BY <2>4, <2>5 DEF Flag
<1> QED BY <1>0, <1>1, <1>2, <1>3

\* In the first state every scheduler runs, and every process waits at forkret.
LEMMA InitOK ==
  ASSUME SpinlocksAssumption, Init
  PROVE  IInv
<1> DEFINE bottom(x) == IF x \in CPU THEN Frame("scheduler", {}) ELSE Frame("forkret", {ptable})
<1>1. \A x \in Context : frames[x] = <<bottom(x)>> BY DEF Init
<1>2. \A x \in Context : /\ bottom(x) \in Frames /\ bottom(x).spins = NONE
                         /\ x \in CPU => bottom(x).kind = "scheduler" /\ bottom(x).held = {}
                         /\ x \notin CPU => bottom(x).kind = "forkret"
  BY Constants DEF Frame, Frames, Kinds
<1> HIDE DEF bottom
<1>3. \A x \in Context : /\ StackOK(x, frames[x]) /\ frames[x] # <<>> /\ Len(frames[x]) = 1
                         /\ Last(frames[x]) = bottom(x)
  <2> TAKE x \in Context
  <2>1. PICK s : s = <<bottom(x)>> OBVIOUS
  <2>2. s \in Seq(Frames) /\ Len(s) = 1 /\ s[1] = bottom(x) BY <1>2, <2>1
  <2>3. s[1].kind = "scheduler" <=> x \in CPU BY <1>2, <2>2
  <2>4. StackOK(x, s) /\ s # <<>> /\ Last(s) = s[1] BY ONLY <2>2, <2>3, OneFrame
  <2> QED BY <1>1, <2>1, <2>2, <2>4
<1>4. TypeOK BY Constants DEF Init, TypeOK
<1>5. StacksOK BY <1>3 DEF StacksOK, Init
<1>6. CurrentOK BY DEF CurrentOK, Init
<1>7. ParkedOK
  <2> SUFFICES ASSUME NEW x \in Context, \A c \in CPU : current[c] # x
               PROVE  /\ Len(frames[x]) >= 1 /\ Last(frames[x]).spins = NONE
                      /\ x \in CPU => Len(frames[x]) = 1 /\ Last(frames[x]).held = {}
                      /\ x \in Process => LET kind == Last(frames[x]).kind IN
                           /\ saved[x] = "new" <=> kind = "forkret"
                           /\ kind # "forkret" => (saved[x] = "on" <=> Flag(kind))
    BY DEF ParkedOK
  <2>1. x \notin CPU /\ x \in Process BY Constants DEF Init
  <2>2. saved[x] = "new" BY <2>1 DEF Init
  <2> QED BY <1>2, <1>3, <2>1, <2>2
<1>8. ASSUME NEW c \in CPU PROVE CpuOK(c)
  <2>1. c \in Context /\ c # NONE BY Constants
  <2>2. Stack(c) = frames[c] BY DEF Init, Stack
  <2>3. Stack(c) # <<>> /\ Top(c) = bottom(c) BY <1>3, <2>1, <2>2 DEF Top
  <2>4. /\ bottom(c).spins = NONE /\ bottom(c).kind = "scheduler" /\ bottom(c).held = {}
    BY <1>2, <2>1
  <2>5. Cardinality({}) = 0 BY FS_EmptySet
  <2>6. ncli[c] = 0 /\ \A l \in Lock : owner[l] # c BY <2>1 DEF Init
  <2>7. ncli[c] = Cardinality(bottom(c).held) + (IF bottom(c).spins # NONE THEN 1 ELSE 0)
    BY <2>4, <2>5, <2>6
  <2>8. ~(ncli[c] > 0) BY <2>6
  <2> QED BY <2>3, <2>4, <2>6, <2>7, <2>8 DEF CpuOK
<1> QED BY <1>4, <1>5, <1>6, <1>7, <1>8 DEF IInv

\* No step leaves the invariant.
LEMMA StepOK ==
  ASSUME SpinlocksAssumption, IInv, [Next]_vars
  PROVE  IInv'
<1>1. CASE UNCHANGED vars
  <2>1. \A c \in CPU : Stack(c)' = Stack(c) /\ Top(c)' = Top(c) BY <1>1 DEF vars, Stack, Top
  <2>2. TypeOK' /\ StacksOK' /\ CurrentOK' /\ ParkedOK'
    BY <1>1 DEF vars, IInv, TypeOK, StacksOK, CurrentOK, ParkedOK
  <2>3. \A c \in CPU : CpuOK(c)' BY <1>1, <2>1 DEF vars, IInv, CpuOK
  <2> QED BY <2>2, <2>3 DEF IInv
<1>2. CASE Next
  <2>1. PICK c \in CPU :
           \/ Acquired(c) \/ Syscall(c) \/ Interrupt(c) \/ Return(c) \/ Sti(c) \/ Sched(c)
           \/ \E l \in Lock : Acquire(c, l) \/ Release(c, l)
           \/ \E p \in Process : SwtchIn(c, p)
    BY <1>2 DEF Next
  <2> QED
    BY <2>1, AcquireKeeps, AcquiredKeeps, ReleaseKeeps, SyscallKeeps, InterruptKeeps, ReturnKeeps,
       StiKeeps, SwtchInKeepsIInv, SchedKeeps
<1> QED BY <1>1, <1>2

\* What acquire, release, traps, sched and the scheduler keep (spinlock.c, trap.c, proc.c).
THEOREM Invariance == ASSUME SpinlocksAssumption PROVE Spec => []IInv
<1>1. Init => IInv BY InitOK
<1>2. IInv /\ [Next]_vars => IInv' BY StepOK
<1> QED BY <1>1, <1>2, PTL DEF Spec

\* As long as a CPU holds a lock or spins for one, which pushcli counts in ncli, it is not
\* interrupted: no handler finds a lock held by the code that it interrupted (spinlock.c).
THEOREM NotInterrupted == ASSUME SpinlocksAssumption PROVE Spec => []InterruptsOff
<1>1. IInv => InterruptsOff BY IInvImplies
<1> QED BY <1>1, Invariance, PTL

\* acquire never waits for a lock of its own CPU, the panic at spinlock.c:29, and two CPUs
\* never wait for each other's, as locks are taken in the order of their numbers.
THEOREM NoDeadlock == ASSUME SpinlocksAssumption PROVE Spec => []NoSpinForOwn
<1>1. IInv => NoSpinForOwn BY IInvImplies
<1> QED BY <1>1, Invariance, PTL

\* A process that has released its locks has interrupts as they were before it took them, on
\* whatever CPU it goes on after sched (proc.c:359, popcli).
THEOREM FlagsFollow == ASSUME SpinlocksAssumption PROVE Spec => []InterruptsRestored
<1>1. IInv => InterruptsRestored BY IInvImplies
<1> QED BY <1>1, Invariance, PTL

-----------------------------------------------------------------------------
(* Sleep and wakeup.  What Sleeping calls ptable and n has other names here. *)

CONSTANTS Proc, Wrap, Lengths, MaxTicks, MaxCalls
VARIABLES tablelock, spin, pc, state, ticks, killed, locked, ticks0, asked, passed, result, calls

Slp == INSTANCE Sleeping WITH ptable <- tablelock, n <- asked

SleepPlaces == {"user", "acquire", "test", "sleep", "release", "asleep", "holds", "wakeup"}

\* The types, and that only who is in sleep() sleeps.
SleepersOK ==
  /\ pc \in [Proc \cup {Slp!Timer} -> SleepPlaces] /\ state \in [Proc -> {"RUNNABLE", "SLEEPING"}]
  /\ spin = [c \in Slp!Chan |-> spin[c]]
  /\ result = [p \in Proc |-> result[p]] /\ killed = [p \in Proc |-> killed[p]]
  /\ \A p \in Proc : state[p] = "SLEEPING" => pc[p] = "asleep"

\* Whoever tests, or is about to sleep or to wake others, has the lock of the channel.
ChannelsOK ==
  /\ \A p \in Proc : pc[p] \in {"test", "sleep", "release"} => spin[Slp!ChanOf(p)] = p
  /\ \A p \in Proc : pc[p] = "wakeup" => spin["lk"] = p
  /\ pc[Slp!Timer] = "wakeup" => spin["ticks"] = Slp!Timer

\* The ticks of the clock since it started, one before it wraps.
Since(t) == IF t = Wrap - 1 THEN 0 ELSE t + 1

\* passed counts the ticks since ticks0.
ClockOK ==
  /\ ticks \in 0 .. Wrap - 1 /\ Since(ticks) <= MaxTicks
  /\ asked \in [Proc -> Nat] /\ passed \in [Proc -> Int] /\ ticks0 \in [Proc -> 0 .. Wrap - 1]
  /\ \A p \in Proc : asked[p] > 0 =>
       Since(ticks0[p]) <= Since(ticks) /\ passed[p] = Since(ticks) - Since(ticks0[p])

\* Between its test and its sleep, what a process waits for does not come.
TestedOK ==
  \A p \in Proc : pc[p] \in {"sleep", "release"} =>
    IF Slp!ChanOf(p) = "lk" THEN locked # NONE ELSE ~Slp!Due(p)

SleepInv == SleepersOK /\ ChannelsOK /\ ClockOK /\ TestedOK /\ Slp!OneHolder /\ Slp!NoLostWakeup /\ Slp!SleepsLong

-----------------------------------------------------------------------------
LEMMA Modulo ==
  ASSUME NEW W \in Nat \ {0}, NEW a \in 0 .. W - 1
  PROVE  a % W = a /\ (a + W) % W = a
BY Z3

\* The difference of the unsigned counters is the number of ticks.
LEMMA DueIsPassed ==
  ASSUME Slp!SleepingAssumption, ClockOK, NEW p \in Proc, asked[p] > 0
  PROVE  Slp!Due(p) <=> passed[p] >= asked[p]
<1>1. Wrap \in Nat \ {0} /\ MaxTicks \in 0 .. Wrap - 1 BY DEF Slp!SleepingAssumption
<1>2. ticks \in 0 .. Wrap - 1 /\ ticks0[p] \in 0 .. Wrap - 1 BY DEF ClockOK
<1>3. Since(ticks0[p]) <= Since(ticks) /\ passed[p] = Since(ticks) - Since(ticks0[p])
  BY DEF ClockOK
<1>4. CASE ticks0[p] <= ticks
  <2>1. ticks - ticks0[p] \in 0 .. Wrap - 1 BY <1>1, <1>2, <1>4
  <2>2. ticks + Wrap - ticks0[p] = (ticks - ticks0[p]) + Wrap BY <1>1, <1>2
  <2>3. (ticks + Wrap - ticks0[p]) % Wrap = ticks - ticks0[p] BY <1>1, <2>1, <2>2, Modulo
  <2>4. passed[p] = ticks - ticks0[p] BY <1>1, <1>2, <1>3, <1>4 DEF Since
  <2> QED BY <2>3, <2>4 DEF Slp!Due
<1>5. CASE ~(ticks0[p] <= ticks)
  <2>1. ticks0[p] = Wrap - 1 BY <1>1, <1>2, <1>3, <1>5 DEF Since
  <2>2. ticks + 1 \in 0 .. Wrap - 1 BY <1>1, <1>2, <1>5, <2>1
  <2>3. ticks + Wrap - ticks0[p] = ticks + 1 BY <1>1, <1>2, <2>1
  <2>4. (ticks + Wrap - ticks0[p]) % Wrap = ticks + 1 BY <1>1, <2>2, <2>3, Modulo
  <2>5. passed[p] = ticks + 1 BY <1>1, <1>2, <1>3, <1>5, <2>1 DEF Since
  <2> QED BY <2>4, <2>5 DEF Slp!Due
<1> QED BY <1>4, <1>5

LEMMA SleepInit == ASSUME Slp!SleepingAssumption, Slp!Init PROVE SleepInv
<1>1. SleepersOK /\ ChannelsOK /\ TestedOK /\ Slp!NoLostWakeup /\ Slp!SleepsLong
  BY DEF Slp!Init, SleepersOK, SleepPlaces, ChannelsOK, TestedOK, Slp!NoLostWakeup, Slp!SleepsLong, Slp!SleepingAssumption
<1>2. ClockOK BY DEF Slp!Init, ClockOK, Slp!SleepingAssumption, Since
<1>3. Slp!OneHolder BY DEF Slp!Init, Slp!OneHolder, Slp!SleepingAssumption, Slp!At
<1> QED BY <1>1, <1>2, <1>3 DEF SleepInv

\* The clock and what is measured by it, while time stands still.
LEMMA NoTick ==
  ASSUME ClockOK, UNCHANGED <<ticks, ticks0, asked, passed>>
  PROVE  ClockOK' /\ \A p : Slp!Due(p)' = Slp!Due(p) /\ Slp!ChanOf(p)' = Slp!ChanOf(p)
BY DEF ClockOK, Slp!Due, Slp!ChanOf

-----------------------------------------------------------------------------
(* The clock *)

LEMMA TickKeeps == ASSUME Slp!SleepingAssumption, SleepInv, Slp!Tick PROVE SleepInv'
<1> USE DEF Slp!At, Slp!Go, Slp!Acquire, Slp!Release, Slp!ChanOf
<1>1. Slp!Timer \notin Proc /\ NONE # Slp!Timer /\ "ticks" \in Slp!Chan /\ "lk" \in Slp!Chan
  BY DEF Slp!SleepingAssumption, Slp!Chan
<1>2. UNCHANGED <<killed, locked, ticks0, asked, result>> BY DEF Slp!Tick
<1>3. SleepersOK' BY <1>1, <1>2 DEF SleepInv, SleepersOK, SleepPlaces, Slp!Wakeup, Slp!Tick
<1>4. \A p \in Proc : pc'[p] = pc[p] BY <1>1 DEF SleepInv, SleepersOK, Slp!Tick
<1>5. Slp!OneHolder' BY <1>2, <1>4 DEF SleepInv, Slp!OneHolder
<1>6. CASE pc[Slp!Timer] = "user"
  <2> USE <1>6
  <2>1. ticks \in 0 .. Wrap - 1 /\ Wrap \in Nat \ {0} /\ MaxTicks \in 0 .. Wrap - 1
        /\ Since(ticks) <= MaxTicks
    BY DEF SleepInv, ClockOK, Slp!SleepingAssumption
  <2>2. /\ (ticks + 1) % Wrap < MaxTicks /\ ticks' = (ticks + 1) % Wrap
        /\ spin["ticks"] = NONE /\ spin' = [spin EXCEPT !["ticks"] = Slp!Timer]
        /\ pc' = [pc EXCEPT ![Slp!Timer] = "wakeup"] /\ UNCHANGED state
        /\ passed' = [p \in Proc |-> IF asked[p] > 0 /\ passed[p] < Wrap THEN passed[p] + 1 ELSE 0]
    BY DEF Slp!Tick
  <2>3. ticks' = IF ticks = Wrap - 1 THEN 0 ELSE ticks + 1
    <3>1. CASE ticks = Wrap - 1
      <4>1. ticks + 1 = 0 + Wrap /\ 0 \in 0 .. Wrap - 1 BY <2>1, <3>1
      <4> QED BY <2>1, <2>2, <3>1, <4>1, Modulo
    <3>2. CASE ticks # Wrap - 1
      <4>1. ticks + 1 \in 0 .. Wrap - 1 BY <2>1, <3>2
      <4> QED BY <2>1, <2>2, <3>2, <4>1, Modulo
    <3> QED BY <3>1, <3>2
  <2>4. ticks' \in 0 .. Wrap - 1 /\ Since(ticks') = Since(ticks) + 1 /\ Since(ticks') <= MaxTicks
    BY <2>1, <2>2, <2>3 DEF Since
  <2>5. \A p \in Proc : asked[p] > 0 => passed[p] = Since(ticks) - Since(ticks0[p])
                                     /\ Since(ticks0[p]) <= Since(ticks) /\ ticks0[p] \in 0 .. Wrap - 1
    BY DEF SleepInv, ClockOK
  <2>6. \A p \in Proc : asked[p] > 0 => passed'[p] = passed[p] + 1
    BY <2>1, <2>2, <2>5 DEF Since
  <2>7. ClockOK'
    <3>1. passed' \in [Proc -> Int] BY <2>2 DEF SleepInv, ClockOK
    <3>2. ASSUME NEW p \in Proc, asked[p] > 0
          PROVE  Since(ticks0[p]) <= Since(ticks') /\ passed'[p] = Since(ticks') - Since(ticks0[p])
      <4>1. Since(ticks) \in Int /\ Since(ticks0[p]) \in Int BY <2>1, <2>5, <3>2 DEF Since
      <4> QED BY <2>4, <2>5, <2>6, <3>2, <4>1
    <3> QED BY <1>2, <2>4, <3>1, <3>2 DEF SleepInv, ClockOK, Since
  <2>8. ChannelsOK'
    <3>1. \A p \in Proc : Slp!ChanOf(p)' = Slp!ChanOf(p) /\ Slp!ChanOf(p) \in {"lk", "ticks"} BY <1>2
    <3> HIDE DEF Slp!ChanOf
    <3>2. \A p \in Proc : spin[Slp!ChanOf(p)] = p => Slp!ChanOf(p) = "lk"
      BY <1>1, <2>2, <3>1 DEF Slp!SleepingAssumption
    <3> QED BY <1>1, <1>4, <2>2, <3>1, <3>2 DEF SleepInv, SleepersOK, ChannelsOK
  <2>9. TestedOK'
    <3>1. \A p \in Proc : Slp!ChanOf(p)' = Slp!ChanOf(p) BY <1>2
    <3>2. ASSUME NEW p \in Proc, pc[p] \in {"sleep", "release"} PROVE Slp!ChanOf(p) = "lk"
      <4>1. spin[Slp!ChanOf(p)] = p /\ Slp!ChanOf(p) \in {"lk", "ticks"}
        BY <3>2 DEF SleepInv, ChannelsOK
      <4> HIDE DEF Slp!ChanOf
      <4> QED BY <2>2, <4>1 DEF Slp!SleepingAssumption
    <3> HIDE DEF Slp!ChanOf
    <3> QED BY <1>2, <1>4, <3>1, <3>2 DEF SleepInv, TestedOK
  <2>10. Slp!NoLostWakeup'
    BY <1>1, <1>2, <1>4, <2>2 DEF SleepInv, Slp!NoLostWakeup, SleepersOK
  <2>11. Slp!SleepsLong'
    BY <1>2, <2>1, <2>5, <2>6 DEF SleepInv, Slp!SleepsLong, Since, ClockOK
  <2> QED BY <1>3, <1>5, <2>7, <2>8, <2>9, <2>10, <2>11 DEF SleepInv
<1>7. CASE pc[Slp!Timer] = "wakeup"
  <2> USE <1>7
  <2>1. /\ state' = [p \in Proc |-> IF pc[p] = "asleep" /\ Slp!ChanOf(p) = "ticks" THEN "RUNNABLE" ELSE state[p]]
        /\ spin' = [spin EXCEPT !["ticks"] = NONE] /\ pc' = [pc EXCEPT ![Slp!Timer] = "user"]
        /\ UNCHANGED <<ticks, passed>>
    BY DEF Slp!Tick, Slp!Wakeup
  <2>2. ClockOK' /\ \A p : Slp!Due(p)' = Slp!Due(p) /\ Slp!ChanOf(p)' = Slp!ChanOf(p)
    BY <1>2, <2>1, NoTick DEF SleepInv
  <2>3. ChannelsOK' BY <1>1, <1>2, <1>4, <2>1 DEF SleepInv, SleepersOK, ChannelsOK
  <2>4. TestedOK' BY <1>2, <1>4, <2>1, <2>2 DEF SleepInv, TestedOK
  <2>5. Slp!NoLostWakeup'
    BY <1>1, <1>2, <1>4, <2>1, <2>2 DEF SleepInv, Slp!NoLostWakeup, SleepersOK
  <2>6. Slp!SleepsLong' BY <1>2, <2>1 DEF SleepInv, Slp!SleepsLong
  <2> QED BY <1>3, <1>5, <2>2, <2>3, <2>4, <2>5, <2>6 DEF SleepInv
<1> QED BY <1>6, <1>7 DEF Slp!Tick

-----------------------------------------------------------------------------
(* sleep and wakeup *)

LEMMA SleepKeeps ==
  ASSUME Slp!SleepingAssumption, SleepInv, NEW p \in Proc, Slp!Sleep(p),
         UNCHANGED <<ticks, killed, locked, ticks0, asked, passed, result, calls>>
  PROVE  SleepInv'
<1> USE DEF Slp!At, Slp!Go, Slp!Release
<1>1. p # Slp!Timer /\ p # NONE /\ \A q : Slp!ChanOf(q) \in Slp!Chan BY DEF Slp!SleepingAssumption, Slp!ChanOf, Slp!Chan
<1>2. ClockOK' /\ \A q : Slp!Due(q)' = Slp!Due(q) /\ Slp!ChanOf(q)' = Slp!ChanOf(q) BY NoTick DEF SleepInv
<1>3. Slp!SleepsLong' BY DEF SleepInv, Slp!SleepsLong
<1>4. CASE pc[p] = "sleep"
  <2>1. pc' = [pc EXCEPT ![p] = "release"] /\ UNCHANGED <<spin, state>> BY <1>4 DEF Slp!Sleep
  <2>2. SleepersOK' /\ ChannelsOK' /\ TestedOK' /\ Slp!OneHolder' /\ Slp!NoLostWakeup'
    BY <1>1, <1>2, <1>4, <2>1
    DEF SleepInv, SleepersOK, SleepPlaces, ChannelsOK, TestedOK, Slp!OneHolder, Slp!NoLostWakeup
  <2> QED BY <1>2, <1>3, <2>2 DEF SleepInv
<1>5. CASE pc[p] = "release"
  <2>1. /\ pc' = [pc EXCEPT ![p] = "asleep"] /\ state' = [state EXCEPT ![p] = "SLEEPING"]
        /\ spin' = [spin EXCEPT ![Slp!ChanOf(p)] = NONE]
    BY <1>5 DEF Slp!Sleep
  <2>2. spin[Slp!ChanOf(p)] = p /\ IF Slp!ChanOf(p) = "lk" THEN locked # NONE ELSE ~Slp!Due(p)
    BY <1>5 DEF SleepInv, ChannelsOK, TestedOK
  <2>3. SleepersOK' BY <1>1, <2>1 DEF SleepInv, SleepersOK, SleepPlaces
  <2>4. ChannelsOK' BY <1>1, <1>2, <2>1, <2>2 DEF SleepInv, SleepersOK, ChannelsOK
  <2>5. TestedOK' BY <1>2, <2>1 DEF SleepInv, SleepersOK, TestedOK
  <2>6. Slp!OneHolder' BY <1>5, <2>1 DEF SleepInv, SleepersOK, Slp!OneHolder
  <2>7. Slp!NoLostWakeup' BY <1>1, <1>2, <1>5, <2>1, <2>2 DEF SleepInv, SleepersOK, Slp!NoLostWakeup
  <2> QED BY <1>2, <1>3, <2>3, <2>4, <2>5, <2>6, <2>7 DEF SleepInv
<1> QED BY <1>4, <1>5 DEF Slp!Sleep

LEMMA ResumeKeeps ==
  ASSUME Slp!SleepingAssumption, SleepInv, NEW p \in Proc, Slp!Resume(p),
         UNCHANGED <<ticks, killed, locked, ticks0, asked, passed, result, calls>>
  PROVE  SleepInv'
<1> USE DEF Slp!At, Slp!Go
<1>1. p # Slp!Timer BY DEF Slp!SleepingAssumption
<1>2. ClockOK' /\ \A q : Slp!Due(q)' = Slp!Due(q) /\ Slp!ChanOf(q)' = Slp!ChanOf(q) BY NoTick DEF SleepInv
<1>3. /\ pc[p] = "asleep" /\ state[p] = "RUNNABLE"
      /\ pc' = [pc EXCEPT ![p] = "acquire"] /\ UNCHANGED <<spin, state>>
  BY DEF Slp!Resume
<1>4. SleepersOK' /\ ChannelsOK' /\ TestedOK' BY <1>1, <1>2, <1>3
  DEF SleepInv, SleepersOK, SleepPlaces, ChannelsOK, TestedOK
<1>5. Slp!OneHolder' /\ Slp!NoLostWakeup' /\ Slp!SleepsLong' BY <1>1, <1>2, <1>3
  DEF SleepInv, SleepersOK, Slp!OneHolder, Slp!NoLostWakeup, Slp!SleepsLong
<1> QED BY <1>2, <1>4, <1>5 DEF SleepInv

LEMMA KillKeeps == ASSUME Slp!SleepingAssumption, SleepInv, NEW p \in Proc, Slp!Kill(p) PROVE SleepInv'
<1> USE DEF Slp!At
<1>1. /\ killed' = [killed EXCEPT ![p] = TRUE] /\ state' = [state EXCEPT ![p] = "RUNNABLE"]
      /\ UNCHANGED <<spin, pc, ticks, locked, ticks0, asked, passed, result>>
  BY DEF Slp!Kill
<1>2. ClockOK' /\ \A q : Slp!Due(q)' = Slp!Due(q) /\ Slp!ChanOf(q)' = Slp!ChanOf(q) BY <1>1, NoTick DEF SleepInv
<1>3. SleepersOK' /\ ChannelsOK' /\ TestedOK' BY <1>1, <1>2 DEF SleepInv, SleepersOK, ChannelsOK, TestedOK
<1>4. Slp!OneHolder' /\ Slp!NoLostWakeup' /\ Slp!SleepsLong' BY <1>1, <1>2
  DEF SleepInv, SleepersOK, Slp!OneHolder, Slp!NoLostWakeup, Slp!SleepsLong
<1> QED BY <1>2, <1>3, <1>4 DEF SleepInv

-----------------------------------------------------------------------------
(* acquiresleep, releasesleep and sys_sleep *)

LEMMA CallKeeps == ASSUME Slp!SleepingAssumption, SleepInv, NEW p \in Proc, Slp!Call(p) PROVE SleepInv'
<1> USE DEF Slp!At, Slp!Go, Slp!Acquire
<1>1. p # Slp!Timer /\ p # NONE /\ Lengths \subseteq Nat /\ NONE \notin {"slept", "killed"}
  BY DEF Slp!SleepingAssumption
<1>2. PICK length \in Lengths \cup {0} :
        /\ pc[p] = "user" /\ ~killed[p] /\ asked' = [asked EXCEPT ![p] = length]
        /\ passed' = [passed EXCEPT ![p] = 0] /\ result' = [result EXCEPT ![p] = NONE]
        /\ UNCHANGED <<state, ticks, killed, locked>>
        /\ IF length = 0
           THEN pc' = [pc EXCEPT ![p] = "acquire"] /\ UNCHANGED <<spin, ticks0>>
           ELSE /\ spin["ticks"] = NONE /\ spin' = [spin EXCEPT !["ticks"] = p]
                /\ pc' = [pc EXCEPT ![p] = "test"] /\ ticks0' = [ticks0 EXCEPT ![p] = ticks]
  BY DEF Slp!Call
<1>3. \A q \in Proc : q # p => Slp!ChanOf(q)' = Slp!ChanOf(q) /\ (Slp!Due(q)' <=> Slp!Due(q))
  BY <1>2 DEF SleepInv, ClockOK, Slp!ChanOf, Slp!Due
<1>4. length # 0 => Slp!ChanOf(p)' = "ticks" BY <1>1, <1>2 DEF SleepInv, ClockOK, Slp!ChanOf
<1>5. SleepersOK' BY <1>1, <1>2 DEF SleepInv, SleepersOK, SleepPlaces
<1>6. ChannelsOK'
  <2>1. \A q : Slp!ChanOf(q) \in Slp!Chan /\ "ticks" \in Slp!Chan BY DEF Slp!ChanOf, Slp!Chan
  <2>2. CASE length = 0 BY <1>1, <1>2, <1>3, <2>2 DEF SleepInv, SleepersOK, ChannelsOK
  <2>3. CASE length # 0
    <3>1. \A q \in Proc : spin[Slp!ChanOf(q)] = q => Slp!ChanOf(q) # "ticks"
      BY <1>2, <2>3 DEF Slp!SleepingAssumption
    <3>2. pc[Slp!Timer] # "wakeup" BY <1>2, <2>3 DEF SleepInv, ChannelsOK, Slp!SleepingAssumption
    <3>3. /\ spin'["ticks"] = p /\ \A c \in Slp!Chan : c # "ticks" => spin'[c] = spin[c]
          /\ pc'[p] = "test" /\ pc'[Slp!Timer] = pc[Slp!Timer]
          /\ \A q \in Proc : q # p => pc'[q] = pc[q]
      BY <1>1, <1>2, <2>1, <2>3 DEF SleepInv, SleepersOK
    <3>4. \A q \in Proc : pc[q] \in {"test", "sleep", "release"} => Slp!ChanOf(q) # "ticks"
      BY <3>1 DEF SleepInv, ChannelsOK
    <3>5. \A q \in Proc : pc'[q] \in {"test", "sleep", "release"} => spin'[Slp!ChanOf(q)'] = q
      BY <1>3, <1>4, <2>1, <2>3, <3>3, <3>4 DEF SleepInv, ChannelsOK
    <3>6. \A q \in Proc : pc'[q] = "wakeup" => spin'["lk"] = q
      BY <3>3 DEF SleepInv, ChannelsOK, Slp!Chan
    <3> QED BY <3>2, <3>3, <3>5, <3>6 DEF ChannelsOK
  <2> QED BY <2>2, <2>3
<1>7. ClockOK' BY <1>1, <1>2 DEF SleepInv, ClockOK, Since
<1>8. TestedOK' BY <1>1, <1>2, <1>3 DEF SleepInv, SleepersOK, TestedOK
<1>9. Slp!OneHolder' BY <1>1, <1>2 DEF SleepInv, SleepersOK, Slp!OneHolder
<1>10. Slp!NoLostWakeup' BY <1>1, <1>2, <1>3 DEF SleepInv, SleepersOK, Slp!NoLostWakeup
<1>11. Slp!SleepsLong' BY <1>1, <1>2 DEF SleepInv, SleepersOK, ClockOK, Slp!SleepsLong
<1> QED BY <1>5, <1>6, <1>7, <1>8, <1>9, <1>10, <1>11 DEF SleepInv

LEMMA LockedKeeps == ASSUME Slp!SleepingAssumption, SleepInv, NEW p \in Proc, Slp!Locked(p) PROVE SleepInv'
<1> USE DEF Slp!At, Slp!Go, Slp!Acquire
<1>1. p # Slp!Timer /\ p # NONE /\ NONE \notin Proc /\ NONE # Slp!Timer
      /\ \A q : Slp!ChanOf(q) \in Slp!Chan /\ "ticks" \in Slp!Chan /\ "lk" \in Slp!Chan
  BY DEF Slp!SleepingAssumption, Slp!ChanOf, Slp!Chan
<1>2. /\ pc[p] = "acquire" /\ pc' = [pc EXCEPT ![p] = "test"]
      /\ spin[Slp!ChanOf(p)] = NONE /\ spin' = [spin EXCEPT ![Slp!ChanOf(p)] = p]
      /\ UNCHANGED <<state, ticks, killed, locked, ticks0, asked, passed, result>>
  BY DEF Slp!Locked
<1>3. ClockOK' /\ \A q : Slp!Due(q)' = Slp!Due(q) /\ Slp!ChanOf(q)' = Slp!ChanOf(q) BY <1>2, NoTick DEF SleepInv
<1>4. SleepersOK' BY <1>1, <1>2 DEF SleepInv, SleepersOK, SleepPlaces
<1>5. ChannelsOK' BY <1>1, <1>2, <1>3 DEF SleepInv, SleepersOK, ChannelsOK
<1>6. TestedOK' /\ Slp!OneHolder' BY <1>1, <1>2, <1>3 DEF SleepInv, SleepersOK, TestedOK, Slp!OneHolder
<1>7. Slp!NoLostWakeup' /\ Slp!SleepsLong' BY <1>1, <1>2, <1>3 DEF SleepInv, SleepersOK, Slp!NoLostWakeup, Slp!SleepsLong
<1> QED BY <1>3, <1>4, <1>5, <1>6, <1>7 DEF SleepInv

LEMMA TestKeeps == ASSUME Slp!SleepingAssumption, SleepInv, NEW p \in Proc, Slp!Test(p) PROVE SleepInv'
<1> USE DEF Slp!At, Slp!Go, Slp!Release
<1>1. p # Slp!Timer /\ p # NONE /\ NONE \notin Proc /\ NONE # Slp!Timer
      /\ \A q : Slp!ChanOf(q) \in Slp!Chan /\ "ticks" \in Slp!Chan /\ "lk" \in Slp!Chan
  BY DEF Slp!SleepingAssumption, Slp!ChanOf, Slp!Chan
<1>2. pc[p] = "test" /\ UNCHANGED <<state, ticks, killed, ticks0, asked, passed>> BY DEF Slp!Test
<1>3. ClockOK' /\ \A q : Slp!Due(q)' = Slp!Due(q) /\ Slp!ChanOf(q)' = Slp!ChanOf(q) BY <1>2, NoTick DEF SleepInv
<1>4. spin[Slp!ChanOf(p)] = p BY <1>2 DEF SleepInv, ChannelsOK
<1>5. CASE Slp!ChanOf(p) = "lk" /\ locked = NONE
  <2>1. /\ locked' = p /\ spin' = [spin EXCEPT !["lk"] = NONE]
        /\ pc' = [pc EXCEPT ![p] = "holds"] /\ UNCHANGED result
    BY <1>5 DEF Slp!Test, Slp!Acquiresleep
  <2>2. SleepersOK' BY <1>1, <1>2, <2>1 DEF SleepInv, SleepersOK, SleepPlaces
  <2>3. ChannelsOK' BY <1>1, <1>2, <1>3, <1>4, <1>5, <2>1 DEF SleepInv, SleepersOK, ChannelsOK
  <2>4. TestedOK' /\ Slp!OneHolder' BY <1>1, <1>3, <1>5, <2>1 DEF SleepInv, SleepersOK, TestedOK, Slp!OneHolder
  <2>5. Slp!NoLostWakeup' /\ Slp!SleepsLong'
    BY <1>1, <1>2, <1>3, <2>1 DEF SleepInv, SleepersOK, Slp!NoLostWakeup, Slp!SleepsLong
  <2> QED BY <1>3, <2>2, <2>3, <2>4, <2>5 DEF SleepInv
<1>6. CASE Slp!ChanOf(p) # "lk" /\ (Slp!Due(p) \/ killed[p])
  <2>1. /\ result' = [result EXCEPT ![p] = IF Slp!Due(p) THEN "slept" ELSE "killed"]
        /\ spin' = [spin EXCEPT !["ticks"] = NONE] /\ pc' = [pc EXCEPT ![p] = "user"]
        /\ UNCHANGED locked
    BY <1>6 DEF Slp!Test, Slp!SysSleep
  <2>2. SleepersOK' BY <1>1, <1>2, <2>1 DEF SleepInv, SleepersOK, SleepPlaces
  <2>3. ChannelsOK' BY <1>1, <1>2, <1>3, <1>4, <1>6, <2>1 DEF SleepInv, SleepersOK, ChannelsOK, Slp!Chan
  <2>4. TestedOK' /\ Slp!OneHolder' BY <1>1, <1>2, <1>3, <2>1 DEF SleepInv, SleepersOK, TestedOK, Slp!OneHolder
  <2>5. Slp!NoLostWakeup' BY <1>1, <1>2, <1>3, <2>1 DEF SleepInv, SleepersOK, Slp!NoLostWakeup
  <2>6. asked[p] > 0 /\ (Slp!Due(p) => passed[p] >= asked[p]) BY <1>6, DueIsPassed DEF Slp!ChanOf, SleepInv
  <2>7. Slp!SleepsLong' BY <1>2, <1>6, <2>1, <2>6 DEF SleepInv, SleepersOK, Slp!SleepsLong
  <2> QED BY <1>3, <2>2, <2>3, <2>4, <2>5, <2>7 DEF SleepInv
<1>7. CASE IF Slp!ChanOf(p) = "lk" THEN locked # NONE ELSE ~(Slp!Due(p) \/ killed[p])
  <2>1. pc' = [pc EXCEPT ![p] = "sleep"] /\ UNCHANGED <<locked, spin, result>>
    BY <1>7 DEF Slp!Test, Slp!Acquiresleep, Slp!SysSleep
  <2>2. SleepersOK' /\ ChannelsOK' BY <1>1, <1>2, <1>3, <2>1 DEF SleepInv, SleepersOK, SleepPlaces, ChannelsOK
  <2>3. TestedOK' /\ Slp!OneHolder'
    BY <1>1, <1>2, <1>3, <1>7, <2>1 DEF SleepInv, SleepersOK, TestedOK, Slp!OneHolder
  <2>4. Slp!NoLostWakeup' /\ Slp!SleepsLong'
    BY <1>1, <1>2, <1>3, <2>1 DEF SleepInv, SleepersOK, Slp!NoLostWakeup, Slp!SleepsLong
  <2> QED BY <1>3, <2>2, <2>3, <2>4 DEF SleepInv
<1> QED BY <1>5, <1>6, <1>7

LEMMA ReleasesleepKeeps ==
  ASSUME Slp!SleepingAssumption, SleepInv, NEW p \in Proc, Slp!Releasesleep(p)
  PROVE  SleepInv'
<1> USE DEF Slp!At, Slp!Go, Slp!Acquire, Slp!Release
<1>1. p # Slp!Timer /\ p # NONE /\ NONE \notin Proc /\ NONE # Slp!Timer
      /\ \A q : Slp!ChanOf(q) \in Slp!Chan /\ "ticks" \in Slp!Chan /\ "lk" \in Slp!Chan
  BY DEF Slp!SleepingAssumption, Slp!ChanOf, Slp!Chan
<1>2. UNCHANGED <<ticks, killed, ticks0, asked, passed, result>> BY DEF Slp!Releasesleep
<1>3. ClockOK' /\ \A q : Slp!Due(q)' = Slp!Due(q) /\ Slp!ChanOf(q)' = Slp!ChanOf(q) BY <1>2, NoTick DEF SleepInv
<1>4. Slp!SleepsLong' BY <1>2 DEF SleepInv, Slp!SleepsLong
<1>5. CASE pc[p] = "holds"
  <2>1. /\ spin["lk"] = NONE /\ spin' = [spin EXCEPT !["lk"] = p] /\ locked' = NONE
        /\ pc' = [pc EXCEPT ![p] = "wakeup"] /\ UNCHANGED state
    BY <1>5 DEF Slp!Releasesleep
  <2>2. SleepersOK' BY <1>1, <1>2, <1>5, <2>1 DEF SleepInv, SleepersOK, SleepPlaces
  <2>3. ChannelsOK' BY <1>1, <1>3, <1>5, <2>1 DEF SleepInv, SleepersOK, ChannelsOK
  <2>4. TestedOK'
    <3>1. \A q \in Proc : pc[q] \in {"sleep", "release"} => Slp!ChanOf(q) # "lk"
      BY <1>1, <2>1 DEF SleepInv, ChannelsOK
    <3> QED BY <1>1, <1>3, <1>5, <2>1, <3>1 DEF SleepInv, SleepersOK, TestedOK
  <2>5. Slp!OneHolder' BY <1>1, <1>5, <2>1 DEF SleepInv, SleepersOK, Slp!OneHolder
  <2>6. Slp!NoLostWakeup' BY <1>1, <1>3, <1>5, <2>1 DEF SleepInv, SleepersOK, Slp!NoLostWakeup
  <2> QED BY <1>3, <1>4, <2>2, <2>3, <2>4, <2>5, <2>6 DEF SleepInv
<1>6. CASE pc[p] = "wakeup"
  <2>1. /\ spin' = [spin EXCEPT !["lk"] = NONE] /\ UNCHANGED locked
        /\ pc' = [pc EXCEPT ![p] = "user"]
        /\ state' = [q \in Proc |-> IF pc[q] = "asleep" /\ Slp!ChanOf(q) = "lk" THEN "RUNNABLE" ELSE state[q]]
    BY <1>6 DEF Slp!Releasesleep, Slp!Wakeup
  <2>2. spin["lk"] = p BY <1>6 DEF SleepInv, ChannelsOK
  <2>3. SleepersOK' BY <1>1, <1>2, <1>6, <2>1 DEF SleepInv, SleepersOK, SleepPlaces
  <2>4. ChannelsOK' BY <1>1, <1>3, <2>1, <2>2 DEF SleepInv, SleepersOK, ChannelsOK
  <2>5. TestedOK' BY <1>1, <1>3, <2>1 DEF SleepInv, SleepersOK, TestedOK
  <2>6. Slp!OneHolder' BY <1>1, <1>6, <2>1 DEF SleepInv, SleepersOK, Slp!OneHolder
  <2>7. Slp!NoLostWakeup'
    <3>1. \A q \in Proc : state'[q] = "SLEEPING" => state[q] = "SLEEPING" /\ Slp!ChanOf(q) # "lk"
      BY <2>1 DEF SleepInv, SleepersOK
    <3>2. pc'[Slp!Timer] = pc[Slp!Timer] BY <1>1, <2>1 DEF SleepInv, SleepersOK
    <3> QED BY <1>3, <3>1, <3>2 DEF SleepInv, Slp!NoLostWakeup
  <2> QED BY <1>3, <1>4, <2>3, <2>4, <2>5, <2>6, <2>7 DEF SleepInv
<1> QED BY <1>5, <1>6 DEF Slp!Releasesleep

-----------------------------------------------------------------------------
LEMMA SleepNext == ASSUME Slp!SleepingAssumption, SleepInv, [Slp!Next]_(Slp!vars) PROVE SleepInv'
<1>1. CASE UNCHANGED Slp!vars
  <2>1. ClockOK' /\ \A q : Slp!Due(q)' = Slp!Due(q) /\ Slp!ChanOf(q)' = Slp!ChanOf(q)
    BY <1>1, NoTick DEF SleepInv, Slp!vars
  <2> QED BY <1>1, <2>1
    DEF SleepInv, Slp!vars, SleepersOK, ChannelsOK, TestedOK, Slp!OneHolder, Slp!NoLostWakeup, Slp!SleepsLong, Slp!At
<1>2. ASSUME NEW p \in Proc,
             \/ Slp!Call(p) \/ Slp!Locked(p) \/ Slp!Test(p) \/ Slp!Releasesleep(p) \/ Slp!Kill(p)
             \/ (Slp!Sleep(p) \/ Slp!Resume(p))
                /\ UNCHANGED <<ticks, killed, locked, ticks0, asked, passed, result, calls>>
      PROVE  SleepInv'
  BY <1>2, CallKeeps, LockedKeeps, TestKeeps, ReleasesleepKeeps, KillKeeps, SleepKeeps, ResumeKeeps
<1> QED BY <1>1, <1>2, TickKeeps DEF Slp!Next

LEMMA SleepInvariance == ASSUME Slp!SleepingAssumption PROVE Slp!Spec => []SleepInv
<1>1. Slp!Init => SleepInv BY SleepInit
<1>2. SleepInv /\ [Slp!Next]_(Slp!vars) => SleepInv' BY SleepNext
<1> QED BY <1>1, <1>2, PTL DEF Slp!Spec

\* Nobody sleeps for a sleep lock that is free, nor past its time (sleep, wakeup1, acquiresleep
\* and sys_sleep), however many processes there are.
THEOREM SleepersWoken == ASSUME Slp!SleepingAssumption PROVE Slp!Spec => []Slp!NoLostWakeup
<1>1. SleepInv => Slp!NoLostWakeup BY DEF SleepInv
<1> QED BY <1>1, SleepInvariance, PTL

\* A sleep lock has one holder (acquiresleep, releasesleep).
THEOREM HolderUnique == ASSUME Slp!SleepingAssumption PROVE Slp!Spec => []Slp!OneHolder
<1>1. SleepInv => Slp!OneHolder BY DEF SleepInv
<1> QED BY <1>1, SleepInvariance, PTL

\* sys_sleep lasts as many ticks as it was asked for, although the counter wraps around, but for
\* a process that is killed.
THEOREM SleepLasts == ASSUME Slp!SleepingAssumption PROVE Slp!Spec => []Slp!SleepsLong
<1>1. SleepInv => Slp!SleepsLong BY DEF SleepInv
<1> QED BY <1>1, SleepInvariance, PTL
=============================================================================
