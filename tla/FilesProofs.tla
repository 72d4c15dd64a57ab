----------------------------- MODULE FilesProofs -----------------------------
(***************************************************************************)
(* Files and pipes of project03: references to files are exact, a pipe     *)
(* lives as long as one of its ends, nobody sleeps in it for what is there *)
(* already, and what is read is what was written, in order; for every      *)
(* number of processes, files, descriptors and pipes and any size of the   *)
(* buffer.                                                                 *)
(***************************************************************************)
EXTENDS Files, Integers, FiniteSetTheorems, SequenceTheorems, WellFoundedInduction, NaturalsInduction, TLAPS

FileRec == [ref : Nat, type : {"NONE", "PIPE"}, pipe : Pipe \cup {NONE}, writable : BOOLEAN]
PipeRec == [used : BOOLEAN, nread : 0 .. Wrap - 1, nwrite : 0 .. Wrap - 1, readopen : BOOLEAN,
            writeopen : BOOLEAN, data : [0 .. PIPESIZE - 1 -> Nat]]
ArgRec  == [pipe : Pipe \cup {NONE}, writable : BOOLEAN]

Typed ==
  /\ TypeOK
  /\ held \in [Proc -> Seq(File)] /\ arg \in [Proc -> ArgRec]
  /\ todo \in [Proc -> Seq(Nat)] /\ leaving \in [Proc -> BOOLEAN]
  /\ ftable \in [File -> FileRec] /\ pipes \in [Pipe -> PipeRec]
  /\ left \in [pipes : Nat, forks : Nat, calls : Nat, kills : BOOLEAN]

\* What a process has in its hands, and its descriptors, wherever it is.
PlaceOK(p) ==
  /\ Len(held[p]) <= 2
  /\ held[p] # <<>> => pc[p] \in {"pipe", "fileclose", "pipeclose"}
  /\ pc[p] = "pipe" => Len(held[p]) = 1
  /\ state[p] = "UNUSED" => pc[p] = "user"
  /\ state[p] = "ZOMBIE" => pc[p] = "exit"
  /\ state[p] = "UNUSED" \/ pc[p] = "exit" => \A fd \in Fd : ofile[p][fd] = NONE
  /\ state[p] = "SLEEPING" => pc[p] \in {"piperead", "pipewrite", "wait"}
  /\ killed[p] => left.kills

PlacesOK == \A p \in Proc : PlaceOK(p)

\* A slot of ftable is free, or made by pipe(), or an end of a pipe, as every descriptor is.
FilesOK ==
  /\ \A f \in File : ftable[f].type = "PIPE" => ftable[f].ref > 0 /\ ftable[f].pipe \in Pipe
  /\ \A p \in Proc : \A fd \in Fd : ofile[p][fd] # NONE => ftable[ofile[p][fd]].type = "PIPE"
  /\ \A p \in Proc : pc[p] = "pipe" =>
       ftable[held[p][1]].ref = 1 /\ ftable[held[p][1]].type = "NONE"

\* File f stands for an end of pipe k, or p has done so and closes it.
Stands(f, k, w)  == ftable[f].type = "PIPE" /\ ftable[f].pipe = k /\ ftable[f].writable = w
Closing(p, k, w) == pc[p] = "pipeclose" /\ arg[p] = [pipe |-> k, writable |-> w]

\* One at most stands for an end.
EndsOK ==
  \A k \in Pipe : \A w \in BOOLEAN :
    /\ \A f, g \in File : Stands(f, k, w) /\ Stands(g, k, w) => f = g
    /\ \A f \in File, p \in Proc : ~(Stands(f, k, w) /\ Closing(p, k, w))
    /\ \A p, q \in Proc : Closing(p, k, w) /\ Closing(q, k, w) => p = q

\* A process in piperead or pipewrite has that end open, and writes what is left of its bytes.
CallOK(p) ==
  /\ pc[p] = "piperead" => \E fd \in Fd : ofile[p][fd] # NONE /\ Stands(ofile[p][fd], arg[p].pipe, FALSE)
  /\ pc[p] = "pipewrite" => \E fd \in Fd : ofile[p][fd] # NONE /\ Stands(ofile[p][fd], arg[p].pipe, TRUE)
  /\ pc[p] = "pipeclose" => arg[p].pipe \in Pipe
  /\ pc[p] = "pipewrite" => \E bytes \in Writes : \E i \in 1 .. Len(bytes) + 1 :
                              todo[p] = SubSeq(bytes, i, Len(bytes))

CallsOK == \A p \in Proc : CallOK(p)

\* A pipe has at most PIPESIZE bytes, and a free page none.
LevelsOK ==
  \A k \in Pipe : Level(pipes[k]) <= PIPESIZE /\ (~pipes[k].used => pipes[k] = NoPipe)

IInv == /\ Typed /\ PlacesOK /\ FilesOK /\ EndsOK /\ CallsOK /\ LevelsOK
        /\ FilesCounted /\ PipesLive /\ NoLostWakeup

\* What NoLostWakeup says of one process.
Awake(p) ==
  state[p] = "SLEEPING" =>
    LET q == pipes[arg[p].pipe] IN
    /\ ~killed[p]
    /\ pc[p] = "piperead" => q.writeopen /\ (Empty(q) \/ left.kills)
    /\ pc[p] = "pipewrite" => q.readopen /\ Full(q)

\* A step leaves what file f is.
SameKind(f) ==
  /\ ftable'[f].type = ftable[f].type /\ ftable'[f].pipe = ftable[f].pipe
  /\ ftable'[f].writable = ftable[f].writable

-----------------------------------------------------------------------------
(* Numbers *)

\* The least of some numbers is one of them.
LEMMA LeastIn ==
  ASSUME NEW S \in SUBSET Nat, S # {}
  PROVE  Least(S) \in S
<1> DEFINE R == OpToRel(<, Nat)
<1>1. IsWellFoundedOn(R, Nat) BY NatLessThanWellFounded
<1>2. \A x, m \in Nat : <<x, m>> \in R <=> x < m BY DEF OpToRel
<1> HIDE DEF R
<1>3. PICK m \in S : \A x \in S : ~ (<<x, m>> \in R) BY <1>1, WFMin
<1>4. S \subseteq Nat /\ m \in S OBVIOUS
<1>5. \A x \in S : ~ (x < m) BY <1>2, <1>3, <1>4
<1>6. \A x \in S : m <= x BY <1>4, <1>5
<1> QED BY <1>4, <1>6 DEF Least

\* Division with remainder.
LEMMA Division ==
  ASSUME NEW P \in Nat \ {0}, NEW a \in Int
  PROVE  a % P \in 0 .. P - 1 /\ \E q \in Int : a = q * P + (a % P)
<1>1. a % P \in 0 .. P - 1 OBVIOUS
<1>2. a = (a \div P) * P + (a % P) /\ a \div P \in Int OBVIOUS
<1>3. \A q \in Int : a = q * P + (a % P) => \E k \in Int : a = k * P + (a % P) OBVIOUS
<1> QED BY ONLY <1>1, <1>2, <1>3

LEMMA Remainder ==
  ASSUME NEW P \in Nat \ {0}, NEW q \in Int, NEW r \in 0 .. P - 1
  PROVE  (q * P + r) % P = r
OBVIOUS

\* A remainder may be taken of part of a sum.
LEMMA RemainderOfSum ==
  ASSUME NEW P \in Nat \ {0}, NEW a \in Int, NEW b \in Int
  PROVE  (a + b) % P = ((a % P) + b) % P
<1> DEFINE c == (a % P) + b
<1>1. PICK q \in Int : a = q * P + (a % P) BY Division
<1>2. a % P \in Int /\ c \in Int BY Division
<1> HIDE DEF c
<1>3. PICK r \in Int : c = r * P + (c % P) /\ c % P \in 0 .. P - 1 BY Division, <1>2
<1>4. a + b = q * P + c BY <1>1, <1>2 DEF c
<1>5. a + b = (q + r) * P + (c % P) BY <1>3, <1>4
<1>6. q + r \in Int OBVIOUS
<1>7. \A k \in Int : \A m \in 0 .. P - 1 : (k * P + m) % P = m BY Remainder
<1>8. ((q + r) * P + (c % P)) % P = c % P BY <1>3, <1>6, <1>7
<1> QED BY <1>5, <1>8 DEF c

\* Counters that wrap at a multiple of P may be taken modulo P.
LEMMA RemainderOfWrap ==
  ASSUME NEW P \in Nat \ {0}, NEW W \in Nat \ {0}, W % P = 0, NEW a \in Int
  PROVE  (a % W) % P = a % P
<1> DEFINE c == a % W
<1>1. PICK q \in Int : a = q * W + (a % W) BY Division
<1>2. PICK r \in Int : W = r * P + (W % P)
  <2>1. W \in Int OBVIOUS
  <2> QED BY <2>1, Division
<1>3. W = r * P BY <1>2
<1>4. c \in Int BY Division
<1>5. a = q * W + c BY <1>1
<1> HIDE DEF c
<1>6. PICK s \in Int : c = s * P + (c % P) /\ c % P \in 0 .. P - 1 BY Division, <1>4
<1>7. q * W = (q * r) * P BY <1>3
<1>8. a = (q * r + s) * P + (c % P)
  <2>1. \A x, y \in Int : x * P + y * P = (x + y) * P OBVIOUS
  <2>2. (q * r) * P + s * P = (q * r + s) * P BY <2>1
  <2>3. a = (q * r) * P + (s * P + (c % P)) BY <1>5, <1>6, <1>7
  <2> QED BY <1>6, <2>2, <2>3
<1>9. q * r + s \in Int OBVIOUS
<1>10. a % P = c % P BY <1>6, <1>8, <1>9, Remainder
<1> QED BY <1>10 DEF c

-----------------------------------------------------------------------------
(* The buffer of a pipe *)

LEMMA OneWrap ==
  ASSUME FilesAssumption
  PROVE  \A a \in 0 .. 2 * Wrap - 1 : a % Wrap = IF a < Wrap THEN a ELSE a - Wrap
BY DEF FilesAssumption

\* Counters that wrap still say how many bytes there are.
LEMMA Levels ==
  ASSUME FilesAssumption, NEW q \in PipeRec
  PROVE  /\ Level(q) = IF q.nread <= q.nwrite THEN q.nwrite - q.nread ELSE q.nwrite - q.nread + Wrap
         /\ Level(q) \in Nat
         /\ Empty(q) <=> Level(q) = 0
         /\ Level(q) <= PIPESIZE => (Full(q) <=> Level(q) = PIPESIZE)
<1>1. \A a \in 0 .. 2 * Wrap - 1 : a % Wrap = IF a < Wrap THEN a ELSE a - Wrap
  BY OneWrap
<1> DEFINE r == q.nread
           w == q.nwrite
           s == r + PIPESIZE
           d == w + Wrap - r
<1>2. r \in 0 .. Wrap - 1 /\ w \in 0 .. Wrap - 1 /\ Wrap \in Nat /\ PIPESIZE \in Nat \ {0} /\ Wrap > PIPESIZE
  BY DEF PipeRec, FilesAssumption
<1>3. Level(q) = d % Wrap /\ (Empty(q) <=> r = w) /\ (Full(q) <=> w = s % Wrap)
  BY DEF Level, Empty, Full
<1> HIDE DEF r, w
<1>4. d \in 0 .. 2 * Wrap - 1 /\ s \in 0 .. 2 * Wrap - 1 BY <1>2
<1>5. s = r + PIPESIZE /\ d = w + Wrap - r OBVIOUS
<1> HIDE DEF s, d
<1>6. /\ d % Wrap = IF d < Wrap THEN d ELSE d - Wrap
      /\ s % Wrap = IF s < Wrap THEN s ELSE s - Wrap
  BY <1>1, <1>4
<1>7. d % Wrap = IF r <= w THEN w - r ELSE w - r + Wrap BY <1>2, <1>5, <1>6
<1>8. d % Wrap \in Nat /\ (r = w <=> d % Wrap = 0) BY <1>2, <1>7
<1>9. d % Wrap <= PIPESIZE => (w = s % Wrap <=> d % Wrap = PIPESIZE) BY <1>2, <1>5, <1>6, <1>7
<1> QED BY <1>3, <1>7, <1>8, <1>9 DEF r, w

\* A slot of the ring, x places behind a counter that wraps.
LEMMA Slots ==
  ASSUME FilesAssumption, NEW r \in Nat, NEW x \in Int, NEW n \in Int
  PROVE  (((r + n) % Wrap) + x) % PIPESIZE = (r + n + x) % PIPESIZE
<1> DEFINE a == r + n
<1>1. PIPESIZE \in Nat \ {0} /\ Wrap \in Nat \ {0} /\ Wrap % PIPESIZE = 0 BY DEF FilesAssumption
<1>2. a \in Int OBVIOUS
<1>3. r + n + x = a + x OBVIOUS
<1> HIDE DEF a
<1>4. a % Wrap \in Int BY <1>1, <1>2, Division
<1>5. ((a % Wrap) + x) % PIPESIZE = (((a % Wrap) % PIPESIZE) + x) % PIPESIZE
  BY <1>1, <1>4, RemainderOfSum
<1>6. (a % Wrap) % PIPESIZE = a % PIPESIZE BY <1>1, <1>2, RemainderOfWrap
<1>7. (a + x) % PIPESIZE = ((a % PIPESIZE) + x) % PIPESIZE BY <1>1, <1>2, RemainderOfSum
<1>8. ((a % Wrap) + x) % PIPESIZE = (a + x) % PIPESIZE BY <1>5, <1>6, <1>7
<1> QED BY <1>3, <1>8 DEF a

\* A stream is a sequence of bytes, as long as the pipe is full.
LEMMA StreamIs ==
  ASSUME FilesAssumption, NEW q \in PipeRec
  PROVE  /\ Stream(q) \in Seq(Nat) /\ Len(Stream(q)) = Level(q)
         /\ \A i \in 1 .. Level(q) : Stream(q)[i] = q.data[(q.nread + i - 1) % PIPESIZE]
<1>1. Level(q) \in Nat BY Levels
<1>2. \A i \in 1 .. Level(q) : q.data[(q.nread + i - 1) % PIPESIZE] \in Nat
  <2> TAKE i \in 1 .. Level(q)
  <2> DEFINE a == q.nread + i - 1
  <2>1. a \in Int /\ PIPESIZE \in Nat \ {0} /\ q.data \in [0 .. PIPESIZE - 1 -> Nat]
    BY <1>1 DEF PipeRec, FilesAssumption
  <2> HIDE DEF a
  <2>2. a % PIPESIZE \in 0 .. PIPESIZE - 1 BY <2>1, Division
  <2>3. q.data[a % PIPESIZE] \in Nat BY <2>1, <2>2
  <2> QED BY <2>3 DEF a
<1> HIDE DEF Level
<1> DEFINE s == Stream(q)
<1>3. s = [i \in 1 .. Level(q) |-> q.data[(q.nread + i - 1) % PIPESIZE]] BY DEF Stream
<1>4. s \in [1 .. Level(q) -> Nat] BY <1>2, <1>3
<1>5. s \in Seq(Nat) /\ Len(s) = Level(q)
  <2> HIDE DEF s
  <2> QED BY <1>1, <1>4
<1> QED BY <1>3, <1>5

\* Reading takes the first bytes of the stream.
LEMMA TakenIs ==
  ASSUME FilesAssumption, NEW q \in PipeRec, NEW n \in 0 .. Level(q), NEW r, r = Taken(q, n)
  PROVE  /\ r \in PipeRec /\ Level(r) = Level(q) - n
         /\ r = [q EXCEPT !.nread = r.nread]
         /\ Stream(r) = SubSeq(Stream(q), n + 1, Level(q))
<1> DEFINE a == q.nread + n
<1>1. /\ Wrap \in Nat \ {0} /\ PIPESIZE \in Nat \ {0} /\ Level(q) \in Nat /\ n \in Nat
      /\ q.nread \in 0 .. Wrap - 1 /\ q.nwrite \in 0 .. Wrap - 1 /\ a \in Nat
  BY SMTT(30), Levels DEF FilesAssumption, PipeRec
<1>2. a % Wrap \in 0 .. Wrap - 1
  <2> HIDE DEF a
  <2>1. a \in Int BY <1>1
  <2> QED BY <1>1, <2>1, Division
<1>3. r = [q EXCEPT !.nread = a % Wrap] BY DEF Taken
<1>4. /\ r \in PipeRec /\ r.nread = a % Wrap /\ r.nwrite = q.nwrite /\ r.data = q.data
      /\ r = [q EXCEPT !.nread = r.nread]
  BY <1>2, <1>3 DEF PipeRec
<1>5. Level(r) = Level(q) - n
  <2>1. a < 2 * Wrap BY <1>1, Levels
  <2>2. \A x \in 0 .. 2 * Wrap - 1 : x % Wrap = IF x < Wrap THEN x ELSE x - Wrap BY OneWrap
  <2>3. a % Wrap = IF a < Wrap THEN a ELSE a - Wrap
    <3>1. a \in 0 .. 2 * Wrap - 1 BY <1>1, <2>1
    <3> HIDE DEF a
    <3> QED BY <2>2, <3>1
  <2>4. Level(q) = IF q.nread <= q.nwrite THEN q.nwrite - q.nread ELSE q.nwrite - q.nread + Wrap
    BY Levels
  <2>5. Level(r) = IF r.nread <= r.nwrite THEN r.nwrite - r.nread ELSE r.nwrite - r.nread + Wrap
    BY <1>4, Levels
  <2> DEFINE lq == Level(q)
             lr == Level(r)
             b == a % Wrap
  <2>6. lr = IF b <= q.nwrite THEN q.nwrite - b ELSE q.nwrite - b + Wrap BY <1>4, <2>5
  <2>7. b = IF a < Wrap THEN a ELSE a - Wrap BY <2>3
  <2>8. lq = IF q.nread <= q.nwrite THEN q.nwrite - q.nread ELSE q.nwrite - q.nread + Wrap BY <2>4
  <2>9. a = q.nread + n /\ n <= lq OBVIOUS
  <2> HIDE DEF lq, lr, b, a
  <2>10. lr = lq - n BY <1>1, <2>6, <2>7, <2>8, <2>9
  <2> QED BY <2>10 DEF lq, lr
<1>6. Stream(r) = SubSeq(Stream(q), n + 1, Level(q))
  <2>1. \A i \in 1 .. Level(r) : Stream(r)[i] = Stream(q)[n + i]
    <3> TAKE i \in 1 .. Level(r)
    <3>1. Level(r) \in Nat /\ i \in Int /\ n + i \in 1 .. Level(q) BY <1>1, <1>5
    <3>2. Stream(r)[i] = q.data[((a % Wrap) + i - 1) % PIPESIZE] BY <1>4, StreamIs
    <3>3. Stream(q)[n + i] = q.data[(q.nread + (n + i) - 1) % PIPESIZE] BY <3>1, StreamIs
    <3>4. (((q.nread + n) % Wrap) + (i - 1)) % PIPESIZE = (q.nread + n + (i - 1)) % PIPESIZE
      <4>1. i - 1 \in Int /\ q.nread \in Nat /\ n \in Int BY <1>1, <3>1
      <4> QED BY <4>1, Slots
    <3>5. a % Wrap \in Int BY <1>2
    <3>6. (a % Wrap) + i - 1 = (a % Wrap) + (i - 1) /\ q.nread + (n + i) - 1 = q.nread + n + (i - 1)
      <4> DEFINE b == a % Wrap
      <4> HIDE DEF b
      <4>1. b \in Int BY <3>5 DEF b
      <4>2. b + i - 1 = b + (i - 1) BY <4>1, <3>1
      <4>3. q.nread + (n + i) - 1 = q.nread + n + (i - 1) BY <1>1, <3>1
      <4> QED BY <4>2, <4>3 DEF b
    <3> QED BY <3>2, <3>3, <3>4, <3>6
  <2>2. /\ Stream(q) \in Seq(Nat) /\ Len(Stream(q)) = Level(q)
        /\ Stream(r) \in Seq(Nat) /\ Len(Stream(r)) = Level(q) - n
    BY <1>4, <1>5, StreamIs
  <2> DEFINE sq == Stream(q)
             sr == Stream(r)
             lq == Level(q)
             t == SubSeq(sq, n + 1, lq)
  <2>3. /\ sq \in Seq(Nat) /\ Len(sq) = lq /\ sr \in Seq(Nat) /\ Len(sr) = lq - n /\ lq \in Nat
        /\ n \in 0 .. lq /\ \A i \in 1 .. lq - n : sr[i] = sq[n + i]
    BY <1>1, <1>5, <2>1, <2>2
  <2> HIDE DEF sq, sr, lq
  <2>4. t \in Seq(Nat) /\ Len(t) = lq - n /\ \A i \in 1 .. lq - n : t[i] = sq[n + i]
    <3> DEFINE x == n + 1
    <3>1. x \in Int /\ lq \in Int /\ \A i \in x .. lq : sq[i] \in Nat BY <2>3, ElementOfSeq
    <3>2. t = SubSeq(sq, x, lq) OBVIOUS
    <3> HIDE DEF t, x
    <3>3. /\ t \in Seq(Nat) /\ Len(t) = IF x <= lq THEN lq - x + 1 ELSE 0
          /\ \A i \in 1 .. lq - x + 1 : t[i] = sq[x + i - 1]
      BY ONLY <3>1, <3>2, SubSeqProperties
    <3>4. Len(t) = lq - n /\ lq - x + 1 = lq - n
      <4>1. x = n + 1 BY DEF x
      <4>2. lq \in Nat /\ n \in Nat /\ n <= lq BY <2>3
      <4> QED BY ONLY <3>3, <4>1, <4>2
    <3>5. ASSUME NEW i \in 1 .. lq - n PROVE t[i] = sq[n + i]
      <4>1. t[i] = sq[x + i - 1] BY ONLY <3>3, <3>4
      <4>2. x + i - 1 = n + i
        <5>1. x = n + 1 BY DEF x
        <5>2. n \in Int /\ i \in Int BY <2>3
        <5> QED BY ONLY <5>1, <5>2
      <4> QED BY ONLY <4>1, <4>2
    <3> QED BY <3>3, <3>4, <3>5
  <2>5. \A i \in 1 .. Len(sr) : sr[i] = t[i] BY <2>3, <2>4
  <2> HIDE DEF t
  <2>6. sr = t BY <2>3, <2>4, <2>5, SeqEqual
  <2> QED BY <2>6 DEF sq, sr, t, lq
<1> QED BY <1>4, <1>5, <1>6

\* Where Put looks for the byte of the slot x places behind nread: L of them are taken.
LEMMA PutSlots ==
  ASSUME FilesAssumption, NEW q \in PipeRec, NEW x \in Int, NEW i, NEW y,
         i = (q.nread + x) % PIPESIZE, y = i + PIPESIZE - (q.nwrite % PIPESIZE)
  PROVE  y % PIPESIZE = (x - Level(q)) % PIPESIZE
<1> DEFINE P == PIPESIZE
           L == Level(q)
           a == q.nread + x
           b == q.nwrite
<1>1. /\ P \in Nat \ {0} /\ Wrap \in Nat \ {0} /\ Wrap % P = 0 /\ L \in Nat
      /\ q.nread \in Int /\ a \in Int /\ b \in Int
  BY SMTT(30), Levels DEF FilesAssumption, PipeRec
<1>2. L = b - q.nread \/ L = b - q.nread + Wrap BY Levels
<1>3. i = a % P /\ y = i + P - (b % P) /\ a = q.nread + x OBVIOUS
<1> HIDE DEF P, L, a, b
<1>e. PICK e \in Int : b = q.nread + L - e * Wrap
  <2>1. CASE L = b - q.nread
    <3>1. b = q.nread + L - 0 * Wrap BY <1>1, <2>1
    <3> QED BY <3>1
  <2>2. CASE L = b - q.nread + Wrap
    <3>1. b = q.nread + L - 1 * Wrap BY <1>1, <2>2
    <3> QED BY <3>1
  <2> QED BY <1>2, <2>1, <2>2
<1>4. PICK u \in Int : a = u * P + (a % P) BY <1>1, Division
<1>5. PICK v \in Int : b = v * P + (b % P) BY <1>1, Division
<1>6. PICK w \in Int : Wrap = w * P + (Wrap % P)
  <2>1. Wrap \in Int BY <1>1
  <2> QED BY <1>1, <2>1, Division
<1>7. Wrap = w * P BY <1>1, <1>6
<1> DEFINE c == x - L
           k == v - u + 1 + e * w
           m == a % P
           n == b % P
<1>8. c \in Int /\ k \in Int /\ m \in Int /\ n \in Int BY <1>1, Division
<1>9. y = c + k * P
  <2>1. \A r, s, t, z \in Int : (r - s + 1 + z) * t = r * t - s * t + t + z * t OBVIOUS
  <2>2. e * w \in Int BY <1>1
  <2>3. k * P = v * P - u * P + P + (e * w) * P BY <1>1, <2>1, <2>2
  <2>4. e * Wrap = (e * w) * P BY <1>1, <1>7
  <2> DEFINE up == u * P
             vp == v * P
             ep == (e * w) * P
             kp == k * P
  <2>5. up \in Int /\ vp \in Int /\ ep \in Int /\ P \in Int BY <1>1
  <2>6. kp = vp - up + P + ep /\ b = q.nread + L - ep BY <1>e, <2>3, <2>4
  <2>7. a = up + m /\ b = vp + n /\ y = m + P - n /\ c = x - L BY <1>3, <1>4, <1>5
  <2> HIDE DEF up, vp, ep, kp, c, k, m, n
  <2>8. y = c + kp BY <1>1, <1>3, <1>8, <2>5, <2>6, <2>7
  <2> QED BY <2>8 DEF kp
<1> HIDE DEF c, k, m, n
<1>10. PICK z \in Int : c = z * P + (c % P) /\ c % P \in 0 .. P - 1 BY <1>1, <1>8, Division
<1>11. y = (z + k) * P + (c % P)
  <2>1. \A r, s, t \in Int : r * t + s * t = (r + s) * t OBVIOUS
  <2>2. z * P + k * P = (z + k) * P BY <1>1, <1>8, <2>1
  <2>3. z * P \in Int /\ k * P \in Int BY <1>1, <1>8
  <2> QED BY <1>8, <1>9, <1>10, <2>2, <2>3
<1>12. z + k \in Int BY <1>8
<1>13. y % P = c % P
  <2> DEFINE f == z + k
  <2>1. f \in Int BY <1>12
  <2> HIDE DEF f
  <2>2. \A t \in 0 .. P - 1 : (f * P + t) % P = t BY <1>1, <2>1, Remainder
  <2> DEFINE t == c % P
  <2>3. t \in 0 .. P - 1 BY <1>10
  <2> HIDE DEF t
  <2>4. (f * P + t) % P = t BY <2>2, <2>3
  <2> QED BY <1>11, <2>4 DEF f, t
<1> QED BY <1>13 DEF P, L, c

\* Writing adds to the end of the stream.
LEMMA PutIs ==
  ASSUME FilesAssumption, NEW q \in PipeRec, NEW bytes \in Seq(Nat),
         Level(q) + Len(bytes) <= PIPESIZE, NEW r, r = Put(q, bytes)
  PROVE  /\ r \in PipeRec /\ Level(r) = Level(q) + Len(bytes)
         /\ r.used = q.used /\ r.readopen = q.readopen /\ r.writeopen = q.writeopen
         /\ Stream(r) = Stream(q) \o bytes
<1> DEFINE P == PIPESIZE
           W == Wrap
           L == Level(q)
           n == Len(bytes)
           a == q.nwrite + n
           later(i) == ((i + P - (q.nwrite % P)) % P) + 1
<1>1. /\ W \in Nat \ {0} /\ P \in Nat \ {0} /\ L \in Nat /\ n \in Nat /\ L + n <= P /\ P < W
      /\ q.nread \in 0 .. W - 1 /\ q.nwrite \in 0 .. W - 1 /\ a \in Nat
      /\ q.data \in [0 .. P - 1 -> Nat]
  <2>1. L \in Nat /\ n \in Nat /\ L + n <= P BY Levels
  <2>2. W \in Nat \ {0} /\ P \in Nat \ {0} /\ P < W BY DEF FilesAssumption
  <2>3. q.nread \in 0 .. W - 1 /\ q.nwrite \in 0 .. W - 1 /\ q.data \in [0 .. P - 1 -> Nat] BY DEF PipeRec
  <2>4. a \in Nat BY <2>1, <2>2, <2>3
  <2> QED BY <2>1, <2>2, <2>3, <2>4
<1>2. a % W \in 0 .. W - 1
  <2> HIDE DEF a
  <2>1. a \in Int BY <1>1
  <2> QED BY <1>1, <2>1, Division
<1> DEFINE d == [i \in 0 .. P - 1 |-> IF later(i) <= n THEN bytes[later(i)] ELSE q.data[i]]
<1>3. r = [q EXCEPT !.nwrite = a % W, !.data = d] BY <1>1 DEF Put
<1>4. \A i \in 0 .. P - 1 : later(i) \in 1 .. P
  <2> TAKE i \in 0 .. P - 1
  <2> DEFINE b == q.nwrite
             c == i + P - (b % P)
  <2>1. b % P \in Int
    <3>1. b \in Int BY <1>1
    <3> HIDE DEF b, P
    <3> QED BY <1>1, <3>1, Division
  <2>2. c \in Int
    <3> DEFINE m == b % P
    <3>1. m \in Int /\ P \in Int BY <1>1, <2>1
    <3> HIDE DEF m, P
    <3>2. i + P - m \in Int BY <3>1
    <3> QED BY <3>2 DEF m, P
  <2> HIDE DEF c
  <2>3. c % P \in 0 .. P - 1 BY <1>1, <2>2, Division
  <2> DEFINE m == c % P
  <2>4. later(i) = m + 1 BY DEF c
  <2>5. m \in 0 .. P - 1 BY <2>3
  <2> HIDE DEF m, later, P
  <2> QED BY <1>1, <2>4, <2>5
<1>5. d \in [0 .. P - 1 -> Nat]
  <2>1. \A k \in 1 .. n : bytes[k] \in Nat BY ElementOfSeq
  <2> HIDE DEF later
  <2>2. ASSUME NEW i \in 0 .. P - 1 PROVE later(i) <= n => bytes[later(i)] \in Nat
    <3> DEFINE m == later(i)
    <3>1. m \in 1 .. P BY <1>4
    <3> HIDE DEF P, n, m
    <3>2. m <= n => m \in 1 .. n BY <1>1, <3>1
    <3> QED BY <2>1, <3>2 DEF m
  <2>3. \A i \in 0 .. P - 1 : q.data[i] \in Nat BY <1>1
  <2> HIDE DEF P, n
  <2> QED BY <1>1, <2>2, <2>3
<1> HIDE DEF d
<1>6. /\ r \in PipeRec /\ r.nwrite = a % W /\ r.nread = q.nread /\ r.data = d
      /\ r.used = q.used /\ r.readopen = q.readopen /\ r.writeopen = q.writeopen
  BY <1>2, <1>3, <1>5 DEF PipeRec
<1>7. (a < W => a % W = a) /\ (a >= W => a % W = a - W)
  <2>1. \A x \in 0 .. 2 * W - 1 : x % W = IF x < W THEN x ELSE x - W BY OneWrap
  <2>2. a \in 0 .. 2 * W - 1 /\ a \in Nat /\ W \in Nat BY <1>1
  <2> HIDE DEF a, W
  <2>3. a % W = IF a < W THEN a ELSE a - W BY <2>1, <2>2
  <2> QED BY <2>2, <2>3
<1>8. Level(r) = L + n
  <2>1. L = IF q.nread <= q.nwrite THEN q.nwrite - q.nread ELSE q.nwrite - q.nread + W BY Levels
  <2>2. Level(r) = IF r.nread <= r.nwrite THEN r.nwrite - r.nread ELSE r.nwrite - r.nread + W
    BY <1>6, Levels
  <2> DEFINE lr == Level(r)
             b == a % W
  <2>3. lr = IF q.nread <= b THEN b - q.nread ELSE b - q.nread + W BY <1>6, <2>2
  <2>4. a = q.nwrite + n /\ (a < W => b = a) /\ (a >= W => b = a - W) BY <1>7
  <2>6. L + n < W /\ L \in Nat /\ n \in Nat /\ W \in Nat /\ a \in Nat
        /\ q.nread \in 0 .. W - 1 /\ q.nwrite \in 0 .. W - 1
    BY <1>1
  <2> DEFINE nr == q.nread
             nw == q.nwrite
  <2>7. nr \in 0 .. W - 1 /\ nw \in 0 .. W - 1 /\ (lr = IF nr <= b THEN b - nr ELSE b - nr + W)
        /\ a = nw + n /\ L = IF nr <= nw THEN nw - nr ELSE nw - nr + W
    BY <2>1, <2>3, <2>4, <2>6
  <2> HIDE DEF lr, b, a, n, L, nr, nw, W
  <2>5. lr = L + n BY SMTT(30), <2>4, <2>6, <2>7
  <2> QED BY <2>5 DEF lr
<1>10. \A j \in 1 .. L + n : Stream(r)[j] = IF j <= L THEN Stream(q)[j] ELSE bytes[j - L]
  <2> TAKE j \in 1 .. L + n
  <2> DEFINE x == j - 1
             i == (q.nread + x) % P
             y == i + P - (q.nwrite % P)
  <2>1. x \in Int /\ q.nread + x = q.nread + j - 1 /\ q.nread + x \in Int BY <1>1
  <2>2. i \in 0 .. P - 1
    <3> DEFINE z == q.nread + x
    <3>1. z \in Int BY <2>1
    <3> HIDE DEF z, P
    <3>2. z % P \in 0 .. P - 1 BY <1>1, <3>1, Division
    <3> QED BY <3>2 DEF z
  <2>3. y % P = (x - L) % P BY <2>1, PutSlots
  <2>4. Stream(r)[j] = d[i] /\ (j <= L => Stream(q)[j] = q.data[i])
    <3>1. /\ Stream(r)[j] = r.data[(r.nread + j - 1) % PIPESIZE]
          /\ j <= L => Stream(q)[j] = q.data[(q.nread + j - 1) % PIPESIZE]
      <4>1. j \in 1 .. Level(r) /\ (j <= L => j \in 1 .. Level(q)) BY <1>1, <1>8
      <4> QED BY <1>6, <4>1, StreamIs
    <3> QED BY <1>6, <2>1, <3>1
  <2>5. later(i) = (y % P) + 1 OBVIOUS
  <2>6. d[i] = IF later(i) <= n THEN bytes[later(i)] ELSE q.data[i] BY <2>2 DEF d
  <2>7. CASE j <= L
    <3>1. (x - L) % P = P + x - L
      <4> DEFINE s == x - L
                 t == P + x - L
                 z == -1
      <4>1. L \in Nat /\ x \in Int /\ x < L /\ x >= 0 /\ L <= P /\ P \in Nat \ {0} BY <1>1, <2>7
      <4>2. s = t - P /\ t \in 0 .. P - 1 /\ P \in Nat \ {0}
        <5> HIDE DEF L, P, x
        <5> QED BY <4>1
      <4> HIDE DEF s, t, P
      <4>3. z \in Int /\ s = z * P + t BY <4>2
      <4> HIDE DEF z
      <4>4. (z * P + t) % P = t BY <4>2, <4>3, Remainder
      <4>5. s % P = t BY <4>3, <4>4
      <4> QED BY <4>5 DEF s, t
    <3>2. later(i) = P + j - L BY <1>1, <2>3, <2>5, <3>1
    <3>3. ~ (later(i) <= n) BY <1>1, <2>7, <3>2
    <3> HIDE DEF i
    <3> QED BY <2>4, <2>6, <2>7, <3>3
  <2>8. CASE ~ (j <= L)
    <3>1. (x - L) % P = x - L
      <4> DEFINE s == x - L
      <4>0. j \in 1 .. L + n /\ x = j - 1 /\ L \in Nat /\ n \in Nat /\ L + n <= P /\ P \in Nat \ {0}
        BY <1>1
      <4>1. s \in 0 .. P - 1 /\ P \in Nat \ {0}
        <5> HIDE DEF L, n, P, x
        <5> QED BY <2>8, <4>0
      <4> HIDE DEF s, P
      <4>2. \A u \in Nat \ {0} : \A v \in 0 .. u - 1 : v % u = v OBVIOUS
      <4>3. s % P = s BY <4>1, <4>2
      <4> QED BY <4>3 DEF s
    <3>2. later(i) = j - L BY <1>1, <2>3, <2>5, <3>1
    <3>3. later(i) <= n BY <1>1, <3>2
    <3> HIDE DEF i
    <3> QED BY <2>4, <2>6, <2>8, <3>2, <3>3
  <2> QED BY <2>7, <2>8
<1>11. Stream(r) = Stream(q) \o bytes
  <2> DEFINE sq == Stream(q)
             sr == Stream(r)
             t == sq \o bytes
  <2>1. /\ sq \in Seq(Nat) /\ Len(sq) = L /\ sr \in Seq(Nat) /\ Len(sr) = L + n
        /\ \A j \in 1 .. L + n : sr[j] = IF j <= L THEN sq[j] ELSE bytes[j - L]
    BY <1>6, <1>8, <1>10, StreamIs
  <2> HIDE DEF sq, sr
  <2>2. /\ t \in Seq(Nat) /\ Len(t) = L + n
        /\ \A j \in 1 .. L + n : t[j] = IF j <= L THEN sq[j] ELSE bytes[j - L]
    BY SMTT(30), <2>1, ConcatProperties
  <2> HIDE DEF t, L, n
  <2>3. \A j \in 1 .. Len(sr) : sr[j] = t[j] BY <2>1, <2>2
  <2>4. sr = t BY <2>1, <2>2, <2>3, SeqEqual
  <2> QED BY <2>4 DEF sq, sr, t
<1> QED BY <1>6, <1>8, <1>11

-----------------------------------------------------------------------------
(* Counting *)

Count(S, f, v) == Cardinality({x \in S : f[x] = v})
One(x, y) == IF x = y THEN 1 ELSE 0

\* f and g differ at p at most.
Moves(S, f, g, p) == p \in S /\ \A x \in S : x # p => f[x] = g[x]

\* A function that changes at one place moves one from the count of the old value to that
\* of the new one.
LEMMA CountMoves ==
  ASSUME NEW S, IsFiniteSet(S), NEW f, NEW g, NEW p, Moves(S, f, g, p), NEW v
  PROVE  /\ Count(S, f, v) \in Nat /\ Count(S, g, v) \in Nat
         /\ Count(S, g, v) + One(f[p], v) = Count(S, f, v) + One(g[p], v)
<1> DEFINE A == {x \in S : f[x] = v}
           B == {x \in S : g[x] = v}
<1>1. IsFiniteSet(A) /\ IsFiniteSet(B) BY FS_Subset
<1>2. A \ {p} = B \ {p} BY DEF Moves
<1>3. Cardinality(A) \in Nat /\ Cardinality(B) \in Nat BY <1>1, FS_CardinalityType
<1>4. Cardinality(A \ {p}) = IF p \in A THEN Cardinality(A) - 1 ELSE Cardinality(A)
  BY <1>1, FS_RemoveElement
<1>5. Cardinality(B \ {p}) = IF p \in B THEN Cardinality(B) - 1 ELSE Cardinality(B)
  BY <1>1, FS_RemoveElement
<1>6. (p \in A <=> f[p] = v) /\ (p \in B <=> g[p] = v) BY DEF Moves
<1>7. Count(S, f, v) = Cardinality(A) /\ Count(S, g, v) = Cardinality(B) BY DEF Count
<1> HIDE DEF A, B
<1> QED
  <2>1. One(f[p], v) = (IF p \in A THEN 1 ELSE 0) /\ One(g[p], v) = (IF p \in B THEN 1 ELSE 0)
    BY <1>6 DEF One
  <2> DEFINE ca == Cardinality(A)
             cb == Cardinality(B)
             of == One(f[p], v)
             og == One(g[p], v)
             d == Cardinality(A \ {p})
  <2>2. /\ ca \in Nat /\ cb \in Nat /\ of = (IF p \in A THEN 1 ELSE 0) /\ og = (IF p \in B THEN 1 ELSE 0)
        /\ d = (IF p \in A THEN ca - 1 ELSE ca) /\ d = (IF p \in B THEN cb - 1 ELSE cb)
    BY <1>2, <1>3, <1>4, <1>5, <2>1
  <2> HIDE DEF ca, cb, of, og, d
  <2>3. cb + of = ca + og BY <2>2
  <2> QED BY <1>3, <1>7, <2>3 DEF ca, cb, of, og

\* A count is 0 when there is nothing to count, and 2 at least when there are two.
LEMMA CountSome ==
  ASSUME NEW S, IsFiniteSet(S), NEW f, NEW v
  PROVE  /\ Count(S, f, v) \in Nat
         /\ Count(S, f, v) = 0 <=> \A p \in S : f[p] # v
         /\ \A p, q \in S : f[p] = v /\ f[q] = v /\ p # q => Count(S, f, v) >= 2
<1> DEFINE A == {x \in S : f[x] = v}
<1>1. IsFiniteSet(A) BY FS_Subset
<1>2. Cardinality(A) \in Nat /\ (Cardinality(A) = 0 <=> A = {})
  BY <1>1, FS_CardinalityType, FS_EmptySet
<1>3. A = {} <=> \A p \in S : f[p] # v OBVIOUS
<1>4. ASSUME NEW p \in A, NEW q \in A, p # q PROVE Cardinality(A) >= 2
  <2>1. IsFiniteSet(A \ {p}) /\ Cardinality(A \ {p}) = Cardinality(A) - 1
    BY <1>1, <1>4, FS_RemoveElement
  <2>2. A \ {p} # {} BY <1>4
  <2>3. Cardinality(A \ {p}) # 0 /\ Cardinality(A \ {p}) \in Nat
    BY <2>1, <2>2, FS_EmptySet, FS_CardinalityType
  <2> HIDE DEF A
  <2> QED BY <1>2, <2>1, <2>3
<1>5. Count(S, f, v) = Cardinality(A) BY DEF Count
<1>6. \A p \in S : f[p] = v => p \in A OBVIOUS
<1> HIDE DEF A
<1> QED BY <1>2, <1>3, <1>4, <1>5, <1>6


\* The places of references: descriptors, and hands.
Places == Proc \X Fd
Hands  == Proc \X (1 .. 2)
Opened(o) == [u \in Places |-> o[u[1]][u[2]]]
Nth(s, i) == IF i \in DOMAIN s THEN s[i] ELSE NONE
InHand(h) == [u \in Hands |-> Nth(h[u[1]], u[2])]

LEMMA FinitePlaces == ASSUME FilesAssumption PROVE IsFiniteSet(Places) /\ IsFiniteSet(Hands)
<1>1. IsFiniteSet(Proc) /\ IsFiniteSet(Fd) /\ IsFiniteSet(1 .. 2)
  <2>1. NPROC \in Int /\ NOFILE \in Int BY DEF FilesAssumption
  <2>2. IsFiniteSet(Proc) BY <2>1, FS_Interval DEF Proc
  <2>3. IsFiniteSet(Fd) BY <2>1, FS_Interval DEF Fd
  <2>4. PICK m \in Int, n \in Int : m = 1 /\ n = 2 OBVIOUS
  <2>5. IsFiniteSet(m .. n) BY FS_Interval
  <2> QED BY <2>2, <2>3, <2>4, <2>5
<1> QED BY <1>1, FS_Product DEF Places, Hands

\* The constants, and files that are not NONE.
LEMMA Constants ==
  ASSUME FilesAssumption
  PROVE  /\ NONE \notin File /\ NONE \notin Fd /\ NONE \notin Pipe /\ NONE \notin Proc
         /\ File \subseteq Nat /\ Fd \subseteq Nat /\ Pipe \subseteq Nat /\ Proc \subseteq Nat
         /\ initproc \in Proc /\ NONE \in Nat /\ NONE = 0
BY DEF FilesAssumption, NONE, File, Fd, Pipe, Proc, initproc

\* References are counted in both.
LEMMA RefsAre ==
  ASSUME FilesAssumption
  PROVE  \A f \in File :
           /\ Refs(f) = Count(Places, Opened(ofile), f) + Count(Hands, InHand(held), f)
           /\ Refs(f)' = Count(Places, Opened(ofile'), f) + Count(Hands, InHand(held'), f)
<1> TAKE f \in File
<1>1. Cardinality({u \in Proc \X Fd : ofile[u[1]][u[2]] = f}) = Count(Places, Opened(ofile), f)
  <2>1. {u \in Proc \X Fd : ofile[u[1]][u[2]] = f} = {u \in Places : Opened(ofile)[u] = f}
    BY DEF Places, Opened
  <2> QED BY <2>1 DEF Count
<1>2. Cardinality({u \in Proc \X Fd : ofile'[u[1]][u[2]] = f}) = Count(Places, Opened(ofile'), f)
  <2>1. {u \in Proc \X Fd : ofile'[u[1]][u[2]] = f} = {u \in Places : Opened(ofile')[u] = f}
    BY DEF Places, Opened
  <2> QED BY <2>1 DEF Count
<1>3. Cardinality({u \in Proc \X (1 .. 2) : u[2] \in DOMAIN held[u[1]] /\ held[u[1]][u[2]] = f})
        = Count(Hands, InHand(held), f)
  <2>1. {u \in Proc \X (1 .. 2) : u[2] \in DOMAIN held[u[1]] /\ held[u[1]][u[2]] = f}
          = {u \in Hands : InHand(held)[u] = f}
    BY Constants DEF Hands, InHand, Nth
  <2> QED BY <2>1 DEF Count
<1>4. Cardinality({u \in Proc \X (1 .. 2) : u[2] \in DOMAIN held'[u[1]] /\ held'[u[1]][u[2]] = f})
        = Count(Hands, InHand(held'), f)
  <2>1. {u \in Proc \X (1 .. 2) : u[2] \in DOMAIN held'[u[1]] /\ held'[u[1]][u[2]] = f}
          = {u \in Hands : InHand(held')[u] = f}
    BY Constants DEF Hands, InHand, Nth
  <2> QED BY <2>1 DEF Count
<1> QED BY <1>1, <1>2, <1>3, <1>4 DEF Refs

\* What a file with one reference has in a hand has no other.
LEMMA OnlyHand ==
  ASSUME FilesAssumption, Typed, FilesCounted, NEW p \in Proc, held[p] # <<>>, Len(held[p]) <= 2,
         ftable[held[p][1]].ref <= 1
  PROVE  /\ \A q \in Proc : \A fd \in Fd : ofile[q][fd] # held[p][1]
         /\ \A q \in Proc : q # p /\ held[q] # <<>> => held[q][1] # held[p][1]
<1> DEFINE f == held[p][1]
           o == Opened(ofile)
           h == InHand(held)
<1>1. /\ \A q \in Proc : held[q] \in Seq(File)
      /\ \A q \in Proc : held[q] # <<>> => 1 \in DOMAIN held[q] /\ held[q][1] \in File
  <2>1. ASSUME NEW q \in Proc, held[q] # <<>> PROVE Len(held[q]) \in Nat \ {0} /\ held[q][1] \in File
    <3>1. held[q] \in Seq(File) BY DEF Typed
    <3> QED BY <2>1, <3>1, EmptySeq, ElementOfSeq
  <2> QED BY <2>1 DEF Typed
<1>2. f \in File /\ ftable[f].ref = Refs(f) BY <1>1 DEF FilesCounted
<1>3. Count(Places, o, f) + Count(Hands, h, f) <= 1 BY <1>2, RefsAre
<1>4. <<p, 1>> \in Hands /\ h[<<p, 1>>] = f BY <1>1 DEF Hands, InHand, Nth
<1> HIDE DEF o, h, f
<1>5. /\ Count(Places, o, f) \in Nat /\ Count(Hands, h, f) \in Nat
      /\ Count(Hands, h, f) = 0 <=> \A u \in Hands : h[u] # f
      /\ Count(Places, o, f) = 0 <=> \A u \in Places : o[u] # f
      /\ \A u, v \in Hands : h[u] = f /\ h[v] = f /\ u # v => Count(Hands, h, f) >= 2
  BY FinitePlaces, CountSome
<1>6. Count(Hands, h, f) # 0 BY <1>4, <1>5
<1>7. Count(Hands, h, f) = 1 /\ Count(Places, o, f) = 0 BY <1>3, <1>5, <1>6
<1>8. \A u \in Places : o[u] # f BY <1>5, <1>7
<1>9. \A q \in Proc : \A fd \in Fd : ofile[q][fd] # f
  <2>1. \A q \in Proc : \A fd \in Fd : <<q, fd>> \in Places /\ o[<<q, fd>>] = ofile[q][fd]
    BY DEF Places, o, Opened
  <2> QED BY <1>8, <2>1
<1>10. \A q \in Proc : q # p /\ held[q] # <<>> => held[q][1] # f
  <2>1. \A q \in Proc : held[q] # <<>> => <<q, 1>> \in Hands /\ h[<<q, 1>>] = held[q][1]
    BY <1>1 DEF Hands, h, InHand, Nth
  <2>2. \A q \in Proc : q # p => <<q, 1>> # <<p, 1>> OBVIOUS
  <2>3. \A u \in Hands : u # <<p, 1>> => h[u] # f BY <1>4, <1>5, <1>7
  <2> QED BY <2>1, <2>2, <2>3
<1> QED BY <1>9, <1>10 DEF f

\* A free slot has no reference.
LEMMA NoneLeft ==
  ASSUME FilesAssumption, Typed, FilesCounted, NEW f \in File, ftable[f].ref = 0
  PROVE  /\ \A q \in Proc : \A fd \in Fd : ofile[q][fd] # f
         /\ \A q \in Proc : held[q] # <<>> => held[q][1] # f
<1> DEFINE o == Opened(ofile)
           h == InHand(held)
<1>1. Refs(f) = 0 BY DEF FilesCounted
<1>2. Count(Places, o, f) + Count(Hands, h, f) = 0 BY <1>1, RefsAre
<1>3. \A q \in Proc : held[q] # <<>> => 1 \in DOMAIN held[q]
  <2> TAKE q \in Proc
  <2>1. held[q] \in Seq(File) BY DEF Typed
  <2> QED BY <2>1, EmptySeq
<1>4. \A q \in Proc : held[q] # <<>> => <<q, 1>> \in Hands /\ h[<<q, 1>>] = held[q][1]
  BY <1>3 DEF Hands, InHand, Nth
<1>5. \A q \in Proc : \A fd \in Fd : <<q, fd>> \in Places /\ o[<<q, fd>>] = ofile[q][fd]
  BY DEF Places, Opened
<1> HIDE DEF o, h
<1>6. /\ Count(Places, o, f) \in Nat /\ Count(Hands, h, f) \in Nat
      /\ Count(Hands, h, f) = 0 <=> \A u \in Hands : h[u] # f
      /\ Count(Places, o, f) = 0 <=> \A u \in Places : o[u] # f
  BY FinitePlaces, CountSome
<1>7. Count(Places, o, f) = 0 /\ Count(Hands, h, f) = 0 BY <1>2, <1>6
<1>8. (\A u \in Places : o[u] # f) /\ \A u \in Hands : h[u] # f BY <1>6, <1>7
<1>9. \A q \in Proc : \A fd \in Fd : ofile[q][fd] # f BY <1>5, <1>8
<1> QED BY <1>4, <1>8, <1>9

\* What another file in a descriptor changes.
LEMMA OpenMoves ==
  ASSUME FilesAssumption, NEW p \in Proc, NEW fd \in Fd, NEW f \in File,
         \A q \in Proc : \A e \in Fd : q # p \/ e # fd => ofile'[q][e] = ofile[q][e]
  PROVE  /\ Count(Places, Opened(ofile), f) \in Nat /\ Count(Places, Opened(ofile'), f) \in Nat
         /\ Count(Places, Opened(ofile'), f) + One(ofile[p][fd], f)
              = Count(Places, Opened(ofile), f) + One(ofile'[p][fd], f)
<1> DEFINE u == <<p, fd>>
           a == Opened(ofile)
           b == Opened(ofile')
<1>1. u \in Places /\ \A v \in Places : v[1] \in Proc /\ v[2] \in Fd /\ <<v[1], v[2]>> = v BY DEF Places
<1>2. a[u] = ofile[p][fd] /\ b[u] = ofile'[p][fd] BY <1>1 DEF Opened
<1>3. \A v \in Places : v # u => a[v] = b[v] BY <1>1 DEF Opened
<1>4. Moves(Places, a, b, u) BY <1>1, <1>3 DEF Moves
<1> HIDE DEF u, a, b
<1>5. /\ Count(Places, a, f) \in Nat /\ Count(Places, b, f) \in Nat
      /\ Count(Places, b, f) + One(a[u], f) = Count(Places, a, f) + One(b[u], f)
  BY <1>4, CountMoves, FinitePlaces
<1> QED BY <1>2, <1>5 DEF a, b

\* What other files in the hands of a process change.
LEMMA HandMoves ==
  ASSUME FilesAssumption, NEW p \in Proc, NEW f \in File,
         \A q \in Proc : q # p => held'[q] = held[q]
  PROVE  /\ Count(Hands, InHand(held), f) \in Nat /\ Count(Hands, InHand(held'), f) \in Nat
         /\ Count(Hands, InHand(held'), f) + One(Nth(held[p], 1), f) + One(Nth(held[p], 2), f)
              = Count(Hands, InHand(held), f) + One(Nth(held'[p], 1), f) + One(Nth(held'[p], 2), f)
<1> DEFINE a == InHand(held)
           c == InHand(held')
           u == <<p, 1>>
           v == <<p, 2>>
           b == [a EXCEPT ![u] = Nth(held'[p], 1)]
<1>1. /\ u \in Hands /\ v \in Hands /\ u # v
      /\ \A x \in Hands : x[1] \in Proc /\ x[2] \in {1, 2} /\ (x[1] = p => x = u \/ x = v)
  <2>1. \A x \in Hands : x[1] \in Proc /\ x[2] \in {1, 2} /\ x = <<x[1], x[2]>> BY DEF Hands
  <2> QED BY <2>1 DEF Hands
<1>3. a[u] = Nth(held[p], 1) /\ a[v] = Nth(held[p], 2) BY <1>1 DEF InHand
<1>4. c[u] = Nth(held'[p], 1) /\ c[v] = Nth(held'[p], 2) BY <1>1 DEF InHand
<1>5. \A x \in Hands : x # u /\ x # v => a[x] = c[x] BY <1>1 DEF InHand
<1>6. DOMAIN a = Hands BY DEF InHand
<1> HIDE DEF a, c, u, v
<1>7. Moves(Hands, a, b, u) BY <1>1, <1>6 DEF Moves
<1>8. Moves(Hands, b, c, v) BY <1>1, <1>4, <1>5, <1>6 DEF Moves
<1>9. b[u] = Nth(held'[p], 1) /\ b[v] = a[v] BY <1>1, <1>6
<1> HIDE DEF b
<1>10. /\ Count(Hands, a, f) \in Nat /\ Count(Hands, b, f) \in Nat
       /\ Count(Hands, b, f) + One(a[u], f) = Count(Hands, a, f) + One(b[u], f)
  BY <1>7, CountMoves, FinitePlaces
<1>11. /\ Count(Hands, c, f) \in Nat
       /\ Count(Hands, c, f) + One(b[v], f) = Count(Hands, b, f) + One(c[v], f)
  BY <1>8, CountMoves, FinitePlaces
<1>12. \A x, y : One(x, y) \in Nat BY DEF One
<1>14. Count(Hands, c, f) + One(a[u], f) + One(a[v], f)
         = Count(Hands, a, f) + One(b[u], f) + One(c[v], f)
  <2> DEFINE A == Count(Hands, a, f)
             B == Count(Hands, b, f)
             C == Count(Hands, c, f)
             au == One(a[u], f)
             av == One(a[v], f)
             bu == One(b[u], f)
             bv == One(b[v], f)
             cv == One(c[v], f)
  <2>1. bv = av BY <1>9
  <2>2. A \in Nat /\ B \in Nat /\ C \in Nat /\ au \in Nat /\ av \in Nat /\ bu \in Nat /\ cv \in Nat
    BY <1>10, <1>11, <1>12
  <2>3. B + au = A + bu /\ C + bv = B + cv BY <1>10, <1>11
  <2> HIDE DEF A, B, C, au, av, bu, bv, cv
  <2>4. C + au + av = A + bu + cv BY <2>1, <2>2, <2>3
  <2> QED BY <2>4 DEF A, C, au, av, bu, cv
<1>15. Count(Hands, c, f) + One(Nth(held[p], 1), f) + One(Nth(held[p], 2), f)
         = Count(Hands, a, f) + One(Nth(held'[p], 1), f) + One(Nth(held'[p], 2), f)
  BY <1>3, <1>4, <1>9, <1>14
<1> QED BY <1>10, <1>11, <1>15 DEF a, c

\* Sequences of at most two files.
LEMMA NthOf ==
  ASSUME FilesAssumption, NEW f \in File, NEW g \in File
  PROVE  /\ One(Nth(<<>>, 1), f) = 0 /\ One(Nth(<<>>, 2), f) = 0
         /\ One(Nth(<<g>>, 1), f) = One(g, f) /\ One(Nth(<<g>>, 2), f) = 0
         /\ \A g2 \in File : /\ One(Nth(<<g, g2>>, 1), f) = One(g, f)
                             /\ One(Nth(<<g, g2>>, 2), f) = One(g2, f)
BY Constants DEF Nth, One

-----------------------------------------------------------------------------
(* References are counted *)

LEMMA Pair ==
  ASSUME NEW S, NEW x \in S, NEW y \in S
  PROVE  Append(<<x>>, y) = <<x, y>>
<1>1. <<x>> \in Seq(S) /\ <<x, y>> \in Seq(S) /\ Len(<<x>>) = 1 /\ Len(<<x, y>>) = 2 OBVIOUS
<1>2. PICK s \in Seq(S) : s = <<x>> BY <1>1
<1>3. /\ Append(s, y) \in Seq(S) /\ Len(Append(s, y)) = Len(s) + 1
      /\ \A i \in 1 .. Len(s) : Append(s, y)[i] = s[i]
      /\ Append(s, y)[Len(s) + 1] = y
  BY AppendProperties
<1>4. Len(s) = 1 /\ s[1] = x BY <1>2
<1> DEFINE t == Append(s, y)
<1>5. t \in Seq(S) /\ Len(t) = 2 /\ t[1] = x /\ t[2] = y BY <1>3, <1>4
<1> HIDE DEF t
<1>6. \A i \in 1 .. Len(t) : t[i] = <<x, y>>[i] BY <1>5
<1>7. t = <<x, y>> BY <1>1, <1>5, <1>6, SeqEqual
<1> QED BY <1>2, <1>7 DEF t

\* Nothing, one file or two.
LEMMA HandsAre ==
  ASSUME IInv, NEW p \in Proc
  PROVE  \/ held[p] = <<>>
         \/ \E g \in File : held[p] = <<g>>
         \/ \E g, g2 \in File : held[p] = <<g, g2>>
<1>1. PICK h \in Seq(File) : h = held[p] BY DEF IInv, Typed
<1>2. Len(h) \in Nat /\ Len(h) <= 2 /\ \A i \in 1 .. Len(h) : h[i] \in File
  BY <1>1, ElementOfSeq DEF IInv, PlacesOK, PlaceOK
<1>3. CASE Len(h) = 0 BY <1>1, <1>3, EmptySeq
<1>4. CASE Len(h) = 1
  <2>1. PICK g \in File : g = h[1] BY <1>2, <1>4
  <2>2. <<g>> \in Seq(File) /\ Len(<<g>>) = 1 /\ \A i \in 1 .. Len(h) : h[i] = <<g>>[i] BY <1>4, <2>1
  <2>3. h = <<g>> BY <1>4, <2>2, SeqEqual
  <2> QED BY <1>1, <2>3
<1>5. CASE Len(h) = 2
  <2>1. PICK g \in File, g2 \in File : g = h[1] /\ g2 = h[2] BY <1>2, <1>5
  <2>2. /\ <<g, g2>> \in Seq(File) /\ Len(<<g, g2>>) = 2
        /\ \A i \in 1 .. Len(h) : h[i] = <<g, g2>>[i]
    BY <1>5, <2>1
  <2>3. h = <<g, g2>> BY <1>5, <2>2, SeqEqual
  <2> QED BY <1>1, <2>3
<1>6. Len(h) = 0 \/ Len(h) = 1 \/ Len(h) = 2
  <2> DEFINE n == Len(h)
  <2>1. n \in Nat /\ n <= 2 BY <1>2
  <2> HIDE DEF n
  <2>2. n = 0 \/ n = 1 \/ n = 2 BY <2>1
  <2> QED BY <2>2 DEF n
<1> QED BY <1>3, <1>4, <1>5, <1>6

\* Away from pipe() and fileclose hands are empty, and in pipe() there is one file in them.
LEMMA Hand ==
  ASSUME IInv, NEW p \in Proc
  PROVE  /\ pc[p] \notin {"pipe", "fileclose", "pipeclose"} => held[p] = <<>>
         /\ pc[p] = "pipe" => \E g \in File : held[p] = <<g>>
<1>1. pc[p] = "pipe" => Len(held[p]) = 1 BY DEF IInv, PlacesOK, PlaceOK
<1>2. \A g, g2 \in File : Len(<<g, g2>>) = 2 OBVIOUS
<1>3. Len(<<>>) = 0 OBVIOUS
<1>4. pc[p] = "pipe" => \E g \in File : held[p] = <<g>> BY <1>1, <1>2, <1>3, HandsAre
<1> QED BY <1>4 DEF IInv, PlacesOK, PlaceOK

LEMMA SameCounts ==
  ASSUME FilesCounted, UNCHANGED <<ofile, held, ftable>>
  PROVE  FilesCounted'
BY DEF FilesCounted, Refs

\* A slot that is taken, for a hand.
LEMMA TakeCounts ==
  ASSUME FilesAssumption, IInv, NEW p \in Proc, NEW g \in File, NEW r,
         held[p] = <<>> \/ (\E x \in File : held[p] = <<x>>),
         held' = [held EXCEPT ![p] = Append(held[p], g)], ofile' = ofile,
         \A f \in File : ftable'[f].ref = ftable[f].ref + One(g, f)
  PROVE  FilesCounted'
<1> SUFFICES ASSUME NEW f \in File PROVE ftable'[f].ref = Refs(f)' BY DEF FilesCounted
<1> DEFINE a == Count(Places, Opened(ofile), f)
           b == Count(Hands, InHand(held), f)
           c == Count(Hands, InHand(held'), f)
           t == Append(held[p], g)
           o1 == One(Nth(held[p], 1), f)
           o2 == One(Nth(held[p], 2), f)
           t1 == One(Nth(t, 1), f)
           t2 == One(Nth(t, 2), f)
           n == One(g, f)
<1>1. ftable[f].ref = a + b /\ Refs(f)' = a + c BY RefsAre DEF IInv, FilesCounted
<1>2. held \in [Proc -> Seq(File)] BY DEF IInv, Typed
<1>3. b \in Nat /\ c \in Nat /\ c + o1 + o2 = b + t1 + t2
  <2>1. held'[p] = t /\ \A q \in Proc : q # p => held'[q] = held[q] BY <1>2
  <2> HIDE DEF t
  <2>2. b \in Nat /\ c \in Nat BY <2>1, HandMoves
  <2>3. c + o1 + o2 = b + One(Nth(held'[p], 1), f) + One(Nth(held'[p], 2), f) BY <2>1, HandMoves
  <2> QED BY <2>1, <2>2, <2>3
<1>4. a \in Nat BY FinitePlaces, CountSome
<1>5. /\ \A x, y : One(x, y) \in Nat
      /\ o1 \in Nat /\ o2 \in Nat /\ t1 \in Nat /\ t2 \in Nat /\ n \in Nat
  BY DEF One
<1>6. t1 + t2 = o1 + o2 + n
  <2>1. CASE held[p] = <<>>
    <3>1. t = <<g>> BY <2>1
    <3>2. o1 = 0 /\ o2 = 0 /\ t1 = n /\ t2 = 0 BY <2>1, <3>1, NthOf
    <3> QED BY <1>5, <3>2
  <2>2. ASSUME NEW x \in File, held[p] = <<x>> PROVE t1 + t2 = o1 + o2 + n
    <3>1. t = <<x, g>>
      <4>1. Append(<<x>>, g) = <<x, g>> BY Pair
      <4> QED BY <2>2, <4>1
    <3> HIDE DEF t
    <3>2. o1 = One(x, f) /\ o2 = 0 BY <2>2, NthOf
    <3>3. t1 = One(x, f) /\ t2 = n BY <3>1, NthOf
    <3> QED BY <1>5, <3>2, <3>3
  <2> QED BY <2>1, <2>2
<1>7. ftable'[f].ref = ftable[f].ref + n OBVIOUS
<1> HIDE DEF a, b, c, t, o1, o2, t1, t2, n
<1>8. c = b + n BY <1>3, <1>5, <1>6
<1> QED BY <1>1, <1>3, <1>4, <1>5, <1>7, <1>8

\* A descriptor that is given up for a hand.
LEMMA GiveUpCounts ==
  ASSUME FilesAssumption, IInv, NEW p \in Proc, NEW fd \in Fd, NEW g \in File,
       held[p] = <<>>, ofile[p][fd] = g, ftable' = ftable,
       held' = [held EXCEPT ![p] = <<g>>], ofile' = [ofile EXCEPT ![p][fd] = NONE]
  PROVE  FilesCounted'
<1> SUFFICES ASSUME NEW f \in File PROVE ftable'[f].ref = Refs(f)' BY DEF FilesCounted
<1> DEFINE a == Count(Places, Opened(ofile), f)
         a2 == Count(Places, Opened(ofile'), f)
         b == Count(Hands, InHand(held), f)
         c == Count(Hands, InHand(held'), f)
         n == One(g, f)
<1>1. ftable[f].ref = a + b /\ Refs(f)' = a2 + c BY RefsAre DEF IInv, FilesCounted
<1>2. held \in [Proc -> Seq(File)] /\ ofile \in [Proc -> [Fd -> File \cup {NONE}]]
  BY DEF IInv, Typed, TypeOK
<1>3. b \in Nat /\ c \in Nat /\ c + One(Nth(<<>>, 1), f) + One(Nth(<<>>, 2), f)
        = b + One(Nth(<<g>>, 1), f) + One(Nth(<<g>>, 2), f)
  <2>1. held'[p] = <<g>> /\ \A q \in Proc : q # p => held'[q] = held[q] BY <1>2
  <2>2. b \in Nat /\ c \in Nat BY <2>1, HandMoves
  <2>3. c + One(Nth(held[p], 1), f) + One(Nth(held[p], 2), f)
          = b + One(Nth(held'[p], 1), f) + One(Nth(held'[p], 2), f)
    BY <2>1, HandMoves
  <2> QED BY <2>1, <2>2, <2>3
<1>4. /\ One(Nth(<<>>, 1), f) = 0 /\ One(Nth(<<>>, 2), f) = 0
      /\ One(Nth(<<g>>, 1), f) = n /\ One(Nth(<<g>>, 2), f) = 0 /\ n \in Nat
  BY NthOf DEF One
<1>5. a \in Nat /\ a2 \in Nat /\ a2 + n = a + One(NONE, f)
  <2>1. /\ ofile'[p][fd] = NONE
        /\ \A q \in Proc : \A e \in Fd : q # p \/ e # fd => ofile'[q][e] = ofile[q][e]
    BY <1>2
  <2>2. a \in Nat /\ a2 \in Nat BY <2>1, OpenMoves
  <2>3. a2 + One(ofile[p][fd], f) = a + One(ofile'[p][fd], f) BY <2>1, OpenMoves
  <2> QED BY <2>1, <2>2, <2>3
<1>6. One(NONE, f) = 0 BY Constants DEF One
<1> HIDE DEF a, a2, b, c, n
<1>7. c = b + n BY <1>3, <1>4
<1>8. a2 + n = a BY <1>5, <1>6
<1> QED BY <1>1, <1>3, <1>4, <1>5, <1>7, <1>8

\* A descriptor more.
LEMMA DupCounts ==
  ASSUME FilesAssumption, IInv, NEW p \in Proc, NEW fd \in Fd, NEW g \in File,
         ofile[p][fd] = NONE, held' = held, ofile' = [ofile EXCEPT ![p][fd] = g],
         \A f \in File : ftable'[f].ref = ftable[f].ref + One(g, f)
  PROVE  FilesCounted'
<1> SUFFICES ASSUME NEW f \in File PROVE ftable'[f].ref = Refs(f)' BY DEF FilesCounted
<1> DEFINE a == Count(Places, Opened(ofile), f)
           a2 == Count(Places, Opened(ofile'), f)
           b == Count(Hands, InHand(held), f)
           n == One(g, f)
<1>1. ftable[f].ref = a + b /\ Refs(f)' = a2 + b BY RefsAre DEF IInv, FilesCounted
<1>2. ofile \in [Proc -> [Fd -> File \cup {NONE}]] BY DEF IInv, Typed, TypeOK
<1>3. a \in Nat /\ a2 \in Nat /\ a2 + One(NONE, f) = a + n
  <2>1. /\ ofile'[p][fd] = g
        /\ \A q \in Proc : \A e \in Fd : q # p \/ e # fd => ofile'[q][e] = ofile[q][e]
    BY <1>2
  <2>2. a \in Nat /\ a2 \in Nat BY <2>1, OpenMoves
  <2>3. a2 + One(ofile[p][fd], f) = a + One(ofile'[p][fd], f) BY <2>1, OpenMoves
  <2> QED BY <2>1, <2>2, <2>3
<1>4. One(NONE, f) = 0 /\ n \in Nat BY Constants DEF One
<1>5. b \in Nat BY FinitePlaces, CountSome
<1>6. ftable'[f].ref = ftable[f].ref + n OBVIOUS
<1> HIDE DEF a, a2, b, n
<1> QED BY <1>1, <1>3, <1>4, <1>5, <1>6

\* A file dropped from a hand.
LEMMA DropCounts ==
  ASSUME FilesAssumption, IInv, NEW p \in Proc, NEW g \in File,
         held[p] # <<>>, g = held[p][1], ofile' = ofile,
         held' = [held EXCEPT ![p] = Tail(held[p])],
         \A f \in File : ftable'[f].ref = ftable[f].ref - One(g, f)
  PROVE  FilesCounted'
<1> SUFFICES ASSUME NEW f \in File PROVE ftable'[f].ref = Refs(f)' BY DEF FilesCounted
<1> DEFINE a == Count(Places, Opened(ofile), f)
           b == Count(Hands, InHand(held), f)
           c == Count(Hands, InHand(held'), f)
           t == Tail(held[p])
           o1 == One(Nth(held[p], 1), f)
           o2 == One(Nth(held[p], 2), f)
           t1 == One(Nth(t, 1), f)
           t2 == One(Nth(t, 2), f)
           n == One(g, f)
<1>1. ftable[f].ref = a + b /\ Refs(f)' = a + c BY RefsAre DEF IInv, FilesCounted
<1>2. held \in [Proc -> Seq(File)] BY DEF IInv, Typed
<1>3. b \in Nat /\ c \in Nat /\ c + o1 + o2 = b + t1 + t2
  <2>1. held'[p] = t /\ \A q \in Proc : q # p => held'[q] = held[q] BY <1>2
  <2> HIDE DEF t
  <2>2. b \in Nat /\ c \in Nat BY <2>1, HandMoves
  <2>3. c + o1 + o2 = b + One(Nth(held'[p], 1), f) + One(Nth(held'[p], 2), f) BY <2>1, HandMoves
  <2> QED BY <2>1, <2>2, <2>3
<1>4. a \in Nat BY FinitePlaces, CountSome
<1>5. /\ \A x, y : One(x, y) \in Nat
      /\ o1 \in Nat /\ o2 \in Nat /\ t1 \in Nat /\ t2 \in Nat /\ n \in Nat
  BY DEF One
<1>6. o1 + o2 = t1 + t2 + n
  <2>1. ASSUME NEW x \in File, held[p] = <<x>> PROVE o1 + o2 = t1 + t2 + n
    <3>1. t = <<>> /\ g = x BY <2>1
    <3>2. o1 = n /\ o2 = 0 /\ t1 = 0 /\ t2 = 0 BY <2>1, <3>1, NthOf
    <3> QED BY <1>5, <3>2
  <2>2. ASSUME NEW x \in File, NEW y \in File, held[p] = <<x, y>> PROVE o1 + o2 = t1 + t2 + n
    <3>1. t = <<y>> /\ g = x
      <4>1. Tail(<<x, y>>) = <<y>> OBVIOUS
      <4> QED BY <2>2, <4>1
    <3> HIDE DEF t
    <3>2. o1 = n /\ o2 = One(y, f)
      <4>1. /\ One(Nth(<<x, y>>, 1), f) = One(x, f) /\ One(Nth(<<x, y>>, 2), f) = One(y, f) BY NthOf
      <4> QED BY <2>2, <3>1, <4>1
    <3>3. t1 = One(y, f) /\ t2 = 0 BY <3>1, NthOf
    <3> QED BY <1>5, <3>2, <3>3
  <2> QED BY <2>1, <2>2, HandsAre
<1>7. ftable'[f].ref = ftable[f].ref - n OBVIOUS
<1> HIDE DEF a, b, c, t, o1, o2, t1, t2, n
<1>8. c = b - n BY <1>3, <1>5, <1>6
<1> QED BY <1>1, <1>3, <1>4, <1>5, <1>7, <1>8

-----------------------------------------------------------------------------
(* What a step leaves as it was *)

\* Processes that a step does not touch.
LEMMA Untouched ==
  ASSUME FilesAssumption, IInv, NEW q \in Proc,
         pc'[q] = pc[q], arg'[q] = arg[q], todo'[q] = todo[q], ofile'[q] = ofile[q],
         \A fd \in Fd : ofile[q][fd] # NONE => SameKind(ofile[q][fd])
  PROVE  CallOK(q)'
BY DEF IInv, CallsOK, CallOK, Stands, SameKind

\* The ends of pipes and who stands for them.
LEMMA SameEnds ==
  ASSUME IInv, \A f \in File : SameKind(f),
         \A q \in Proc : /\ pc'[q] = "pipeclose" <=> pc[q] = "pipeclose"
                         /\ pc[q] = "pipeclose" => arg'[q] = arg[q]
  PROVE  /\ EndsOK'
         /\ \A k \in Pipe : \A w \in BOOLEAN : EndHeld(k, w)' <=> EndHeld(k, w)
<1>1. EndsOK'
  <2>1. \A k, w : \A f \in File : Stands(f, k, w)' <=> Stands(f, k, w) BY DEF Stands, SameKind
  <2>2. \A k, w : \A q \in Proc : Closing(q, k, w)' <=> Closing(q, k, w) BY DEF Closing
  <2> QED BY <2>1, <2>2 DEF IInv, EndsOK
<1>2. \A k \in Pipe : \A w \in BOOLEAN : EndHeld(k, w)' <=> EndHeld(k, w) BY DEF EndHeld, SameKind
<1> QED BY <1>1, <1>2

\* A pipe is used while somebody reads or writes it: the end is a file of his.
LEMMA StillLive ==
  ASSUME FilesAssumption, Typed', FilesOK', CallsOK',
         \A k \in Pipe : /\ pipes'[k].readopen <=> EndHeld(k, FALSE)'
                         /\ pipes'[k].writeopen <=> EndHeld(k, TRUE)'
                         /\ pipes'[k].used <=> (pipes'[k].readopen \/ pipes'[k].writeopen)
  PROVE  PipesLive'
<1>1. ASSUME NEW q \in Proc, pc'[q] \in {"piperead", "pipewrite"} PROVE pipes'[arg'[q].pipe].used
  <2>1. PICK fd \in Fd : /\ ofile'[q][fd] # NONE
                        /\ \/ Stands(ofile[q][fd], arg[q].pipe, FALSE)'
                           \/ Stands(ofile[q][fd], arg[q].pipe, TRUE)'
    BY <1>1 DEF CallsOK, CallOK
  <2>0. ofile' \in [Proc -> [Fd -> File \cup {NONE}]] BY DEF Typed, TypeOK
  <2>2. PICK f \in File : f = ofile'[q][fd] BY <2>0, <2>1
  <2>3. f \in File /\ ftable'[f].type = "PIPE" /\ ftable'[f].pipe = arg'[q].pipe
    BY <2>1, <2>2 DEF Stands
  <2>4. PICK k \in Pipe : k = arg'[q].pipe BY <2>3 DEF FilesOK
  <2>5. ftable'[f].writable = FALSE \/ ftable'[f].writable = TRUE BY <2>3 DEF Typed, FileRec
  <2>6. EndHeld(k, FALSE)' \/ EndHeld(k, TRUE)' BY <2>3, <2>4, <2>5 DEF EndHeld
  <2> QED BY <2>4, <2>6
<1>2. ASSUME NEW k \in Pipe
      PROVE  /\ pipes'[k].readopen = EndHeld(k, FALSE)' /\ pipes'[k].writeopen = EndHeld(k, TRUE)'
             /\ pipes'[k].used = (pipes'[k].readopen \/ pipes'[k].writeopen)
  BY DEF Typed, PipeRec, EndHeld
<1> QED BY <1>1, <1>2 DEF PipesLive

\* The parts of the invariant put together.
LEMMA Together ==
  ASSUME FilesAssumption, Typed', FilesOK', FilesCounted', EndsOK', LevelsOK',
         \A k \in Pipe : /\ pipes'[k].readopen <=> EndHeld(k, FALSE)'
                         /\ pipes'[k].writeopen <=> EndHeld(k, TRUE)'
                         /\ pipes'[k].used <=> (pipes'[k].readopen \/ pipes'[k].writeopen),
         \A q \in Proc : PlaceOK(q)' /\ CallOK(q)' /\ Awake(q)'
  PROVE  IInv'
<1>1. PlacesOK' /\ CallsOK' BY DEF PlacesOK, CallsOK
<1>2. PipesLive' BY <1>1, StillLive
<1>3. NoLostWakeup' BY DEF NoLostWakeup, Awake
<1> QED BY <1>1, <1>2, <1>3 DEF IInv

\* A step that leaves pipes, and what files are.
LEMMA KindsKept ==
  ASSUME FilesAssumption, IInv, Typed', pipes' = pipes, \A f \in File : SameKind(f),
         FilesOK', FilesCounted',
         \A q \in Proc : /\ PlaceOK(q)' /\ CallOK(q)' /\ Awake(q)'
                         /\ pc'[q] = "pipeclose" <=> pc[q] = "pipeclose"
                         /\ pc[q] = "pipeclose" => arg'[q] = arg[q]
  PROVE  IInv'
<1>1. EndsOK' /\ \A k \in Pipe : \A w \in BOOLEAN : EndHeld(k, w)' <=> EndHeld(k, w)
  BY SameEnds
<1>2. LevelsOK' BY DEF IInv, LevelsOK
<1>3. ASSUME NEW k \in Pipe
      PROVE  /\ pipes'[k].readopen <=> EndHeld(k, FALSE)'
             /\ pipes'[k].writeopen <=> EndHeld(k, TRUE)'
             /\ pipes'[k].used <=> (pipes'[k].readopen \/ pipes'[k].writeopen)
  BY <1>1 DEF IInv, PipesLive
<1> QED BY <1>1, <1>2, <1>3, Together

\* A step that moves processes and leaves files and pipes.
LEMMA Quiet ==
  ASSUME FilesAssumption, IInv, Typed', UNCHANGED <<ofile, held, ftable, pipes>>,
         \A q \in Proc : /\ PlaceOK(q)' /\ CallOK(q)' /\ Awake(q)'
                         /\ pc'[q] = "pipe" => pc[q] = "pipe"
                         /\ pc'[q] = "pipeclose" <=> pc[q] = "pipeclose"
                         /\ pc[q] = "pipeclose" => arg'[q] = arg[q]
  PROVE  IInv'
<1>1. FilesOK' BY DEF IInv, FilesOK
<1>2. FilesCounted' BY SameCounts DEF IInv
<1>3. \A f \in File : SameKind(f) BY DEF SameKind
<1> QED BY <1>1, <1>2, <1>3, KindsKept

-----------------------------------------------------------------------------
(* Steps that move processes *)

LEMMA InvCloseDone ==
  ASSUME FilesAssumption, IInv, NEW p \in Proc, CloseDone(p)
  PROVE  IInv'
<1>1. /\ At(p, "fileclose") /\ held[p] = <<>> /\ (leaving[p] => OpenFds(p) = {})
      /\ pc' = [pc EXCEPT ![p] = IF leaving[p] THEN "exit" ELSE "user"]
      /\ UNCHANGED <<procs, held, arg, todo, leaving, ofile, ftable, pipes, left>>
  BY DEF CloseDone, Go
<1>2. Typed' BY <1>1 DEF procs, IInv, Typed, TypeOK
<1>3. pc \in [Proc -> {"user", "pipe", "fileclose", "pipeclose", "piperead", "pipewrite",
                      "exit", "wait"}]
  BY DEF IInv, Typed, TypeOK
<1>4. ASSUME NEW q \in Proc
      PROVE  /\ PlaceOK(q)' /\ CallOK(q)' /\ Awake(q)'
             /\ pc'[q] = "pipe" => pc[q] = "pipe"
             /\ pc'[q] = "pipeclose" <=> pc[q] = "pipeclose"
             /\ pc[q] = "pipeclose" => arg'[q] = arg[q]
  <2>1. PlaceOK(q)' BY <1>1, <1>3 DEF IInv, PlacesOK, PlaceOK, At, OpenFds, procs
  <2>2. CallOK(q)' BY <1>1, <1>3 DEF IInv, CallsOK, CallOK, Stands
  <2>3. Awake(q)' BY <1>1, <1>3 DEF IInv, NoLostWakeup, Awake, At, procs
  <2> QED BY <1>1, <1>3, <2>1, <2>2, <2>3 DEF At
<1> QED BY <1>1, <1>2, <1>4, Quiet

LEMMA InvBeginExit ==
  ASSUME FilesAssumption, IInv, NEW p \in Proc, BeginExit(p)
  PROVE  IInv'
<1>1. /\ At(p, "user") /\ leaving' = [leaving EXCEPT ![p] = TRUE]
      /\ pc' = [pc EXCEPT ![p] = "fileclose"]
      /\ UNCHANGED <<procs, held, arg, todo, ofile, ftable, pipes, left>>
  BY DEF BeginExit, Go
<1>2. Typed' BY <1>1 DEF procs, IInv, Typed, TypeOK
<1>3. pc \in [Proc -> {"user", "pipe", "fileclose", "pipeclose", "piperead", "pipewrite",
                      "exit", "wait"}]
  BY DEF IInv, Typed, TypeOK
<1>4. ASSUME NEW q \in Proc
      PROVE  /\ PlaceOK(q)' /\ CallOK(q)' /\ Awake(q)'
             /\ pc'[q] = "pipe" => pc[q] = "pipe"
             /\ pc'[q] = "pipeclose" <=> pc[q] = "pipeclose"
             /\ pc[q] = "pipeclose" => arg'[q] = arg[q]
  <2>1. PlaceOK(q)' BY <1>1, <1>3 DEF IInv, PlacesOK, PlaceOK, At, procs
  <2>2. CallOK(q)' BY <1>1, <1>3 DEF IInv, CallsOK, CallOK, Stands
  <2>3. Awake(q)' BY <1>1, <1>3 DEF IInv, NoLostWakeup, Awake, At, procs
  <2> QED BY <1>1, <1>3, <2>1, <2>2, <2>3 DEF At
<1> QED BY <1>1, <1>2, <1>4, Quiet

\* A descriptor stands for an end of a pipe.
LEMMA Descriptor ==
  ASSUME FilesAssumption, IInv, NEW p \in Proc, NEW fd \in Fd, ofile[p][fd] # NONE
  PROVE  /\ ofile[p][fd] \in File /\ ftable[ofile[p][fd]].type = "PIPE"
         /\ ftable[ofile[p][fd]].pipe \in Pipe /\ ftable[ofile[p][fd]].ref > 0
         /\ ftable[ofile[p][fd]] \in FileRec
<1>1. ofile[p][fd] \in File BY DEF IInv, Typed, TypeOK
<1>2. ftable[ofile[p][fd]].type = "PIPE" BY DEF IInv, FilesOK
<1>3. ftable[ofile[p][fd]] \in FileRec BY <1>1 DEF IInv, Typed
<1> QED BY <1>1, <1>2, <1>3 DEF IInv, FilesOK

LEMMA InvRead ==
  ASSUME FilesAssumption, IInv, NEW p \in Proc, NEW fd \in Fd, Read(p, fd)
  PROVE  IInv'
<1> DEFINE ff == ftable[ofile[p][fd]]
<1>0. PICK n \in Reads : Enter(p, fd, FALSE, [i \in 1 .. n |-> NONE], "piperead") BY DEF Read
<1>1. PICK what : what = [i \in 1 .. n |-> NONE] OBVIOUS
<1>2. /\ At(p, "user") /\ ofile[p][fd] # NONE /\ ff.writable = FALSE
      /\ left.calls > 0 /\ left' = [left EXCEPT !.calls = left.calls - 1]
      /\ arg' = [arg EXCEPT ![p] = [pipe |-> ff.pipe, writable |-> FALSE]]
      /\ todo' = [todo EXCEPT ![p] = what] /\ pc' = [pc EXCEPT ![p] = "piperead"]
      /\ UNCHANGED <<procs, held, leaving, ofile, ftable, pipes>>
  BY <1>0, <1>1 DEF Enter, Go, User
<1>3. what \in Seq(Nat)
  <2>1. n \in Nat /\ NONE \in Nat BY DEF FilesAssumption, NONE
  <2> QED BY <1>1, <2>1
<1>4. ff.type = "PIPE" /\ ff.pipe \in Pipe /\ ofile[p][fd] \in File BY <1>2, Descriptor
<1>5. pc \in [Proc -> {"user", "pipe", "fileclose", "pipeclose", "piperead", "pipewrite",
                      "exit", "wait"}]
      /\ arg \in [Proc -> ArgRec] /\ left'.kills = left.kills
  BY <1>2 DEF IInv, Typed, TypeOK
<1>6. Typed'
  <2>1. arg' \in [Proc -> ArgRec] BY <1>2, <1>4, <1>5 DEF ArgRec
  <2>2. todo' \in [Proc -> Seq(Nat)] BY <1>2, <1>3 DEF IInv, Typed
  <2>3. left' \in [pipes : Nat, forks : Nat, calls : Nat, kills : BOOLEAN]
    <3>1. left \in [pipes : Nat, forks : Nat, calls : Nat, kills : BOOLEAN] BY DEF IInv, Typed
    <3>2. left.calls \in Nat /\ left.calls > 0 BY <1>2, <3>1
    <3>3. PICK c \in Nat : c = left.calls - 1 BY <3>2
    <3>4. left' = [left EXCEPT !.calls = c] BY <1>2, <3>3
    <3> QED BY <3>1, <3>4
  <2> QED BY <1>2, <2>1, <2>2, <2>3 DEF procs, IInv, Typed, TypeOK
<1>7. ASSUME NEW q \in Proc
      PROVE  /\ PlaceOK(q)' /\ CallOK(q)' /\ Awake(q)'
             /\ pc'[q] = "pipe" => pc[q] = "pipe"
             /\ pc'[q] = "pipeclose" <=> pc[q] = "pipeclose"
             /\ pc[q] = "pipeclose" => arg'[q] = arg[q]
  <2>1. PlaceOK(q)' BY <1>2, <1>5 DEF IInv, PlacesOK, PlaceOK, At, procs
  <2>2. CallOK(q)'
    <3>1. CASE q = p
      <4>1. pc'[p] = "piperead" /\ arg'[p].pipe = ff.pipe BY <1>2, <1>5
      <4>2. Stands(ofile[p][fd], arg[p].pipe, FALSE)' BY <1>2, <1>4, <1>5 DEF Stands
      <4> QED BY <1>2, <1>4, <1>5, <3>1, <4>1 DEF CallOK, Stands
    <3>2. CASE q # p BY <1>2, <1>5, <3>2, Untouched DEF SameKind
    <3> QED BY <3>1, <3>2
  <2>3. Awake(q)' BY <1>2, <1>5 DEF IInv, NoLostWakeup, Awake, At, procs
  <2> QED BY <1>2, <1>5, <2>1, <2>2, <2>3 DEF At
<1> QED BY <1>2, <1>6, <1>7, Quiet

LEMMA InvWrite ==
  ASSUME FilesAssumption, IInv, NEW p \in Proc, NEW fd \in Fd, Write(p, fd)
  PROVE  IInv'
<1> DEFINE ff == ftable[ofile[p][fd]]
<1>1. PICK bytes \in Writes : Enter(p, fd, TRUE, bytes, "pipewrite") BY DEF Write
<1>2. /\ At(p, "user") /\ ofile[p][fd] # NONE /\ ff.writable = TRUE
      /\ left.calls > 0 /\ left' = [left EXCEPT !.calls = left.calls - 1]
      /\ arg' = [arg EXCEPT ![p] = [pipe |-> ff.pipe, writable |-> TRUE]]
      /\ todo' = [todo EXCEPT ![p] = bytes] /\ pc' = [pc EXCEPT ![p] = "pipewrite"]
      /\ UNCHANGED <<procs, held, leaving, ofile, ftable, pipes>>
  BY <1>1 DEF Enter, Go, User
<1>3. bytes \in Seq(Nat) BY DEF FilesAssumption
<1>4. ff.type = "PIPE" /\ ff.pipe \in Pipe /\ ofile[p][fd] \in File BY <1>2, Descriptor
<1>5. pc \in [Proc -> {"user", "pipe", "fileclose", "pipeclose", "piperead", "pipewrite",
                      "exit", "wait"}]
      /\ arg \in [Proc -> ArgRec] /\ left'.kills = left.kills /\ todo \in [Proc -> Seq(Nat)]
  BY <1>2 DEF IInv, Typed, TypeOK
<1>6. Typed'
  <2>1. arg' \in [Proc -> ArgRec] BY <1>2, <1>4, <1>5 DEF ArgRec
  <2>2. todo' \in [Proc -> Seq(Nat)] BY <1>2, <1>3 DEF IInv, Typed
  <2>3. left' \in [pipes : Nat, forks : Nat, calls : Nat, kills : BOOLEAN]
    <3>1. left \in [pipes : Nat, forks : Nat, calls : Nat, kills : BOOLEAN] BY DEF IInv, Typed
    <3>2. left.calls \in Nat /\ left.calls > 0 BY <1>2, <3>1
    <3>3. PICK c \in Nat : c = left.calls - 1 BY <3>2
    <3>4. left' = [left EXCEPT !.calls = c] BY <1>2, <3>3
    <3> QED BY <3>1, <3>4
  <2> QED BY <1>2, <2>1, <2>2, <2>3 DEF procs, IInv, Typed, TypeOK
<1>7. ASSUME NEW q \in Proc
      PROVE  /\ PlaceOK(q)' /\ CallOK(q)' /\ Awake(q)'
             /\ pc'[q] = "pipe" => pc[q] = "pipe"
             /\ pc'[q] = "pipeclose" <=> pc[q] = "pipeclose"
             /\ pc[q] = "pipeclose" => arg'[q] = arg[q]
  <2>1. PlaceOK(q)' BY <1>2, <1>5 DEF IInv, PlacesOK, PlaceOK, At, procs
  <2>2. CallOK(q)'
    <3>1. CASE q = p
      <4>1. todo'[p] = SubSeq(bytes, 1, Len(bytes))
        <5>1. todo'[p] = bytes BY <1>2, <1>5
        <5>2. SubSeq(bytes, 1, Len(bytes)) = bytes BY <1>3
        <5> QED BY <5>1, <5>2
      <4>2. 1 \in 1 .. Len(bytes) + 1 BY <1>3
      <4>3. pc'[p] = "pipewrite" /\ ofile'[p][fd] # NONE /\ Stands(ofile[p][fd], arg[p].pipe, TRUE)'
        BY <1>2, <1>4, <1>5 DEF Stands
      <4> QED BY <3>1, <4>1, <4>2, <4>3 DEF CallOK
    <3>2. CASE q # p BY <1>2, <1>5, <3>2, Untouched DEF SameKind
    <3> QED BY <3>1, <3>2
  <2>3. Awake(q)' BY <1>2, <1>5 DEF IInv, NoLostWakeup, Awake, At, procs
  <2> QED BY <1>2, <1>5, <2>1, <2>2, <2>3 DEF At
<1> QED BY <1>2, <1>6, <1>7, Quiet

LEMMA InvPipeReadSleep ==
  ASSUME FilesAssumption, IInv, NEW p \in Proc, PipeReadSleep(p)
  PROVE  IInv'
<1> DEFINE k == pipes[arg[p].pipe]
<1>1. /\ At(p, "piperead") /\ Empty(k) /\ k.writeopen
      /\ UNCHANGED <<parent, killed, ofile, ftable, pipes, left, held, leaving>>
      /\ \/ /\ killed[p] /\ state' = state
            /\ arg' = [arg EXCEPT ![p] = NoArg] /\ todo' = [todo EXCEPT ![p] = <<>>]
            /\ pc' = [pc EXCEPT ![p] = "user"]
         \/ /\ ~killed[p] /\ state' = [state EXCEPT ![p] = "SLEEPING"]
            /\ UNCHANGED <<pc, arg, todo>>
  BY DEF PipeReadSleep, Return, Go, call
<1>2. /\ pc \in [Proc -> {"user", "pipe", "fileclose", "pipeclose", "piperead", "pipewrite",
                         "exit", "wait"}]
      /\ state \in [Proc -> {"UNUSED", "SLEEPING", "RUNNABLE", "ZOMBIE"}]
      /\ arg \in [Proc -> ArgRec] /\ todo \in [Proc -> Seq(Nat)]
  BY DEF IInv, Typed, TypeOK
<1>3. Typed'
  <2>1. NoArg \in ArgRec BY DEF NoArg, ArgRec
  <2>2. arg' \in [Proc -> ArgRec] BY <1>1, <2>1 DEF IInv, Typed
  <2>3. todo' \in [Proc -> Seq(Nat)]
    <3>1. <<>> \in Seq(Nat) OBVIOUS
    <3> QED BY <1>1, <3>1 DEF IInv, Typed
  <2> QED BY <1>1, <2>2, <2>3 DEF IInv, Typed, TypeOK
<1>4. ASSUME NEW q \in Proc
      PROVE  /\ PlaceOK(q)' /\ CallOK(q)' /\ Awake(q)'
             /\ pc'[q] = "pipe" => pc[q] = "pipe"
             /\ pc'[q] = "pipeclose" <=> pc[q] = "pipeclose"
             /\ pc[q] = "pipeclose" => arg'[q] = arg[q]
  <2>1. PlaceOK(q)' BY <1>1, <1>2 DEF IInv, PlacesOK, PlaceOK, At
  <2>2. CallOK(q)'
    <3>1. CASE pc' = [pc EXCEPT ![p] = "user"]
      <4>1. CASE q = p BY <1>2, <3>1, <4>1 DEF CallOK
      <4>2. CASE q # p BY <1>1, <1>2, <3>1, <4>2, Untouched DEF SameKind
      <4> QED BY <4>1, <4>2
    <3>2. CASE UNCHANGED <<pc, arg, todo>> BY <1>1, <3>2, Untouched DEF SameKind
    <3> QED BY <1>1, <3>1, <3>2
  <2>3. Awake(q)' BY <1>1, <1>2 DEF IInv, NoLostWakeup, Awake, At, Empty
  <2> QED BY <1>1, <1>2, <2>1, <2>2, <2>3 DEF At
<1> QED BY <1>1, <1>3, <1>4, Quiet

LEMMA InvKill ==
  ASSUME FilesAssumption, IInv, NEW p \in Proc, NEW r \in Proc, Kill(p, r)
  PROVE  IInv'
<1>1. /\ left.kills /\ state[r] \notin {"UNUSED", "ZOMBIE"}
      /\ killed' = [killed EXCEPT ![r] = TRUE]
      /\ state' = [q \in Proc |-> IF q = r THEN "RUNNABLE" ELSE state[q]]
      /\ UNCHANGED <<parent, pc, held, arg, todo, leaving, ofile, ftable, pipes, left>>
  BY DEF Kill, Wakeup, call
<1>2. Typed' BY <1>1 DEF IInv, Typed, TypeOK
<1>3. state \in [Proc -> {"UNUSED", "SLEEPING", "RUNNABLE", "ZOMBIE"}] /\ killed \in [Proc -> BOOLEAN]
  BY DEF IInv, Typed, TypeOK
<1>4. ASSUME NEW q \in Proc
      PROVE  /\ PlaceOK(q)' /\ CallOK(q)' /\ Awake(q)'
             /\ pc'[q] = "pipe" => pc[q] = "pipe"
             /\ pc'[q] = "pipeclose" <=> pc[q] = "pipeclose"
             /\ pc[q] = "pipeclose" => arg'[q] = arg[q]
  <2>1. PlaceOK(q)' BY <1>1, <1>3 DEF IInv, PlacesOK, PlaceOK
  <2>2. CallOK(q)' BY <1>1 DEF IInv, CallsOK, CallOK, Stands
  <2>3. Awake(q)' BY <1>1, <1>3 DEF IInv, NoLostWakeup, Awake
  <2> QED BY <1>1, <2>1, <2>2, <2>3
<1> QED BY <1>1, <1>2, <1>4, Quiet

LEMMA InvExit ==
  ASSUME FilesAssumption, IInv, NEW p \in Proc, Exit(p)
  PROVE  IInv'
<1>1. PICK S \in SUBSET Proc :
        /\ At(p, "exit") /\ \A q \in S : state[q] = "SLEEPING"
        /\ state' = [q \in Proc |-> IF q = p THEN "ZOMBIE" ELSE IF q \in S THEN "RUNNABLE" ELSE state[q]]
  <2>1. PICK T : state' = [Wakeup(Waiters(T)) EXCEPT ![p] = "ZOMBIE"] BY DEF Exit
  <2> DEFINE S == Waiters(T) \cap Proc
  <2>2. S \in SUBSET Proc /\ \A q \in S : state[q] = "SLEEPING" BY DEF Waiters
  <2>3. state' = [q \in Proc |-> IF q = p THEN "ZOMBIE" ELSE IF q \in S THEN "RUNNABLE" ELSE state[q]]
    BY <2>1 DEF Wakeup
  <2> QED BY <2>2, <2>3 DEF Exit
<1>2. UNCHANGED <<killed, pc, held, arg, todo, leaving, ofile, ftable, pipes, left>> BY DEF Exit, call
<1>3. parent' \in [Proc -> Proc \cup {NONE}]
  <2>1. parent \in [Proc -> Proc \cup {NONE}] BY DEF IInv, Typed, TypeOK
  <2>2. parent' = [q \in Proc |-> IF q \in Children(p) THEN initproc ELSE parent[q]] BY DEF Exit
  <2> QED BY <2>1, <2>2, Constants
<1>4. state \in [Proc -> {"UNUSED", "SLEEPING", "RUNNABLE", "ZOMBIE"}] BY DEF IInv, Typed, TypeOK
<1>5. Typed'
  <2>1. state' \in [Proc -> {"UNUSED", "SLEEPING", "RUNNABLE", "ZOMBIE"}] BY <1>1, <1>4
  <2> QED BY <1>2, <1>3, <2>1 DEF IInv, Typed, TypeOK
<1>6. ASSUME NEW q \in Proc
      PROVE  /\ PlaceOK(q)' /\ CallOK(q)' /\ Awake(q)'
             /\ pc'[q] = "pipe" => pc[q] = "pipe"
             /\ pc'[q] = "pipeclose" <=> pc[q] = "pipeclose"
             /\ pc[q] = "pipeclose" => arg'[q] = arg[q]
  <2>1. PlaceOK(q)' BY <1>1, <1>2, <1>4 DEF IInv, PlacesOK, PlaceOK, At
  <2>2. CallOK(q)' BY <1>2 DEF IInv, CallsOK, CallOK, Stands
  <2>3. Awake(q)' BY <1>1, <1>2, <1>4 DEF IInv, NoLostWakeup, Awake
  <2> QED BY <1>2, <2>1, <2>2, <2>3
<1> QED BY <1>2, <1>5, <1>6, Quiet

LEMMA InvWait ==
  ASSUME FilesAssumption, IInv, NEW p \in Proc, Wait(p)
  PROVE  IInv'
<1>0. /\ state[p] = "RUNNABLE" /\ pc[p] \in {"user", "wait"}
      /\ UNCHANGED <<held, arg, todo, ofile, ftable, pipes, left>>
  BY DEF Wait, User, At
<1>1. /\ pc \in [Proc -> {"user", "pipe", "fileclose", "pipeclose", "piperead", "pipewrite",
                         "exit", "wait"}]
      /\ state \in [Proc -> {"UNUSED", "SLEEPING", "RUNNABLE", "ZOMBIE"}]
      /\ killed \in [Proc -> BOOLEAN] /\ parent \in [Proc -> Proc \cup {NONE}]
      /\ leaving \in [Proc -> BOOLEAN]
  BY DEF IInv, Typed, TypeOK
<1>2. CASE Zombies(p) # {}
  <2>1. PICK z \in Proc : z = Least(Zombies(p)) /\ state[z] = "ZOMBIE"
    <3>1. Zombies(p) \in SUBSET Nat BY Constants DEF Zombies, Children
    <3>2. Least(Zombies(p)) \in Zombies(p) BY <1>2, <3>1, LeastIn
    <3> QED BY <3>2 DEF Zombies, Children
  <2>2. /\ state' = [state EXCEPT ![z] = "UNUSED"]
        /\ parent' = [parent EXCEPT ![z] = NONE]
        /\ killed' = [killed EXCEPT ![z] = FALSE]
        /\ leaving' = [leaving EXCEPT ![z] = FALSE]
        /\ pc' = [pc EXCEPT ![p] = "user", ![z] = "user"]
    BY <1>2, <2>1 DEF Wait
  <2>3. pc[z] = "exit" /\ z # p BY <1>0, <2>1 DEF IInv, PlacesOK, PlaceOK
  <2>4. Typed'
    <3>1. TypeOK' BY <1>0, <1>1, <2>2 DEF IInv, Typed, TypeOK
    <3> QED BY <1>0, <1>1, <2>2, <3>1 DEF IInv, Typed
  <2>5. ASSUME NEW q \in Proc
        PROVE  /\ PlaceOK(q)' /\ CallOK(q)' /\ Awake(q)'
               /\ pc'[q] = "pipe" => pc[q] = "pipe"
               /\ pc'[q] = "pipeclose" <=> pc[q] = "pipeclose"
               /\ pc[q] = "pipeclose" => arg'[q] = arg[q]
    <3>1. PlaceOK(q)' BY <1>0, <1>1, <2>2, <2>3 DEF IInv, PlacesOK, PlaceOK
    <3>2. CallOK(q)' BY <1>0, <1>1, <2>2, <2>3 DEF IInv, CallsOK, CallOK, Stands
    <3>3. Awake(q)' BY <1>0, <1>1, <2>2 DEF IInv, NoLostWakeup, Awake
    <3> QED BY <1>0, <1>1, <2>2, <2>3, <3>1, <3>2, <3>3
  <2> QED BY <1>0, <2>4, <2>5, Quiet
<1>3. CASE Zombies(p) = {}
  <2>1. /\ UNCHANGED <<parent, killed, leaving>>
        /\ \/ pc' = [pc EXCEPT ![p] = "user"] /\ state' = state
           \/ /\ pc' = [pc EXCEPT ![p] = "wait"] /\ state' = [state EXCEPT ![p] = "SLEEPING"]
              /\ ~killed[p]
    BY <1>3 DEF Wait, Go
  <2>2. Typed'
    <3>1. TypeOK' BY <1>0, <1>1, <2>1 DEF IInv, Typed, TypeOK
    <3> QED BY <1>0, <1>1, <2>1, <3>1 DEF IInv, Typed
  <2>3. ASSUME NEW q \in Proc
        PROVE  /\ PlaceOK(q)' /\ CallOK(q)' /\ Awake(q)'
               /\ pc'[q] = "pipe" => pc[q] = "pipe"
               /\ pc'[q] = "pipeclose" <=> pc[q] = "pipeclose"
               /\ pc[q] = "pipeclose" => arg'[q] = arg[q]
    <3>1. PlaceOK(q)' BY <1>0, <1>1, <2>1 DEF IInv, PlacesOK, PlaceOK
    <3>2. CallOK(q)' BY <1>0, <1>1, <2>1 DEF IInv, CallsOK, CallOK, Stands
    <3>3. Awake(q)' BY <1>0, <1>1, <2>1 DEF IInv, NoLostWakeup, Awake
    <3> QED BY <1>0, <1>1, <2>1, <3>1, <3>2, <3>3
  <2> QED BY <1>0, <2>2, <2>3, Quiet
<1> QED BY <1>2, <1>3

-----------------------------------------------------------------------------
(* Steps on descriptors *)

\* The count of a file is set.
LEMMA RefSet ==
  ASSUME ftable \in [File -> FileRec], NEW g \in File, NEW r \in Nat,
         ftable' = [ftable EXCEPT ![g].ref = r]
  PROVE  /\ ftable' \in [File -> FileRec]
         /\ \A f \in File : SameKind(f) /\ ftable'[f].ref = IF f = g THEN r ELSE ftable[f].ref
<1>1. \A f \in File : ftable[f] \in FileRec OBVIOUS
<1>2. ftable' = [f \in File |-> IF f = g THEN [ftable[g] EXCEPT !.ref = r] ELSE ftable[f]] OBVIOUS
<1>3. [ftable[g] EXCEPT !.ref = r] \in FileRec BY <1>1 DEF FileRec
<1>4. ftable' \in [File -> FileRec] BY <1>1, <1>2, <1>3
<1>5. \A f \in File : SameKind(f) /\ ftable'[f].ref = IF f = g THEN r ELSE ftable[f].ref
  BY <1>1, <1>2 DEF SameKind, FileRec
<1> QED BY <1>4, <1>5

\* A descriptor goes into the hand that closes its file.
LEMMA InvGiveUp ==
  ASSUME FilesAssumption, IInv, NEW p \in Proc, NEW fd \in Fd, state[p] = "RUNNABLE",
         pc[p] \in {"user", "fileclose"}, held[p] = <<>>, ofile[p][fd] # NONE,
         held' = [held EXCEPT ![p] = <<ofile[p][fd]>>],
         ofile' = [ofile EXCEPT ![p][fd] = NONE],
         pc' = [pc EXCEPT ![p] = "fileclose"],
         UNCHANGED <<procs, arg, todo, leaving, ftable, pipes, left>>
  PROVE  IInv'
<1>1. /\ pc \in [Proc -> {"user", "pipe", "fileclose", "pipeclose", "piperead", "pipewrite",
                         "exit", "wait"}]
      /\ ofile \in [Proc -> [Fd -> File \cup {NONE}]] /\ held \in [Proc -> Seq(File)]
  BY DEF IInv, Typed, TypeOK
<1>2. PICK g \in File : g = ofile[p][fd] BY Descriptor
<1>3. <<g>> \in Seq(File) /\ Len(<<g>>) = 1 OBVIOUS
<1>4. held' = [held EXCEPT ![p] = <<g>>] BY <1>2
<1>5. Typed'
  <2>1. held' \in [Proc -> Seq(File)] BY <1>1, <1>3, <1>4
  <2>2. ofile' \in [Proc -> [Fd -> File \cup {NONE}]] BY <1>1
  <2>3. TypeOK' BY <2>2 DEF IInv, Typed, TypeOK, procs
  <2> QED BY <2>1, <2>3 DEF IInv, Typed
<1>6. FilesCounted' BY <1>2, <1>4, GiveUpCounts
<1>7. FilesOK' BY <1>1 DEF IInv, FilesOK
<1>8. ASSUME NEW q \in Proc
      PROVE  /\ PlaceOK(q)' /\ CallOK(q)' /\ Awake(q)'
             /\ pc'[q] = "pipeclose" <=> pc[q] = "pipeclose"
             /\ pc[q] = "pipeclose" => arg'[q] = arg[q]
  <2>1. PlaceOK(q)'
    <3>1. CASE q = p
      <4>1. held'[p] = <<g>> /\ pc'[p] = "fileclose" /\ state'[p] = "RUNNABLE"
        BY <1>1, <1>4 DEF procs
      <4>2. killed'[p] => left'.kills BY DEF IInv, PlacesOK, PlaceOK, procs
      <4> QED BY <1>3, <3>1, <4>1, <4>2 DEF PlaceOK
    <3>2. CASE q # p BY <1>1, <3>2 DEF IInv, PlacesOK, PlaceOK, procs
    <3> QED BY <3>1, <3>2
  <2>2. CallOK(q)'
    <3>1. CASE q = p BY <1>1, <3>1 DEF CallOK
    <3>2. CASE q # p BY <1>1, <3>2, Untouched DEF SameKind
    <3> QED BY <3>1, <3>2
  <2>3. Awake(q)' BY <1>1 DEF IInv, NoLostWakeup, Awake, procs
  <2> QED BY <1>1, <2>1, <2>2, <2>3
<1>9. \A f \in File : SameKind(f) BY DEF SameKind
<1> QED BY <1>5, <1>6, <1>7, <1>8, <1>9, KindsKept

LEMMA InvClose ==
  ASSUME FilesAssumption, IInv, NEW p \in Proc, NEW fd \in Fd, Close(p, fd)
  PROVE  IInv'
<1>1. state[p] = "RUNNABLE" /\ pc[p] = "user" BY DEF Close, User, At
<1>2. held[p] = <<>> BY <1>1, Hand
<1>3. /\ held' = [held EXCEPT ![p] = <<ofile[p][fd]>>] /\ ofile' = [ofile EXCEPT ![p][fd] = NONE]
      /\ pc' = [pc EXCEPT ![p] = "fileclose"] /\ ofile[p][fd] # NONE
      /\ UNCHANGED <<procs, arg, todo, leaving, ftable, pipes, left>>
  BY DEF Close, Go
<1> QED BY <1>1, <1>2, <1>3, InvGiveUp

LEMMA InvCloseNext ==
  ASSUME FilesAssumption, IInv, NEW p \in Proc, CloseNext(p)
  PROVE  IInv'
<1>1. PICK fd \in Fd : fd = Least(OpenFds(p)) /\ ofile[p][fd] # NONE
  <2>1. OpenFds(p) \in SUBSET Nat /\ OpenFds(p) # {} BY Constants DEF OpenFds, CloseNext
  <2>2. Least(OpenFds(p)) \in OpenFds(p) BY <2>1, LeastIn
  <2> QED BY <2>2 DEF OpenFds
<1>2. state[p] = "RUNNABLE" /\ pc[p] = "fileclose" /\ held[p] = <<>> BY DEF CloseNext, At
<1>3. pc' = [pc EXCEPT ![p] = "fileclose"] BY <1>2 DEF IInv, Typed, TypeOK, CloseNext
<1>4. /\ held' = [held EXCEPT ![p] = <<ofile[p][fd]>>] /\ ofile' = [ofile EXCEPT ![p][fd] = NONE]
      /\ UNCHANGED <<procs, arg, todo, leaving, ftable, pipes, left>>
  BY <1>1 DEF CloseNext
<1> QED BY <1>1, <1>2, <1>3, <1>4, InvGiveUp

LEMMA InvDup ==
  ASSUME FilesAssumption, IInv, NEW p \in Proc, NEW fd \in Fd, Dup(p, fd)
  PROVE  IInv'
<1>1. PICK nfd \in Fd : nfd = Least(FreeFds(p)) /\ ofile[p][nfd] = NONE
  <2>1. FreeFds(p) \in SUBSET Nat /\ FreeFds(p) # {} BY Constants DEF FreeFds, Dup
  <2>2. Least(FreeFds(p)) \in FreeFds(p) BY <2>1, LeastIn
  <2> QED BY <2>2 DEF FreeFds
<1>2. PICK g \in File : g = ofile[p][fd] BY Descriptor DEF Dup
<1>3. /\ state[p] = "RUNNABLE" /\ pc[p] = "user" /\ left.calls > 0
      /\ left' = [left EXCEPT !.calls = left.calls - 1]
      /\ ofile' = [ofile EXCEPT ![p][nfd] = g]
      /\ ftable' = [ftable EXCEPT ![g].ref = ftable[g].ref + 1]
      /\ UNCHANGED <<state, parent, killed, pc, held, arg, todo, leaving, pipes>>
  BY <1>1, <1>2 DEF Dup, User, At, procs, call
<1>4. /\ ofile \in [Proc -> [Fd -> File \cup {NONE}]] /\ ftable \in [File -> FileRec]
  BY DEF IInv, Typed, TypeOK
<1>5. ftable[g].type = "PIPE" /\ ftable[g] \in FileRec /\ ftable[g].ref \in Nat
  <2>1. ftable[g] \in FileRec BY <1>4
  <2> QED BY <1>2, <2>1, Descriptor DEF Dup, FileRec
<1>6. /\ ftable' \in [File -> FileRec]
      /\ \A f \in File : /\ SameKind(f)
                         /\ ftable'[f].ref = IF f = g THEN ftable[g].ref + 1 ELSE ftable[f].ref
  <2>1. PICK r \in Nat : r = ftable[g].ref + 1 BY <1>5
  <2>2. ftable' = [ftable EXCEPT ![g].ref = r] BY <1>3, <2>1
  <2> QED BY <1>4, <2>1, <2>2, RefSet
<1>7. /\ left' \in [pipes : Nat, forks : Nat, calls : Nat, kills : BOOLEAN]
      /\ left'.kills = left.kills
  <2>1. left \in [pipes : Nat, forks : Nat, calls : Nat, kills : BOOLEAN] BY DEF IInv, Typed
  <2>2. left.calls \in Nat /\ left.calls > 0 BY <1>3, <2>1
  <2>3. PICK c \in Nat : c = left.calls - 1 BY <2>2
  <2>4. left' = [left EXCEPT !.calls = c] BY <1>3, <2>3
  <2> QED BY <2>1, <2>4
<1>8. ofile' \in [Proc -> [Fd -> File \cup {NONE}]] BY <1>3, <1>4
<1>9. \A f \in File : ftable'[f] \in FileRec /\ ftable'[f].ref \in Nat /\ ftable'[f].pipe \in Pipe \cup {NONE}
  BY <1>6 DEF FileRec
<1>10. Typed'
  <2>1. TypeOK' BY <1>3, <1>8, <1>9 DEF IInv, Typed, TypeOK
  <2> QED BY <1>3, <1>6, <1>7, <2>1 DEF IInv, Typed
<1>11. \A f \in File : SameKind(f) /\ ftable'[f].ref = ftable[f].ref + One(g, f)
  BY <1>4, <1>6 DEF One, FileRec
<1>12. FilesCounted' BY <1>1, <1>3, <1>11, DupCounts
<1>13. FilesOK'
  <2>1. ASSUME NEW f \in File, ftable'[f].type = "PIPE" PROVE ftable'[f].ref > 0 /\ ftable'[f].pipe \in Pipe
    <3>1. ftable[f].type = "PIPE" BY <1>11, <2>1 DEF SameKind
    <3>2. ftable[f].ref > 0 /\ ftable[f].ref \in Nat /\ ftable[f].pipe \in Pipe
      BY <1>4, <3>1 DEF IInv, FilesOK, FileRec
    <3>3. One(g, f) \in Nat BY DEF One
    <3> QED BY <1>11, <3>2, <3>3 DEF SameKind
  <2>2. ASSUME NEW q \in Proc, NEW e \in Fd, ofile'[q][e] # NONE
        PROVE  ftable'[ofile'[q][e]].type = "PIPE"
    <3>1. ofile'[q][e] = g \/ ofile'[q][e] = ofile[q][e] BY <1>3, <1>4
    <3>2. ftable[ofile'[q][e]].type = "PIPE" BY <1>5, <2>2, <3>1 DEF IInv, FilesOK
    <3>3. ofile'[q][e] \in File BY <1>8, <2>2
    <3> QED BY <1>11, <3>2, <3>3 DEF SameKind
  <2>3. ASSUME NEW q \in Proc, pc'[q] = "pipe"
        PROVE  ftable'[held'[q][1]].ref = 1 /\ ftable'[held'[q][1]].type = "NONE"
    <3>1. PICK h \in File : held[q] = <<h>> BY <1>3, <2>3, Hand
    <3>2. h = held[q][1] BY <3>1
    <3>3. ftable[h].ref = 1 /\ ftable[h].type = "NONE" BY <1>3, <2>3, <3>2 DEF IInv, FilesOK
    <3>4. h # g BY <1>5, <3>3
    <3>5. ftable'[h] = ftable[h] BY <1>3, <1>4, <3>4
    <3> QED BY <1>3, <3>2, <3>3, <3>5
  <2> QED BY <2>1, <2>2, <2>3 DEF FilesOK
<1>14. ASSUME NEW q \in Proc
       PROVE  /\ PlaceOK(q)' /\ CallOK(q)' /\ Awake(q)'
              /\ pc'[q] = "pipeclose" <=> pc[q] = "pipeclose"
              /\ pc[q] = "pipeclose" => arg'[q] = arg[q]
  <2>1. PlaceOK(q)' BY <1>3, <1>4, <1>7 DEF IInv, PlacesOK, PlaceOK
  <2>2. CallOK(q)'
    <3>1. CASE q = p BY <1>3, <3>1 DEF CallOK
    <3>2. CASE q # p
      <4>1. ofile'[q] = ofile[q] BY <1>3, <1>4, <3>2
      <4>2. \A e \in Fd : ofile[q][e] # NONE => ofile[q][e] \in File BY <1>4
      <4> QED BY <1>3, <1>11, <4>1, <4>2, Untouched
    <3> QED BY <3>1, <3>2
  <2>3. Awake(q)' BY <1>3, <1>7 DEF IInv, NoLostWakeup, Awake
  <2> QED BY <1>3, <2>1, <2>2, <2>3
<1> QED BY <1>3, <1>10, <1>11, <1>12, <1>13, <1>14, KindsKept

\* pipe() takes a slot of ftable.
LEMMA FreeSlot ==
  ASSUME FilesAssumption, IInv, FreeFiles # {}
  PROVE  \E g \in File : /\ g = Least(FreeFiles) /\ ftable[g].ref = 0 /\ ftable[g].type = "NONE"
                         /\ ftable[g] \in FileRec
<1>1. FreeFiles \in SUBSET Nat BY Constants DEF FreeFiles
<1>2. PICK g : g = Least(FreeFiles) /\ g \in FreeFiles BY <1>1, LeastIn
<1>3. g \in File /\ ftable[g].ref = 0 BY <1>2 DEF FreeFiles
<1>4. ftable[g] \in FileRec BY <1>3 DEF IInv, Typed
<1>5. ftable[g].type # "PIPE" BY <1>3 DEF IInv, FilesOK
<1>6. ftable[g].type = "NONE" BY <1>4, <1>5 DEF FileRec
<1> QED BY <1>2, <1>3, <1>4, <1>6

LEMMA InvPipeFirst ==
  ASSUME FilesAssumption, IInv, NEW p \in Proc, PipeFirst(p)
  PROVE  IInv'
<1>1. PICK g \in File : /\ g = Least(FreeFiles) /\ ftable[g].ref = 0 /\ ftable[g].type = "NONE"
                        /\ ftable[g] \in FileRec
  BY FreeSlot DEF PipeFirst
<1>2. /\ state[p] = "RUNNABLE" /\ pc[p] = "user" /\ left.pipes > 0
      /\ ftable' = [ftable EXCEPT ![g].ref = 1]
      /\ held' = [held EXCEPT ![p] = <<g>>]
      /\ left' = [left EXCEPT !.pipes = left.pipes - 1]
      /\ pc' = [pc EXCEPT ![p] = "pipe"]
      /\ UNCHANGED <<state, parent, killed, arg, todo, leaving, ofile, pipes>>
  BY <1>1 DEF PipeFirst, User, At, Go, procs
<1>3. /\ pc \in [Proc -> {"user", "pipe", "fileclose", "pipeclose", "piperead", "pipewrite",
                         "exit", "wait"}]
      /\ ftable \in [File -> FileRec] /\ held \in [Proc -> Seq(File)]
      /\ ofile \in [Proc -> [Fd -> File \cup {NONE}]]
  BY DEF IInv, Typed, TypeOK
<1>4. /\ ftable' \in [File -> FileRec]
      /\ \A f \in File : /\ SameKind(f) /\ ftable'[f].ref = IF f = g THEN 1 ELSE ftable[f].ref
                         /\ ftable'[f] \in FileRec /\ ftable[f].ref \in Nat
                         /\ ftable'[f].ref = ftable[f].ref + One(g, f)
  <2>1. PICK r \in Nat : r = 1 OBVIOUS
  <2>2. ftable' = [ftable EXCEPT ![g].ref = r] BY <1>2, <2>1
  <2>3. /\ ftable' \in [File -> FileRec]
        /\ \A f \in File : SameKind(f) /\ ftable'[f].ref = IF f = g THEN r ELSE ftable[f].ref
    BY <1>3, <2>2, RefSet
  <2>4. \A f \in File : ftable[f].ref \in Nat /\ ftable'[f] \in FileRec BY <1>3, <2>3 DEF FileRec
  <2>5. ASSUME NEW f \in File PROVE ftable'[f].ref = ftable[f].ref + One(g, f)
    BY <1>1, <2>1, <2>3, <2>4 DEF One
  <2> QED BY <2>1, <2>3, <2>4, <2>5
<1>5. /\ left' \in [pipes : Nat, forks : Nat, calls : Nat, kills : BOOLEAN]
      /\ left'.kills = left.kills
  <2>1. left \in [pipes : Nat, forks : Nat, calls : Nat, kills : BOOLEAN] BY DEF IInv, Typed
  <2>2. left.pipes \in Nat /\ left.pipes > 0 BY <1>2, <2>1
  <2>3. PICK c \in Nat : c = left.pipes - 1 BY <2>2
  <2>4. left' = [left EXCEPT !.pipes = c] BY <1>2, <2>3
  <2> QED BY <2>1, <2>4
<1>6. <<g>> \in Seq(File) /\ Len(<<g>>) = 1 OBVIOUS
<1>7. Typed'
  <2>1. held' \in [Proc -> Seq(File)] BY <1>2, <1>3, <1>6
  <2>2. \A f \in File : ftable'[f].ref \in Nat /\ ftable'[f].pipe \in Pipe \cup {NONE}
    BY <1>4 DEF FileRec
  <2>3. TypeOK' BY <1>2, <2>2 DEF IInv, Typed, TypeOK
  <2> QED BY <1>2, <1>4, <1>5, <2>1, <2>3 DEF IInv, Typed
<1>8. held[p] = <<>> BY <1>2, Hand
<1>9. FilesCounted'
  <2>1. Append(held[p], g) = <<g>> BY <1>8
  <2>2. held' = [held EXCEPT ![p] = Append(held[p], g)] BY <1>2, <2>1
  <2> QED BY <1>2, <1>4, <1>8, <2>2, TakeCounts
<1>10. FilesOK'
  <2>1. ASSUME NEW f \in File, ftable'[f].type = "PIPE" PROVE ftable'[f].ref > 0 /\ ftable'[f].pipe \in Pipe
    <3>1. ftable[f].type = "PIPE" /\ f # g BY <1>1, <1>4, <2>1 DEF SameKind
    <3> QED BY <1>4, <3>1 DEF IInv, FilesOK, SameKind
  <2>2. ASSUME NEW q \in Proc, NEW e \in Fd, ofile'[q][e] # NONE
        PROVE  ftable'[ofile'[q][e]].type = "PIPE"
    <3>1. ofile[q][e] \in File /\ ftable[ofile[q][e]].type = "PIPE" BY <1>2, <2>2, Descriptor
    <3> QED BY <1>2, <1>4, <3>1 DEF SameKind
  <2>3. ASSUME NEW q \in Proc, pc'[q] = "pipe"
        PROVE  ftable'[held'[q][1]].ref = 1 /\ ftable'[held'[q][1]].type = "NONE"
    <3>1. CASE q = p
      <4>1. held'[q][1] = g BY <1>2, <1>3, <3>1
      <4> QED BY <1>1, <1>4, <4>1 DEF SameKind
    <3>2. CASE q # p
      <4>1. pc[q] = "pipe" BY <1>2, <1>3, <2>3, <3>2
      <4>2. PICK h \in File : held[q] = <<h>> BY <4>1, Hand
      <4>3. h = held[q][1] BY <4>2
      <4>4. ftable[h].ref = 1 /\ ftable[h].type = "NONE" BY <4>1, <4>3 DEF IInv, FilesOK
      <4>5. h # g BY <1>1, <4>4
      <4>6. held'[q][1] = h BY <1>2, <1>3, <3>2, <4>3
      <4> QED BY <1>4, <4>4, <4>5, <4>6 DEF SameKind
    <3> QED BY <3>1, <3>2
  <2> QED BY <2>1, <2>2, <2>3 DEF FilesOK
<1>11. ASSUME NEW q \in Proc
       PROVE  /\ PlaceOK(q)' /\ CallOK(q)' /\ Awake(q)'
              /\ pc'[q] = "pipeclose" <=> pc[q] = "pipeclose"
              /\ pc[q] = "pipeclose" => arg'[q] = arg[q]
  <2>1. PlaceOK(q)'
    <3>1. CASE q = p
      <4>1. held'[p] = <<g>> /\ pc'[p] = "pipe" /\ state'[p] = "RUNNABLE" BY <1>2, <1>3
      <4>2. killed'[p] => left'.kills BY <1>2, <1>5 DEF IInv, PlacesOK, PlaceOK
      <4> QED BY <1>6, <3>1, <4>1, <4>2 DEF PlaceOK
    <3>2. CASE q # p BY <1>2, <1>3, <1>5, <3>2 DEF IInv, PlacesOK, PlaceOK
    <3> QED BY <3>1, <3>2
  <2>2. CallOK(q)'
    <3>1. CASE q = p BY <1>2, <1>3, <3>1 DEF CallOK
    <3>2. CASE q # p
      <4>1. \A e \in Fd : ofile[q][e] # NONE => ofile[q][e] \in File BY <1>3
      <4> QED BY <1>2, <1>3, <1>4, <3>2, <4>1, Untouched
    <3> QED BY <3>1, <3>2
  <2>3. Awake(q)' BY <1>2, <1>3, <1>5 DEF IInv, NoLostWakeup, Awake
  <2> QED BY <1>2, <1>3, <2>1, <2>2, <2>3
<1> QED BY <1>2, <1>4, <1>7, <1>9, <1>10, <1>11, KindsKept

LEMMA InvPipeFails ==
  ASSUME FilesAssumption, IInv, NEW p \in Proc, PipeFails(p)
  PROVE  IInv'
<1>1. /\ state[p] = "RUNNABLE" /\ pc[p] = "pipe" /\ pc' = [pc EXCEPT ![p] = "fileclose"]
      /\ UNCHANGED <<state, parent, killed, arg, todo, leaving, ofile, pipes, left>>
  BY DEF PipeFails, At, Go, procs
<1>2. /\ pc \in [Proc -> {"user", "pipe", "fileclose", "pipeclose", "piperead", "pipewrite",
                         "exit", "wait"}]
      /\ ftable \in [File -> FileRec] /\ held \in [Proc -> Seq(File)]
      /\ ofile \in [Proc -> [Fd -> File \cup {NONE}]]
  BY DEF IInv, Typed, TypeOK
<1>3. PICK x \in File : held[p] = <<x>> BY <1>1, Hand
<1>4. CASE UNCHANGED <<held, ftable>>
  <2>1. Typed' BY <1>1, <1>4 DEF IInv, Typed, TypeOK
  <2>2. ASSUME NEW q \in Proc
        PROVE  /\ PlaceOK(q)' /\ CallOK(q)' /\ Awake(q)'
               /\ pc'[q] = "pipe" => pc[q] = "pipe"
               /\ pc'[q] = "pipeclose" <=> pc[q] = "pipeclose"
               /\ pc[q] = "pipeclose" => arg'[q] = arg[q]
    <3>1. PlaceOK(q)' BY <1>1, <1>2, <1>4 DEF IInv, PlacesOK, PlaceOK
    <3>2. CallOK(q)' BY <1>1, <1>2, <1>4 DEF IInv, CallsOK, CallOK, Stands
    <3>3. Awake(q)' BY <1>1, <1>2 DEF IInv, NoLostWakeup, Awake
    <3> QED BY <1>1, <1>2, <3>1, <3>2, <3>3
  <2> QED BY <1>1, <1>4, <2>1, <2>2, Quiet
<1>5. CASE FreeFiles # {} /\ ~ UNCHANGED <<held, ftable>>
  <2>1. PICK g \in File : /\ g = Least(FreeFiles) /\ ftable[g].ref = 0 /\ ftable[g].type = "NONE"
                          /\ ftable[g] \in FileRec
    BY <1>5, FreeSlot
  <2>2. /\ ftable' = [ftable EXCEPT ![g].ref = 1]
        /\ held' = [held EXCEPT ![p] = Append(held[p], g)]
    BY <1>5, <2>1 DEF PipeFails
  <2>3. Append(held[p], g) = <<x, g>> /\ <<x, g>> \in Seq(File) /\ Len(<<x, g>>) = 2
    <3>1. Append(<<x>>, g) = <<x, g>> BY Pair
    <3>2. <<x, g>> \in Seq(File) /\ Len(<<x, g>>) = 2 OBVIOUS
    <3> QED BY <1>3, <3>1, <3>2
  <2>4. /\ ftable' \in [File -> FileRec]
        /\ \A f \in File : /\ SameKind(f) /\ ftable'[f].ref = IF f = g THEN 1 ELSE ftable[f].ref
                           /\ ftable'[f] \in FileRec /\ ftable[f].ref \in Nat
                           /\ ftable'[f].ref = ftable[f].ref + One(g, f)
    <3>1. PICK r \in Nat : r = 1 OBVIOUS
    <3>2. ftable' = [ftable EXCEPT ![g].ref = r] BY <2>2, <3>1
    <3>3. /\ ftable' \in [File -> FileRec]
          /\ \A f \in File : SameKind(f) /\ ftable'[f].ref = IF f = g THEN r ELSE ftable[f].ref
      BY <1>2, <3>2, RefSet
    <3>4. \A f \in File : ftable[f].ref \in Nat /\ ftable'[f] \in FileRec BY <1>2, <3>3 DEF FileRec
    <3>5. ASSUME NEW f \in File PROVE ftable'[f].ref = ftable[f].ref + One(g, f)
      BY <2>1, <3>1, <3>3, <3>4 DEF One
    <3> QED BY <3>1, <3>3, <3>4, <3>5
  <2>5. held' = [held EXCEPT ![p] = <<x, g>>] BY <2>2, <2>3
  <2>6. Typed'
    <3>1. held' \in [Proc -> Seq(File)] BY <1>2, <2>3, <2>5
    <3>2. \A f \in File : ftable'[f].ref \in Nat /\ ftable'[f].pipe \in Pipe \cup {NONE}
      BY <2>4 DEF FileRec
    <3>3. TypeOK' BY <1>1, <3>2 DEF IInv, Typed, TypeOK
    <3> QED BY <1>1, <2>4, <3>1, <3>3 DEF IInv, Typed
  <2>7. FilesCounted' BY <1>1, <1>3, <2>2, <2>4, TakeCounts
  <2>8. FilesOK'
    <3>1. ASSUME NEW f \in File, ftable'[f].type = "PIPE" PROVE ftable'[f].ref > 0 /\ ftable'[f].pipe \in Pipe
      <4>1. ftable[f].type = "PIPE" /\ f # g BY <2>1, <2>4, <3>1 DEF SameKind
      <4> QED BY <2>4, <4>1 DEF IInv, FilesOK, SameKind
    <3>2. ASSUME NEW q \in Proc, NEW e \in Fd, ofile'[q][e] # NONE
          PROVE  ftable'[ofile'[q][e]].type = "PIPE"
      <4>1. ofile[q][e] \in File /\ ftable[ofile[q][e]].type = "PIPE" BY <1>1, <3>2, Descriptor
      <4> QED BY <1>1, <2>4, <4>1 DEF SameKind
    <3>3. ASSUME NEW q \in Proc, pc'[q] = "pipe"
          PROVE  ftable'[held'[q][1]].ref = 1 /\ ftable'[held'[q][1]].type = "NONE"
      <4>1. pc[q] = "pipe" /\ q # p BY <1>1, <1>2, <3>3
      <4>2. PICK h \in File : held[q] = <<h>> BY <4>1, Hand
      <4>3. h = held[q][1] BY <4>2
      <4>4. ftable[h].ref = 1 /\ ftable[h].type = "NONE" BY <4>1, <4>3 DEF IInv, FilesOK
      <4>5. h # g BY <2>1, <4>4
      <4>6. held'[q][1] = h BY <1>2, <2>5, <4>1, <4>3
      <4> QED BY <2>4, <4>4, <4>5, <4>6 DEF SameKind
    <3> QED BY <3>1, <3>2, <3>3 DEF FilesOK
  <2>9. ASSUME NEW q \in Proc
        PROVE  /\ PlaceOK(q)' /\ CallOK(q)' /\ Awake(q)'
               /\ pc'[q] = "pipeclose" <=> pc[q] = "pipeclose"
               /\ pc[q] = "pipeclose" => arg'[q] = arg[q]
    <3>1. PlaceOK(q)'
      <4>1. CASE q = p
        <5>1. held'[p] = <<x, g>> /\ pc'[p] = "fileclose" /\ state'[p] = "RUNNABLE" BY <1>1, <1>2, <2>5
        <5>2. killed'[p] => left'.kills BY <1>1 DEF IInv, PlacesOK, PlaceOK
        <5> QED BY <2>3, <4>1, <5>1, <5>2 DEF PlaceOK
      <4>2. CASE q # p BY <1>1, <1>2, <2>5, <4>2 DEF IInv, PlacesOK, PlaceOK
      <4> QED BY <4>1, <4>2
    <3>2. CallOK(q)'
      <4>1. CASE q = p BY <1>1, <1>2, <4>1 DEF CallOK
      <4>2. CASE q # p
        <5>1. \A e \in Fd : ofile[q][e] # NONE => ofile[q][e] \in File BY <1>2
        <5> QED BY <1>1, <1>2, <2>4, <4>2, <5>1, Untouched
      <4> QED BY <4>1, <4>2
    <3>3. Awake(q)' BY <1>1, <1>2 DEF IInv, NoLostWakeup, Awake
    <3> QED BY <1>1, <1>2, <3>1, <3>2, <3>3
  <2> QED BY <1>1, <2>4, <2>6, <2>7, <2>8, <2>9, KindsKept
<1> QED BY <1>4, <1>5 DEF PipeFails

\* The descriptors that the child of a fork gets.
LEMMA ForkCounts ==
  ASSUME FilesAssumption, IInv, NEW p \in Proc, NEW np \in Proc, np # p,
         \A fd \in Fd : ofile[np][fd] = NONE,
         ofile' = [ofile EXCEPT ![np] = ofile[p]], held' = held,
         \A f \in File : ftable'[f].ref = ftable[f].ref + Cardinality({fd \in Fd : ofile[p][fd] = f})
  PROVE  FilesCounted'
<1> SUFFICES ASSUME NEW f \in File PROVE ftable'[f].ref = Refs(f)' BY DEF FilesCounted
<1> DEFINE a == Opened(ofile)
           c == Opened(ofile')
           A == {u \in Places : a[u] = f}
           C == {u \in Places : c[u] = f}
           S == {fd \in Fd : ofile[p][fd] = f}
           N == {np} \X S
           h == Count(Hands, InHand(held), f)
<1>1. /\ ftable[f].ref = Cardinality(A) + h /\ Refs(f)' = Cardinality(C) + h
  <2>1. ftable[f].ref = Count(Places, a, f) + h /\ Refs(f)' = Count(Places, c, f) + h
    BY RefsAre DEF IInv, FilesCounted
  <2> HIDE DEF a, c, h
  <2> QED BY <2>1 DEF Count
<1>2. ofile \in [Proc -> [Fd -> File \cup {NONE}]] BY DEF IInv, Typed, TypeOK
<1>3. \A q \in Proc : \A fd \in Fd : ofile'[q][fd] = IF q = np THEN ofile[p][fd] ELSE ofile[q][fd]
  BY <1>2
<1>4. f # NONE BY Constants
<1>5. C = A \cup N /\ A \cap N = {}
  <2>1. ASSUME NEW u \in Places
        PROVE  u[1] \in Proc /\ u[2] \in Fd /\ a[u] = ofile[u[1]][u[2]] /\ c[u] = ofile'[u[1]][u[2]]
               /\ u = <<u[1], u[2]>>
    BY DEF Places, Opened
  <2> HIDE DEF a, c
  <2>2. \A u : u \in N <=> u \in Places /\ u[1] = np /\ ofile[p][u[2]] = f BY DEF Places
  <2>3. \A u \in Places : c[u] = f <=> (a[u] = f \/ u \in N) BY <1>3, <1>4, <2>1, <2>2
  <2>4. \A u \in Places : ~(a[u] = f /\ u \in N) BY <1>4, <2>1, <2>2
  <2> HIDE DEF N
  <2> QED BY <2>2, <2>3, <2>4
<1>6. IsFiniteSet(A) /\ IsFiniteSet(S)
  <2>1. IsFiniteSet(Places) BY FinitePlaces
  <2>2. NOFILE \in Int BY DEF FilesAssumption
  <2>3. IsFiniteSet(Fd) BY <2>2, FS_Interval DEF Fd
  <2>4. IsFiniteSet(A) BY <2>1, FS_Subset
  <2> QED BY <2>3, <2>4, FS_Subset
<1> HIDE DEF A, C, S, h
<1>7. IsFiniteSet(N) /\ Cardinality(N) = Cardinality(S)
  <2>1. IsFiniteSet({np}) /\ Cardinality({np}) = 1 BY FS_Singleton
  <2>2. IsFiniteSet(N) /\ Cardinality(N) = Cardinality({np}) * Cardinality(S)
    BY <1>6, <2>1, FS_Product
  <2>3. Cardinality(S) \in Nat BY <1>6, FS_CardinalityType
  <2> QED BY <2>1, <2>2, <2>3
<1> HIDE DEF N
<1>8. Cardinality(C) = Cardinality(A) + Cardinality(S)
  <2>1. Cardinality(A \cup N) = Cardinality(A) + Cardinality(N) - Cardinality(A \cap N)
    BY <1>6, <1>7, FS_Union
  <2>2. Cardinality(A \cap N) = 0 BY <1>5, FS_EmptySet
  <2>3. Cardinality(A) \in Nat /\ Cardinality(N) \in Nat BY <1>6, <1>7, FS_CardinalityType
  <2> QED BY <1>5, <1>7, <2>1, <2>2, <2>3
<1>9. /\ Cardinality(A) \in Nat /\ Cardinality(S) \in Nat /\ h \in Nat
  BY <1>6, FS_CardinalityType, FinitePlaces, CountSome DEF h
<1>10. ftable'[f].ref = ftable[f].ref + Cardinality(S) BY DEF S
<1> QED BY <1>1, <1>8, <1>9, <1>10

LEMMA InvFork ==
  ASSUME FilesAssumption, IInv, NEW p \in Proc, Fork(p)
  PROVE  IInv'
<1> DEFINE n(f) == Cardinality({fd \in Fd : ofile[p][fd] = f})
<1>1. PICK np \in Proc : np = Least({q \in Proc : state[q] = "UNUSED"}) /\ state[np] = "UNUSED"
  <2> DEFINE U == {q \in Proc : state[q] = "UNUSED"}
  <2>1. U \in SUBSET Nat /\ U # {} BY Constants DEF Fork
  <2>2. Least(U) \in U BY <2>1, LeastIn
  <2> QED BY <2>2
<1>2. /\ state[p] = "RUNNABLE" /\ pc[p] = "user" /\ np # p /\ left.forks > 0
      /\ state' = [state EXCEPT ![np] = "RUNNABLE"]
      /\ parent' = [parent EXCEPT ![np] = p]
      /\ ofile' = [ofile EXCEPT ![np] = ofile[p]]
      /\ ftable' = [f \in File |-> [ftable[f] EXCEPT !.ref = ftable[f].ref + n(f)]]
      /\ left' = [left EXCEPT !.forks = left.forks - 1]
      /\ UNCHANGED <<killed, pc, held, arg, todo, leaving, pipes>>
  BY <1>1 DEF Fork, User, At, call
<1>3. /\ ftable \in [File -> FileRec] /\ ofile \in [Proc -> [Fd -> File \cup {NONE}]]
      /\ state \in [Proc -> {"UNUSED", "SLEEPING", "RUNNABLE", "ZOMBIE"}]
      /\ parent \in [Proc -> Proc \cup {NONE}]
  BY DEF IInv, Typed, TypeOK
<1>4. \A f : n(f) \in Nat
  <2>1. NOFILE \in Int BY DEF FilesAssumption
  <2>2. IsFiniteSet(Fd) BY <2>1, FS_Interval DEF Fd
  <2> QED BY <2>2, FS_Subset, FS_CardinalityType
<1>5. pc[np] = "user" /\ \A fd \in Fd : ofile[np][fd] = NONE BY <1>1 DEF IInv, PlacesOK, PlaceOK
<1>6. FilesCounted'
  <2>1. \A f \in File : ftable'[f].ref = ftable[f].ref + Cardinality({fd \in Fd : ofile[p][fd] = f})
    BY <1>2, <1>3 DEF FileRec
  <2> QED BY <1>2, <1>5, <2>1, ForkCounts
<1>7. \A f \in File : n(f) # 0 => ftable[f].type = "PIPE"
  <2>1. ASSUME NEW f \in File, ftable[f].type # "PIPE" PROVE n(f) = 0
    <3>1. {fd \in Fd : ofile[p][fd] = f} = {} BY <2>1, Constants DEF IInv, FilesOK
    <3> QED BY <3>1, FS_EmptySet
  <2> QED BY <2>1
<1> HIDE DEF n
<1>8. /\ ftable' \in [File -> FileRec]
      /\ \A f \in File : /\ SameKind(f) /\ ftable'[f].ref = ftable[f].ref + n(f)
                         /\ ftable'[f] \in FileRec /\ ftable[f].ref \in Nat
  <2>1. ASSUME NEW f \in File
        PROVE  /\ ftable'[f] \in FileRec /\ SameKind(f) /\ ftable'[f].ref = ftable[f].ref + n(f)
               /\ ftable[f].ref \in Nat
    <3>1. ftable[f] \in FileRec /\ ftable[f].ref \in Nat BY <1>3 DEF FileRec
    <3>2. PICK r \in Nat : r = ftable[f].ref + n(f) BY <1>4, <3>1
    <3>3. ftable'[f] = [ftable[f] EXCEPT !.ref = r] BY <1>2, <3>2
    <3> QED BY <3>1, <3>2, <3>3 DEF FileRec, SameKind
  <2> QED BY <1>2, <2>1
<1>9. /\ left' \in [pipes : Nat, forks : Nat, calls : Nat, kills : BOOLEAN]
      /\ left'.kills = left.kills
  <2>1. left \in [pipes : Nat, forks : Nat, calls : Nat, kills : BOOLEAN] BY DEF IInv, Typed
  <2>2. left.forks \in Nat /\ left.forks > 0 BY <1>2, <2>1
  <2>3. PICK c \in Nat : c = left.forks - 1 BY <2>2
  <2>4. left' = [left EXCEPT !.forks = c] BY <1>2, <2>3
  <2> QED BY <2>1, <2>4
<1>10. ofile' \in [Proc -> [Fd -> File \cup {NONE}]]
  <2>1. ofile[p] \in [Fd -> File \cup {NONE}] BY <1>3
  <2> QED BY <1>2, <1>3, <2>1
<1>11. Typed'
  <2>1. \A f \in File : ftable'[f].ref \in Nat /\ ftable'[f].pipe \in Pipe \cup {NONE}
    BY <1>8 DEF FileRec
  <2>2. parent' \in [Proc -> Proc \cup {NONE}] BY <1>2, <1>3
  <2>3. state' \in [Proc -> {"UNUSED", "SLEEPING", "RUNNABLE", "ZOMBIE"}] BY <1>2, <1>3
  <2>4. TypeOK' BY <1>2, <1>10, <2>1, <2>2, <2>3 DEF IInv, Typed, TypeOK
  <2> QED BY <1>2, <1>8, <1>9, <2>4 DEF IInv, Typed
<1>12. FilesOK'
  <2>1. ASSUME NEW f \in File, ftable'[f].type = "PIPE" PROVE ftable'[f].ref > 0 /\ ftable'[f].pipe \in Pipe
    <3>1. ftable[f].type = "PIPE" BY <1>8, <2>1 DEF SameKind
    <3>2. ftable[f].ref > 0 /\ ftable[f].pipe \in Pipe BY <3>1 DEF IInv, FilesOK
    <3> QED BY <1>4, <1>8, <3>2 DEF SameKind
  <2>2. ASSUME NEW q \in Proc, NEW e \in Fd, ofile'[q][e] # NONE
        PROVE  ftable'[ofile'[q][e]].type = "PIPE"
    <3>1. PICK r \in Proc : ofile'[q][e] = ofile[r][e] BY <1>2, <1>3
    <3>2. ofile[r][e] \in File /\ ftable[ofile[r][e]].type = "PIPE" BY <2>2, <3>1, Descriptor
    <3> QED BY <1>8, <3>1, <3>2 DEF SameKind
  <2>3. ASSUME NEW q \in Proc, pc'[q] = "pipe"
        PROVE  ftable'[held'[q][1]].ref = 1 /\ ftable'[held'[q][1]].type = "NONE"
    <3>1. PICK h \in File : held[q] = <<h>> BY <1>2, <2>3, Hand
    <3>2. h = held[q][1] BY <3>1
    <3>3. ftable[h].ref = 1 /\ ftable[h].type = "NONE" BY <1>2, <2>3, <3>2 DEF IInv, FilesOK
    <3>4. n(h) = 0 BY <1>7, <3>3
    <3>5. ftable'[h].ref = 1 /\ ftable'[h].type = "NONE" BY <1>8, <3>3, <3>4 DEF SameKind
    <3> QED BY <1>2, <3>2, <3>5
  <2> QED BY <2>1, <2>2, <2>3 DEF FilesOK
<1>13. ASSUME NEW q \in Proc
       PROVE  /\ PlaceOK(q)' /\ CallOK(q)' /\ Awake(q)'
              /\ pc'[q] = "pipeclose" <=> pc[q] = "pipeclose"
              /\ pc[q] = "pipeclose" => arg'[q] = arg[q]
  <2>1. PlaceOK(q)' BY <1>2, <1>3, <1>5, <1>9 DEF IInv, PlacesOK, PlaceOK
  <2>2. CallOK(q)'
    <3>1. CASE q = np BY <1>2, <1>5, <3>1 DEF CallOK
    <3>2. CASE q # np
      <4>1. ofile'[q] = ofile[q] BY <1>2, <1>3, <3>2
      <4>2. \A e \in Fd : ofile[q][e] # NONE => ofile[q][e] \in File BY <1>3
      <4> QED BY <1>2, <1>8, <4>1, <4>2, Untouched
    <3> QED BY <3>1, <3>2
  <2>3. Awake(q)' BY <1>2, <1>3, <1>9 DEF IInv, NoLostWakeup, Awake
  <2> QED BY <1>2, <2>1, <2>2, <2>3
<1> QED BY <1>2, <1>6, <1>8, <1>11, <1>12, <1>13, KindsKept

-----------------------------------------------------------------------------
(* fileclose and pipeclose *)

\* An end of a pipe is held by a file that stands for it or by who closes it.
LEMMA Holders ==
  ASSUME NEW k \in Pipe, NEW w \in BOOLEAN
  PROVE  /\ EndHeld(k, w) <=> \/ \E f \in File : Stands(f, k, w)
                              \/ \E q \in Proc : Closing(q, k, w)
         /\ EndHeld(k, w)' <=> \/ \E f \in File : Stands(f, k, w)'
                               \/ \E q \in Proc : Closing(q, k, w)'
BY DEF EndHeld, Stands, Closing

\* What is in the hand that closes has a reference.
LEMMA InFirst ==
  ASSUME FilesAssumption, IInv, NEW p \in Proc, held[p] # <<>>
  PROVE  /\ held[p][1] \in File /\ Head(held[p]) = held[p][1]
         /\ ftable[held[p][1]].ref \in Nat /\ ftable[held[p][1]].ref > 0
         /\ ftable[held[p][1]] \in FileRec
         /\ Tail(held[p]) \in Seq(File) /\ Len(Tail(held[p])) <= 1
<1>1. PICK h \in Seq(File) : h = held[p] BY DEF IInv, Typed
<1>2. /\ Len(h) <= 2 /\ h # <<>> BY <1>1 DEF IInv, PlacesOK, PlaceOK
<1>3. h[1] \in File /\ Head(h) = h[1] BY <1>2, EmptySeq, ElementOfSeq
<1>4. ftable[h[1]] \in FileRec BY <1>3 DEF IInv, Typed
<1>5. ftable[h[1]].ref \in Nat BY <1>4 DEF FileRec
<1>6. ftable[h[1]].ref # 0 BY <1>1, <1>3, NoneLeft DEF IInv
<1>7. Tail(h) \in Seq(File) /\ Len(Tail(h)) <= 1
  <2>1. \/ h = <<>> \/ (\E g \in File : h = <<g>>) \/ (\E g, g2 \in File : h = <<g, g2>>)
    BY <1>1, HandsAre
  <2>2. ASSUME NEW g \in File, h = <<g>> PROVE Tail(h) \in Seq(File) /\ Len(Tail(h)) <= 1
    <3>1. Tail(h) = <<>> BY <2>2
    <3>2. <<>> \in Seq(File) OBVIOUS
    <3>3. PICK t \in Seq(File) : t = <<>> BY <3>2
    <3>4. Len(t) = 0 /\ t = Tail(h) BY <3>1, <3>3, EmptySeq
    <3>5. 0 <= 1 OBVIOUS
    <3> QED BY <3>4, <3>5
  <2>3. ASSUME NEW g \in File, NEW g2 \in File, h = <<g, g2>>
        PROVE  Tail(h) \in Seq(File) /\ Len(Tail(h)) <= 1
    <3>1. Tail(h) = <<g2>>
      <4>1. Tail(<<g, g2>>) = <<g2>> OBVIOUS
      <4> QED BY <2>3, <4>1
    <3>2. <<g2>> \in Seq(File) /\ Len(<<g2>>) = 1 OBVIOUS
    <3> QED BY <3>1, <3>2
  <2> QED BY <1>2, <2>1, <2>2, <2>3
<1> QED BY <1>1, <1>3, <1>4, <1>5, <1>6, <1>7

LEMMA InvFileClose ==
  ASSUME FilesAssumption, IInv, NEW p \in Proc, FileClose(p)
  PROVE  IInv'
<1>1. PICK f \in File : f = held[p][1] /\ f = Head(held[p]) BY InFirst DEF FileClose
<1>2. /\ state[p] = "RUNNABLE" /\ pc[p] = "fileclose" /\ held[p] # <<>>
      /\ held' = [held EXCEPT ![p] = Tail(held[p])]
      /\ UNCHANGED <<state, parent, killed, todo, leaving, ofile, pipes, left>>
  BY DEF FileClose, At, procs
<1>3. /\ pc \in [Proc -> {"user", "pipe", "fileclose", "pipeclose", "piperead", "pipewrite",
                         "exit", "wait"}]
      /\ ftable \in [File -> FileRec] /\ held \in [Proc -> Seq(File)]
      /\ ofile \in [Proc -> [Fd -> File \cup {NONE}]] /\ arg \in [Proc -> ArgRec]
  BY DEF IInv, Typed, TypeOK
<1>4. /\ ftable[f].ref \in Nat /\ ftable[f].ref > 0 /\ ftable[f] \in FileRec
      /\ Tail(held[p]) \in Seq(File) /\ Len(Tail(held[p])) <= 1
  BY <1>1, <1>2, InFirst
<1>5. held' \in [Proc -> Seq(File)] BY <1>2, <1>3, <1>4
<1>6. \A q \in Proc :
        pc'[q] = pc[q] \/ (q = p /\ pc'[q] = "pipeclose") => PlaceOK(q)'
  <2>1. ASSUME NEW q \in Proc, pc'[q] = pc[q] \/ (q = p /\ pc'[q] = "pipeclose") PROVE PlaceOK(q)'
    <3>1. CASE q = p
      <4>1. held'[p] = Tail(held[p]) /\ pc'[p] \in {"fileclose", "pipeclose"} /\ state'[p] = "RUNNABLE"
        BY <1>2, <1>3, <2>1, <3>1
      <4>2. killed'[p] => left'.kills BY <1>2 DEF IInv, PlacesOK, PlaceOK
      <4>3. Len(held'[p]) <= 2
        <5> DEFINE n == Len(Tail(held[p]))
        <5>1. n \in Nat /\ n <= 1 BY <1>4
        <5> HIDE DEF n
        <5>2. n <= 2 BY <5>1
        <5> QED BY <4>1, <5>2 DEF n
      <4> QED BY <3>1, <4>1, <4>2, <4>3 DEF PlaceOK
    <3>2. CASE q # p BY <1>2, <1>3, <2>1, <3>2 DEF IInv, PlacesOK, PlaceOK
    <3> QED BY <3>1, <3>2
  <2> QED BY <2>1
<1>7. /\ ftable' \in [File -> FileRec]
      /\ \A g \in File : /\ ftable'[g].ref = ftable[g].ref - One(f, g)
                         /\ g # f => ftable'[g] = ftable[g]
                         /\ ftable'[g].pipe = ftable[g].pipe /\ ftable'[g].writable = ftable[g].writable
      /\ ftable'[f].type = IF ftable[f].ref = 1 THEN "NONE" ELSE ftable[f].type
  <2>1. ftable' = [ftable EXCEPT
          ![f] = IF ftable[f].ref = 1 THEN [ftable[f] EXCEPT !.ref = 0, !.type = "NONE"]
                                      ELSE [ftable[f] EXCEPT !.ref = ftable[f].ref - 1]]
    <3>1. ftable' = [ftable EXCEPT ![Head(held[p])] =
            IF ftable[Head(held[p])].ref = 1
            THEN [ftable[Head(held[p])] EXCEPT !.ref = 0, !.type = "NONE"]
            ELSE [ftable[Head(held[p])] EXCEPT !.ref = ftable[Head(held[p])].ref - 1]]
      BY DEF FileClose
    <3> QED BY <1>1, <3>1
  <2>2. PICK r \in Nat : r = ftable[f].ref - 1 BY <1>4
  <2>3. PICK x : /\ x = (IF ftable[f].ref = 1 THEN [ftable[f] EXCEPT !.ref = 0, !.type = "NONE"]
                                               ELSE [ftable[f] EXCEPT !.ref = r])
                  /\ ftable' = [ftable EXCEPT ![f] = x]
    BY <2>1, <2>2
  <2>4. x \in FileRec /\ x.ref = r /\ x.pipe = ftable[f].pipe /\ x.writable = ftable[f].writable
        /\ x.type = IF ftable[f].ref = 1 THEN "NONE" ELSE ftable[f].type
    <3>1. CASE ftable[f].ref = 1
      <4>1. x = [ftable[f] EXCEPT !.ref = 0, !.type = "NONE"] /\ r = 0 BY <2>2, <2>3, <3>1
      <4> QED BY <1>4, <3>1, <4>1 DEF FileRec
    <3>2. CASE ftable[f].ref # 1
      <4>1. x = [ftable[f] EXCEPT !.ref = r] BY <2>3, <3>2
      <4> QED BY <1>4, <3>2, <4>1 DEF FileRec
    <3> QED BY <3>1, <3>2
  <2>5. ftable' \in [File -> FileRec] /\ ftable'[f] = x BY <1>3, <2>3, <2>4
  <2>6. \A g \in File : g # f => ftable'[g] = ftable[g] BY <1>3, <2>3
  <2>7. \A g \in File : ftable[g].ref \in Nat BY <1>3 DEF FileRec
  <2>8. \A g \in File : ftable'[g].ref = ftable[g].ref - One(f, g)
    BY <2>2, <2>4, <2>5, <2>6, <2>7 DEF One
  <2> QED BY <2>4, <2>5, <2>6, <2>8
<1>8. FilesCounted' BY <1>1, <1>2, <1>7, DropCounts
<1>9. ftable[f].ref = 1 => /\ \A q \in Proc : \A fd \in Fd : ofile[q][fd] # f
                           /\ \A q \in Proc : q # p /\ held[q] # <<>> => held[q][1] # f
  <2>1. Len(held[p]) <= 2 BY DEF IInv, PlacesOK, PlaceOK
  <2> QED BY <1>1, <1>2, <1>4, <2>1, OnlyHand DEF IInv
<1>10. \A q \in Proc : \A fd \in Fd : ofile[q][fd] # NONE =>
         ofile[q][fd] \in File /\ SameKind(ofile[q][fd])
  <2>1. ASSUME NEW q \in Proc, NEW fd \in Fd, ofile[q][fd] # NONE
        PROVE  ofile[q][fd] \in File /\ SameKind(ofile[q][fd])
    <3>1. ofile[q][fd] \in File BY <2>1, Descriptor
    <3>2. CASE ofile[q][fd] = f BY <1>7, <1>9, <3>1, <3>2 DEF SameKind
    <3>3. CASE ofile[q][fd] # f BY <1>7, <3>1, <3>3 DEF SameKind
    <3> QED BY <3>1, <3>2, <3>3
  <2> QED BY <2>1
<1>11. ASSUME \A q \in Proc : pc'[q] = "pipe" => pc[q] = "pipe" PROVE FilesOK'
  <2>1. ASSUME NEW g \in File, ftable'[g].type = "PIPE" PROVE ftable'[g].ref > 0 /\ ftable'[g].pipe \in Pipe
    <3>1. CASE g = f
      <4>1. ftable[f].ref # 1 /\ ftable[f].type = "PIPE" BY <1>7, <2>1, <3>1
      <4>2. ftable'[f].ref = ftable[f].ref - 1 BY <1>7 DEF One
      <4>3. ftable'[f].ref > 0 BY <1>4, <4>1, <4>2
      <4> QED BY <1>7, <3>1, <4>1, <4>3 DEF IInv, FilesOK
    <3>2. CASE g # f BY <1>7, <2>1, <3>2 DEF IInv, FilesOK
    <3> QED BY <3>1, <3>2
  <2>2. ASSUME NEW q \in Proc, NEW e \in Fd, ofile'[q][e] # NONE
        PROVE  ftable'[ofile'[q][e]].type = "PIPE"
    <3>1. ofile[q][e] # NONE /\ ofile'[q][e] = ofile[q][e] BY <1>2, <2>2
    <3> QED BY <1>10, <3>1, Descriptor DEF SameKind
  <2>3. ASSUME NEW q \in Proc, pc'[q] = "pipe"
        PROVE  ftable'[held'[q][1]].ref = 1 /\ ftable'[held'[q][1]].type = "NONE"
    <3>1. pc[q] = "pipe" /\ q # p BY <1>2, <1>11, <2>3
    <3>2. PICK h \in File : held[q] = <<h>> BY <3>1, Hand
    <3>3. h = held[q][1] /\ held[q] # <<>> BY <3>2
    <3>4. ftable[h].ref = 1 /\ ftable[h].type = "NONE" BY <3>1, <3>3 DEF IInv, FilesOK
    <3>5. h # f BY <1>9, <3>1, <3>3, <3>4
    <3>6. held'[q][1] = h BY <1>2, <1>3, <3>1, <3>3
    <3> QED BY <1>7, <3>4, <3>5, <3>6
  <2> QED BY <2>1, <2>2, <2>3 DEF FilesOK
<1>12. ASSUME pc' \in [Proc -> {"user", "pipe", "fileclose", "pipeclose", "piperead", "pipewrite",
                                "exit", "wait"}],
              arg' \in [Proc -> ArgRec]
       PROVE  Typed'
  <2>1. \A g \in File : ftable'[g].ref \in Nat /\ ftable'[g].pipe \in Pipe \cup {NONE}
    BY <1>7 DEF FileRec
  <2>2. TypeOK' BY <1>2, <1>12, <2>1 DEF IInv, Typed, TypeOK
  <2> QED BY <1>2, <1>5, <1>7, <1>12, <2>2 DEF IInv, Typed
<1>13. CASE ~ (ftable[f].ref = 1 /\ ftable[f].type = "PIPE")
  <2>1. UNCHANGED <<arg, pc>> BY <1>1, <1>13 DEF FileClose
  <2>2. \A g \in File : SameKind(g)
    <3>1. ftable'[f].type = ftable[f].type BY <1>4, <1>7, <1>13 DEF FileRec
    <3> QED BY <1>7, <3>1 DEF SameKind
  <2>3. ASSUME NEW q \in Proc
        PROVE  /\ PlaceOK(q)' /\ CallOK(q)' /\ Awake(q)'
               /\ pc'[q] = "pipeclose" <=> pc[q] = "pipeclose"
               /\ pc[q] = "pipeclose" => arg'[q] = arg[q]
    <3>1. PlaceOK(q)' BY <1>6, <2>1
    <3>2. CallOK(q)' BY <1>2, <1>10, <2>1, Untouched
    <3>3. Awake(q)' BY <1>2, <2>1 DEF IInv, NoLostWakeup, Awake
    <3> QED BY <2>1, <3>1, <3>2, <3>3
  <2>4. Typed' BY <1>3, <1>12, <2>1
  <2>5. FilesOK' BY <1>11, <2>1
  <2> QED BY <1>2, <1>8, <2>2, <2>3, <2>4, <2>5, KindsKept
<1>14. CASE ftable[f].ref = 1 /\ ftable[f].type = "PIPE"
  <2> DEFINE a == [pipe |-> ftable[f].pipe, writable |-> ftable[f].writable]
  <2>1. arg' = [arg EXCEPT ![p] = a] /\ pc' = [pc EXCEPT ![p] = "pipeclose"]
    BY <1>1, <1>14 DEF FileClose, Go
  <2>2. ftable[f].pipe \in Pipe /\ a \in ArgRec
    <3>1. ftable[f].pipe \in Pipe BY <1>14 DEF IInv, FilesOK
    <3> QED BY <1>4, <3>1 DEF FileRec, ArgRec
  <2>3. Typed' BY <1>3, <1>12, <2>1, <2>2
  <2>4. FilesOK' BY <1>2, <1>3, <1>11, <2>1
  <2>5. ASSUME NEW k \in Pipe, NEW w \in BOOLEAN
        PROVE  /\ \A g \in File : Stands(g, k, w)' <=> Stands(g, k, w) /\ g # f
               /\ \A q \in Proc : Closing(q, k, w)' <=> Closing(q, k, w) \/ (q = p /\ Stands(f, k, w))
               /\ ~ Closing(p, k, w)
    <3>1. ASSUME NEW g \in File PROVE Stands(g, k, w)' <=> Stands(g, k, w) /\ g # f
      BY <1>7, <1>14 DEF Stands
    <3>2. ~ Closing(p, k, w) BY <1>2 DEF Closing
    <3>3. a = [pipe |-> k, writable |-> w] <=> Stands(f, k, w) BY <1>14 DEF Stands
    <3> HIDE DEF a
    <3>4. ASSUME NEW q \in Proc
          PROVE  Closing(q, k, w)' <=> Closing(q, k, w) \/ (q = p /\ Stands(f, k, w))
      <4>1. CASE q = p BY <1>3, <2>1, <3>2, <3>3, <4>1 DEF Closing
      <4>2. CASE q # p BY <1>3, <2>1, <4>2 DEF Closing
      <4> QED BY <4>1, <4>2
    <3> QED BY <3>1, <3>2, <3>4
  <2>6. EndsOK'
    <3>1. ASSUME NEW k \in Pipe, NEW w \in BOOLEAN
          PROVE  /\ \A g, h \in File : Stands(g, k, w)' /\ Stands(h, k, w)' => g = h
                 /\ \A g \in File, q \in Proc : ~(Stands(g, k, w)' /\ Closing(q, k, w)')
                 /\ \A q, r \in Proc : Closing(q, k, w)' /\ Closing(r, k, w)' => q = r
      <4>1. /\ \A g, h \in File : Stands(g, k, w) /\ Stands(h, k, w) => g = h
            /\ \A g \in File, q \in Proc : ~(Stands(g, k, w) /\ Closing(q, k, w))
            /\ \A q, r \in Proc : Closing(q, k, w) /\ Closing(r, k, w) => q = r
        BY DEF IInv, EndsOK
      <4> QED BY <2>5, <4>1
    <3> QED BY <3>1 DEF EndsOK
  <2>7. LevelsOK' BY <1>2 DEF IInv, LevelsOK
  <2>8. ASSUME NEW k \in Pipe
        PROVE  /\ pipes'[k].readopen <=> EndHeld(k, FALSE)'
               /\ pipes'[k].writeopen <=> EndHeld(k, TRUE)'
               /\ pipes'[k].used <=> (pipes'[k].readopen \/ pipes'[k].writeopen)
    <3>1. ASSUME NEW w \in BOOLEAN PROVE EndHeld(k, w)' <=> EndHeld(k, w)
      BY <2>5, Holders
    <3>2. (EndHeld(k, FALSE)' <=> EndHeld(k, FALSE)) /\ (EndHeld(k, TRUE)' <=> EndHeld(k, TRUE))
      BY <3>1
    <3> QED BY <1>2, <3>2 DEF IInv, PipesLive
  <2>9. ASSUME NEW q \in Proc PROVE PlaceOK(q)' /\ CallOK(q)' /\ Awake(q)'
    <3>1. PlaceOK(q)' BY <1>3, <1>6, <2>1
    <3>2. CallOK(q)'
      <4>1. CASE q = p BY <1>3, <2>1, <2>2, <4>1 DEF CallOK
      <4>2. CASE q # p BY <1>2, <1>3, <1>10, <2>1, <4>2, Untouched
      <4> QED BY <4>1, <4>2
    <3>3. Awake(q)' BY <1>2, <1>3, <2>1 DEF IInv, NoLostWakeup, Awake
    <3> QED BY <3>1, <3>2, <3>3
  <2> QED BY <1>8, <2>3, <2>4, <2>6, <2>7, <2>8, <2>9, Together
<1> QED BY <1>13, <1>14

\* A pipe that is not there, or has just been made, is empty.
LEMMA NewPipe ==
  ASSUME FilesAssumption
  PROVE  /\ NoPipe \in PipeRec /\ Level(NoPipe) = 0
         /\ ~NoPipe.used /\ ~NoPipe.readopen /\ ~NoPipe.writeopen
<1>1. /\ Wrap \in Nat \ {0} /\ PIPESIZE \in Nat \ {0} /\ NONE \in Nat /\ 0 \in 0 .. Wrap - 1
  BY DEF FilesAssumption, NONE
<1>2. [i \in 0 .. PIPESIZE - 1 |-> NONE] \in [0 .. PIPESIZE - 1 -> Nat] BY <1>1
<1>3. NoPipe \in PipeRec BY <1>1, <1>2 DEF NoPipe, PipeRec
<1>4. NoPipe.nread = 0 /\ NoPipe.nwrite = 0 BY DEF NoPipe
<1>5. Level(NoPipe) = 0 BY <1>3, <1>4, Levels DEF Empty
<1> QED BY <1>3, <1>5 DEF NoPipe

\* The pipe of a read or a write under way is there, and that end of it open.
LEMMA Busy ==
  ASSUME FilesAssumption, IInv, NEW p \in Proc, pc[p] \in {"piperead", "pipewrite"}
  PROVE  /\ arg[p].pipe \in Pipe /\ pipes[arg[p].pipe].used
         /\ pc[p] = "piperead" => pipes[arg[p].pipe].readopen
         /\ pc[p] = "pipewrite" => pipes[arg[p].pipe].writeopen
         /\ \E f \in File : Stands(f, arg[p].pipe, pc[p] = "pipewrite")
<1>1. PICK fd \in Fd : /\ ofile[p][fd] # NONE
                       /\ pc[p] = "piperead" => Stands(ofile[p][fd], arg[p].pipe, FALSE)
                       /\ pc[p] = "pipewrite" => Stands(ofile[p][fd], arg[p].pipe, TRUE)
  <2>1. pc[p] = "piperead" => \E fd \in Fd : ofile[p][fd] # NONE /\ Stands(ofile[p][fd], arg[p].pipe, FALSE)
    BY DEF IInv, CallsOK, CallOK
  <2>2. pc[p] = "pipewrite" => \E fd \in Fd : ofile[p][fd] # NONE /\ Stands(ofile[p][fd], arg[p].pipe, TRUE)
    BY DEF IInv, CallsOK, CallOK
  <2> QED BY <2>1, <2>2
<1>2. PICK f \in File : f = ofile[p][fd] /\ ftable[f].pipe \in Pipe BY <1>1, Descriptor
<1>3. PICK k \in Pipe : k = arg[p].pipe /\ ftable[f].pipe = k BY <1>1, <1>2 DEF Stands
<1>4. CASE pc[p] = "piperead"
  <2>1. Stands(f, k, FALSE) BY <1>1, <1>2, <1>3, <1>4
  <2>2. EndHeld(k, FALSE) BY <2>1, Holders
  <2>3. pipes[k].readopen /\ pipes[k].used BY <2>2 DEF IInv, PipesLive
  <2>4. (pc[p] = "pipewrite") = FALSE BY <1>4
  <2> QED BY <1>3, <1>4, <2>1, <2>3, <2>4
<1>5. CASE pc[p] = "pipewrite"
  <2>1. Stands(f, k, TRUE) BY <1>1, <1>2, <1>3, <1>5
  <2>2. EndHeld(k, TRUE) BY <2>1, Holders
  <2>3. pipes[k].writeopen /\ pipes[k].used BY <2>2 DEF IInv, PipesLive
  <2>4. (pc[p] = "pipewrite") = TRUE BY <1>5
  <2> QED BY <1>3, <1>5, <2>1, <2>3, <2>4
<1> QED BY <1>4, <1>5

LEMMA InvPipeClose ==
  ASSUME FilesAssumption, IInv, NEW p \in Proc, PipeClose(p)
  PROVE  IInv'
<1> DEFINE d == arg[p]
<1>0. /\ pc \in [Proc -> {"user", "pipe", "fileclose", "pipeclose", "piperead", "pipewrite",
                         "exit", "wait"}]
      /\ state \in [Proc -> {"UNUSED", "SLEEPING", "RUNNABLE", "ZOMBIE"}]
      /\ arg \in [Proc -> ArgRec] /\ pipes \in [Pipe -> PipeRec]
  BY DEF IInv, Typed, TypeOK
<1>1. state[p] = "RUNNABLE" /\ pc[p] = "pipeclose" BY DEF PipeClose, PipeCloseThen, At
<1>2. PICK k \in Pipe, w \in BOOLEAN : d = [pipe |-> k, writable |-> w]
  <2>1. d.pipe \in Pipe BY <1>1 DEF IInv, CallsOK, CallOK
  <2>2. d.writable \in BOOLEAN /\ d = [pipe |-> d.pipe, writable |-> d.writable]
    BY <1>0 DEF ArgRec
  <2> QED BY <2>1, <2>2
<1>3. d.pipe = k /\ d.writable = w BY <1>2
<1>4. PICK q : /\ q = EndClosed(d)
               /\ pipes' = [pipes EXCEPT ![k] = IF ~q.readopen /\ ~q.writeopen THEN NoPipe ELSE q]
  BY <1>3 DEF PipeClose, PipeCloseThen
<1>5. /\ state' = Wakeup(OtherEnd(d)) /\ arg' = [arg EXCEPT ![p] = NoArg]
      /\ pc' = [pc EXCEPT ![p] = "fileclose"]
      /\ UNCHANGED <<parent, killed, held, todo, leaving, ofile, ftable, left>>
  BY DEF PipeClose, PipeCloseThen, Go
<1>6. PICK old \in PipeRec : old = pipes[k] BY <1>0
<1>7. /\ q \in PipeRec /\ q.used = old.used /\ q.nread = old.nread /\ q.nwrite = old.nwrite
      /\ q.data = old.data
      /\ q.readopen = (IF w THEN old.readopen ELSE FALSE)
      /\ q.writeopen = (IF w THEN FALSE ELSE old.writeopen)
  <2>1. CASE w
    <3>1. q = [old EXCEPT !.writeopen = FALSE] BY <1>3, <1>4, <1>6, <2>1 DEF EndClosed
    <3> QED BY <2>1, <3>1 DEF PipeRec
  <2>2. CASE ~w
    <3>1. q = [old EXCEPT !.readopen = FALSE] BY <1>3, <1>4, <1>6, <2>2 DEF EndClosed
    <3> QED BY <2>2, <3>1 DEF PipeRec
  <2> QED BY <2>1, <2>2
<1>8. PICK new \in PipeRec : /\ new = (IF ~q.readopen /\ ~q.writeopen THEN NoPipe ELSE q)
                             /\ pipes' = [pipes EXCEPT ![k] = new]
  BY <1>4, <1>7, NewPipe
<1>9. pipes'[k] = new /\ \A j \in Pipe : j # k => pipes'[j] = pipes[j] BY <1>0, <1>8
<1>10. Closing(p, k, w) BY <1>1, <1>2 DEF Closing
<1>11. /\ \A f \in File : ~Stands(f, k, w)
       /\ \A r \in Proc : Closing(r, k, w) => r = p
  BY <1>10 DEF IInv, EndsOK
<1>12. EndHeld(k, w) BY <1>10, Holders
<1>13. old.used /\ (old.readopen <=> EndHeld(k, FALSE)) /\ (old.writeopen <=> EndHeld(k, TRUE))
  BY <1>6, <1>12 DEF IInv, PipesLive
<1>14. /\ new.readopen <=> old.readopen /\ w
       /\ new.writeopen <=> old.writeopen /\ ~w
       /\ new.used <=> new.readopen \/ new.writeopen
  <2>1. CASE ~q.readopen /\ ~q.writeopen BY <1>7, <1>8, <2>1, NewPipe DEF PipeRec
  <2>2. CASE ~(~q.readopen /\ ~q.writeopen) BY <1>7, <1>8, <1>13, <2>2 DEF PipeRec
  <2> QED BY <2>1, <2>2
<1>15. ASSUME NEW j \in Pipe, NEW v \in BOOLEAN
       PROVE  /\ \A f \in File : Stands(f, j, v)' <=> Stands(f, j, v)
              /\ \A r \in Proc : Closing(r, j, v)' <=> Closing(r, j, v) /\ r # p
              /\ Closing(p, j, v) <=> j = k /\ v = w
  BY <1>0, <1>1, <1>2, <1>5 DEF Stands, Closing
<1>16. EndsOK'
  <2>1. ASSUME NEW j \in Pipe, NEW v \in BOOLEAN
        PROVE  /\ \A f, g \in File : Stands(f, j, v)' /\ Stands(g, j, v)' => f = g
               /\ \A f \in File, r \in Proc : ~(Stands(f, j, v)' /\ Closing(r, j, v)')
               /\ \A r, s \in Proc : Closing(r, j, v)' /\ Closing(s, j, v)' => r = s
    BY <1>15 DEF IInv, EndsOK
  <2> QED BY <2>1 DEF EndsOK
<1>17. ASSUME NEW j \in Pipe, NEW v \in BOOLEAN
       PROVE  EndHeld(j, v)' <=> EndHeld(j, v) /\ ~(j = k /\ v = w)
  <2>1. CASE j = k /\ v = w
    <3>1. /\ \A f \in File : ~ Stands(f, k, w)'
          /\ \A r \in Proc : ~ Closing(r, k, w)'
      BY <1>11, <1>15
    <3> QED BY <2>1, <3>1, Holders
  <2>2. CASE ~(j = k /\ v = w) BY <1>15, <2>2, Holders
  <2> QED BY <2>1, <2>2
<1>18. ASSUME NEW j \in Pipe
       PROVE  /\ pipes'[j].readopen <=> EndHeld(j, FALSE)'
              /\ pipes'[j].writeopen <=> EndHeld(j, TRUE)'
              /\ pipes'[j].used <=> (pipes'[j].readopen \/ pipes'[j].writeopen)
  <2>1. /\ EndHeld(j, FALSE)' <=> EndHeld(j, FALSE) /\ ~(j = k /\ FALSE = w)
        /\ EndHeld(j, TRUE)' <=> EndHeld(j, TRUE) /\ ~(j = k /\ TRUE = w)
    BY <1>17
  <2>2. CASE j = k
    <3>1. pipes'[j] = new BY <1>9, <2>2
    <3>2. (FALSE = w <=> ~w) /\ (TRUE = w <=> w) OBVIOUS
    <3> QED BY <1>13, <1>14, <2>1, <2>2, <3>1, <3>2
  <2>3. CASE j # k
    <3>1. pipes'[j] = pipes[j] BY <1>9, <2>3
    <3> QED BY <2>1, <2>3, <3>1 DEF IInv, PipesLive
  <2> QED BY <2>2, <2>3
<1>19. LevelsOK'
  <2>1. Level(new) <= PIPESIZE
    <3>1. Level(q) = Level(old) BY <1>7 DEF Level
    <3>2. Level(old) <= PIPESIZE BY <1>6 DEF IInv, LevelsOK
    <3>3. 0 <= PIPESIZE BY DEF FilesAssumption
    <3>4. Level(new) = Level(q) \/ Level(new) = 0 BY <1>8, NewPipe
    <3> QED BY <3>1, <3>2, <3>3, <3>4
  <2>2. ~new.used => new = NoPipe BY <1>7, <1>8, <1>13
  <2>3. \A j \in Pipe : Level(pipes[j]) <= PIPESIZE /\ (~pipes[j].used => pipes[j] = NoPipe)
    BY DEF IInv, LevelsOK
  <2>4. ASSUME NEW j \in Pipe
        PROVE  Level(pipes'[j]) <= PIPESIZE /\ (~pipes'[j].used => pipes'[j] = NoPipe)
    BY <1>9, <2>1, <2>2, <2>3
  <2>5. \A j \in Pipe : Level(pipes[j])' = Level(pipes'[j]) BY DEF Level
  <2> QED BY <2>4, <2>5 DEF LevelsOK
<1>20. state' \in [Proc -> {"UNUSED", "SLEEPING", "RUNNABLE", "ZOMBIE"}]
       /\ \A r \in Proc : state'[r] = IF r \in OtherEnd(d) THEN "RUNNABLE" ELSE state[r]
  BY <1>0, <1>5 DEF Wakeup
<1>21. \A r \in OtherEnd(d) : state[r] = "SLEEPING" BY DEF OtherEnd, Sleepers
<1>22. Typed'
  <2>1. NoArg \in ArgRec BY DEF NoArg, ArgRec
  <2>2. arg' \in [Proc -> ArgRec] BY <1>0, <1>5, <2>1
  <2>3. pipes' \in [Pipe -> PipeRec] BY <1>0, <1>8
  <2>4. TypeOK' BY <1>0, <1>5, <1>20 DEF IInv, Typed, TypeOK
  <2> QED BY <1>5, <2>2, <2>3, <2>4 DEF IInv, Typed
<1>23. FilesOK' BY <1>0, <1>5 DEF IInv, FilesOK
<1>24. FilesCounted' BY <1>5, SameCounts DEF IInv
<1>25. ASSUME NEW r \in Proc PROVE PlaceOK(r)' /\ CallOK(r)' /\ Awake(r)'
  <2>1. PlaceOK(r)' BY <1>0, <1>1, <1>5, <1>20, <1>21 DEF IInv, PlacesOK, PlaceOK
  <2>2. CallOK(r)'
    <3>1. CASE r = p BY <1>0, <1>5, <3>1 DEF CallOK
    <3>2. CASE r # p BY <1>0, <1>5, <3>2, Untouched DEF SameKind
    <3> QED BY <3>1, <3>2
  <2>3. Awake(r)'
    <3>1. SUFFICES ASSUME state'[r] = "SLEEPING" PROVE Awake(r)' BY DEF Awake
    <3>2. state[r] = "SLEEPING" /\ r \notin OtherEnd(d) /\ r # p BY <1>1, <1>20, <1>21, <3>1
    <3>3. pc'[r] = pc[r] /\ arg'[r] = arg[r] /\ killed'[r] = killed[r] /\ left' = left
      BY <1>0, <1>5, <3>2
    <3>4. CASE pc[r] \in {"piperead", "pipewrite"} /\ arg[r].pipe = k
      <4>1. PICK f \in File : Stands(f, k, pc[r] = "pipewrite") BY <3>4, Busy
      <4>2. (pc[r] = "pipewrite") # w BY <1>11, <4>1
      <4>3. r \in OtherEnd(d)
        <5>1. pc[r] = (IF w THEN "piperead" ELSE "pipewrite") BY <3>4, <4>2
        <5> QED BY <1>3, <3>2, <3>4, <5>1 DEF OtherEnd, Sleepers
      <4> QED BY <3>2, <4>3
    <3>5. CASE pc[r] \in {"piperead", "pipewrite"} /\ arg[r].pipe # k
      <4>1. arg[r].pipe \in Pipe BY <3>5, Busy
      <4>2. pipes'[arg[r].pipe] = pipes[arg[r].pipe] BY <1>9, <3>5, <4>1
      <4> QED BY <3>2, <3>3, <4>2 DEF IInv, NoLostWakeup, Awake, Empty, Full
    <3>6. CASE pc[r] \notin {"piperead", "pipewrite"}
      BY <3>2, <3>3, <3>6 DEF IInv, NoLostWakeup, Awake
    <3> QED BY <3>4, <3>5, <3>6
  <2> QED BY <2>1, <2>2, <2>3
<1> QED BY <1>16, <1>18, <1>19, <1>22, <1>23, <1>24, <1>25, Together

-----------------------------------------------------------------------------
(* piperead and pipewrite *)

\* A step that changes the bytes of one pipe, and moves processes.
LEMMA OnePipe ==
  ASSUME FilesAssumption, IInv, Typed', NEW k \in Pipe, NEW new,
         pipes' = [pipes EXCEPT ![k] = new], Level(new) <= PIPESIZE,
         new.readopen <=> pipes[k].readopen, new.writeopen <=> pipes[k].writeopen,
         pipes[k].used, new.used, UNCHANGED <<ofile, held, ftable>>,
         \A q \in Proc : /\ PlaceOK(q)' /\ CallOK(q)' /\ Awake(q)'
                         /\ pc'[q] = "pipe" => pc[q] = "pipe"
                         /\ pc'[q] = "pipeclose" <=> pc[q] = "pipeclose"
                         /\ pc[q] = "pipeclose" => arg'[q] = arg[q]
  PROVE  IInv'
<1>1. pipes'[k] = new /\ \A j \in Pipe : j # k => pipes'[j] = pipes[j]
  BY DEF IInv, Typed
<1>2. \A f \in File : SameKind(f) BY DEF SameKind
<1>3. EndsOK' /\ \A j \in Pipe : \A w \in BOOLEAN : EndHeld(j, w)' <=> EndHeld(j, w)
  BY <1>2, SameEnds
<1>4. ASSUME NEW j \in Pipe
      PROVE  /\ pipes'[j].readopen <=> EndHeld(j, FALSE)'
             /\ pipes'[j].writeopen <=> EndHeld(j, TRUE)'
             /\ pipes'[j].used <=> (pipes'[j].readopen \/ pipes'[j].writeopen)
  <2>1. /\ pipes[j].readopen <=> EndHeld(j, FALSE)
        /\ pipes[j].writeopen <=> EndHeld(j, TRUE)
        /\ pipes[j].used <=> (pipes[j].readopen \/ pipes[j].writeopen)
    BY DEF IInv, PipesLive
  <2>2. (EndHeld(j, FALSE)' <=> EndHeld(j, FALSE)) /\ (EndHeld(j, TRUE)' <=> EndHeld(j, TRUE))
    BY <1>3
  <2>3. CASE j = k BY <1>1, <2>1, <2>2, <2>3
  <2>4. CASE j # k BY <1>1, <2>1, <2>2, <2>4
  <2> QED BY <2>3, <2>4
<1>5. LevelsOK'
  <2>1. \A j \in Pipe : Level(pipes[j]) <= PIPESIZE /\ (~pipes[j].used => pipes[j] = NoPipe)
    BY DEF IInv, LevelsOK
  <2>2. ASSUME NEW j \in Pipe
        PROVE  Level(pipes'[j]) <= PIPESIZE /\ (~pipes'[j].used => pipes'[j] = NoPipe)
    BY <1>1, <2>1
  <2>3. \A j \in Pipe : Level(pipes[j])' = Level(pipes'[j]) BY DEF Level
  <2> QED BY <2>2, <2>3 DEF LevelsOK
<1>6. FilesOK' BY DEF IInv, FilesOK
<1>7. FilesCounted' BY SameCounts DEF IInv
<1> QED BY <1>3, <1>4, <1>5, <1>6, <1>7, Together

\* A step of piperead: n bytes are taken out of pipe k.
Took(p, k, n) ==
  /\ k = arg[p].pipe /\ pipes[k].used
  /\ n \in 0 .. Level(pipes[k]) /\ pipes' = [pipes EXCEPT ![k] = Taken(pipes[k], n)]

LEMMA ReadIs ==
  ASSUME FilesAssumption, IInv, NEW p \in Proc, PipeRead(p)
  PROVE  \E k \in Pipe, n \in Nat : Took(p, k, n)
<1>1. pc[p] = "piperead" BY DEF PipeRead, At
<1>2. PICK k \in Pipe : k = arg[p].pipe /\ pipes[k].used BY <1>1, Busy
<1>3. PICK q \in PipeRec : q = pipes[k] BY DEF IInv, Typed
<1>4. Level(q) \in Nat /\ Len(todo[p]) \in Nat
  <2>1. todo[p] \in Seq(Nat) BY DEF IInv, Typed
  <2>2. Len(todo[p]) \in Nat BY <2>1
  <2> QED BY <2>2, Levels
<1> DEFINE n == IF Len(todo[p]) <= Level(q) THEN Len(todo[p]) ELSE Level(q)
<1>5. n \in 0 .. Level(q) /\ n \in Nat BY <1>4
<1>6. pipes' = [pipes EXCEPT ![k] = Taken(pipes[k], n)] BY <1>2, <1>3 DEF PipeRead
<1>7. Took(p, k, n) BY <1>2, <1>3, <1>5, <1>6 DEF Took
<1> HIDE DEF n
<1> QED BY <1>5, <1>7

LEMMA InvPipeRead ==
  ASSUME FilesAssumption, IInv, NEW p \in Proc, PipeRead(p)
  PROVE  IInv'
<1>1. state[p] = "RUNNABLE" /\ pc[p] = "piperead" BY DEF PipeRead, At
<1>m. PICK k \in Pipe, m \in Nat : Took(p, k, m) BY ReadIs
<1>2. k = arg[p].pipe /\ pipes[k].used BY <1>m DEF Took
<1>3. PICK q \in PipeRec : q = pipes[k] BY DEF IInv, Typed
<1>4. PICK n \in 0 .. Level(q) : pipes' = [pipes EXCEPT ![k] = Taken(q, n)]
  BY <1>3, <1>m DEF Took
<1>5. PICK new \in PipeRec : new = Taken(q, n) /\ Level(new) = Level(q) - n
                             /\ new = [q EXCEPT !.nread = new.nread]
  BY TakenIs
<1>6. /\ ~(Empty(q) /\ q.writeopen) /\ pipes' = [pipes EXCEPT ![k] = new]
      /\ state' = Wakeup(Sleepers(k, "pipewrite"))
      /\ arg' = [arg EXCEPT ![p] = NoArg] /\ todo' = [todo EXCEPT ![p] = <<>>]
      /\ pc' = [pc EXCEPT ![p] = "user"]
      /\ UNCHANGED <<parent, killed, held, leaving, ofile, ftable, left>>
  BY <1>2, <1>3, <1>4, <1>5 DEF PipeRead, Return, Go
<1>7. /\ new.used = q.used /\ new.readopen = q.readopen /\ new.writeopen = q.writeopen
  BY <1>5 DEF PipeRec
<1>8. /\ pc \in [Proc -> {"user", "pipe", "fileclose", "pipeclose", "piperead", "pipewrite",
                         "exit", "wait"}]
      /\ state \in [Proc -> {"UNUSED", "SLEEPING", "RUNNABLE", "ZOMBIE"}]
      /\ arg \in [Proc -> ArgRec] /\ todo \in [Proc -> Seq(Nat)] /\ pipes \in [Pipe -> PipeRec]
  BY DEF IInv, Typed, TypeOK
<1> DEFINE S == Sleepers(k, "pipewrite")
<1>9. /\ state' \in [Proc -> {"UNUSED", "SLEEPING", "RUNNABLE", "ZOMBIE"}]
      /\ \A r \in Proc : state'[r] = IF r \in S THEN "RUNNABLE" ELSE state[r]
      /\ \A r \in S : state[r] = "SLEEPING"
  BY <1>6, <1>8 DEF Wakeup, Sleepers
<1>10. Typed'
  <2>1. NoArg \in ArgRec /\ <<>> \in Seq(Nat) BY DEF NoArg, ArgRec
  <2>2. arg' \in [Proc -> ArgRec] /\ todo' \in [Proc -> Seq(Nat)] BY <1>6, <1>8, <2>1
  <2>3. pipes' \in [Pipe -> PipeRec] BY <1>6, <1>8
  <2>4. TypeOK' BY <1>6, <1>8, <1>9 DEF IInv, Typed, TypeOK
  <2> QED BY <1>6, <2>2, <2>3, <2>4 DEF IInv, Typed
<1>11. Level(new) <= PIPESIZE
  <2>1. Level(q) <= PIPESIZE BY <1>3 DEF IInv, LevelsOK
  <2>2. Level(q) \in Nat /\ PIPESIZE \in Nat BY Levels DEF FilesAssumption
  <2> QED BY <1>5, <2>1, <2>2
<1>12. ASSUME NEW r \in Proc
       PROVE  /\ PlaceOK(r)' /\ CallOK(r)' /\ Awake(r)'
              /\ pc'[r] = "pipe" => pc[r] = "pipe"
              /\ pc'[r] = "pipeclose" <=> pc[r] = "pipeclose"
              /\ pc[r] = "pipeclose" => arg'[r] = arg[r]
  <2>1. PlaceOK(r)' BY <1>1, <1>6, <1>8, <1>9 DEF IInv, PlacesOK, PlaceOK
  <2>2. CallOK(r)'
    <3>1. CASE r = p BY <1>6, <1>8, <3>1 DEF CallOK
    <3>2. CASE r # p BY <1>6, <1>8, <3>2, Untouched DEF SameKind
    <3> QED BY <3>1, <3>2
  <2>3. Awake(r)'
    <3>1. SUFFICES ASSUME state'[r] = "SLEEPING" PROVE Awake(r)' BY DEF Awake
    <3>2. state[r] = "SLEEPING" /\ r \notin S /\ r # p BY <1>1, <1>9, <3>1
    <3>3. pc'[r] = pc[r] /\ arg'[r] = arg[r] /\ killed'[r] = killed[r] /\ left' = left
      BY <1>6, <1>8, <3>2
    <3>4. CASE pc[r] = "piperead" /\ arg[r].pipe = k
      <4>1. ~killed[r] /\ q.writeopen /\ (Empty(q) \/ left.kills)
        BY <1>3, <3>2, <3>4 DEF IInv, NoLostWakeup
      <4>2. left.kills BY <1>6, <4>1
      <4>3. pipes'[k] = new BY <1>6, <1>8
      <4> QED BY <1>7, <3>3, <3>4, <4>1, <4>2, <4>3 DEF Awake
    <3>5. CASE pc[r] = "pipewrite" /\ arg[r].pipe = k
      BY <3>2, <3>5 DEF Sleepers
    <3>6. CASE pc[r] \in {"piperead", "pipewrite"} /\ arg[r].pipe # k
      <4>1. arg[r].pipe \in Pipe BY <3>6, Busy
      <4>2. pipes'[arg[r].pipe] = pipes[arg[r].pipe] BY <1>6, <1>8, <3>6, <4>1
      <4> QED BY <3>2, <3>3, <4>2 DEF IInv, NoLostWakeup, Awake, Empty, Full
    <3>7. CASE pc[r] \notin {"piperead", "pipewrite"}
      BY <3>2, <3>3, <3>7 DEF IInv, NoLostWakeup, Awake
    <3> QED BY <3>4, <3>5, <3>6, <3>7
  <2> QED BY <1>1, <1>6, <1>8, <2>1, <2>2, <2>3
<1> QED BY <1>2, <1>3, <1>6, <1>7, <1>10, <1>11, <1>12, OnePipe

\* A part of the rest of a sequence.
LEMMA PartOfRest ==
  ASSUME NEW s \in Seq(Nat), NEW i \in 1 .. Len(s) + 1, NEW t, t = SubSeq(s, i, Len(s)),
         NEW n \in 0 .. Len(t)
  PROVE  /\ t \in Seq(Nat) /\ Len(t) = Len(s) + 1 - i
         /\ i + n \in 1 .. Len(s) + 1 /\ SubSeq(t, n + 1, Len(t)) = SubSeq(s, i + n, Len(s))
         /\ SubSeq(t, 1, n) = SubSeq(s, i, i + n - 1)
         /\ SubSeq(t, 1, n) \in Seq(Nat) /\ Len(SubSeq(t, 1, n)) = n
<1> DEFINE L == Len(s)
<1>1. L \in Nat /\ i \in 1 .. L + 1 /\ \A j \in 1 .. L : s[j] \in Nat BY ElementOfSeq
<1>2. /\ t \in Seq(Nat) /\ Len(t) = L + 1 - i /\ \A j \in 1 .. L + 1 - i : t[j] = s[i + j - 1]
  <2>1. i \in Int /\ L \in Int /\ \A j \in i .. L : s[j] \in Nat BY <1>1
  <2>2. t = SubSeq(s, i, L) OBVIOUS
  <2> HIDE DEF L
  <2>3. /\ t \in Seq(Nat) /\ Len(t) = IF i <= L THEN L - i + 1 ELSE 0
        /\ \A j \in 1 .. L - i + 1 : t[j] = s[i + j - 1]
    BY ONLY <2>1, <2>2, SubSeqProperties
  <2> QED BY <1>1, <2>3
<1> HIDE DEF L
<1>3. n \in 0 .. L + 1 - i /\ n \in Nat /\ \A j \in 1 .. L + 1 - i : t[j] \in Nat
  BY <1>1, <1>2, ElementOfSeq
<1>4. i + n \in 1 .. L + 1 BY <1>1, <1>3
<1> DEFINE a == SubSeq(t, n + 1, Len(t))
           b == SubSeq(s, i + n, L)
           c == SubSeq(t, 1, n)
           d == SubSeq(s, i, i + n - 1)
           M == L + 1 - i
<1>5. a \in Seq(Nat) /\ Len(a) = M - n /\ \A j \in 1 .. M - n : a[j] = s[i + n + j - 1]
  <2>0. n + 1 \in Int /\ M \in Int BY <1>1, <1>3
  <2>1. ASSUME NEW j \in n + 1 .. M PROVE t[j] \in Nat
    <3>1. j \in 1 .. M BY <1>3, <2>0
    <3> QED BY <1>3, <3>1
  <2>2. /\ a \in Seq(Nat) /\ Len(a) = IF n + 1 <= M THEN M - (n + 1) + 1 ELSE 0
        /\ \A j \in 1 .. M - (n + 1) + 1 : a[j] = t[(n + 1) + j - 1]
    <3> DEFINE x == n + 1
    <3>1. a = SubSeq(t, x, M) BY <1>2
    <3>2. x \in Int /\ M \in Int /\ \A j \in x .. M : t[j] \in Nat BY <2>0, <2>1
    <3> HIDE DEF a, M, x
    <3>3. /\ a \in Seq(Nat) /\ Len(a) = IF x <= M THEN M - x + 1 ELSE 0
          /\ \A j \in 1 .. M - x + 1 : a[j] = t[x + j - 1]
      BY ONLY <3>1, <3>2, SubSeqProperties
    <3> QED BY <3>3 DEF x
  <2>3. Len(a) = M - n
    <3> HIDE DEF a
    <3> QED BY <1>1, <1>3, <2>2
  <2>4. ASSUME NEW j \in 1 .. M - n PROVE a[j] = s[i + n + j - 1]
    <3>1. a[j] = t[(n + 1) + j - 1] /\ (n + 1) + j - 1 = n + j BY <1>1, <1>3, <2>2
    <3>2. n + j \in 1 .. M /\ i + (n + j) - 1 = i + n + j - 1 BY <1>1, <1>3
    <3> QED BY <1>2, <3>1, <3>2
  <2> QED BY <2>2, <2>3, <2>4
<1>6. b \in Seq(Nat) /\ Len(b) = M - n /\ \A j \in 1 .. M - n : b[j] = s[i + n + j - 1]
  <2> DEFINE x == i + n
  <2>1. x \in Int /\ L \in Int /\ \A j \in x .. L : s[j] \in Nat BY <1>1, <1>4
  <2>2. x \in 1 .. L + 1 /\ M - n = L - x + 1 /\ M - n \in Int BY <1>1, <1>3, <1>4
  <2>3. b = SubSeq(s, x, L) OBVIOUS
  <2> HIDE DEF x, b, M
  <2>4. /\ b \in Seq(Nat) /\ Len(b) = IF x <= L THEN L - x + 1 ELSE 0
        /\ \A j \in 1 .. L - x + 1 : b[j] = s[x + j - 1]
    BY ONLY <2>1, <2>3, SubSeqProperties
  <2>5. Len(b) = M - n
    <3> DEFINE z == M - n
    <3>1. z = L - x + 1 BY <2>2
    <3> HIDE DEF z
    <3>2. Len(b) = z BY <1>1, <2>2, <2>4, <3>1
    <3> QED BY <3>2 DEF z
  <2> QED BY <2>2, <2>4, <2>5 DEF x
<1>7. c \in Seq(Nat) /\ Len(c) = n /\ \A j \in 1 .. n : c[j] = s[i + j - 1]
  <2>1. n \in Int /\ \A j \in 1 .. n : t[j] \in Nat BY <1>1, <1>3
  <2>2. 1 \in Int /\ c = SubSeq(t, 1, n) OBVIOUS
  <2> HIDE DEF c
  <2>3. /\ c \in Seq(Nat) /\ Len(c) = IF 1 <= n THEN n - 1 + 1 ELSE 0
        /\ \A j \in 1 .. n - 1 + 1 : c[j] = t[1 + j - 1]
    BY ONLY <2>1, <2>2, SubSeqProperties
  <2>4. Len(c) = n BY <1>3, <2>3
  <2>5. ASSUME NEW j \in 1 .. n PROVE c[j] = s[i + j - 1]
    <3>1. 1 + j - 1 = j /\ j \in 1 .. M /\ n - 1 + 1 = n BY <1>1, <1>3
    <3> QED BY <1>2, <2>3, <3>1
  <2> QED BY <2>3, <2>4, <2>5
<1>8. d \in Seq(Nat) /\ Len(d) = n /\ \A j \in 1 .. n : d[j] = s[i + j - 1]
  <2> DEFINE x == i + n - 1
  <2>1. i \in Int /\ x \in Int /\ \A j \in i .. x : s[j] \in Nat BY <1>1, <1>3, <1>4
  <2>2. x - i + 1 = n /\ (i <= x <=> n # 0) BY <1>1, <1>3
  <2>3. d = SubSeq(s, i, x) OBVIOUS
  <2> HIDE DEF x, d
  <2>4. /\ d \in Seq(Nat) /\ Len(d) = IF i <= x THEN x - i + 1 ELSE 0
        /\ \A j \in 1 .. x - i + 1 : d[j] = s[i + j - 1]
    BY ONLY <2>1, <2>3, SubSeqProperties
  <2>5. Len(d) = n BY <2>2, <2>4
  <2> QED BY <2>2, <2>4, <2>5
<1>9. Len(t) = M BY <1>2
<1> HIDE DEF a, b, c, d
<1>10. a = b
  <2>1. \A j \in 1 .. Len(a) : a[j] = b[j] BY <1>5, <1>6
  <2> QED BY <1>5, <1>6, <2>1, SeqEqual
<1>11. c = d
  <2>1. \A j \in 1 .. Len(c) : c[j] = d[j] BY <1>7, <1>8
  <2> QED BY <1>7, <1>8, <2>1, SeqEqual
<1> QED BY <1>2, <1>4, <1>7, <1>10, <1>11 DEF L, a, b, c, d

\* A step of pipewrite: n bytes, from the ith of a write, go into pipe k, that turns from q
\* into new.
Wrote(p, k, q, new, n, bytes, i) ==
  /\ k = arg[p].pipe /\ q = pipes[k] /\ q.used
  /\ i + n \in 1 .. Len(bytes) + 1
  /\ pipes' = [pipes EXCEPT ![k] = new]
  /\ Level(q) + n <= PIPESIZE /\ Level(new) = Level(q) + n
  /\ Stream(new) = Stream(q) \o SubSeq(bytes, i, i + n - 1)
  /\ new.used = q.used /\ new.readopen = q.readopen /\ new.writeopen = q.writeopen
  /\ \/ /\ UNCHANGED state /\ (~q.readopen \/ killed[p])
        /\ Return(p)
     \/ /\ state' = Wakeup(Sleepers(k, "piperead"))
        /\ Return(p)
     \/ /\ state' = [Wakeup(Sleepers(k, "piperead")) EXCEPT ![p] = "SLEEPING"]
        /\ q.readopen /\ ~killed[p] /\ Level(new) = PIPESIZE
        /\ todo' = [todo EXCEPT ![p] = SubSeq(bytes, i + n, Len(bytes))]
        /\ UNCHANGED <<pc, held, arg, leaving>>

\* Some of the bytes of a write are put into the pipe, and the rest stays to be written.
LEMMA WriteIs ==
  ASSUME FilesAssumption, IInv, NEW p \in Proc, PipeWrite(p)
  PROVE  \E k \in Pipe, q \in PipeRec, new \in PipeRec, n \in Nat, bytes \in Writes :
           \E i \in 1 .. Len(bytes) + 1 : Wrote(p, k, q, new, n, bytes, i)
<1>1. state[p] = "RUNNABLE" /\ pc[p] = "pipewrite" BY DEF PipeWrite, At
<1>2. PICK k \in Pipe : k = arg[p].pipe /\ pipes[k].used BY <1>1, Busy
<1>3. PICK q \in PipeRec : q = pipes[k] BY DEF IInv, Typed
<1>b. PICK bytes \in Writes : \E i \in 1 .. Len(bytes) + 1 : todo[p] = SubSeq(bytes, i, Len(bytes))
  BY <1>1 DEF IInv, CallsOK, CallOK
<1>4. PICK i \in 1 .. Len(bytes) + 1 : todo[p] = SubSeq(bytes, i, Len(bytes)) BY <1>b
<1>5. bytes \in Seq(Nat) BY DEF FilesAssumption
<1>6. PICK t : t = todo[p] OBVIOUS
<1> DEFINE L == Len(t)
           room == PIPESIZE - Level(q)
           fits == L <= room
           n == IF fits THEN L ELSE room
           fails == ~fits /\ (~q.readopen \/ killed[p])
           woken == IF fails THEN state ELSE Wakeup(Sleepers(k, "piperead"))
           new == Put(q, SubSeq(t, 1, n))
<1>7. /\ pipes' = [pipes EXCEPT ![k] = new]
      /\ IF fits \/ fails
         THEN state' = woken /\ Return(p)
         ELSE /\ state' = [woken EXCEPT ![p] = "SLEEPING"]
              /\ todo' = [todo EXCEPT ![p] = SubSeq(t, n + 1, L)]
              /\ UNCHANGED <<pc, held, arg, leaving>>
  BY <1>2, <1>3, <1>6 DEF PipeWrite
<1>8. t \in Seq(Nat) /\ L \in Nat /\ Level(q) \in Nat /\ Level(q) <= PIPESIZE /\ PIPESIZE \in Nat
  <2>1. t \in Seq(Nat) BY <1>6 DEF IInv, Typed
  <2>2. Len(t) \in Nat BY <2>1
  <2>3. Level(q) <= PIPESIZE BY <1>3 DEF IInv, LevelsOK
  <2> QED BY <2>1, <2>2, <2>3, Levels DEF FilesAssumption
<1>9. n \in 0 .. L /\ n \in Nat /\ Level(q) + n <= PIPESIZE /\ (~fits => Level(q) + n = PIPESIZE)
  <2> DEFINE l == Level(q)
  <2>1. l \in Nat /\ L \in Nat /\ l <= PIPESIZE /\ PIPESIZE \in Nat BY <1>8
  <2> HIDE DEF l, L
  <2>2. n \in 0 .. L /\ n \in Nat /\ l + n <= PIPESIZE /\ (~fits => l + n = PIPESIZE) BY <2>1 DEF l
  <2> QED BY <2>2 DEF l
<1> HIDE DEF n, fits
<1>10. /\ i + n \in 1 .. Len(bytes) + 1 /\ SubSeq(t, n + 1, L) = SubSeq(bytes, i + n, Len(bytes))
       /\ SubSeq(t, 1, n) = SubSeq(bytes, i, i + n - 1)
       /\ SubSeq(t, 1, n) \in Seq(Nat) /\ Len(SubSeq(t, 1, n)) = n
  <2>1. t = SubSeq(bytes, i, Len(bytes)) BY <1>4, <1>6
  <2> QED BY SMTT(30), <1>5, <1>9, <2>1, PartOfRest
<1>11. PICK part \in Seq(Nat) : part = SubSeq(t, 1, n) /\ Len(part) = n /\ new = Put(q, part)
  BY <1>10
<1> HIDE DEF new
<1>12. /\ new \in PipeRec /\ Level(new) = Level(q) + n
       /\ new.used = q.used /\ new.readopen = q.readopen /\ new.writeopen = q.writeopen
       /\ Stream(new) = Stream(q) \o part
  <2>1. Level(q) + Len(part) <= PIPESIZE BY <1>9, <1>11
  <2>2. PICK r : r = new /\ r = Put(q, part) BY <1>11
  <2>3. r \in PipeRec /\ Level(r) = Level(q) + Len(part) BY <2>1, <2>2, PutIs
  <2>4. r.used = q.used /\ r.readopen = q.readopen /\ r.writeopen = q.writeopen
    BY <2>1, <2>2, PutIs
  <2>5. Stream(r) = Stream(q) \o part BY <2>1, <2>2, PutIs
  <2> QED BY <1>11, <2>2, <2>3, <2>4, <2>5
<1>14. \/ /\ UNCHANGED state /\ (~q.readopen \/ killed[p])
          /\ Return(p)
       \/ /\ state' = Wakeup(Sleepers(k, "piperead"))
          /\ Return(p)
       \/ /\ state' = [Wakeup(Sleepers(k, "piperead")) EXCEPT ![p] = "SLEEPING"]
          /\ q.readopen /\ ~killed[p] /\ Level(new) = PIPESIZE
          /\ todo' = [todo EXCEPT ![p] = SubSeq(bytes, i + n, Len(bytes))]
          /\ UNCHANGED <<pc, held, arg, leaving>>
  <2>1. CASE fails
    <3>1. state' = state /\ Return(p) BY <1>7, <2>1
    <3> QED BY <2>1, <3>1
  <2>2. CASE fits /\ ~fails
    <3>1. state' = Wakeup(Sleepers(k, "piperead")) /\ Return(p) BY <1>7, <2>2
    <3> QED BY <3>1
  <2>3. CASE ~fits /\ ~fails
    <3>1. /\ state' = [Wakeup(Sleepers(k, "piperead")) EXCEPT ![p] = "SLEEPING"]
          /\ todo' = [todo EXCEPT ![p] = SubSeq(t, n + 1, L)]
          /\ UNCHANGED <<pc, held, arg, leaving>>
      BY <1>7, <2>3
    <3>2. q.readopen /\ ~killed[p] BY <2>3
    <3>3. Level(new) = PIPESIZE BY <1>9, <1>12, <2>3
    <3> QED BY <1>10, <3>1, <3>2, <3>3
  <2> QED BY <2>1, <2>2, <2>3
<1>15. Stream(new) = Stream(q) \o SubSeq(bytes, i, i + n - 1) BY <1>10, <1>11, <1>12
<1>16. q.used BY <1>2, <1>3
<1> HIDE DEF L, room, fails, woken
<1>17. PICK m \in Nat, nq \in PipeRec : m = n /\ nq = new BY <1>9, <1>12
<1>18. /\ k = arg[p].pipe /\ q = pipes[k] /\ q.used
       /\ i + m \in 1 .. Len(bytes) + 1
       /\ pipes' = [pipes EXCEPT ![k] = nq]
       /\ Level(q) + m <= PIPESIZE /\ Level(nq) = Level(q) + m
       /\ Stream(nq) = Stream(q) \o SubSeq(bytes, i, i + m - 1)
       /\ nq.used = q.used /\ nq.readopen = q.readopen /\ nq.writeopen = q.writeopen
  BY <1>2, <1>3, <1>7, <1>9, <1>10, <1>12, <1>15, <1>16, <1>17
<1>19. \/ /\ UNCHANGED state /\ (~q.readopen \/ killed[p])
          /\ Return(p)
       \/ /\ state' = Wakeup(Sleepers(k, "piperead"))
          /\ Return(p)
       \/ /\ state' = [Wakeup(Sleepers(k, "piperead")) EXCEPT ![p] = "SLEEPING"]
          /\ q.readopen /\ ~killed[p] /\ Level(nq) = PIPESIZE
          /\ todo' = [todo EXCEPT ![p] = SubSeq(bytes, i + m, Len(bytes))]
          /\ UNCHANGED <<pc, held, arg, leaving>>
  BY <1>14, <1>17
<1>20. Wrote(p, k, q, nq, m, bytes, i) BY <1>18, <1>19 DEF Wrote
<1>21. \E j \in 1 .. Len(bytes) + 1 : Wrote(p, k, q, nq, m, bytes, j) BY <1>20
<1> QED BY <1>21

LEMMA InvPipeWrite ==
  ASSUME FilesAssumption, IInv, NEW p \in Proc, PipeWrite(p)
  PROVE  IInv'
<1>1. state[p] = "RUNNABLE" /\ pc[p] = "pipewrite" BY DEF PipeWrite, At
<1>2. PICK k \in Pipe, q \in PipeRec, new \in PipeRec, n \in Nat, bytes \in Writes :
        \E i \in 1 .. Len(bytes) + 1 : Wrote(p, k, q, new, n, bytes, i)
  BY WriteIs
<1>0. PICK i \in 1 .. Len(bytes) + 1 : Wrote(p, k, q, new, n, bytes, i) BY <1>2
<1>3. /\ k = arg[p].pipe /\ q = pipes[k] /\ q.used
      /\ i + n \in 1 .. Len(bytes) + 1
      /\ pipes' = [pipes EXCEPT ![k] = new]
      /\ Level(q) + n <= PIPESIZE /\ Level(new) = Level(q) + n
      /\ new.used = q.used /\ new.readopen = q.readopen /\ new.writeopen = q.writeopen
      /\ \/ /\ UNCHANGED state /\ (~q.readopen \/ killed[p])
            /\ Return(p)
         \/ /\ state' = Wakeup(Sleepers(k, "piperead"))
            /\ Return(p)
         \/ /\ state' = [Wakeup(Sleepers(k, "piperead")) EXCEPT ![p] = "SLEEPING"]
            /\ q.readopen /\ ~killed[p] /\ Level(new) = PIPESIZE
            /\ todo' = [todo EXCEPT ![p] = SubSeq(bytes, i + n, Len(bytes))]
            /\ UNCHANGED <<pc, held, arg, leaving>>
  BY <1>0 DEF Wrote
<1>4. /\ pc \in [Proc -> {"user", "pipe", "fileclose", "pipeclose", "piperead", "pipewrite",
                         "exit", "wait"}]
      /\ state \in [Proc -> {"UNUSED", "SLEEPING", "RUNNABLE", "ZOMBIE"}]
      /\ arg \in [Proc -> ArgRec] /\ todo \in [Proc -> Seq(Nat)] /\ pipes \in [Pipe -> PipeRec]
  BY DEF IInv, Typed, TypeOK
<1>5. UNCHANGED <<parent, killed, ofile, ftable, left, held, leaving>>
  <2>1. UNCHANGED <<held, leaving>> BY <1>3 DEF Return
  <2> QED BY <2>1 DEF PipeWrite
<1>6. /\ new.used = q.used /\ new.readopen = q.readopen /\ new.writeopen = q.writeopen
      /\ pipes'[k] = new /\ \A j \in Pipe : j # k => pipes'[j] = pipes[j]
  BY <1>3, <1>4 DEF PipeRec
<1> DEFINE S == Sleepers(k, "piperead")
           rest == SubSeq(bytes, i + n, Len(bytes))
           ends == /\ arg' = [arg EXCEPT ![p] = NoArg] /\ todo' = [todo EXCEPT ![p] = <<>>]
                   /\ pc' = [pc EXCEPT ![p] = "user"]
           sleeps == /\ todo' = [todo EXCEPT ![p] = rest] /\ UNCHANGED <<pc, arg>>
                     /\ q.readopen /\ ~killed[p] /\ Level(new) = PIPESIZE
<1>7. \/ ends /\ UNCHANGED state /\ (~q.readopen \/ killed[p])
      \/ ends /\ \A r \in Proc : state'[r] = IF r \in S THEN "RUNNABLE" ELSE state[r]
      \/ sleeps /\ \A r \in Proc : state'[r] = IF r = p THEN "SLEEPING" ELSE
                                               IF r \in S THEN "RUNNABLE" ELSE state[r]
  BY <1>3, <1>4 DEF Return, Go, Wakeup
<1>8. \A r \in S : state[r] = "SLEEPING" BY DEF Sleepers
<1>9. state' \in [Proc -> {"UNUSED", "SLEEPING", "RUNNABLE", "ZOMBIE"}]
  BY <1>3, <1>4 DEF Wakeup
<1>10. rest \in Seq(Nat)
  <2>1. bytes \in Seq(Nat) BY DEF FilesAssumption
  <2>2. Len(bytes) \in Nat BY <2>1
  <2>3. i + n \in Int /\ \A j \in i + n .. Len(bytes) : bytes[j] \in Nat
    <3>1. \A j \in 1 .. Len(bytes) : bytes[j] \in Nat BY <2>1, ElementOfSeq
    <3>2. i + n \in Nat /\ i + n >= 1 BY <1>3, <2>2
    <3>3. ASSUME NEW j \in i + n .. Len(bytes) PROVE j \in 1 .. Len(bytes) BY <2>2, <3>2
    <3> QED BY <3>1, <3>2, <3>3
  <2> DEFINE x == i + n
             L == Len(bytes)
  <2>4. x \in Int /\ L \in Int /\ \A j \in x .. L : bytes[j] \in Nat BY <2>2, <2>3
  <2> HIDE DEF x, L
  <2>5. SubSeq(bytes, x, L) \in Seq(Nat) BY ONLY <2>4, SubSeqProperties
  <2> QED BY <2>5 DEF x, L
<1> HIDE DEF rest
<1>11. Typed'
  <2>1. NoArg \in ArgRec /\ <<>> \in Seq(Nat) BY DEF NoArg, ArgRec
  <2>2. arg' \in [Proc -> ArgRec] BY <1>4, <1>7, <2>1
  <2>3. todo' \in [Proc -> Seq(Nat)] BY <1>4, <1>7, <1>10, <2>1
  <2>4. pipes' \in [Pipe -> PipeRec] BY <1>3, <1>4
  <2>5. pc' \in [Proc -> {"user", "pipe", "fileclose", "pipeclose", "piperead", "pipewrite",
                          "exit", "wait"}]
    BY <1>4, <1>7
  <2>6. TypeOK' BY <1>5, <1>9, <2>5 DEF IInv, Typed, TypeOK
  <2> QED BY <1>5, <2>2, <2>3, <2>4, <2>6 DEF IInv, Typed
<1>12. /\ \A r \in Proc : r # p => /\ pc'[r] = pc[r] /\ arg'[r] = arg[r] /\ todo'[r] = todo[r]
                                   /\ state'[r] = state[r] \/ (state[r] = "SLEEPING" /\ state'[r] = "RUNNABLE")
       /\ \/ pc'[p] = "user" /\ state'[p] = "RUNNABLE"
          \/ pc'[p] = "pipewrite" /\ state'[p] = "SLEEPING" /\ arg'[p] = arg[p] /\ sleeps
  <2>1. CASE ends BY <1>1, <1>4, <1>7, <1>8, <2>1
  <2>2. CASE sleeps /\ \A r \in Proc : state'[r] = IF r = p THEN "SLEEPING" ELSE
                                                   IF r \in S THEN "RUNNABLE" ELSE state[r]
    BY <1>1, <1>4, <1>8, <2>2
  <2> QED BY <1>7, <2>1, <2>2
<1>13. ASSUME NEW r \in Proc PROVE PlaceOK(r)'
  <2>1. CASE r = p BY <1>1, <1>5, <1>12, <2>1 DEF IInv, PlacesOK, PlaceOK
  <2>2. CASE r # p BY <1>5, <1>12, <2>2 DEF IInv, PlacesOK, PlaceOK
  <2> QED BY <2>1, <2>2
<1>14. ASSUME NEW r \in Proc PROVE CallOK(r)'
  <2>1. CASE r = p /\ pc'[p] = "user" BY <2>1 DEF CallOK
  <2>2. CASE r = p /\ sleeps
    <3>1. pc'[p] = "pipewrite" /\ arg'[p] = arg[p] /\ todo'[p] = rest BY <1>1, <1>4, <2>2
    <3>2. \E fd \in Fd : ofile'[p][fd] # NONE /\ Stands(ofile[p][fd], arg[p].pipe, TRUE)'
      BY <1>1, <1>5, <3>1 DEF IInv, CallsOK, CallOK, Stands
    <3>3. PICK j \in 1 .. Len(bytes) + 1 : j = i + n BY <1>3
    <3>4. todo'[p] = SubSeq(bytes, j, Len(bytes)) BY <3>1, <3>3 DEF rest
    <3> QED BY <2>2, <3>1, <3>2, <3>4 DEF CallOK
  <2>3. CASE r # p BY <1>5, <1>12, <2>3, Untouched DEF SameKind
  <2> QED BY <1>12, <2>1, <2>2, <2>3
<1>15. ASSUME NEW r \in Proc PROVE Awake(r)'
  <2>1. SUFFICES ASSUME state'[r] = "SLEEPING" PROVE Awake(r)' BY DEF Awake
  <2>2. Level(new) <= PIPESIZE /\ Level(q) \in Nat /\ PIPESIZE \in Nat
    BY <1>3, Levels DEF FilesAssumption
  <2>3. CASE r = p
    <3>1. pc'[p] = "pipewrite" /\ arg'[p] = arg[p] /\ sleeps BY <1>12, <2>1, <2>3
    <3>2. Full(new) BY <2>2, <3>1, Levels
    <3>3. ~killed'[p] /\ pipes'[arg'[p].pipe] = new /\ new.readopen BY <1>3, <1>5, <1>6, <3>1
    <3> QED BY <2>3, <3>1, <3>2, <3>3 DEF Awake, Full
  <2>4. CASE r # p
    <3>1. state[r] = "SLEEPING" /\ pc'[r] = pc[r] /\ arg'[r] = arg[r] BY <1>12, <2>1, <2>4
    <3>2. CASE pc[r] = "piperead" /\ arg[r].pipe = k
      <4>1. ~killed[r] /\ q.writeopen BY <1>3, <3>1, <3>2 DEF IInv, NoLostWakeup
      <4>2. r \in S BY <3>1, <3>2 DEF Sleepers
      <4>3. UNCHANGED state /\ (~q.readopen \/ killed[p]) BY <1>7, <2>1, <2>4, <4>2
      <4>4. q.readopen BY <1>3, <3>2, Busy
      <4>5. left.kills BY <4>3, <4>4 DEF IInv, PlacesOK, PlaceOK
      <4> QED BY <1>5, <1>6, <3>1, <3>2, <4>1, <4>5 DEF Awake
    <3>3. CASE pc[r] = "pipewrite" /\ arg[r].pipe = k
      <4>1. ~killed[r] /\ q.readopen /\ Full(q) BY <1>3, <3>1, <3>3 DEF IInv, NoLostWakeup
      <4>2. Level(q) <= PIPESIZE BY <1>3 DEF IInv, LevelsOK
      <4>3. Level(q) = PIPESIZE BY <4>1, <4>2, Levels
      <4>4. Level(new) = PIPESIZE
        <5> DEFINE a == Level(q)
                   b == Level(new)
        <5>1. a = PIPESIZE /\ b = a + n /\ b <= PIPESIZE /\ n \in Nat /\ PIPESIZE \in Nat
          BY <1>3, <2>2, <4>3
        <5> HIDE DEF a, b
        <5>2. b = PIPESIZE BY <5>1
        <5> QED BY <5>2 DEF b
      <4>5. Full(new) BY <2>2, <4>4, Levels
      <4> QED BY <1>5, <1>6, <3>1, <3>3, <4>1, <4>5 DEF Awake, Full
    <3>4. CASE pc[r] \in {"piperead", "pipewrite"} /\ arg[r].pipe # k
      <4>1. arg[r].pipe \in Pipe BY <3>4, Busy
      <4>2. pipes'[arg[r].pipe] = pipes[arg[r].pipe] BY <1>6, <3>4, <4>1
      <4> QED BY <1>5, <3>1, <4>2 DEF IInv, NoLostWakeup, Awake, Empty, Full
    <3>5. CASE pc[r] \notin {"piperead", "pipewrite"}
      BY <1>5, <3>1, <3>5 DEF IInv, NoLostWakeup, Awake
    <3> QED BY <3>2, <3>3, <3>4, <3>5
  <2> QED BY <2>3, <2>4
<1>16. ASSUME NEW r \in Proc
       PROVE  /\ pc'[r] = "pipe" => pc[r] = "pipe"
              /\ pc'[r] = "pipeclose" <=> pc[r] = "pipeclose"
              /\ pc[r] = "pipeclose" => arg'[r] = arg[r]
  <2>1. CASE r = p BY <1>1, <1>12, <2>1
  <2>2. CASE r # p BY <1>12, <2>2
  <2> QED BY <2>1, <2>2
<1>17. Level(new) <= PIPESIZE BY <1>3
<1> QED BY <1>3, <1>5, <1>6, <1>11, <1>13, <1>14, <1>15, <1>16, <1>17, OnePipe

-----------------------------------------------------------------------------
(* pipe() done *)

\* The two files of a new pipe go into two descriptors, one from the hand, one from a free slot.
LEMMA MadeCounts ==
  ASSUME FilesAssumption, IInv, NEW p \in Proc, NEW rf \in File, NEW wf \in File,
         NEW x \in Fd, NEW y \in Fd, x # y, ofile[p][x] = NONE, ofile[p][y] = NONE,
         held[p] = <<rf>>, held' = [held EXCEPT ![p] = <<>>],
         ofile' = [ofile EXCEPT ![p] = [ofile[p] EXCEPT ![x] = rf, ![y] = wf]],
         \A f \in File : ftable'[f].ref = ftable[f].ref + One(wf, f)
  PROVE  FilesCounted'
<1> SUFFICES ASSUME NEW f \in File PROVE ftable'[f].ref = Refs(f)' BY DEF FilesCounted
<1> DEFINE u == <<p, x>>
           v == <<p, y>>
           a == Opened(ofile)
           c == Opened(ofile')
           m == [a EXCEPT ![u] = rf]
           A == Count(Places, a, f)
           M == Count(Places, m, f)
           C == Count(Places, c, f)
           b == Count(Hands, InHand(held), f)
           d == Count(Hands, InHand(held'), f)
           r == One(rf, f)
           w == One(wf, f)
<1>1. ftable[f].ref = A + b /\ Refs(f)' = C + d BY RefsAre DEF IInv, FilesCounted
<1>2. held \in [Proc -> Seq(File)] /\ ofile \in [Proc -> [Fd -> File \cup {NONE}]]
  BY DEF IInv, Typed, TypeOK
<1>3. b \in Nat /\ d \in Nat /\ d + r = b
  <2>1. held'[p] = <<>> /\ \A q \in Proc : q # p => held'[q] = held[q] BY <1>2
  <2>2. b \in Nat /\ d \in Nat BY <2>1, HandMoves
  <2>3. d + One(Nth(held[p], 1), f) + One(Nth(held[p], 2), f)
          = b + One(Nth(held'[p], 1), f) + One(Nth(held'[p], 2), f)
    BY <2>1, HandMoves
  <2>4. d + One(Nth(<<rf>>, 1), f) + One(Nth(<<rf>>, 2), f)
          = b + One(Nth(<<>>, 1), f) + One(Nth(<<>>, 2), f)
    BY <2>1, <2>3
  <2>5. /\ One(Nth(<<>>, 1), f) = 0 /\ One(Nth(<<>>, 2), f) = 0
        /\ One(Nth(<<rf>>, 1), f) = r /\ One(Nth(<<rf>>, 2), f) = 0 /\ r \in Nat
    BY NthOf DEF One
  <2> HIDE DEF b, d, r
  <2> QED BY <2>2, <2>4, <2>5
<1>4. u \in Places /\ v \in Places /\ u # v BY DEF Places
<1>5. a[u] = NONE /\ a[v] = NONE /\ c[u] = rf /\ c[v] = wf
  BY <1>2, <1>4 DEF Opened
<1>6. \A z \in Places : z # u /\ z # v => a[z] = c[z]
  <2> SUFFICES ASSUME NEW z \in Places, z # u, z # v PROVE a[z] = c[z] OBVIOUS
  <2>1. z[1] \in Proc /\ z[2] \in Fd /\ z = <<z[1], z[2]>> BY DEF Places
  <2>2. ofile'[z[1]][z[2]] = ofile[z[1]][z[2]] BY <1>2, <2>1
  <2> QED BY <2>2 DEF Opened
<1>7. DOMAIN a = Places BY DEF Opened
<1> HIDE DEF u, v, a, c
<1>8. Moves(Places, a, m, u) BY <1>4, <1>7 DEF Moves
<1>9. Moves(Places, m, c, v) BY <1>4, <1>5, <1>6, <1>7 DEF Moves
<1>10. m[u] = rf /\ m[v] = NONE BY <1>4, <1>5, <1>7
<1> HIDE DEF m
<1>11. A \in Nat /\ M \in Nat /\ M + One(a[u], f) = A + One(m[u], f)
  BY <1>8, CountMoves, FinitePlaces
<1>12. C \in Nat /\ C + One(m[v], f) = M + One(c[v], f)
  BY <1>9, CountMoves, FinitePlaces
<1>13. One(NONE, f) = 0 /\ r \in Nat /\ w \in Nat BY Constants DEF One
<1>14. M + 0 = A + r /\ C + 0 = M + w BY <1>5, <1>10, <1>11, <1>12, <1>13
<1>15. ftable'[f].ref = ftable[f].ref + w OBVIOUS
<1> HIDE DEF A, M, C, b, d, r, w
<1> QED BY <1>1, <1>3, <1>11, <1>12, <1>13, <1>14, <1>15

\* Two free descriptors, in order.
LEMMA TwoFree ==
  ASSUME FilesAssumption, NEW p \in Proc, Cardinality(FreeFds(p)) >= 2
  PROVE  LET x == Least(FreeFds(p))
             y == Least(FreeFds(p) \ {x})
         IN  x \in Fd /\ y \in Fd /\ x # y /\ ofile[p][x] = NONE /\ ofile[p][y] = NONE
<1> DEFINE S == FreeFds(p)
           x == Least(S)
           y == Least(S \ {x})
<1>1. S \in SUBSET Nat /\ S \in SUBSET Fd /\ \A e \in S : ofile[p][e] = NONE
  BY Constants DEF FreeFds
<1>2. IsFiniteSet(S)
  <2>1. NOFILE \in Int BY DEF FilesAssumption
  <2>2. IsFiniteSet(Fd) BY <2>1, FS_Interval DEF Fd
  <2> QED BY <1>1, <2>2, FS_Subset
<1>c. Cardinality(S) >= 2 /\ Cardinality(S) \in Nat BY <1>2, FS_CardinalityType
<1> HIDE DEF S
<1>3. S # {} BY <1>c, FS_EmptySet
<1>4. x \in S BY <1>1, <1>3, LeastIn
<1> HIDE DEF x
<1>5. Cardinality(S \ {x}) = Cardinality(S) - 1 /\ IsFiniteSet(S \ {x})
  BY <1>2, <1>4, FS_RemoveElement
<1>6. S \ {x} # {}
  <2>1. Cardinality(S \ {x}) # 0 BY <1>c, <1>5
  <2> QED BY <2>1, FS_EmptySet
<1>7. y \in S \ {x}
  <2>1. S \ {x} \in SUBSET Nat BY <1>1
  <2> QED BY <1>6, <2>1, LeastIn
<1> HIDE DEF y
<1>8. x \in Fd /\ y \in Fd /\ x # y /\ ofile[p][x] = NONE /\ ofile[p][y] = NONE
  BY <1>1, <1>4, <1>7
<1> QED BY <1>8 DEF x, y, S

\* The page of a new pipe.
NewPage == [NoPipe EXCEPT !.used = TRUE, !.readopen = TRUE, !.writeopen = TRUE]

\* pipe() made pipe k, with files rf and wf for its ends, in a new file record each.
Made(p, k, rf, wf) ==
  /\ ~pipes[k].used /\ pipes' = [pipes EXCEPT ![k] = NewPage]
  /\ held[p] = <<rf>> /\ rf # wf
  /\ ftable[rf].ref = 1 /\ ftable[rf].type = "NONE"
  /\ ftable[wf].ref = 0 /\ ftable[wf].type = "NONE"
  /\ ftable' = [ftable EXCEPT
       ![rf] = [ref |-> 1, type |-> "PIPE", pipe |-> k, writable |-> FALSE],
       ![wf] = [ref |-> 1, type |-> "PIPE", pipe |-> k, writable |-> TRUE]]

\* The two files get descriptors, or there are too few of these and both are closed.
Given(p, x, y, rf, wf) ==
  /\ x # y /\ ofile[p][x] = NONE /\ ofile[p][y] = NONE
  /\ ofile' = [ofile EXCEPT ![p] = [ofile[p] EXCEPT ![x] = rf, ![y] = wf]]
  /\ held' = [held EXCEPT ![p] = <<>>]
  /\ pc' = [pc EXCEPT ![p] = "user"]
Refused(p, rf, wf) ==
  /\ held' = [held EXCEPT ![p] = <<rf, wf>>]
  /\ pc' = [pc EXCEPT ![p] = "fileclose"]
  /\ UNCHANGED ofile

LEMMA PipeIs ==
  ASSUME FilesAssumption, IInv, NEW p \in Proc, PipeDone(p)
  PROVE  \E k \in Pipe, rf \in File, wf \in File :
           /\ Made(p, k, rf, wf)
           /\ (\E x, y \in Fd : Given(p, x, y, rf, wf)) \/ Refused(p, rf, wf)
<1>1. pc[p] = "pipe" /\ FreeFiles # {} /\ FreePipes # {} BY DEF PipeDone, At
<1>2. PICK k \in Pipe : k = Least(FreePipes) /\ ~pipes[k].used
  <2>1. FreePipes \in SUBSET Nat BY Constants DEF FreePipes
  <2>2. Least(FreePipes) \in FreePipes BY <1>1, <2>1, LeastIn
  <2> QED BY <2>2 DEF FreePipes
<1>3. PICK rf \in File : held[p] = <<rf>> BY <1>1, Hand
<1>4. rf = held[p][1] BY <1>3
<1>5. ftable[rf].ref = 1 /\ ftable[rf].type = "NONE" BY <1>1, <1>4 DEF IInv, FilesOK
<1>6. PICK wf \in File : wf = Least(FreeFiles) /\ ftable[wf].ref = 0 /\ ftable[wf].type = "NONE"
  BY <1>1, FreeSlot
<1>7. rf # wf BY <1>5, <1>6
<1>8. /\ pipes' = [pipes EXCEPT ![k] = NewPage]
      /\ ftable' = [ftable EXCEPT
           ![rf] = [ref |-> 1, type |-> "PIPE", pipe |-> k, writable |-> FALSE],
           ![wf] = [ref |-> 1, type |-> "PIPE", pipe |-> k, writable |-> TRUE]]
  BY <1>2, <1>4, <1>6 DEF PipeDone, NewPage
<1>11. Made(p, k, rf, wf) BY <1>2, <1>3, <1>5, <1>6, <1>7, <1>8 DEF Made
<1>9. CASE Cardinality(FreeFds(p)) >= 2
  <2>1. PICK x \in Fd, y \in Fd :
          /\ x = Least(FreeFds(p)) /\ y = Least(FreeFds(p) \ {x})
          /\ x # y /\ ofile[p][x] = NONE /\ ofile[p][y] = NONE
    BY <1>9, TwoFree
  <2>2. /\ ofile' = [ofile EXCEPT ![p][x] = rf, ![p][y] = wf]
        /\ held' = [held EXCEPT ![p] = <<>>] /\ pc' = [pc EXCEPT ![p] = "user"]
    BY <1>4, <1>6, <1>9, <2>1 DEF PipeDone, Go
  <2>3. ofile' = [ofile EXCEPT ![p] = [ofile[p] EXCEPT ![x] = rf, ![y] = wf]]
    <3>1. ofile \in [Proc -> [Fd -> File \cup {NONE}]] BY DEF IInv, Typed, TypeOK
    <3> QED BY <2>2, <3>1
  <2>4. Given(p, x, y, rf, wf) BY <2>1, <2>2, <2>3 DEF Given
  <2> QED BY <1>11, <2>4
<1>10. CASE ~(Cardinality(FreeFds(p)) >= 2)
  <2>1. Refused(p, rf, wf) BY <1>4, <1>6, <1>10 DEF PipeDone, Go, Refused
  <2> QED BY <1>11, <2>1
<1> QED BY <1>9, <1>10

LEMMA InvPipeDone ==
  ASSUME FilesAssumption, IInv, NEW p \in Proc, PipeDone(p)
  PROVE  IInv'
<1>0. /\ pc \in [Proc -> {"user", "pipe", "fileclose", "pipeclose", "piperead", "pipewrite",
                         "exit", "wait"}]
      /\ ftable \in [File -> FileRec] /\ held \in [Proc -> Seq(File)]
      /\ ofile \in [Proc -> [Fd -> File \cup {NONE}]] /\ pipes \in [Pipe -> PipeRec]
  BY DEF IInv, Typed, TypeOK
<1>1. /\ state[p] = "RUNNABLE" /\ pc[p] = "pipe"
      /\ UNCHANGED <<state, parent, killed, arg, todo, leaving, left>>
  BY DEF PipeDone, At, procs
<1>2. PICK k \in Pipe, rf \in File, wf \in File :
        /\ Made(p, k, rf, wf)
        /\ (\E x, y \in Fd : Given(p, x, y, rf, wf)) \/ Refused(p, rf, wf)
  BY PipeIs
<1>3. /\ held[p] = <<rf>> /\ rf # wf /\ held[p][1] = rf /\ held[p] # <<>> /\ Len(held[p]) <= 2
      /\ ftable[rf].ref = 1 /\ ftable[rf].type = "NONE"
      /\ ftable[wf].ref = 0 /\ ftable[wf].type = "NONE"
  BY <1>2 DEF Made, IInv, PlacesOK, PlaceOK
<1>4. /\ ftable' \in [File -> FileRec]
      /\ ftable'[rf] = [ref |-> 1, type |-> "PIPE", pipe |-> k, writable |-> FALSE]
      /\ ftable'[wf] = [ref |-> 1, type |-> "PIPE", pipe |-> k, writable |-> TRUE]
      /\ \A f \in File : f # rf /\ f # wf => ftable'[f] = ftable[f]
  <2>1. PICK a \in FileRec : a = [ref |-> 1, type |-> "PIPE", pipe |-> k, writable |-> FALSE]
    BY DEF FileRec
  <2>2. PICK b \in FileRec : b = [ref |-> 1, type |-> "PIPE", pipe |-> k, writable |-> TRUE]
    BY DEF FileRec
  <2>3. ftable' = [ftable EXCEPT ![rf] = a, ![wf] = b] BY <1>2, <2>1, <2>2 DEF Made
  <2>4. /\ ftable' \in [File -> FileRec] /\ ftable'[rf] = a /\ ftable'[wf] = b
        /\ \A f \in File : f # rf /\ f # wf => ftable'[f] = ftable[f]
    BY <1>0, <1>3, <2>3
  <2> QED BY <2>1, <2>2, <2>4
<1>5. /\ NewPage \in PipeRec /\ Level(NewPage) = 0
      /\ NewPage.used /\ NewPage.readopen /\ NewPage.writeopen
  <2>1. PICK n \in PipeRec : n = NoPipe BY NewPipe
  <2>2. NewPage = [n EXCEPT !.used = TRUE, !.readopen = TRUE, !.writeopen = TRUE]
    BY <2>1 DEF NewPage
  <2>3. /\ NewPage \in PipeRec /\ NewPage.used /\ NewPage.readopen /\ NewPage.writeopen
        /\ NewPage.nread = n.nread /\ NewPage.nwrite = n.nwrite
    BY <2>2 DEF PipeRec
  <2>4. Level(NewPage) = Level(n) BY <2>3 DEF Level
  <2> QED BY <2>1, <2>3, <2>4, NewPipe
<1>6. /\ ~pipes[k].used /\ pipes'[k] = NewPage /\ pipes' \in [Pipe -> PipeRec]
      /\ \A j \in Pipe : j # k => pipes'[j] = pipes[j]
  BY <1>0, <1>2, <1>5 DEF Made
<1>7. \A v \in BOOLEAN : ~EndHeld(k, v)
  <2>1. ~EndHeld(k, FALSE) /\ ~EndHeld(k, TRUE) BY <1>6 DEF IInv, PipesLive
  <2> QED BY <2>1
<1>8. /\ pc' \in [Proc -> {"user", "pipe", "fileclose", "pipeclose", "piperead", "pipewrite",
                          "exit", "wait"}]
      /\ pc'[p] \in {"user", "fileclose"} /\ \A q \in Proc : q # p => pc'[q] = pc[q]
      /\ \A q \in Proc : q # p => ofile'[q] = ofile[q] /\ held'[q] = held[q]
  BY <1>0, <1>2 DEF Given, Refused
<1>9. ASSUME NEW j \in Pipe, NEW v \in BOOLEAN
      PROVE  /\ \A f \in File : Stands(f, j, v)' <=>
                  Stands(f, j, v) \/ (j = k /\ ((f = rf /\ ~v) \/ (f = wf /\ v)))
             /\ \A q \in Proc : Closing(q, j, v)' <=> Closing(q, j, v)
  <2>1. ASSUME NEW f \in File
        PROVE  Stands(f, j, v)' <=>
                 Stands(f, j, v) \/ (j = k /\ ((f = rf /\ ~v) \/ (f = wf /\ v)))
    <3>1. CASE f = rf
      <4>1. ftable'[f].type = "PIPE" /\ ftable'[f].pipe = k /\ ftable'[f].writable = FALSE
        BY <1>4, <3>1
      <4>2. ~Stands(f, j, v) BY <1>3, <3>1 DEF Stands
      <4>3. CASE v = FALSE BY <1>3, <3>1, <4>1, <4>2, <4>3 DEF Stands
      <4>4. CASE v = TRUE BY <1>3, <3>1, <4>1, <4>2, <4>4 DEF Stands
      <4> QED BY <4>3, <4>4
    <3>2. CASE f = wf
      <4>1. ftable'[f].type = "PIPE" /\ ftable'[f].pipe = k /\ ftable'[f].writable = TRUE
        BY <1>4, <3>2
      <4>2. ~Stands(f, j, v) BY <1>3, <3>2 DEF Stands
      <4>3. CASE v = FALSE BY <1>3, <3>2, <4>1, <4>2, <4>3 DEF Stands
      <4>4. CASE v = TRUE BY <1>3, <3>2, <4>1, <4>2, <4>4 DEF Stands
      <4> QED BY <4>3, <4>4
    <3>3. CASE f # rf /\ f # wf BY <1>4, <3>3 DEF Stands
    <3> QED BY <3>1, <3>2, <3>3
  <2>2. ASSUME NEW q \in Proc PROVE Closing(q, j, v)' <=> Closing(q, j, v)
    BY <1>1, <1>8 DEF Closing
  <2> QED BY <2>1, <2>2
<1>10. \A v \in BOOLEAN : /\ \A f \in File : ~Stands(f, k, v)
                          /\ \A q \in Proc : ~Closing(q, k, v)
  BY <1>7, Holders
<1>11. EndsOK'
  <2>1. ASSUME NEW j \in Pipe, NEW v \in BOOLEAN
        PROVE  /\ \A f, g \in File : Stands(f, j, v)' /\ Stands(g, j, v)' => f = g
               /\ \A f \in File, r \in Proc : ~(Stands(f, j, v)' /\ Closing(r, j, v)')
               /\ \A r, s \in Proc : Closing(r, j, v)' /\ Closing(s, j, v)' => r = s
    <3>1. /\ \A f, g \in File : Stands(f, j, v) /\ Stands(g, j, v) => f = g
          /\ \A f \in File, r \in Proc : ~(Stands(f, j, v) /\ Closing(r, j, v))
          /\ \A r, s \in Proc : Closing(r, j, v) /\ Closing(s, j, v) => r = s
      BY DEF IInv, EndsOK
    <3>2. CASE j = k BY <1>9, <1>10, <3>2
    <3>3. CASE j # k BY <1>9, <3>1, <3>3
    <3> QED BY <3>2, <3>3
  <2> QED BY <2>1 DEF EndsOK
<1>12. ASSUME NEW j \in Pipe, NEW v \in BOOLEAN PROVE EndHeld(j, v)' <=> EndHeld(j, v) \/ j = k
  <2>1. CASE j = k
    <3>1. Stands(rf, k, FALSE)' /\ Stands(wf, k, TRUE)' BY <1>9
    <3>2. v = FALSE \/ v = TRUE OBVIOUS
    <3> QED BY <2>1, <3>1, <3>2, Holders
  <2>2. CASE j # k BY <1>9, <2>2, Holders
  <2> QED BY <2>1, <2>2
<1>13. ASSUME NEW j \in Pipe
       PROVE  /\ pipes'[j].readopen <=> EndHeld(j, FALSE)'
              /\ pipes'[j].writeopen <=> EndHeld(j, TRUE)'
              /\ pipes'[j].used <=> (pipes'[j].readopen \/ pipes'[j].writeopen)
  <2>1. (EndHeld(j, FALSE)' <=> EndHeld(j, FALSE) \/ j = k) /\ (EndHeld(j, TRUE)' <=> EndHeld(j, TRUE) \/ j = k)
    BY <1>12
  <2>2. CASE j = k BY <1>5, <1>6, <2>1, <2>2
  <2>3. CASE j # k
    <3>1. pipes'[j] = pipes[j] BY <1>6, <2>3
    <3> QED BY <2>1, <2>3, <3>1 DEF IInv, PipesLive
  <2> QED BY <2>2, <2>3
<1>14. LevelsOK'
  <2>1. 0 <= PIPESIZE BY DEF FilesAssumption
  <2>2. \A j \in Pipe : Level(pipes[j]) <= PIPESIZE /\ (~pipes[j].used => pipes[j] = NoPipe)
    BY DEF IInv, LevelsOK
  <2>3. ASSUME NEW j \in Pipe
        PROVE  Level(pipes'[j]) <= PIPESIZE /\ (~pipes'[j].used => pipes'[j] = NoPipe)
    BY <1>5, <1>6, <2>1, <2>2
  <2>4. \A j \in Pipe : Level(pipes[j])' = Level(pipes'[j]) BY DEF Level
  <2> QED BY <2>3, <2>4 DEF LevelsOK
<1>15. \A f \in File : ftable'[f].ref = ftable[f].ref + One(wf, f)
  <2>1. ASSUME NEW f \in File PROVE ftable'[f].ref = ftable[f].ref + One(wf, f)
    <3>1. ftable[f].ref \in Nat BY <1>0 DEF FileRec
    <3>2. CASE f = rf BY <1>3, <1>4, <3>2 DEF One
    <3>3. CASE f = wf BY <1>3, <1>4, <3>3 DEF One
    <3>4. CASE f # rf /\ f # wf BY <1>4, <3>1, <3>4 DEF One
    <3> QED BY <3>2, <3>3, <3>4
  <2> QED BY <2>1
<1>16. FilesCounted'
  <2>1. ASSUME NEW x \in Fd, NEW y \in Fd, Given(p, x, y, rf, wf) PROVE FilesCounted'
    BY <1>3, <1>15, <2>1, MadeCounts DEF Given
  <2>2. CASE Refused(p, rf, wf)
    <3>1. Append(held[p], wf) = <<rf, wf>>
      <4>1. Append(<<rf>>, wf) = <<rf, wf>> BY Pair
      <4> QED BY <1>3, <4>1
    <3>2. held' = [held EXCEPT ![p] = Append(held[p], wf)] /\ ofile' = ofile
      BY <2>2, <3>1 DEF Refused
    <3> QED BY <1>3, <1>15, <3>2, TakeCounts
  <2> QED BY <1>2, <2>1, <2>2
<1>17. /\ \A q \in Proc : \A fd \in Fd : ofile[q][fd] # rf /\ ofile[q][fd] # wf
       /\ \A q \in Proc : q # p /\ held[q] # <<>> => held[q][1] # rf /\ held[q][1] # wf
  <2>1. Typed /\ FilesCounted BY DEF IInv
  <2>2. ftable[held[p][1]].ref <= 1 BY <1>3
  <2>3. /\ \A q \in Proc : \A fd \in Fd : ofile[q][fd] # rf
        /\ \A q \in Proc : q # p /\ held[q] # <<>> => held[q][1] # rf
    BY <1>3, <2>1, <2>2, OnlyHand
  <2>4. /\ \A q \in Proc : \A fd \in Fd : ofile[q][fd] # wf
        /\ \A q \in Proc : held[q] # <<>> => held[q][1] # wf
    BY <1>3, <2>1, NoneLeft
  <2> QED BY <2>3, <2>4
<1>18. \A q \in Proc : \A e \in Fd : ofile[q][e] # NONE =>
         ofile[q][e] \in File /\ ftable'[ofile[q][e]] = ftable[ofile[q][e]]
  BY <1>4, <1>17, Descriptor
<1>19. ASSUME NEW q \in Proc, NEW e \in Fd
       PROVE  ofile'[q][e] = ofile[q][e] \/ ofile'[q][e] = rf \/ ofile'[q][e] = wf
  <2>1. ASSUME NEW x \in Fd, NEW y \in Fd, Given(p, x, y, rf, wf)
        PROVE  ofile'[q][e] = ofile[q][e] \/ ofile'[q][e] = rf \/ ofile'[q][e] = wf
    <3>1. ofile' = [ofile EXCEPT ![p] = [ofile[p] EXCEPT ![x] = rf, ![y] = wf]] BY <2>1 DEF Given
    <3>2. CASE q = p
      <4>1. ofile'[q] = [ofile[p] EXCEPT ![x] = rf, ![y] = wf] BY <1>0, <3>1, <3>2
      <4> QED BY <1>0, <3>2, <4>1
    <3>3. CASE q # p BY <1>0, <3>1, <3>3
    <3> QED BY <3>2, <3>3
  <2>2. CASE Refused(p, rf, wf) BY <2>2 DEF Refused
  <2> QED BY <1>2, <2>1, <2>2
<1>20. FilesOK'
  <2>1. ASSUME NEW f \in File, ftable'[f].type = "PIPE" PROVE ftable'[f].ref > 0 /\ ftable'[f].pipe \in Pipe
    <3>1. CASE f = rf BY <1>4, <3>1
    <3>2. CASE f = wf BY <1>4, <3>2
    <3>3. CASE f # rf /\ f # wf BY <1>4, <2>1, <3>3 DEF IInv, FilesOK
    <3> QED BY <3>1, <3>2, <3>3
  <2>2. ASSUME NEW q \in Proc, NEW e \in Fd, ofile'[q][e] # NONE
        PROVE  ftable'[ofile'[q][e]].type = "PIPE"
    <3>1. CASE ofile'[q][e] = rf BY <1>4, <3>1
    <3>2. CASE ofile'[q][e] = wf BY <1>4, <3>2
    <3>3. CASE ofile'[q][e] = ofile[q][e] BY <1>18, <2>2, <3>3, Descriptor
    <3> QED BY <1>19, <3>1, <3>2, <3>3
  <2>3. ASSUME NEW q \in Proc, pc'[q] = "pipe"
        PROVE  ftable'[held'[q][1]].ref = 1 /\ ftable'[held'[q][1]].type = "NONE"
    <3>1. q # p /\ pc[q] = "pipe" /\ held'[q] = held[q] BY <1>8, <2>3
    <3>2. PICK h \in File : held[q] = <<h>> BY <3>1, Hand
    <3>3. held[q][1] = h /\ held[q] # <<>> BY <3>2
    <3>4. h # rf /\ h # wf BY <1>17, <3>1, <3>3
    <3>5. ftable'[h] = ftable[h] BY <1>4, <3>4
    <3> QED BY <3>1, <3>3, <3>5 DEF IInv, FilesOK
  <2> QED BY <2>1, <2>2, <2>3 DEF FilesOK
<1>21. /\ ofile' \in [Proc -> [Fd -> File \cup {NONE}]] /\ held' \in [Proc -> Seq(File)]
       /\ Len(held'[p]) <= 2 /\ (pc'[p] = "user" => held'[p] = <<>>)
  <2>1. ASSUME NEW x \in Fd, NEW y \in Fd, Given(p, x, y, rf, wf)
        PROVE  /\ ofile' \in [Proc -> [Fd -> File \cup {NONE}]] /\ held' \in [Proc -> Seq(File)]
               /\ held'[p] = <<>>
    <3>1. <<>> \in Seq(File) OBVIOUS
    <3>2. [ofile[p] EXCEPT ![x] = rf, ![y] = wf] \in [Fd -> File \cup {NONE}] BY <1>0
    <3> QED BY <1>0, <2>1, <3>1, <3>2 DEF Given
  <2>2. CASE Refused(p, rf, wf)
    <3>1. <<rf, wf>> \in Seq(File) /\ Len(<<rf, wf>>) = 2 OBVIOUS
    <3>2. held' \in [Proc -> Seq(File)] /\ held'[p] = <<rf, wf>> /\ pc'[p] = "fileclose"
      BY <1>0, <2>2, <3>1 DEF Refused
    <3> QED BY <1>0, <2>2, <3>1, <3>2 DEF Refused
  <2>3. Len(<<>>) = 0 OBVIOUS
  <2> QED BY <1>2, <2>1, <2>2, <2>3
<1>22. Typed'
  <2>1. \A f \in File : ftable'[f].ref \in Nat /\ ftable'[f].pipe \in Pipe \cup {NONE}
    BY <1>4 DEF FileRec
  <2>2. TypeOK' BY <1>1, <1>8, <1>21, <2>1 DEF IInv, Typed, TypeOK
  <2> QED BY <1>1, <1>4, <1>6, <1>21, <2>2 DEF IInv, Typed
<1>23. ASSUME NEW q \in Proc PROVE PlaceOK(q)' /\ CallOK(q)' /\ Awake(q)'
  <2>1. CASE q = p
    <3>1. PlaceOK(p)'
      <4>1. killed'[p] => left'.kills BY <1>1 DEF IInv, PlacesOK, PlaceOK
      <4> QED BY <1>1, <1>8, <1>21, <4>1 DEF PlaceOK
    <3>2. CallOK(p)' BY <1>8 DEF CallOK
    <3>3. Awake(p)' BY <1>1 DEF Awake
    <3> QED BY <2>1, <3>1, <3>2, <3>3
  <2>2. CASE q # p
    <3>1. PlaceOK(q)' BY <1>1, <1>8, <2>2 DEF IInv, PlacesOK, PlaceOK
    <3>2. CallOK(q)' BY <1>1, <1>8, <1>18, <2>2, Untouched DEF SameKind
    <3>3. Awake(q)'
      <4>1. CASE pc[q] \in {"piperead", "pipewrite"}
        <5>1. arg[q].pipe \in Pipe /\ arg[q].pipe # k BY <1>6, <4>1, Busy
        <5>2. pipes'[arg[q].pipe] = pipes[arg[q].pipe] BY <1>6, <5>1
        <5> QED BY <1>1, <1>8, <2>2, <5>2 DEF IInv, NoLostWakeup, Awake, Empty, Full
      <4>2. CASE pc[q] \notin {"piperead", "pipewrite"}
        BY <1>1, <1>8, <2>2, <4>2 DEF IInv, NoLostWakeup, Awake
      <4> QED BY <4>1, <4>2
    <3> QED BY <3>1, <3>2, <3>3
  <2> QED BY <2>1, <2>2
<1> QED BY <1>11, <1>13, <1>14, <1>16, <1>20, <1>22, <1>23, Together

-----------------------------------------------------------------------------
(* The invariant *)

LEMMA InvInit ==
  ASSUME FilesAssumption, Init
  PROVE  IInv
<1>1. NoPipe \in PipeRec /\ Level(NoPipe) = 0 /\ ~NoPipe.used /\ ~NoPipe.readopen /\ ~NoPipe.writeopen
  BY NewPipe
<1>2. /\ \A p \in Proc : /\ state[p] = (IF p = initproc THEN "RUNNABLE" ELSE "UNUSED")
                         /\ parent[p] = NONE /\ killed[p] = FALSE /\ pc[p] = "user"
                         /\ held[p] = <<>> /\ arg[p] = NoArg /\ todo[p] = <<>> /\ leaving[p] = FALSE
                         /\ \A fd \in Fd : ofile[p][fd] = NONE
      /\ \A f \in File : ftable[f] = Closed
      /\ \A k \in Pipe : pipes[k] = NoPipe
      /\ left \in Budgets
  BY DEF Init
<1>3. Typed
  <2>1. TypeOK
    <3>1. \A f \in File : ftable[f].ref \in Nat /\ ftable[f].pipe \in Pipe \cup {NONE}
      BY <1>2 DEF Closed
    <3> QED BY <3>1 DEF Init, TypeOK
  <2>2. held \in [Proc -> Seq(File)] /\ todo \in [Proc -> Seq(Nat)]
    <3>1. <<>> \in Seq(File) /\ <<>> \in Seq(Nat) OBVIOUS
    <3> QED BY <3>1 DEF Init
  <2>3. arg \in [Proc -> ArgRec] BY DEF Init, NoArg, ArgRec
  <2>4. ftable \in [File -> FileRec] BY DEF Init, Closed, FileRec
  <2>5. pipes \in [Pipe -> PipeRec] BY <1>1 DEF Init
  <2>6. left \in [pipes : Nat, forks : Nat, calls : Nat, kills : BOOLEAN]
    BY <1>2 DEF FilesAssumption
  <2> QED BY <2>1, <2>2, <2>3, <2>4, <2>5, <2>6 DEF Init, Typed
<1>4. PlacesOK
  <2>1. Len(<<>>) = 0 OBVIOUS
  <2> QED BY <1>2, <2>1 DEF PlacesOK, PlaceOK
<1>5. FilesOK BY <1>2 DEF FilesOK, Closed
<1>6. /\ \A k, w : \A f \in File : ~Stands(f, k, w)
      /\ \A k, w : \A p \in Proc : ~Closing(p, k, w)
  BY <1>2 DEF Stands, Closing, Closed
<1>7. EndsOK BY <1>6 DEF EndsOK
<1>8. CallsOK BY <1>2 DEF CallsOK, CallOK
<1>9. LevelsOK
  <2>1. 0 <= PIPESIZE BY DEF FilesAssumption
  <2> QED BY <1>1, <1>2, <2>1 DEF LevelsOK
<1>10. FilesCounted
  <2> SUFFICES ASSUME NEW f \in File PROVE ftable[f].ref = Refs(f) BY DEF FilesCounted
  <2>1. f # NONE BY Constants
  <2> DEFINE a == Opened(ofile)
             h == InHand(held)
  <2>2. \A u \in Places : a[u] # f BY <1>2, <2>1 DEF Places, Opened
  <2>3. \A u \in Hands : h[u] # f
    <3>1. \A i : Nth(<<>>, i) = NONE BY DEF Nth
    <3>2. \A u \in Hands : held[u[1]] = <<>> BY <1>2 DEF Hands
    <3> QED BY <2>1, <3>1, <3>2 DEF InHand
  <2> HIDE DEF a, h
  <2>4. Count(Places, a, f) = 0 /\ Count(Hands, h, f) = 0
    BY <2>2, <2>3, FinitePlaces, CountSome
  <2>5. Refs(f) = Count(Places, a, f) + Count(Hands, h, f) BY RefsAre DEF a, h
  <2>6. ftable[f].ref = 0 BY <1>2 DEF Closed
  <2> QED BY <2>4, <2>5, <2>6
<1>11. PipesLive
  <2>1. ASSUME NEW k \in Pipe PROVE EndHeld(k, FALSE) = FALSE /\ EndHeld(k, TRUE) = FALSE
    BY <1>6 DEF EndHeld, Stands, Closing
  <2>2. ASSUME NEW k \in Pipe
        PROVE  /\ pipes[k].readopen = EndHeld(k, FALSE) /\ pipes[k].writeopen = EndHeld(k, TRUE)
               /\ pipes[k].used = (pipes[k].readopen \/ pipes[k].writeopen)
    <3>1. pipes[k].readopen = FALSE /\ pipes[k].writeopen = FALSE /\ pipes[k].used = FALSE
      BY <1>2 DEF NoPipe
    <3> QED BY <2>1, <3>1
  <2>3. \A p \in Proc : pc[p] \notin {"piperead", "pipewrite"} BY <1>2
  <2> QED BY <2>2, <2>3 DEF PipesLive
<1>12. NoLostWakeup BY <1>2 DEF NoLostWakeup
<1> QED BY <1>3, <1>4, <1>5, <1>7, <1>8, <1>9, <1>10, <1>11, <1>12 DEF IInv

LEMMA InvNext ==
  ASSUME FilesAssumption, IInv, [Next]_vars
  PROVE  IInv'
<1>1. ASSUME NEW p \in Proc, Continue(p) PROVE IInv'
  <2>1. CASE PipeFails(p) BY <2>1, InvPipeFails
  <2>2. CASE PipeDone(p) BY <2>2, InvPipeDone
  <2>3. CASE FileClose(p) BY <2>3, InvFileClose
  <2>4. CASE PipeClose(p) BY <2>4, InvPipeClose
  <2>5. CASE CloseNext(p) BY <2>5, InvCloseNext
  <2>6. CASE CloseDone(p) BY <2>6, InvCloseDone
  <2>7. CASE PipeReadSleep(p) BY <2>7, InvPipeReadSleep
  <2>8. CASE PipeRead(p) BY <2>8, InvPipeRead
  <2>9. CASE PipeWrite(p) BY <2>9, InvPipeWrite
  <2>10. CASE Exit(p) BY <2>10, InvExit
  <2>11. CASE Wait(p) BY <2>11, InvWait
  <2>12. CASE BeginExit(p) BY <2>12, InvBeginExit
  <2> QED BY <1>1, <2>1, <2>2, <2>3, <2>4, <2>5, <2>6, <2>7, <2>8, <2>9, <2>10, <2>11, <2>12
          DEF Continue
<1>2. ASSUME NEW p \in Proc, Call(p) PROVE IInv'
  <2>1. CASE PipeFirst(p) BY <2>1, InvPipeFirst
  <2>2. CASE Fork(p) BY <2>2, InvFork
  <2>3. CASE Wait(p) BY <2>3, InvWait
  <2>4. CASE BeginExit(p) BY <2>4, InvBeginExit
  <2>5. ASSUME NEW fd \in Fd, Close(p, fd) \/ Dup(p, fd) \/ Read(p, fd) \/ Write(p, fd) PROVE IInv'
    <3>1. CASE Close(p, fd) BY <3>1, InvClose
    <3>2. CASE Dup(p, fd) BY <3>2, InvDup
    <3>3. CASE Read(p, fd) BY <3>3, InvRead
    <3>4. CASE Write(p, fd) BY <3>4, InvWrite
    <3> QED BY <2>5, <3>1, <3>2, <3>3, <3>4
  <2>6. ASSUME NEW q \in Proc, Kill(p, q) PROVE IInv' BY <2>6, InvKill
  <2> QED BY <1>2, <2>1, <2>2, <2>3, <2>4, <2>5, <2>6 DEF Call
<1>3. CASE UNCHANGED vars
  <2>1. /\ UNCHANGED <<state, parent, killed, pc, held, arg, todo, leaving>>
        /\ UNCHANGED <<ofile, ftable, pipes, left>>
    BY <1>3 DEF vars, procs, call
  <2>2. Typed' BY <2>1 DEF IInv, Typed, TypeOK
  <2>3. ASSUME NEW q \in Proc PROVE PlaceOK(q)' /\ CallOK(q)' /\ Awake(q)'
    <3>1. PlaceOK(q)' BY <2>1 DEF IInv, PlacesOK, PlaceOK
    <3>2. CallOK(q)' BY <2>1 DEF IInv, CallsOK, CallOK, Stands
    <3>3. Awake(q)' BY <2>1 DEF IInv, NoLostWakeup, Awake, Empty, Full
    <3> QED BY <3>1, <3>2, <3>3
  <2> QED BY <2>1, <2>2, <2>3, Quiet
<1> QED BY <1>1, <1>2, <1>3 DEF Next

\* The parts of IInv hold in every state of a behaviour.
THEOREM Invariance == ASSUME FilesAssumption PROVE Spec => []IInv
<1>1. Init => IInv BY InvInit
<1>2. IInv /\ [Next]_vars => IInv' BY InvNext
<1> QED BY <1>1, <1>2, PTL DEF Spec

\* Types (the invariants that the runs check of MCServices, for every size).
THEOREM TypeCorrect == ASSUME FilesAssumption PROVE Spec => []TypeOK
<1>1. IInv => TypeOK BY DEF IInv, Typed
<1> QED BY <1>1, Invariance, PTL

\* filealloc, filedup and fileclose count the references to a file: the slot is free
\* exactly when no descriptor of a process and no call under way has it (file.c).
THEOREM ReferencesExact == ASSUME FilesAssumption PROVE Spec => []FilesCounted
<1>1. IInv => FilesCounted BY DEF IInv
<1> QED BY <1>1, Invariance, PTL

\* pipeclose frees the page with the last end: an end is open while a file or a pipeclose
\* under way stands for it, and a pipe that is read or written is there (pipe.c).
THEOREM EndsLive == ASSUME FilesAssumption PROVE Spec => []PipesLive
<1>1. IInv => PipesLive BY DEF IInv
<1> QED BY <1>1, Invariance, PTL

\* Nobody sleeps in piperead or pipewrite for what is there already, nor after kill.
THEOREM NobodyMissed == ASSUME FilesAssumption PROVE Spec => []NoLostWakeup
<1>1. IInv => NoLostWakeup BY DEF IInv
<1> QED BY <1>1, Invariance, PTL

-----------------------------------------------------------------------------
(* Pipes are streams *)

\* What the refinement map makes of the pipes.
Used    == {k \in Pipe : pipes[k].used}
Bytes   == [k \in Pipe |-> Stream(pipes[k])]
Writers == [k \in Pipe |-> EndHeld(k, TRUE)]

\* Who may write is what the flags say.
LEMMA WritersAre ==
  /\ IInv => Writers = [k \in Pipe |-> pipes[k].writeopen]
  /\ IInv' => Writers' = [k \in Pipe |-> pipes'[k].writeopen]
BY DEF IInv, PipesLive, Writers

\* A step that leaves the pipes leaves the streams.
LEMMA Still ==
  ASSUME IInv, IInv', pipes' = pipes
  PROVE  UNCHANGED Streams!vars
<1>1. Used' = Used /\ Bytes' = Bytes BY DEF Used, Bytes, Stream, Level
<1>2. Writers' = Writers BY WritersAre
<1> QED BY <1>1, <1>2 DEF Streams!vars, Used, Bytes, Writers

\* What a step that turns pipe k into new does to the streams.
LEMMA Turned ==
  ASSUME IInv, IInv', NEW k \in Pipe, NEW new \in PipeRec, pipes' = [pipes EXCEPT ![k] = new]
  PROVE  /\ Used' = IF new.used THEN Used \cup {k} ELSE Used \ {k}
         /\ Bytes' = [Bytes EXCEPT ![k] = Stream(new)]
         /\ Writers' = [Writers EXCEPT ![k] = new.writeopen]
         /\ (k \in Used <=> pipes[k].used) /\ Bytes[k] = Stream(pipes[k])
         /\ Writers[k] = pipes[k].writeopen
         /\ new.used = pipes[k].used => Used' = Used
         /\ Stream(new) = Stream(pipes[k]) => Bytes' = Bytes
         /\ new.writeopen = pipes[k].writeopen => Writers' = Writers
<1>1. pipes'[k] = new /\ \A j \in Pipe : j # k => pipes'[j] = pipes[j] BY DEF IInv, Typed
<1>2. Used' = IF new.used THEN Used \cup {k} ELSE Used \ {k} BY <1>1 DEF Used
<1>3. Bytes' = [Bytes EXCEPT ![k] = Stream(new)]
  <2>1. \A j \in Pipe : Stream(pipes[j])' = Stream(pipes'[j]) BY DEF Stream, Level
  <2>2. Bytes' = [j \in Pipe |-> Stream(pipes'[j])] BY <2>1 DEF Bytes
  <2>3. \A j \in Pipe : Stream(pipes'[j]) = IF j = k THEN Stream(new) ELSE Stream(pipes[j])
    BY <1>1
  <2> QED BY <2>2, <2>3 DEF Bytes
<1>4. Writers' = [Writers EXCEPT ![k] = new.writeopen] BY <1>1, WritersAre
<1>5. /\ (k \in Used <=> pipes[k].used) /\ Bytes[k] = Stream(pipes[k])
      /\ Writers[k] = pipes[k].writeopen
  BY WritersAre DEF Used, Bytes
<1>6. new.used = pipes[k].used => Used' = Used BY <1>2, <1>5
<1>7. Stream(new) = Stream(pipes[k]) => Bytes' = Bytes BY <1>3, <1>5 DEF Bytes
<1>8. new.writeopen = pipes[k].writeopen => Writers' = Writers BY <1>4, <1>5 DEF Writers
<1> QED BY <1>2, <1>3, <1>4, <1>5, <1>6, <1>7, <1>8

\* The steps of ByteStreams in terms of the map.
LEMMA StreamSteps ==
  ASSUME NEW k \in Pipe
  PROVE  /\ k \notin Used /\ Used' = Used \cup {k} /\ Writers' = [Writers EXCEPT ![k] = TRUE]
           /\ Bytes' = Bytes => Streams!Open(k)
         /\ k \in Used /\ Writers[k] /\ Writers' = [Writers EXCEPT ![k] = FALSE]
           /\ Used' = Used /\ Bytes' = Bytes => Streams!NoMoreWriters(k)
         /\ k \in Used /\ Used' = Used \ {k} /\ Bytes' = [Bytes EXCEPT ![k] = <<>>]
           /\ Writers' = [Writers EXCEPT ![k] = FALSE] => Streams!Close(k)
         /\ Used' = Used /\ Bytes' = Bytes /\ Writers' = Writers => UNCHANGED Streams!vars
BY DEF Streams!Open, Streams!NoMoreWriters, Streams!Close, Streams!vars, Used, Bytes, Writers

LEMMA ReadStep ==
  ASSUME NEW k \in Pipe, k \in Used, Used' = Used, Writers' = Writers,
         NEW n \in Nat, n <= Len(Bytes[k]), Bytes[k] \in Seq(Nat),
         Bytes' = [Bytes EXCEPT ![k] = SubSeq(Bytes[k], n + 1, Len(Bytes[k]))]
  PROVE  Streams!Read(k)
<1> DEFINE s == Bytes[k]
           rest == SubSeq(s, n + 1, Len(s))
<1>1. rest \in Streams!Suffixes(s)
  <2>1. CASE n < Len(s)
    <3>1. n + 1 \in 1 .. Len(s) BY <2>1
    <3> HIDE DEF s
    <3> QED BY <3>1 DEF Streams!Suffixes
  <2>2. CASE n = Len(s)
    <3>1. rest = <<>> BY <2>2
    <3> QED BY <3>1 DEF Streams!Suffixes
  <2> QED BY <2>1, <2>2
<1>2. \E t \in Streams!Suffixes(Bytes[k]) : Bytes' = [Bytes EXCEPT ![k] = t] BY <1>1
<1> QED BY <1>2 DEF Streams!Read, Used, Bytes, Writers

LEMMA WriteStep ==
  ASSUME NEW k \in Pipe, k \in Used, Writers[k], Used' = Used, Writers' = Writers,
         NEW bytes \in Writes, NEW i \in 1 .. Len(bytes), NEW j \in 1 .. Len(bytes), i <= j,
         Len(Bytes[k]) + j - i < PIPESIZE,
         Bytes' = [Bytes EXCEPT ![k] = Bytes[k] \o SubSeq(bytes, i, j)]
  PROVE  Streams!Write(k)
<1>1. \E e, g \in 1 .. Len(bytes) :
        /\ e <= g /\ Len(Bytes[k]) + g - e < PIPESIZE
        /\ Bytes' = [Bytes EXCEPT ![k] = Bytes[k] \o SubSeq(bytes, e, g)]
  OBVIOUS
<1> QED BY <1>1 DEF Streams!Write, Used, Bytes, Writers

\* A pipe without bytes has the empty stream.
LEMMA NoBytes ==
  ASSUME FilesAssumption, NEW q \in PipeRec, Level(q) = 0
  PROVE  Stream(q) = <<>>
<1>1. Stream(q) \in Seq(Nat) /\ Len(Stream(q)) = 0 BY StreamIs
<1> QED BY <1>1, EmptySeq

LEMMA MapPipeDone ==
  ASSUME FilesAssumption, IInv, IInv', NEW p \in Proc, PipeDone(p)
  PROVE  Streams!Next
<1>1. PICK k \in Pipe : ~pipes[k].used /\ pipes' = [pipes EXCEPT ![k] = NewPage]
  BY PipeIs DEF Made
<1>2. PICK n \in PipeRec : n = NoPipe /\ Level(n) = 0 BY NewPipe
<1>3. PICK m \in PipeRec : m = NewPage /\ m.used /\ m.writeopen /\ Level(m) = 0
  <2>1. NewPage = [n EXCEPT !.used = TRUE, !.readopen = TRUE, !.writeopen = TRUE]
    BY <1>2 DEF NewPage
  <2>2. /\ NewPage \in PipeRec /\ NewPage.used /\ NewPage.writeopen /\ NewPage.writeopen = TRUE
        /\ NewPage.nread = n.nread /\ NewPage.nwrite = n.nwrite
    BY <2>1 DEF PipeRec
  <2> QED BY <1>2, <2>2 DEF Level
<1>4. pipes[k] = n BY <1>1, <1>2 DEF IInv, LevelsOK
<1>5. Stream(m) = <<>> /\ Stream(pipes[k]) = <<>> BY <1>2, <1>3, <1>4, NoBytes
<1>6. pipes' = [pipes EXCEPT ![k] = m] BY <1>1, <1>3
<1>7. /\ k \notin Used /\ Used' = Used \cup {k} /\ Writers' = [Writers EXCEPT ![k] = m.writeopen]
      /\ Bytes' = Bytes
  BY <1>1, <1>3, <1>5, <1>6, Turned
<1>8. m.writeopen = TRUE BY <1>3 DEF PipeRec
<1>9. Streams!Open(k) BY <1>7, <1>8, StreamSteps
<1> QED BY <1>9 DEF Streams!Next

LEMMA MapPipeRead ==
  ASSUME FilesAssumption, IInv, IInv', NEW p \in Proc, PipeRead(p)
  PROVE  Streams!Next
<1>1. PICK k \in Pipe, n \in Nat : Took(p, k, n) BY ReadIs
<1>2. PICK q \in PipeRec : q = pipes[k] BY DEF IInv, Typed
<1>3. q.used /\ n \in 0 .. Level(q) /\ pipes' = [pipes EXCEPT ![k] = Taken(q, n)]
  BY <1>1, <1>2 DEF Took
<1>4. PICK new \in PipeRec : new = Taken(q, n) /\ new = [q EXCEPT !.nread = new.nread]
                             /\ Stream(new) = SubSeq(Stream(q), n + 1, Level(q))
  BY <1>3, TakenIs
<1>5. new.used = q.used /\ new.writeopen = q.writeopen BY <1>4 DEF PipeRec
<1>6. pipes' = [pipes EXCEPT ![k] = new] BY <1>3, <1>4
<1>7. /\ k \in Used /\ Used' = Used /\ Writers' = Writers
      /\ Bytes' = [Bytes EXCEPT ![k] = Stream(new)] /\ Bytes[k] = Stream(q)
  BY <1>2, <1>3, <1>5, <1>6, Turned
<1>8. Stream(q) \in Seq(Nat) /\ Len(Stream(q)) = Level(q) /\ Level(q) \in Nat BY StreamIs, Levels
<1>9. n <= Len(Bytes[k]) BY <1>3, <1>7, <1>8
<1>10. Bytes' = [Bytes EXCEPT ![k] = SubSeq(Bytes[k], n + 1, Len(Bytes[k]))]
  BY <1>4, <1>7, <1>8
<1>11. Streams!Read(k) BY <1>7, <1>8, <1>9, <1>10, ReadStep
<1> QED BY <1>11 DEF Streams!Next

LEMMA MapPipeWrite ==
  ASSUME FilesAssumption, IInv, IInv', NEW p \in Proc, PipeWrite(p)
  PROVE  Streams!Next \/ UNCHANGED Streams!vars
<1>1. PICK k \in Pipe, q \in PipeRec, new \in PipeRec, n \in Nat, bytes \in Writes :
        \E i \in 1 .. Len(bytes) + 1 : Wrote(p, k, q, new, n, bytes, i)
  BY WriteIs
<1>2. PICK i \in 1 .. Len(bytes) + 1 : Wrote(p, k, q, new, n, bytes, i) BY <1>1
<1>3. /\ k = arg[p].pipe /\ q = pipes[k] /\ q.used /\ i + n \in 1 .. Len(bytes) + 1
      /\ pipes' = [pipes EXCEPT ![k] = new]
      /\ Level(q) + n <= PIPESIZE
      /\ Stream(new) = Stream(q) \o SubSeq(bytes, i, i + n - 1)
      /\ new.used = q.used /\ new.writeopen = q.writeopen
  BY <1>2 DEF Wrote
<1>4. q.writeopen
  <2>1. pc[p] = "pipewrite" BY DEF PipeWrite, At
  <2> QED BY <1>3, <2>1, Busy
<1>5. /\ k \in Used /\ Writers[k] /\ Used' = Used /\ Writers' = Writers
      /\ Bytes' = [Bytes EXCEPT ![k] = Stream(new)] /\ Bytes[k] = Stream(q)
      /\ Stream(new) = Stream(q) => Bytes' = Bytes
  BY <1>3, <1>4, Turned
<1>6. Stream(q) \in Seq(Nat) /\ Len(Stream(q)) = Level(q) /\ Level(q) \in Nat BY StreamIs, Levels
<1>7. Len(bytes) \in Nat /\ PIPESIZE \in Nat BY DEF FilesAssumption
<1>8. CASE n = 0
  <2>1. i + n - 1 = i - 1 BY <1>8
  <2>2. SubSeq(bytes, i, i - 1) = <<>> BY <1>7
  <2>3. Stream(q) \o <<>> = Stream(q) BY <1>6
  <2>4. Bytes' = Bytes BY <1>3, <1>5, <2>1, <2>2, <2>3
  <2> QED BY <1>5, <2>4, StreamSteps
<1>9. CASE n # 0
  <2> DEFINE j == i + n - 1
             l == Level(q)
  <2>1. i \in 1 .. Len(bytes) /\ j \in 1 .. Len(bytes) /\ i <= j
    <3> DEFINE M == Len(bytes)
    <3>1. M \in Nat /\ i \in 1 .. M + 1 /\ i + n \in 1 .. M + 1 /\ n \in Nat /\ n # 0 BY <1>3, <1>7, <1>9
    <3> HIDE DEF M
    <3>2. i \in 1 .. M /\ j \in 1 .. M /\ i <= j BY <3>1
    <3> QED BY <3>2 DEF M
  <2>2. l + j - i < PIPESIZE
    <3>1. l \in Nat /\ l + n <= PIPESIZE BY <1>3, <1>6
    <3> HIDE DEF l
    <3> QED BY <1>7, <1>9, <3>1
  <2>3. Len(Bytes[k]) = l BY <1>5, <1>6
  <2>4. Bytes' = [Bytes EXCEPT ![k] = Bytes[k] \o SubSeq(bytes, i, j)] BY <1>3, <1>5
  <2> HIDE DEF j, l
  <2>5. Len(Bytes[k]) + j - i < PIPESIZE BY <2>2, <2>3
  <2>6. Streams!Write(k) BY <1>5, <2>1, <2>4, <2>5, WriteStep
  <2> QED BY <2>6 DEF Streams!Next
<1> QED BY <1>8, <1>9

LEMMA MapPipeClose ==
  ASSUME FilesAssumption, IInv, IInv', NEW p \in Proc, PipeClose(p)
  PROVE  Streams!Next \/ UNCHANGED Streams!vars
<1> DEFINE d == arg[p]
<1>1. pc[p] = "pipeclose" BY DEF PipeClose, PipeCloseThen, At
<1>2. PICK k \in Pipe, w \in BOOLEAN : d = [pipe |-> k, writable |-> w]
  <2>1. d.pipe \in Pipe BY <1>1 DEF IInv, CallsOK, CallOK
  <2>2. d.writable \in BOOLEAN /\ d = [pipe |-> d.pipe, writable |-> d.writable]
    BY DEF IInv, Typed, ArgRec
  <2> QED BY <2>1, <2>2
<1>3. d.pipe = k /\ d.writable = w BY <1>2
<1>4. PICK q : /\ q = EndClosed(d)
               /\ pipes' = [pipes EXCEPT ![k] = IF ~q.readopen /\ ~q.writeopen THEN NoPipe ELSE q]
  BY <1>3 DEF PipeClose, PipeCloseThen
<1>5. PICK old \in PipeRec : old = pipes[k] BY DEF IInv, Typed
<1>6. /\ q \in PipeRec /\ q.used = old.used /\ q.nread = old.nread /\ q.nwrite = old.nwrite
      /\ q.data = old.data /\ q.writeopen = (IF w THEN FALSE ELSE old.writeopen)
  <2>1. CASE w
    <3>1. q = [old EXCEPT !.writeopen = FALSE] BY <1>3, <1>4, <1>5, <2>1 DEF EndClosed
    <3> QED BY <2>1, <3>1 DEF PipeRec
  <2>2. CASE ~w
    <3>1. q = [old EXCEPT !.readopen = FALSE] BY <1>3, <1>4, <1>5, <2>2 DEF EndClosed
    <3> QED BY <2>2, <3>1 DEF PipeRec
  <2> QED BY <2>1, <2>2
<1>7. Closing(p, k, w) BY <1>1, <1>2 DEF Closing
<1>8. EndHeld(k, w) BY <1>7, Holders
<1>9. old.used /\ (w => old.writeopen) BY <1>5, <1>8 DEF IInv, PipesLive
<1>10. CASE ~q.readopen /\ ~q.writeopen
  <2>1. PICK n \in PipeRec : n = NoPipe /\ Level(n) = 0 /\ ~n.used /\ ~n.writeopen BY NewPipe
  <2>2. pipes' = [pipes EXCEPT ![k] = n] BY <1>4, <1>10, <2>1
  <2>3. n.writeopen = FALSE /\ Stream(n) = <<>> BY <2>1, NoBytes DEF PipeRec
  <2>4. /\ k \in Used /\ Used' = Used \ {k} /\ Bytes' = [Bytes EXCEPT ![k] = <<>>]
        /\ Writers' = [Writers EXCEPT ![k] = FALSE]
    BY <1>5, <1>9, <2>1, <2>2, <2>3, Turned
  <2>5. Streams!Close(k) BY <2>4, StreamSteps
  <2> QED BY <2>5 DEF Streams!Next
<1>11. CASE ~(~q.readopen /\ ~q.writeopen)
  <2>1. pipes' = [pipes EXCEPT ![k] = q] BY <1>4, <1>11
  <2>2. Stream(q) = Stream(old) BY <1>6 DEF Stream, Level
  <2>3. /\ k \in Used /\ Used' = Used /\ Bytes' = Bytes
        /\ Writers[k] = old.writeopen /\ Writers' = [Writers EXCEPT ![k] = q.writeopen]
        /\ q.writeopen = old.writeopen => Writers' = Writers
    BY <1>5, <1>6, <1>9, <2>1, <2>2, Turned
  <2>4. CASE w
    <3>1. q.writeopen = FALSE /\ Writers[k] BY <1>6, <1>9, <2>3, <2>4
    <3>2. Streams!NoMoreWriters(k) BY <2>3, <3>1, StreamSteps
    <3> QED BY <3>2 DEF Streams!Next
  <2>5. CASE ~w
    <3>1. q.writeopen = old.writeopen BY <1>6, <2>5
    <3> QED BY <2>3, <3>1, StreamSteps
  <2> QED BY <2>4, <2>5
<1> QED BY <1>10, <1>11

\* Each step of the files is a step of the streams, or leaves them.
LEMMA MapNext ==
  ASSUME FilesAssumption, IInv, IInv', [Next]_vars
  PROVE  Streams!Next \/ UNCHANGED Streams!vars
<1>1. ASSUME NEW p \in Proc, Continue(p) PROVE Streams!Next \/ UNCHANGED Streams!vars
  <2>1. CASE PipeDone(p) BY <2>1, MapPipeDone
  <2>2. CASE PipeClose(p) BY <2>2, MapPipeClose
  <2>3. CASE PipeRead(p) BY <2>3, MapPipeRead
  <2>4. CASE PipeWrite(p) BY <2>4, MapPipeWrite
  <2>5. CASE ~PipeDone(p) /\ ~PipeClose(p) /\ ~PipeRead(p) /\ ~PipeWrite(p)
    <3>1. pipes' = pipes
      BY <1>1, <2>5 DEF Continue, PipeFails, FileClose, CloseNext, CloseDone, PipeReadSleep, Exit,
         Wait, BeginExit
    <3> QED BY <3>1, Still
  <2> QED BY <2>1, <2>2, <2>3, <2>4, <2>5
<1>2. ASSUME NEW p \in Proc, Call(p) PROVE UNCHANGED Streams!vars
  <2>1. pipes' = pipes
    BY <1>2 DEF Call, PipeFirst, Fork, Wait, BeginExit, Close, Dup, Read, Write, Enter, Kill
  <2> QED BY <2>1, Still
<1>3. CASE UNCHANGED vars
  <2>1. pipes' = pipes BY <1>3 DEF vars
  <2> QED BY <2>1, Still
<1> QED BY <1>1, <1>2, <1>3 DEF Next

LEMMA MapInit ==
  ASSUME FilesAssumption, Init
  PROVE  Streams!Init
<1>1. IInv BY InvInit
<1>2. PICK n \in PipeRec : n = NoPipe /\ Level(n) = 0 /\ ~n.used /\ ~n.writeopen BY NewPipe
<1>3. \A k \in Pipe : pipes[k] = n BY <1>2 DEF Init
<1>4. Used = {} BY <1>2, <1>3 DEF Used
<1>5. Bytes = [k \in Pipe |-> <<>>]
  <2>1. Stream(n) = <<>> BY <1>2, NoBytes
  <2> QED BY <1>3, <2>1 DEF Bytes
<1>6. Writers = [k \in Pipe |-> FALSE]
  <2>1. n.writeopen = FALSE BY <1>2 DEF PipeRec
  <2> QED BY <1>1, <1>3, <2>1, WritersAre
<1> QED BY <1>4, <1>5, <1>6 DEF Streams!Init, Used, Bytes, Writers

\* pipewrite and piperead implement a stream of bytes (ByteStreams): what is written comes
\* out in order and once, at most PIPESIZE bytes are under way, and nothing is added when
\* nobody can write (pipe.c).
THEOREM StreamsAlways == ASSUME FilesAssumption PROVE Spec => PipesAreStreams
<1>1. Init => Streams!Init BY MapInit
<1>2. IInv /\ IInv' /\ [Next]_vars => [Streams!Next]_(Streams!vars) BY MapNext
<1> QED BY <1>1, <1>2, Invariance, PTL DEF Spec, PipesAreStreams, Streams!Spec
=============================================================================
