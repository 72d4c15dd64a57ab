------------------------------- MODULE Console -------------------------------
(***************************************************************************)
(* The console of project01 (console.c): the keyboard interrupt edits the  *)
(* last line of a ring of characters and echoes it on the screen, where    *)
(* processes and the kernel write too, and processes read the lines that   *)
(* were entered.  An action is one section under cons.lock; an interrupt   *)
(* handles one key.                                                        *)
(***************************************************************************)
EXTENDS Naturals, Sequences, FiniteSets, SequencesExt

CONSTANTS
  Proc,
  INPUT_BUF,   \* characters in the ring: 128
  Wrap,        \* the indices r, w and e are counted modulo Wrap: 2^32
  COLS, ROWS,  \* the screen: 80 columns, 24 rows and one that is scrolled away
  Letter, NL, EOT, Blank,
  Lengths,     \* the lengths that processes read
  Outputs,     \* what processes and the kernel write, sequences of characters
  MaxKeys      \* a bound of the model: keys pressed and outputs

ConsoleAssumption ==
  /\ {INPUT_BUF, COLS, ROWS} \subseteq Nat \ {0} /\ MaxKeys \in Nat
  /\ Wrap \in Nat /\ Wrap > INPUT_BUF /\ Wrap % INPUT_BUF = 0

VARIABLES
  buf, r, w, e,      \* input: the ring, its read, write and edit index
  screen,            \* its memory, crt, and the cursor, pos
  reader, want, got, \* per process: its state, what n is in consoleread, and target - n
  killed,
  keys,              \* keys pressed and outputs so far
  fresh              \* an auxiliary: characters of the line echoed after the last output

input  == <<buf, r, w, e>>
readers == <<reader, want, got, killed>>
vars   == <<input, screen, readers, keys, fresh>>

Init ==
  /\ buf = [i \in 0 .. INPUT_BUF - 1 |-> Blank] /\ r = 0 /\ w = 0 /\ e = 0
  /\ screen = [crt |-> [i \in 0 .. (ROWS + 1) * COLS - 1 |-> Blank], pos |-> 0]
  /\ reader = [p \in Proc |-> "user"] /\ want = [p \in Proc |-> 0]
  /\ got = [p \in Proc |-> 0] /\ killed = [p \in Proc |-> FALSE]
  /\ keys = 0 /\ fresh = 0

-----------------------------------------------------------------------------
(* cgaputc *)

Slot(i)     == i % INPUT_BUF
Plus(i, n)  == (i + n) % Wrap
Minus(i, j) == (i + Wrap - j) % Wrap

crt == screen.crt
pos == screen.pos

\* The screen with the cursor at n, scrolled up by a row when it left the last one.
Scrolled(cells, n) ==
  IF n \div COLS < ROWS THEN [crt |-> [cells EXCEPT ![n] = Blank], pos |-> n]
  ELSE [crt |-> [i \in DOMAIN cells |->
                   IF i < n - COLS THEN cells[i + COLS]
                   ELSE IF i < ROWS * COLS THEN Blank ELSE cells[i]],
        pos |-> n - COLS]

\* The screen s with one more character, and the screen after n backspaces.
Shown(s, c) == IF c = NL THEN Scrolled(s.crt, s.pos + COLS - (s.pos % COLS))
                         ELSE Scrolled([s.crt EXCEPT ![s.pos] = c], s.pos + 1)
Erased(n) == LET to == IF n <= pos THEN pos - n ELSE 0
             IN  [crt |-> [i \in DOMAIN crt |-> IF i \in to .. pos THEN Blank ELSE crt[i]],
                  pos |-> to]

-----------------------------------------------------------------------------
(* consoleintr *)

Less(i, j) == IF j <= i THEN i - j ELSE 0

Waiting == {p \in Proc : reader[p] = "sleep"}

\* A mutant: the ring may hold one character too many.
KeyOverruns(c) ==
  LET e1 == Plus(e, 1) IN
  /\ keys < MaxKeys /\ keys' = keys + 1 /\ Minus(e, r) <= INPUT_BUF
  /\ buf' = [buf EXCEPT ![Slot(e)] = c]
  /\ e' = e1 /\ UNCHANGED r
  /\ screen' = Shown(screen, c)
  /\ IF c \in {NL, EOT} \/ Minus(e1, r) = INPUT_BUF
     THEN /\ w' = e1
          /\ reader' = [p \in Proc |-> IF p \in Waiting THEN "read" ELSE reader[p]]
          /\ fresh' = 0
     ELSE fresh' = fresh + 1 /\ UNCHANGED <<w, reader>>
  /\ UNCHANGED <<want, got, killed>>

\* Any other key: dropped when the ring is full, and the line is entered by a newline,
\* an end of file or the last free character.
Key(c) ==
  LET e1 == Plus(e, 1) IN
  /\ keys < MaxKeys /\ keys' = keys + 1 /\ Minus(e, r) < INPUT_BUF
  /\ buf' = [buf EXCEPT ![Slot(e)] = c]
  /\ e' = e1 /\ UNCHANGED r
  /\ screen' = Shown(screen, c)
  /\ IF c \in {NL, EOT} \/ Minus(e1, r) = INPUT_BUF
     THEN /\ w' = e1
          /\ reader' = [p \in Proc |-> IF p \in Waiting THEN "read" ELSE reader[p]]
          /\ fresh' = 0
     ELSE fresh' = fresh + 1 /\ UNCHANGED <<w, reader>>
  /\ UNCHANGED <<want, got, killed>>

\* Two mutants: a backspace goes beyond the line, or is not shown.
BackspaceEntered ==
  /\ keys < MaxKeys /\ keys' = keys + 1 /\ e # r
  /\ e' = Minus(e, 1) /\ w' = IF w = e THEN e' ELSE w
  /\ screen' = Erased(1) /\ fresh' = Less(fresh, 1)
  /\ UNCHANGED <<buf, r, readers>>

BackspaceUnseen ==
  /\ keys < MaxKeys /\ keys' = keys + 1 /\ e # w
  /\ e' = Minus(e, 1)
  /\ fresh' = Less(fresh, 1) /\ UNCHANGED <<buf, r, w, screen, readers>>

Backspace ==
  /\ keys < MaxKeys /\ keys' = keys + 1 /\ e # w
  /\ e' = Minus(e, 1)
  /\ screen' = Erased(1) /\ fresh' = Less(fresh, 1)
  /\ UNCHANGED <<buf, r, w, readers>>

\* Control-U, back to the last newline or what was entered.
KillLine ==
  LET stops == {n \in 1 .. Minus(e, w) : buf[Slot(Minus(e, n))] = NL}
      n == IF stops = {} THEN Minus(e, w) ELSE (CHOOSE k \in stops : \A j \in stops : k <= j) - 1
  IN
  /\ keys < MaxKeys /\ keys' = keys + 1 /\ e # w
  /\ e' = Minus(e, n)
  /\ screen' = Erased(n) /\ fresh' = Less(fresh, n)
  /\ UNCHANGED <<buf, r, w, readers>>

-----------------------------------------------------------------------------
(* consolewrite, and cprintf and procdump in the kernel *)

\* All of it under the lock, wherever the cursor stands: also within the line being edited.
Consolewrite(s) ==
  /\ keys < MaxKeys /\ keys' = keys + 1
  /\ screen' = FoldLeft(Shown, screen, s) /\ fresh' = 0
  /\ UNCHANGED <<input, readers>>

-----------------------------------------------------------------------------
(* consoleread *)

Read(p, n) ==
  /\ reader[p] = "user" /\ ~killed[p]
  /\ reader' = [reader EXCEPT ![p] = "read"]
  /\ want' = [want EXCEPT ![p] = n] /\ got' = [got EXCEPT ![p] = 0]
  /\ UNCHANGED <<input, screen, killed, keys, fresh>>

\* What there is to read, up to a newline, an end of file or the length asked for.
\* A mutant: an end of file after other characters is swallowed.
TakeSwallows(p) ==
  LET ready == Minus(w, r)
      At(i) == buf[Slot(Plus(r, i - 1))]
      ends == {i \in 1 .. ready : At(i) \in {NL, EOT} \/ i = want[p]}
      n == IF ends = {} THEN ready ELSE CHOOSE i \in ends : \A j \in ends : i <= j
  IN
  /\ reader[p] = "read" /\ ready # 0
  /\ r' = Plus(r, n)
  /\ want' = [want EXCEPT ![p] = IF ends = {} THEN @ - n ELSE 0]
  /\ got' = [got EXCEPT ![p] = IF ends = {} THEN @ + n ELSE 0]
  /\ reader' = [reader EXCEPT ![p] = IF ends = {} THEN "read" ELSE "user"]
  /\ UNCHANGED <<buf, w, e, screen, killed, keys, fresh>>

Take(p) ==
  LET ready == Minus(w, r)
      At(i) == buf[Slot(Plus(r, i - 1))]
      ends == {i \in 1 .. ready : At(i) \in {NL, EOT} \/ i = want[p]}
      n == IF ends = {} THEN ready ELSE CHOOSE i \in ends : \A j \in ends : i <= j
      \* An end of file after other characters stays for the next read.
      keeps == ends # {} /\ At(n) = EOT /\ (n > 1 \/ got[p] > 0)
  IN
  /\ reader[p] = "read" /\ ready # 0
  /\ r' = Plus(r, IF keeps THEN n - 1 ELSE n)
  /\ want' = [want EXCEPT ![p] = IF ends = {} THEN @ - n ELSE 0]
  /\ got' = [got EXCEPT ![p] = IF ends = {} THEN @ + n ELSE 0]
  /\ reader' = [reader EXCEPT ![p] = IF ends = {} THEN "read" ELSE "user"]
  /\ UNCHANGED <<buf, w, e, screen, killed, keys, fresh>>

\* Nothing to read: sleep, unless killed.
Wait(p) ==
  /\ reader[p] = "read" /\ r = w
  /\ reader' = [reader EXCEPT ![p] = IF killed[p] THEN "user" ELSE "sleep"]
  /\ IF killed[p] THEN want' = [want EXCEPT ![p] = 0] /\ got' = [got EXCEPT ![p] = 0]
                  ELSE UNCHANGED <<want, got>>
  /\ UNCHANGED <<input, screen, killed, keys, fresh>>

Kill(p) ==
  /\ ~killed[p]
  /\ killed' = [killed EXCEPT ![p] = TRUE]
  /\ reader' = [reader EXCEPT ![p] = IF @ = "sleep" THEN "read" ELSE @]
  /\ UNCHANGED <<input, screen, want, got, keys, fresh>>

-----------------------------------------------------------------------------
Next ==
  \/ \E c \in Letter \cup {NL, EOT} : Key(c)
  \/ Backspace \/ KillLine \/ \E s \in Outputs : Consolewrite(s)
  \/ \E p \in Proc : Take(p) \/ Wait(p) \/ Kill(p) \/ \E n \in Lengths : Read(p, n)

Spec == Init /\ [][Next]_vars

TypeOK ==
  /\ buf \in [0 .. INPUT_BUF - 1 -> Letter \cup {NL, EOT, Blank}]
  /\ {r, w, e} \subseteq 0 .. Wrap - 1
  /\ reader \in [Proc -> {"user", "read", "sleep"}]

\* Nobody sleeps beside characters to read, nor killed.
NoLostWakeup == \A p \in Waiting : r = w /\ ~killed[p]

\* What can still be edited and was echoed after the last output stands before the cursor,
\* whatever was wrapped, scrolled or erased, and the cursor is on the screen (console.c:149).
\* Of the line as it was before an output nothing is said: nobody shows it again, and a
\* backspace then erases the output (console.c:213).
EchoMatches ==
  /\ pos < ROWS * COLS /\ fresh <= Minus(e, w)
  /\ \A n \in 1 .. fresh : n <= pos => crt[pos - n] = buf[Slot(Minus(e, n))]

\* Readers get lines (LineInput.tla).
Chars(i, j) == [n \in 1 .. Minus(j, i) |-> buf[Slot(Plus(i, n - 1))]]
Input == INSTANCE LineInput WITH line <- Chars(w, e), entered <- Chars(r, w)
ReadsAreLines == Input!Spec
=============================================================================
