-------------------------------- MODULE Grep --------------------------------
(***************************************************************************)
(* grep (grep.c of project01): the loop that cuts what it reads into       *)
(* lines, in a buffer that is shorter than the file, and the matcher of    *)
(* regular expressions.                                                    *)
(***************************************************************************)
EXTENDS Naturals, Sequences

CONSTANTS
  BUFSIZE, \* the size of buf
  Tasks    \* bound of the model: what grep is called for: a pattern, and a file

NL == "\n"

GrepAssumption ==
  /\ BUFSIZE \in Nat /\ BUFSIZE > 1
  /\ \A t \in Tasks : DOMAIN t = {"pattern", "file"} /\ NL \notin {t.pattern[k] : k \in DOMAIN t.pattern}

VARIABLES
  task,
  off,  \* how much of the file has been read
  buf,  \* the first m bytes of buf
  out,  \* the lines written
  done

vars == <<task, off, buf, out, done>>

Init == task \in Tasks /\ off = 0 /\ buf = <<>> /\ out = <<>> /\ done = FALSE

-----------------------------------------------------------------------------
(* The matcher *)

From(s, k) == SubSeq(s, k, Len(s))

RECURSIVE Matchhere(_, _), Matchstar(_, _, _)

Matchhere(re, text) ==
  CASE re = <<>> -> TRUE
    [] Len(re) > 1 /\ re[2] = "*" -> Matchstar(re[1], From(re, 3), text)
    [] re = <<"$">> -> text = <<>>
    [] OTHER -> text # <<>> /\ re[1] \in {".", text[1]} /\ Matchhere(Tail(re), Tail(text))

\* A mutant: a "*" stands for one instance at least.
MatchstarSome(c, re, text) ==
  text # <<>> /\ c \in {".", text[1]} /\ (Matchhere(re, Tail(text)) \/ Matchstar(c, re, Tail(text)))

Matchstar(c, re, text) ==
  Matchhere(re, text) \/ (text # <<>> /\ c \in {".", text[1]} /\ Matchstar(c, re, Tail(text)))

Match(re, text) ==
  IF re # <<>> /\ re[1] = "^" THEN Matchhere(Tail(re), text)
  ELSE \E k \in 1 .. Len(text) + 1 : Matchhere(re, From(text, k))

-----------------------------------------------------------------------------
(* The loop *)

Newlines(s) == {k \in 1 .. Len(s) : s[k] = NL}

\* The lines of s that have ended, in order, and what follows the last of them.
RECURSIVE Lines(_)
Lines(s) ==
  IF Newlines(s) = {} THEN <<>>
  ELSE LET k == CHOOSE k \in Newlines(s) : \A j \in Newlines(s) : k <= j
       IN <<SubSeq(s, 1, k - 1)>> \o Lines(From(s, k + 1))
RECURSIVE Remains(_)
Remains(s) == IF s # <<>> /\ s[Len(s)] # NL THEN Append(Remains(SubSeq(s, 1, Len(s) - 1)), s[Len(s)]) ELSE <<>>

\* Without the end of a line in the buffer, all of it is dropped.
\* A mutant: what remains of the buffer is not kept.
KeepNothing(s) == <<>>
Keep(s) == IF Newlines(s) = {} THEN <<>> ELSE Remains(s)

\* A read of a file gives as many bytes as there is place for.
Read ==
  LET room == BUFSIZE - Len(buf) - 1
      ends == IF Len(task.file) < off + room THEN Len(task.file) ELSE off + room
      s    == buf \o SubSeq(task.file, off + 1, ends)
  IN
  /\ ~done
  /\ off' = ends
  /\ IF ends = off THEN done' = TRUE /\ UNCHANGED <<buf, out>>
     ELSE /\ out' = out \o SelectSeq(Lines(s), LAMBDA l : Match(task.pattern, l))
          /\ buf' = Keep(s)
          /\ UNCHANGED done
  /\ UNCHANGED task

Spec == Init /\ [][Read]_vars

-----------------------------------------------------------------------------
(* What is meant: an automaton that is in many places of the text at once *)

\* A pattern is a sequence of characters, some of them starred; a last "$" is the end.
Starred(re, k) == k < Len(re) /\ re[k + 1] = "*"
Literal(re, k) == ~Starred(re, k) /\ ~(k = Len(re) /\ re[k] = "$")
\* Where the characters of re begin.
RECURSIVE Items(_, _)
Items(re, k) == IF k > Len(re) THEN <<>> ELSE <<k>> \o Items(re, IF Starred(re, k) THEN k + 2 ELSE k + 1)

Step(re, k, text, S) ==
  LET fits(i) == re[k] \in {".", text[i]} IN
  CASE Starred(re, k) -> {j \in 1 .. Len(text) + 1 : \E i \in S : i <= j /\ \A m \in i .. j - 1 : fits(m)}
    [] Literal(re, k) -> {i + 1 : i \in {i \in S : i <= Len(text) /\ fits(i)}}
    [] OTHER -> S \cap {Len(text) + 1}

Meant(re, text) ==
  LET anchored == re # <<>> /\ re[1] = "^"
      r  == IF anchored THEN Tail(re) ELSE re
      it == Items(r, 1)
      at[n \in 0 .. Len(it)] ==
        IF n = 0 THEN IF anchored THEN {1} ELSE 1 .. Len(text) + 1
        ELSE Step(r, it[n], text, at[n - 1])
  IN at[Len(it)] # {}

\* However the file falls into the pieces that are read, grep prints just the lines in which
\* the pattern is found, in order: those that have an end, of a file whose lines fit in the
\* buffer.  (Over a pipe, whose reads are short, it loses lines that come in two pieces.)
PrintsMatches ==
  done /\ (\A k \in 1 .. Len(Lines(task.file)) : Len(Lines(task.file)[k]) < BUFSIZE - 1) =>
    out = SelectSeq(Lines(task.file), LAMBDA l : Meant(task.pattern, l))
=============================================================================
