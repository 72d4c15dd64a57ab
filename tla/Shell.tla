-------------------------------- MODULE Shell --------------------------------
(***************************************************************************)
(* The shell (sh.c of project01): the parser of its command lines, and     *)
(* runcmd, whose processes make the pipes and open the files that a line   *)
(* asks for.                                                               *)
(*                                                                         *)
(* A line is a sequence of tokens, as gettoken gives them.  A program that *)
(* reads a pipe is taken to end only when it sees the end of the file.     *)
(***************************************************************************)
EXTENDS Naturals, Sequences, FiniteSets

CONSTANTS
  Word,    \* words; names of commands and files
  Missing, \* the files that cannot be opened to read
  MAXARGS,
  NPROC, NOFILE,
  Lines    \* bound of the model: the lines that are typed

Symbols == {"|", "&", ";", "(", ")", "<", ">", "+"}

ShellAssumption ==
  /\ Word \cap Symbols = {} /\ Missing \subseteq Word
  /\ MAXARGS \in Nat \ {0} /\ NPROC \in Nat \ {0} /\ NOFILE \in Nat /\ NOFILE >= 5
  /\ Lines \subseteq Seq(Word \cup Symbols)

-----------------------------------------------------------------------------
(* The parser.  Each of its functions takes what is ahead, and gives a     *)
(* command and what is left; or it fails, and the process exits.           *)

Parsed(cmd, rest) == [ok |-> TRUE, cmd |-> cmd, rest |-> rest]
Syntax == Parsed([type |-> "EXEC", argv |-> <<>>], <<>>)
Fail == [Syntax EXCEPT !.ok = FALSE]

Peek(s, toks) == s # <<>> /\ Head(s) \in toks

\* The first redirection becomes the innermost.
Redircmd(cmd, tok, file) ==
  [type |-> "REDIR", cmd |-> cmd, file |-> file, fd |-> IF tok = "<" THEN 0 ELSE 1]

RECURSIVE Parseredirs(_, _)
Parseredirs(cmd, s) ==
  IF ~Peek(s, {"<", ">", "+"}) THEN Parsed(cmd, s)
  ELSE IF Len(s) = 1 \/ s[2] \notin Word THEN Fail
  ELSE Parseredirs(Redircmd(cmd, s[1], s[2]), Tail(Tail(s)))

\* The command under its redirections is given one more argument.
RECURSIVE AddArg(_, _)
AddArg(cmd, word) ==
  IF cmd.type = "EXEC" THEN [cmd EXCEPT !.argv = Append(@, word)]
                       ELSE [cmd EXCEPT !.cmd = AddArg(@, word)]

RECURSIVE Args(_, _, _)
Args(cmd, argc, s) ==
  IF s = <<>> \/ Peek(s, {"|", ")", "&", ";"}) THEN Parsed(cmd, s)
  ELSE IF Head(s) \notin Word \/ argc + 1 >= MAXARGS THEN Fail
  ELSE LET r == Parseredirs(AddArg(cmd, Head(s)), Tail(s)) IN
       IF r.ok THEN Args(r.cmd, argc + 1, r.rest) ELSE Fail

\* What the functions that call one another give, for each rest of the line: parse.
Parseblock(parse, s) ==
  LET r == parse["line", Tail(s)] IN
  IF r.ok /\ Peek(r.rest, {")"}) THEN Parseredirs(r.cmd, Tail(r.rest)) ELSE Fail

Parseexec(parse, s) ==
  LET r == Parseredirs(Syntax.cmd, s) IN
  IF Peek(s, {"("}) THEN Parseblock(parse, s)
  ELSE IF r.ok THEN Args(r.cmd, 0, r.rest) ELSE Fail

Parsepipe(parse, s) ==
  LET l == Parseexec(parse, s)
      r == parse["pipe", Tail(l.rest)]
  IN
  IF ~l.ok \/ ~Peek(l.rest, {"|"}) THEN l
  ELSE IF r.ok THEN Parsed([type |-> "PIPE", left |-> l.cmd, right |-> r.cmd], r.rest) ELSE Fail

RECURSIVE Backs(_)
Backs(r) ==
  IF r.ok /\ Peek(r.rest, {"&"})
  THEN Backs(Parsed([type |-> "BACK", cmd |-> r.cmd], Tail(r.rest))) ELSE r

\* A mutant: what follows a ";" is a pipeline, not a line.
ParselineOnce(parse, s) ==
  LET l == Backs(parse["pipe", s])
      r == Backs(parse["pipe", Tail(l.rest)])
  IN
  IF ~l.ok \/ ~Peek(l.rest, {";"}) THEN l
  ELSE IF r.ok THEN Parsed([type |-> "LIST", left |-> l.cmd, right |-> r.cmd], r.rest) ELSE Fail

Parseline(parse, s) ==
  LET l == Backs(parse["pipe", s])
      r == parse["line", Tail(l.rest)]
  IN
  IF ~l.ok \/ ~Peek(l.rest, {";"}) THEN l
  ELSE IF r.ok THEN Parsed([type |-> "LIST", left |-> l.cmd, right |-> r.cmd], r.rest) ELSE Fail

Rests(s) == {SubSeq(s, k, Len(s)) : k \in 1 .. Len(s) + 1}

Parsecmd(s) ==
  LET parse[rule \in {"line", "pipe"}, t \in Rests(s)] ==
        IF rule = "line" THEN Parseline(parse, t) ELSE Parsepipe(parse, t)
      r == parse["line", s]
  IN IF r.rest = <<>> THEN r ELSE Fail

-----------------------------------------------------------------------------
(* The processes *)

VARIABLES
  line, \* what was typed
  proc  \* the processes; the shell is the first

vars == <<line, proc>>

SHELL == 1
INIT == 0
NONE == <<>>
CONSOLE == <<"console">>
PID == 1 .. NPROC
Fd == 0 .. NOFILE - 1

\* cmd: the part of the line that a process runs, as its place in the tree; step: how far
\* runcmd has come with it.
Standard == [fd \in Fd |-> IF fd < 3 THEN CONSOLE ELSE NONE]
Free == [state |-> "free", parent |-> INIT, cmd |-> <<>>, step |-> "start", ofile |-> [fd \in Fd |-> NONE]]

Init ==
  /\ line \in Lines
  /\ proc = [p \in PID |-> IF p = SHELL THEN [Free EXCEPT !.state = "shell", !.ofile = Standard] ELSE Free]

Line == Parsecmd(line)

RECURSIVE Node(_, _)
Node(cmd, path) == IF path = <<>> THEN cmd ELSE Node(cmd[Head(path)], Tail(path))

Cmd(p) == Node(Line.cmd, proc[p].cmd)

Runs(p, type, step) ==
  proc[p].state = "run" /\ Line.ok /\ Cmd(p).type = type /\ proc[p].step = step

\* exit: the files are closed, and the children left to init, which waits for all it gets.
Exit(p) ==
  proc' = [q \in PID |->
    IF q = p THEN IF proc[p].parent = INIT THEN Free
                  ELSE [Free EXCEPT !.state = "zombie", !.parent = proc[p].parent]
    ELSE IF proc[q].parent # p THEN proc[q]
    ELSE IF proc[q].state = "zombie" THEN Free ELSE [proc[q] EXCEPT !.parent = INIT]]

\* fork1: the child runs cmd with these files; without a free slot p gives up.
Fork(p, cmd, ofile, step) ==
  LET q == CHOOSE q \in PID : proc[q].state = "free" IN
  IF \A r \in PID : proc[r].state # "free" THEN Exit(p)
  ELSE proc' = [proc EXCEPT ![p].step = step,
         ![q] = [Free EXCEPT !.state = "run", !.parent = p, !.cmd = cmd, !.ofile = ofile]]

\* wait: for one of the children of p, which goes on with step.
Wait(p, step) ==
  \/ /\ ~\E q \in PID : proc[q].parent = p
     /\ proc' = [proc EXCEPT ![p].step = step]
  \/ \E q \in PID : /\ proc[q].parent = p /\ proc[q].state = "zombie"
                    /\ proc' = [proc EXCEPT ![q] = Free, ![p].step = step]

-----------------------------------------------------------------------------
(* Descriptors: the lowest free one is taken. *)

Close(of, fd) == [of EXCEPT ![fd] = NONE]
Put(of, file) ==
  LET fd == CHOOSE fd \in Fd : of[fd] = NONE /\ \A k \in 0 .. fd - 1 : of[k] # NONE IN
  [of EXCEPT ![fd] = file]

\* A pipe is known by the command that made it.
ReadEnd(cmd)  == <<"pipe", cmd, "r">>
WriteEnd(cmd) == <<"pipe", cmd, "w">>
CloseEnds(of, cmd) == [fd \in Fd |-> IF of[fd] \in {ReadEnd(cmd), WriteEnd(cmd)} THEN NONE ELSE of[fd]]

\* The child of a pipe: one end becomes descriptor fd, and those of the pipe are closed.
\* A mutant: they stay open.
ChildKeeps(of, fd, end, cmd) == Put(Close(of, fd), end)
Child(of, fd, end, cmd) ==
  LET with == Put(Close(of, fd), end) IN
  [k \in Fd |-> IF k # fd /\ with[k] \in {ReadEnd(cmd), WriteEnd(cmd)} THEN NONE ELSE with[k]]

-----------------------------------------------------------------------------
(* runcmd *)

\* A line that does not parse, and a command without a name, just end.
Nothing(p) ==
  /\ proc[p].state = "run"
  /\ Line.ok => Runs(p, "EXEC", "start") /\ Cmd(p).argv = <<>>
  /\ Exit(p)

Exec(p) ==
  /\ Runs(p, "EXEC", "start") /\ Cmd(p).argv # <<>>
  /\ proc' = [proc EXCEPT ![p].state = "program"]

WritersOf(end) ==
  {q \in PID : \E fd \in Fd : proc[q].ofile[fd] = WriteEnd(end[2])}

ReadsMore(p) ==
  LET file == proc[p].ofile[0] IN file[1] = "pipe" /\ WritersOf(file) # {}

\* A program ends; one that reads a pipe, when nobody can write it any more.
Program(p) == proc[p].state = "program" /\ ~ReadsMore(p) /\ Exit(p)

Redir(p) ==
  LET c == Cmd(p) IN
  /\ Runs(p, "REDIR", "start")
  /\ IF c.fd = 0 /\ c.file \in Missing THEN Exit(p)
     ELSE proc' = [proc EXCEPT ![p].cmd = Append(@, "cmd"),
                               ![p].ofile = Put(Close(@, c.fd), <<"file", c.file>>)]

List(p) ==
  \/ Runs(p, "LIST", "start") /\ Fork(p, Append(proc[p].cmd, "left"), proc[p].ofile, "wait")
  \/ Runs(p, "LIST", "wait") /\ Wait(p, "right")
  \/ Runs(p, "LIST", "right")
     /\ proc' = [proc EXCEPT ![p].cmd = Append(@, "right"), ![p].step = "start"]

Back(p) ==
  \/ Runs(p, "BACK", "start") /\ Fork(p, Append(proc[p].cmd, "cmd"), proc[p].ofile, "exit")
  \/ Runs(p, "BACK", "exit") /\ Exit(p)

\* A mutant: the shell waits before it closes its ends of the pipe.
PipeWaitsFirst(p) ==
  LET at == proc[p].cmd
      of == proc[p].ofile
  IN
  \/ /\ Runs(p, "PIPE", "start")
     /\ proc' = [proc EXCEPT ![p].ofile = Put(Put(of, ReadEnd(at)), WriteEnd(at)), ![p].step = "left"]
  \/ Runs(p, "PIPE", "left")
     /\ Fork(p, Append(at, "left"), Child(of, 1, WriteEnd(at), at), "fork")
  \/ Runs(p, "PIPE", "fork")
     /\ Fork(p, Append(at, "right"), Child(of, 0, ReadEnd(at), at), "wait1")
  \/ Runs(p, "PIPE", "wait1") /\ Wait(p, "wait2")
  \/ Runs(p, "PIPE", "wait2") /\ Wait(p, "exit")
  \/ Runs(p, "PIPE", "exit") /\ Exit(p)

Pipe(p) ==
  LET at == proc[p].cmd
      of == proc[p].ofile
  IN
  \/ /\ Runs(p, "PIPE", "start")
     /\ proc' = [proc EXCEPT ![p].ofile = Put(Put(of, ReadEnd(at)), WriteEnd(at)), ![p].step = "left"]
  \/ Runs(p, "PIPE", "left")
     /\ Fork(p, Append(at, "left"), Child(of, 1, WriteEnd(at), at), "fork")
  \/ Runs(p, "PIPE", "fork")
     /\ Fork(p, Append(at, "right"), Child(of, 0, ReadEnd(at), at), "close")
  \/ Runs(p, "PIPE", "close")
     /\ proc' = [proc EXCEPT ![p].ofile = CloseEnds(of, at), ![p].step = "wait1"]
  \/ Runs(p, "PIPE", "wait1") /\ Wait(p, "wait2")
  \/ Runs(p, "PIPE", "wait2") /\ Wait(p, "exit")
  \/ Runs(p, "PIPE", "exit") /\ Exit(p)

\* The shell forks for the line, and waits for that child only.
Main ==
  \/ proc[SHELL].state = "shell" /\ proc[SHELL].step = "start" /\ Fork(SHELL, <<>>, Standard, "wait")
  \/ proc[SHELL].state = "shell" /\ proc[SHELL].step = "wait" /\ Wait(SHELL, "prompt")

Next ==
  /\ \/ Main
     \/ \E p \in PID :
          Nothing(p) \/ Exec(p) \/ Program(p) \/ Redir(p) \/ List(p) \/ Back(p) \/ Pipe(p)
  /\ UNCHANGED line

Spec == Init /\ [][Next]_vars

-----------------------------------------------------------------------------
(* The grammar, as the sets of the sentences of each kind *)

Sub(s, i, j) == SubSeq(s, i, j)

RECURSIVE IsRedirs(_)
IsRedirs(s) == s = <<>> \/ (Len(s) >= 2 /\ s[1] \in {"<", ">", "+"} /\ s[2] \in Word /\ IsRedirs(Sub(s, 3, Len(s))))

\* Words and redirections in any order, or nothing.
IsSimple(s) ==
  \A k \in 1 .. Len(s) : s[k] \in Word \/ (s[k] \in {"<", ">", "+"} /\ k < Len(s) /\ s[k + 1] \in Word)

RECURSIVE IsLine(_)
IsExec(s) ==
  \/ IsSimple(s)
  \/ \E k \in 2 .. Len(s) :
       s[1] = "(" /\ s[k] = ")" /\ IsLine(Sub(s, 2, k - 1)) /\ IsRedirs(Sub(s, k + 1, Len(s)))

RECURSIVE IsPipe(_)
IsPipe(s) ==
  IsExec(s) \/ \E k \in 1 .. Len(s) : s[k] = "|" /\ IsExec(Sub(s, 1, k - 1)) /\ IsPipe(Sub(s, k + 1, Len(s)))

RECURSIVE IsBacks(_)
IsBacks(s) ==
  IsPipe(s) \/ (s # <<>> /\ s[Len(s)] = "&" /\ IsBacks(Sub(s, 1, Len(s) - 1)))

IsLine(s) ==
  IsBacks(s) \/ \E k \in 1 .. Len(s) :
    s[k] = ";" /\ IsBacks(Sub(s, 1, k - 1)) /\ IsLine(Sub(s, k + 1, Len(s)))

-----------------------------------------------------------------------------
RECURSIVE Words(_)
Words(cmd) ==
  CASE cmd.type = "EXEC" -> cmd.argv
    [] cmd.type \in {"PIPE", "LIST"} -> Words(cmd.left) \o Words(cmd.right)
    [] OTHER -> Words(cmd.cmd)

\* The parser takes just the lines of the grammar (but for those with too many arguments), and
\* loses no word of them.
LinesParsed ==
  LET plain == {k \in 1 .. Len(line) :
                  line[k] \in Word /\ (k = 1 \/ line[k - 1] \notin {"<", ">", "+"})}
      words == [k \in 1 .. Len(line) |-> IF k \in plain THEN line[k] ELSE "|"]
  IN
  Cardinality(plain) < MAXARGS =>
    /\ Line.ok <=> IsLine(line)
    /\ Line.ok => Words(Line.cmd) = SelectSeq(words, LAMBDA w : w # "|")

\* What the line says of the files of the command at path: those of the shell, but for the
\* pipes and the redirections that are passed on the way to it.
RECURSIVE Wired(_, _, _)
Wired(path, k, files) ==
  IF k > Len(path) THEN files
  ELSE LET at == SubSeq(path, 1, k - 1)
           c  == Node(Line.cmd, at)
       IN Wired(path, k + 1,
            CASE c.type = "REDIR" -> [files EXCEPT ![c.fd] = <<"file", c.file>>]
              [] c.type = "PIPE" /\ path[k] = "left"  -> [files EXCEPT ![1] = WriteEnd(at)]
              [] c.type = "PIPE" /\ path[k] = "right" -> [files EXCEPT ![0] = ReadEnd(at)]
              [] OTHER -> files)

\* Every program runs with the files that the line gives it, and with no others: no end of a
\* pipe is left in it.
ProgramsWired ==
  \A p \in PID : proc[p].state = "program" => proc[p].ofile = Wired(proc[p].cmd, 1, Standard)

\* The shell comes back from every line: no program waits for the end of a pipe that is kept
\* open by a process that waits for it.
LinesEnd ==
  proc[SHELL].step # "prompt" =>
    \E p \in PID :
      \/ proc[p].state = "program" /\ ~ReadsMore(p)
      \/ /\ proc[p].state \in {"shell", "run"}
         /\ proc[p].step \in {"wait", "wait1", "wait2"} =>
              {q \in PID : proc[q].parent = p /\ proc[q].state # "zombie"} = {}
                \/ \E q \in PID : proc[q].parent = p /\ proc[q].state = "zombie"
=============================================================================
