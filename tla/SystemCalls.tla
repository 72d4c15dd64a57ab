----------------------------- MODULE SystemCalls -----------------------------
(***************************************************************************)
(* What programs see of files and processes: the system calls of project02 *)
(* (sysfile.c, fs.c, pipe.c and proc.c), each a step of the process that   *)
(* makes it, whose program is a list of calls with the results it expects. *)
(* What goes on inside a call is in Names, Files, FileData and Inodes.     *)
(***************************************************************************)
EXTENDS Integers, Sequences, FiniteSets

CONSTANTS
  NPROC, NOFILE, NFILE, NINUM, PIPESIZE,
  MAXFILE, \* the bytes that a file can hold
  DIRSIZ,
  Kept     \* the files that are there from the start, a sequence of names

SystemCallsAssumption ==
  /\ {NPROC, NOFILE, NFILE, NINUM, PIPESIZE, MAXFILE, DIRSIZ} \subseteq Nat \ {0}
  /\ Len(Kept) < NINUM

VARIABLES
  proc,  \* the processes
  file,  \* the table of open files
  inode,
  failed \* calls whose result was not the one that the program expects

vars == <<proc, file, inode, failed>>

PID == 1 .. NPROC
Fd == 0 .. NOFILE - 1
File == 1 .. NFILE
Inum == 1 .. NINUM
ROOTINO == 1
NONE == 0
Vars == {"fd", "fd1", "pid1", "pid2", "pid3", "r"}

\* A call: x and y are its arguments, and its result, one of want, goes to the variable to.
C(op, x, y, to, want) == [op |-> op, x |-> x, y |-> y, to |-> to, want |-> want]

NoInode == [type |-> "NONE", nlink |-> 0, data |-> <<>>, entries |-> [n \in {} |-> NONE]]
NoFile  == [type |-> "NONE", ip |-> NONE, pipe |-> <<>>, off |-> 0, r |-> FALSE, w |-> FALSE]
NoProc  == [state |-> "UNUSED", parent |-> NONE, killed |-> FALSE, script |-> <<>>,
            vars |-> [v \in Vars |-> -1], buf |-> <<>>, cwd |-> NONE, ofile |-> [fd \in Fd |-> NONE]]

\* The files that are kept are the first after the root.
Start(script) ==
  /\ proc = [p \in PID |->
       IF p = 1 THEN [NoProc EXCEPT !.state = "RUN", !.script = script, !.cwd = ROOTINO] ELSE NoProc]
  /\ file = [f \in File |-> NoFile]
  /\ inode = [i \in Inum |->
       IF i = ROOTINO
       THEN [NoInode EXCEPT !.type = "DIR", !.nlink = 1,
              !.entries = [n \in {Kept[k] : k \in 1 .. Len(Kept)} \cup {".", ".."} |->
                IF n \in {".", ".."} THEN ROOTINO ELSE 1 + CHOOSE k \in 1 .. Len(Kept) : Kept[k] = n]]
       ELSE IF i <= Len(Kept) + 1 THEN [NoInode EXCEPT !.type = "FILE", !.nlink = 1] ELSE NoInode]
  /\ failed = {}

-----------------------------------------------------------------------------
(* Names *)

\* Names with the same first DIRSIZ characters are the same.
Same(name) == IF Len(name) > DIRSIZ THEN SubSeq(name, 1, DIRSIZ) ELSE name

\* An absolute path begins with "/".
Elems(path) == IF path # <<>> /\ path[1] = "/" THEN Tail(path) ELSE path
Base(p, path) == IF path # <<>> /\ path[1] = "/" THEN ROOTINO ELSE proc[p].cwd

Dirlookup(d, name) ==
  IF Same(name) \in DOMAIN inode[d].entries THEN inode[d].entries[Same(name)] ELSE NONE

RECURSIVE Namex(_, _)
Namex(i, elems) ==
  IF elems = <<>> THEN i
  ELSE IF inode[i].type # "DIR" \/ Dirlookup(i, elems[1]) = NONE THEN NONE
  ELSE Namex(Dirlookup(i, elems[1]), Tail(elems))

Namei(p, path) == Namex(Base(p, path), Elems(path))

Last(path) == Same(path[Len(path)])

\* The directory of the last element; none for a path without elements.
Nameiparent(p, path) ==
  LET e == Elems(path)
      d == Namex(Base(p, path), SubSeq(e, 1, Len(e) - 1))
  IN
  IF e = <<>> \/ d = NONE THEN NONE ELSE IF inode[d].type = "DIR" THEN d ELSE NONE

Entry(ino, d, name, i) ==
  [ino EXCEPT ![d].entries = [n \in DOMAIN @ \cup {name} |-> IF n = name THEN i ELSE @[n]]]
NoEntry(ino, d, name) == [ino EXCEPT ![d].entries = [n \in DOMAIN @ \ {name} |-> @[n]]]

\* create: the inode, and what the inodes become.  (Without a free inode the kernel panics.)
Create(p, path, type) ==
  LET d == Nameiparent(p, path)
      old == IF d = NONE THEN NONE ELSE Dirlookup(d, Last(path))
      i == CHOOSE i \in Inum : inode[i].type = "NONE"
      made == [inode EXCEPT
        ![i] = [NoInode EXCEPT !.type = type, !.nlink = 1,
                 !.entries = IF type = "DIR" THEN [n \in {".", ".."} |-> IF n = "." THEN i ELSE d] ELSE @],
        ![d].nlink = IF type = "DIR" THEN @ + 1 ELSE @]
  IN
  IF d = NONE THEN [ip |-> NONE, inode |-> inode]
  ELSE IF old # NONE
  THEN [ip |-> IF type = "FILE" /\ inode[old].type = "FILE" THEN old ELSE NONE, inode |-> inode]
  ELSE [ip |-> i, inode |-> Entry(made, d, Last(path), i)]

-----------------------------------------------------------------------------
(* Descriptors *)

At(p, op) == proc[p].state = "RUN" /\ proc[p].script # <<>> /\ proc[p].script[1].op = op
Call(p) == proc[p].script[1]
Value(p) == proc[p].vars[Call(p).x]

\* The file of the descriptor in variable x.
FileOf(p) == IF Value(p) \in Fd THEN proc[p].ofile[Value(p)] ELSE NONE

Lowest(S) == CHOOSE k \in S : \A j \in S : k <= j
FreeFds(p) == {fd \in Fd : proc[p].ofile[fd] = NONE}
FreeFiles == {f \in File : file[f].type = "NONE"}

\* What exists once nobody refers to the files, and to the inodes without links, any more.
Held(procs, f) == \E p \in PID : \E fd \in Fd : procs[p].ofile[fd] = f
\* A mutant: an inode goes as soon as it has no links.
SettleAtOnce(procs, files, inodes) ==
  LET fl == [f \in File |-> IF Held(procs, f) THEN files[f] ELSE NoFile] IN
  /\ proc' = procs /\ file' = fl
  /\ inode' = [i \in Inum |-> IF inodes[i].nlink > 0 THEN inodes[i] ELSE NoInode]

Settle(procs, files, inodes) ==
  LET fl == [f \in File |-> IF Held(procs, f) THEN files[f] ELSE NoFile] IN
  /\ proc' = procs /\ file' = fl
  /\ inode' = [i \in Inum |->
       IF inodes[i].nlink > 0 \/ (\E f \in File : fl[f].ip = i) \/ (\E p \in PID : procs[p].cwd = i)
       THEN inodes[i] ELSE NoInode]

\* The call returns r.
Ret(p, r, procs, files, inodes) ==
  /\ failed' = IF r \in Call(p).want THEN failed ELSE failed \cup {<<Call(p).op, r>>}
  /\ Settle([procs EXCEPT ![p].script = Tail(@), ![p].vars[Call(p).to] = r], files, inodes)

\* The call goes on, or p does, with this script.
Stay(p, script, procs, files) ==
  Settle([procs EXCEPT ![p].script = script], files, inode) /\ UNCHANGED failed

Fail(p) == Ret(p, -1, proc, file, inode)

-----------------------------------------------------------------------------
(* Calls on names *)

\* x is the path, and y "r", "w", "rw", or "c" to create and write.
Open(p) ==
  LET c == Call(p)
      made == IF c.y = "c" THEN Create(p, c.x, "FILE") ELSE [ip |-> Namei(p, c.x), inode |-> inode]
      fd == Lowest(FreeFds(p))
      f  == Lowest(FreeFiles)
  IN
  /\ At(p, "open")
  /\ IF made.ip = NONE \/ (made.inode[made.ip].type = "DIR" /\ c.y # "r") THEN Fail(p)
     ELSE IF FreeFds(p) = {} \/ FreeFiles = {} THEN Ret(p, -1, proc, file, made.inode)
     ELSE Ret(p, fd, [proc EXCEPT ![p].ofile[fd] = f],
              [file EXCEPT ![f] = [NoFile EXCEPT !.type = "INODE", !.ip = made.ip,
                                    !.r = c.y # "w", !.w = c.y # "r"]], made.inode)

Mkdir(p) ==
  LET made == Create(p, Call(p).x, "DIR") IN
  At(p, "mkdir") /\ IF made.ip = NONE THEN Fail(p) ELSE Ret(p, 0, proc, file, made.inode)

Chdir(p) ==
  LET i == Namei(p, Call(p).x) IN
  /\ At(p, "chdir")
  /\ IF i = NONE THEN Fail(p) ELSE IF inode[i].type # "DIR" THEN Fail(p)
     ELSE Ret(p, 0, [proc EXCEPT ![p].cwd = i], file, inode)

Link(p) ==
  LET i == Namei(p, Call(p).x)
      d == Nameiparent(p, Call(p).y)
  IN
  /\ At(p, "link")
  /\ IF i = NONE \/ d = NONE THEN Fail(p)
     ELSE IF inode[i].type = "DIR" \/ Dirlookup(d, Last(Call(p).y)) # NONE THEN Fail(p)
     ELSE Ret(p, 0, proc, file, Entry([inode EXCEPT ![i].nlink = @ + 1], d, Last(Call(p).y), i))

\* A directory goes only when it has but "." and "..".
Empty(i) == DOMAIN inode[i].entries = {".", ".."}

\* A mutant: the ".." of a directory stays counted.
UnlinkKeepsDotdot(p) ==
  LET d == Nameiparent(p, Call(p).x)
      name == Last(Call(p).x)
      i == Dirlookup(d, name)
  IN
  /\ At(p, "unlink")
  /\ IF d = NONE THEN Fail(p)
     ELSE IF name \in {".", ".."} \/ i = NONE THEN Fail(p)
     ELSE IF inode[i].type = "DIR" /\ ~Empty(i) THEN Fail(p)
     ELSE Ret(p, 0, proc, file, NoEntry([inode EXCEPT ![i].nlink = @ - 1], d, name))

Unlink(p) ==
  LET d == Nameiparent(p, Call(p).x)
      name == Last(Call(p).x)
      i == Dirlookup(d, name)
      isdir == inode[i].type = "DIR"
  IN
  /\ At(p, "unlink")
  /\ IF d = NONE THEN Fail(p)
     ELSE IF name \in {".", ".."} \/ i = NONE THEN Fail(p)
     ELSE IF isdir /\ ~Empty(i) THEN Fail(p)
     ELSE Ret(p, 0, proc, file,
            NoEntry([inode EXCEPT ![i].nlink = @ - 1, ![d].nlink = IF isdir THEN @ - 1 ELSE @], d, name))

-----------------------------------------------------------------------------
(* Calls on descriptors *)

Close(p) ==
  /\ At(p, "close")
  /\ IF FileOf(p) = NONE THEN Fail(p)
     ELSE Ret(p, 0, [proc EXCEPT ![p].ofile[Value(p)] = NONE], file, inode)

\* The two ends of a pipe; the bytes are kept with the one to read.
Pipe(p) ==
  LET r == Lowest(FreeFiles)
      w == Lowest(FreeFiles \ {r})
      f0 == Lowest(FreeFds(p))
      f1 == Lowest(FreeFds(p) \ {f0})
  IN
  /\ At(p, "pipe")
  /\ IF Cardinality(FreeFds(p)) < 2 \/ Cardinality(FreeFiles) < 2 THEN Fail(p)
     ELSE Ret(p, 0, [proc EXCEPT ![p].ofile[f0] = r, ![p].ofile[f1] = w,
                                 ![p].vars = [@ EXCEPT !["fd"] = f0, !["fd1"] = f1]],
              [file EXCEPT ![r] = [NoFile EXCEPT !.type = "PIPE", !.r = TRUE],
                           ![w] = [NoFile EXCEPT !.type = "PIPE", !.w = TRUE, !.off = r]], inode)

Reader(f) == file[f].off
ReadOpen(f) == file[Reader(f)].type = "PIPE" /\ file[Reader(f)].r
WriteOpen(f) == \E w \in File : file[w].type = "PIPE" /\ file[w].w /\ file[w].off = f

Prefix(s, n) == SubSeq(s, 1, n)
LeastOf(a, b) == IF a < b THEN a ELSE b

\* y bytes at most are read into buf.  "drain" reads on till the end of the file, into all of buf.
Read(p) ==
  LET f == FileOf(p)
      ff == file[f]
      c == Call(p)
      src == IF ff.type = "PIPE" THEN ff.pipe ELSE inode[ff.ip].data
      n == IF ff.type = "PIPE" THEN LeastOf(c.y, Len(src)) ELSE LeastOf(c.y, Len(src) - ff.off)
      got == IF ff.type = "PIPE" THEN Prefix(src, n) ELSE SubSeq(src, ff.off + 1, ff.off + n)
      fl == IF ff.type = "PIPE" THEN [file EXCEPT ![f].pipe = SubSeq(@, n + 1, Len(@))]
                                ELSE [file EXCEPT ![f].off = @ + n]
      all == IF c.op = "drain" THEN proc[p].buf \o got ELSE got
      pr == [proc EXCEPT ![p].buf = all]
  IN
  /\ At(p, "read") \/ At(p, "drain")
  /\ IF f = NONE THEN Fail(p) ELSE IF ~ff.r THEN Fail(p)
     ELSE /\ ff.type = "PIPE" => n > 0 \/ ~WriteOpen(f)
          /\ IF c.op = "drain" /\ n > 0 THEN Stay(p, proc[p].script, pr, fl)
             ELSE Ret(p, Len(all), pr, fl, inode)

\* The bytes y are written; a pipe takes them as it has place.
Write(p) ==
  LET f == FileOf(p)
      ff == file[f]
      c == Call(p)
      room == PIPESIZE - Len(file[Reader(f)].pipe)
      n == LeastOf(room, Len(c.y))
      old == inode[ff.ip].data
      new == [k \in 1 .. (IF ff.off + Len(c.y) > Len(old) THEN ff.off + Len(c.y) ELSE Len(old)) |->
                IF k \in ff.off + 1 .. ff.off + Len(c.y) THEN c.y[k - ff.off] ELSE old[k]]
  IN
  /\ At(p, "write")
  /\ IF f = NONE THEN Fail(p) ELSE IF ~ff.w THEN Fail(p)
     ELSE IF ff.type = "INODE"
     THEN IF ff.off + Len(c.y) > MAXFILE THEN Fail(p)
          ELSE Ret(p, Len(c.y), proc, [file EXCEPT ![f].off = @ + Len(c.y)], [inode EXCEPT ![ff.ip].data = new])
     ELSE IF ~ReadOpen(f) THEN Fail(p)
     ELSE /\ n > 0
          /\ LET fl == [file EXCEPT ![Reader(f)].pipe = @ \o Prefix(c.y, n)]
                 rest == [c EXCEPT !.y = SubSeq(@, n + 1, Len(@)), !.want = {k - n : k \in @}]
             IN IF n = Len(c.y) THEN Ret(p, n, proc, fl, inode)
                ELSE Stay(p, <<rest>> \o Tail(proc[p].script), proc, fl)

-----------------------------------------------------------------------------
(* Processes *)

\* The child runs x; y: the parent goes on (fork always does, here).
Fork(p) ==
  LET free == {q \in PID : proc[q].state = "UNUSED"}
      q == Lowest(free)
  IN
  /\ At(p, "fork")
  /\ IF free = {} THEN Fail(p)
     ELSE Ret(p, q, [proc EXCEPT ![q] = [NoProc EXCEPT !.state = "RUN", !.parent = p,
                       !.script = Call(p).x, !.cwd = proc[p].cwd, !.ofile = proc[p].ofile,
                       !.vars = proc[p].vars]], file, inode)

\* At the end of its program a process exits, and so does one that was killed; its children
\* go to init, which waits for them.  The first process stays.
Exit(p) ==
  /\ p # 1 /\ proc[p].state = "RUN" /\ (proc[p].script = <<>> \/ proc[p].killed)
  /\ Settle([q \in PID |->
        IF q = p THEN [NoProc EXCEPT !.state = IF proc[p].parent = NONE THEN "UNUSED" ELSE "ZOMBIE",
                                     !.parent = proc[p].parent]
        ELSE IF proc[q].parent # p THEN proc[q]
        ELSE IF proc[q].state = "ZOMBIE" THEN NoProc ELSE [proc[q] EXCEPT !.parent = NONE]],
        file, inode)
  /\ UNCHANGED failed

Children(p) == {q \in PID : proc[q].parent = p}

Wait(p) ==
  /\ At(p, "wait")
  /\ \/ Children(p) = {} /\ Fail(p)
     \/ \E q \in Children(p) : proc[q].state = "ZOMBIE" /\ Ret(p, q, [proc EXCEPT ![q] = NoProc], file, inode)

Kill(p) ==
  /\ At(p, "kill")
  /\ IF Value(p) \notin PID THEN Fail(p) ELSE IF proc[Value(p)].state = "UNUSED" THEN Fail(p)
     ELSE Ret(p, 0, [proc EXCEPT ![Value(p)].killed = TRUE], file, inode)

\* Not calls: the bytes x in buf are counted, the entries x of the directory that is open; and
\* one of the scripts x is taken.
Count(p) ==
  LET b == proc[p].buf IN
  /\ At(p, "count")
  /\ Ret(p, Cardinality({k \in 1 .. Len(b) : b[k] = Call(p).x}), [proc EXCEPT ![p].buf = <<>>], file, inode)

List(p) ==
  /\ At(p, "list")
  /\ Ret(p, Cardinality(Call(p).x \cap DOMAIN inode[proc[p].cwd].entries), proc, file, inode)

Choose(p) ==
  /\ At(p, "choose")
  /\ \E s \in Call(p).x : Stay(p, s \o Tail(proc[p].script), proc, file)

Step(p) ==
  /\ p # 1 => ~proc[p].killed
  /\ \/ Open(p) \/ Mkdir(p) \/ Chdir(p) \/ Link(p) \/ Unlink(p)
     \/ Close(p) \/ Pipe(p) \/ Read(p) \/ Write(p)
     \/ Fork(p) \/ Wait(p) \/ Kill(p) \/ Count(p) \/ List(p) \/ Choose(p)

Next == \E p \in PID : Step(p) \/ Exit(p)

-----------------------------------------------------------------------------
\* An inode has as many links as names, with the ".." of the directories that it holds; and
\* nothing is there that no name, descriptor or current directory leads to.
LinksExact ==
  \A i \in Inum : inode[i].type # "NONE" =>
    LET names == {<<d, n>> \in Inum \X UNION {DOMAIN inode[j].entries : j \in Inum} :
                    n \in DOMAIN inode[d].entries /\ n # "." /\ inode[d].entries[n] = i
                    /\ (n = ".." => d # i /\ inode[d].nlink > 0)}
    IN
    /\ inode[i].nlink = Cardinality(names) + (IF i = ROOTINO THEN 1 ELSE 0)
    /\ names = {} /\ i # ROOTINO =>
         (\E f \in File : file[f].ip = i) \/ (\E p \in PID : proc[p].cwd = i)
=============================================================================
