------------------------------ MODULE UserTests ------------------------------
(***************************************************************************)
(* The tests of files and processes that come with the system              *)
(* (usertests.c of project02), as programs for the calls of SystemCalls,   *)
(* with the results that they expect.  Loops are shorter than there.       *)
(***************************************************************************)
EXTENDS SystemCalls

OK == {0}
Error == {-1}
Fds == Fd
Any == -1 .. MAXFILE

Creat(path)   == C("open", path, "c", "fd", Fds)
Opens(path)   == C("open", path, "r", "fd", Fds)
Fails(path, mode) == C("open", path, mode, "r", Error)
Closes        == C("close", "fd", 0, "r", OK)
Writes(bytes) == C("write", "fd", bytes, "r", {Len(bytes)})
Reads(n, got) == C("read", "fd", n, "r", {got})
Drains(n, got) == C("drain", "fd", n, "r", {got})
Counts(byte, n) == C("count", byte, 0, "r", {n})
Mk(path, want) == C("mkdir", path, 0, "r", want)
Cd(path, want) == C("chdir", path, 0, "r", want)
Rm(path, want) == C("unlink", path, 0, "r", want)
Ln(old, new, want) == C("link", old, new, "r", want)
Forks(child)  == C("fork", child, 0, "r", PID)
ForkTo(pid, child) == C("fork", child, 0, pid, PID)
Waits         == C("wait", 0, 0, "r", PID)
Either(scripts) == C("choose", scripts, 0, "r", Any)
Spins         == C("spin", 0, 0, "r", Any)

RECURSIVE Repeat(_, _)
Repeat(n, script) == IF n = 0 THEN <<>> ELSE script \o Repeat(n - 1, script)

-----------------------------------------------------------------------------
(* Directories *)

iputtest == <<Mk(<<"iputdir">>, OK), Cd(<<"iputdir">>, OK), Rm(<<"..", "iputdir">>, OK), Cd(<<"/">>, OK)>>

exitiputtest ==
  <<Forks(<<Mk(<<"iputdir">>, OK), Cd(<<"iputdir">>, OK), Rm(<<"..", "iputdir">>, OK)>>), Waits>>

openiputtest ==
  <<Mk(<<"oidir">>, OK), Forks(<<C("open", <<"oidir">>, "rw", "r", Error)>>), Rm(<<"oidir">>, OK), Waits>>

opentest == <<Opens(<<"echo">>), Closes, Fails(<<"doesnotexist">>, "r")>>

dirtest == <<Mk(<<"dir0">>, OK), Cd(<<"dir0">>, OK), Cd(<<"..">>, OK), Rm(<<"dir0">>, OK)>>

rmdot ==
  <<Mk(<<"dots">>, OK), Cd(<<"dots">>, OK), Rm(<<".">>, Error), Rm(<<"..">>, Error), Cd(<<"/">>, OK),
    Rm(<<"dots", ".">>, Error), Rm(<<"dots", "..">>, Error), Rm(<<"dots">>, OK)>>

fourteen ==
  LET n == "12345678901234"
      m == "123456789012345"
  IN
  <<Mk(<<n>>, OK), Mk(<<n, m>>, OK), Creat(<<m, m, m>>), Closes, Opens(<<n, n, n>>), Closes,
    Mk(<<n, n>>, Error), Mk(<<m, n>>, Error)>>

dirfile ==
  <<Creat(<<"dirfile">>), Closes, Cd(<<"dirfile">>, Error), Fails(<<"dirfile", "xx">>, "r"),
    Fails(<<"dirfile", "xx">>, "c"), Mk(<<"dirfile", "xx">>, Error), Rm(<<"dirfile", "xx">>, Error),
    Ln(<<"README">>, <<"dirfile", "xx">>, Error), Rm(<<"dirfile">>, OK), Fails(<<".">>, "rw"),
    Opens(<<".">>), C("write", "fd", <<"x">>, "r", Error), Closes>>

iref ==
  Repeat(2, <<Mk(<<"irefd">>, OK), Cd(<<"irefd">>, OK), Mk(<<>>, Any), Ln(<<"README">>, <<>>, Any),
              Fails(<<>>, "c"), Creat(<<"xx">>), Closes, Rm(<<"xx">>, OK)>>) \o <<Cd(<<"/">>, OK)>>

cleared ==
  <<Rm(<<"dd", "dd", "ffff">>, OK), Rm(<<"dd", "ff">>, OK), Rm(<<"dd">>, Error), Rm(<<"dd", "dd">>, OK),
    Rm(<<"dd">>, OK)>>

subdir ==
  LET dd(n) == <<"dd", n>>
      deep(n) == <<"dd", "dd", n>>
  IN
  <<Rm(<<"ff">>, Any), Mk(<<"dd">>, OK), Creat(dd("ff")), Writes(<<"f", "f">>), Closes, Rm(<<"dd">>, Error),
    Mk(<<"/", "dd", "dd">>, OK), Creat(deep("ff")), Writes(<<"F", "F">>), Closes,
    Opens(<<"dd", "dd", "..", "ff">>), Reads(3, 2), Counts("f", 2), Closes,
    Ln(deep("ff"), deep("ffff"), OK), Rm(deep("ff"), OK), Fails(deep("ff"), "r"),
    Cd(<<"dd">>, OK), Cd(<<"dd", "..", "..", "dd">>, OK), Cd(<<"dd", "..", "..", "..", "dd">>, OK),
    Cd(<<".", "..">>, OK), Opens(deep("ffff")), Reads(3, 2), Closes, Fails(deep("ff"), "r"),
    Fails(<<"dd", "ff", "ff">>, "c"), Fails(<<"dd", "xx", "ff">>, "c"),
    Fails(<<"dd">>, "c"), Fails(<<"dd">>, "rw"), Fails(<<"dd">>, "w"),
    Ln(<<"dd", "ff", "ff">>, deep("xx"), Error), Ln(<<"dd", "xx", "ff">>, deep("xx"), Error),
    Ln(dd("ff"), deep("ffff"), Error), Mk(<<"dd", "ff", "ff">>, Error), Mk(<<"dd", "xx", "ff">>, Error),
    Mk(deep("ffff"), Error), Rm(<<"dd", "xx", "ff">>, Error), Rm(<<"dd", "ff", "ff">>, Error),
    Cd(dd("ff"), Error), Cd(dd("xx"), Error)>> \o cleared

-----------------------------------------------------------------------------
(* Files *)

writetest ==
  <<Creat(<<"small">>)>> \o Repeat(2, <<Writes(<<"a", "a">>), Writes(<<"b", "b">>)>>) \o
  <<Closes, Opens(<<"small">>), Reads(8, 8), Counts("a", 4), Closes, Rm(<<"small">>, OK)>>

\* A file of as many blocks as a file can have.
writetest1 ==
  <<Creat(<<"big">>)>> \o Repeat(MAXFILE \div 2, <<Writes(<<"0">>), Writes(<<"1">>)>>) \o
  <<Closes, Opens(<<"big">>)>> \o
  Repeat(MAXFILE \div 2, <<Reads(1, 1), Counts("0", 1), Reads(1, 1), Counts("1", 1)>>) \o
  <<Reads(1, 0), Closes, Rm(<<"big">>, OK)>>

bigwrite ==
  LET twice(bytes) == <<Creat(<<"bigwrite">>), Writes(bytes), Writes(bytes), Closes, Rm(<<"bigwrite">>, Any)>> IN
  <<Rm(<<"bigwrite">>, Any)>> \o twice(<<"a">>) \o twice(<<"a", "a", "a", "a">>)

createtest ==
  <<Creat(<<"a0">>), Closes, Creat(<<"a1">>), Closes, Rm(<<"a0">>, OK), Rm(<<"a1">>, OK)>>

\* An unlinked file is there as long as it is open.
unlinkread ==
  <<Creat(<<"unlinkread">>), Writes(<<"h", "e">>), Closes,
    C("open", <<"unlinkread">>, "rw", "fd", Fds), Rm(<<"unlinkread">>, OK),
    C("open", <<"unlinkread">>, "c", "fd1", Fds), C("write", "fd1", <<"y">>, "r", {1}), C("close", "fd1", 0, "r", OK),
    Reads(4, 2), Counts("h", 1), Writes(<<"x", "x">>), Closes, Rm(<<"unlinkread">>, Any)>>

linktest ==
  <<Rm(<<"lf1">>, Any), Rm(<<"lf2">>, Any), Creat(<<"lf1">>), Writes(<<"h">>), Closes,
    Ln(<<"lf1">>, <<"lf2">>, OK), Rm(<<"lf1">>, OK), Fails(<<"lf1">>, "r"),
    Opens(<<"lf2">>), Reads(4, 1), Closes, Ln(<<"lf2">>, <<"lf2">>, Error), Rm(<<"lf2">>, OK),
    Ln(<<"lf2">>, <<"lf1">>, Error), Ln(<<".">>, <<"lf1">>, Error)>>

bigdir ==
  <<Rm(<<"bd">>, Any), Creat(<<"bd">>), Closes, Ln(<<"bd">>, <<"x00">>, OK), Ln(<<"bd">>, <<"x01">>, OK),
    Rm(<<"bd">>, Any), Rm(<<"x00">>, OK), Rm(<<"x01">>, OK)>>

bigfile ==
  <<Rm(<<"bigfile">>, Any), Creat(<<"bigfile">>), Writes(<<"0", "0">>), Writes(<<"1", "1">>), Closes,
    Opens(<<"bigfile">>), Reads(1, 1), Counts("0", 1), Reads(1, 1), Counts("0", 1),
    Reads(1, 1), Counts("1", 1), Reads(1, 1), Reads(1, 0), Closes, Rm(<<"bigfile">>, Any)>>

-----------------------------------------------------------------------------
(* Processes *)

\* The offset of a shared descriptor is shared.
sharedfd ==
  LET twice(byte) == Repeat(2, <<Writes(<<byte, byte>>)>>) IN
  <<Rm(<<"sharedfd">>, Any), Creat(<<"sharedfd">>), Forks(twice("c"))>> \o twice("p") \o
  <<Waits, Closes, Opens(<<"sharedfd">>), Drains(2, 8),
    Either({<<Counts("c", 4)>>, <<Counts("p", 4)>>}), Closes, Rm(<<"sharedfd">>, Any)>>

fourfiles ==
  LET writer(name, byte) == <<Creat(<<name>>)>> \o Repeat(2, <<Writes(<<byte>>)>>)
      reader(name, byte) == <<Opens(<<name>>), Drains(2, 2), Counts(byte, 2), Closes, Rm(<<name>>, Any)>>
  IN
  <<Rm(<<"f0">>, Any), Forks(writer("f0", "0")), Rm(<<"f1">>, Any), Forks(writer("f1", "1")), Waits, Waits>> \o
  reader("f0", "0") \o reader("f1", "1")

createdelete ==
  LET child(a, b, c) == <<Creat(<<a>>), Closes, Creat(<<b>>), Closes, Creat(<<c>>), Closes, Rm(<<b>>, OK)>>
      left(a, b, c) == <<Opens(<<a>>), Closes, Fails(<<b>>, "r"), Opens(<<c>>), Closes, Rm(<<a>>, Any), Rm(<<c>>, Any)>>
  IN
  <<Forks(child("p0", "p1", "p2")), Forks(child("q0", "q1", "q2")), Waits, Waits>> \o
  left("p0", "p1", "p2") \o left("q0", "q1", "q2")

CloseAny == C("close", "fd", 0, "r", Any)
OpenAny(path, mode) == C("open", path, mode, "fd", Any)

concreate ==
  LET opens(f)  == <<Creat(<<f>>), Closes>>
      links(f)  == <<Ln(<<"C0">>, <<f>>, Any)>>
      reads(f)  == Repeat(2, <<OpenAny(<<f>>, "r"), CloseAny>>)
      unlinks(f) == Repeat(2, <<Rm(<<f>>, Any)>>)
  IN
  <<Rm(<<"C0">>, Any), Forks(opens("C0"))>> \o opens("C0") \o
  <<Waits, Rm(<<"C1">>, Any), Forks(links("C1"))>> \o links("C1") \o
  <<Waits, Rm(<<"C2">>, Any), Forks(opens("C2"))>> \o opens("C2") \o
  <<Waits, C("list", {"C0", "C1", "C2"}, 0, "r", {3}), Forks(reads("C0"))>> \o unlinks("C0") \o
  <<Waits, Forks(unlinks("C1"))>> \o reads("C1") \o <<Waits, Forks(unlinks("C2"))>> \o unlinks("C2") \o <<Waits>>

linkunlink ==
  LET any == Repeat(2, <<Either({<<OpenAny(<<"x">>, "c"), CloseAny>>, <<Ln(<<"cat">>, <<"x">>, Any)>>,
                                 <<Rm(<<"x">>, Any)>>})>>)
  IN <<Rm(<<"x">>, Any), Forks(any)>> \o any \o <<Waits>>

\* The end of the file is seen once the last writer has closed, or exited.
pipe1 ==
  <<C("pipe", 0, 0, "r", OK),
    Forks(<<Closes, C("write", "fd1", <<"0", "1", "2", "3">>, "r", 1 .. 4),
            C("write", "fd1", <<"4", "5">>, "r", 1 .. 2)>>),
    C("close", "fd1", 0, "r", OK), Reads(1, 1), Counts("0", 1), Drains(2, 5), Counts("5", 1), Closes, Waits>>

preempt ==
  <<ForkTo("pid1", <<Spins>>), ForkTo("pid2", <<Spins>>), C("pipe", 0, 0, "r", OK),
    ForkTo("pid3", <<Closes, C("write", "fd1", <<"x">>, "r", {1}), C("close", "fd1", 0, "r", OK), Spins>>),
    C("close", "fd1", 0, "r", OK), Reads(4, 1), Closes,
    C("kill", "pid1", 0, "r", OK), C("kill", "pid2", 0, "r", OK), C("kill", "pid3", 0, "r", OK),
    Waits, Waits, Waits, C("wait", 0, 0, "r", Error)>>

exitwait == Repeat(3, <<Forks(<<>>), Waits>>)

\* fork fails when there is no place for a process, and wait when there is no child.
forktest ==
  Repeat(NPROC - 1, <<Forks(<<>>)>>) \o <<C("fork", <<>>, 0, "r", Error)>> \o
  Repeat(NPROC - 1, <<Waits>>) \o <<C("wait", 0, 0, "r", Error)>>

-----------------------------------------------------------------------------
Tests == <<iputtest, exitiputtest, openiputtest, opentest, dirtest, rmdot, fourteen, dirfile, iref, subdir,
          writetest, writetest1, bigwrite, createtest, unlinkread, linktest, bigdir, bigfile, sharedfd, fourfiles,
          createdelete, concreate, linkunlink, pipe1, preempt, exitwait, forktest>>

Init == \E k \in DOMAIN Tests : Start(Tests[k])

Spec == Init /\ [][Next]_vars

\* A process that waits for a child, for what is in a pipe or for place in it, or spins.
Blocked(p) ==
  LET f == FileOf(p) IN
  \/ proc[p].state # "RUN"
  \/ proc[p].script = <<>> /\ p = 1
  \/ At(p, "wait") /\ Children(p) # {} /\ \A q \in Children(p) : proc[q].state # "ZOMBIE"
  \/ (At(p, "read") \/ At(p, "drain")) /\ f # NONE /\ file[f].type = "PIPE" /\ file[f].pipe = <<>> /\ WriteOpen(f)
  \/ At(p, "write") /\ f # NONE /\ file[f].type = "PIPE" /\ ReadOpen(f) /\ Len(file[Reader(f)].pipe) = PIPESIZE
  \/ At(p, "spin") /\ ~proc[p].killed

\* Every test passes: each call gives what the test expects of it, in every order of the
\* steps of its processes; and it comes to its end.
TestsPass ==
  /\ failed = {}
  /\ (\A p \in PID : Blocked(p)) => proc[1].script = <<>>
=============================================================================
