-------------------------------- MODULE Files --------------------------------
(***************************************************************************)
(* Open files, pipes and the processes that share them, in the kernel of   *)
(* project03 (file.c, pipe.c, sysfile.c, proc.c).  fork() gives the child  *)
(* the open files of its parent, so the two ends of a pipe are in several  *)
(* hands, and closing them decides who wakes, who reads the end of file    *)
(* and when the page of the pipe is free again.                            *)
(*                                                                         *)
(* An action is one section under ftable.lock, p->lock of a pipe, or       *)
(* ptable.lock, with the wake-ups made inside it.  A process that is not   *)
(* SLEEPING may run at any time: RUNNABLE stands for RUNNING too.          *)
(***************************************************************************)
EXTENDS Naturals, Sequences, FiniteSets

CONSTANTS
  NPROC,     \* slots of ptable; slot 1 is initproc
  NFILE,     \* slots of ftable: 100
  NOFILE,    \* descriptors of a process: 16
  NPIPE,     \* pages that kalloc can give to pipes
  PIPESIZE,  \* bytes in the buffer of a pipe: 512
  Wrap,      \* nread and nwrite are counted modulo Wrap: 2^32
  Writes,    \* the sequences of bytes that are written
  Reads,     \* the lengths that are asked for
  Budgets    \* bounds of the model: how many pipes, processes and reads, writes and dups
             \* a behaviour makes, and whether its processes use kill

FilesAssumption ==
  /\ {NPROC, NFILE, NOFILE, PIPESIZE} \subseteq Nat \ {0}
  /\ NPIPE \in Nat /\ Writes \subseteq Seq(Nat) /\ Reads \subseteq Nat
  /\ Budgets \subseteq [pipes : Nat, forks : Nat, calls : Nat, kills : BOOLEAN]
  \* A ring of PIPESIZE slots survives the overflow of its counters.
  /\ Wrap \in Nat /\ Wrap > PIPESIZE /\ Wrap % PIPESIZE = 0

Proc == 1 .. NPROC
File == 1 .. NFILE
Fd   == 1 .. NOFILE
Pipe == 1 .. NPIPE
NONE == 0
initproc == 1

VARIABLES
  state, parent, killed,  \* fields of ptable.proc
  pc,       \* where a process is: in user mode, or in a function of the kernel
  ofile,    \* its descriptors: files, or NONE
  held,     \* files it must still close
  arg,      \* the pipe that its read, write or pipeclose is about, and the end
  todo,     \* what its write has not written yet; for a read, as many bytes as it asks for
  leaving,  \* whether it is in exit
  ftable,   \* files: reference count, type, pipe and end
  pipes,    \* pipes: kalloc'ed or not, counters, buffer, and which ends are open
  left      \* what is left of the budget

procs == <<state, parent, killed>>
call  == <<pc, held, arg, todo, leaving>>
vars  == <<procs, call, ofile, ftable, pipes, left>>

Closed  == [ref |-> 0, type |-> "NONE", pipe |-> NONE, writable |-> FALSE]
NoPipe  == [used |-> FALSE, nread |-> 0, nwrite |-> 0, readopen |-> FALSE,
            writeopen |-> FALSE, data |-> [i \in 0 .. PIPESIZE - 1 |-> NONE]]
NoArg   == [pipe |-> NONE, writable |-> FALSE]

Init ==
  /\ state = [p \in Proc |-> IF p = initproc THEN "RUNNABLE" ELSE "UNUSED"]
  /\ parent = [p \in Proc |-> NONE] /\ killed = [p \in Proc |-> FALSE]
  /\ pc = [p \in Proc |-> "user"]
  /\ ofile = [p \in Proc |-> [fd \in Fd |-> NONE]]
  /\ held = [p \in Proc |-> <<>>] /\ arg = [p \in Proc |-> NoArg]
  /\ todo = [p \in Proc |-> <<>>] /\ leaving = [p \in Proc |-> FALSE]
  /\ ftable = [f \in File |-> Closed]
  /\ pipes = [k \in Pipe |-> NoPipe]
  /\ left \in Budgets

-----------------------------------------------------------------------------
(* Helpers *)

Least(S) == CHOOSE x \in S : \A y \in S : x <= y

At(p, there) == state[p] = "RUNNABLE" /\ pc[p] = there
\* A killed process enters no system call but exit (trap).
User(p) == At(p, "user") /\ ~killed[p]
Go(p, there) == pc' = [pc EXCEPT ![p] = there]

FreeFiles == {f \in File : ftable[f].ref = 0}
FreePipes == {k \in Pipe : ~pipes[k].used}
FreeFds(p) == {fd \in Fd : ofile[p][fd] = NONE}
OpenFds(p) == {fd \in Fd : ofile[p][fd] # NONE}

\* nwrite - nread in unsigned arithmetic: the bytes in the buffer.
Level(q) == (q.nwrite + Wrap - q.nread) % Wrap
Empty(q) == q.nread = q.nwrite
Full(q)  == q.nwrite = (q.nread + PIPESIZE) % Wrap

\* The channels nread and nwrite of pipe k: who sleeps in its piperead or pipewrite.
Sleepers(k, there) ==
  {p \in Proc : state[p] = "SLEEPING" /\ pc[p] = there /\ arg[p].pipe = k}
Wakeup(S) == [p \in Proc |-> IF p \in S THEN "RUNNABLE" ELSE state[p]]

-----------------------------------------------------------------------------
(* pipe(): filealloc twice, kalloc, fdalloc twice *)

PipeFirst(p) ==
  /\ User(p) /\ left.pipes > 0 /\ FreeFiles # {}
  /\ ftable' = [ftable EXCEPT ![Least(FreeFiles)].ref = 1]
  /\ held' = [held EXCEPT ![p] = <<Least(FreeFiles)>>]
  /\ left' = [left EXCEPT !.pipes = @ - 1]
  /\ Go(p, "pipe")
  /\ UNCHANGED <<procs, arg, todo, leaving, ofile, pipes>>

\* No second file, or no page for the pipe: what was allocated is closed.
PipeFails(p) ==
  /\ At(p, "pipe")
  /\ \/ /\ FreeFiles = {} /\ UNCHANGED <<held, ftable>>
     \/ /\ FreeFiles # {} /\ FreePipes = {}
        /\ ftable' = [ftable EXCEPT ![Least(FreeFiles)].ref = 1]
        /\ held' = [held EXCEPT ![p] = Append(@, Least(FreeFiles))]
  /\ Go(p, "fileclose")
  /\ UNCHANGED <<procs, arg, todo, leaving, ofile, pipes, left>>

\* With fewer than two descriptors left the pipe is made, and its files closed.
PipeDone(p) ==
  LET k == Least(FreePipes)
      rf == held[p][1]
      wf == Least(FreeFiles)
      fd0 == Least(FreeFds(p))
      fd1 == Least(FreeFds(p) \ {fd0})
  IN
  /\ At(p, "pipe") /\ FreeFiles # {} /\ FreePipes # {}
  /\ pipes' = [pipes EXCEPT ![k] =
       [NoPipe EXCEPT !.used = TRUE, !.readopen = TRUE, !.writeopen = TRUE]]
  /\ ftable' = [ftable EXCEPT
       ![rf] = [ref |-> 1, type |-> "PIPE", pipe |-> k, writable |-> FALSE],
       ![wf] = [ref |-> 1, type |-> "PIPE", pipe |-> k, writable |-> TRUE]]
  /\ IF Cardinality(FreeFds(p)) >= 2
     THEN /\ ofile' = [ofile EXCEPT ![p][fd0] = rf, ![p][fd1] = wf]
          /\ held' = [held EXCEPT ![p] = <<>>]
          /\ Go(p, "user")
     ELSE /\ held' = [held EXCEPT ![p] = <<rf, wf>>]
          /\ Go(p, "fileclose")
          /\ UNCHANGED ofile
  /\ UNCHANGED <<procs, arg, todo, leaving, left>>

-----------------------------------------------------------------------------
(* close(), dup(), and fileclose() *)

\* A mutant: the descriptor keeps the file.
CloseKeeps(p, fd) ==
  /\ User(p) /\ ofile[p][fd] # NONE
  /\ held' = [held EXCEPT ![p] = <<ofile[p][fd]>>]
  /\ Go(p, "fileclose")
  /\ UNCHANGED <<procs, arg, todo, leaving, ofile, ftable, pipes, left>>

Close(p, fd) ==
  /\ User(p) /\ ofile[p][fd] # NONE
  /\ ofile' = [ofile EXCEPT ![p][fd] = NONE]
  /\ held' = [held EXCEPT ![p] = <<ofile[p][fd]>>]
  /\ Go(p, "fileclose")
  /\ UNCHANGED <<procs, arg, todo, leaving, ftable, pipes, left>>

Dup(p, fd) ==
  /\ User(p) /\ ofile[p][fd] # NONE /\ FreeFds(p) # {} /\ left.calls > 0
  /\ left' = [left EXCEPT !.calls = @ - 1]
  /\ ofile' = [ofile EXCEPT ![p][Least(FreeFds(p))] = ofile[p][fd]]
  /\ ftable' = [ftable EXCEPT ![ofile[p][fd]].ref = @ + 1]
  /\ UNCHANGED <<procs, call, pipes>>

\* One fileclose.  The last reference frees the slot, and the pipe is closed from a
\* copy of it (ff), when the slot may be somebody else's already.
FileClose(p) ==
  /\ At(p, "fileclose") /\ held[p] # <<>>
  /\ held' = [held EXCEPT ![p] = Tail(@)]
  /\ LET f == Head(held[p])
         ff == ftable[f]
         last == ff.ref = 1
     IN
     /\ ftable' = [ftable EXCEPT
          ![f] = IF last THEN [ff EXCEPT !.ref = 0, !.type = "NONE"]
                         ELSE [ff EXCEPT !.ref = ff.ref - 1]]
     /\ IF last /\ ff.type = "PIPE"
        THEN /\ arg' = [arg EXCEPT ![p] = [pipe |-> ff.pipe, writable |-> ff.writable]]
             /\ Go(p, "pipeclose")
        ELSE UNCHANGED <<arg, pc>>
  /\ UNCHANGED <<procs, todo, leaving, ofile, pipes, left>>

PipeCloseThen(p, q, freed, woken) ==
  /\ At(p, "pipeclose")
  /\ pipes' = [pipes EXCEPT ![arg[p].pipe] = IF freed THEN NoPipe ELSE q]
  /\ state' = Wakeup(woken)
  /\ arg' = [arg EXCEPT ![p] = NoArg]
  /\ Go(p, "fileclose")
  /\ UNCHANGED <<parent, killed, held, todo, leaving, ofile, ftable, left>>

\* The pipe with one end closed, and who waits for that end.
EndClosed(a) == IF a.writable THEN [pipes[a.pipe] EXCEPT !.writeopen = FALSE]
                              ELSE [pipes[a.pipe] EXCEPT !.readopen = FALSE]
OtherEnd(a)  == Sleepers(a.pipe, IF a.writable THEN "piperead" ELSE "pipewrite")

\* Two mutants: nobody is woken; the page is freed with the write end.
PipeCloseSilent(p) ==
  LET q == EndClosed(arg[p])
  IN  PipeCloseThen(p, q, ~q.readopen /\ ~q.writeopen, {})

PipeCloseFrees(p) ==
  LET q == EndClosed(arg[p])
  IN  PipeCloseThen(p, q, ~q.writeopen, OtherEnd(arg[p]))

PipeClose(p) ==
  LET q == EndClosed(arg[p])
  IN  PipeCloseThen(p, q, ~q.readopen /\ ~q.writeopen, OtherEnd(arg[p]))

\* Nothing is left to close, and a process in exit goes on.
CloseDone(p) ==
  /\ At(p, "fileclose") /\ held[p] = <<>> /\ (leaving[p] => OpenFds(p) = {})
  /\ Go(p, IF leaving[p] THEN "exit" ELSE "user")
  /\ UNCHANGED <<procs, held, arg, todo, leaving, ofile, ftable, pipes, left>>

-----------------------------------------------------------------------------
(* read() and write() of a pipe *)

\* fileread and filewrite look at the end and enter piperead or pipewrite.
Enter(p, fd, writable, what, there) ==
  LET ff == ftable[ofile[p][fd]] IN
  /\ User(p) /\ ofile[p][fd] # NONE /\ ff.writable = writable /\ left.calls > 0
  /\ left' = [left EXCEPT !.calls = @ - 1]
  /\ arg' = [arg EXCEPT ![p] = [pipe |-> ff.pipe, writable |-> writable]]
  /\ todo' = [todo EXCEPT ![p] = what]
  /\ Go(p, there)
  /\ UNCHANGED <<procs, held, leaving, ofile, ftable, pipes>>

Read(p, fd)  == \E n \in Reads : Enter(p, fd, FALSE, [i \in 1 .. n |-> NONE], "piperead")
Write(p, fd) == \E bytes \in Writes : Enter(p, fd, TRUE, bytes, "pipewrite")

Return(p) ==
  /\ arg' = [arg EXCEPT ![p] = NoArg]
  /\ todo' = [todo EXCEPT ![p] = <<>>]
  /\ Go(p, "user")
  /\ UNCHANGED <<held, leaving>>

\* The pipe after n bytes were taken out, or the sequence bytes put in.
Taken(q, n)   == [q EXCEPT !.nread = (@ + n) % Wrap]
Put(q, bytes) == [q EXCEPT
  !.nwrite = (@ + Len(bytes)) % Wrap,
  !.data = [i \in DOMAIN @ |->
              LET later == ((i + PIPESIZE - (q.nwrite % PIPESIZE)) % PIPESIZE) + 1
              IN  IF later <= Len(bytes) THEN bytes[later] ELSE @[i]]]

\* Empty, with a writer left: wait, unless killed.
PipeReadSleep(p) ==
  LET q == pipes[arg[p].pipe] IN
  /\ At(p, "piperead") /\ Empty(q) /\ q.writeopen
  /\ IF killed[p] THEN Return(p) /\ UNCHANGED state
                  ELSE state' = [state EXCEPT ![p] = "SLEEPING"] /\ UNCHANGED call
  /\ UNCHANGED <<parent, killed, ofile, ftable, pipes, left>>

\* As many bytes as there are, none at the end of the file.
\* A mutant: at least one.
PipeReadOne(p) ==
  LET k == arg[p].pipe
      n == IF Len(todo[p]) <= Level(pipes[k]) + 1 THEN Len(todo[p]) ELSE Level(pipes[k])
  IN
  /\ At(p, "piperead") /\ ~(Empty(pipes[k]) /\ pipes[k].writeopen)
  /\ pipes' = [pipes EXCEPT ![k] = Taken(@, n)]
  /\ state' = Wakeup(Sleepers(k, "pipewrite"))
  /\ Return(p)
  /\ UNCHANGED <<parent, killed, ofile, ftable, left>>

PipeRead(p) ==
  LET k == arg[p].pipe
      n == IF Len(todo[p]) <= Level(pipes[k]) THEN Len(todo[p]) ELSE Level(pipes[k])
  IN
  /\ At(p, "piperead") /\ ~(Empty(pipes[k]) /\ pipes[k].writeopen)
  /\ pipes' = [pipes EXCEPT ![k] = Taken(@, n)]
  /\ state' = Wakeup(Sleepers(k, "pipewrite"))
  /\ Return(p)
  /\ UNCHANGED <<parent, killed, ofile, ftable, left>>

\* What fits is written.  With more to write: -1 if nobody can read or the writer is
\* killed, and then no reader is woken; else the readers are woken and it sleeps.
PipeWrite(p) ==
  LET k == arg[p].pipe
      room == PIPESIZE - Level(pipes[k])
      fits == Len(todo[p]) <= room
      n == IF fits THEN Len(todo[p]) ELSE room
      fails == ~fits /\ (~pipes[k].readopen \/ killed[p])
      woken == IF fails THEN state ELSE Wakeup(Sleepers(k, "piperead"))
  IN
  /\ At(p, "pipewrite")
  /\ pipes' = [pipes EXCEPT ![k] = Put(@, SubSeq(todo[p], 1, n))]
  /\ IF fits \/ fails
     THEN /\ state' = woken
          /\ Return(p)
     ELSE /\ state' = [woken EXCEPT ![p] = "SLEEPING"]
          /\ todo' = [todo EXCEPT ![p] = SubSeq(@, n + 1, Len(@))]
          /\ UNCHANGED <<pc, held, arg, leaving>>
  /\ UNCHANGED <<parent, killed, ofile, ftable, left>>

-----------------------------------------------------------------------------
(* fork(), exit(), wait() and kill() *)

\* A mutant: the child's descriptors are not counted.
ForkUncounted(p) ==
  LET np == Least({q \in Proc : state[q] = "UNUSED"}) IN
  /\ User(p) /\ left.forks > 0 /\ \E q \in Proc : state[q] = "UNUSED"
  /\ state' = [state EXCEPT ![np] = "RUNNABLE"]
  /\ parent' = [parent EXCEPT ![np] = p]
  /\ ofile' = [ofile EXCEPT ![np] = ofile[p]]
  /\ left' = [left EXCEPT !.forks = @ - 1]
  /\ UNCHANGED <<killed, call, ftable, pipes>>

\* The files the parent has open cannot be closed meanwhile, so fork is one step.
Fork(p) ==
  LET np == Least({q \in Proc : state[q] = "UNUSED"}) IN
  /\ User(p) /\ left.forks > 0 /\ \E q \in Proc : state[q] = "UNUSED"
  /\ state' = [state EXCEPT ![np] = "RUNNABLE"]
  /\ parent' = [parent EXCEPT ![np] = p]
  /\ ofile' = [ofile EXCEPT ![np] = ofile[p]]
  /\ ftable' = [f \in File |-> [ftable[f] EXCEPT
       !.ref = @ + Cardinality({fd \in Fd : ofile[p][fd] = f})]]
  /\ left' = [left EXCEPT !.forks = @ - 1]
  /\ UNCHANGED <<killed, call, pipes>>

\* By the system call, or by trap() for a killed process.
BeginExit(p) ==
  /\ At(p, "user") /\ p # initproc
  /\ leaving' = [leaving EXCEPT ![p] = TRUE]
  /\ Go(p, "fileclose")
  /\ UNCHANGED <<procs, held, arg, todo, ofile, ftable, pipes, left>>

\* exit closes its open files, one descriptor after the other.
CloseNext(p) ==
  /\ At(p, "fileclose") /\ held[p] = <<>> /\ leaving[p] /\ OpenFds(p) # {}
  /\ held' = [held EXCEPT ![p] = <<ofile[p][Least(OpenFds(p))]>>]
  /\ ofile' = [ofile EXCEPT ![p][Least(OpenFds(p))] = NONE]
  /\ UNCHANGED <<procs, pc, arg, todo, leaving, ftable, pipes, left>>

Children(p) == {q \in Proc : parent[q] = p}
Zombies(p)  == {q \in Children(p) : state[q] = "ZOMBIE"}
Waiters(S)  == {p \in S : state[p] = "SLEEPING" /\ pc[p] = "wait"}

\* The parent is woken, and init when it inherits a ZOMBIE.
Exit(p) ==
  LET heirs == IF Zombies(p) # {} THEN {initproc} ELSE {} IN
  /\ At(p, "exit")
  /\ state' = [Wakeup(Waiters({parent[p]} \cup heirs)) EXCEPT ![p] = "ZOMBIE"]
  /\ parent' = [q \in Proc |-> IF q \in Children(p) THEN initproc ELSE parent[q]]
  /\ UNCHANGED <<killed, call, ofile, ftable, pipes, left>>

Wait(p) ==
  /\ User(p) \/ At(p, "wait")
  /\ IF Zombies(p) # {}
     THEN LET q == Least(Zombies(p)) IN
          /\ state' = [state EXCEPT ![q] = "UNUSED"]
          /\ parent' = [parent EXCEPT ![q] = NONE]
          /\ killed' = [killed EXCEPT ![q] = FALSE]
          /\ leaving' = [leaving EXCEPT ![q] = FALSE]
          /\ pc' = [pc EXCEPT ![p] = "user", ![q] = "user"]
     ELSE /\ IF Children(p) = {} \/ killed[p]
             THEN Go(p, "user") /\ UNCHANGED state
             ELSE Go(p, "wait") /\ state' = [state EXCEPT ![p] = "SLEEPING"]
          /\ UNCHANGED <<parent, killed, leaving>>
  /\ UNCHANGED <<held, arg, todo, ofile, ftable, pipes, left>>

Kill(p, q) ==
  /\ left.kills /\ User(p) /\ state[q] \notin {"UNUSED", "ZOMBIE"} /\ ~killed[q]
  /\ killed' = [killed EXCEPT ![q] = TRUE]
  /\ state' = Wakeup({q})
  /\ UNCHANGED <<parent, call, ofile, ftable, pipes, left>>

-----------------------------------------------------------------------------
\* The rest of a call under way, and exit on behalf of a killed process.
Continue(p) ==
  \/ PipeFails(p) \/ PipeDone(p)
  \/ FileClose(p) \/ PipeClose(p) \/ CloseNext(p) \/ CloseDone(p)
  \/ PipeReadSleep(p) \/ PipeRead(p) \/ PipeWrite(p)
  \/ Exit(p) \/ (pc[p] = "wait" /\ Wait(p)) \/ (killed[p] /\ BeginExit(p))

\* A system call begins.
Call(p) ==
  \/ PipeFirst(p) \/ Fork(p) \/ (pc[p] = "user" /\ Wait(p)) \/ (~killed[p] /\ BeginExit(p))
  \/ \E fd \in Fd : Close(p, fd) \/ Dup(p, fd) \/ Read(p, fd) \/ Write(p, fd)
  \/ \E q \in Proc \ {initproc} : Kill(p, q)

Next == \E p \in Proc : Continue(p) \/ Call(p)

Spec == Init /\ [][Next]_vars

-----------------------------------------------------------------------------
TypeOK ==
  /\ state \in [Proc -> {"UNUSED", "SLEEPING", "RUNNABLE", "ZOMBIE"}]
  /\ parent \in [Proc -> Proc \cup {NONE}] /\ killed \in [Proc -> BOOLEAN]
  /\ pc \in [Proc -> {"user", "pipe", "fileclose", "pipeclose", "piperead", "pipewrite",
                      "exit", "wait"}]
  /\ ofile \in [Proc -> [Fd -> File \cup {NONE}]]
  /\ \A f \in File : ftable[f].ref \in Nat /\ ftable[f].pipe \in Pipe \cup {NONE}

\* The references to a file are the descriptors of live processes, and what those in
\* fileclose or in pipe() still hold.
Refs(f) ==
  Cardinality({u \in Proc \X Fd : ofile[u[1]][u[2]] = f})
  + Cardinality({u \in Proc \X (1 .. 2) : u[2] \in DOMAIN held[u[1]] /\ held[u[1]][u[2]] = f})

\* file.c counts them under ftable.lock, one at a time: a slot is free exactly when
\* nobody can reach it, whatever fork, dup and exit did.
FilesCounted == \A f \in File : ftable[f].ref = Refs(f)

\* An end of a pipe is open as long as a file, or a pipeclose under way, stands for it;
\* so the page is freed once, and nobody uses a pipe that is gone.
EndHeld(k, w) ==
  \/ \E f \in File : ftable[f].type = "PIPE" /\ ftable[f].pipe = k /\ ftable[f].writable = w
  \/ \E p \in Proc : pc[p] = "pipeclose" /\ arg[p] = [pipe |-> k, writable |-> w]

PipesLive ==
  \A k \in Pipe :
    /\ pipes[k].readopen = EndHeld(k, FALSE)
    /\ pipes[k].writeopen = EndHeld(k, TRUE)
    /\ pipes[k].used = (pipes[k].readopen \/ pipes[k].writeopen)
    /\ \A p \in Proc : pc[p] \in {"piperead", "pipewrite"} => pipes[arg[p].pipe].used

\* Nobody sleeps in a pipe for what is there already: a reader beside bytes or the end
\* of the file, a writer beside room or a reader that is gone.  A writer that is killed
\* leaves without a wake-up (pipe.c:86): then bytes may be there beside a reader.
NoLostWakeup ==
  \A p \in Proc : state[p] = "SLEEPING" =>
    LET q == pipes[arg[p].pipe] IN
    /\ ~killed[p]
    /\ pc[p] = "piperead" => q.writeopen /\ (Empty(q) \/ left.kills)
    /\ pc[p] = "pipewrite" => q.readopen /\ Full(q)

\* What the pipes promise (ByteStreams.tla).
Stream(q) == [i \in 1 .. Level(q) |-> q.data[(q.nread + i - 1) % PIPESIZE]]
Streams == INSTANCE ByteStreams WITH
  used <- {k \in Pipe : pipes[k].used}, stream <- [k \in Pipe |-> Stream(pipes[k])],
  writers <- [k \in Pipe |-> EndHeld(k, TRUE)]
PipesAreStreams == Streams!Spec
=============================================================================
