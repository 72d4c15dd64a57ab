-------------------------------- MODULE Names --------------------------------
(***************************************************************************)
(* Directories and path names (fs.c and sysfile.c of project01): processes *)
(* walk paths, make and remove files and directories, and change their     *)
(* current directory, while others remove what they have just looked up.   *)
(*                                                                         *)
(* A step is what happens under the lock of one directory or inode.  An    *)
(* inode lives while a name, or a process, refers to it; how the cache     *)
(* counts that is in Inodes.                                               *)
(***************************************************************************)
EXTENDS Naturals, Sequences, FiniteSets

CONSTANTS
  Proc,    \* processes
  Name,    \* names, besides ".."
  NINUM,   \* inodes; inode 1 is the root
  Paths,   \* the paths that are used
  Budgets  \* bounds of the model: the calls that are made, and how many in all

ROOTINO == 1
NULL == 0
DOTDOT == ".."
Inum == 1 .. NINUM
Calls == {"open", "create", "mkdir", "link", "unlink", "chdir"}

NamesAssumption ==
  /\ NINUM \in Nat \ {0} /\ NULL \notin Proc /\ DOTDOT \notin Name
  /\ IsFiniteSet(Proc) /\ IsFiniteSet(Name)
  /\ \A path \in Paths : path.absolute \in BOOLEAN /\ path.elems \in Seq(Name \cup {DOTDOT})
  /\ \A b \in Budgets : b.calls \subseteq Calls /\ b.number \in Nat

VARIABLES
  type, nlink,     \* of the inodes: 0 (free), "dir" or "file"
  entries, dotdot, \* of the directories: names, and the entry ".."
  lock,            \* who holds the lock of an inode from one step to the next
  pc, ip, rest,    \* where a process is; the inode it holds; the path ahead
  dp, old, new,    \* the directory of unlink; for link, the inode and the new path, and
                   \* for unlink, the inode that has lost its name
  cwd, fd,         \* its current directory and its open file
  left,            \* what is left of the budget
  panicked         \* ilock found a free inode, or unlink one without links

inodes == <<type, nlink, entries, dotdot>>
call   == <<pc, ip, rest, dp, old, new>>
vars   == <<inodes, lock, call, cwd, fd, left, panicked>>

NoEntries == [n \in Name |-> NULL]

Init ==
  /\ type = [i \in Inum |-> IF i = ROOTINO THEN "dir" ELSE "free"]
  /\ nlink = [i \in Inum |-> IF i = ROOTINO THEN 1 ELSE 0]
  /\ entries = [i \in Inum |-> NoEntries]
  /\ dotdot = [i \in Inum |-> IF i = ROOTINO THEN ROOTINO ELSE NULL]
  /\ lock = [i \in Inum |-> NULL]
  /\ pc = [p \in Proc |-> "user"] /\ ip = [p \in Proc |-> NULL]
  /\ rest = [p \in Proc |-> <<>>]
  /\ dp = [p \in Proc |-> NULL] /\ old = [p \in Proc |-> NULL] /\ new = [p \in Proc |-> <<>>]
  /\ cwd = [p \in Proc |-> ROOTINO] /\ fd = [p \in Proc |-> NULL]
  /\ left \in Budgets
  /\ panicked = FALSE

-----------------------------------------------------------------------------
(* Inodes *)

\* iput of the inodes in S: those without links that no process refers to any longer
\* are freed.  links, and the places of the processes, are the new ones.
\* A mutant: the references do not count.
PutAtOnce(S, links) == {i \in S \ {NULL} : links[i] = 0}

Put(S, links) ==
  {i \in S \ {NULL} : links[i] = 0
     /\ ~\E p \in Proc : i \in {ip'[p], dp'[p], old'[p], cwd'[p], fd'[p]}}

\* The inodes become t, n, e and d, but for what is freed by putting S.
Change(S, t, n, e, d) ==
  LET gone == Put(S, n) IN
  /\ type' = [i \in Inum |-> IF i \in gone THEN "free" ELSE t[i]]
  /\ nlink' = n
  /\ entries' = [i \in Inum |-> IF i \in gone THEN NoEntries ELSE e[i]]
  /\ dotdot' = [i \in Inum |-> IF i \in gone THEN NULL ELSE d[i]]

JustPut(S) == Change(S, type, nlink, entries, dotdot)

Lookup(d, n) == IF n = DOTDOT THEN dotdot[d] ELSE entries[d][n]

-----------------------------------------------------------------------------
(* Where a process is.  pc names the call, and rest what it has still to walk. *)

\* The calls that stop one level early (nameiparent).
Parents == {"create", "mkdir", "unlink", "newlink"}

\* Where a process has a count without a name, on its old inode.
Counting == {"newlink", "bad", "unlinked"}

\* ilock of the inode that p holds, with n elements ahead.
Locks(p, what, n) ==
  /\ ~panicked /\ pc[p] = what /\ Len(rest[p]) = n
  /\ lock[ip[p]] = NULL /\ type[ip[p]] # "free"

From(p, path) == IF path.absolute THEN ROOTINO ELSE cwd[p]

\* p walks on, or arrives, at inode i.
Go(p, there, i, path) ==
  /\ pc' = [pc EXCEPT ![p] = there]
  /\ ip' = [ip EXCEPT ![p] = i]
  /\ rest' = [rest EXCEPT ![p] = path]

\* The call is over, and all that p held is put.
Return(p) ==
  /\ Go(p, "user", NULL, <<>>)
  /\ dp' = [dp EXCEPT ![p] = NULL]
  /\ old' = [old EXCEPT ![p] = NULL]
  /\ new' = [new EXCEPT ![p] = <<>>]

\* The call fails here; link has a count to take back first.
Fail(p) ==
  /\ IF pc[p] = "newlink"
     THEN Go(p, "bad", old[p], <<>>) /\ UNCHANGED <<dp, old, new>>
     ELSE Return(p)
  /\ UNCHANGED <<cwd, fd>>
  /\ JustPut({ip[p], dp[p]})

Begin(p, what, path) ==
  /\ ~panicked /\ pc[p] = "user" /\ what \in left.calls /\ left.number > 0
  /\ what \in Parents => path.elems # <<>>
  /\ what \in {"open", "create"} => fd[p] = NULL
  /\ left' = [left EXCEPT !.number = @ - 1]
  /\ Go(p, what, From(p, path), path.elems)
  /\ IF what = "link" THEN \E to \in Paths : to.elems # <<>> /\ new' = [new EXCEPT ![p] = to]
                      ELSE UNCHANGED new
  /\ UNCHANGED <<inodes, lock, dp, old, cwd, fd, panicked>>

\* One turn of the loop of namex.
Walk(p) ==
  LET i == ip[p]
      next == Lookup(i, Head(rest[p]))
  IN
  /\ Len(rest[p]) > (IF pc[p] \in Parents THEN 1 ELSE 0)
  /\ Locks(p, pc[p], Len(rest[p]))
  /\ IF type[i] # "dir" \/ next = NULL
     THEN Fail(p)
     ELSE /\ Go(p, pc[p], next, Tail(rest[p]))
          /\ UNCHANGED <<dp, old, new, cwd, fd>>
          /\ JustPut({i})
  /\ UNCHANGED <<lock, left, panicked>>

\* ilock panics on an inode that is free.
Panic(p) ==
  /\ ~panicked /\ pc[p] # "user" /\ lock[ip[p]] = NULL /\ type[ip[p]] = "free"
  /\ panicked' = TRUE
  /\ UNCHANGED <<inodes, lock, call, cwd, fd, left>>

-----------------------------------------------------------------------------
(* open, chdir, close *)

Open(p) ==
  /\ Locks(p, "open", 0)
  /\ fd' = [fd EXCEPT ![p] = ip[p]]
  /\ Return(p)
  /\ UNCHANGED <<inodes, lock, cwd, left, panicked>>

Chdir(p) ==
  /\ Locks(p, "chdir", 0)
  /\ cwd' = [cwd EXCEPT ![p] = IF type[ip[p]] = "dir" THEN ip[p] ELSE @]
  /\ Return(p) /\ UNCHANGED fd
  /\ JustPut({ip[p], cwd[p]})
  /\ UNCHANGED <<lock, left, panicked>>

Close(p) ==
  /\ ~panicked /\ pc[p] = "user" /\ fd[p] # NULL
  /\ fd' = [fd EXCEPT ![p] = NULL]
  /\ UNCHANGED <<call, cwd>>
  /\ JustPut({fd[p]})
  /\ UNCHANGED <<lock, left, panicked>>

-----------------------------------------------------------------------------
(* create, for open and mkdir *)

\* In the directory: what is there is locked next; else a free inode gets the name.
\* (Without one the kernel panics.)  Whether the directory itself still has a name is
\* not looked at.
\* A mutant: the new directory's ".." is not counted.
CreateUncounted(p) ==
  LET n == Head(rest[p])
      d == ip[p]
      i == CHOOSE i \in Inum : type[i] = "free" /\ \A j \in Inum : type[j] = "free" => i <= j
      isdir == pc[p] = "mkdir"
  IN
  /\ pc[p] \in {"create", "mkdir"} /\ Locks(p, pc[p], 1)
  /\ IF type[d] # "dir" THEN Fail(p)
     ELSE IF Lookup(d, n) # NULL
     THEN Go(p, pc[p], Lookup(d, n), <<>>) /\ UNCHANGED <<dp, old, new, cwd, fd>> /\ JustPut({d})
     ELSE /\ \E j \in Inum : type[j] = "free"
          /\ Return(p) /\ UNCHANGED cwd
          /\ fd' = [fd EXCEPT ![p] = IF isdir THEN @ ELSE i]
          /\ Change({d}, [type EXCEPT ![i] = IF isdir THEN "dir" ELSE "file"],
                    [nlink EXCEPT ![i] = 1],
                    [entries EXCEPT ![d][n] = i],
                    [dotdot EXCEPT ![i] = IF isdir THEN d ELSE NULL])
  /\ UNCHANGED <<lock, left, panicked>>

Create(p) ==
  LET n == Head(rest[p])
      d == ip[p]
      i == CHOOSE i \in Inum : type[i] = "free" /\ \A j \in Inum : type[j] = "free" => i <= j
      isdir == pc[p] = "mkdir"
  IN
  /\ pc[p] \in {"create", "mkdir"} /\ Locks(p, pc[p], 1)
  /\ IF type[d] # "dir" THEN Fail(p)
     ELSE IF Lookup(d, n) # NULL
     THEN Go(p, pc[p], Lookup(d, n), <<>>) /\ UNCHANGED <<dp, old, new, cwd, fd>> /\ JustPut({d})
     ELSE /\ \E j \in Inum : type[j] = "free"
          /\ Return(p) /\ UNCHANGED cwd
          /\ fd' = [fd EXCEPT ![p] = IF isdir THEN @ ELSE i]
          /\ Change({d}, [type EXCEPT ![i] = IF isdir THEN "dir" ELSE "file"],
                    [nlink EXCEPT ![i] = 1, ![d] = IF isdir THEN @ + 1 ELSE @],
                    [entries EXCEPT ![d][n] = i],
                    [dotdot EXCEPT ![i] = IF isdir THEN d ELSE NULL])
  /\ UNCHANGED <<lock, left, panicked>>

\* The name was there: open takes it if it is a file.
CreateExists(p) ==
  /\ pc[p] \in {"create", "mkdir"} /\ Locks(p, pc[p], 0)
  /\ IF pc[p] = "create" /\ type[ip[p]] = "file"
     THEN fd' = [fd EXCEPT ![p] = ip[p]] /\ Return(p) /\ UNCHANGED <<cwd, inodes>>
     ELSE Fail(p)
  /\ UNCHANGED <<lock, left, panicked>>

-----------------------------------------------------------------------------
(* link *)

\* The old file: it is counted, and the new path walked.
\* A mutant: it may be a directory.
LinkCountsAny(p) ==
  /\ Locks(p, "link", 0)
  /\ old' = [old EXCEPT ![p] = ip[p]]
  /\ Go(p, "newlink", From(p, new[p]), new[p].elems)
  /\ new' = [new EXCEPT ![p] = <<>>]
  /\ nlink' = [nlink EXCEPT ![ip[p]] = @ + 1]
  /\ UNCHANGED <<lock, dp, cwd, fd, type, entries, dotdot, left, panicked>>

LinkCounts(p) ==
  /\ Locks(p, "link", 0)
  /\ IF type[ip[p]] = "dir" THEN Fail(p)
     ELSE /\ old' = [old EXCEPT ![p] = ip[p]]
          /\ Go(p, "newlink", From(p, new[p]), new[p].elems)
          /\ new' = [new EXCEPT ![p] = <<>>]
          /\ nlink' = [nlink EXCEPT ![ip[p]] = @ + 1]
          /\ UNCHANGED <<dp, cwd, fd, type, entries, dotdot>>
  /\ UNCHANGED <<lock, left, panicked>>

LinkEnters(p) ==
  LET n == Head(rest[p]) IN
  /\ Locks(p, "newlink", 1)
  /\ IF type[ip[p]] # "dir" \/ Lookup(ip[p], n) # NULL THEN Fail(p)
     ELSE /\ Return(p) /\ UNCHANGED <<cwd, fd>>
          /\ Change({ip[p], old[p]}, type, nlink, [entries EXCEPT ![ip[p]][n] = old[p]], dotdot)
  /\ UNCHANGED <<lock, left, panicked>>

LinkUndone(p) ==
  /\ Locks(p, "bad", 0)
  /\ Return(p) /\ UNCHANGED <<cwd, fd>>
  /\ Change({old[p]}, type, [nlink EXCEPT ![old[p]] = @ - 1], entries, dotdot)
  /\ UNCHANGED <<lock, left, panicked>>

-----------------------------------------------------------------------------
(* unlink *)

\* The directory stays locked while the inode is waited for.
UnlinkFinds(p) ==
  LET n == Head(rest[p])
      d == ip[p]
  IN
  /\ dp[p] = NULL /\ Locks(p, "unlink", 1)
  /\ IF type[d] # "dir" \/ n = DOTDOT \/ Lookup(d, n) = NULL
     THEN Fail(p) /\ UNCHANGED lock
     ELSE /\ lock' = [lock EXCEPT ![d] = p]
          /\ dp' = [dp EXCEPT ![p] = d]
          /\ Go(p, "unlink", Lookup(d, n), rest[p])
          /\ UNCHANGED <<inodes, old, new, cwd, fd>>
  /\ UNCHANGED <<left, panicked>>

\* The name goes, and the directory is given up.  The inode, still locked, is counted until
\* the next step.
Unlink(p) ==
  LET n == Head(rest[p])
      d == dp[p]
      i == ip[p]
  IN
  /\ d # NULL /\ Locks(p, "unlink", 1)
  /\ panicked' = (nlink[i] < 1)
  /\ IF nlink[i] < 1 \/ (type[i] = "dir" /\ entries[i] # NoEntries)
     THEN /\ lock' = [lock EXCEPT ![d] = NULL]
          /\ IF nlink[i] < 1 THEN UNCHANGED <<inodes, call, cwd, fd>> ELSE Fail(p)
     ELSE /\ lock' = [lock EXCEPT ![d] = NULL, ![i] = p]
          /\ Go(p, "unlinked", i, <<>>)
          /\ dp' = [dp EXCEPT ![p] = NULL] /\ old' = [old EXCEPT ![p] = i]
          /\ UNCHANGED <<new, cwd, fd>>
          /\ Change({d}, type, [nlink EXCEPT ![d] = IF type[i] = "dir" THEN @ - 1 ELSE @],
                    [entries EXCEPT ![d][n] = NULL], dotdot)
  /\ UNCHANGED left

UnlinkDone(p) ==
  LET i == ip[p] IN
  /\ ~panicked /\ pc[p] = "unlinked"
  /\ lock' = [lock EXCEPT ![i] = NULL]
  /\ Return(p) /\ UNCHANGED <<cwd, fd>>
  /\ Change({i}, type, [nlink EXCEPT ![i] = @ - 1], entries, dotdot)
  /\ UNCHANGED <<left, panicked>>

-----------------------------------------------------------------------------
Next ==
  \E p \in Proc :
    \/ \E what \in Calls, path \in Paths : Begin(p, what, path)
    \/ Walk(p) \/ Open(p) \/ Chdir(p) \/ Close(p) \/ Create(p) \/ CreateExists(p)
    \/ LinkCounts(p) \/ LinkEnters(p) \/ LinkUndone(p)
    \/ UnlinkFinds(p) \/ Unlink(p) \/ UnlinkDone(p) \/ Panic(p)

Spec == Init /\ [][Next]_vars

-----------------------------------------------------------------------------
\* The names of inode i: entries of directories that are not free.
Links(i) == {l \in Inum \X Name : entries[l[1]][l[2]] = i}
\* A directory that has a name counts, by its "..", as a link to its parent.
Subdirs(i) == {d \in Inum \ {ROOTINO} : type[d] = "dir" /\ dotdot[d] = i /\ Links(d) # {}}
\* The counts without a name: those that link has made ahead, or unlink has still to take back.
Ahead(i) == {p \in Proc : pc[p] \in Counting /\ old[p] = i}

\* Whatever the processes do at the same time, an inode that has a name, or is a current
\* directory or an open file, is not free, and its count is never below the number of
\* its names.  (It may be above: a file made in a directory that was removed meanwhile
\* is never freed.)
NamesLive ==
  \A i \in Inum :
    /\ Links(i) # {} \/ (\E p \in Proc : i \in {cwd[p], fd[p]}) => type[i] # "free"
    /\ nlink[i] >= Cardinality(Links(i)) + Cardinality(Subdirs(i)) + Cardinality(Ahead(i))

\* A directory has one name at most, in the directory that its ".." names; so locks are
\* taken down the tree, and no two processes wait for each other's directory.
DirectoriesFormTree ==
  /\ \A i \in Inum \ {ROOTINO} : type[i] = "dir" =>
       \A l \in Links(i) : Links(i) = {l} /\ dotdot[i] = l[1]
  /\ \A p, q \in Proc : ~(dp[p] # NULL /\ dp[q] # NULL /\ ip[p] = dp[q] /\ ip[q] = dp[p])
=============================================================================
