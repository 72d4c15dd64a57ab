----------------------------- MODULE StableStore -----------------------------
(***************************************************************************)
(* What the log of project03 promises the file system (log.c, the comment  *)
(* at its top): system calls change blocks, and a restart gives back the   *)
(* blocks as they were at an instant when no system call was under way, so *)
(* each system call survives a crash as a whole or not at all.             *)
(***************************************************************************)
CONSTANTS Proc, Block, Val, Zero

VARIABLES now,      \* the blocks as the system calls see them
          durable,  \* the blocks a restart gives back
          active    \* the processes inside a system call

vars == <<now, durable, active>>

Init ==
  /\ now = [b \in Block |-> Zero]
  /\ durable = now
  /\ active = {}

Begin(p) == /\ p \notin active
            /\ active' = active \cup {p}
            /\ UNCHANGED <<now, durable>>

Write(p, b, v) == /\ p \in active
                  /\ now' = [now EXCEPT ![b] = v]
                  /\ UNCHANGED <<durable, active>>

End(p) == /\ p \in active
          /\ active' = active \ {p}
          /\ UNCHANGED <<now, durable>>

Commit == /\ active = {}
          /\ durable' = now
          /\ UNCHANGED <<now, active>>

Crash == /\ now' = durable
         /\ active' = {}
         /\ UNCHANGED durable

Next ==
  \/ Commit \/ Crash
  \/ \E p \in Proc : Begin(p) \/ End(p) \/ \E b \in Block, v \in Val : Write(p, b, v)

Spec == Init /\ [][Next]_vars
=============================================================================
