----------------------------- MODULE BlockStore -----------------------------
(***************************************************************************)
(* What the buffer cache promises its callers (the comment at the top of   *)
(* bio.c): one process at a time has a block, sees what was last put into  *)
(* it, by whoever had it, and nothing changes a block that nobody has.     *)
(***************************************************************************)
CONSTANTS Proc, Block, Val, NONE

VARIABLES value,  \* what each block contains
          owner   \* who has it

vars == <<value, owner>>

Init == value \in [Block -> Val] /\ owner = [b \in Block |-> NONE]

Get(p, b) == /\ owner[b] = NONE
             /\ owner' = [owner EXCEPT ![b] = p]
             /\ UNCHANGED value

Change(p, b) == /\ owner[b] = p
                /\ \E v \in Val : value' = [value EXCEPT ![b] = v]
                /\ UNCHANGED owner

Release(p, b) == /\ owner[b] = p
                 /\ owner' = [owner EXCEPT ![b] = NONE]
                 /\ UNCHANGED value

Next == \E p \in Proc, b \in Block : Get(p, b) \/ Change(p, b) \/ Release(p, b)

Spec == Init /\ [][Next]_vars
=============================================================================
