------------------------------ MODULE LineInput ------------------------------
(***************************************************************************)
(* What the console promises the processes that read it (console.c): keys  *)
(* build a line that can be edited until it is entered; reads take what    *)
(* was entered, in order, each character once and never past the end of a  *)
(* line, and an end of file is read by itself.                             *)
(***************************************************************************)
EXTENDS Naturals, Sequences, SequencesExt

CONSTANTS Letter, NL, EOT

VARIABLES line,    \* typed, not entered: may still change
          entered  \* entered, not read

vars == <<line, entered>>

Init == line = <<>> /\ entered = <<>>

Type(c)  == line' = Append(line, c) /\ UNCHANGED entered
Erase    == line' \in Prefixes(line) /\ UNCHANGED entered
Enter(c) == entered' = entered \o Append(line, c) /\ line' = <<>>

\* Letters, then at most one newline; or an end of file, alone.
Read == \E n \in 1 .. Len(entered) :
          /\ \A i \in 1 .. n : entered[i] = EOT => n = 1
          /\ \A i \in 1 .. n - 1 : entered[i] # NL
          /\ entered' = SubSeq(entered, n + 1, Len(entered))
          /\ UNCHANGED line

Next == \/ \E c \in Letter : Type(c)
        \/ \E c \in Letter \cup {NL, EOT} : Enter(c)
        \/ Erase \/ Read

Spec == Init /\ [][Next]_vars
=============================================================================
