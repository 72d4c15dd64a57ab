------------------------------- MODULE FileBytes -------------------------------
(***************************************************************************)
(* What file.c promises of a file: it is a sequence of bytes; a read gets  *)
(* those from the offset of the open file on, and moves the offset past    *)
(* them; a write puts bytes there, chunk by chunk, and never leaves a gap. *)
(***************************************************************************)
EXTENDS Naturals, Sequences

CONSTANTS Open, Byte, MaxBytes

VARIABLES content, off, got

vars == <<content, off, got>>

Init == content = <<>> /\ off = [f \in Open |-> 0] /\ got = <<>>

\* A chunk of n bytes b replaces what is at the offset, and may make the file longer.
Write(f, n, b) ==
  /\ off[f] + n <= MaxBytes
  /\ content' = SubSeq(content, 1, off[f]) \o [i \in 1 .. n |-> b]
                \o SubSeq(content, off[f] + n + 1, Len(content))
  /\ off' = [off EXCEPT ![f] = @ + n]
  /\ UNCHANGED got

Read(f, n) ==
  /\ off[f] + n <= Len(content)
  /\ got' = SubSeq(content, off[f] + 1, off[f] + n)
  /\ off' = [off EXCEPT ![f] = @ + n]
  /\ UNCHANGED content

Rewind(f) ==
  /\ off' = [off EXCEPT ![f] = 0]
  /\ UNCHANGED <<content, got>>

Next ==
  \E f \in Open :
    \/ Rewind(f)
    \/ \E n \in 1 .. MaxBytes : Read(f, n) \/ \E b \in Byte : Write(f, n, b)

Spec == Init /\ [][Next]_vars
=============================================================================
