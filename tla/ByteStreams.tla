---------------------------- MODULE ByteStreams ----------------------------
(***************************************************************************)
(* What a pipe of project03 promises (pipe.c): the bytes written come out  *)
(* in order, each once; at most PIPESIZE of them are under way; and once   *)
(* nobody can write, nothing comes that was not there.                     *)
(***************************************************************************)
EXTENDS Naturals, Sequences, SequencesExt

CONSTANTS Pipe, PIPESIZE, Writes

VARIABLES used,    \* the pipes there are
          stream,  \* the bytes under way in each
          writers  \* whether somebody may still write into it

vars == <<used, stream, writers>>

Init == /\ used = {}
        /\ stream = [k \in Pipe |-> <<>>]
        /\ writers = [k \in Pipe |-> FALSE]

Open(k) == /\ k \notin used
           /\ used' = used \cup {k}
           /\ writers' = [writers EXCEPT ![k] = TRUE]
           /\ UNCHANGED stream

\* Some part of what somebody writes, in one piece.
Write(k) == /\ k \in used /\ writers[k]
            /\ \E bytes \in Writes : \E i, j \in 1 .. Len(bytes) :
                 /\ i <= j /\ Len(stream[k]) + j - i < PIPESIZE
                 /\ stream' = [stream EXCEPT ![k] = @ \o SubSeq(bytes, i, j)]
            /\ UNCHANGED <<used, writers>>

Read(k) == /\ k \in used
           /\ \E rest \in Suffixes(stream[k]) : stream' = [stream EXCEPT ![k] = rest]
           /\ UNCHANGED <<used, writers>>

NoMoreWriters(k) == /\ k \in used /\ writers[k]
                    /\ writers' = [writers EXCEPT ![k] = FALSE]
                    /\ UNCHANGED <<used, stream>>

\* With its last end the pipe goes, and what nobody has read with it.
Close(k) == /\ k \in used
            /\ used' = used \ {k}
            /\ stream' = [stream EXCEPT ![k] = <<>>]
            /\ writers' = [writers EXCEPT ![k] = FALSE]

Next == \E k \in Pipe : Open(k) \/ Write(k) \/ Read(k) \/ NoMoreWriters(k) \/ Close(k)

Spec == Init /\ [][Next]_vars
=============================================================================
