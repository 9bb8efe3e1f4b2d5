------------------------------ MODULE LogChannel ------------------------------
(***************************************************************************)
(* What a logger promises the threads that use it: messages are accepted   *)
(* one at a time, handed on in the order they were accepted, each exactly  *)
(* once, and the channel closes only when nothing it accepted is pending.  *)
(***************************************************************************)
EXTENDS Sequences, SequencesExt

CONSTANT Message

VARIABLES accepted, delivered, closed

vars == <<accepted, delivered, closed>>

Init == /\ accepted = <<>>
        /\ delivered = <<>>
        /\ closed = FALSE

Accept == /\ ~closed
          /\ \E m \in Message : accepted' = Append(accepted, m)
          /\ UNCHANGED <<delivered, closed>>

\* A batch of any length: the next messages that have not been delivered.
Deliver == /\ ~closed
           /\ IsPrefix(delivered, delivered')
           /\ IsPrefix(delivered', accepted)
           /\ UNCHANGED <<accepted, closed>>

Close == /\ ~closed
         /\ delivered = accepted
         /\ closed' = TRUE
         /\ UNCHANGED <<accepted, delivered>>

Next == Accept \/ Deliver \/ Close

Spec == Init /\ [][Next]_vars

===============================================================================
