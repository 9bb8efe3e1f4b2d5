------------------------------- MODULE LogFanout -------------------------------
(***************************************************************************)
(* What a logger with several outputs promises: messages are accepted one  *)
(* at a time, all that have been accepted are taken as one batch, and each *)
(* receiver is given each batch whole and once before the next is taken.   *)
(* It never closes: what was accepted may never be taken.                  *)
(***************************************************************************)
EXTENDS Sequences

CONSTANTS Message, Receivers

VARIABLES accepted, taken, delivered

vars == <<accepted, taken, delivered>>

Init == /\ accepted = <<>>
        /\ taken = <<>>
        /\ delivered = [r \in Receivers |-> <<>>]

Accept == /\ \E m \in Message : accepted' = Append(accepted, m)
          /\ UNCHANGED <<taken, delivered>>

Take == /\ \A r \in Receivers : delivered[r] = taken
        /\ taken' = accepted
        /\ UNCHANGED <<accepted, delivered>>

Deliver(r) == /\ delivered' = [delivered EXCEPT ![r] = taken]
              /\ UNCHANGED <<accepted, taken>>

Next == Accept \/ Take \/ \E r \in Receivers : Deliver(r)

Spec == Init /\ [][Next]_vars

===============================================================================
