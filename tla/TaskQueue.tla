------------------------------ MODULE TaskQueue ------------------------------
(***************************************************************************)
(* What a pool of Width threads promises: tasks are accepted until the     *)
(* pool stops, started in the order they were accepted, each once, at most *)
(* Width of them at a time; every accepted task finishes, also those still *)
(* queued when the pool stops; the pool closes when all have finished.     *)
(***************************************************************************)
EXTENDS Naturals, Sequences, FiniteSets

CONSTANTS Task, Width

VARIABLES
    accepted,   \* tasks in the order they were accepted
    started,    \* those that were started, in order
    done,       \* those that have finished
    stopping,   \* no task is accepted any more
    closed

vars == <<accepted, started, done, stopping, closed>>

Elements(s) == {s[i] : i \in 1..Len(s)}

Init == /\ accepted = <<>>
        /\ started = <<>>
        /\ done = {}
        /\ stopping = FALSE
        /\ closed = FALSE

Accept(t) == /\ ~stopping
             /\ t \notin Elements(accepted)
             /\ accepted' = Append(accepted, t)
             /\ UNCHANGED <<started, done, stopping, closed>>

Start == /\ Len(started) < Len(accepted)
         /\ Len(started) < Cardinality(done) + Width
         /\ started' = Append(started, accepted[Len(started) + 1])
         /\ UNCHANGED <<accepted, done, stopping, closed>>

Finish(t) == /\ t \in Elements(started) \ done
             /\ done' = done \cup {t}
             /\ UNCHANGED <<accepted, started, stopping, closed>>

Stop == /\ ~stopping
        /\ stopping' = TRUE
        /\ UNCHANGED <<accepted, started, done, closed>>

Close == /\ stopping /\ ~closed
         /\ done = Elements(accepted)
         /\ closed' = TRUE
         /\ UNCHANGED <<accepted, started, done, stopping>>

Next == \/ \E t \in Task : Accept(t) \/ Finish(t)
        \/ Start \/ Stop \/ Close

Spec == Init /\ [][Next]_vars

FairSpec == /\ Spec
            /\ WF_vars(Start)
            /\ \A t \in Task : WF_vars(Finish(t))
            /\ WF_vars(Close)

===============================================================================
