-------------------------- MODULE MCCoroutineLogger --------------------------
(* Instances of CoroutineLogger for TLC. *)
EXTENDS CoroutineLogger, TLC

\* Threads are interchangeable (safety runs only).
Symmetry == Permutations(Workers) \cup Permutations(Callers)

=============================================================================
