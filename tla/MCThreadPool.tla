----------------------------- MODULE MCThreadPool -----------------------------
(* Instances of ThreadPool for TLC. *)
EXTENDS ThreadPool, TLC

\* Threads are interchangeable (safety runs only).
Symmetry == Permutations(Workers) \cup Permutations(Callers)

===============================================================================
