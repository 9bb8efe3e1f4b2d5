---------------------------- MODULE MCAsyncWorker ----------------------------
(* Instances of AsyncWorker for TLC. *)
EXTENDS AsyncWorker, TLC

\* Threads are interchangeable (safety runs only).
Symmetry == Permutations(Producers)

=============================================================================
