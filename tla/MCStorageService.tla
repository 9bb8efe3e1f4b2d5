-------------------------- MODULE MCStorageService --------------------------
(* Instances of StorageService for TLC. *)
EXTENDS StorageService, TLC

\* All contents pack to the same size: the sizes then never tell two versions
\* apart, which leaves that to the other fields.
MCSize(content) == 1

\* Files and contents are interchangeable (safety runs only).
Symmetry == Permutations(Names) \cup Permutations(Contents)

=============================================================================
