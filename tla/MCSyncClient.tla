----------------------------- MODULE MCSyncClient -----------------------------
(* Instances of SyncClient for TLC. *)
EXTENDS SyncClient, TLC

CONSTANTS f1, f2, p, q      \* a low file, a deep file, two places

\* Both names lead to one place, and the low file's path is the first word of the
\* other's: low_storage/ab= and "low_storage/ab= deep/ab".
Entangled == [place |-> f1 :> p @@ f2 :> p, word |-> f1 :> f1 @@ f2 :> f1]

\* The second name has a character that is not base64, and a space.
Broken == [place |-> f1 :> p @@ f2 :> Undecodable, word |-> f1 :> f1 @@ f2 :> NoFile]

\* Each name leads to a place of its own.
Apart == [place |-> f1 :> p @@ f2 :> q, word |-> f1 :> f1 @@ f2 :> f2]

Awkward == {Entangled, Broken}
Regular == {Apart}

===============================================================================
