---------------------------- MODULE MCLogFlush ----------------------------
(* An instance of LogFlush for TLC. *)
EXTENDS LogFlush

\* "./a//../b": dots and a doubled separator.
MCPaths == {<<".", "a", "", "..", "b">>}

\* 00:10 and 10:00 of one hour: their numbers put together are both "111".
MCInstants == <<[min |-> 0, sec |-> 10], [min |-> 10, sec |-> 0]>>

=============================================================================
