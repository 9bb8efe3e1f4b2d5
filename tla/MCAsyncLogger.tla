---------------------------- MODULE MCAsyncLogger ----------------------------
(* An instance of AsyncLogger for TLC. *)
EXTENDS AsyncLogger

CONSTANTS c1, c2

=============================================================================
