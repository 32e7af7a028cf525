---------------------------- MODULE MCFutureLoop ----------------------------
(* FutureLoop for TLC. *)
EXTENDS FutureLoop
=============================================================================
