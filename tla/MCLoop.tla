------------------------------- MODULE MCLoop -------------------------------
(* Loop for TLC. *)
EXTENDS Loop
=============================================================================
