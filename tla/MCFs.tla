-------------------------------- MODULE MCFs --------------------------------
(* Fs for TLC. *)
EXTENDS Fs
=============================================================================
