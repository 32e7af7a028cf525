-------------------------- MODULE MCHttpConnection --------------------------
(* HttpConnection for TLC. *)
EXTENDS HttpConnection
=============================================================================
