---------------------------- MODULE MCAvmServer ----------------------------
(* AvmServer for a script that has more calls than there are request ids. *)
EXTENDS AvmServer

MCCalls == 1..3
MCSizes == {1, 2}
=============================================================================
