------------------------------- MODULE MCKcp -------------------------------
(* Kcp as it is: its constants are given in the configurations. *)
EXTENDS Kcp
=============================================================================
