------------------------------- MODULE MCProc -------------------------------
(* Instances of Proc for TLC; the configurations give the sizes. *)
EXTENDS Proc
=============================================================================
