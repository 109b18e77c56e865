------------------------------- MODULE MCLog --------------------------------
(* Instances of Log for TLC; the configurations give the sizes. *)
EXTENDS Log
=============================================================================
