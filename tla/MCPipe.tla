------------------------------- MODULE MCPipe -------------------------------
(* Instances of Pipe for TLC; the configurations give the sizes. *)
EXTENDS Pipe
=============================================================================
