------------------------------ MODULE MCPager -------------------------------
(* Instances of Pager for TLC; the configurations give the sizes. *)
EXTENDS Pager
=============================================================================
