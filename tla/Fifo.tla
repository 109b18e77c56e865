------------------------------- MODULE Fifo ---------------------------------
(* What a pipe promises: bytes come out in the order they went in, none is *)
(* lost or repeated, and at most Capacity of them are on their way.        *)
EXTENDS Naturals, Sequences

CONSTANT Capacity

VARIABLES
  accepted,   \* bytes that went in
  delivered   \* bytes that came out

fvars == <<accepted, delivered>>

Init == accepted = <<>> /\ delivered = <<>>

Put ==
  /\ SubSeq(accepted', 1, Len(accepted)) = accepted
  /\ Len(accepted') <= Len(delivered) + Capacity
  /\ UNCHANGED delivered

Get ==
  /\ \E n \in Len(delivered) + 1 .. Len(accepted) : delivered' = SubSeq(accepted, 1, n)
  /\ UNCHANGED accepted

Spec == Init /\ [][Put \/ Get]_fvars
=============================================================================
