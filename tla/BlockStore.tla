----------------------------- MODULE BlockStore -----------------------------
(* What the buffer cache promises: every block has one contents, one process  *)
(* at a time works on it, it is given the contents the last one left, and     *)
(* what it writes is what the next one is given.                              *)
CONSTANTS Procs, Blocks, Values, Nobody, NotRead

VARIABLES
  contents,  \* block -> its contents
  owner,     \* block -> the process working on it
  copy       \* block -> what bread has given that process

svars == <<contents, owner, copy>>

Init ==
  /\ contents \in [Blocks -> Values]
  /\ owner = [b \in Blocks |-> Nobody]
  /\ copy = [b \in Blocks |-> NotRead]

Take(p, b) ==
  /\ owner[b] = Nobody
  /\ owner' = [owner EXCEPT ![b] = p]
  /\ copy' \in {copy, [copy EXCEPT ![b] = contents[b]]}
  /\ UNCHANGED contents

Read(p, b) ==
  /\ owner[b] = p /\ copy[b] = NotRead
  /\ copy' = [copy EXCEPT ![b] = contents[b]]
  /\ UNCHANGED <<contents, owner>>

Write(p, b, v) ==
  /\ owner[b] = p /\ copy[b] # NotRead
  /\ contents' = [contents EXCEPT ![b] = v]
  /\ copy' = [copy EXCEPT ![b] = v]
  /\ UNCHANGED owner

Release(p, b) ==
  /\ owner[b] = p /\ copy[b] # NotRead
  /\ owner' = [owner EXCEPT ![b] = Nobody]
  /\ copy' = [copy EXCEPT ![b] = NotRead]
  /\ UNCHANGED contents

Next == \E p \in Procs, b \in Blocks :
  Take(p, b) \/ Read(p, b) \/ Release(p, b) \/ \E v \in Values : Write(p, b, v)

Spec == Init /\ [][Next]_svars
=============================================================================
