----------------------------- MODULE AtomicDisk -----------------------------
(* What the log promises: file system operations change a disk on which a  *)
(* group of whole operations takes effect at once, and a crash loses whole *)
(* operations only.                                                        *)
CONSTANTS Blocks, Ops, Data, Zero

VARIABLES
  durable,   \* what a crash leaves
  current,   \* what operations see
  active     \* operations between begin_op and end_op

dvars == <<durable, current, active>>

Init ==
  /\ durable = [b \in Blocks |-> Zero]
  /\ current = [b \in Blocks |-> Zero]
  /\ active = {}

Begin(o) == o \notin active /\ active' = active \cup {o} /\ UNCHANGED <<durable, current>>
End(o) == o \in active /\ active' = active \ {o} /\ UNCHANGED <<durable, current>>

Write(o, b, v) ==
  /\ o \in active
  /\ current' = [current EXCEPT ![b] = v]
  /\ UNCHANGED <<durable, active>>

Commit == active = {} /\ durable' = current /\ UNCHANGED <<current, active>>
Crash == current' = durable /\ active' = {} /\ UNCHANGED durable

Next ==
  \/ \E o \in Ops : Begin(o) \/ End(o) \/ \E b \in Blocks, v \in Data : Write(o, b, v)
  \/ Commit \/ Crash

Spec == Init /\ [][Next]_dvars
=============================================================================
