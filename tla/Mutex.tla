------------------------------- MODULE Mutex --------------------------------
(***************************************************************************)
(* What sleep locks promise their users: of every lock, at most one thread *)
(* is inside at a time; a thread enters when nobody is inside, and only    *)
(* the thread that is inside leaves.                                       *)
(***************************************************************************)
CONSTANTS Threads, LockIds
VARIABLE inside      \* [LockIds -> threads between acquiresleep and releasesleep]

Init == inside = [l \in LockIds |-> {}]

Acquire(t, l) == inside[l] = {} /\ inside' = [inside EXCEPT ![l] = {t}]
Release(t, l) == inside[l] = {t} /\ inside' = [inside EXCEPT ![l] = {}]

Next == \E t \in Threads, l \in LockIds : Acquire(t, l) \/ Release(t, l)

Spec == Init /\ [][Next]_inside
=============================================================================
