---------------------------- MODULE PrivateMemory ----------------------------
(* What processes may rely on: each has a memory of its own, which only its   *)
(* own stores and calls change; fork copies it whole, exec replaces it by a   *)
(* program's, and a call that fails leaves it as it was. Sizes are in pages.  *)
EXTENDS Naturals

CONSTANTS Procs, Addresses, Contents, Programs, Zero, Absent

VARIABLES
  size,   \* process -> the size it has been told
  memory  \* process -> page address -> contents, or Absent

mvars == <<size, memory>>
Nothing == [a \in Addresses |-> Absent]

Store(p, a, v) ==
  /\ memory[p][a] # Absent
  /\ memory' = [memory EXCEPT ![p][a] = v]
  /\ UNCHANGED size

Fork(p, c) ==
  /\ memory[c] = Nothing
  /\ memory' = [memory EXCEPT ![c] = memory[p]]
  /\ size' = [size EXCEPT ![c] = size[p]]

Exec(p, program) ==
  /\ memory' = [memory EXCEPT ![p] = program.memory]
  /\ size' = [size EXCEPT ![p] = program.size]

\* New pages come with zeroes, the old ones stay.
Grow(p, s) ==
  /\ s >= size[p]
  /\ memory' = [memory EXCEPT ![p] =
                  [a \in Addresses |-> IF a \in size[p] .. s - 1 THEN Zero ELSE memory[p][a]]]
  /\ size' = [size EXCEPT ![p] = s]

\* Pages above the new size go. A shrink to nothing takes every page too, but
\* the process is told that it failed and keeps its size.
Shrink(p, s) ==
  /\ s <= size[p]
  /\ memory' = [memory EXCEPT ![p] = [a \in Addresses |-> IF a < s THEN memory[p][a] ELSE Absent]]
  /\ size' = IF s = 0 THEN size ELSE [size EXCEPT ![p] = s]

End(p) == memory' = [memory EXCEPT ![p] = Nothing] /\ size' = [size EXCEPT ![p] = 0]

Next == \E p \in Procs :
  \/ \E a \in Addresses, v \in Contents : Store(p, a, v)
  \/ \E c \in Procs : Fork(p, c)
  \/ \E s \in {0} \cup {a + 1 : a \in Addresses} : Grow(p, s) \/ Shrink(p, s)
  \/ \E program \in Programs : Exec(p, program)
  \/ End(p)

\* The first process has the first program, the others have nothing yet.
Init == \E p \in Procs, program \in Programs :
  /\ memory = [q \in Procs |-> IF q = p THEN program.memory ELSE Nothing]
  /\ size = [q \in Procs |-> IF q = p THEN program.size ELSE 0]

Spec == Init /\ [][Next]_mvars
=============================================================================
