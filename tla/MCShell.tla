------------------------------- MODULE MCShell --------------------------------
(* Instances of Shell for TLC. *)
EXTENDS Shell

\* Every line of a few characters, and longer ones of fewer.
AllLines ==
  UNION {[1 .. k -> {"a", " "} \cup Symbols] : k \in 1 .. 4} \cup
  UNION {[1 .. k -> {"a", "(", ")", ";", "&", "|"}] : k \in 5 .. 6} \cup
  UNION {[1 .. k -> {"a", " ", ">", "<"}] : k \in 5 .. 6}
AllChars == {"a", "nl", "^D"}
=============================================================================
