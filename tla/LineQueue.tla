------------------------------ MODULE LineQueue ------------------------------
(* What the console promises a reader: the characters typed, as edited before *)
(* the line was ended, in order, each once, and no more than a line at a time. *)
EXTENDS Naturals, Sequences

CONSTANTS Readers, Chars, Newline, EndOfFile, Size

VARIABLES
  ready,  \* characters readers may have
  edit,   \* the line being typed
  got     \* reader -> what its read has got so far

lvars == <<ready, edit, got>>

Init == ready = << >> /\ edit = << >> /\ got = [p \in Readers |-> << >>]

Ends(c) == c \in {Newline, EndOfFile}

\* A character joins the line; the line is handed over when it ends or when
\* there is no room for more.
Type(c) ==
  LET line == Append(edit, c) IN
  /\ Len(ready) + Len(edit) < Size
  /\ IF Ends(c) \/ Len(ready) + Len(line) = Size
     THEN ready' = ready \o line /\ edit' = << >>
     ELSE edit' = line /\ UNCHANGED ready
  /\ UNCHANGED got

Erase == edit # << >> /\ edit' = SubSeq(edit, 1, Len(edit) - 1) /\ UNCHANGED <<ready, got>>
KillLine == edit' = << >> /\ UNCHANGED <<ready, got>>

\* A reader takes characters up to the end of a line. The mark of an end of
\* file is not data: it is dropped by the read it ends with nothing, and left
\* for the next by a read that has something.
Take(p, k) ==
  LET chars == SubSeq(ready, 1, k) IN
  /\ \A i \in 1 .. k - 1 : ~Ends(ready[i])
  /\ k > 0 => ready[k] # EndOfFile
  /\ got' = [got EXCEPT ![p] = @ \o chars]
  /\ ready' = SubSeq(ready, k + 1, Len(ready))
  /\ UNCHANGED edit
MeetsEnd(p) ==
  /\ ready # << >> /\ Head(ready) = EndOfFile /\ got[p] = << >>
  /\ ready' = Tail(ready)
  /\ UNCHANGED <<edit, got>>
Done(p) == got' = [got EXCEPT ![p] = << >>] /\ UNCHANGED <<ready, edit>>

Next ==
  \/ \E c \in Chars : Type(c)
  \/ Erase \/ KillLine
  \/ \E p \in Readers : MeetsEnd(p) \/ Done(p) \/ \E k \in 0 .. Len(ready) : Take(p, k)

Spec == Init /\ [][Next]_lvars
=============================================================================
