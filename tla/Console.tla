------------------------------- MODULE Console -------------------------------
(* Console input: console.c's consoleintr, which edits the line being typed in *)
(* a ring of INPUT_BUF characters, and consoleread, which hands ended lines to *)
(* readers, on a machine where keys arrive at any moment and readers can be    *)
(* killed. A step is what runs under cons.lock, from acquire to release; but   *)
(* a read that goes to sleep has two, since kill does not take cons.lock and   *)
(* may come, on another CPU, between the test of p->killed and sleep. That     *)
(* sleep gives up the lock without missing a wakeup is a property of Proc. An  *)
(* interrupt that brings several characters is several steps.                  *)
EXTENDS Integers, Sequences, FiniteSets

CONSTANTS
  Readers,    \* processes that read the console
  INPUT_BUF,  \* size of the ring
  UintRange,  \* 2^32, where the ring's counters wrap
  Chars,      \* characters of lines, Newline and EndOfFile among them
  ReadSizes,  \* what readers ask for; a read of nothing returns without a look at input
  MaxKeys,    \* keys typed in a run
  MaxKills    \* kills in a run

Newline   == "nl"
EndOfFile == "^D"
Edits     == {"^H", "^U"}

ASSUME RingAssumption ==
  /\ INPUT_BUF \in Nat \ {0} /\ UintRange \in Nat
  /\ UintRange % INPUT_BUF = 0 /\ UintRange > INPUT_BUF

ASSUME ConsoleAssumption == {Newline, EndOfFile} \subseteq Chars /\ ReadSizes \subseteq Nat \ {0}

VARIABLES
  buf, r, w, e,  \* input: the ring; where readers, ended lines and typing are
  stage,         \* reader -> "user", "called", "waits", "asleep", "woken", "return"
  n,             \* reader -> what its read still wants
  got,           \* reader -> what its read has got
  result,        \* reader -> what its read returns, or what the last returned
  killed,        \* reader -> p->killed
  keys, kills    \* keys typed and kills so far

ring == <<buf, r, w, e>>
bounds == <<keys, kills>>
cvars == <<ring, stage, n, got, result, killed, bounds>>

Slot(i) == i % INPUT_BUF
Plus(i, k) == (i + k) % UintRange
Minus(i, k) == (i - k) % UintRange
At(i) == buf[Slot(i)]

ConsoleInit ==
  /\ buf = [i \in 0 .. INPUT_BUF - 1 |-> Newline]
  /\ r = UintRange - 1 /\ w = r /\ e = r      \* just before the counters wrap
  /\ stage = [p \in Readers |-> "user"]
  /\ n = [p \in Readers |-> 0]
  /\ got = [p \in Readers |-> << >>]
  /\ result = [p \in Readers |-> 0]
  /\ killed = [p \in Readers |-> FALSE]
  /\ keys = 0 /\ kills = 0

LockFree_Always == TRUE              \* mutant: the lock is given up before sleep

\* A reader holds cons.lock across steps while it is about to sleep.
LockFree == \A p \in Readers : stage[p] # "waits"

-----------------------------------------------------------------------------
(* consoleintr *)

Key == LockFree /\ keys < MaxKeys /\ keys' = keys + 1 /\ UNCHANGED <<n, got, result, killed, kills>>

\* wakeup(&input.r)
WakeReaders == stage' = [p \in Readers |-> IF stage[p] = "asleep" THEN "woken" ELSE stage[p]]

\* mutant: nobody is woken for a line
TypeChar_NoWake(c) ==
  /\ Key
  /\ Minus(e, r) < INPUT_BUF
  /\ buf' = [buf EXCEPT ![Slot(e)] = c]
  /\ e' = Plus(e, 1)
  /\ w' = IF c \in {Newline, EndOfFile} \/ e' = Plus(r, INPUT_BUF) THEN e' ELSE w
  /\ UNCHANGED <<r, stage>>

\* A character is kept if the ring has room, and ends the line if it is the
\* end of one or the last there is room for.
TypeChar(c) ==
  /\ Key
  /\ Minus(e, r) < INPUT_BUF
  /\ buf' = [buf EXCEPT ![Slot(e)] = c]
  /\ e' = Plus(e, 1)
  /\ IF c \in {Newline, EndOfFile} \/ e' = Plus(r, INPUT_BUF)
     THEN w' = e' /\ WakeReaders
     ELSE UNCHANGED <<w, stage>>
  /\ UNCHANGED r

\* mutant: a backspace may take back the end of a line
Backspace_PastEnd ==
  /\ Key
  /\ e # r
  /\ e' = Minus(e, 1)
  /\ w' = IF e = w THEN e' ELSE w
  /\ UNCHANGED <<buf, r, stage>>

\* C('H'): the last character of the line goes.
Backspace ==
  /\ Key
  /\ e # w
  /\ e' = Minus(e, 1)
  /\ UNCHANGED <<buf, r, w, stage>>

\* C('U'): every character of the line goes.
KillLine ==
  /\ Key
  /\ e # w
  /\ \E k \in 1 .. Minus(e, w) :
       /\ \A i \in 1 .. k : At(Minus(e, i)) # Newline
       /\ k = Minus(e, w) \/ At(Minus(e, k + 1)) = Newline
       /\ e' = Minus(e, k)
  /\ UNCHANGED <<buf, r, w, stage>>

-----------------------------------------------------------------------------
(* consoleread, called by sys_read with the inode unlocked meanwhile *)

Call(p, k) ==
  /\ stage[p] = "user" /\ ~killed[p]
  /\ stage' = [stage EXCEPT ![p] = "called"]
  /\ n' = [n EXCEPT ![p] = k]
  /\ got' = [got EXCEPT ![p] = << >>]
  /\ UNCHANGED <<ring, result, killed, bounds>>

Running(p) == LockFree /\ stage[p] \in {"called", "woken"}
Returns(p, value) == stage' = [stage EXCEPT ![p] = "return"] /\ result' = [result EXCEPT ![p] = value]

\* The characters of an ended line that consoleread takes in one go.
Available == Minus(w, r)
Line(k) == [i \in 1 .. k |-> At(Plus(r, i - 1))]
PlainBefore(k) == \A i \in 1 .. k - 1 : Line(k)[i] \notin {Newline, EndOfFile}

\* It returns when the line ends or the buffer is full,
ReadEnds(p) ==
  /\ Running(p)
  /\ \E k \in 1 .. Available :
       /\ PlainBefore(k) /\ k <= n[p]
       /\ Line(k)[k] # EndOfFile
       /\ Line(k)[k] = Newline \/ k = n[p]
       /\ r' = Plus(r, k)
       /\ n' = [n EXCEPT ![p] = @ - k]
       /\ got' = [got EXCEPT ![p] = @ \o Line(k)]
       /\ Returns(p, Len(got[p]) + k)
  /\ UNCHANGED <<buf, w, e, killed, bounds>>

\* or at an end of file, which is saved for the next read if this one has data,
ReadMeetsEnd(p) ==
  /\ Running(p)
  /\ \E k \in 1 .. Available :
       /\ PlainBefore(k) /\ k <= n[p]
       /\ Line(k)[k] = EndOfFile
       /\ LET data == SubSeq(Line(k), 1, k - 1) IN
            /\ r' = IF got[p] \o data = << >> THEN Plus(r, k) ELSE Plus(r, k - 1)
            /\ got' = [got EXCEPT ![p] = @ \o data]
            /\ n' = [n EXCEPT ![p] = @ - (k - 1)]
            /\ Returns(p, Len(got[p]) + k - 1)
  /\ UNCHANGED <<buf, w, e, killed, bounds>>

\* and is about to sleep, with what there was, when it wants more; or finds itself
\* killed.
ReadWaits(p) ==
  /\ Running(p)
  /\ PlainBefore(Available + 1) /\ Available < n[p]
  /\ r' = w
  /\ got' = [got EXCEPT ![p] = @ \o Line(Available)]
  /\ n' = [n EXCEPT ![p] = @ - Available]
  /\ IF killed[p] THEN Returns(p, -1)
     ELSE stage' = [stage EXCEPT ![p] = "waits"] /\ UNCHANGED result
  /\ UNCHANGED <<buf, w, e, killed, bounds>>

\* sleep(&input.r, &cons.lock)
ReadSleeps(p) ==
  /\ stage[p] = "waits"
  /\ stage' = [stage EXCEPT ![p] = "asleep"]
  /\ UNCHANGED <<ring, n, got, result, killed, bounds>>

\* Back in the program, or, killed, in exit. What was read is the program's.
Return(p) ==
  /\ stage[p] = "return" /\ ~killed[p]
  /\ stage' = [stage EXCEPT ![p] = "user"]
  /\ got' = [got EXCEPT ![p] = << >>]
  /\ UNCHANGED <<ring, n, result, killed, bounds>>

\* kill: a mark, and an end to sleep; who is about to sleep only gets the mark.
Kill(p) ==
  /\ kills < MaxKills /\ ~killed[p]
  /\ killed' = [killed EXCEPT ![p] = TRUE]
  /\ stage' = [stage EXCEPT ![p] = IF @ = "asleep" THEN "woken" ELSE @]
  /\ kills' = kills + 1
  /\ UNCHANGED <<ring, n, got, result, keys>>

-----------------------------------------------------------------------------
(* The console with its readers *)

Keyboard == (\E c \in Chars : TypeChar(c)) \/ Backspace \/ KillLine
InKernel(p) == ReadEnds(p) \/ ReadMeetsEnd(p) \/ ReadWaits(p) \/ ReadSleeps(p) \/ Kill(p)
Program(p) == Return(p) \/ \E k \in ReadSizes : Call(p, k)

ConsoleNext == Keyboard \/ \E p \in Readers : InKernel(p) \/ Program(p)
ConsoleSpec == ConsoleInit /\ [][ConsoleNext]_cvars

-----------------------------------------------------------------------------
(* Properties *)

\* The ring's counters are within its size of each other, and a call copies no
\* more than it asked for.
ConsoleTypeOK ==
  /\ buf \in [0 .. INPUT_BUF - 1 -> Chars]
  /\ {r, w, e} \subseteq 0 .. UintRange - 1
  /\ Minus(w, r) + Minus(e, w) <= INPUT_BUF
  /\ stage \in [Readers -> {"user", "called", "waits", "asleep", "woken", "return"}]
  /\ \A p \in Readers : Len(got[p]) + n[p] \in ReadSizes \cup {0} \/ stage[p] \in {"user", "return"}

\* A reader sleeps, or is about to, only while there is no ended line: the key that
\* ends one is not missed, however many readers there are, whoever of them takes the
\* line, and whether or not they have been killed meanwhile (console.c, consoleintr).
\* A kill may be missed: it wakes nobody who is only about to sleep.
SleepsWithReason == \A p \in Readers : stage[p] \in {"waits", "asleep"} => r = w

\* Types, the ring's three counters in order and no more than its size apart, and
\* nobody asleep beside a line (console.c, input and consoleread).
ConsoleSound == ConsoleTypeOK /\ SleepsWithReason

Queue == INSTANCE LineQueue WITH
  Size <- INPUT_BUF,
  ready <- Line(Available),
  edit <- [i \in 1 .. Minus(e, w) |-> At(Plus(w, i - 1))]

\* Through the ring and its wrapping counters, readers get the characters typed,
\* each once and in order, and editing never reaches into an ended line.
ImplementsLineQueue == Queue!Spec
=============================================================================
