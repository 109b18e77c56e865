-------------------------------- MODULE Shell ---------------------------------
(* The shell at the console: sh.c's main reads a line with gets, a character   *)
(* at a time, has a child parse and run it and waits. Other programs, started  *)
(* in the background, may read the console meanwhile.                          *)
EXTENDS Console, ShellParser

CONSTANTS
  Sh,      \* the shell, one of the Readers
  NLINE,   \* sizeof(buf) of main
  Lines    \* lines that may be in buf at the start

VARIABLES
  line,    \* the shell's buf, up to its null
  at       \* where the shell is: "getcmd", "gets", "parse", "exited"

vars == <<cvars, line, at>>

InitSh ==
  /\ ConsoleInit
  /\ \/ line = << >> /\ at = "getcmd"
     \/ line \in Lines /\ at = "parse"

\* Console's steps, whose readers the shell is one of. What is done with a line
\* touches nothing of the console's, and is done at once.
ConsoleStep ==
  /\ at # "parse"
  /\ \/ Keyboard
     \/ \E p \in Readers : InKernel(p)
     \/ \E p \in Readers \ {Sh} : Program(p)
  /\ UNCHANGED <<line, at>>

\* getcmd clears buf; gets asks for one character after the other.
Getcmd == at = "getcmd" /\ at' = "gets" /\ line' = << >> /\ UNCHANGED cvars
GetsReads == at = "gets" /\ Call(Sh, 1) /\ UNCHANGED <<line, at>>

\* gets puts down the character and goes on until the line ends, buf is full or
\* there is no more; an empty buf is the end of the shell.
GetsGoes ==
  /\ at = "gets" /\ Return(Sh)
  /\ LET more == line \o got[Sh]
         ends == result[Sh] < 1 \/ got[Sh] = <<Newline>> \/ Len(more) + 1 >= NLINE
     IN /\ line' = more
        /\ at' = IF ~ends THEN "gets" ELSE IF more = << >> THEN "exited" ELSE "parse"

\* A child of the shell parses the line and runs it, or panics; the shell waits
\* for it and asks for the next line.
Runs == at = "parse" /\ at' = "getcmd" /\ line' = << >> /\ UNCHANGED cvars

Next == ConsoleStep \/ Getcmd \/ GetsReads \/ GetsGoes \/ Runs

\* Readers on a processor go on, as long as it is up to them.
Fairness ==
  /\ \A p \in Readers :
       WF_vars((ReadEnds(p) \/ ReadMeetsEnd(p) \/ ReadWaits(p) \/ ReadSleeps(p)) /\ UNCHANGED <<line, at>>)
  /\ WF_vars(Getcmd \/ GetsReads \/ GetsGoes \/ Runs)

Spec == InitSh /\ [][Next]_vars /\ Fairness

-----------------------------------------------------------------------------
(* Properties *)

\* The commands the parser makes of a line are those of the grammar, and it
\* refuses what the grammar does not have: with empty commands, redirections of
\* blocks, blanks, and words up to MAXARGS (sh.c, parsecmd).
ParsesTheGrammar == at = "parse" => {Parsecmd(line)} = {LineTrees(Tokens(line, 1))}

\* A reader has characters of the console, or has taken an end of file.
Took(p) == got[p] # << >> \/ (stage[p] = "return" /\ result[p] = 0)

\* What the shell may read has the end of a line, or fills its buffer.
HasLine ==
  \/ \E i \in 1 .. Available : Line(Available)[i] \in {Newline, EndOfFile}
  \/ Available > 0 /\ Len(line) + Available + 1 >= NLINE

\* A line that is ended while nobody else reads comes to be run, or ends the shell,
\* wherever the shell is in gets; unless another reader comes and takes of it, or the
\* shell is killed (console.c:249, wakeup and sleep; ulib.c, gets).
LinesComeToRun ==
  (at = "gets" /\ HasLine /\ \A p \in Readers \ {Sh} : stage[p] = "user")
    ~> (at \in {"parse", "exited"} \/ killed[Sh] \/ \E p \in Readers \ {Sh} : Took(p))
=============================================================================
