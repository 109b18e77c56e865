----------------------------- MODULE ShellParser -----------------------------
(* The parser of sh.c: gettoken, peek and the procedures of the recursive      *)
(* descent, as operators on a line (a sequence of characters) and a position;  *)
(* and, apart from it, the grammar it is to accept.                            *)
EXTENDS Integers, Sequences, FiniteSets

CONSTANT MAXARGS    \* words of a command, and the null after them

Blank   == {" ", "nl"}
Symbols == {"<", "|", ">", "&", ";", "(", ")"}

-----------------------------------------------------------------------------
(* The tree parsecmd builds. A word is its first position and the one after   *)
(* its last: nulterminate ends it there.                                      *)

Exec(argv)        == [type |-> "EXEC", argv |-> argv]
Redir(cmd, redir) == [type |-> "REDIR", cmd |-> cmd, redir |-> redir]
Pipe(left, right) == [type |-> "PIPE", left |-> left, right |-> right]
List(left, right) == [type |-> "LIST", left |-> left, right |-> right]
Back(cmd)         == [type |-> "BACK", cmd |-> cmd]

\* A redirection: the descriptor and mode that go with the symbol.
RedirOf(symbol, word) ==
  IF symbol = "<" THEN [file |-> word, create |-> FALSE, fd |-> 0]
  ELSE [file |-> word, create |-> TRUE, fd |-> 1]

\* A position in the line, with what has been built; panic has no position.
At_(i, cmd) == [pos |-> i, cmd |-> cmd]
Panic == [pos |-> 0]

-----------------------------------------------------------------------------
(* gettoken and peek *)

RECURSIVE Skip(_, _, _)
Skip(s, i, chars) == IF i <= Len(s) /\ s[i] \in chars THEN Skip(s, i + 1, chars) ELSE i

RECURSIVE WordEnd(_, _)
WordEnd(s, i) == IF i <= Len(s) /\ s[i] \notin Blank \cup Symbols THEN WordEnd(s, i + 1) ELSE i

Peek(s, i, toks) == LET j == Skip(s, i, Blank) IN j <= Len(s) /\ s[j] \in toks

GetToken(s, i) ==
  LET j == Skip(s, i, Blank)
      two == j < Len(s) /\ s[j] = ">" /\ s[j + 1] = ">"
      k == IF j > Len(s) THEN j ELSE IF two THEN j + 2
           ELSE IF s[j] \in Symbols THEN j + 1 ELSE WordEnd(s, j)
      tok == IF j > Len(s) THEN "end" ELSE IF two THEN "+"
             ELSE IF s[j] \in Symbols THEN s[j] ELSE "a"
  IN [tok |-> tok, word |-> <<j, k>>, next |-> Skip(s, k, Blank)]

-----------------------------------------------------------------------------
(* parsecmd and the procedures under it *)

\* parseredirs: what is parsed so far, wrapped in the redirections that follow.
RECURSIVE Parseredirs(_, _)
Parseredirs(s, x) ==
  IF ~Peek(s, x.pos, {"<", ">"}) THEN x
  ELSE LET op == GetToken(s, x.pos)
           file == GetToken(s, op.next)
       IN IF file.tok # "a" THEN Panic
          ELSE Parseredirs(s, At_(file.next, Append(x.cmd, RedirOf(op.tok, file.word))))

\* The redirections found, as commands around the first: the last is outermost.
RECURSIVE Wrap(_, _)
Wrap(cmd, redirs) == IF redirs = << >> THEN cmd ELSE Wrap(Redir(cmd, Head(redirs)), Tail(redirs))

RECURSIVE Words(_, _, _), Parseexec(_, _), Parsepipe(_, _), Parseline(_, _), Backs(_, _)

\* The loop of parseexec, with the words and redirections so far.
Words(s, argv, x) ==
  IF x = Panic THEN Panic
  ELSE IF Peek(s, x.pos, {"|", ")", "&", ";"}) THEN At_(x.pos, Wrap(Exec(argv), x.cmd))
  ELSE LET t == GetToken(s, x.pos) IN
       IF t.tok = "end" THEN At_(t.next, Wrap(Exec(argv), x.cmd))
       ELSE IF t.tok # "a" THEN Panic                          \* "syntax"
       ELSE IF Len(argv) + 1 >= MAXARGS THEN Panic             \* "too many args"
       ELSE Words(s, Append(argv, t.word), Parseredirs(s, At_(t.next, x.cmd)))

\* ")" and the redirections after it
WithRedirs(cmd, redirs) == IF redirs = Panic THEN Panic ELSE At_(redirs.pos, Wrap(cmd, redirs.cmd))
BlockEnd(s, line) ==
  IF line = Panic THEN Panic
  ELSE IF ~Peek(s, line.pos, {")"}) THEN Panic                 \* "syntax - missing )"
  ELSE WithRedirs(line.cmd, Parseredirs(s, At_(GetToken(s, line.pos).next, << >>)))

Parseblock(s, i) == BlockEnd(s, Parseline(s, GetToken(s, i).next))

Parseexec(s, i) ==
  IF Peek(s, i, {"("}) THEN Parseblock(s, i) ELSE Words(s, << >>, Parseredirs(s, At_(i, << >>)))

\* "|" and what follows it
Piped(left, right) == IF right = Panic THEN Panic ELSE At_(right.pos, Pipe(left.cmd, right.cmd))
PipeRest(s, left) ==
  IF left = Panic \/ ~Peek(s, left.pos, {"|"}) THEN left
  ELSE Piped(left, Parsepipe(s, GetToken(s, left.pos).next))

Parsepipe(s, i) == PipeRest(s, Parseexec(s, i))

\* mutant: "&" is looked for once
Backs_Once(s, x) ==
  IF x # Panic /\ Peek(s, x.pos, {"&"}) THEN At_(GetToken(s, x.pos).next, Back(x.cmd)) ELSE x

Backs(s, x) ==
  IF x # Panic /\ Peek(s, x.pos, {"&"}) THEN Backs(s, At_(GetToken(s, x.pos).next, Back(x.cmd))) ELSE x

\* ";" and what follows it
Listed(left, right) == IF right = Panic THEN Panic ELSE At_(right.pos, List(left.cmd, right.cmd))
LineRest(s, left) ==
  IF left = Panic \/ ~Peek(s, left.pos, {";"}) THEN left
  ELSE Listed(left, Parseline(s, GetToken(s, left.pos).next))

Parseline(s, i) == LineRest(s, Backs(s, Parsepipe(s, i)))

\* The commands of a line: none if the parser panics or leaves something over.
Accepted(s, x) == IF x # Panic /\ Skip(s, x.pos, Blank) > Len(s) THEN {x.cmd} ELSE {}
Parsecmd(s) == Accepted(s, Parseline(s, 1))

-----------------------------------------------------------------------------
(* The grammar, over the tokens of the line:                                  *)
(*   line  = pipe {"&"} [";" line]     pipe = exec ["|" pipe]                 *)
(*   exec  = "(" line ")" {redir} | {word | redir}, words fewer than MAXARGS  *)
(*   redir = ("<" | ">" | ">>") word                                          *)

RECURSIVE Tokens(_, _)
Tokens(s, i) == LET t == GetToken(s, i) IN IF t.tok = "end" THEN << >> ELSE <<t>> \o Tokens(s, t.next)

From(ts, i) == SubSeq(ts, i, Len(ts))
Upto(ts, i) == SubSeq(ts, 1, i)
IsRedirs(ts) ==
  /\ Len(ts) % 2 = 0
  /\ \A i \in 1 .. Len(ts) : IF i % 2 = 1 THEN ts[i].tok \in {"<", ">", "+"} ELSE ts[i].tok = "a"
RedirsOf(ts) == [i \in 1 .. Len(ts) \div 2 |-> RedirOf(ts[2 * i - 1].tok, ts[2 * i].word)]

\* A word is the file of a redirection, or an argument.
IsFile(ts, i) == i > 1 /\ ts[i].tok = "a" /\ ts[i - 1].tok \in {"<", ">", "+"}
IsArg(ts, i)  == ts[i].tok = "a" /\ ~IsFile(ts, i)
InOrder(S) == [k \in 1 .. Cardinality(S) |-> CHOOSE i \in S : Cardinality({j \in S : j < i}) = k - 1]

RECURSIVE ExecTrees(_), PipeTrees(_), BackTrees(_), LineTrees(_), BackN(_, _)
BackN(cmd, k) == IF k = 0 THEN cmd ELSE BackN(Back(cmd), k - 1)

ExecTrees(ts) ==
  LET args == InOrder({i \in 1 .. Len(ts) : IsArg(ts, i)})
      files == InOrder({i \in 1 .. Len(ts) : IsFile(ts, i)})
      simple == /\ \A i \in 1 .. Len(ts) : ts[i].tok \in {"a", "<", ">", "+"}
                /\ \A i \in 1 .. Len(ts) : ts[i].tok # "a" => i < Len(ts) /\ ts[i + 1].tok = "a"
                /\ Len(args) < MAXARGS
  IN (IF simple THEN {Wrap(Exec([k \in 1 .. Len(args) |-> ts[args[k]].word]),
                           [k \in 1 .. Len(files) |-> RedirOf(ts[files[k] - 1].tok, ts[files[k]].word)])}
      ELSE {})
     \cup UNION {{Wrap(t, RedirsOf(From(ts, k + 1))) : t \in LineTrees(SubSeq(ts, 2, k - 1))} :
                   k \in {j \in 2 .. Len(ts) : ts[1].tok = "(" /\ ts[j].tok = ")" /\ IsRedirs(From(ts, j + 1))}}

PipeTrees(ts) ==
  ExecTrees(ts) \cup
  UNION {{Pipe(l, t) : l \in ExecTrees(Upto(ts, k - 1)), t \in PipeTrees(From(ts, k + 1))} :
           k \in {j \in 1 .. Len(ts) : ts[j].tok = "|"}}

\* a pipe, then "&"s
BackTrees(ts) ==
  UNION {{BackN(l, k) : l \in PipeTrees(Upto(ts, Len(ts) - k))} :
           k \in {j \in 0 .. Len(ts) : \A i \in Len(ts) - j + 1 .. Len(ts) : ts[i].tok = "&"}}

LineTrees(ts) ==
  BackTrees(ts) \cup
  UNION {{List(l, t) : l \in BackTrees(Upto(ts, k - 1)), t \in LineTrees(From(ts, k + 1))} :
           k \in {j \in 1 .. Len(ts) : ts[j].tok = ";"}}
=============================================================================
