\* A ring of three characters whose counters wrap at six, the shell and another
\* reader, five keys and a kill; and lines of up to six characters to parse.
CONSTANTS
  Readers = {sh, cat}
  Sh = sh
  INPUT_BUF = 3
  UintRange = 6
  Chars <- AllChars
  ReadSizes = {1, 3}
  MaxKeys = 5
  MaxKills = 1
  MAXARGS = 3
  NLINE = 4
  Lines <- AllLines
SPECIFICATION Spec
INVARIANTS
  ConsoleSound ParsesTheGrammar
PROPERTIES
  ImplementsLineQueue LinesComeToRun
CHECK_DEADLOCK FALSE
