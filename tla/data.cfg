\* One behaviour per subject; the state of the others does not change.
SPECIFICATION DataSpec
CONSTANTS
  Node = {n1, n2, n3, n4}
  Null = Null
  Prio = {0, 1, 2}
  Ops = {"pop", "pop_back", "erase_end"}
  Subjects = {"list", "string", "buffer", "form", "typing", "config"}
  Limit8 = 7
  IntBits = 10
  LongBits = 10
  KeySize = 4
  Files <- ConfigFiles
  Paths <- ConfigPaths
  NewValues <- ConfigValues
  MaxCount = 10
  Prefix <- ConfigPrefix
  Texts <- MCTexts
  Letters = {"a", "B"}
  Numbers <- MCNumbers
  Truncates = FALSE
  MaxSize = 3
  Pieces <- MCPieces
  Capacities = {1, 4}
  MaxBuffer = 7
INVARIANTS ChainsAgree TerminatorFits EditsAreTextual PlainFormsRoundTrip ReadsBack WalksAgree DumpReadsBack OptionsUsable
PROPERTIES ImplementsSequence SetIsGot
CHECK_DEADLOCK FALSE
