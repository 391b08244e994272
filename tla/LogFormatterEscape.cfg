\* The documented escape %% is parsed as an error.
SPECIFICATION LineSpec
CONSTANTS
  MaxLength = 0
  Patterns <- DocumentedPatterns
  Letters <- AllLetters
  ItemLetters <- AllItems
  c1 = c1  c2 = c2
  console = console  file = file  cout = cout  ofstream = ofstream
  None = None
  Clients = {c1, c2}
  Origin <- LoggerOf
  Targets <- ConsoleAndFile
  StreamOf <- OwnStreams
  Pieces = {"a"}
  MaxPieces = 0
  PrintedPatterns = {}
INVARIANTS
  EscapeAccepted
