\* Every pattern of up to five characters, and the default one; two clients
\* log through formatters made from four patterns.
SPECIFICATION FairLineSpec
CONSTANTS
  MaxLength = 5
  Patterns <- ParsedPatterns
  Letters <- AllLetters
  ItemLetters <- AllItems
  c1 = c1  c2 = c2
  console = console  file = file  cout = cout  ofstream = ofstream
  None = None
  Clients = {c1, c2}
  Origin <- LoggerOf
  Targets <- ConsoleAndFile
  StreamOf <- OwnStreams
  Pieces = {"a"}
  MaxPieces = 2
  PrintedPatterns <- LinePatterns
INVARIANTS
  TypeOK
  InOrder
  NothingLost
  DefaultAccepted
  ShortAcceptedExactly
  LinesWhole
PROPERTIES
  Terminates
