CONSTANTS
  Objects = {a, b, c}
  Messages = {notfound, ioerror}
  Blocks = {p1, p2, p3, p4}
  Null = Null
  Ok = Ok
  Gone = Gone
  Addresses = {100, 124, 148}
  BlockSizes = {24}
  Owners <- Users
  Keys <- PrefixKeys
  MaxSequence = 4
  Bytes = {0, 1, 255}
  MaxLength = 3
SPECIFICATION Spec
INVARIANTS OneOwner NoLeak KeptWhileHeld AllocationsApart SeekFindsNewest SlicesOrdered
PROPERTIES ValueSemantics
CHECK_DEADLOCK FALSE
