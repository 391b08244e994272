\* Any configuration after any other, of two loggers.
SPECIFICATION Spec
CONSTANTS
  Null = Null
  Names = {1, 2}
  Root = 1
  Texts <- AllTexts
  EventLevels = {2}
  DefaultFormat = "%d%m%n"
  Invalid = {"%"}
INVARIANTS
  TypeOK
  Applied
  RemovedSilent
  OldOrNew
  FormatsInherited
  DumpReadsBack
  SavedReadsBack
PROPERTIES
  Undisturbed
