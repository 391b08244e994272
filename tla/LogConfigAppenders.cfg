\* Configurations that differ in the appenders of a logger only.
SPECIFICATION Spec
CONSTANTS
  Null = Null
  Names = {1}
  Root = 1
  Texts <- AlikeTexts
  EventLevels = {2}
  DefaultFormat = "%d%m%n"
  Invalid = {"%"}
INVARIANTS
  Applied
