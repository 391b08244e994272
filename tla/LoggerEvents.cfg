\* Where events go, while targets are added, removed and filtered.
SPECIFICATION Spec
CONSTANTS
  t1 = t1  t2 = t2  t3 = t3
  root = root  lib = lib  console = console  file = file  extra = extra
  dflt = dflt  f1 = f1  f2 = f2  g1 = g1  NULL = NULL  manager = manager
  Threads = {t1, t2}
  Loggers = {root, lib}
  Root = root
  Manager = manager
  Appenders = {console, file, extra}
  Console = console
  Prepared <- TwoTargets
  DefaultFormatter = dflt
  LoggerFormatters = {f1}
  AppenderFormatters = {g1}
  LogLevels <- InfoAndFatal
  Attachable <- FileToRoot
  Ops = {"log", "addAppender", "delAppender", "setAppenderLevel"}
  PrivateSetup = FALSE
  MaxCalls = 2
SYMMETRY ThreadSymmetry
INVARIANTS
  WrittenOncePerEntry
  SameOrder
PROPERTIES
  SerialService
