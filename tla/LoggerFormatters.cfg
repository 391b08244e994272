\* Formatters, for a program that gives an appender its own before it shares it.
SPECIFICATION Spec
CONSTANTS
  t1 = t1  t2 = t2  t3 = t3
  root = root  lib = lib  console = console  file = file  extra = extra
  dflt = dflt  f1 = f1  f2 = f2  g1 = g1  NULL = NULL  manager = manager
  Threads = {t1, t2}
  Loggers = {root, lib}
  Root = root
  Manager = manager
  Appenders = {console, file}
  Console = console
  Prepared <- JustManager
  DefaultFormatter = dflt
  LoggerFormatters = {f1, f2}
  AppenderFormatters = {g1}
  LogLevels <- InfoAndFatal
  Attachable <- FileToLib
  Ops = {"setFormatter", "addAppender", "setOwnFormatter", "getLogger", "log"}
  PrivateSetup = TRUE
  MaxCalls = 3
SYMMETRY ThreadSymmetry
INVARIANTS
  OwnFormatterKept
  InheritedFormatterCurrent
