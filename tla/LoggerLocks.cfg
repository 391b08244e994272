\* Every method, from the start of the program: two threads, two calls each.
\* No symmetry, for the liveness property.
SPECIFICATION FairSpec
CONSTANTS
  t1 = t1  t2 = t2  t3 = t3
  root = root  lib = lib  console = console  file = file  extra = extra
  dflt = dflt  f1 = f1  f2 = f2  g1 = g1  NULL = NULL  manager = manager
  Threads = {t1, t2}
  Loggers = {root, lib}
  Root = root
  Manager = manager
  Appenders = {console, file}
  Console = console
  Prepared <- JustManager
  DefaultFormatter = dflt
  LoggerFormatters = {f1}
  AppenderFormatters = {g1}
  LogLevels <- InfoAndFatal
  Attachable <- FileAnywhere
  Ops = {"log", "setFormatter", "addAppender", "delAppender", "setOwnFormatter", "setLevel", "setAppenderLevel", "getLogger", "toYamlString"}
  PrivateSetup = FALSE
  MaxCalls = 2
INVARIANTS
  TypeOK
  MutualExclusion
  OwnershipMatchesCalls
  NoNullFormatter
  LockOrder
  NoDeadlock
PROPERTIES
  ListStableWhileIterated
  CallsReturn
