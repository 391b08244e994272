------------------------------- MODULE MCLogger -------------------------------
(* Small instances of the logger core for TLC.                               *)
EXTENDS LoggerProperties, TLC

CONSTANTS t1, t2, t3,               \* threads
          root, lib,                \* loggers
          console, file, extra,     \* appenders
          dflt, f1, f2, g1,         \* formatters
          manager

\* The loggers and appenders main() has set up when the threads start.
JustManager == root :> <<console>>
SharedFile == root :> <<console, file>> @@ lib :> <<file>>
TwoTargets == root :> <<console>> @@ lib :> <<file, extra>>

\* Which appenders clients attach to which logger.
FileToLib == {<<lib, file>>}
FileAnywhere == {<<lib, file>>, <<root, file>>}
FileToRoot == {<<root, file>>}

INFO == 2
FATAL == 5
InfoAndFatal == {INFO, FATAL}

ThreadSymmetry == Permutations(Threads)
=============================================================================
