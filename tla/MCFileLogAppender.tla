-------------------------- MODULE MCFileLogAppender --------------------------
(* Two or three threads, and time for two reopenings.                      *)
EXTENDS FileLogAppenderProperties, TLC

CONSTANTS t1, t2, t3

ThreadSymmetry == Permutations(Threads)
=============================================================================
