---------------------- MODULE FileLogAppenderProperties ----------------------
(* What a FileLogAppender guarantees to a program whose log file is moved  *)
(* and whose disk fails now and then.                                      *)
EXTENDS FileLogAppender

Pcs == {"idle", "test", "reopen", "reopening", "stamp", "lock", "write"}
Holding == {"reopening", "write"}

\* Types; the file has not been opened again in the future.
TypeOK ==
  /\ clock \in 0..MaxTime /\ healed \in 0..MaxTime
  /\ disk \in {"ok", "closed", "full"}
  /\ present \in Files
  /\ filled \in BOOLEAN
  /\ moved \in [Files -> 0..Never]
  /\ m_filestream \in [file: 0..MaxFiles, good: BOOLEAN]
  /\ m_lastTime \in 0..clock
  /\ owner \in Threads \cup {nobody}
  /\ pc \in [Threads -> Pcs]
  /\ now \in [Threads -> 0..MaxTime]
  /\ line \in [time: 0..MaxTime, file: 0..MaxFiles]

\* The stream is touched by one thread at a time.
StreamExclusive == \A t \in Threads : pc[t] \in Holding => owner = t

\* After a log rotation the old file receives no event of three seconds later
\* or more, whatever order the threads read and write m_lastTime in.
RotationNoticed == line.file # 0 => line.time < moved[line.file] + Period

\* Until a write fails, no event of three seconds after the end of an outage
\* or later is lost.
OutageBounded ==
  line.file = 0 /\ ~filled => disk # "ok" \/ line.time < healed + Period

\* reopen() opens the file again (Log.h:422) if the file system lets it.
ReopenOpens ==
  [][\A t \in Threads : Reopen(t) /\ disk = "ok" => m_filestream'.good]_vars
=============================================================================
