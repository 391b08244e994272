--------------------------- MODULE FileLogAppender ---------------------------
(***************************************************************************)
(* FileLogAppender of Log/Log.cpp: threads that write events to one file,  *)
(* which the appender closes and opens again every three seconds of event  *)
(* time, and a file system on which the file is moved away (a log          *)
(* rotation) and on which opening and writing may fail for a time.         *)
(* Formatters and levels are the subject of module Logger: the calls here  *)
(* are those whose event is not below m_level.                             *)
(***************************************************************************)
EXTENDS Integers

CONSTANTS
  Threads,
  MaxTime,         \* the last second
  MaxFiles,        \* how many files stand at m_filename, one after another
  nobody           \* no thread

ASSUME FileAssumption ==
  /\ MaxTime \in Nat /\ MaxFiles \in Nat \ {0}
  /\ nobody \notin Threads

VARIABLES
  clock,           \* the seconds, time(0) of the threads
  disk,            \* "ok", "closed": the file cannot be opened, "full"
  present,         \* the number of the file now at m_filename
  moved,           \* when each file was moved away
  filled,          \* whether the disk has ever been full
  healed,          \* when the file system last began to work again
  m_filestream,    \* [file, good]: the open file, 0 if none; ! failed
  m_lastTime,
  owner,           \* of m_mutex
  pc, now,         \* per thread: where it is, and the time of its event
  line             \* the last event written or lost: [time, file]

fs == <<clock, disk, present, moved, filled, healed>>
vars == <<fs, m_filestream, m_lastTime, owner, pc, now, line>>

Files == 1..MaxFiles
Never == MaxTime + 1
Period == 3

-----------------------------------------------------------------------------
(* The stream, as std::ofstream and FSUtil::OpenForWrite treat it.         *)

\* close() of a stream without a file fails, as open() of one with a file does.
Closed(s) == [file |-> 0, good |-> s.good /\ s.file # 0]
Opened(s) == IF s.file = 0 /\ disk # "closed"
             THEN [file |-> present, good |-> TRUE]
             ELSE [file |-> s.file, good |-> FALSE]

\* A failed stream is not closed.
Reopened(s) == Opened(IF s.good THEN Closed(s) ELSE s)

-----------------------------------------------------------------------------
(* Plausible bugs of the operations below, which the properties must       *)
(* notice.                                                                 *)

\* Due, one second late.
DueLate(t) == now[t] > m_lastTime + Period

\* Test, with the time of the reopening stored before it.
TestAndStamp(t) ==
  /\ pc[t] = "test"
  /\ IF now[t] >= m_lastTime + Period
     THEN m_lastTime' = now[t] /\ pc' = [pc EXCEPT ![t] = "reopen"]
     ELSE pc' = [pc EXCEPT ![t] = "lock"] /\ UNCHANGED m_lastTime
  /\ UNCHANGED <<fs, m_filestream, owner, now, line>>

\* Stamp, counting periods instead of taking the time.
StampPeriod(t) ==
  /\ pc[t] = "stamp"
  /\ m_lastTime' = m_lastTime + Period
  /\ pc' = [pc EXCEPT ![t] = "lock"]
  /\ UNCHANGED <<fs, m_filestream, owner, now, line>>

\* Lock, without waiting.
LockNone(t) ==
  /\ pc[t] = "lock"
  /\ owner' = t
  /\ pc' = [pc EXCEPT ![t] = "write"]
  /\ UNCHANGED <<fs, m_filestream, m_lastTime, now, line>>

-----------------------------------------------------------------------------
(* FileLogAppender::log.                                                   *)

Due(t) == now[t] >= m_lastTime + Period

\* A client makes an event and logs it, at once or later.
Call(t) ==
  /\ pc[t] = "idle"
  /\ now' = [now EXCEPT ![t] = clock]
  /\ pc' = [pc EXCEPT ![t] = "test"]
  /\ UNCHANGED <<fs, m_filestream, m_lastTime, owner, line>>

\* m_lastTime is read, and below written, with no mutex held.
Test(t) ==
  /\ pc[t] = "test"
  /\ pc' = [pc EXCEPT ![t] = IF Due(t) THEN "reopen" ELSE "lock"]
  /\ UNCHANGED <<fs, m_filestream, m_lastTime, owner, now, line>>

ReopenLock(t) ==
  /\ pc[t] = "reopen" /\ owner = nobody
  /\ owner' = t
  /\ pc' = [pc EXCEPT ![t] = "reopening"]
  /\ UNCHANGED <<fs, m_filestream, m_lastTime, now, line>>

\* What reopen() returns is not used.
Reopen(t) ==
  /\ pc[t] = "reopening"
  /\ m_filestream' = Reopened(m_filestream)
  /\ owner' = nobody
  /\ pc' = [pc EXCEPT ![t] = "stamp"]
  /\ UNCHANGED <<fs, m_lastTime, now, line>>

Stamp(t) ==
  /\ pc[t] = "stamp"
  /\ m_lastTime' = now[t]
  /\ pc' = [pc EXCEPT ![t] = "lock"]
  /\ UNCHANGED <<fs, m_filestream, owner, now, line>>

Lock(t) ==
  /\ pc[t] = "lock" /\ owner = nobody
  /\ owner' = t
  /\ pc' = [pc EXCEPT ![t] = "write"]
  /\ UNCHANGED <<fs, m_filestream, m_lastTime, now, line>>

\* The event goes to the open file, or nowhere (file 0) if the stream has
\* failed or fails now; "error" is printed then.
Write(t) ==
  LET written == m_filestream.good /\ disk # "full"
  IN /\ pc[t] = "write"
     /\ line' = [time |-> now[t], file |-> IF written THEN m_filestream.file
                                           ELSE 0]
     /\ m_filestream' = [m_filestream EXCEPT !.good = written]
     /\ owner' = nobody
     /\ pc' = [pc EXCEPT ![t] = "idle"]
     /\ UNCHANGED <<fs, m_lastTime, now>>

Log(t) == \/ Call(t) \/ Test(t) \/ ReopenLock(t) \/ Reopen(t) \/ Stamp(t)
          \/ Lock(t) \/ Write(t)

-----------------------------------------------------------------------------
(* The world the appender runs in.                                         *)

appender == <<m_filestream, m_lastTime, owner, pc, now, line>>

Tick ==
  /\ clock < MaxTime
  /\ clock' = clock + 1
  /\ UNCHANGED <<disk, present, moved, filled, healed, appender>>

Rotate ==
  /\ present < MaxFiles
  /\ moved' = [moved EXCEPT ![present] = clock]
  /\ present' = present + 1
  /\ UNCHANGED <<clock, disk, filled, healed, appender>>

Fail ==
  /\ disk = "ok"
  /\ disk' \in {"closed", "full"}
  /\ filled' = (filled \/ disk' = "full")
  /\ UNCHANGED <<clock, present, moved, healed, appender>>

Heal ==
  /\ disk # "ok"
  /\ disk' = "ok"
  /\ healed' = clock
  /\ UNCHANGED <<clock, present, moved, filled, appender>>

World == Tick \/ Rotate \/ Fail \/ Heal

-----------------------------------------------------------------------------
\* The constructor has opened the file, if it could be opened.
Init ==
  /\ clock = 0 /\ disk \in {"ok", "closed"}
  /\ present = 1 /\ moved = [f \in Files |-> Never]
  /\ filled = FALSE /\ healed = 0
  /\ m_filestream = Reopened([file |-> 0, good |-> TRUE])
  /\ m_lastTime = 0
  /\ owner = nobody
  /\ pc = [t \in Threads |-> "idle"] /\ now = [t \in Threads |-> 0]
  /\ line = [time |-> 0, file |-> 1]

Next == World \/ \E t \in Threads : Log(t)
Spec == Init /\ [][Next]_vars
=============================================================================
