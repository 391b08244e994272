------------------------ MODULE FileLogAppenderProofs ------------------------
(* Proofs that a FileLogAppender notices a moved file and the end of an    *)
(* outage in time, for any threads, files and length of the run.  Both     *)
(* rest on one idea: the stream is never older than m_lastTime says, nor   *)
(* than the event of a thread that is about to store it there.             *)
EXTENDS FileLogAppenderProperties, TLAPS

\* One thread holds the mutex.
Owners == \A t \in Threads : pc[t] \in Holding => owner = t

\* Times are in the past.
Past == /\ \A t \in Threads : now[t] <= clock
        /\ healed <= clock /\ line.time <= clock

\* The file at m_filename has not been moved; a good stream has a file.
Standing == /\ \A f \in Files : present <= f => moved[f] = Never
            /\ m_filestream.good => m_filestream.file \in Files
            /\ ~filled => disk # "full"
            /\ ~filled /\ ~m_filestream.good => m_filestream.file = 0

\* A good stream was opened when its file was not moved before time x, and a
\* stream that is not is waiting for a reopening of after the outage.
Fresh(x) == /\ m_filestream.good => x <= moved[m_filestream.file]
            /\ ~filled /\ ~m_filestream.good /\ disk = "ok" => x <= healed
Recent(x) ==
  /\ m_filestream.good => x < moved[m_filestream.file] + Period
  /\ ~filled /\ ~m_filestream.good /\ disk = "ok" => x < healed + Period

InTime == /\ Fresh(m_lastTime)
          /\ \A t \in Threads : pc[t] = "stamp" => Fresh(now[t])
          /\ \A t \in Threads : pc[t] \in {"lock", "write"} => Recent(now[t])

FileInv == /\ TypeOK /\ Owners /\ Past /\ Standing /\ InTime
           /\ RotationNoticed /\ OutageBounded

-----------------------------------------------------------------------------
(* The steps, one lemma for each.                                          *)

USE DEF Files, Never, Period

\* The constructor leaves a new file, or none.
LEMMA InitInv == Init => FileInv
<1> SUFFICES ASSUME Init PROVE FileInv  OBVIOUS
<1> USE FileAssumption
<1>1. m_filestream \in {[file |-> 1, good |-> TRUE],
                        [file |-> 0, good |-> FALSE]}
  BY DEF Init, Reopened, Opened, Closed
<1>2. /\ clock = 0 /\ disk \in {"ok", "closed"} /\ present = 1 /\ healed = 0
      /\ filled = FALSE
      /\ moved = [f \in Files |-> Never] /\ m_lastTime = 0 /\ owner = nobody
      /\ pc = [t \in Threads |-> "idle"] /\ now = [t \in Threads |-> 0]
      /\ line = [time |-> 0, file |-> 1]
  BY DEF Init
<1>3. TypeOK
  <2>1. m_filestream \in [file: 0..MaxFiles, good: BOOLEAN]
    <3>1. 0 \in 0..MaxFiles /\ 1 \in 0..MaxFiles  OBVIOUS
    <3>2. CASE m_filestream = [file |-> 1, good |-> TRUE]  BY <3>1, <3>2
    <3>3. CASE m_filestream = [file |-> 0, good |-> FALSE]  BY <3>1, <3>3
    <3> QED  BY <1>1, <3>2, <3>3
  <2>2. moved \in [Files -> 0..Never]  BY <1>2
  <2>3. line \in [time: 0..MaxTime, file: 0..MaxFiles]  BY <1>2
  <2>4. pc \in [Threads -> Pcs] /\ now \in [Threads -> 0..MaxTime]
    BY <1>2 DEF Pcs
  <2>5. filled \in BOOLEAN  BY <1>2
  <2>6. clock \in 0..MaxTime /\ healed \in 0..MaxTime /\ m_lastTime \in 0..clock
    BY <1>2
  <2> QED  BY <1>2, <2>1, <2>2, <2>3, <2>4, <2>5, <2>6 DEF TypeOK
<1>4. Owners /\ Past  BY <1>2 DEF Owners, Past, Holding
<1>5. Standing  BY <1>1, <1>2 DEF Standing
<1>6. Fresh(0)  BY <1>1, <1>2 DEF Fresh
<1>7. InTime  BY <1>2, <1>6 DEF InTime
<1>8. RotationNoticed /\ OutageBounded
  BY <1>2 DEF RotationNoticed, OutageBounded
<1> QED  BY <1>3, <1>4, <1>5, <1>7, <1>8 DEF FileInv

\* A new event.
LEMMA CallStep == ASSUME FileInv, NEW t \in Threads, Call(t) PROVE FileInv'
<1> USE FileAssumption DEF Call, fs
<1>1. TypeOK'  BY DEF FileInv, TypeOK, Pcs
<1>2. Owners'  BY DEF FileInv, TypeOK, Owners, Holding
<1>3. Past'  BY DEF FileInv, TypeOK, Past
<1>4. Standing'  BY DEF FileInv, Standing
<1>5. InTime'  BY DEF FileInv, TypeOK, InTime, Fresh, Recent
<1>6. RotationNoticed' /\ OutageBounded'
  BY DEF FileInv, RotationNoticed, OutageBounded
<1> QED  BY <1>1, <1>2, <1>3, <1>4, <1>5, <1>6 DEF FileInv

\* The test of m_lastTime: an event that needs no reopening is recent.
LEMMA TestStep == ASSUME FileInv, NEW t \in Threads, Test(t) PROVE FileInv'
<1> USE FileAssumption DEF Test, fs
<1>1. TypeOK'  BY DEF FileInv, TypeOK, Pcs
<1>2. Owners'  BY DEF FileInv, TypeOK, Owners, Holding
<1>3. Past' /\ Standing'  BY DEF FileInv, Past, Standing
<1>4. InTime'
  <2>1. Fresh(m_lastTime) /\ now[t] \in Int /\ m_lastTime \in Int
    BY DEF FileInv, InTime, TypeOK
  <2>2. ~Due(t) => Recent(now[t])
    BY <2>1 DEF Due, Fresh, Recent, FileInv, TypeOK, Standing
  <2>3. Fresh(m_lastTime)'  BY <2>1 DEF Fresh
  <2>4. \A s \in Threads : pc'[s] = "stamp" => Fresh(now[s])'
    BY DEF FileInv, TypeOK, InTime, Fresh
  <2>5. \A s \in Threads : pc'[s] \in {"lock", "write"} => Recent(now[s])'
    BY <2>2 DEF FileInv, TypeOK, InTime, Recent
  <2> QED  BY <2>3, <2>4, <2>5 DEF InTime
<1>5. RotationNoticed' /\ OutageBounded'
  BY DEF FileInv, RotationNoticed, OutageBounded
<1> QED  BY <1>1, <1>2, <1>3, <1>4, <1>5 DEF FileInv

\* Taking the mutex, for either purpose.
LEMMA LockStep ==
  ASSUME FileInv, NEW t \in Threads, ReopenLock(t) \/ Lock(t) PROVE FileInv'
<1> USE FileAssumption DEF ReopenLock, Lock, fs
<1>1. TypeOK'
  <2>1. pc' \in [Threads -> Pcs] /\ owner' \in Threads
    <3>1. CASE ReopenLock(t)  BY <3>1 DEF FileInv, TypeOK, Pcs
    <3>2. CASE Lock(t)  BY <3>2 DEF FileInv, TypeOK, Pcs
    <3> QED  BY <3>1, <3>2
  <2> QED  BY <2>1 DEF FileInv, TypeOK
<1>2. Owners'  BY DEF FileInv, TypeOK, Owners, Holding
<1>3. Past' /\ Standing'  BY DEF FileInv, Past, Standing
<1>4. InTime'
  <2>1. Fresh(m_lastTime)'  BY DEF FileInv, InTime, Fresh
  <2>2. \A s \in Threads : pc'[s] = "stamp" => Fresh(now[s])'
    BY DEF FileInv, TypeOK, InTime, Fresh
  <2>3. \A s \in Threads : pc'[s] \in {"lock", "write"} => Recent(now[s])'
    BY DEF FileInv, TypeOK, InTime, Recent
  <2> QED  BY <2>1, <2>2, <2>3 DEF InTime
<1>5. RotationNoticed' /\ OutageBounded'
  BY DEF FileInv, RotationNoticed, OutageBounded
<1> QED  BY <1>1, <1>2, <1>3, <1>4, <1>5 DEF FileInv

\* The reopening: a stream with another file than before is as new as can be.
LEMMA ReopenStep == ASSUME FileInv, NEW t \in Threads, Reopen(t) PROVE FileInv'
<1> USE FileAssumption DEF Reopen, fs
<1>1. /\ TypeOK /\ Standing /\ m_filestream' = Reopened(m_filestream)
      /\ disk' = disk /\ filled' = filled /\ moved' = moved /\ healed' = healed /\ now' = now
  BY DEF FileInv
<1>2. /\ m_filestream' \in [file: 0..MaxFiles, good: BOOLEAN]
      /\ m_filestream'.good => m_filestream'.file = present
      /\ ~filled /\ ~m_filestream'.good =>
           m_filestream'.file = 0 /\ disk # "ok"
  BY <1>1 DEF TypeOK, Standing, Reopened, Opened, Closed
<1>3. TypeOK'  BY <1>2 DEF FileInv, TypeOK, Pcs
<1>4. Owners'
  <2>1. \A s \in Threads : s # t => pc[s] \notin Holding
    BY DEF FileInv, Owners, Holding
  <2>2. pc'[t] \notin Holding  BY DEF FileInv, TypeOK, Holding
  <2> QED  BY <2>1, <2>2 DEF FileInv, TypeOK, Owners
<1>5. Past'  BY DEF FileInv, Past
<1>6. Standing'  BY <1>1, <1>2 DEF TypeOK, Standing
<1>7. moved[present] = Never /\ present \in Files
  BY <1>1 DEF TypeOK, Standing
<1>8. \A x \in 0..MaxTime : Fresh(x)' /\ Recent(x)'
  BY <1>1, <1>2, <1>7 DEF Fresh, Recent
<1>9. InTime'
  <2>1. m_lastTime' \in 0..MaxTime /\ now' \in [Threads -> 0..MaxTime]
    BY DEF FileInv, TypeOK
  <2>2. Fresh(m_lastTime)' /\ \A s \in Threads : Fresh(now[s])' /\ Recent(now[s])'
    BY <1>8, <2>1 DEF Fresh, Recent
  <2> QED  BY <2>2 DEF InTime
<1>10. RotationNoticed' /\ OutageBounded'
  BY DEF FileInv, RotationNoticed, OutageBounded
<1> QED  BY <1>3, <1>4, <1>5, <1>6, <1>9, <1>10 DEF FileInv

\* The time of the reopening is stored.
LEMMA StampStep == ASSUME FileInv, NEW t \in Threads, Stamp(t) PROVE FileInv'
<1> USE FileAssumption DEF Stamp, fs
<1>1. now[t] \in 0..clock  BY DEF FileInv, TypeOK, Past
<1>2. TypeOK'  BY <1>1 DEF FileInv, TypeOK, Pcs
<1>3. Owners'  BY DEF FileInv, TypeOK, Owners, Holding
<1>4. Past' /\ Standing'  BY DEF FileInv, Past, Standing
<1>5. InTime'
  <2>1. Fresh(now[t])  BY DEF FileInv, InTime
  <2>2. Recent(now[t])
    BY <1>1, <2>1 DEF Fresh, Recent, FileInv, TypeOK, Standing
  <2>3. Fresh(m_lastTime)'  BY <2>1 DEF Fresh
  <2>4. \A s \in Threads : pc'[s] = "stamp" => Fresh(now[s])'
    BY DEF FileInv, TypeOK, InTime, Fresh
  <2>5. \A s \in Threads : pc'[s] \in {"lock", "write"} => Recent(now[s])'
    BY <2>2 DEF FileInv, TypeOK, InTime, Recent
  <2> QED  BY <2>3, <2>4, <2>5 DEF InTime
<1>6. RotationNoticed' /\ OutageBounded'
  BY DEF FileInv, RotationNoticed, OutageBounded
<1> QED  BY <1>2, <1>3, <1>4, <1>5, <1>6 DEF FileInv

\* The write itself.
LEMMA WriteStep == ASSUME FileInv, NEW t \in Threads, Write(t) PROVE FileInv'
<1> USE FileAssumption DEF Write, fs
<1> DEFINE written == m_filestream.good /\ disk # "full"
<1>1. /\ TypeOK /\ Standing /\ written \in BOOLEAN
      /\ m_filestream' = [m_filestream EXCEPT !.good = written]
      /\ line' = [time |-> now[t], file |-> IF written THEN m_filestream.file
                                            ELSE 0]
      /\ disk' = disk /\ filled' = filled /\ moved' = moved /\ healed' = healed /\ now' = now
      /\ clock' = clock /\ present' = present /\ m_lastTime' = m_lastTime
  BY DEF FileInv
<1> HIDE DEF written
<1>2. /\ m_filestream' \in [file: 0..MaxFiles, good: BOOLEAN]
      /\ m_filestream'.file = m_filestream.file
      /\ m_filestream'.good = written
  BY <1>1 DEF TypeOK
<1>3. /\ written => m_filestream.good
      /\ ~filled /\ m_filestream.good => written
  BY <1>1 DEF written, Standing
<1>4. /\ line'.time = now[t] /\ now[t] \in 0..clock
      /\ line' \in [time: 0..MaxTime, file: 0..MaxFiles]
      /\ line'.file = IF written THEN m_filestream.file ELSE 0
  <2>1. now[t] \in 0..clock /\ now[t] \in 0..MaxTime
    BY DEF FileInv, TypeOK, Past
  <2>2. m_filestream.file \in 0..MaxFiles  BY <1>1 DEF TypeOK
  <2> QED  BY <1>1, <2>1, <2>2
<1>5. TypeOK'
  <2>1. pc' \in [Threads -> Pcs] /\ owner' = nobody  BY <1>1 DEF TypeOK, Pcs
  <2> QED  BY <1>1, <1>2, <1>4, <2>1 DEF TypeOK
<1>6. Owners'
  <2>1. \A s \in Threads : s # t => pc[s] \notin Holding
    BY DEF FileInv, Owners, Holding
  <2>2. pc'[t] \notin Holding  BY <1>1 DEF TypeOK, Holding
  <2> QED  BY <1>1, <2>1, <2>2 DEF TypeOK, Owners
<1>7. Past'  BY <1>1, <1>4 DEF FileInv, TypeOK, Past
<1>8. Standing'  BY <1>1, <1>2, <1>3 DEF Standing
<1>9. \A x \in Int : /\ Fresh(x) => Fresh(x)'
                     /\ Recent(x) => Recent(x)'
  BY <1>1, <1>2, <1>3 DEF Fresh, Recent
<1>10. InTime'
  <2>1. \A s \in Threads : pc'[s] # "idle" => pc'[s] = pc[s]
    BY <1>1 DEF TypeOK
  <2>2. Fresh(m_lastTime)'
    <3>1. m_lastTime \in Int /\ Fresh(m_lastTime)
      BY DEF FileInv, TypeOK, InTime
    <3> QED  BY <1>1, <1>9, <3>1 DEF Fresh
  <2>3. \A s \in Threads : now[s] \in Int  BY <1>1 DEF TypeOK
  <2>4. \A s \in Threads : pc'[s] = "stamp" => Fresh(now[s])'
    BY <1>1, <1>9, <2>1, <2>3 DEF FileInv, InTime, Fresh
  <2>5. \A s \in Threads : pc'[s] \in {"lock", "write"} => Recent(now[s])'
    BY <1>1, <1>9, <2>1, <2>3 DEF FileInv, InTime, Recent
  <2> QED  BY <2>2, <2>4, <2>5 DEF InTime
<1>11. Recent(now[t])  BY DEF FileInv, InTime
<1>12. RotationNoticed'
  BY <1>1, <1>3, <1>4, <1>11 DEF RotationNoticed, Recent
<1>13. OutageBounded'
  <2>1. written => m_filestream.file # 0  BY <1>1, <1>3 DEF Standing
  <2> QED
    BY <1>1, <1>3, <1>4, <1>11, <2>1 DEF OutageBounded, Recent
<1> QED  BY <1>5, <1>6, <1>7, <1>8, <1>10, <1>12, <1>13 DEF FileInv

\* Time goes on.
LEMMA TickStep == ASSUME FileInv, Tick PROVE FileInv'
<1> USE FileAssumption DEF Tick, appender
<1>1. TypeOK'  BY DEF FileInv, TypeOK
<1>2. Owners'  BY DEF FileInv, Owners
<1>3. Past'  BY DEF FileInv, TypeOK, Past
<1>4. Standing'  BY DEF FileInv, Standing
<1>5. InTime'  BY DEF FileInv, InTime, Fresh, Recent
<1>6. RotationNoticed' /\ OutageBounded'
  BY DEF FileInv, RotationNoticed, OutageBounded
<1> QED  BY <1>1, <1>2, <1>3, <1>4, <1>5, <1>6 DEF FileInv

\* The file is moved away: no event is of later than now.
LEMMA RotateStep == ASSUME FileInv, Rotate PROVE FileInv'
<1> USE FileAssumption DEF Rotate, appender
<1>1. /\ TypeOK /\ Past /\ moved' = [moved EXCEPT ![present] = clock]
      /\ present \in Files /\ clock \in 0..MaxTime
      /\ m_filestream' = m_filestream /\ disk' = disk /\ filled' = filled /\ healed' = healed
      /\ line' = line /\ now' = now /\ pc' = pc /\ m_lastTime' = m_lastTime
  BY DEF FileInv, TypeOK
<1>2. \A f \in Files : moved'[f] = IF f = present THEN clock ELSE moved[f]
  BY <1>1 DEF TypeOK
<1>3. TypeOK'  BY DEF FileInv, TypeOK
<1>4. Owners' /\ Past'  BY DEF FileInv, Owners, Past
<1>5. Standing'
  <2>1. \A f \in Files : present' <= f => moved'[f] = Never
    BY <1>1, <1>2 DEF FileInv, Standing
  <2> QED  BY <1>1, <2>1 DEF FileInv, Standing
<1>6. \A x \in 0..clock : /\ Fresh(x) => Fresh(x)'
                         /\ Recent(x) => Recent(x)'
  <2>1. m_filestream.good => m_filestream.file \in Files
    BY DEF FileInv, Standing
  <2> QED  BY <1>1, <1>2, <2>1 DEF Fresh, Recent
<1>7. InTime'
  <2>1. m_lastTime \in 0..clock /\ \A t \in Threads : now[t] \in 0..clock
    BY <1>1 DEF TypeOK, Past
  <2>2. Fresh(m_lastTime)'
    <3>1. Fresh(m_lastTime)  BY DEF FileInv, InTime
    <3> QED  BY <1>1, <1>6, <2>1, <3>1 DEF Fresh
  <2>3. \A t \in Threads : pc'[t] = "stamp" => Fresh(now[t])'
    BY <1>1, <1>6, <2>1 DEF FileInv, InTime, Fresh
  <2>4. \A t \in Threads : pc'[t] \in {"lock", "write"} => Recent(now[t])'
    BY <1>1, <1>6, <2>1 DEF FileInv, InTime, Recent
  <2> QED  BY <2>2, <2>3, <2>4 DEF InTime
<1>8. RotationNoticed'
  <2>1. line.file # 0 => line.file \in Files /\ line.time \in 0..clock
    BY <1>1 DEF TypeOK, Past
  <2> QED  BY <1>1, <1>2, <2>1 DEF FileInv, RotationNoticed
<1>9. OutageBounded'  BY DEF FileInv, OutageBounded
<1> QED  BY <1>3, <1>4, <1>5, <1>7, <1>8, <1>9 DEF FileInv

\* The file system fails.
LEMMA FailStep == ASSUME FileInv, Fail PROVE FileInv'
<1> USE FileAssumption DEF Fail, appender
<1>1. TypeOK'  BY DEF FileInv, TypeOK
<1>2. Owners' /\ Past'  BY DEF FileInv, Owners, Past
<1>3. Standing'  BY DEF FileInv, Standing
<1>4. InTime'  BY DEF FileInv, InTime, Fresh, Recent
<1>5. RotationNoticed' /\ OutageBounded'
  BY DEF FileInv, RotationNoticed, OutageBounded
<1> QED  BY <1>1, <1>2, <1>3, <1>4, <1>5 DEF FileInv

\* ... and works again: no event so far is of later than now.
LEMMA HealStep == ASSUME FileInv, Heal PROVE FileInv'
<1> USE FileAssumption DEF Heal, appender
<1>1. TypeOK'  BY DEF FileInv, TypeOK
<1>2. Owners' /\ Past'  BY DEF FileInv, TypeOK, Owners, Past
<1>3. Standing'  BY DEF FileInv, Standing
<1>4. \A x \in 0..clock : /\ Fresh(x) => Fresh(x)'
                         /\ Recent(x) => Recent(x)'
  BY DEF FileInv, TypeOK, Fresh, Recent
<1>5. InTime'
  <2>1. m_lastTime \in 0..clock /\ \A t \in Threads : now[t] \in 0..clock
    BY DEF FileInv, TypeOK, Past
  <2>2. Fresh(m_lastTime)'
    <3>1. Fresh(m_lastTime)  BY DEF FileInv, InTime
    <3> QED  BY <1>4, <2>1, <3>1 DEF Fresh
  <2>3. \A t \in Threads : pc'[t] = "stamp" => Fresh(now[t])'
    BY <1>4, <2>1 DEF FileInv, InTime, Fresh
  <2>4. \A t \in Threads : pc'[t] \in {"lock", "write"} => Recent(now[t])'
    <3> SUFFICES ASSUME NEW t \in Threads, pc'[t] \in {"lock", "write"}
                 PROVE  Recent(now[t])'
      OBVIOUS
    <3>1. Recent(now[t]) /\ now[t] \in 0..clock /\ now'[t] = now[t]
      BY <2>1 DEF FileInv, InTime
    <3>2. Recent(now[t]) => /\ m_filestream.good =>
                                now[t] < moved[m_filestream.file] + Period
                            /\ ~filled /\ ~m_filestream.good =>
                                now[t] < healed' + Period
      BY <2>1 DEF FileInv, TypeOK, Recent
    <3> QED  BY <3>1, <3>2 DEF Recent
  <2> QED  BY <2>2, <2>3, <2>4 DEF InTime
<1>6. RotationNoticed'  BY DEF FileInv, RotationNoticed
<1>7. OutageBounded'  BY DEF FileInv, TypeOK, Past, OutageBounded
<1> QED  BY <1>1, <1>2, <1>3, <1>5, <1>6, <1>7 DEF FileInv

\* Any step, and none.
LEMMA StepInv == FileInv /\ [Next]_vars => FileInv'
<1> SUFFICES ASSUME FileInv, [Next]_vars PROVE FileInv'  OBVIOUS
<1>1. CASE World  BY <1>1, TickStep, RotateStep, FailStep, HealStep DEF World
<1>2. CASE \E t \in Threads : Log(t)
  BY <1>2, CallStep, TestStep, LockStep, ReopenStep, StampStep, WriteStep
  DEF Log
<1>3. CASE UNCHANGED vars
  <2> USE <1>3 DEF vars, fs
  <2>1. TypeOK'  BY DEF FileInv, TypeOK
  <2>2. Owners' /\ Past' /\ Standing'
    BY DEF FileInv, Owners, Past, Standing
  <2>3. InTime'  BY DEF FileInv, InTime, Fresh, Recent
  <2>4. RotationNoticed' /\ OutageBounded'
    BY DEF FileInv, RotationNoticed, OutageBounded
  <2> QED  BY <2>1, <2>2, <2>3, <2>4 DEF FileInv
<1> QED  BY <1>1, <1>2, <1>3 DEF Next

-----------------------------------------------------------------------------
(* The theorems.                                                           *)

\* Types, and that m_lastTime is not ahead of the clock.
THEOREM FileTypes == Spec => []TypeOK
<1>1. FileInv => TypeOK  BY DEF FileInv
<1> QED  BY InitInv, StepInv, <1>1, PTL DEF Spec

\* close, open and format of one stream never overlap: Log.cpp:359, 383.
THEOREM StreamOwned == Spec => []StreamExclusive
<1>1. FileInv => StreamExclusive
  BY DEF FileInv, Owners, StreamExclusive, Holding
<1> QED  BY InitInv, StepInv, <1>1, PTL DEF Spec

\* Although m_lastTime is read and written with no mutex held (Log.cpp:354,
\* 357), a file that was moved receives no event of three seconds later.
THEOREM RotationInTime == Spec => []RotationNoticed
<1>1. FileInv => RotationNoticed  BY DEF FileInv
<1> QED  BY InitInv, StepInv, <1>1, PTL DEF Spec

\* ... and an outage of opening costs no event of three seconds after it.
THEOREM OutageInTime == Spec => []OutageBounded
<1>1. FileInv => OutageBounded  BY DEF FileInv
<1> QED  BY InitInv, StepInv, <1>1, PTL DEF Spec
=============================================================================
