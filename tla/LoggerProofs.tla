---------------------------- MODULE LoggerProofs ----------------------------
EXTENDS LoggerProperties, SequenceTheorems, TLAPS

-----------------------------------------------------------------------------
(* Facts about the operators the actions are built from.                   *)

\* The appender a loop is at is an appender.
LEMMA CurrentType ==
  ASSUME TypeOK, NEW t \in Threads, ~Exhausted(t)
  PROVE  /\ List(t) \in Seq(Appenders)
         /\ idx[t] \in DOMAIN List(t)
         /\ Current(t) \in Appenders
<1>1. List(t) \in Seq(Appenders) /\ idx[t] \in Nat \ {0}
  BY DEF List, TypeOK, ObjectsOK, LocalsOK
<1> QED BY <1>1 DEF Current, Exhausted

-----------------------------------------------------------------------------
(* Type correctness.                                                       *)

LEMMA InitType == Init => TypeOK
BY LoggerAssumption, SMTT(30)
  DEF Init, TypeOK, ObjectsOK, ThreadsOK, LocalsOK, Level, DEBUG, Formatters, Labels, Mutexes

\* A new call, a return, and every move of a loop keep the locals in type.
LEMMA LocalsStep ==
  ASSUME LocalsOK, NEW t \in Threads
  PROVE  /\ UNCHANGED locals => LocalsOK'
         /\ Advance(t) => LocalsOK'
         /\ \A l \in Loggers : RunOn(t, l) => LocalsOK'
         /\ \A l \in Loggers, a \in Appenders, f \in Formatters, v \in Level :
              Locals(t, l, a, f, v) => LocalsOK'
<1>1. UNCHANGED locals => LocalsOK'
  BY DEF LocalsOK, locals
<1>2. Advance(t) => LocalsOK'
  BY DEF LocalsOK, Advance
<1>3. ASSUME NEW l \in Loggers, RunOn(t, l) PROVE LocalsOK'
  BY <1>3 DEF LocalsOK, RunOn
<1>4. ASSUME NEW l \in Loggers, NEW a \in Appenders, NEW f \in Formatters,
             NEW v \in Level, Locals(t, l, a, f, v)
      PROVE  LocalsOK'
  <2>1. self' \in [Threads -> Loggers] /\ from' \in [Threads -> Loggers]
    BY <1>4 DEF LocalsOK, Locals
  <2>2. app' \in [Threads -> Appenders] /\ fmt' \in [Threads -> Formatters]
    BY <1>4 DEF LocalsOK, Locals
  <2>3. lvl' \in [Threads -> Level]
    BY <1>4 DEF LocalsOK, Locals
  <2>4. idx' \in [Threads -> Nat \ {0}]
    BY <1>4 DEF LocalsOK, Locals
  <2>5. todo' \in [Threads -> SUBSET Loggers]
    BY <1>4 DEF LocalsOK, Locals
  <2> QED BY <2>1, <2>2, <2>3, <2>4, <2>5 DEF LocalsOK
<1> QED BY <1>1, <1>2, <1>3, <1>4

\* Values the locals of a call start from.
LEMMA Defaults ==
  /\ Root \in Loggers /\ Console \in Appenders /\ NULL \in Formatters
  /\ 0 \in Level /\ LogLevels \subseteq Level
  /\ LoggerFormatters \subseteq Formatters
  /\ AppenderFormatters \subseteq Formatters
BY LoggerAssumption DEF Level, Formatters

\* So does the whole of what every call has in common.
LEMMA CallType ==
  ASSUME TypeOK, NEW t \in Threads, NEW op, NEW label \in Labels,
         NEW l \in Loggers, NEW a \in Appenders, NEW f \in Formatters,
         NEW v \in Level, Call(t, op, label, l, a, f, v)
  PROVE  /\ pc' \in [Threads -> Labels]
         /\ calls' \in [Threads -> Nat]
         /\ LocalsOK'
<1>1. pc' \in [Threads -> Labels]
  BY DEF Call, Goto, Step, TypeOK, ThreadsOK
<1>2. calls' \in [Threads -> Nat]
  BY DEF Call, TypeOK, ThreadsOK
<1>3. LocalsOK'
  BY LocalsStep DEF Call, TypeOK
<1> QED BY <1>1, <1>2, <1>3

LEMMA TypeStep == TypeOK /\ [Next]_vars => TypeOK'
<1> SUFFICES ASSUME TypeOK, [Next]_vars PROVE TypeOK'
  OBVIOUS
<1> USE Defaults DEF TypeOK, ObjectsOK, ThreadsOK, loggerVars, appenderVars
<1>1. ASSUME NEW t \in Threads, ClientCall(t) PROVE TypeOK'
  <2> USE CallType DEF Labels
  <2>1. ASSUME NEW l \in Loggers, NEW v \in LogLevels, LogCall(t, l, v)
        PROVE  TypeOK'
    BY <2>1 DEF LogCall
  <2>2. ASSUME NEW l \in Loggers, NEW f \in LoggerFormatters,
               SetFormatterCall(t, l, f)
        PROVE  TypeOK'
    BY <2>2 DEF SetFormatterCall
  <2>3. ASSUME NEW l \in Loggers, NEW a \in Appenders, AddCall(t, l, a)
        PROVE  TypeOK'
    BY <2>3 DEF AddCall
  <2>4. ASSUME NEW l \in Loggers, NEW a \in Appenders, DelCall(t, l, a)
        PROVE  TypeOK'
    BY <2>4 DEF DelCall
  <2>5. ASSUME NEW a \in Appenders, NEW f \in AppenderFormatters,
               OwnFormatterCall(t, a, f)
        PROVE  TypeOK'
    BY <2>5 DEF OwnFormatterCall
  <2>6. ASSUME NEW l \in Loggers, NEW v \in LogLevels, SetLevel(t, l, v)
        PROVE  TypeOK'
    BY <2>6 DEF SetLevel
  <2>7. ASSUME NEW a \in Appenders, NEW v \in LogLevels,
               SetAppenderLevel(t, a, v)
        PROVE  TypeOK'
    BY <2>7 DEF SetAppenderLevel
  <2>8. ASSUME NEW l \in Loggers, GetCall(t, l) PROVE TypeOK'
    BY <2>8 DEF GetCall
  <2>9. CASE YamlCall(t)
    BY <2>9 DEF YamlCall
  <2> QED
    BY <1>1, <2>1, <2>2, <2>3, <2>4, <2>5, <2>6, <2>7, <2>8, <2>9
    DEF ClientCall
<1>2. ASSUME NEW t \in Threads, Run(t) PROVE TypeOK'
  <2>a. /\ self[t] \in Loggers /\ from[t] \in Loggers /\ app[t] \in Appenders
        /\ fmt[t] \in Formatters
    BY DEF LocalsOK
  <2>b. /\ UNCHANGED locals => LocalsOK'
        /\ Advance(t) => LocalsOK'
        /\ \A l \in Loggers : RunOn(t, l) => LocalsOK'
        /\ \A l \in Loggers, a \in Appenders, f \in Formatters, v \in Level :
             Locals(t, l, a, f, v) => LocalsOK'
    BY LocalsStep
  <2> USE <2>a, <2>b DEF Goto, Step, Return, Acquire, Release, Labels, Mutexes
  <2>1. CASE LogLock(t)
    BY <2>1 DEF LogLock
  <2>2. CASE LogEach(t)
    BY <2>2, CurrentType DEF LogEach, LocalsOK
  <2>3. CASE AppenderLock(t)
    BY <2>3 DEF AppenderLock
  <2>4. CASE AppenderWrite(t)
    <3>1. [ev |-> EventOf(t), by |-> self[t]]
            \in [ev: Threads \X Nat, by: Loggers]
      BY DEF EventOf
    <3>2. out' \in [Appenders -> Seq([ev: Threads \X Nat, by: Loggers])]
      BY <2>4, <3>1, AppendProperties DEF AppenderWrite
    <3> QED BY <2>4, <3>2 DEF AppenderWrite
  <2>5. CASE LogForward(t)
    BY <2>5 DEF LogForward
  <2>6. CASE LogDone(t)
    BY <2>6 DEF LogDone
  <2>7. CASE LogReturn(t)
    BY <2>7 DEF LogReturn
  <2>8. CASE SetFormatterLock(t)
    BY <2>8 DEF SetFormatterLock
  <2>9. CASE SetFormatterNext(t)
    BY <2>9, CurrentType DEF SetFormatterNext
  <2>10. CASE SetFormatterEach(t)
    BY <2>10 DEF SetFormatterEach
  <2>11. CASE SetFormatterDone(t)
    BY <2>11 DEF SetFormatterDone
  <2>12. CASE AddLock(t)
    BY <2>12 DEF AddLock
  <2>13. CASE AddGet(t)
    BY <2>13 DEF AddGet
  <2>14. CASE AddAppenderLock(t)
    BY <2>14 DEF AddAppenderLock
  <2>15. CASE AddSet(t)
    BY <2>15 DEF AddSet
  <2>16. CASE AddPush(t)
    <3>1. appenders' \in [Loggers -> Seq(Appenders)]
      BY <2>16, AppendProperties DEF AddPush
    <3> QED BY <2>16, <3>1 DEF AddPush
  <2>17. CASE DelLock(t)
    BY <2>17 DEF DelLock
  <2>18. CASE DelClear(t)
    BY <2>18 DEF DelClear
  <2>19. CASE OwnFormatterLock(t)
    BY <2>19 DEF OwnFormatterLock
  <2>20. CASE OwnFormatterSet(t)
    BY <2>20 DEF OwnFormatterSet
  <2>21. CASE GetLock(t)
    BY <2>21 DEF GetLock
  <2>22. CASE GetFind(t)
    BY <2>22 DEF GetFind
  <2>23. CASE YamlLock(t)
    BY <2>23 DEF YamlLock, LocalsOK
  <2>24. CASE YamlNext(t)
    <3>1. PICK l \in todo[t] :
            /\ self' = [self EXCEPT ![t] = l]
            /\ from' = [from EXCEPT ![t] = l]
            /\ idx' = [idx EXCEPT ![t] = 1]
            /\ todo' = [todo EXCEPT ![t] = @ \ {l}]
            /\ UNCHANGED <<app, fmt, lvl>>
      BY <2>24 DEF YamlNext
    <3>2. l \in Loggers
      BY DEF LocalsOK
    <3>3. self' \in [Threads -> Loggers] /\ from' \in [Threads -> Loggers]
      BY <3>1, <3>2 DEF LocalsOK
    <3>4. idx' \in [Threads -> Nat \ {0}]
      BY <3>1 DEF LocalsOK
    <3>5. todo' \in [Threads -> SUBSET Loggers]
      BY <3>1 DEF LocalsOK
    <3>6. LocalsOK'
      BY <3>1, <3>3, <3>4, <3>5 DEF LocalsOK
    <3> QED BY <2>24, <3>6 DEF YamlNext
  <2>25. CASE YamlLogger(t)
    BY <2>25 DEF YamlLogger
  <2>26. CASE YamlEach(t)
    BY <2>26 DEF YamlEach
  <2>27. CASE YamlRelease(t)
    BY <2>27 DEF YamlRelease
  <2>28. CASE YamlDone(t)
    BY <2>28 DEF YamlDone
  <2> QED
    BY <1>2, <2>1, <2>2, <2>3, <2>4, <2>5, <2>6, <2>7, <2>8, <2>9, <2>10,
       <2>11, <2>12, <2>13, <2>14, <2>15, <2>16, <2>17, <2>18, <2>19, <2>20,
       <2>21, <2>22, <2>23, <2>24, <2>25, <2>26, <2>27, <2>28
    DEF Run
<1>3. CASE UNCHANGED vars
  BY <1>3 DEF vars, LocalsOK, locals
<1> QED BY <1>1, <1>2, <1>3 DEF Next, Finished

THEOREM TypeCorrect == Spec => []TypeOK
BY InitType, TypeStep, PTL DEF Spec

-----------------------------------------------------------------------------
(* Mutexes.                                                                *)

\* A step of thread t moves no other thread and touches no other's locals.
LEMMA OnlyOneMoves ==
  ASSUME TypeOK, NEW t \in Threads, ClientCall(t) \/ Run(t),
         NEW u \in Threads \ {t}
  PROVE  /\ pc'[u] = pc[u]
         /\ self'[u] = self[u] /\ from'[u] = from[u] /\ app'[u] = app[u]
         /\ idx'[u] = idx[u] /\ fmt'[u] = fmt[u] /\ lvl'[u] = lvl[u]
<1> USE DEF TypeOK, ThreadsOK, LocalsOK, locals, Goto, Step
<1>1. CASE ClientCall(t)
  <2>1. PICK op, label, l, a, f, v : Call(t, op, label, l, a, f, v)
    BY <1>1 DEF ClientCall, LogCall, SetFormatterCall, AddCall, DelCall,
      OwnFormatterCall, SetLevel, SetAppenderLevel, GetCall, YamlCall
  <2> QED BY <2>1 DEF Call, Locals
<1>2. CASE Run(t)
  <2> USE DEF Return, Locals, Advance, RunOn
  <2>1. CASE LogLock(t) \/ LogEach(t) \/ AppenderLock(t) \/ AppenderWrite(t)
             \/ LogForward(t) \/ LogDone(t) \/ LogReturn(t)
    BY <2>1 DEF LogLock, LogEach, AppenderLock, AppenderWrite, LogForward,
       LogDone, LogReturn
  <2>2. CASE SetFormatterLock(t) \/ SetFormatterNext(t) \/ SetFormatterEach(t)
             \/ SetFormatterDone(t)
    BY <2>2 DEF SetFormatterLock, SetFormatterNext, SetFormatterEach,
       SetFormatterDone
  <2>3. CASE AddLock(t) \/ AddGet(t) \/ AddAppenderLock(t) \/ AddSet(t)
             \/ AddPush(t) \/ DelLock(t) \/ DelClear(t)
    BY <2>3 DEF AddLock, AddGet, AddAppenderLock, AddSet, AddPush, DelLock,
       DelClear
  <2>4. CASE OwnFormatterLock(t) \/ OwnFormatterSet(t) \/ GetLock(t)
             \/ GetFind(t)
    BY <2>4 DEF OwnFormatterLock, OwnFormatterSet, GetLock, GetFind
  <2>5. CASE YamlLock(t) \/ YamlNext(t) \/ YamlLogger(t) \/ YamlEach(t)
             \/ YamlRelease(t) \/ YamlDone(t)
    BY <2>5 DEF YamlLock, YamlNext, YamlLogger, YamlEach, YamlRelease, YamlDone
  <2> QED BY <1>2, <2>1, <2>2, <2>3, <2>4, <2>5 DEF Run
<1> QED BY <1>1, <1>2

\* Only addAppender and delAppender change a list, each that of its own logger.
LEMMA ListChange ==
  ASSUME TypeOK, NEW t \in Threads, ClientCall(t) \/ Run(t),
         NEW l \in Loggers, appenders'[l] # appenders[l]
  PROVE  pc[t] \in {"add_push", "del_clear"} /\ l = self[t]
<1> USE DEF TypeOK, ObjectsOK, LocalsOK, loggerVars
<1>1. CASE ClientCall(t)
  BY <1>1 DEF ClientCall, LogCall, SetFormatterCall, AddCall, DelCall,
    OwnFormatterCall, SetLevel, SetAppenderLevel, GetCall, YamlCall
<1>2. CASE Run(t)
  BY <1>2 DEF Run, LogLock, LogEach, AppenderLock, AppenderWrite, LogForward,
    LogDone, LogReturn, SetFormatterLock, SetFormatterNext, SetFormatterEach,
    SetFormatterDone, AddLock, AddGet, AddAppenderLock, AddSet, AddPush,
    DelLock, DelClear, OwnFormatterLock, OwnFormatterSet, GetLock, GetFind,
    YamlLock, YamlNext, YamlLogger, YamlEach, YamlRelease, YamlDone
<1> QED BY <1>1, <1>2

\* The list a thread loops over is the same after any step.
LEMMA LoopListStable ==
  ASSUME LockInv, [Next]_vars, NEW u \in Threads,
         pc[u] \in InLog \cup {"fmt_walk", "fmt_set", "yaml_walk"}
  PROVE  appenders'[self[u]] = appenders[self[u]]
<1>1. self[u] \in Loggers /\ self[u] \in Mutexes
  BY DEF LockInv, TypeOK, LocalsOK, Mutexes
<1>2. ASSUME NEW t \in Threads, ClientCall(t) \/ Run(t),
             appenders'[self[u]] # appenders[self[u]]
      PROVE  FALSE
  <2>1. pc[t] \in {"add_push", "del_clear"} /\ self[u] = self[t]
    BY <1>1, <1>2, ListChange DEF LockInv
  <2>2. self[u] \in Holds(t) /\ self[u] \in Holds(u)
    BY <1>1, <2>1 DEF Holds
  <2>3. t = u
    BY <1>1, <2>2 DEF LockInv, OwnershipMatchesCalls
  <2> QED BY <2>1, <2>3 DEF InLog
<1>3. CASE UNCHANGED vars
  BY <1>3 DEF vars, loggerVars
<1> QED BY <1>2, <1>3 DEF Next, Finished

LEMMA HoldsOther ==
  ASSUME LockInv, NEW t \in Threads, ClientCall(t) \/ Run(t),
         NEW u \in Threads \ {t}
  PROVE  Holds(u)' = Holds(u)
<1>1. /\ pc'[u] = pc[u]
      /\ self'[u] = self[u] /\ from'[u] = from[u] /\ app'[u] = app[u]
      /\ idx'[u] = idx[u]
  BY OnlyOneMoves DEF LockInv
<1>2. pc[u] = "fmt_set" => appenders'[self[u]] = appenders[self[u]]
  BY LoopListStable DEF Next
<1> QED BY <1>1, <1>2 DEF Holds, Current, List

\* How the owner map follows a step that takes, frees or keeps the mutexes.
LEMMA OwnAfter ==
  ASSUME LockInv, NEW t \in Threads, ClientCall(t) \/ Run(t),
         \/ UNCHANGED owner /\ Holds(t)' = Holds(t)
         \/ \E m \in Mutexes : Acquire(t, m) /\ Holds(t)' = Holds(t) \cup {m}
         \/ \E m \in Holds(t) : Release(m) /\ Holds(t)' = Holds(t) \ {m}
  PROVE  OwnershipMatchesCalls'
<1>1. \A u \in Threads \ {t} : Holds(u)' = Holds(u)
  BY HoldsOther
<1>2. /\ owner \in [Mutexes -> Threads \cup {NULL}]
      /\ NULL \notin Threads
      /\ \A u \in Threads, m \in Mutexes : owner[m] = u <=> m \in Holds(u)
  BY LoggerAssumption DEF LockInv, TypeOK, ThreadsOK, OwnershipMatchesCalls
<1>3. CASE UNCHANGED owner /\ Holds(t)' = Holds(t)
  BY <1>1, <1>2, <1>3 DEF OwnershipMatchesCalls
<1>4. ASSUME NEW m \in Mutexes, Acquire(t, m), Holds(t)' = Holds(t) \cup {m}
      PROVE  OwnershipMatchesCalls'
  BY <1>1, <1>2, <1>4 DEF OwnershipMatchesCalls, Acquire
<1>5. ASSUME NEW m \in Holds(t), Release(m), Holds(t)' = Holds(t) \ {m}
      PROVE  OwnershipMatchesCalls'
  <2>1. m \in Mutexes
    BY DEF Holds
  <2> QED BY <1>1, <1>2, <1>5, <2>1 DEF OwnershipMatchesCalls, Release
<1> QED BY <1>3, <1>4, <1>5

\* A step does to the owner map what the scoped locks of the method say.
Tracks(t) ==
  \/ UNCHANGED owner /\ Holds(t)' = Holds(t)
  \/ \E m \in Mutexes : Acquire(t, m) /\ Holds(t)' = Holds(t) \cup {m}
  \/ \E m \in Holds(t) : Release(m) /\ Holds(t)' = Holds(t) \ {m}

LEMMA CallTracks ==
  ASSUME LockInv, NEW t \in Threads, ClientCall(t)
  PROVE  Tracks(t) /\ CallOK(t)'
<1>1. PICK op, label, l, a, f, v : Call(t, op, label, l, a, f, v)
  BY DEF ClientCall, LogCall, SetFormatterCall, AddCall, DelCall,
    OwnFormatterCall, SetLevel, SetAppenderLevel, GetCall, YamlCall
<1>2. /\ UNCHANGED owner
      /\ pc'[t] \in {"idle", "log_lock", "fmt_lock", "add_lock", "del_lock",
                     "own_lock", "get_lock", "yaml_lock"}
  BY DEF ClientCall, LogCall, SetFormatterCall, AddCall, DelCall,
    OwnFormatterCall, SetLevel, SetAppenderLevel, GetCall, YamlCall,
    Call, Step, Goto, LockInv, TypeOK, ThreadsOK
<1>3. pc[t] = "idle" /\ self'[t] = from'[t]
  BY <1>1 DEF Call, Step, Locals, LockInv, TypeOK, LocalsOK
<1> QED BY <1>2, <1>3 DEF Tracks, CallOK, Holds, InLog

LEMMA RunTracks ==
  ASSUME LockInv, NEW t \in Threads, Run(t)
  PROVE  Tracks(t) /\ CallOK(t)'
<1>1. /\ self[t] \in Loggers /\ from[t] \in Loggers /\ app[t] \in Appenders
      /\ pc \in [Threads -> Labels] /\ self \in [Threads -> Loggers]
      /\ from \in [Threads -> Loggers] /\ app \in [Threads -> Appenders]
      /\ idx \in [Threads -> Nat \ {0}]
  BY DEF LockInv, TypeOK, ThreadsOK, LocalsOK
<1>2. /\ Loggers \subseteq Mutexes /\ Appenders \subseteq Mutexes
      /\ Manager \in Mutexes /\ Manager \notin Loggers \cup Appenders
      /\ Loggers \cap Appenders = {} /\ Root \in Loggers
  BY LoggerAssumption DEF Mutexes
<1>3. CallOK(t)
  BY DEF LockInv, CallsOK
<1> USE <1>1, <1>2, <1>3
    DEF Tracks, CallOK, Holds, InLog, Goto, Step, Return, Locals
<1>4. CASE LogLock(t)
  BY <1>4 DEF LogLock, locals
<1>5. CASE LogEach(t)
  BY <1>5 DEF LogEach, Advance, List, Exhausted, loggerVars
<1>6. CASE AppenderLock(t)
  <2>1. Holds(t)' = Holds(t) \cup {app[t]}
    BY <1>6 DEF AppenderLock, locals
  <2>2. Exhausted(t)' = Exhausted(t)
    BY <1>6 DEF AppenderLock, locals, loggerVars, List, Exhausted
  <2> QED BY <1>6, <2>1, <2>2 DEF AppenderLock, locals
<1>7. CASE AppenderWrite(t)
  <2>1. Holds(t)' = Holds(t) \ {app[t]} /\ app[t] \in Holds(t)
    BY <1>7 DEF AppenderWrite, Advance
  <2> QED BY <1>7, <2>1 DEF AppenderWrite, Advance
<1>8. CASE LogForward(t)
  BY <1>8 DEF LogForward, RunOn, Forwards, locals
<1>9. CASE LogDone(t)
  BY <1>9 DEF LogDone, locals
<1>10. CASE LogReturn(t)
  <2>1. Holds(t)' = Holds(t) \ {self[t]} /\ self[t] \in Holds(t)
    BY <1>10 DEF LogReturn, RunOn
  <2> QED BY <1>10, <2>1 DEF LogReturn, RunOn
<1>11. CASE SetFormatterLock(t)
  BY <1>11 DEF SetFormatterLock, locals
<1>12. CASE SetFormatterNext(t)
  <2>1. Current(t) \in Appenders
    BY <1>12, CurrentType DEF SetFormatterNext, LockInv
  <2>2. Current(t)' = Current(t) /\ Exhausted(t)' = Exhausted(t)
    BY <1>12 DEF SetFormatterNext, locals, loggerVars, List, Current, Exhausted
  <2> QED BY <1>12, <2>1, <2>2 DEF SetFormatterNext, locals
<1>13. CASE SetFormatterEach(t)
  <2>1. Current(t) \in Appenders
    BY <1>13, CurrentType DEF SetFormatterEach, LockInv
  <2>2. Holds(t)' = Holds(t) \ {Current(t)} /\ Current(t) \in Holds(t)
    BY <1>13, <2>1 DEF SetFormatterEach, Advance
  <2> QED BY <1>13, <2>2 DEF SetFormatterEach
<1>14. CASE SetFormatterDone(t)
  BY <1>14 DEF SetFormatterDone, locals
<1>15. CASE AddLock(t)
  BY <1>15 DEF AddLock, locals
<1>16. CASE AddGet(t)
  BY <1>16 DEF AddGet, locals
<1>17. CASE AddAppenderLock(t)
  BY <1>17 DEF AddAppenderLock, locals
<1>18. CASE AddSet(t)
  BY <1>18 DEF AddSet, locals
<1>19. CASE AddPush(t)
  BY <1>19 DEF AddPush, locals
<1>20. CASE DelLock(t)
  BY <1>20 DEF DelLock, locals
<1>21. CASE DelClear(t)
  BY <1>21 DEF DelClear, locals
<1>22. CASE OwnFormatterLock(t)
  BY <1>22 DEF OwnFormatterLock, locals
<1>23. CASE OwnFormatterSet(t)
  BY <1>23 DEF OwnFormatterSet, locals
<1>24. CASE GetLock(t)
  BY <1>24 DEF GetLock, locals
<1>25. CASE GetFind(t)
  BY <1>25 DEF GetFind, locals
<1>26. CASE YamlLock(t)
  BY <1>26 DEF YamlLock, locals
<1>27. CASE YamlNext(t)
  BY <1>27 DEF YamlNext, locals
<1>28. CASE YamlLogger(t)
  BY <1>28 DEF YamlLogger, locals
<1>29. CASE YamlEach(t)
  BY <1>29 DEF YamlEach, Advance
<1>30. CASE YamlRelease(t)
  BY <1>30 DEF YamlRelease, locals
<1>31. CASE YamlDone(t)
  BY <1>31 DEF YamlDone, locals
<1> QED
  BY <1>4, <1>5, <1>6, <1>7, <1>8, <1>9, <1>10, <1>11, <1>12, <1>13, <1>14, <1>15, <1>16, <1>17, <1>18, <1>19, <1>20, <1>21, <1>22, <1>23, <1>24, <1>25, <1>26, <1>27, <1>28, <1>29, <1>30, <1>31
  DEF Run

LEMMA LockInit == Init => LockInv
<1> SUFFICES ASSUME Init PROVE LockInv
  OBVIOUS
<1>1. TypeOK
  BY InitType
<1>2. \A t \in Threads : pc[t] = "idle"
  BY DEF Init
<1>3. CallsOK
  BY <1>2 DEF CallsOK, CallOK, InLog
<1>4. \A t \in Threads : Holds(t) = {}
  BY <1>2 DEF Holds, InLog
<1>5. \A m \in Mutexes : owner[m] = NULL
  BY DEF Init
<1>6. OwnershipMatchesCalls
  BY <1>4, <1>5, LoggerAssumption DEF OwnershipMatchesCalls
<1> QED BY <1>1, <1>3, <1>6 DEF LockInv

LEMMA LockStep == LockInv /\ [Next]_vars => LockInv'
<1> SUFFICES ASSUME LockInv, [Next]_vars PROVE LockInv'
  OBVIOUS
<1>1. TypeOK'
  BY TypeStep DEF LockInv
<1>2. ASSUME NEW t \in Threads, ClientCall(t) \/ Run(t)
      PROVE  CallsOK' /\ OwnershipMatchesCalls'
  <2>1. Tracks(t) /\ CallOK(t)'
    BY <1>2, CallTracks, RunTracks
  <2>2. ASSUME NEW u \in Threads \ {t} PROVE CallOK(u)'
    <3>1. /\ pc'[u] = pc[u]
          /\ self'[u] = self[u] /\ from'[u] = from[u] /\ idx'[u] = idx[u]
      BY <1>2, OnlyOneMoves DEF LockInv
    <3>2. pc[u] \in {"app_lock", "app_write", "fmt_set"}
            => appenders'[self[u]] = appenders[self[u]]
      BY LoopListStable DEF InLog
    <3>3. CallOK(u)
      BY DEF LockInv, CallsOK
    <3> QED BY <3>1, <3>2, <3>3 DEF CallOK, Exhausted, List
  <2>3. OwnershipMatchesCalls'
    BY <1>2, <2>1, OwnAfter DEF Tracks
  <2> QED BY <2>1, <2>2, <2>3 DEF CallsOK
<1>3. CASE UNCHANGED vars
  <2>1. UNCHANGED <<appenders, owner, pc, self, from, app, idx>>
    BY <1>3 DEF vars, loggerVars, locals
  <2>2. ASSUME NEW t \in Threads
        PROVE  Holds(t)' = Holds(t) /\ (CallOK(t)' <=> CallOK(t))
    BY <2>1 DEF Holds, CallOK, Current, Exhausted, List
  <2>3. CallsOK'
    BY <2>2 DEF LockInv, CallsOK
  <2>4. OwnershipMatchesCalls'
    BY <2>1, <2>2 DEF LockInv, OwnershipMatchesCalls
  <2> QED BY <1>1, <2>3, <2>4 DEF LockInv
<1> QED BY <1>1, <1>2, <1>3 DEF LockInv, Next, Finished

THEOREM LockInvariant == Spec => []LockInv
BY LockInit, LockStep, PTL DEF Spec

THEOREM MutexesFollowCalls == Spec => []OwnershipMatchesCalls
BY LockInvariant, PTL DEF LockInv

THEOREM NoTwoInside == Spec => []MutualExclusion
<1>1. LockInv => MutualExclusion
  BY DEF LockInv, MutualExclusion, OwnershipMatchesCalls, Holds
<1> QED BY <1>1, LockInvariant, PTL

THEOREM ListsStable == Spec => ListStableWhileIterated
<1>1. LockInv /\ [Next]_vars =>
        [\A t \in Threads :
           pc[t] \in InLog \cup {"fmt_walk", "fmt_set", "yaml_walk"}
             => appenders'[self[t]] = appenders[self[t]]]_vars
  BY LoopListStable
<1> QED BY <1>1, LockInvariant, PTL DEF Spec, ListStableWhileIterated

-----------------------------------------------------------------------------
(* Lock order and deadlock freedom.                                        *)

LEMMA OrderFromInv == LockInv => LockOrder
<1> SUFFICES ASSUME LockInv, NEW t \in Threads, NEW m \in Mutexes,
                    NEW n \in Wants(t), owner[m] = t
             PROVE  Rank(m) < Rank(n)
  BY DEF LockOrder
<1>1. m \in Holds(t)
  BY DEF LockInv, OwnershipMatchesCalls
<1>2. /\ self[t] \in Loggers /\ from[t] \in Loggers /\ app[t] \in Appenders
      /\ ~Exhausted(t) => Current(t) \in Appenders
  BY CurrentType DEF LockInv, TypeOK, LocalsOK
<1>3. /\ Manager \notin Loggers \cup Appenders
      /\ Loggers \cap Appenders = {} /\ Root \in Loggers
  BY LoggerAssumption
<1>4. CallOK(t)
  BY DEF LockInv, CallsOK
<1> QED BY <1>1, <1>2, <1>3, <1>4 DEF Rank, Holds, Wants, CallOK, InLog

THEOREM Ordered == Spec => []LockOrder
BY OrderFromInv, LockInvariant, PTL

\* A blocked call waits for a call that either runs or waits for a mutex of a
\* higher rank.
LEMMA WaitsUpwards ==
  ASSUME LockInv, NEW t \in Threads, NEW m \in Wants(t), owner[m] # NULL,
         \A u \in Threads : Busy(u) => Blocked(u)
  PROVE  \E u \in Threads, n \in Mutexes :
           n \in Wants(u) /\ owner[n] # NULL /\ Rank(m) < Rank(n)
<1>1. m \in Mutexes
  BY DEF Wants
<1>2. owner[m] \in Threads
  BY <1>1 DEF LockInv, TypeOK, ThreadsOK
<1>3. Busy(owner[m])
  <2>1. m \in Holds(owner[m])
    BY <1>1, <1>2 DEF LockInv, OwnershipMatchesCalls
  <2> QED BY <2>1 DEF Holds, Busy, InLog
<1>4. PICK n \in Wants(owner[m]) : owner[n] # NULL
  BY <1>2, <1>3 DEF Blocked
<1>5. Rank(m) < Rank(n)
  BY <1>1, <1>2, OrderFromInv DEF LockOrder
<1>6. n \in Mutexes
  BY DEF Wants
<1> QED BY <1>2, <1>4, <1>5, <1>6

THEOREM DeadlockFree == Spec => []NoDeadlock
<1>1. LockInv => NoDeadlock
  <2> SUFFICES ASSUME LockInv, \A u \in Threads : Busy(u) => Blocked(u),
                      NEW t \in Threads, Busy(t)
               PROVE  FALSE
    BY DEF NoDeadlock
  <2> DEFINE W(r) == \E u \in Threads, n \in Mutexes :
                       n \in Wants(u) /\ owner[n] # NULL /\ r <= Rank(n)
  <2>1. \A m \in Mutexes : Rank(m) \in 0..3
    BY DEF Rank
  <2>2. ASSUME NEW r \in 0..3, W(r) PROVE W(r + 1)
    <3>1. PICK u \in Threads, m \in Mutexes :
            m \in Wants(u) /\ owner[m] # NULL /\ r <= Rank(m)
      BY <2>2
    <3>2. PICK v \in Threads, n \in Mutexes :
            n \in Wants(v) /\ owner[n] # NULL /\ Rank(m) < Rank(n)
      BY <3>1, WaitsUpwards
    <3>3. r + 1 <= Rank(n)
      BY <2>1, <3>1, <3>2
    <3> QED BY <3>2, <3>3
  <2>3. W(0)
    <3>1. PICK m \in Wants(t) : owner[m] # NULL
      BY DEF Blocked
    <3>2. m \in Mutexes
      BY DEF Wants
    <3> QED BY <2>1, <3>1, <3>2
  <2>4. W(4)
    <3> HIDE DEF W
    <3>1. W(1) BY <2>2, <2>3
    <3>2. W(2) BY <2>2, <3>1
    <3>3. W(3) BY <2>2, <3>2
    <3> QED BY <2>2, <3>3
  <2> QED BY <2>1, <2>4
<1> QED BY <1>1, LockInvariant, PTL

-----------------------------------------------------------------------------
(* Formatters.  Once an appender is in a list it has a formatter, as long  *)
(* as no client passes a null one.                                         *)

FormatInv ==
  /\ \A l \in Loggers : formatter[l] # NULL
  /\ \A l \in Loggers : \A i \in DOMAIN appenders[l] :
       aformatter[appenders[l][i]] # NULL
  /\ \A t \in Threads :
       /\ pc[t] \in {"fmt_lock", "own_lock", "own_set"} => fmt[t] # NULL
       /\ pc[t] \in {"add_push", "app_lock", "app_write"}
            => aformatter[app[t]] # NULL

\* Callers pass formatters, as the library's own callers do.
NoNullArguments == NULL \notin LoggerFormatters \cup AppenderFormatters

LEMMA FormatInit == Init => FormatInv
<1> SUFFICES ASSUME Init PROVE FormatInv
  OBVIOUS
<1>1. NULL # DefaultFormatter
  BY LoggerAssumption
<1>2. \A l \in Loggers : formatter[l] # NULL
  BY <1>1 DEF Init
<1>3. \A l \in Loggers : \A i \in DOMAIN appenders[l] :
        aformatter[appenders[l][i]] # NULL
  <2>1. ASSUME NEW l \in Loggers, NEW i \in DOMAIN appenders[l]
        PROVE  appenders[l][i] \in Appenders /\ Attached(appenders[l][i])
    BY <2>1, InitType DEF TypeOK, ObjectsOK, Attached
  <2> QED BY <1>1, <2>1 DEF Init
<1>4. \A t \in Threads : pc[t] = "idle"
  BY DEF Init
<1> QED BY <1>2, <1>3, <1>4 DEF FormatInv

LEMMA FormatStep ==
  ASSUME NoNullArguments, LockInv, FormatInv, [Next]_vars
  PROVE  FormatInv'
<1> USE DEF LockInv, TypeOK, ObjectsOK, ThreadsOK, LocalsOK
<1>1. ASSUME NEW t \in Threads, ClientCall(t) PROVE FormatInv'
  <2>1. UNCHANGED <<formatter, appenders, aformatter>>
    BY <1>1 DEF ClientCall, LogCall, SetFormatterCall, AddCall, DelCall,
      OwnFormatterCall, SetLevel, SetAppenderLevel, GetCall, YamlCall,
      loggerVars, appenderVars
  <2>2. ASSUME NEW op, NEW label, NEW l, NEW a, NEW f, NEW v,
               Call(t, op, label, l, a, f, v),
               \/ label \in {"idle", "log_lock", "add_lock", "del_lock",
                             "get_lock", "yaml_lock"}
               \/ label \in {"fmt_lock", "own_lock"} /\ f # NULL
        PROVE  /\ pc'[t] \in {"fmt_lock", "own_lock"} => fmt'[t] # NULL
               /\ pc'[t] \notin {"own_set", "add_push", "app_lock", "app_write"}
    BY <2>2 DEF Call, Goto, Step, Locals
  <2>3. /\ pc'[t] \in {"fmt_lock", "own_lock"} => fmt'[t] # NULL
        /\ pc'[t] \notin {"own_set", "add_push", "app_lock", "app_write"}
    BY <1>1, <2>2 DEF ClientCall, LogCall, SetFormatterCall, AddCall, DelCall,
      OwnFormatterCall, SetLevel, SetAppenderLevel, GetCall, YamlCall,
      NoNullArguments
  <2>4. ASSUME NEW u \in Threads \ {t}
        PROVE  pc'[u] = pc[u] /\ fmt'[u] = fmt[u] /\ app'[u] = app[u]
    BY <1>1, OnlyOneMoves
  <2> QED BY <2>1, <2>3, <2>4 DEF FormatInv
<1>2. ASSUME NEW t \in Threads, Run(t) PROVE FormatInv'
  <2> USE DEF Goto, Step, Return, Locals, Advance, RunOn, locals, loggerVars,
              appenderVars
  <2>f. FormatInv /\ self[t] \in Loggers /\ app[t] \in Appenders
    OBVIOUS
  <2>1. \A l \in Loggers : formatter'[l] # NULL
    BY <1>2 DEF Run, FormatInv, LogLock, LogEach, AppenderLock, AppenderWrite,
      LogForward, LogDone, LogReturn, SetFormatterLock, SetFormatterNext,
      SetFormatterEach, SetFormatterDone, AddLock, AddGet, AddAppenderLock,
      AddSet, AddPush, DelLock, DelClear, OwnFormatterLock, OwnFormatterSet,
      GetLock, GetFind, YamlLock, YamlNext, YamlLogger, YamlEach,
      YamlRelease, YamlDone
  <2>2. \A a \in Appenders : aformatter[a] # NULL => aformatter'[a] # NULL
    <3>1. CASE SetFormatterEach(t)
      BY <3>1 DEF SetFormatterEach, FormatInv
    <3>2. CASE AddSet(t)
      BY <3>2 DEF AddSet, FormatInv
    <3>3. CASE OwnFormatterSet(t)
      BY <3>3 DEF OwnFormatterSet, FormatInv
    <3> QED BY <1>2, <3>1, <3>2, <3>3
        DEF Run, LogLock, LogEach, AppenderLock, AppenderWrite,
          LogForward, LogDone, LogReturn, SetFormatterLock, SetFormatterNext,
          SetFormatterDone, AddLock, AddGet, AddAppenderLock, AddPush,
          DelLock, DelClear, OwnFormatterLock, GetLock, GetFind, YamlLock,
          YamlNext, YamlLogger, YamlEach, YamlRelease, YamlDone
  <2>3. \A l \in Loggers : \A i \in DOMAIN appenders'[l] :
          aformatter'[appenders'[l][i]] # NULL
    <3>1. CASE AddPush(t)
      <4>1. aformatter[app[t]] # NULL
        BY <3>1 DEF AddPush, FormatInv
      <4>2. appenders' = [appenders EXCEPT ![self[t]] =
                            Append(appenders[self[t]], app[t])]
        BY <3>1 DEF AddPush
      <4>3. ASSUME NEW l \in Loggers, NEW i \in DOMAIN appenders'[l]
            PROVE  aformatter'[appenders'[l][i]] # NULL
        <5>1. CASE appenders'[l][i] = app[t]
          BY <2>2, <2>f, <4>1, <5>1
        <5>2. CASE appenders'[l][i] # app[t]
          <6>1. appenders[l] \in Seq(Appenders)
            OBVIOUS
          <6>2. CASE l = self[t]
            <7>1. appenders'[l] = Append(appenders[l], app[t])
              BY <4>2, <6>2
            <7>2. i \in 1..(Len(appenders[l]) + 1)
              BY <4>3, <6>1, <7>1, <2>f, AppendProperties
            <7>3. i \in DOMAIN appenders[l]
                  /\ appenders'[l][i] = appenders[l][i]
              BY <5>2, <6>1, <7>1, <7>2, <2>f, AppendProperties
            <7> QED BY <2>2, <6>1, <7>3 DEF FormatInv
          <6>3. CASE l # self[t]
            <7>1. appenders'[l] = appenders[l]
              BY <4>2, <6>3
            <7> QED BY <2>2, <4>3, <6>1, <7>1 DEF FormatInv
          <6> QED BY <6>2, <6>3
        <5> QED BY <5>1, <5>2
      <4> QED BY <4>3
    <3>2. CASE DelClear(t)
      <4>1. appenders' = [appenders EXCEPT ![self[t]] = << >>]
        BY <3>2 DEF DelClear
      <4>2. ASSUME NEW l \in Loggers, NEW i \in DOMAIN appenders'[l]
            PROVE  /\ i \in DOMAIN appenders[l]
                   /\ appenders'[l][i] = appenders[l][i]
        BY <4>1
      <4> QED BY <2>2, <4>2 DEF FormatInv
    <3>3. CASE UNCHANGED appenders
      BY <2>2, <3>3 DEF FormatInv
    <3> QED BY <1>2, <3>1, <3>2, <3>3
        DEF Run, LogLock, LogEach, AppenderLock, AppenderWrite,
          LogForward, LogDone, LogReturn, SetFormatterLock, SetFormatterNext,
          SetFormatterEach, SetFormatterDone, AddLock, AddGet,
          AddAppenderLock, AddSet, DelLock, OwnFormatterLock,
          OwnFormatterSet, GetLock, GetFind, YamlLock, YamlNext, YamlLogger,
          YamlEach, YamlRelease, YamlDone
  <2>4. pc'[t] \in {"fmt_lock", "own_lock", "own_set"} => fmt'[t] # NULL
    BY <1>2 DEF Run, FormatInv, LogLock, LogEach, AppenderLock, AppenderWrite,
      LogForward, LogDone, LogReturn, SetFormatterLock, SetFormatterNext,
      SetFormatterEach, SetFormatterDone, AddLock, AddGet, AddAppenderLock,
      AddSet, AddPush, DelLock, DelClear, OwnFormatterLock, OwnFormatterSet,
      GetLock, GetFind, YamlLock, YamlNext, YamlLogger, YamlEach,
      YamlRelease, YamlDone
  <2>5. pc'[t] \in {"add_push", "app_lock", "app_write"}
          => aformatter'[app'[t]] # NULL
    <3>1. CASE LogEach(t)
      <4>1. /\ Current(t) \in Appenders /\ aformatter[Current(t)] # NULL
        BY <3>1, CurrentType DEF LogEach, FormatInv, Current, List
      <4> QED BY <3>1, <4>1 DEF LogEach
    <3>2. CASE AddGet(t)
      BY <3>2 DEF AddGet
    <3>3. CASE AddSet(t)
      BY <3>3 DEF AddSet, FormatInv
    <3>4. CASE AppenderLock(t)
      BY <3>4 DEF AppenderLock, FormatInv
    <3> QED BY <1>2, <3>1, <3>2, <3>3, <3>4
        DEF Run, LogLock, AppenderWrite,
          LogForward, LogDone, LogReturn, SetFormatterLock, SetFormatterNext,
          SetFormatterEach, SetFormatterDone, AddLock, AddAppenderLock,
          AddPush, DelLock, DelClear, OwnFormatterLock,
          OwnFormatterSet, GetLock, GetFind, YamlLock, YamlNext, YamlLogger,
          YamlEach, YamlRelease, YamlDone
  <2> HIDE DEF Goto, Step, Return, Locals, Advance, RunOn
  <2>6. ASSUME NEW u \in Threads \ {t}
        PROVE  /\ pc'[u] = pc[u] /\ fmt'[u] = fmt[u] /\ app'[u] = app[u]
               /\ app[u] \in Appenders
    BY <1>2, OnlyOneMoves
  <2> QED BY <2>1, <2>2, <2>3, <2>4, <2>5, <2>6 DEF FormatInv
<1>3. CASE UNCHANGED vars
  BY <1>3 DEF vars, loggerVars, appenderVars, locals, FormatInv
<1> QED BY <1>1, <1>2, <1>3 DEF Next, Finished

THEOREM FormattersPresent ==
  ASSUME NoNullArguments
  PROVE  Spec => []NoNullFormatter
<1>1. FormatInv => NoNullFormatter
  BY DEF FormatInv, NoNullFormatter
<1>2. LockInv /\ FormatInv /\ [Next]_vars => FormatInv'
  BY FormatStep
<1> QED BY <1>1, <1>2, FormatInit, LockInvariant, PTL DEF Spec

-----------------------------------------------------------------------------
(* Own formatters, for programs that give an appender its own before they  *)
(* share it.                                                               *)

\* Who changes the formatter of an appender, and how.
LEMMA AppenderChange ==
  ASSUME TypeOK, NEW t \in Threads, ClientCall(t) \/ Run(t), NEW a \in Appenders
  PROVE  \/ aformatter'[a] = aformatter[a] /\ hasFormatter'[a] = hasFormatter[a]
         \/ /\ SetFormatterEach(t) /\ a = Current(t)
            /\ ~hasFormatter[a] /\ ~hasFormatter'[a]
            /\ aformatter'[a] = formatter[self[t]]
         \/ /\ AddSet(t) /\ a = app[t]
            /\ hasFormatter'[a] = hasFormatter[a]
            /\ aformatter'[a] = formatter[self[t]]
         \/ /\ OwnFormatterSet(t) /\ a = app[t]
            /\ aformatter'[a] = fmt[t] /\ hasFormatter'[a] = (fmt[t] # NULL)
<1> USE DEF TypeOK, ObjectsOK, LocalsOK, appenderVars
<1>1. CASE ClientCall(t)
  BY <1>1 DEF ClientCall, LogCall, SetFormatterCall, AddCall, DelCall,
    OwnFormatterCall, SetLevel, SetAppenderLevel, GetCall, YamlCall
<1>2. CASE SetFormatterEach(t)
  BY <1>2 DEF SetFormatterEach
<1>3. CASE AddSet(t)
  BY <1>3 DEF AddSet
<1>4. CASE OwnFormatterSet(t)
  BY <1>4 DEF OwnFormatterSet
<1>5. CASE UNCHANGED <<aformatter, hasFormatter>>
  BY <1>5
<1> QED
  BY <1>1, <1>2, <1>3, <1>4, <1>5 DEF Run, LogLock, LogEach, AppenderLock,
    AppenderWrite, LogForward, LogDone, LogReturn, SetFormatterLock,
    SetFormatterNext, SetFormatterDone, AddLock, AddGet, AddAppenderLock,
    AddPush, DelLock, DelClear, OwnFormatterLock, GetLock, GetFind, YamlLock,
    YamlNext, YamlLogger, YamlEach, YamlRelease, YamlDone

\* How a thread comes to be in addAppender.
LEMMA InAdd ==
  ASSUME TypeOK, NEW t \in Threads, ClientCall(t) \/ Run(t), pc'[t] \in AddPcs
  PROVE  \/ /\ pc[t] \in AddPcs
            /\ app'[t] = app[t] /\ self'[t] = self[t]
            /\ pc'[t] = "add_get" <=> pc[t] = "add_lock"
            /\ pc'[t] = "add_alock" => pc[t] = "add_get" /\ aformatter[app[t]] = NULL
            /\ pc'[t] = "add_set" => pc[t] = "add_alock"
            /\ pc'[t] = "add_push" =>
                 AddSet(t) \/ (pc[t] = "add_get" /\ aformatter[app[t]] # NULL)
         \/ /\ pc'[t] = "add_lock"
            /\ \E l \in Loggers, a \in Appenders :
                 AddCall(t, l, a) /\ app'[t] = a /\ self'[t] = l
<1> USE DEF TypeOK, ThreadsOK, LocalsOK, Goto, Step, Locals, locals, AddPcs
<1>1. CASE ClientCall(t)
  <2>1. \A op, label, l, a, f, v : Call(t, op, label, l, a, f, v) => pc'[t] = label
    BY DEF Call
  <2>2. PICK l \in Loggers, a \in Appenders : AddCall(t, l, a)
    <3> HIDE DEF TypeOK, ThreadsOK, LocalsOK, Goto, Step, Locals, locals
    <3> QED
      BY <1>1, <2>1 DEF ClientCall, LogCall, SetFormatterCall, AddCall, DelCall,
        OwnFormatterCall, SetLevel, SetAppenderLevel, GetCall, YamlCall
  <2> QED
    BY <2>2 DEF AddCall, Call
<1>2. CASE AddLock(t) \/ AddGet(t) \/ AddAppenderLock(t) \/ AddSet(t)
  BY <1>2 DEF AddLock, AddGet, AddAppenderLock, AddSet
<1> QED
  BY <1>1, <1>2 DEF Run, LogLock, LogEach, AppenderLock, AppenderWrite,
    LogForward, LogDone, LogReturn, SetFormatterLock, SetFormatterNext,
    SetFormatterEach, SetFormatterDone, AddPush, DelLock, DelClear,
    OwnFormatterLock, OwnFormatterSet, GetLock, GetFind, YamlLock, YamlNext,
    YamlLogger, YamlEach, YamlRelease, YamlDone, Return

\* ... and in LogAppender::setFormatter.
LEMMA InOwn ==
  ASSUME TypeOK, NEW t \in Threads, ClientCall(t) \/ Run(t), pc'[t] \in OwnPcs
  PROVE  \/ pc[t] \in OwnPcs /\ app'[t] = app[t] /\ fmt'[t] = fmt[t]
         \/ \E a \in Appenders, f \in AppenderFormatters :
              OwnFormatterCall(t, a, f) /\ app'[t] = a /\ fmt'[t] = f
<1> USE DEF TypeOK, ThreadsOK, LocalsOK, Goto, Step, Locals, locals, OwnPcs
<1>1. CASE ClientCall(t)
  <2>1. \A op, label, l, a, f, v : Call(t, op, label, l, a, f, v) => pc'[t] = label
    BY DEF Call
  <2>2. PICK a \in Appenders, f \in AppenderFormatters : OwnFormatterCall(t, a, f)
    <3> HIDE DEF TypeOK, ThreadsOK, LocalsOK, Goto, Step, Locals, locals
    <3> QED
      BY <1>1, <2>1 DEF ClientCall, LogCall, SetFormatterCall, AddCall, DelCall,
        OwnFormatterCall, SetLevel, SetAppenderLevel, GetCall, YamlCall
  <2> QED
    BY <2>2 DEF OwnFormatterCall, Call
<1>2. CASE OwnFormatterLock(t)
  BY <1>2 DEF OwnFormatterLock
<1> QED
  BY <1>1, <1>2 DEF Run, LogLock, LogEach, AppenderLock, AppenderWrite,
    LogForward, LogDone, LogReturn, SetFormatterLock, SetFormatterNext,
    SetFormatterEach, SetFormatterDone, AddLock, AddGet, AddAppenderLock,
    AddSet, AddPush, DelLock, DelClear, OwnFormatterSet, GetLock, GetFind,
    YamlLock, YamlNext, YamlLogger, YamlEach, YamlRelease, YamlDone, Return

\* How an entry comes into a list, or stays in it.
LEMMA EntryFrom ==
  ASSUME TypeOK, NEW t \in Threads, ClientCall(t) \/ Run(t), NEW l \in Loggers,
         NEW i \in DOMAIN appenders'[l]
  PROVE  \/ i \in DOMAIN appenders[l] /\ appenders'[l][i] = appenders[l][i]
         \/ /\ AddPush(t) /\ l = self[t] /\ appenders'[l][i] = app[t]
            /\ i = Len(appenders[l]) + 1
<1> USE DEF TypeOK, ObjectsOK, LocalsOK, loggerVars
<1>1. CASE UNCHANGED appenders
  BY <1>1
<1>2. CASE AddPush(t)
  <2>1. appenders[l] \in Seq(Appenders) /\ app[t] \in Appenders
    OBVIOUS
  <2>2. appenders' = [appenders EXCEPT ![self[t]] = Append(appenders[self[t]], app[t])]
    BY <1>2 DEF AddPush
  <2>3. CASE l = self[t]
    <3>1. appenders'[l] = Append(appenders[l], app[t])
      BY <2>2, <2>3
    <3>2. i \in 1..(Len(appenders[l]) + 1)
      BY <2>1, <3>1, AppendProperties
    <3>3. CASE i = Len(appenders[l]) + 1
      BY <1>2, <2>1, <2>3, <3>1, <3>3, AppendProperties
    <3>4. CASE i # Len(appenders[l]) + 1
      BY <2>1, <3>1, <3>2, <3>4, AppendProperties
    <3> QED
      BY <3>3, <3>4
  <2>4. CASE l # self[t]
    BY <2>2, <2>4
  <2> QED
    BY <2>3, <2>4
<1>3. CASE DelClear(t)
  BY <1>3 DEF DelClear
<1>4. CASE ClientCall(t)
  BY <1>1, <1>4 DEF ClientCall, LogCall, SetFormatterCall, AddCall, DelCall,
    OwnFormatterCall, SetLevel, SetAppenderLevel, GetCall, YamlCall
<1> QED
  BY <1>1, <1>2, <1>3, <1>4 DEF Run, LogLock, LogEach, AppenderLock,
    AppenderWrite, LogForward, LogDone, LogReturn, SetFormatterLock,
    SetFormatterNext, SetFormatterEach, SetFormatterDone, AddLock, AddGet,
    AddAppenderLock, AddSet, DelLock, OwnFormatterLock, OwnFormatterSet,
    GetLock, GetFind, YamlLock, YamlNext, YamlLogger, YamlEach, YamlRelease,
    YamlDone

\* A formatter of its own is not null; an appender gets one while nobody else
\* has it in hand, so that addAppender finds none appear between its two holds
\* of the mutex.
OwnInv ==
  /\ OwnFormatterKept
  /\ \A a \in Appenders : hasFormatter[a] => aformatter[a] # NULL
  /\ \A t \in Threads :
       /\ pc[t] \in OwnPcs => fmt[t] \in AppenderFormatters /\ ~Attached(app[t])
       /\ pc[t] \in {"add_alock", "add_set"} => ~hasFormatter[app[t]]
  /\ \A t, u \in Threads :
       t # u /\ pc[t] \in OwnPcs /\ pc[u] \in AddPcs \cup OwnPcs => app[t] # app[u]

LEMMA OwnInit == Init => OwnInv
BY DEF Init, OwnInv, OwnFormatterKept, OwnPcs

LEMMA OwnStep ==
  ASSUME PrivateSetup, TypeOK, OwnInv, NEW t \in Threads, ClientCall(t) \/ Run(t)
  PROVE  OwnInv'
<1>0. \A u \in Threads \ {t} :
        pc'[u] = pc[u] /\ app'[u] = app[u] /\ fmt'[u] = fmt[u]
  BY OnlyOneMoves
<1>1. pc[t] \in {"fmt_set", "add_set", "own_set"} => app[t] \in Appenders
  BY DEF TypeOK, LocalsOK
<1>2. AddSet(t) => ~hasFormatter[app[t]] /\ pc[t] = "add_set"
  BY DEF AddSet, Step, OwnInv
<1>3. OwnFormatterSet(t) =>
        pc[t] = "own_set" /\ fmt[t] \in AppenderFormatters
  BY DEF OwnFormatterSet, OwnInv, OwnPcs
<1>4. OwnFormatterKept' /\ \A a \in Appenders : hasFormatter'[a] => aformatter'[a] # NULL
  <2> SUFFICES ASSUME NEW a \in Appenders, hasFormatter'[a]
               PROVE  aformatter'[a] \in AppenderFormatters /\ aformatter'[a] # NULL
    BY DEF OwnFormatterKept
  <2>1. hasFormatter[a] =>
          aformatter[a] \in AppenderFormatters /\ aformatter[a] # NULL
    BY DEF OwnInv, OwnFormatterKept
  <2>2. CASE aformatter'[a] = aformatter[a] /\ hasFormatter'[a] = hasFormatter[a]
    BY <2>1, <2>2, Zenon
  <2>3. CASE OwnFormatterSet(t) /\ aformatter'[a] = fmt[t]
             /\ hasFormatter'[a] = (fmt[t] # NULL)
    <3>1. fmt[t] # NULL
      BY <2>3, Zenon
    <3> QED
      BY <1>3, <2>3, <3>1, Zenon
  <2>4. CASE AddSet(t) /\ a = app[t] /\ hasFormatter'[a] = hasFormatter[a]
    BY <1>2, <2>4, Zenon
  <2> QED
    BY <2>2, <2>3, <2>4, AppenderChange, Zenon
<1>5. ASSUME NEW u \in Threads, NEW a \in Appenders, pc'[u] \in OwnPcs, app'[u] = a
      PROVE  fmt'[u] \in AppenderFormatters /\ ~Attached(a)'
  <2>1. /\ fmt'[u] \in AppenderFormatters /\ ~Attached(a)
        /\ \A v \in Threads : v # u => ~(pc[v] = "add_push" /\ app[v] = a)
    <3>1. CASE pc[u] \in OwnPcs /\ app'[u] = app[u] /\ fmt'[u] = fmt[u]
      BY <1>5, <3>1 DEF OwnInv, AddPcs
    <3>2. CASE u = t /\ \E b \in Appenders, f \in AppenderFormatters :
                 OwnFormatterCall(t, b, f) /\ app'[t] = b /\ fmt'[t] = f
      BY <1>5, <3>2 DEF OwnFormatterCall, InUse, AddPcs
    <3> QED
      BY <1>0, <1>5, <3>1, <3>2, InOwn
  <2>2. u = t => pc[t] # "add_push"
    BY <1>5, InOwn DEF OwnPcs, OwnFormatterCall, Call, Step
  <2>3. ASSUME Attached(a)' PROVE FALSE
    <3>0. PICK l \in Loggers : \E i \in DOMAIN appenders'[l] : appenders'[l][i] = a
      BY <2>3 DEF Attached
    <3>1. PICK i \in DOMAIN appenders'[l] : appenders'[l][i] = a
      BY <3>0
    <3>2. \/ i \in DOMAIN appenders[l] /\ appenders[l][i] = a
          \/ pc[t] = "add_push" /\ app[t] = a
      BY <3>1, EntryFrom DEF AddPush
    <3> QED
      BY <2>1, <2>2, <3>2 DEF Attached
  <2> QED
    BY <2>1, <2>3
<1>6. ASSUME NEW u \in Threads, pc'[u] \in {"add_alock", "add_set"}
      PROVE  ~hasFormatter'[app'[u]]
  <2>1. app[u] \in Appenders /\ app'[u] = app[u] /\ ~hasFormatter[app[u]]
        /\ pc[u] \in AddPcs
    <3>1. CASE u = t
      BY <1>6, <3>1, InAdd DEF OwnInv, AddPcs, TypeOK, LocalsOK, ObjectsOK
    <3>2. CASE u # t
      BY <1>0, <1>6, <3>2 DEF OwnInv, AddPcs, TypeOK, LocalsOK
    <3> QED
      BY <3>1, <3>2
  <2>2. ~(OwnFormatterSet(t) /\ app[t] = app[u])
    BY <1>3, <2>1 DEF OwnInv, OwnPcs, AddPcs
  <2> QED
    BY <2>1, <2>2, AppenderChange
<1>7. ASSUME NEW u \in Threads, NEW v \in Threads, u # v,
             pc'[u] \in OwnPcs, pc'[v] \in AddPcs \cup OwnPcs, app'[u] = app'[v]
      PROVE  FALSE
  <2>1. u = t \/ v = t
    BY <1>0, <1>7 DEF OwnInv
  <2>2. CASE u = t
    <3>1. pc[v] \in AddPcs \cup OwnPcs /\ app'[v] = app[v]
      BY <1>0, <1>7, <2>2
    <3> QED
      BY <1>7, <2>2, <3>1, InOwn DEF OwnInv, OwnFormatterCall, InUse
  <2>3. CASE v = t
    <3>1. pc[u] \in OwnPcs /\ app'[u] = app[u]
      BY <1>0, <1>7, <2>3
    <3>2. CASE pc'[v] \in OwnPcs
      BY <1>7, <2>3, <3>1, <3>2, InOwn DEF OwnInv, OwnFormatterCall, InUse
    <3>3. CASE pc'[v] \in AddPcs
      BY <1>7, <2>3, <3>1, <3>3, InAdd DEF OwnInv, AddCall, InUse
    <3> QED
      BY <1>7, <3>2, <3>3
  <2> QED
    BY <2>1, <2>2, <2>3
<1>8. \A u \in Threads : app'[u] \in Appenders
  BY TypeStep DEF TypeOK, LocalsOK, Next
<1> QED
  BY <1>4, <1>5, <1>6, <1>7, <1>8 DEF OwnInv

\* A program that sets the formatter of an appender only before it shares it
\* (PrivateSetup) never loses one to addAppender (Log.cpp:294-298).
THEOREM OwnFormattersStay ==
  ASSUME PrivateSetup
  PROVE  Spec => []OwnFormatterKept
<1>1. TypeOK /\ OwnInv /\ [Next]_vars => OwnInv'
  <2>1. CASE UNCHANGED vars
    BY <2>1 DEF vars, loggerVars, appenderVars, locals, OwnInv, OwnFormatterKept, Attached
  <2> QED
    BY <2>1, OwnStep DEF Next, Finished
<1>2. OwnInv => OwnFormatterKept
  BY DEF OwnInv
<1> QED
  BY OwnInit, <1>1, <1>2, TypeCorrect, PTL DEF Spec

-----------------------------------------------------------------------------
(* Inherited formatters, for programs that also keep each appender with    *)
(* one logger and take none away.                                          *)

\* The loggers each appender may be attached to.
Homes ==
  Attachable \cup
  {p \in Loggers \X Appenders :
     p[1] \in DOMAIN Prepared /\ \E i \in DOMAIN Prepared[p[1]] : Prepared[p[1]][i] = p[2]}
OneHome ==
  /\ PrivateSetup
  /\ "delAppender" \notin Ops
  /\ \A a \in Appenders : \A k, l \in Loggers :
       <<k, a>> \in Homes /\ <<l, a>> \in Homes => k = l

Follows(a, l) == hasFormatter[a] \/ aformatter[a] = formatter[l]

\* An appender that does not follow its logger is one setFormatter has still
\* to come to; one that is about to enter a list follows its logger; and one
\* that has a formatter which is not its own is in a list or about to be.
InheritInv ==
  /\ \A l \in Loggers : \A i \in DOMAIN appenders[l] :
       /\ <<l, appenders[l][i]>> \in Homes
       /\ \/ Follows(appenders[l][i], l)
          \/ \E t \in Threads : /\ pc[t] \in {"fmt_walk", "fmt_set"}
                                /\ self[t] = l /\ idx[t] <= i
  /\ \A t \in Threads :
       /\ pc[t] \in AddPcs => <<self[t], app[t]>> \in Homes
       /\ pc[t] = "add_push" => Follows(app[t], self[t])
       /\ pc[t] = "fmt_lock" => idx[t] = 1
       /\ pc[t] \notin {"del_lock", "del_clear"}
  /\ \A a \in Appenders : aformatter[a] # NULL /\ ~hasFormatter[a] =>
       Attached(a) \/ InUse(a, {"add_push"})

LEMMA InheritInit == Init => InheritInv
<1> SUFFICES ASSUME Init PROVE InheritInv
  OBVIOUS
<1>1. ASSUME NEW l \in Loggers, NEW i \in DOMAIN appenders[l]
      PROVE  /\ <<l, appenders[l][i]>> \in Homes
             /\ aformatter[appenders[l][i]] = formatter[l]
  <2>1. l \in DOMAIN Prepared /\ appenders[l] = Prepared[l]
    BY <1>1 DEF Init
  <2>2. appenders[l][i] \in Appenders
    BY <2>1, LoggerAssumption
  <2>3. Attached(appenders[l][i])
    BY DEF Attached
  <2> QED
    BY <2>1, <2>2, <2>3 DEF Homes, Init
<1>2. \A a \in Appenders : aformatter[a] # NULL => Attached(a)
  BY DEF Init
<1>3. \A t \in Threads : pc[t] = "idle"
  BY DEF Init
<1> QED
  BY <1>1, <1>2, <1>3 DEF InheritInv, Follows, AddPcs

\* Which step a thread takes from where it is.
LEMMA NextStep ==
  ASSUME TypeOK, NEW t \in Threads, ClientCall(t) \/ Run(t)
  PROVE  /\ pc[t] \in {"fmt_walk", "fmt_set"} =>
              SetFormatterNext(t) \/ SetFormatterEach(t) \/ SetFormatterDone(t)
         /\ pc[t] = "add_push" => AddPush(t)
         /\ pc[t] = "add_get" => AddGet(t)
         /\ pc[t] = "del_lock" => DelLock(t)
<1>1. ClientCall(t) => pc[t] = "idle"
  BY DEF ClientCall, LogCall, SetFormatterCall, AddCall, DelCall,
    OwnFormatterCall, SetLevel, SetAppenderLevel, GetCall, YamlCall, Call, Step
<1> QED
  BY <1>1 DEF Run, LogLock, LogEach, AppenderLock, AppenderWrite, LogForward,
    LogDone, LogReturn, SetFormatterLock, SetFormatterNext, SetFormatterEach,
    SetFormatterDone, AddLock, AddGet, AddAppenderLock, AddSet, AddPush,
    DelLock, DelClear, OwnFormatterLock, OwnFormatterSet, GetLock, GetFind,
    YamlLock, YamlNext, YamlLogger, YamlEach, YamlRelease, YamlDone, Step

\* Who changes the formatter of a logger.
LEMMA FormatterChange ==
  ASSUME TypeOK, NEW t \in Threads, ClientCall(t) \/ Run(t), NEW l \in Loggers,
         formatter'[l] # formatter[l]
  PROVE  SetFormatterLock(t) /\ l = self[t]
<1> USE DEF TypeOK, ObjectsOK, LocalsOK, loggerVars
<1>1. CASE ClientCall(t)
  BY <1>1 DEF ClientCall, LogCall, SetFormatterCall, AddCall, DelCall,
    OwnFormatterCall, SetLevel, SetAppenderLevel, GetCall, YamlCall
<1> QED
  BY <1>1 DEF Run, LogLock, LogEach, AppenderLock, AppenderWrite, LogForward,
    LogDone, LogReturn, SetFormatterLock, SetFormatterNext, SetFormatterEach,
    SetFormatterDone, AddLock, AddGet, AddAppenderLock, AddSet, AddPush,
    DelLock, DelClear, OwnFormatterLock, OwnFormatterSet, GetLock, GetFind,
    YamlLock, YamlNext, YamlLogger, YamlEach, YamlRelease, YamlDone

\* Without delAppender a thread comes to setFormatter with its loop at the
\* start, and no list loses an entry.
LEMMA CallsMade ==
  ASSUME "delAppender" \notin Ops, TypeOK, InheritInv,
         NEW t \in Threads, ClientCall(t) \/ Run(t)
  PROVE  /\ pc'[t] = "fmt_lock" => idx'[t] = 1
         /\ pc'[t] \notin {"del_lock", "del_clear"}
         /\ \A a \in Appenders : Attached(a) => Attached(a)'
<1> USE DEF TypeOK, ObjectsOK, ThreadsOK, LocalsOK
<1>1. pc[t] \notin {"del_lock", "del_clear"}
  BY DEF InheritInv
<1>2. CASE ClientCall(t)
  <2>1. \A op, label, l, a, f, v :
          Call(t, op, label, l, a, f, v) => op \in Ops /\ pc'[t] = label /\ idx'[t] = 1
    BY DEF Call, Step, Goto, Locals
  <2> HIDE DEF TypeOK, ObjectsOK, ThreadsOK, LocalsOK
  <2>2. pc'[t] \notin {"del_lock", "del_clear"} /\ idx'[t] = 1
    <3>1. \A l \in Loggers, a \in Appenders : ~DelCall(t, l, a)
      BY <2>1 DEF DelCall
    <3>2. \E op, l, a, f, v :
            \E label \in {"idle", "log_lock", "fmt_lock", "add_lock", "own_lock",
                          "get_lock", "yaml_lock"} : Call(t, op, label, l, a, f, v)
      BY <1>2, <3>1 DEF ClientCall, LogCall, SetFormatterCall, AddCall,
        OwnFormatterCall, SetLevel, SetAppenderLevel, GetCall, YamlCall
    <3> QED
      BY <2>1, <3>2
  <2>3. UNCHANGED appenders
    BY <1>2 DEF ClientCall, LogCall, SetFormatterCall, AddCall, DelCall,
      OwnFormatterCall, SetLevel, SetAppenderLevel, GetCall, YamlCall, loggerVars
  <2> QED
    BY <2>2, <2>3 DEF Attached
<1>3. CASE Run(t)
  <2>1. pc'[t] \notin {"fmt_lock", "del_lock", "del_clear"}
    BY <1>1, <1>3 DEF Run, LogLock, LogEach, AppenderLock, AppenderWrite,
      LogForward, LogDone, LogReturn, SetFormatterLock, SetFormatterNext,
      SetFormatterEach, SetFormatterDone, AddLock, AddGet, AddAppenderLock,
      AddSet, AddPush, DelLock, DelClear, OwnFormatterLock, OwnFormatterSet,
      GetLock, GetFind, YamlLock, YamlNext, YamlLogger, YamlEach, YamlRelease,
      YamlDone, Step, Goto, Return
  <2>2. ASSUME NEW l \in Loggers, NEW i \in DOMAIN appenders[l]
        PROVE  i \in DOMAIN appenders'[l] /\ appenders'[l][i] = appenders[l][i]
    <3>1. CASE appenders'[l] = appenders[l]
      BY <3>1
    <3>2. CASE appenders'[l] # appenders[l]
      <4>1. AddPush(t) /\ l = self[t]
        BY <1>1, <3>2, ListChange, NextStep
      <4>2. appenders'[l] = Append(appenders[l], app[t])
        BY <4>1 DEF AddPush
      <4>3. appenders[l] \in Seq(Appenders) /\ app[t] \in Appenders
        OBVIOUS
      <4> QED
        BY <4>2, <4>3, AppendProperties
    <3> QED
      BY <3>1, <3>2
  <2> QED
    BY <2>1, <2>2 DEF Attached
<1> QED
  BY <1>2, <1>3

\* A pair of an appender and its logger stops following only when the logger
\* gets another formatter, or when the appender, still private, is given one.
LEMMA FollowsStep ==
  ASSUME OneHome, LockInv, OwnInv, InheritInv,
         NEW t \in Threads, ClientCall(t) \/ Run(t),
         NEW l \in Loggers, NEW a \in Appenders, <<l, a>> \in Homes
  PROVE  \/ SetFormatterLock(t) /\ l = self[t]
         \/ OwnFormatterSet(t) /\ a = app[t]
         \/ /\ Follows(a, l) => hasFormatter'[a] \/ aformatter'[a] = formatter'[l]
            /\ SetFormatterEach(t) /\ a = Current(t) =>
                 hasFormatter'[a] \/ aformatter'[a] = formatter'[l]
            /\ AddSet(t) /\ a = app[t] => aformatter'[a] = formatter'[l]
<1>1. TypeOK
  BY DEF LockInv
<1>2. ASSUME SetFormatterEach(t), a = Current(t)
      PROVE  l = self[t] /\ formatter'[l] = formatter[l]
  <2>1. ~Exhausted(t) /\ self[t] \in Loggers
    BY <1>2 DEF LockInv, CallsOK, CallOK, SetFormatterEach, Step, TypeOK, LocalsOK
  <2>2. idx[t] \in DOMAIN appenders[self[t]] /\ a = appenders[self[t]][idx[t]]
    BY <1>1, <1>2, <2>1, CurrentType DEF List, Current
  <2>3. <<self[t], a>> \in Homes
    BY <2>1, <2>2 DEF InheritInv
  <2>4. l = self[t]
    BY <2>1, <2>3 DEF OneHome
  <2> QED
    BY <1>2, <2>4 DEF SetFormatterEach, loggerVars
<1>3. ASSUME AddSet(t), a = app[t]
      PROVE  l = self[t] /\ formatter'[l] = formatter[l] /\ aformatter'[a] = formatter[l]
  <2>1. self[t] \in Loggers /\ <<self[t], a>> \in Homes
    BY <1>1, <1>3 DEF InheritInv, AddPcs, AddSet, Step, TypeOK, LocalsOK
  <2>2. l = self[t]
    BY <2>1 DEF OneHome
  <2> QED
    BY <1>1, <1>3, <2>2 DEF AddSet, loggerVars, TypeOK, ObjectsOK
<1>4. ASSUME SetFormatterEach(t), a = Current(t)
      PROVE  hasFormatter'[a] \/ aformatter'[a] = formatter'[l]
  <2>1. aformatter'[a] = IF hasFormatter[a] THEN aformatter[a] ELSE formatter[self[t]]
    BY <1>1, <1>4 DEF SetFormatterEach, TypeOK, ObjectsOK
  <2>2. hasFormatter'[a] = hasFormatter[a]
    BY <1>4 DEF SetFormatterEach
  <2> QED
    BY <1>2, <1>4, <2>1, <2>2
<1>5. CASE formatter'[l] # formatter[l]
  BY <1>1, <1>5, FormatterChange
<1>6. CASE formatter'[l] = formatter[l] /\ ~(OwnFormatterSet(t) /\ a = app[t])
  <2>1. ASSUME Follows(a, l)
        PROVE  hasFormatter'[a] \/ aformatter'[a] = formatter'[l]
    BY <1>1, <1>3, <1>4, <1>6, <2>1, AppenderChange DEF Follows
  <2> QED
    BY <1>3, <1>4, <1>6, <2>1
<1> QED
  BY <1>5, <1>6

\* Entries: the one setFormatter has just dealt with follows, those behind it
\* still wait, and the others are as they were.
LEMMA EntriesFollow ==
  ASSUME OneHome, LockInv, OwnInv, InheritInv,
         NEW t \in Threads, ClientCall(t) \/ Run(t),
         NEW l \in Loggers, NEW i \in DOMAIN appenders'[l]
  PROVE  /\ <<l, appenders'[l][i]>> \in Homes
         /\ \/ hasFormatter'[appenders'[l][i]]
            \/ aformatter'[appenders'[l][i]] = formatter'[l]
            \/ \E u \in Threads : /\ pc'[u] \in {"fmt_walk", "fmt_set"}
                                  /\ self'[u] = l /\ idx'[u] <= i
<1> DEFINE a == appenders'[l][i]
<1>0. TypeOK
  BY DEF LockInv
<1>1. self[t] \in Loggers /\ app[t] \in Appenders /\ idx[t] \in Nat \ {0}
      /\ appenders[l] \in Seq(Appenders)
  BY <1>0 DEF TypeOK, ObjectsOK, LocalsOK
<1>2. CASE AddPush(t) /\ l = self[t] /\ a = app[t]
  <2>1. <<l, a>> \in Homes /\ Follows(a, l)
    BY <1>2 DEF InheritInv, AddPush, AddPcs
  <2>2. formatter' = formatter /\ UNCHANGED <<aformatter, hasFormatter>>
    BY <1>2 DEF AddPush, appenderVars
  <2> QED
    BY <2>1, <2>2 DEF Follows
<1>3. CASE i \in DOMAIN appenders[l] /\ a = appenders[l][i]
  <2>1. a \in Appenders /\ <<l, a>> \in Homes /\ i \in 1..Len(appenders[l])
    <3>1. <<l, appenders[l][i]>> \in Homes
      BY <1>3 DEF InheritInv
    <3>2. appenders[l][i] \in Appenders /\ i \in 1..Len(appenders[l])
      BY <1>1, <1>3
    <3> QED
      BY <1>3, <3>1, <3>2
  <2>2. ~(OwnFormatterSet(t) /\ a = app[t])
    BY <1>3 DEF OwnFormatterSet, OwnInv, OwnPcs, Attached
  <2>3. CASE SetFormatterLock(t) /\ l = self[t]
    <3>1. pc[t] = "fmt_lock" /\ idx[t] = 1
      BY <2>3 DEF SetFormatterLock, Step, InheritInv
    <3>2. pc'[t] = "fmt_walk" /\ self'[t] = l /\ idx'[t] = 1
      BY <1>0, <2>3, <3>1 DEF SetFormatterLock, Step, Goto, locals, TypeOK, ThreadsOK
    <3> QED
      BY <2>1, <3>2
  <2>4. CASE ~(SetFormatterLock(t) /\ l = self[t])
    <3>1. /\ Follows(a, l) => hasFormatter'[a] \/ aformatter'[a] = formatter'[l]
          /\ SetFormatterEach(t) /\ a = Current(t) =>
               hasFormatter'[a] \/ aformatter'[a] = formatter'[l]
      BY <2>1, <2>2, <2>4, FollowsStep
    <3>2. CASE Follows(a, l)
      BY <2>1, <3>1, <3>2
    <3>3. CASE ~Follows(a, l)
      <4>1. PICK u \in Threads :
              pc[u] \in {"fmt_walk", "fmt_set"} /\ self[u] = l /\ idx[u] <= i
        BY <1>3, <3>3 DEF InheritInv
      <4>2. CASE u # t
        BY <1>0, <2>1, <4>1, <4>2, OnlyOneMoves
      <4>3. CASE u = t
        <5>1. SetFormatterNext(t) \/ SetFormatterEach(t) \/ SetFormatterDone(t)
          BY <1>0, <4>1, <4>3, NextStep
        <5>2. CASE SetFormatterNext(t)
          <6>1. pc'[t] = "fmt_set" /\ self'[t] = self[t] /\ idx'[t] = idx[t]
            BY <1>0, <5>2 DEF SetFormatterNext, Step, Goto, locals, TypeOK, ThreadsOK
          <6> QED
            BY <2>1, <4>1, <4>3, <6>1
        <5>3. CASE SetFormatterEach(t)
          <6>1. pc'[t] = "fmt_walk" /\ self'[t] = self[t] /\ idx'[t] = idx[t] + 1
            BY <1>0, <5>3 DEF SetFormatterEach, Step, Goto, Advance, TypeOK,
              ThreadsOK, LocalsOK
          <6>2. CASE idx[t] = i
            <7>1. a = Current(t)
              BY <1>3, <4>1, <4>3, <6>2 DEF Current, List
            <7> QED
              BY <2>1, <3>1, <5>3, <7>1
          <6>3. CASE idx[t] # i
            <7>1. idx'[t] <= i
              BY <1>1, <2>1, <4>1, <4>3, <6>1, <6>3
            <7> QED
              BY <2>1, <4>1, <4>3, <6>1, <7>1
          <6> QED
            BY <6>2, <6>3
        <5>4. CASE SetFormatterDone(t)
          BY <1>1, <2>1, <4>1, <4>3, <5>4 DEF SetFormatterDone, Exhausted, List
        <5> QED
          BY <5>1, <5>2, <5>3, <5>4
      <4> QED
        BY <4>2, <4>3
    <3> QED
      BY <3>2, <3>3
  <2> QED
    BY <2>3, <2>4
<1> HIDE DEF a
<1> QED
  BY <1>0, <1>2, <1>3, EntryFrom DEF a

\* A thread that is about to push an appender has one that follows the logger.
LEMMA PushedFollow ==
  ASSUME OneHome, LockInv, OwnInv, InheritInv,
         NEW t \in Threads, ClientCall(t) \/ Run(t),
         NEW u \in Threads, pc'[u] = "add_push"
  PROVE  hasFormatter'[app'[u]] \/ aformatter'[app'[u]] = formatter'[self'[u]]
<1>0. TypeOK
  BY DEF LockInv
<1>1. self[u] \in Loggers /\ app[u] \in Appenders
  BY <1>0 DEF TypeOK, LocalsOK
<1>2. CASE u = t
  <2>1. /\ pc[t] \in AddPcs /\ app'[t] = app[t] /\ self'[t] = self[t]
        /\ AddSet(t) \/ (pc[t] = "add_get" /\ aformatter[app[t]] # NULL)
    <3>1. pc'[t] \in AddPcs /\ pc'[t] = "add_push"
      BY <1>2 DEF AddPcs
    <3> QED
      BY <1>0, <3>1, InAdd
  <2>2. <<self[t], app[t]>> \in Homes
    BY <2>1 DEF InheritInv
  <2>3. CASE AddSet(t)
    <3>1. ~SetFormatterLock(t) /\ ~OwnFormatterSet(t)
      BY <2>3 DEF AddSet, SetFormatterLock, OwnFormatterSet, Step
    <3> QED
      BY <1>1, <1>2, <2>1, <2>2, <2>3, <3>1, FollowsStep
  <2>4. CASE pc[t] = "add_get" /\ aformatter[app[t]] # NULL
    <3>1. UNCHANGED <<formatter, aformatter, hasFormatter>>
      BY <1>0, <2>4, NextStep DEF AddGet, loggerVars, appenderVars
    <3>2. Follows(app[t], self[t])
      <4>1. CASE hasFormatter[app[t]]
        BY <4>1 DEF Follows
      <4>2. ASSUME NEW v \in Threads, pc[v] = "add_push", app[v] = app[t]
            PROVE  Follows(app[t], self[t])
        <5>1. <<self[v], app[t]>> \in Homes /\ Follows(app[t], self[v])
          BY <4>2 DEF InheritInv, AddPcs
        <5>2. self[v] \in Loggers
          BY <1>0 DEF TypeOK, LocalsOK
        <5> QED
          BY <1>1, <1>2, <2>2, <5>1, <5>2 DEF OneHome
      <4>3. ASSUME NEW k \in Loggers, NEW j \in DOMAIN appenders[k],
                   appenders[k][j] = app[t]
            PROVE  Follows(app[t], self[t])
        <5>1. <<k, app[t]>> \in Homes
          BY <4>3 DEF InheritInv
        <5>2. k = self[t]
          BY <1>1, <1>2, <2>2, <5>1 DEF OneHome
        <5>3. ASSUME NEW v \in Threads, pc[v] \in {"fmt_walk", "fmt_set"}, self[v] = k
              PROVE  FALSE
          <6>1. k \in Holds(v) /\ k \in Holds(t) /\ k \in Mutexes
            BY <2>4, <5>2, <5>3 DEF Holds, Mutexes
          <6>2. v = t
            BY <6>1 DEF LockInv, OwnershipMatchesCalls
          <6> QED
            BY <2>4, <5>3, <6>2
        <5>4. \/ Follows(appenders[k][j], k)
              \/ \E v \in Threads : /\ pc[v] \in {"fmt_walk", "fmt_set"}
                                    /\ self[v] = k /\ idx[v] <= j
          BY DEF InheritInv
        <5> QED
          BY <4>3, <5>2, <5>3, <5>4
      <4> QED
        BY <1>1, <1>2, <2>4, <4>1, <4>2, <4>3 DEF InheritInv, Attached, InUse
    <3> QED
      BY <1>2, <2>1, <3>1, <3>2 DEF Follows
  <2> QED
    BY <2>1, <2>3, <2>4
<1>3. CASE u # t
  <2>1. pc[u] = "add_push" /\ app'[u] = app[u] /\ self'[u] = self[u]
    BY <1>0, <1>3, OnlyOneMoves
  <2>2. <<self[u], app[u]>> \in Homes /\ Follows(app[u], self[u])
    BY <2>1 DEF InheritInv, AddPcs
  <2>3. ~(SetFormatterLock(t) /\ self[u] = self[t])
    <3>1. owner[self[u]] = u /\ u # NULL
      BY <1>1, <2>1, LoggerAssumption DEF LockInv, OwnershipMatchesCalls, Holds, Mutexes
    <3> QED
      BY <3>1 DEF SetFormatterLock, Acquire
  <2>4. ~(OwnFormatterSet(t) /\ app[u] = app[t])
    BY <1>3, <2>1 DEF OwnFormatterSet, OwnInv, OwnPcs, AddPcs
  <2> QED
    BY <1>1, <2>1, <2>2, <2>3, <2>4, FollowsStep
<1> QED
  BY <1>2, <1>3

\* A formatter that is not the appender's own came with a list.
LEMMA FormatterFromList ==
  ASSUME OneHome, LockInv, OwnInv, InheritInv,
         NEW t \in Threads, ClientCall(t) \/ Run(t),
         NEW a \in Appenders, aformatter'[a] # NULL, ~hasFormatter'[a]
  PROVE  Attached(a)' \/ \E u \in Threads : pc'[u] = "add_push" /\ app'[u] = a
<1>0. TypeOK
  BY DEF LockInv
<1>1. Attached(a) => Attached(a)'
  BY <1>0, CallsMade DEF OneHome
<1>2. CASE aformatter'[a] = aformatter[a] /\ hasFormatter'[a] = hasFormatter[a]
  <2>1. CASE Attached(a)
    BY <1>1, <2>1
  <2>2. ASSUME NEW u \in Threads, pc[u] = "add_push", app[u] = a
        PROVE  Attached(a)' \/ (pc'[u] = "add_push" /\ app'[u] = a)
    <3>1. CASE u # t
      BY <1>0, <2>2, <3>1, OnlyOneMoves
    <3>2. CASE u = t
      <4>1. AddPush(t)
        BY <1>0, <2>2, <3>2, NextStep
      <4>2. self[t] \in Loggers /\ appenders[self[t]] \in Seq(Appenders)
        BY <1>0 DEF TypeOK, ObjectsOK, LocalsOK
      <4>3. appenders'[self[t]] = Append(appenders[self[t]], a)
        BY <1>0, <2>2, <3>2, <4>1, <4>2 DEF AddPush, TypeOK, ObjectsOK
      <4>4. /\ Len(appenders[self[t]]) + 1 \in DOMAIN appenders'[self[t]]
            /\ appenders'[self[t]][Len(appenders[self[t]]) + 1] = a
        BY <4>2, <4>3, AppendProperties
      <4>5. \E l \in Loggers : \E i \in DOMAIN appenders'[l] : appenders'[l][i] = a
        BY <4>2, <4>4
      <4> QED
        BY <4>5 DEF Attached
    <3> QED
      BY <3>1, <3>2
  <2> QED
    BY <1>2, <2>1, <2>2 DEF InheritInv, InUse
<1>3. CASE SetFormatterEach(t) /\ a = Current(t)
  <2>1. ~Exhausted(t) /\ self[t] \in Loggers
    BY <1>3 DEF LockInv, CallsOK, CallOK, SetFormatterEach, Step, TypeOK, LocalsOK
  <2>2. Attached(a)
    BY <1>0, <1>3, <2>1, CurrentType DEF List, Current, Attached
  <2> QED
    BY <1>1, <2>2
<1>4. CASE AddSet(t) /\ a = app[t]
  <2>1. pc'[t] = "add_push" /\ app'[t] = a
    BY <1>0, <1>4 DEF AddSet, Step, Goto, locals, TypeOK, ThreadsOK
  <2> QED
    BY <2>1
<1>5. CASE /\ aformatter'[a] = fmt[t]
           /\ hasFormatter'[a] = (fmt[t] # NULL)
  BY <1>5, Zenon
<1> QED
  BY <1>0, <1>2, <1>3, <1>4, <1>5, AppenderChange, Zenon

LEMMA InheritStep ==
  ASSUME OneHome, LockInv, OwnInv, InheritInv,
         NEW t \in Threads, ClientCall(t) \/ Run(t)
  PROVE  InheritInv'
<1>0. TypeOK
  BY DEF LockInv
<1>1. ASSUME NEW u \in Threads
      PROVE  /\ pc'[u] \in AddPcs => <<self'[u], app'[u]>> \in Homes
             /\ pc'[u] = "fmt_lock" => idx'[u] = 1
             /\ pc'[u] \notin {"del_lock", "del_clear"}
  <2>1. CASE u # t
    BY <1>0, <2>1, OnlyOneMoves DEF InheritInv
  <2>2. CASE u = t
    <3>1. pc'[t] \in AddPcs => <<self'[t], app'[t]>> \in Homes
      BY <1>0, InAdd DEF InheritInv, AddCall, Homes
    <3> QED
      BY <1>0, <2>2, <3>1, CallsMade DEF OneHome
  <2> QED
    BY <2>1, <2>2
<1> QED
  BY <1>1, EntriesFollow, PushedFollow, FormatterFromList
  DEF InheritInv, Follows, InUse

\* Where every appender belongs to one logger and stays there, an appender
\* without a formatter of its own has its logger's whenever nobody is inside
\* that logger: setFormatter misses none (Log.cpp:244-256), addAppender brings
\* none in with an older one (Log.cpp:290-301).
THEOREM InheritedFormattersFollow ==
  ASSUME OneHome
  PROVE  Spec => []InheritedFormatterCurrent
<1>1. LockInv /\ OwnInv /\ InheritInv /\ [Next]_vars => OwnInv' /\ InheritInv'
  <2>1. CASE UNCHANGED vars
    BY <2>1 DEF vars, loggerVars, appenderVars, locals, OwnInv, OwnFormatterKept,
      Attached, InheritInv, Follows, InUse
  <2> QED
    BY <2>1, OwnStep, InheritStep DEF Next, Finished, OneHome, LockInv
<1>2. LockInv /\ InheritInv => InheritedFormatterCurrent
  <2> SUFFICES ASSUME LockInv, InheritInv,
                      NEW l \in Loggers, owner[l] = NULL,
                      NEW i \in DOMAIN appenders[l]
               PROVE  Follows(appenders[l][i], l)
    BY DEF InheritedFormatterCurrent, Follows
  <2>1. ASSUME NEW u \in Threads, pc[u] \in {"fmt_walk", "fmt_set"}, self[u] = l
        PROVE  FALSE
    BY <2>1, LoggerAssumption DEF LockInv, OwnershipMatchesCalls, Holds, Mutexes
  <2> QED
    BY <2>1 DEF InheritInv
<1> QED
  BY OwnInit, InheritInit, LockInvariant, <1>1, <1>2, PTL DEF Spec
=============================================================================
