------------------------- MODULE LoggerServiceProofs -------------------------
(* The logger core implements LogService: threads and mutexes together       *)
(* amount to one serial server per logger.                                   *)
EXTENDS LoggerProofs, FiniteSetTheorems

\* Some appender has written the event of the call thread t is in.
Seen(t) == \E a \in Appenders : \E i \in DOMAIN out[a] :
             out[a][i].ev = EventOf(t)

\* An event is written by nobody before its call starts, nor before the loop
\* that writes it: a logger that forwards an event has not written it.  The
\* loop is inside its list, and at the appender it is writing to.
ServeOK(t) ==
  /\ calls[t] <= MaxCalls
  /\ pc[t] = "log_lock" => idx[t] = 1 /\ ~Seen(t)
  /\ pc[t] \in Looping => idx[t] <= Len(List(t)) + 1
  /\ pc[t] \in {"app_lock", "app_write"} => app[t] = Current(t)
  /\ pc[t] = "log_walk" /\ List(t) = << >> => ~Seen(t)
NoFuture ==
  \A a \in Appenders : \A i \in DOMAIN out[a] :
    out[a][i].ev[2] <= calls[out[a][i].ev[1]]
ServeInv == NoFuture /\ \A t \in Threads : ServeOK(t)

-----------------------------------------------------------------------------
(* What the steps do to what the abstract server sees.                      *)

\* A step that neither writes, nor changes a list, nor enters or leaves the
\* loop of Logger::log.
Quiet(t) ==
  /\ UNCHANGED <<out, appenders>>
  /\ pc[t] \notin Looping /\ pc'[t] \notin Looping

\* A step that makes no call and leads no call to log's lock.
SameCall(t) == calls' = calls /\ pc'[t] # "log_lock"

LEMMA CallKind ==
  ASSUME LockInv, NEW t \in Threads, ClientCall(t)
  PROVE  /\ Quiet(t)
         /\ calls[t] < MaxCalls
         /\ calls' = [calls EXCEPT ![t] = @ + 1]
         /\ pc'[t] = "log_lock" => idx'[t] = 1
<1>1. PICK op, label, l, a, f, v : Call(t, op, label, l, a, f, v)
  BY DEF ClientCall, LogCall, SetFormatterCall, AddCall, DelCall,
    OwnFormatterCall, SetLevel, SetAppenderLevel, GetCall, YamlCall
<1>2. pc'[t] \in {"idle", "log_lock", "fmt_lock", "add_lock", "del_lock",
                  "own_lock", "get_lock", "yaml_lock"}
  BY DEF ClientCall, LogCall, SetFormatterCall, AddCall, DelCall, Call,
    Step, Goto, OwnFormatterCall, SetLevel, SetAppenderLevel, GetCall,
    YamlCall, LockInv, TypeOK, ThreadsOK
<1>3. UNCHANGED <<out, appenders>>
  BY DEF ClientCall, LogCall, SetFormatterCall, AddCall, DelCall,
    OwnFormatterCall, SetLevel, SetAppenderLevel, GetCall, YamlCall,
    loggerVars
<1>4. pc[t] = "idle" /\ idx'[t] = 1
  BY <1>1 DEF Call, Step, Locals, LockInv, TypeOK, LocalsOK
<1> QED BY <1>1, <1>2, <1>3, <1>4 DEF Quiet, Looping, Call

LEMMA RunKinds ==
  ASSUME LockInv, NEW t \in Threads, Run(t)
  PROVE  /\ calls' = calls
         /\ \/ Quiet(t) /\ pc'[t] # "log_lock"
            \/ LogLock(t) \/ LogEach(t) \/ AppenderLock(t) \/ AppenderWrite(t)
            \/ LogForward(t) \/ LogDone(t) \/ AddPush(t) \/ DelClear(t)
<1> USE DEF Quiet, Looping, Goto, Step, Return, LockInv, TypeOK, ThreadsOK,
            loggerVars
<1>1. CASE LogLock(t) \/ LogEach(t) \/ AppenderLock(t) \/ AppenderWrite(t)
           \/ LogForward(t) \/ LogDone(t) \/ AddPush(t) \/ DelClear(t)
  BY <1>1 DEF LogLock, LogEach, AppenderLock, AppenderWrite, LogForward,
    LogDone, AddPush, DelClear
<1>2. CASE LogReturn(t)
  BY <1>2 DEF LogReturn
<1>3. CASE SetFormatterLock(t) \/ SetFormatterNext(t) \/ SetFormatterEach(t)
           \/ SetFormatterDone(t)
  BY <1>3 DEF SetFormatterLock, SetFormatterNext, SetFormatterEach,
    SetFormatterDone
<1>4. CASE AddLock(t) \/ AddGet(t) \/ AddAppenderLock(t) \/ AddSet(t)
           \/ DelLock(t)
  BY <1>4 DEF AddLock, AddGet, AddAppenderLock, AddSet, DelLock
<1>5. CASE OwnFormatterLock(t) \/ OwnFormatterSet(t) \/ GetLock(t)
           \/ GetFind(t)
  BY <1>5 DEF OwnFormatterLock, OwnFormatterSet, GetLock, GetFind
<1>6. CASE YamlLock(t) \/ YamlNext(t) \/ YamlLogger(t) \/ YamlEach(t)
           \/ YamlRelease(t) \/ YamlDone(t)
  BY <1>6 DEF YamlLock, YamlNext, YamlLogger, YamlEach, YamlRelease, YamlDone
<1> QED BY <1>1, <1>2, <1>3, <1>4, <1>5, <1>6 DEF Run

\* A thread in the loop of log owns the mutex of the logger it runs on.
LEMMA LoopOwns ==
  ASSUME LockInv, NEW t \in Threads, pc[t] \in Looping
  PROVE  self[t] \in Loggers /\ owner[self[t]] = t
<1>1. self[t] \in Loggers /\ self[t] \in Mutexes
  BY DEF LockInv, TypeOK, LocalsOK, Mutexes
<1>2. self[t] \in Holds(t)
  BY <1>1 DEF Holds, Looping, InLog
<1> QED BY <1>1, <1>2 DEF LockInv, OwnershipMatchesCalls

\* Which event a logger handles, read off the calls.
LEMMA HandlingBy ==
  ASSUME LockInv, NEW t \in Threads, pc[t] \in Looping
  PROVE  /\ Handling[self[t]] = {EventOf(t)}
         /\ Position[self[t]] = idx[t]
<1>1. self[t] \in Loggers /\ owner[self[t]] = t
  BY LoopOwns
<1>2. t # NULL
  BY LoggerAssumption
<1>3. Serves(self[t])
  BY <1>1, <1>2 DEF Serves
<1> QED BY <1>1, <1>3 DEF Handling, Position

LEMMA HandlingNone ==
  ASSUME LockInv, NEW l \in Loggers,
         \A t \in Threads : ~ (self[t] = l /\ pc[t] \in Looping)
  PROVE  Handling[l] = {} /\ Position[l] = 1
<1>1. owner[l] \in Threads \cup {NULL}
  BY DEF LockInv, TypeOK, ThreadsOK, Mutexes
<1>2. ~ Serves(l)
  BY <1>1 DEF Serves
<1> QED BY <1>2 DEF Handling, Position

\* A logger whose mutex is held for something else handles no event.
LEMMA HandlingElse ==
  ASSUME LockInv, NEW t \in Threads, pc[t] \notin Looping,
         self[t] \in Holds(t)
  PROVE  Handling[self[t]] = {} /\ Position[self[t]] = 1
<1>1. self[t] \in Loggers /\ self[t] \in Mutexes
  BY DEF LockInv, TypeOK, LocalsOK, Mutexes
<1>2. owner[self[t]] = t
  BY <1>1 DEF LockInv, OwnershipMatchesCalls
<1>3. \A u \in Threads : ~ (self[u] = self[t] /\ pc[u] \in Looping)
  BY <1>2, LoopOwns
<1> QED BY <1>1, <1>3, HandlingNone

\* Both facts, in this state and in the next.
Reads ==
  /\ \A t \in Threads : pc[t] \in Looping =>
       Handling[self[t]] = {EventOf(t)} /\ Position[self[t]] = idx[t]
  /\ \A l \in Loggers :
       (\A t \in Threads : ~ (self[t] = l /\ pc[t] \in Looping)) =>
         Handling[l] = {} /\ Position[l] = 1

LEMMA ReadsNow == LockInv => Reads
BY HandlingBy, HandlingNone DEF Reads

LEMMA ReadsNext == LockInv' => Reads'
BY ReadsNow, PTL

\* A step of t changes nothing for a logger that t does not loop on.
LEMMA HandlingFrame ==
  ASSUME LockInv, LockInv', NEW t \in Threads, ClientCall(t) \/ Run(t),
         NEW l \in Loggers,
         ~ (self[t] = l /\ pc[t] \in Looping),
         ~ (self'[t] = l /\ pc'[t] \in Looping)
  PROVE  Handling'[l] = Handling[l] /\ Position'[l] = Position[l]
<1>1. \A u \in Threads \ {t} : /\ pc'[u] = pc[u] /\ self'[u] = self[u]
                               /\ idx'[u] = idx[u] /\ calls'[u] = calls[u]
  <2>1. \A u \in Threads \ {t} : calls'[u] = calls[u]
    BY CallKind, RunKinds DEF LockInv, TypeOK, ThreadsOK
  <2> QED BY <2>1, OnlyOneMoves DEF LockInv
<1>2. CASE \E u \in Threads : self[u] = l /\ pc[u] \in Looping
  <2>1. PICK u \in Threads : self[u] = l /\ pc[u] \in Looping
    BY <1>2
  <2>2. u # t
    BY <2>1
  <2>3. EventOf(u)' = EventOf(u)
    BY <1>1, <2>2 DEF EventOf
  <2>4. /\ Handling[l] = {EventOf(u)} /\ Position[l] = idx[u]
    BY <2>1, HandlingBy
  <2>5. Handling'[self'[u]] = {EventOf(u)'} /\ Position'[self'[u]] = idx'[u]
    <3>1. (pc[u] \in Looping)'
      BY <1>1, <2>1, <2>2 DEF Looping
    <3> QED BY <1>1, <2>1, <2>2, <3>1, ReadsNext DEF Reads, Looping
  <2> QED BY <1>1, <2>1, <2>2, <2>3, <2>4, <2>5
<1>3. CASE \A u \in Threads : ~ (self[u] = l /\ pc[u] \in Looping)
  <2>1. \A u \in Threads : ~ (self'[u] = l /\ pc'[u] \in Looping)
    BY <1>1, <1>3
  <2>2. Handling'[l] = {} /\ Position'[l] = 1
    BY <2>1, ReadsNext DEF Reads, Looping
  <2>3. Handling[l] = {} /\ Position[l] = 1
    BY <1>3, HandlingNone
  <2> QED BY <2>2, <2>3
<1> QED BY <1>2, <1>3

-----------------------------------------------------------------------------
(* ServeInv is an invariant.                                                *)

LEMMA ServeStart == Init => ServeInv
<1> SUFFICES ASSUME Init PROVE ServeInv
  OBVIOUS
<1>1. \A a \in Appenders : DOMAIN out[a] = {}
  BY DEF Init
<1>2. \A t \in Threads : pc[t] = "idle"
  BY DEF Init
<1>3. \A t \in Threads : calls[t] = 0
  BY DEF Init
<1>4. \A t \in Threads : calls[t] <= MaxCalls
  <2> TAKE t \in Threads
  <2>1. MaxCalls \in Nat
    BY LoggerAssumption
  <2>2. calls[t] = 0
    BY <1>3
  <2> QED BY <2>1, <2>2
<1> QED BY <1>1, <1>2, <1>4 DEF ServeInv, NoFuture, ServeOK, Looping

\* What AppenderWrite adds.
LEMMA WriteAdds ==
  ASSUME LockInv, NEW t \in Threads, AppenderWrite(t)
  PROVE  /\ app[t] \in Appenders
         /\ out' = [out EXCEPT ![app[t]] =
                      Append(@, [ev |-> EventOf(t), by |-> self[t]])]
         /\ \A a \in Appenders : \A i \in DOMAIN out'[a] :
              \/ i \in DOMAIN out[a] /\ out'[a][i] = out[a][i]
              \/ out'[a][i].ev = EventOf(t)
<1> DEFINE g == [ev |-> EventOf(t), by |-> self[t]]
           T == [ev: Threads \X Nat, by: Loggers]
<1>1. app[t] \in Appenders /\ g \in T /\ g.ev = EventOf(t)
  BY DEF LockInv, TypeOK, LocalsOK, ThreadsOK, EventOf
<1>2. out' = [out EXCEPT ![app[t]] = Append(@, g)]
  BY DEF AppenderWrite
<1>3. out \in [Appenders -> Seq(T)]
  BY DEF LockInv, TypeOK, ThreadsOK
<1>4. \A a \in Appenders : a # app[t] => out'[a] = out[a]
  BY <1>2, <1>3
<1>5. out'[app[t]] = Append(out[app[t]], g)
  BY <1>1, <1>2, <1>3
<1> HIDE DEF g, T
<1>6. \A i \in DOMAIN out'[app[t]] :
        \/ i \in DOMAIN out[app[t]] /\ out'[app[t]][i] = out[app[t]][i]
        \/ out'[app[t]][i] = g
  BY <1>1, <1>3, <1>5
<1> QED BY <1>1, <1>2, <1>4, <1>6 DEF g

\* No other thread's event is begun or written by a step of t.
LEMMA SeenOther ==
  ASSUME LockInv, NEW t \in Threads, ClientCall(t) \/ Run(t),
         NEW u \in Threads \ {t}, ~ Seen(u)
  PROVE  ~ Seen(u)'
<1>1. EventOf(u)' = EventOf(u) /\ EventOf(u) # EventOf(t)
  BY CallKind, RunKinds DEF EventOf, LockInv, TypeOK, ThreadsOK
<1>2. CASE AppenderWrite(t)
  BY <1>1, <1>2, WriteAdds DEF Seen
<1>3. CASE out' = out
  BY <1>1, <1>3 DEF Seen
<1> QED
  BY <1>2, <1>3, CallKind, RunKinds DEF Quiet, LogLock, LogEach,
    AppenderLock, LogForward, LogDone, AddPush, DelClear

LEMMA ServeOther ==
  ASSUME LockInv, ServeInv, NEW t \in Threads, ClientCall(t) \/ Run(t),
         NEW u \in Threads \ {t}
  PROVE  ServeOK(u)'
<1>1. /\ pc'[u] = pc[u] /\ self'[u] = self[u] /\ idx'[u] = idx[u]
      /\ app'[u] = app[u]
  BY OnlyOneMoves DEF LockInv
<1>2. calls'[u] = calls[u]
  BY CallKind, RunKinds DEF LockInv, TypeOK, ThreadsOK
<1>3. ~ Seen(u) => ~ Seen(u)'
  BY SeenOther
<1>4. pc[u] \in Looping => List(u)' = List(u)
  <2> SUFFICES ASSUME pc[u] \in Looping PROVE List(u)' = List(u)
    OBVIOUS
  <2>1. appenders'[self[u]] = appenders[self[u]]
    BY LoopListStable DEF Looping, InLog, Next
  <2> QED BY <1>1, <2>1 DEF List
<1>5. ServeOK(u)
  BY DEF ServeInv
<1>6. (pc'[u] \in Looping) = (pc[u] \in Looping)
  BY <1>1
<1>7. pc[u] \in Looping => Current(u)' = Current(u)
  BY <1>1, <1>4 DEF Current
<1> QED BY <1>1, <1>2, <1>3, <1>4, <1>5, <1>6, <1>7 DEF ServeOK, Looping

\* A new call is of an event nobody has seen.
LEMMA CallUnseen ==
  ASSUME LockInv, NoFuture, NEW t \in Threads, ClientCall(t)
  PROVE  ~ Seen(t)'
<1>1. /\ calls'[t] = calls[t] + 1 /\ calls[t] \in Nat
      /\ out' = out
  BY CallKind DEF Quiet, LockInv, TypeOK, ThreadsOK
<1>2. EventOf(t)'[1] = t /\ EventOf(t)'[2] = calls[t] + 1
  BY <1>1 DEF EventOf
<1>3. \A a \in Appenders : \A i \in DOMAIN out[a] :
        out[a][i].ev[1] = t => out[a][i].ev[2] <= calls[t]
  BY DEF NoFuture
<1> QED BY <1>1, <1>2, <1>3 DEF Seen

LEMMA ServeMover ==
  ASSUME LockInv, ServeInv, NEW t \in Threads, ClientCall(t) \/ Run(t)
  PROVE  ServeOK(t)'
<1>1. /\ calls \in [Threads -> Nat] /\ pc \in [Threads -> Labels]
      /\ idx \in [Threads -> Nat \ {0}] /\ self \in [Threads -> Loggers]
      /\ appenders \in [Loggers -> Seq(Appenders)]
  BY DEF LockInv, TypeOK, ObjectsOK, ThreadsOK, LocalsOK
<1>2. ServeOK(t) /\ MaxCalls \in Nat
  BY LoggerAssumption DEF ServeInv
<1>3. CASE ClientCall(t)
  <2>1. /\ calls'[t] <= MaxCalls
        /\ pc'[t] \notin Looping
        /\ pc'[t] = "log_lock" => idx'[t] = 1
    BY <1>1, <1>2, <1>3, CallKind DEF Quiet
  <2>2. ~ Seen(t)'
    BY <1>3, CallUnseen DEF ServeInv
  <2> QED BY <2>1, <2>2 DEF ServeOK, Looping
<1>4. CASE Run(t)
  <2> USE <1>1, <1>2 DEF ServeOK, Goto, Step, Looping
  <2>1. calls' = calls /\ EventOf(t)' = EventOf(t)
    BY <1>4, RunKinds DEF EventOf
  <2>2. out' = out => Seen(t)' = Seen(t)
    BY <2>1 DEF Seen
  <2>3. CASE Quiet(t) /\ pc'[t] # "log_lock"
    BY <2>1, <2>3 DEF Quiet
  <2>4. CASE LogLock(t)
    BY <2>1, <2>2, <2>4 DEF LogLock, locals, loggerVars, List
  <2>5. CASE LogEach(t)
    <3>1. List(t)' = List(t) /\ List(t) \in Seq(Appenders)
      BY <2>5 DEF LogEach, loggerVars, List, Advance
    <3>2. List(t) # << >> /\ idx[t] <= Len(List(t))
      BY <2>5, <3>1 DEF LogEach, Exhausted
    <3>3. pc'[t] = "app_lock" => app'[t] = Current(t)'
      BY <2>5, <3>1, CurrentType DEF LogEach, Current, LockInv, TypeOK,
        LocalsOK, Advance
    <3>4. pc'[t] \in {"app_lock", "log_walk"}
      BY <2>5 DEF LogEach
    <3>5. idx'[t] <= Len(List(t)) + 1
      BY <2>5, <3>1, <3>2 DEF LogEach, Advance
    <3> QED BY <2>1, <3>1, <3>2, <3>3, <3>4, <3>5
  <2>6. CASE AppenderLock(t)
    <3>1. List(t)' = List(t)
      BY <2>6 DEF AppenderLock, loggerVars, List, locals
    <3>2. app' = app /\ Current(t)' = Current(t)
      BY <2>6, <3>1 DEF AppenderLock, locals, Current
    <3> QED BY <2>1, <2>6, <3>1, <3>2 DEF AppenderLock, locals
  <2>7. CASE AppenderWrite(t)
    <3>1. List(t)' = List(t) /\ List(t) \in Seq(Appenders)
      BY <2>7 DEF AppenderWrite, loggerVars, List, Advance
    <3>2. ~ Exhausted(t)
      BY <2>7 DEF AppenderWrite, LockInv, CallsOK, CallOK
    <3>3. List(t) # << >> /\ idx[t] <= Len(List(t))
      BY <3>1, <3>2 DEF Exhausted
    <3>4. idx'[t] = idx[t] + 1 /\ pc'[t] = "log_walk"
      BY <2>7 DEF AppenderWrite, Advance
    <3> QED BY <2>1, <3>1, <3>3, <3>4
  <2>8. CASE LogForward(t)
    <3>1. List(t) = << >>
      BY <2>8 DEF LogForward, Forwards
    <3>2. idx[t] = 1 /\ ~ Seen(t)
      BY <2>8, <3>1 DEF LogForward
    <3>3. idx' = idx /\ out' = out /\ pc'[t] \in {"log_lock", "log_return"}
      BY <2>8 DEF LogForward, RunOn, locals
    <3> QED BY <2>1, <2>2, <3>2, <3>3
  <2>9. CASE LogDone(t)
    BY <2>1, <2>9 DEF LogDone
  <2>10. CASE AddPush(t)
    BY <2>1, <2>10 DEF AddPush, Return
  <2>11. CASE DelClear(t)
    BY <2>1, <2>11 DEF DelClear, Return
  <2> QED BY <1>4, <2>3, <2>4, <2>5, <2>6, <2>7, <2>8, <2>9, <2>10, <2>11,
             RunKinds
<1> QED BY <1>3, <1>4

LEMMA PastStep ==
  ASSUME LockInv, NoFuture, NEW t \in Threads, ClientCall(t) \/ Run(t)
  PROVE  NoFuture'
<1>1. calls \in [Threads -> Nat]
  BY DEF LockInv, TypeOK, ThreadsOK
<1>2. calls' = calls \/ calls' = [calls EXCEPT ![t] = @ + 1]
  BY CallKind, RunKinds
<1>3. \A u \in Threads : /\ calls[u] \in Nat /\ calls'[u] \in Nat
                         /\ calls'[u] >= calls[u]
  BY <1>1, <1>2
<1>7. \A a \in Appenders : \A i \in DOMAIN out[a] :
        out[a][i].ev[1] \in Threads /\ out[a][i].ev[2] \in Nat
  <2> DEFINE T == [ev: Threads \X Nat, by: Loggers]
  <2> TAKE a \in Appenders
  <2>1. out[a] \in Seq(T)
    BY DEF LockInv, TypeOK, ThreadsOK
  <2> TAKE i \in DOMAIN out[a]
  <2>2. out[a][i] \in T
    <3> HIDE DEF T
    <3> QED BY <2>1
  <2> QED BY <2>2
<1>4. \A a \in Appenders : \A i \in DOMAIN out[a] :
        out[a][i].ev[2] <= calls'[out[a][i].ev[1]]
  BY <1>3, <1>7 DEF NoFuture
<1>5. CASE out' = out
  BY <1>4, <1>5 DEF NoFuture
<1>6. CASE AppenderWrite(t)
  <2>1. calls' = calls
    BY <1>6 DEF AppenderWrite
  <2>2. EventOf(t)[1] = t /\ EventOf(t)[2] = calls[t]
    BY DEF EventOf
  <2>3. EventOf(t)[2] <= calls'[EventOf(t)[1]]
    BY <1>3, <2>1, <2>2
  <2> QED BY <1>4, <1>6, <2>3, WriteAdds DEF NoFuture
<1> QED
  BY <1>5, <1>6, CallKind, RunKinds DEF Quiet, LogLock, LogEach,
    AppenderLock, LogForward, LogDone, AddPush, DelClear

LEMMA ServeStep == LockInv /\ ServeInv /\ [Next]_vars => ServeInv'
<1> SUFFICES ASSUME LockInv, ServeInv, [Next]_vars PROVE ServeInv'
  OBVIOUS
<1>1. ASSUME NEW t \in Threads, ClientCall(t) \/ Run(t) PROVE ServeInv'
  BY <1>1, ServeOther, ServeMover, PastStep DEF ServeInv
<1>2. CASE UNCHANGED vars
  BY <1>2 DEF vars, locals, loggerVars, ServeInv, NoFuture, ServeOK, Seen,
    EventOf, List, Current
<1> QED BY <1>1, <1>2 DEF Next, Finished

-----------------------------------------------------------------------------
(* Every step of the threads is a step of the serial servers, or none.      *)

Serial == INSTANCE LogServiceProofs WITH
  Events <- Threads \X (0..MaxCalls),
  targets <- appenders, handling <- Handling, pos <- Position

LEMMA EventType ==
  ASSUME LockInv, ServeInv, NEW t \in Threads
  PROVE  EventOf(t) \in Threads \X (0..MaxCalls)
<1>1. calls[t] \in Nat /\ calls[t] <= MaxCalls
  BY DEF LockInv, TypeOK, ThreadsOK, ServeInv, ServeOK
<1>2. MaxCalls \in Nat
  BY LoggerAssumption
<1> QED BY <1>1, <1>2 DEF EventOf

\* What a step that enters, stays in or leaves the loop of log on logger l
\* does to the two functions: all other loggers keep theirs.
LEMMA HandlingUpdate ==
  ASSUME LockInv, LockInv', NEW t \in Threads, ClientCall(t) \/ Run(t),
         pc[t] \in Looping => self'[t] = self[t] \/ pc'[t] \notin Looping,
         pc[t] \in Looping \/ (pc'[t] \in Looping /\ self'[t] = self[t])
  PROVE  /\ Handling' = [Handling EXCEPT ![self[t]] = Handling'[self[t]]]
         /\ Position' = [Position EXCEPT ![self[t]] = Position'[self[t]]]
<1>1. \A l \in Loggers : l # self[t] =>
        Handling'[l] = Handling[l] /\ Position'[l] = Position[l]
  BY HandlingFrame
<1>2. /\ DOMAIN Handling = Loggers /\ DOMAIN Handling' = Loggers
      /\ DOMAIN Position = Loggers /\ DOMAIN Position' = Loggers
  BY DEF Handling, Position
<1>3. /\ Handling = [l \in Loggers |-> Handling[l]]
      /\ Handling' = [l \in Loggers |-> Handling'[l]]
      /\ Position = [l \in Loggers |-> Position[l]]
      /\ Position' = [l \in Loggers |-> Position'[l]]
  BY DEF Handling, Position
<1> QED BY <1>1, <1>2, <1>3

LEMMA HandlingSame ==
  ASSUME LockInv, LockInv', NEW t \in Threads, ClientCall(t) \/ Run(t),
         \/ pc[t] \notin Looping /\ pc'[t] \notin Looping
         \/ /\ pc[t] \in Looping /\ pc'[t] \in Looping
            /\ self'[t] = self[t] /\ idx'[t] = idx[t] /\ calls' = calls
  PROVE  Handling' = Handling /\ Position' = Position
<1>1. \A l \in Loggers :
        Handling'[l] = Handling[l] /\ Position'[l] = Position[l]
  <2> SUFFICES ASSUME NEW l \in Loggers
               PROVE  Handling'[l] = Handling[l] /\ Position'[l] = Position[l]
    OBVIOUS
  <2>1. CASE self[t] = l /\ pc[t] \in Looping
    <3>1. EventOf(t)' = EventOf(t)
      BY <2>1 DEF EventOf
    <3>2. Handling[l] = {EventOf(t)} /\ Position[l] = idx[t]
      BY <2>1, HandlingBy
    <3>3. Handling'[l] = {EventOf(t)'} /\ Position'[l] = idx'[t]
      BY <2>1, ReadsNext DEF Reads, Looping
    <3> QED BY <2>1, <3>1, <3>2, <3>3
  <2>2. CASE ~ (self[t] = l /\ pc[t] \in Looping)
    BY <2>2, HandlingFrame
  <2> QED BY <2>1, <2>2
<1>2. /\ Handling = [l \in Loggers |-> Handling[l]]
      /\ Handling' = [l \in Loggers |-> Handling'[l]]
      /\ Position = [l \in Loggers |-> Position[l]]
      /\ Position' = [l \in Loggers |-> Position'[l]]
  BY DEF Handling, Position
<1> QED BY <1>1, <1>2

LEMMA MapBegin ==
  ASSUME LockInv, LockInv', ServeInv, NEW t \in Threads, LogLock(t)
  PROVE  Serial!Begin(self[t], EventOf(t))
<1>1. /\ pc[t] = "log_lock" /\ pc'[t] = "log_walk" /\ self' = self
      /\ idx' = idx /\ calls' = calls /\ UNCHANGED <<appenders, out>>
      /\ owner[self[t]] = NULL /\ self[t] \in Loggers
  BY DEF LogLock, Step, Goto, locals, loggerVars, Acquire, LockInv, TypeOK,
    ThreadsOK, LocalsOK
<1>2. idx[t] = 1 /\ ~ Seen(t)
  BY <1>1 DEF ServeInv, ServeOK
<1>3. Handling[self[t]] = {} /\ Position[self[t]] = 1
  BY <1>1 DEF Handling, Position, Serves
<1>4. Handling'[self[t]] = {EventOf(t)} /\ Position'[self[t]] = 1
  <2>1. /\ Handling'[self'[t]] = {EventOf(t)'}
        /\ Position'[self'[t]] = idx'[t]
    BY <1>1, ReadsNext DEF Reads, Looping
  <2> QED BY <1>1, <1>2, <2>1 DEF EventOf
<1>5. /\ Handling' = [Handling EXCEPT ![self[t]] = {EventOf(t)}]
      /\ Position' = [Position EXCEPT ![self[t]] = 1]
  <2>1. pc[t] \notin Looping /\ pc'[t] \in Looping /\ self'[t] = self[t]
    BY <1>1 DEF Looping
  <2> QED BY <1>4, <2>1, HandlingUpdate DEF Run
<1>6. ~ Serial!Written(self[t], EventOf(t))
  BY <1>2 DEF Serial!Written, Serial!Entry, Seen
<1> QED BY <1>1, <1>3, <1>5, <1>6 DEF Serial!Begin

LEMMA MapOffer ==
  ASSUME LockInv, LockInv', ServeInv, NEW t \in Threads,
         (LogEach(t) /\ pc'[t] = "log_walk") \/ AppenderWrite(t)
  PROVE  Serial!Offer(self[t], EventOf(t))
<1>1. /\ pc[t] \in Looping /\ pc'[t] \in Looping /\ self' = self
      /\ calls' = calls /\ appenders' = appenders /\ idx'[t] = idx[t] + 1
      /\ self[t] \in Loggers /\ ~ Exhausted(t)
  BY DEF LogEach, AppenderWrite, Step, Goto, loggerVars, LockInv, TypeOK,
    ThreadsOK, LocalsOK, Advance, Looping, CallsOK, CallOK
<1>2. Handling[self[t]] = {EventOf(t)} /\ Position[self[t]] = idx[t]
  BY <1>1, HandlingBy
<1>3. Handling'[self[t]] = {EventOf(t)} /\ Position'[self[t]] = idx[t] + 1
  <2>1. /\ Handling'[self'[t]] = {EventOf(t)'}
        /\ Position'[self'[t]] = idx'[t]
    BY <1>1, ReadsNext DEF Reads, Looping
  <2> QED BY <1>1, <2>1 DEF EventOf
<1>4. /\ Handling' = [Handling EXCEPT ![self[t]] = {EventOf(t)}]
      /\ Position' = [Position EXCEPT ![self[t]] = idx[t] + 1]
  <2>1. pc[t] \in Looping /\ self'[t] = self[t]
    BY <1>1
  <2> QED BY <1>3, <2>1, HandlingUpdate DEF Run
<1>5. Handling' = Handling
  BY <1>2, <1>4 DEF Handling
<1>6. /\ idx[t] \in DOMAIN appenders[self[t]]
      /\ Current(t) = appenders[self[t]][idx[t]]
  BY <1>1, CurrentType DEF List, Current, LockInv
<1>7. \/ out' = out
      \/ out' = [out EXCEPT ![Current(t)] =
                   Append(@, Serial!Entry(self[t], EventOf(t)))]
  <2>1. AppenderWrite(t) => app[t] = Current(t)
    BY DEF ServeInv, ServeOK, AppenderWrite, Step
  <2> QED BY <2>1, WriteAdds DEF LogEach, Serial!Entry
<1> QED BY <1>1, <1>2, <1>4, <1>5, <1>6, <1>7 DEF Serial!Offer

LEMMA MapEnd ==
  ASSUME LockInv, LockInv', NEW t \in Threads, LogForward(t) \/ LogDone(t)
  PROVE  Serial!End(self[t])
<1>1. /\ pc[t] = "log_walk" /\ pc'[t] \in {"log_lock", "log_return"}
      /\ UNCHANGED <<appenders, out>>
      /\ self[t] \in Loggers /\ List(t) \in Seq(Appenders)
      /\ idx[t] \in Nat \ {0}
  BY DEF LogForward, LogDone, Step, Goto, loggerVars, LockInv, TypeOK,
    ThreadsOK, LocalsOK, ObjectsOK, List
<1>2. Handling[self[t]] = {EventOf(t)} /\ Position[self[t]] = idx[t]
  BY <1>1, HandlingBy DEF Looping
<1>3. idx[t] \notin DOMAIN appenders[self[t]]
  <2>1. idx[t] > Len(List(t))
    BY <1>1 DEF LogForward, LogDone, Forwards, Exhausted
  <2> QED BY <1>1, <2>1 DEF List
<1>4. \A u \in Threads : ~ (self'[u] = self[t] /\ pc'[u] \in Looping)
  <2>1. \A u \in Threads \ {t} : pc'[u] = pc[u] /\ self'[u] = self[u]
    BY OnlyOneMoves DEF Run, LockInv
  <2>2. \A u \in Threads : self[u] = self[t] /\ pc[u] \in Looping => u = t
    BY <1>1, LoopOwns DEF Looping
  <2> QED BY <1>1, <2>1, <2>2 DEF Looping
<1>5. Handling'[self[t]] = {} /\ Position'[self[t]] = 1
  BY <1>1, <1>4, ReadsNext DEF Reads, Looping
<1>6. /\ Handling' = [Handling EXCEPT ![self[t]] = {}]
      /\ Position' = [Position EXCEPT ![self[t]] = 1]
  <2>1. pc[t] \in Looping /\ pc'[t] \notin Looping
    BY <1>1 DEF Looping
  <2> QED BY <1>5, <2>1, HandlingUpdate DEF Run
<1> QED BY <1>1, <1>2, <1>3, <1>6 DEF Serial!End

LEMMA MapChange ==
  ASSUME LockInv, LockInv', NEW t \in Threads
  PROVE  /\ AddPush(t) => Serial!Attach(self[t], app[t])
         /\ DelClear(t) => Serial!Clear(self[t])
<1> SUFFICES ASSUME AddPush(t) \/ DelClear(t)
             PROVE  /\ AddPush(t) => Serial!Attach(self[t], app[t])
                    /\ DelClear(t) => Serial!Clear(self[t])
  OBVIOUS
<1>1. /\ pc[t] \in {"add_push", "del_clear"} /\ pc'[t] = "idle"
      /\ out' = out /\ self[t] \in Loggers /\ self[t] \in Mutexes
  BY DEF AddPush, DelClear, Return, Goto, LockInv, TypeOK, ThreadsOK,
    LocalsOK, Mutexes
<1>2. Handling[self[t]] = {}
  BY <1>1, HandlingElse DEF Holds, Looping
<1>3. Handling' = Handling /\ Position' = Position
  BY <1>1, HandlingSame DEF Looping, Run
<1> QED BY <1>1, <1>2, <1>3
        DEF AddPush, DelClear, Serial!Attach, Serial!Clear

LEMMA MapStep ==
  LockInv /\ LockInv' /\ ServeInv /\ [Next]_vars
    => [Serial!ServiceNext]_Serial!serviceVars
<1> SUFFICES ASSUME LockInv, LockInv', ServeInv, [Next]_vars
             PROVE  \/ Serial!ServiceNext
                    \/ UNCHANGED <<appenders, Handling, Position, out>>
  BY DEF Serial!serviceVars
<1>1. ASSUME NEW t \in Threads, ClientCall(t) \/ Run(t)
      PROVE  \/ Serial!ServiceNext
             \/ UNCHANGED <<appenders, Handling, Position, out>>
  <2>1. /\ self[t] \in Loggers /\ app[t] \in Appenders
        /\ EventOf(t) \in Threads \X (0..MaxCalls)
    BY EventType DEF LockInv, TypeOK, LocalsOK
  <2>2. CASE Quiet(t)
    <3>1. Handling' = Handling /\ Position' = Position
      BY <1>1, <2>2, HandlingSame DEF Quiet
    <3> QED BY <2>2, <3>1 DEF Quiet
  <2>3. CASE LogLock(t)
    BY <2>1, <2>3, MapBegin DEF Serial!ServiceNext
  <2>4. CASE (LogEach(t) /\ pc'[t] = "log_walk") \/ AppenderWrite(t)
    BY <2>1, <2>4, MapOffer DEF Serial!ServiceNext
  <2>5. CASE (LogEach(t) /\ pc'[t] # "log_walk") \/ AppenderLock(t)
    <3>1. /\ pc[t] \in Looping /\ pc'[t] \in Looping
          /\ self'[t] = self[t] /\ idx'[t] = idx[t] /\ calls' = calls
          /\ UNCHANGED <<appenders, out>>
      BY <2>5 DEF LogEach, AppenderLock, Step, Goto, locals, loggerVars,
        Looping, LockInv, TypeOK, ThreadsOK
    <3>2. Handling' = Handling /\ Position' = Position
      BY <1>1, <3>1, HandlingSame
    <3> QED BY <3>1, <3>2
  <2>6. CASE LogForward(t) \/ LogDone(t)
    BY <2>1, <2>6, MapEnd DEF Serial!ServiceNext
  <2>7. CASE AddPush(t) \/ DelClear(t)
    BY <2>1, <2>7, MapChange DEF Serial!ServiceNext
  <2> QED BY <1>1, <2>2, <2>3, <2>4, <2>5, <2>6, <2>7, CallKind, RunKinds
<1>2. CASE UNCHANGED vars
  BY <1>2 DEF vars, locals, loggerVars, Handling, Position, Serves, EventOf
<1> QED BY <1>1, <1>2 DEF Next, Finished

LEMMA MapInit == Init => Serial!ServiceInit
<1> SUFFICES ASSUME Init PROVE Serial!ServiceInit
  OBVIOUS
<1>1. appenders \in [Loggers -> Seq(Appenders)]
  BY InitType DEF TypeOK, ObjectsOK
<1>2. \A l \in Loggers : ~ Serves(l)
  <2>1. \A l \in Loggers : l \in Mutexes
    BY DEF Mutexes
  <2> QED BY <2>1 DEF Init, Serves
<1>3. /\ Handling = [l \in Loggers |-> {}]
      /\ Position = [l \in Loggers |-> 1]
  BY <1>2 DEF Handling, Position
<1>4. out = [a \in Appenders |-> << >>]
  BY DEF Init
<1> QED BY <1>1, <1>3, <1>4 DEF Serial!ServiceInit

LEMMA SerialSteps == Spec => Serial!Spec
BY MapInit, MapStep, ServeStart, ServeStep, LockInvariant, PTL
DEF Spec, Serial!Spec

\* The logger core, with any number of threads, loggers, appenders and calls,
\* implements one serial server per logger.
THEOREM ImplementsService == Spec => SerialService
<1>1. /\ Serial!ServiceInit => Service!ServiceInit
      /\ [Serial!ServiceNext]_Serial!serviceVars
           => [Service!ServiceNext]_Service!serviceVars
  BY DEF Service!ServiceInit, Serial!ServiceInit,
    Service!serviceVars, Serial!serviceVars,
    Service!ServiceNext, Serial!ServiceNext, Service!Begin, Serial!Begin,
    Service!Offer, Serial!Offer, Service!End, Serial!End,
    Service!Attach, Serial!Attach, Service!Clear, Serial!Clear,
    Service!Written, Serial!Written, Service!Entry, Serial!Entry
<1> QED BY <1>1, SerialSteps, PTL DEF SerialService, Service!Spec, Serial!Spec

\* So two appenders of one logger never disagree on the order of its events.
THEOREM OneOrder == Spec => []SameOrder
<1>1. Serial!ServiceOrder => SameOrder
  BY DEF Serial!ServiceOrder, SameOrder
<1> QED BY <1>1, SerialSteps, Serial!ServiceOrdered, PTL

-----------------------------------------------------------------------------
(* No event is lost or doubled on its way through a list.                  *)

\* Where a target's output has event e, and where a list before place n has
\* target a.
At(s, e) == {i \in DOMAIN s : s[i].ev = e}
Entries(s, a, n) == {i \in DOMAIN s : i < n /\ s[i] = a}

Highest(t) == \A v \in LogLevels \cup {DEBUG} : lvl[t] >= v
Counts(t, a, n) ==
  LET written == Cardinality(At(out[a], EventOf(t)))
      entries == Cardinality(Entries(List(t), a, n))
  IN  written <= entries /\ (Highest(t) => written = entries)

\* In the loop every target has the event as often as the entries already
\* passed say; a logger that has forwarded one is empty until its call is over.
CountOK(t) ==
  /\ pc[t] \in Looping => \A a \in Appenders : Counts(t, a, idx[t])
  /\ pc[t] = "log_return" /\ ~Forwards(t) =>
       \A a \in Appenders : Counts(t, a, Len(List(t)) + 1)
  /\ pc[t] \in InLog \cup {"log_lock"} /\ self[t] # from[t] =>
       appenders[from[t]] = << >>
CountInv ==
  /\ \A a \in Appenders : alevel[a] \in LogLevels \cup {DEBUG}
  /\ \A t \in Threads : CountOK(t)

LEMMA CountsFinite ==
  ASSUME NEW T, NEW s \in Seq(T)
  PROVE  /\ \A e : IsFiniteSet(At(s, e)) /\ Cardinality(At(s, e)) \in Nat
         /\ \A a, n : /\ IsFiniteSet(Entries(s, a, n))
                      /\ Cardinality(Entries(s, a, n)) \in Nat
<1>1. DOMAIN s = 1..Len(s) /\ Len(s) \in Nat
  OBVIOUS
<1>2. IsFiniteSet(DOMAIN s)
  BY <1>1, FS_Interval
<1>3. \A S \in SUBSET DOMAIN s : IsFiniteSet(S) /\ Cardinality(S) \in Nat
  BY <1>2, FS_Subset, FS_CardinalityType
<1> QED BY <1>3 DEF At, Entries

\* One more entry in a target's output.
LEMMA AtAppend ==
  ASSUME NEW T, NEW s \in Seq(T), NEW g \in T, NEW e
  PROVE  Cardinality(At(Append(s, g), e)) =
           IF g.ev = e THEN Cardinality(At(s, e)) + 1 ELSE Cardinality(At(s, e))
<1> DEFINE r == Append(s, g)
<1>1. /\ DOMAIN r = DOMAIN s \cup {Len(s) + 1} /\ Len(s) + 1 \notin DOMAIN s
      /\ \A i \in DOMAIN s : r[i] = s[i]
      /\ r[Len(s) + 1] = g
  OBVIOUS
<1> HIDE DEF r
<1>2. CASE g.ev = e
  <2>1. At(r, e) = At(s, e) \cup {Len(s) + 1} /\ Len(s) + 1 \notin At(s, e)
    BY <1>1, <1>2 DEF At
  <2>2. IsFiniteSet(At(s, e))
    BY CountsFinite
  <2>3. Cardinality(At(r, e)) = Cardinality(At(s, e)) + 1
    BY <2>1, <2>2, FS_AddElement
  <2> QED BY <1>2, <2>3 DEF r
<1>3. CASE g.ev # e
  <2>1. At(r, e) = At(s, e)
    BY <1>1, <1>3 DEF At
  <2> QED BY <1>3, <2>1 DEF r
<1> QED BY <1>2, <1>3

\* One more place of a list.
LEMMA EntriesNext ==
  ASSUME NEW T, NEW s \in Seq(T), NEW a, NEW n \in DOMAIN s
  PROVE  Cardinality(Entries(s, a, n + 1)) =
           IF s[n] = a THEN Cardinality(Entries(s, a, n)) + 1
                       ELSE Cardinality(Entries(s, a, n))
<1>1. DOMAIN s \subseteq Nat /\ n \in Nat
  OBVIOUS
<1>2. \A i \in DOMAIN s : i < n + 1 <=> i < n \/ i = n
  BY <1>1
<1>3. n \notin Entries(s, a, n)
  BY <1>1 DEF Entries
<1>4. CASE s[n] = a
  <2>1. Entries(s, a, n + 1) = Entries(s, a, n) \cup {n}
    BY <1>2, <1>4 DEF Entries
  <2>2. IsFiniteSet(Entries(s, a, n))
    BY CountsFinite
  <2> QED BY <1>3, <1>4, <2>1, <2>2, FS_AddElement
<1>5. CASE s[n] # a
  <2>1. Entries(s, a, n + 1) = Entries(s, a, n)
    BY <1>2, <1>5 DEF Entries
  <2> QED BY <1>5, <2>1
<1> QED BY <1>4, <1>5

LEMMA EntriesEnds ==
  ASSUME NEW T, NEW s \in Seq(T), NEW a
  PROVE  /\ Cardinality(Entries(s, a, 1)) = 0
         /\ Entries(s, a, Len(s) + 1) = {i \in DOMAIN s : s[i] = a}
<1>1. /\ Len(s) \in Nat
      /\ \A i \in DOMAIN s : i \in Nat /\ ~ (i < 1) /\ i < Len(s) + 1
  OBVIOUS
<1>2. Entries(s, a, 1) = {}
  BY <1>1 DEF Entries
<1> QED BY <1>1, <1>2, FS_EmptySet DEF Entries

\* What a thread finds of its event: in the outputs and in its list.
LEMMA CountTypes ==
  ASSUME LockInv, NEW t \in Threads, NEW a \in Appenders, NEW n
  PROVE  /\ Cardinality(At(out[a], EventOf(t))) \in Nat
         /\ Cardinality(Entries(List(t), a, n)) \in Nat
         /\ List(t) \in Seq(Appenders)
<1>1. out[a] \in Seq([ev: Threads \X Nat, by: Loggers])
  BY DEF LockInv, TypeOK, ThreadsOK
<1>2. List(t) \in Seq(Appenders)
  BY DEF LockInv, TypeOK, ObjectsOK, LocalsOK, List
<1> QED BY <1>1, <1>2, CountsFinite

LEMMA NotSeen ==
  ASSUME LockInv, NEW t \in Threads, ~ Seen(t), NEW a \in Appenders
  PROVE  Cardinality(At(out[a], EventOf(t))) = 0
<1>1. At(out[a], EventOf(t)) = {}
  BY DEF At, Seen
<1> QED BY <1>1, FS_EmptySet

\* AppenderWrite adds to the count of its event at its target, and to no other.
LEMMA WriteCounts ==
  ASSUME LockInv, NEW t \in Threads, AppenderWrite(t),
         NEW a \in Appenders, NEW e
  PROVE  Cardinality(At(out'[a], e)) =
           IF a = app[t] /\ e = EventOf(t)
           THEN Cardinality(At(out[a], e)) + 1
           ELSE Cardinality(At(out[a], e))
<1> DEFINE g == [ev |-> EventOf(t), by |-> self[t]]
           T == [ev: Threads \X Nat, by: Loggers]
<1>1. app[t] \in Appenders /\ g \in T /\ g.ev = EventOf(t)
  BY DEF LockInv, TypeOK, LocalsOK, ThreadsOK, EventOf
<1>2. out' = [out EXCEPT ![app[t]] = Append(@, g)]
  BY DEF AppenderWrite
<1>3. out \in [Appenders -> Seq(T)]
  BY DEF LockInv, TypeOK, ThreadsOK
<1> HIDE DEF g, T
<1>4. a # app[t] => out'[a] = out[a]
  BY <1>2, <1>3
<1>5. a = app[t] => out'[a] = Append(out[a], g)
  BY <1>1, <1>2, <1>3
<1>6. Cardinality(At(Append(out[a], g), e)) =
        IF g.ev = e THEN Cardinality(At(out[a], e)) + 1
                    ELSE Cardinality(At(out[a], e))
  BY <1>1, <1>3, AtAppend
<1> QED BY <1>1, <1>4, <1>5, <1>6

LEMMA WriteOnly ==
  ASSUME LockInv, NEW t \in Threads, ClientCall(t) \/ Run(t)
  PROVE  out' = out \/ AppenderWrite(t)
BY CallKind, RunKinds DEF Quiet, LogLock, LogEach, AppenderLock,
  LogForward, LogDone, AddPush, DelClear

\* A thread that has forwarded an event holds the logger it called as well.
LEMMA FromHeld ==
  ASSUME LockInv, NEW t \in Threads, pc[t] \in InLog \cup {"log_lock"},
         self[t] # from[t]
  PROVE  from[t] \in Loggers /\ owner[from[t]] = t
<1>1. from[t] \in Loggers /\ from[t] \in Mutexes
  BY DEF LockInv, TypeOK, LocalsOK, Mutexes
<1>2. from[t] \in Holds(t)
  BY <1>1 DEF Holds
<1> QED BY <1>1, <1>2 DEF LockInv, OwnershipMatchesCalls

LEMMA CountOther ==
  ASSUME LockInv, NEW t \in Threads, ClientCall(t) \/ Run(t),
         NEW u \in Threads \ {t}, CountOK(u)
  PROVE  CountOK(u)'
<1>1. /\ pc'[u] = pc[u] /\ self'[u] = self[u] /\ from'[u] = from[u]
      /\ idx'[u] = idx[u] /\ lvl'[u] = lvl[u]
  BY OnlyOneMoves DEF LockInv
<1>2. EventOf(u)' = EventOf(u) /\ EventOf(u) # EventOf(t)
  BY CallKind, RunKinds DEF EventOf, LockInv, TypeOK, ThreadsOK
<1>3. \A a \in Appenders : Cardinality(At(out[a], EventOf(u)))' =
                           Cardinality(At(out[a], EventOf(u)))
  BY <1>2, WriteOnly, WriteCounts
<1>4. pc[u] \in InLog => List(u)' = List(u)
  <2>1. pc[u] \in InLog => appenders'[self[u]] = appenders[self[u]]
    BY LoopListStable DEF Next
  <2> QED BY <1>1, <2>1 DEF List
<1>5. pc[u] \in InLog => \A a \in Appenders, n \in Nat :
                           Counts(u, a, n) => Counts(u, a, n)'
  BY <1>1, <1>3, <1>4 DEF Counts, Highest
<1>6. idx[u] \in Nat /\ (pc[u] \in InLog => Len(List(u)) + 1 \in Nat)
  BY CountTypes DEF LockInv, TypeOK, LocalsOK, ObjectsOK, List
<1>7. pc[u] \in Looping => \A a \in Appenders : Counts(u, a, idx[u])'
  BY <1>1, <1>5, <1>6 DEF CountOK, Looping, InLog
<1>8. pc[u] = "log_return" /\ ~Forwards(u)' =>
        \A a \in Appenders : Counts(u, a, Len(List(u)) + 1)'
  BY <1>1, <1>4, <1>5, <1>6 DEF CountOK, InLog, Forwards
<1>9. pc[u] \in InLog \cup {"log_lock"} /\ self[u] # from[u] =>
        appenders'[from[u]] = << >>
  <2> SUFFICES ASSUME pc[u] \in InLog \cup {"log_lock"}, self[u] # from[u],
                      appenders'[from[u]] # appenders[from[u]]
               PROVE  FALSE
    BY DEF CountOK
  <2>1. from[u] \in Loggers /\ owner[from[u]] = u
    BY FromHeld
  <2>2. pc[t] \in {"add_push", "del_clear"} /\ from[u] = self[t]
    BY <2>1, ListChange DEF LockInv
  <2>3. self[t] \in Holds(t)
    BY <2>1, <2>2 DEF Holds, Mutexes
  <2>4. owner[self[t]] = t
    BY <2>1, <2>2, <2>3 DEF LockInv, OwnershipMatchesCalls, Mutexes
  <2> QED BY <2>1, <2>2, <2>4
<1> QED BY <1>1, <1>4, <1>7, <1>8, <1>9 DEF CountOK, Looping

\* The loop is left for log_return by these steps only.
LEMMA ToReturn ==
  ASSUME LockInv, NEW t \in Threads, ClientCall(t) \/ Run(t),
         pc'[t] = "log_return"
  PROVE  LogForward(t) \/ LogDone(t) \/ LogReturn(t)
<1> USE DEF Goto, Step, Return, LockInv, TypeOK, ThreadsOK
<1>1. CASE ClientCall(t)
  BY <1>1 DEF ClientCall, LogCall, SetFormatterCall, AddCall, DelCall, Call,
    OwnFormatterCall, SetLevel, SetAppenderLevel, GetCall, YamlCall
<1>2. CASE LogLock(t) \/ LogEach(t) \/ AppenderLock(t) \/ AppenderWrite(t)
           \/ AddPush(t) \/ DelClear(t)
  BY <1>2 DEF LogLock, LogEach, AppenderLock, AppenderWrite, AddPush, DelClear
<1>3. CASE SetFormatterLock(t) \/ SetFormatterNext(t) \/ SetFormatterEach(t)
           \/ SetFormatterDone(t)
  BY <1>3 DEF SetFormatterLock, SetFormatterNext, SetFormatterEach,
    SetFormatterDone
<1>4. CASE AddLock(t) \/ AddGet(t) \/ AddAppenderLock(t) \/ AddSet(t)
           \/ DelLock(t)
  BY <1>4 DEF AddLock, AddGet, AddAppenderLock, AddSet, DelLock
<1>5. CASE OwnFormatterLock(t) \/ OwnFormatterSet(t) \/ GetLock(t)
           \/ GetFind(t)
  BY <1>5 DEF OwnFormatterLock, OwnFormatterSet, GetLock, GetFind
<1>6. CASE YamlLock(t) \/ YamlNext(t) \/ YamlLogger(t) \/ YamlEach(t)
           \/ YamlRelease(t) \/ YamlDone(t)
  BY <1>6 DEF YamlLock, YamlNext, YamlLogger, YamlEach, YamlRelease, YamlDone
<1> QED BY <1>1, <1>2, <1>3, <1>4, <1>5, <1>6 DEF Run

\* What every step of the loop leaves alone.
LoopFrame(t) ==
  /\ lvl' = lvl /\ from' = from /\ appenders' = appenders /\ calls' = calls
LEMMA LoopKeeps ==
  ASSUME NEW t \in Threads,
         LogLock(t) \/ LogEach(t) \/ AppenderLock(t) \/ AppenderWrite(t)
         \/ LogForward(t) \/ LogDone(t)
  PROVE  LoopFrame(t)
BY DEF LogLock, LogEach, AppenderLock, AppenderWrite, LogForward, LogDone,
  Advance, RunOn, locals, loggerVars, LoopFrame

\* One turn of the loop: the target either skips the event, which is not at
\* the highest level then, or writes it.
LEMMA CountTurn ==
  ASSUME LockInv, ServeInv, CountInv, NEW t \in Threads,
         (LogEach(t) /\ pc'[t] = "log_walk") \/ AppenderWrite(t),
         NEW a \in Appenders
  PROVE  Counts(t, a, idx[t])'
<1>1. LoopFrame(t) /\ self' = self /\ idx'[t] = idx[t] + 1
  BY LoopKeeps DEF LogEach, AppenderWrite, Advance, Step, Goto, LockInv,
    TypeOK, LocalsOK, ThreadsOK
<1>2. pc[t] \in Looping /\ ~ Exhausted(t)
  BY DEF LogEach, AppenderWrite, Step, Goto, Looping, LockInv, CallsOK, CallOK
<1>3. List(t) \in Seq(Appenders) /\ idx[t] \in DOMAIN List(t)
  BY <1>2, CurrentType DEF LockInv
<1>4. Counts(t, a, idx[t])
  BY <1>2 DEF CountInv, CountOK
<1> DEFINE e == EventOf(t)
           w == Cardinality(At(out[a], e))
           n == Cardinality(Entries(List(t), a, idx[t]))
<1>5. EventOf(t)' = e /\ List(t)' = List(t) /\ Highest(t)' = Highest(t)
  BY <1>1 DEF LoopFrame, EventOf, List, Highest
<1>6. Cardinality(Entries(List(t), a, idx[t] + 1)) =
        IF Current(t) = a THEN n + 1 ELSE n
  BY <1>3, EntriesNext DEF Current
<1>7. w \in Nat /\ n \in Nat /\ w <= n /\ (Highest(t) => w = n)
  BY <1>4, CountTypes DEF Counts
<1>8. CASE LogEach(t) /\ pc'[t] = "log_walk"
  <2>1. out' = out
    BY <1>8 DEF LogEach
  <2>2. ~ (lvl[t] >= alevel[Current(t)])
    BY <1>8 DEF LogEach, Goto, LockInv, TypeOK, ThreadsOK
  <2>3. ~ Highest(t)
    BY <1>2, <2>2, CurrentType DEF Highest, CountInv, LockInv
  <2> HIDE DEF e, w, n
  <2>4. w <= IF Current(t) = a THEN n + 1 ELSE n
    BY <1>7
  <2> QED BY <1>1, <1>5, <1>6, <2>1, <2>3, <2>4 DEF Counts, w, e
<1>9. CASE AppenderWrite(t)
  <2>1. app[t] = Current(t)
    BY <1>9 DEF ServeInv, ServeOK, AppenderWrite, Step
  <2>2. Cardinality(At(out'[a], e)) = IF Current(t) = a THEN w + 1 ELSE w
    BY <1>9, <2>1, WriteCounts
  <2> DEFINE x == Cardinality(At(out'[a], e))
             y == Cardinality(Entries(List(t), a, idx[t] + 1))
  <2>3. x <= y /\ (Highest(t) => x = y)
    <3> HIDE DEF x, y, w, n
    <3> QED BY <1>6, <1>7, <2>2 DEF x, y
  <2> QED BY <1>1, <1>5, <2>3 DEF Counts
<1> QED BY <1>8, <1>9

LEMMA CountMover ==
  ASSUME LockInv, ServeInv, CountInv, NEW t \in Threads,
         ClientCall(t) \/ Run(t)
  PROVE  CountOK(t)'
<1>1. /\ pc \in [Threads -> Labels] /\ self \in [Threads -> Loggers]
      /\ from \in [Threads -> Loggers] /\ idx \in [Threads -> Nat \ {0}]
      /\ appenders \in [Loggers -> Seq(Appenders)]
      /\ List(t) \in Seq(Appenders)
  BY CountTypes DEF LockInv, TypeOK, ObjectsOK, ThreadsOK, LocalsOK, List
<1>2. CountOK(t) /\ ServeOK(t) /\ CallOK(t)
  BY DEF CountInv, ServeInv, LockInv, CallsOK
<1> USE <1>1, <1>2 DEF Goto, Step
<1>3. CASE ClientCall(t)
  <2>1. PICK op, label, l, a, f, v : Call(t, op, label, l, a, f, v)
    BY <1>3 DEF ClientCall, LogCall, SetFormatterCall, AddCall, DelCall,
      OwnFormatterCall, SetLevel, SetAppenderLevel, GetCall, YamlCall
  <2>2. self'[t] = from'[t]
    BY <2>1 DEF Call, Locals
  <2>3. pc'[t] \notin Looping /\ pc'[t] # "log_return"
    <3>1. pc[t] = "idle"
      BY <2>1 DEF Call
    <3> QED BY <1>3, <3>1, CallKind, ToReturn
            DEF Quiet, LogForward, LogDone, LogReturn
  <2> QED BY <2>2, <2>3 DEF CountOK, Looping
<1>4. CASE LogLock(t)
  <2>1. /\ pc[t] = "log_lock" /\ pc'[t] = "log_walk" /\ LoopFrame(t)
        /\ self' = self /\ out' = out /\ idx'[t] = 1
    BY <1>4, LoopKeeps DEF LogLock, locals, ServeOK
  <2>2. ASSUME NEW a \in Appenders PROVE Counts(t, a, idx[t])'
    <3>1. Cardinality(At(out[a], EventOf(t))) = 0
      BY <2>1, NotSeen DEF ServeOK
    <3>2. Cardinality(Entries(List(t), a, 1)) = 0
      BY EntriesEnds
    <3> QED BY <2>1, <3>1, <3>2 DEF Counts, List, EventOf, LoopFrame
  <2> QED BY <2>1, <2>2 DEF CountOK, LoopFrame, InLog
<1>5. CASE (LogEach(t) /\ pc'[t] = "log_walk") \/ AppenderWrite(t)
  <2>1. /\ pc[t] \in Looping /\ pc'[t] = "log_walk" /\ LoopFrame(t)
        /\ self' = self
    BY <1>5, LoopKeeps DEF LogEach, AppenderWrite, Advance, Looping
  <2>2. \A a \in Appenders : Counts(t, a, idx[t])'
    BY <1>5, CountTurn
  <2> QED BY <2>1, <2>2 DEF CountOK, LoopFrame, InLog, Looping
<1>6. CASE (LogEach(t) /\ pc'[t] # "log_walk") \/ AppenderLock(t)
  <2>1. /\ pc[t] \in Looping /\ pc'[t] \in Looping /\ LoopFrame(t)
        /\ self' = self /\ idx' = idx /\ out' = out
    BY <1>6, LoopKeeps DEF LogEach, AppenderLock, locals, Looping
  <2>2. \A a \in Appenders : Counts(t, a, idx[t])'
    BY <2>1 DEF CountOK, Counts, List, EventOf, Highest, LoopFrame
  <2> QED BY <2>1, <2>2 DEF CountOK, LoopFrame, InLog, Looping
<1>7. CASE LogForward(t)
  <2>1. /\ List(t) = << >> /\ self[t] # Root /\ self[t] = from[t]
        /\ LoopFrame(t) /\ appenders[from[t]] = << >>
    BY <1>7, LoopKeeps DEF LogForward, Forwards, CallOK, InLog, List
  <2>2. pc'[t] = "log_lock" \/ (pc'[t] = "log_return" /\ self' = self)
    BY <1>7 DEF LogForward, locals
  <2> QED BY <2>1, <2>2 DEF CountOK, LoopFrame, Looping, Forwards, List
<1>8. CASE LogDone(t)
  <2>1. /\ pc[t] = "log_walk" /\ pc'[t] = "log_return" /\ LoopFrame(t)
        /\ self' = self /\ idx' = idx /\ out' = out
    BY <1>8, LoopKeeps DEF LogDone, locals
  <2>2. idx[t] = Len(List(t)) + 1
    BY <1>8, <2>1 DEF LogDone, Exhausted, ServeOK, Looping
  <2>3. ASSUME NEW a \in Appenders
        PROVE  Counts(t, a, Len(List(t)) + 1)'
    BY <2>1, <2>2 DEF CountOK, Counts, List, EventOf, Highest, LoopFrame,
      Looping
  <2> QED BY <2>1, <2>3 DEF CountOK, LoopFrame, InLog, Looping
<1>9. CASE LogReturn(t)
  <2>1. CASE self[t] = from[t]
    BY <1>9, <2>1 DEF LogReturn, Return, CountOK, Looping, InLog
  <2>2. CASE self[t] # from[t]
    <3>1. /\ pc[t] = "log_return" /\ pc' = pc /\ self'[t] = from[t]
          /\ from' = from /\ appenders' = appenders
      BY <1>9, <2>2 DEF LogReturn, RunOn, loggerVars
    <3>2. appenders[from[t]] = << >> /\ from[t] # Root
      BY <2>2, <3>1 DEF CountOK, CallOK, InLog
    <3> QED BY <3>1, <3>2 DEF CountOK, Looping, Forwards, List
  <2> QED BY <2>1, <2>2
<1>10. CASE AddPush(t) \/ DelClear(t)
  BY <1>10 DEF AddPush, DelClear, Return, CountOK, Looping, InLog
<1>11. CASE Quiet(t) /\ pc'[t] # "log_lock" /\ pc'[t] # "log_return"
  BY <1>11 DEF Quiet, CountOK, Looping, InLog
<1> QED
  <2>1. LogForward(t) \/ LogDone(t) \/ LogReturn(t) => CountOK(t)'
    BY <1>7, <1>8, <1>9
  <2>2. CASE Run(t)
    BY <1>4, <1>5, <1>6, <1>10, <1>11, <2>1, <2>2, RunKinds, ToReturn
  <2> QED BY <1>3, <2>2

LEMMA AppenderLevels ==
  ASSUME LockInv, NEW t \in Threads, ClientCall(t) \/ Run(t),
         \A a \in Appenders : alevel[a] \in LogLevels \cup {DEBUG}
  PROVE  \A a \in Appenders : alevel'[a] \in LogLevels \cup {DEBUG}
<1>1. CASE alevel' = alevel
  BY <1>1
<1>2. CASE \E a \in Appenders, v \in LogLevels : SetAppenderLevel(t, a, v)
  BY <1>2 DEF SetAppenderLevel, LockInv, TypeOK, ObjectsOK
<1>3. CASE ClientCall(t)
  BY <1>1, <1>2, <1>3 DEF ClientCall, LogCall, SetFormatterCall, AddCall,
    DelCall, OwnFormatterCall, SetLevel, GetCall, YamlCall, appenderVars
<1>4. CASE Run(t)
  BY <1>1, <1>4 DEF Run, LogLock, LogEach, AppenderLock, AppenderWrite,
    LogForward, LogDone, LogReturn, SetFormatterLock, SetFormatterNext,
    SetFormatterEach, SetFormatterDone, AddLock, AddGet, AddAppenderLock,
    AddSet, AddPush, DelLock, DelClear, OwnFormatterLock, OwnFormatterSet,
    GetLock, GetFind, YamlLock, YamlNext, YamlLogger, YamlEach, YamlRelease,
    YamlDone, appenderVars
<1> QED BY <1>3, <1>4

LEMMA CountStart == Init => CountInv
BY DEF Init, CountInv, CountOK, Looping, InLog

LEMMA CountStep ==
  LockInv /\ ServeInv /\ CountInv /\ [Next]_vars => CountInv'
<1> SUFFICES ASSUME LockInv, ServeInv, CountInv, [Next]_vars PROVE CountInv'
  OBVIOUS
<1>1. ASSUME NEW t \in Threads, ClientCall(t) \/ Run(t) PROVE CountInv'
  BY <1>1, CountOther, CountMover, AppenderLevels DEF CountInv
<1>2. CASE UNCHANGED vars
  BY <1>2 DEF vars, locals, loggerVars, appenderVars, CountInv, CountOK,
    Counts, Highest, Forwards, List, EventOf
<1> QED BY <1>1, <1>2 DEF Next, Finished

LEMMA OncePerEntry == LockInv /\ CountInv => WrittenOncePerEntry
<1> SUFFICES ASSUME LockInv, CountInv, NEW t \in Threads,
                    pc[t] = "log_return", ~Forwards(t), NEW a \in Appenders
             PROVE  LET written == At(out[a], EventOf(t))
                        entries == {i \in DOMAIN List(t) : List(t)[i] = a}
                    IN  /\ Cardinality(written) <= Cardinality(entries)
                        /\ Highest(t) =>
                             Cardinality(written) = Cardinality(entries)
  BY DEF WrittenOncePerEntry, At, Highest
<1>1. Counts(t, a, Len(List(t)) + 1)
  BY DEF CountInv, CountOK
<1>2. Entries(List(t), a, Len(List(t)) + 1)
        = {i \in DOMAIN List(t) : List(t)[i] = a}
  BY CountTypes, EntriesEnds
<1> QED BY <1>1, <1>2 DEF Counts

\* However many threads log, reconfigure and dump at once, when the loop over
\* the targets is over (Log.cpp:313-315) the event has been written at most
\* once per entry of the list, and exactly once per entry if it is at the
\* highest level an appender is ever set to.
THEOREM NothingLostOrDoubled == Spec => []WrittenOncePerEntry
BY CountStart, CountStep, OncePerEntry, ServeStart, ServeStep, LockInvariant,
   PTL DEF Spec
=============================================================================
