------------------------------- MODULE Logger -------------------------------
(***************************************************************************)
(* The methods of Logger, LogAppender and LoggerManager as steps of the    *)
(* threads that call them, over the state of LoggerState.                  *)
(***************************************************************************)
EXTENDS LoggerState

-----------------------------------------------------------------------------
(* Plausible bugs of the methods below, each a variant of the action or    *)
(* operator its comment names.  No specification uses them: they show that *)
(* the properties would notice.                                            *)

\* LogLock, the scoped lock being a temporary that is gone at once.
LogLockTemporary(t) ==
  /\ Step(t, "log_lock", "log_walk")
  /\ UNCHANGED <<loggerVars, appenderVars, registry, owner, locals, calls, out>>

\* LogDone, the event also going to the root when it had appenders.
LogDoneAndForward(t) ==
  /\ pc[t] = "log_walk"
  /\ Exhausted(t)
  /\ IF self[t] = Root
     THEN /\ Goto(t, "log_return")
          /\ UNCHANGED locals
     ELSE /\ Goto(t, "log_lock")
          /\ self' = [self EXCEPT ![t] = Root]
          /\ idx' = [idx EXCEPT ![t] = 1]
          /\ UNCHANGED <<from, app, fmt, lvl, todo>>
  /\ UNCHANGED <<loggerVars, appenderVars, registry, owner, calls, out>>

\* Forwards, with a root logger whose m_root is itself.
ForwardsToItself(t) == List(t) = << >>

\* LogReturn, forgetting the mutex of the logger that forwarded.
LogReturnOnce(t) ==
  /\ pc[t] = "log_return"
  /\ Release(self[t])
  /\ Return(t)
  /\ UNCHANGED <<loggerVars, appenderVars, registry, calls, out>>

\* SetFormatterEach, without the test of m_hasFormatter.
SetFormatterAlways(t) ==
  /\ Step(t, "fmt_set", "fmt_walk")
  /\ aformatter' = [aformatter EXCEPT ![Current(t)] = formatter[self[t]]]
  /\ Release(Current(t))
  /\ Advance(t)
  /\ UNCHANGED <<loggerVars, alevel, hasFormatter, registry, calls, out>>

\* SetFormatterEach, testing m_formatter instead of m_hasFormatter.
SetFormatterIfNone(t) ==
  /\ Step(t, "fmt_set", "fmt_walk")
  /\ aformatter' = [aformatter EXCEPT ![Current(t)] =
                      IF @ # NULL THEN @ ELSE formatter[self[t]]]
  /\ Release(Current(t))
  /\ Advance(t)
  /\ UNCHANGED <<loggerVars, alevel, hasFormatter, registry, calls, out>>

\* SetFormatterEach, the scoped lock outliving the loop's body.
SetFormatterKeepsLock(t) ==
  /\ Step(t, "fmt_set", "fmt_walk")
  /\ aformatter' = [aformatter EXCEPT ![Current(t)] =
                      IF hasFormatter[Current(t)]
                      THEN @ ELSE formatter[self[t]]]
  /\ Advance(t)
  /\ UNCHANGED <<loggerVars, alevel, hasFormatter, registry, owner, calls, out>>

\* AddGet, the appender being pushed whatever its formatter.
AddGetUntested(t) ==
  /\ Step(t, "add_get", "add_push")
  /\ owner[app[t]] = NULL
  /\ UNCHANGED <<loggerVars, appenderVars, registry, owner, locals, calls, out>>

\* DelLock, with no lock.
DelLockNone(t) ==
  /\ Step(t, "del_lock", "del_clear")
  /\ UNCHANGED <<loggerVars, appenderVars, registry, owner, locals, calls, out>>

\* SetLevel, off by one.
SetLevelNext(t, l, v) ==
  /\ l \in registry
  /\ Call(t, "setLevel", "idle", Root, Console, NULL, 0)
  /\ level' = [level EXCEPT ![l] = v + 1]
  /\ UNCHANGED <<formatter, appenders, appenderVars, registry, owner, out>>

-----------------------------------------------------------------------------
(* Logger::log and LogAppender::log.                                       *)

\* The level test is made before the mutex is taken.
LogCall(t, l, v) ==
  /\ l \in registry
  /\ IF v >= level[l]
     THEN Call(t, "log", "log_lock", l, Console, NULL, v)
     ELSE Call(t, "log", "idle", Root, Console, NULL, 0)
  /\ UNCHANGED <<loggerVars, appenderVars, registry, owner, out>>

LogLock(t) ==
  /\ Step(t, "log_lock", "log_walk")
  /\ Acquire(t, self[t])
  /\ UNCHANGED <<loggerVars, appenderVars, registry, locals, calls, out>>

\* The loop over m_appenders calls i->log, which first tests the appender's
\* own level, again with no lock.
LogEach(t) ==
  /\ pc[t] = "log_walk"
  /\ ~Exhausted(t)
  /\ IF lvl[t] >= alevel[Current(t)]
     THEN /\ Goto(t, "app_lock")
          /\ app' = [app EXCEPT ![t] = Current(t)]
          /\ UNCHANGED <<self, from, fmt, lvl, idx, todo>>
     ELSE /\ Advance(t)
          /\ UNCHANGED pc
  /\ UNCHANGED <<loggerVars, appenderVars, registry, owner, calls, out>>

AppenderLock(t) ==
  /\ Step(t, "app_lock", "app_write")
  /\ Acquire(t, app[t])
  /\ UNCHANGED <<loggerVars, appenderVars, registry, locals, calls, out>>

\* m_formatter->format(stream, ...): a null m_formatter ends the process,
\* so there is no step for it.
AppenderWrite(t) ==
  LET a == app[t]
  IN  /\ Step(t, "app_write", "log_walk")
      /\ aformatter[a] # NULL
      /\ out' = [out EXCEPT ![a] = Append(@, [ev |-> EventOf(t),
                                              by |-> self[t]])]
      /\ Release(a)
      /\ Advance(t)
      /\ UNCHANGED <<loggerVars, appenderVars, registry, calls>>

\* A logger with no appender hands the event to m_root, which every logger
\* but Root has, and keeps its own mutex while m_root->log runs.
Forwards(t) == List(t) = << >> /\ self[t] # Root

LogForward(t) ==
  /\ pc[t] = "log_walk"
  /\ Forwards(t)
  /\ IF lvl[t] >= level[Root]
     THEN /\ Goto(t, "log_lock")
          /\ RunOn(t, Root)
     ELSE /\ Goto(t, "log_return")
          /\ UNCHANGED locals
  /\ UNCHANGED <<loggerVars, appenderVars, registry, owner, calls, out>>

LogDone(t) ==
  /\ Step(t, "log_walk", "log_return")
  /\ Exhausted(t)
  /\ ~Forwards(t)
  /\ UNCHANGED <<loggerVars, appenderVars, registry, owner, locals, calls, out>>

\* The scoped locks unwind: the root's first, then the caller's own.
LogReturn(t) ==
  /\ pc[t] = "log_return"
  /\ Release(self[t])
  /\ IF self[t] = from[t]
     THEN Return(t)
     ELSE /\ RunOn(t, from[t])
          /\ UNCHANGED pc
  /\ UNCHANGED <<loggerVars, appenderVars, registry, calls, out>>

-----------------------------------------------------------------------------
(* Logger::setFormatter, with either argument type: the string overload    *)
(* reports a pattern with errors and then installs it all the same.        *)

SetFormatterCall(t, l, f) ==
  /\ l \in registry
  /\ Call(t, "setFormatter", "fmt_lock", l, Console, f, 0)
  /\ UNCHANGED <<loggerVars, appenderVars, registry, owner, out>>

SetFormatterLock(t) ==
  /\ Step(t, "fmt_lock", "fmt_walk")
  /\ Acquire(t, self[t])
  /\ formatter' = [formatter EXCEPT ![self[t]] = fmt[t]]
  /\ UNCHANGED <<level, appenders, appenderVars, registry, locals, calls, out>>

SetFormatterNext(t) ==
  /\ Step(t, "fmt_walk", "fmt_set")
  /\ ~Exhausted(t)
  /\ Acquire(t, Current(t))
  /\ UNCHANGED <<loggerVars, appenderVars, registry, locals, calls, out>>

\* An appender with a formatter of its own keeps it.
SetFormatterEach(t) ==
  /\ Step(t, "fmt_set", "fmt_walk")
  /\ aformatter' = [aformatter EXCEPT ![Current(t)] =
                      IF hasFormatter[Current(t)]
                      THEN @ ELSE formatter[self[t]]]
  /\ Release(Current(t))
  /\ Advance(t)
  /\ UNCHANGED <<loggerVars, alevel, hasFormatter, registry, calls, out>>

SetFormatterDone(t) ==
  /\ pc[t] = "fmt_walk"
  /\ Exhausted(t)
  /\ Release(self[t])
  /\ Return(t)
  /\ UNCHANGED <<loggerVars, appenderVars, registry, calls, out>>

-----------------------------------------------------------------------------
(* Logger::addAppender tests getFormatter() under one hold of the          *)
(* appender's mutex and assigns m_formatter under a second one.            *)

AddPcs == {"add_lock", "add_get", "add_alock", "add_set", "add_push"}
OwnPcs == {"own_lock", "own_set"}

\* Some thread runs a method in Pcs with appender a as its argument.
InUse(a, Pcs) == \E t \in Threads : pc[t] \in Pcs /\ app[t] = a
Attached(a) ==
  \E l \in Loggers : \E i \in DOMAIN appenders[l] : appenders[l][i] = a

AddCall(t, l, a) ==
  /\ l \in registry
  /\ <<l, a>> \in Attachable
  /\ PrivateSetup => ~InUse(a, OwnPcs)
  /\ Call(t, "addAppender", "add_lock", l, a, NULL, 0)
  /\ UNCHANGED <<loggerVars, appenderVars, registry, owner, out>>

AddLock(t) ==
  /\ Step(t, "add_lock", "add_get")
  /\ Acquire(t, self[t])
  /\ UNCHANGED <<loggerVars, appenderVars, registry, locals, calls, out>>

\* appender->getFormatter(): lock, read, unlock.
AddGet(t) ==
  /\ Step(t, "add_get",
          IF aformatter[app[t]] = NULL THEN "add_alock" ELSE "add_push")
  /\ owner[app[t]] = NULL
  /\ UNCHANGED <<loggerVars, appenderVars, registry, owner, locals, calls, out>>

AddAppenderLock(t) ==
  /\ Step(t, "add_alock", "add_set")
  /\ Acquire(t, app[t])
  /\ UNCHANGED <<loggerVars, appenderVars, registry, locals, calls, out>>

AddSet(t) ==
  /\ Step(t, "add_set", "add_push")
  /\ aformatter' = [aformatter EXCEPT ![app[t]] =
                                        formatter[self[t]]]
  /\ Release(app[t])
  /\ UNCHANGED <<loggerVars, alevel, hasFormatter, registry, locals, calls, out>>

AddPush(t) ==
  /\ pc[t] = "add_push"
  /\ appenders' = [appenders EXCEPT ![self[t]] = Append(@, app[t])]
  /\ Release(self[t])
  /\ Return(t)
  /\ UNCHANGED <<level, formatter, appenderVars, registry, calls, out>>

-----------------------------------------------------------------------------
(* Logger::delAppender(appender) empties m_appenders.                      *)

DelCall(t, l, a) ==
  /\ l \in registry
  /\ Call(t, "delAppender", "del_lock", l, a, NULL, 0)
  /\ UNCHANGED <<loggerVars, appenderVars, registry, owner, out>>

DelLock(t) ==
  /\ Step(t, "del_lock", "del_clear")
  /\ Acquire(t, self[t])
  /\ UNCHANGED <<loggerVars, appenderVars, registry, locals, calls, out>>

DelClear(t) ==
  /\ pc[t] = "del_clear"
  /\ appenders' = [appenders EXCEPT ![self[t]] = << >>]
  /\ Release(self[t])
  /\ Return(t)
  /\ UNCHANGED <<level, formatter, appenderVars, registry, calls, out>>

-----------------------------------------------------------------------------
(* LogAppender::setFormatter, and the unlocked setLevel of both classes.   *)

OwnFormatterCall(t, a, f) ==
  /\ PrivateSetup => ~Attached(a) /\ ~InUse(a, AddPcs \cup OwnPcs)
  /\ Call(t, "setOwnFormatter", "own_lock", Root, a, f, 0)
  /\ UNCHANGED <<loggerVars, appenderVars, registry, owner, out>>

OwnFormatterLock(t) ==
  /\ Step(t, "own_lock", "own_set")
  /\ Acquire(t, app[t])
  /\ UNCHANGED <<loggerVars, appenderVars, registry, locals, calls, out>>

OwnFormatterSet(t) ==
  LET a == app[t]
      f == fmt[t]
  IN  /\ pc[t] = "own_set"
      /\ aformatter' = [aformatter EXCEPT ![a] = f]
      /\ hasFormatter' = [hasFormatter EXCEPT ![a] = (f # NULL)]
      /\ Release(a)
      /\ Return(t)
      /\ UNCHANGED <<loggerVars, alevel, registry, calls, out>>

SetLevel(t, l, v) ==
  /\ l \in registry
  /\ Call(t, "setLevel", "idle", Root, Console, NULL, 0)
  /\ level' = [level EXCEPT ![l] = v]
  /\ UNCHANGED <<formatter, appenders, appenderVars, registry, owner, out>>

SetAppenderLevel(t, a, v) ==
  /\ Call(t, "setAppenderLevel", "idle", Root, Console, NULL, 0)
  /\ alevel' = [alevel EXCEPT ![a] = v]
  /\ UNCHANGED <<loggerVars, hasFormatter, aformatter, registry, owner, out>>

-----------------------------------------------------------------------------
(* LoggerManager::getLogger.  A logger outside registry is still as its    *)
(* constructor leaves it, so creating it is adding it to m_loggers.        *)

GetCall(t, l) ==
  /\ Call(t, "getLogger", "get_lock", l, Console, NULL, 0)
  /\ UNCHANGED <<loggerVars, appenderVars, registry, owner, out>>

GetLock(t) ==
  /\ Step(t, "get_lock", "get_find")
  /\ Acquire(t, Manager)
  /\ UNCHANGED <<loggerVars, appenderVars, registry, locals, calls, out>>

GetFind(t) ==
  /\ pc[t] = "get_find"
  /\ registry' = registry \cup {self[t]}
  /\ Release(Manager)
  /\ Return(t)
  /\ UNCHANGED <<loggerVars, appenderVars, calls, out>>

(* LoggerManager::toYamlString holds the manager's mutex over the whole    *)
(* loop, each logger's mutex over the loop on its appenders, and each      *)
(* appender's mutex while it reads it.  The order of m_loggers does not    *)
(* matter to any mutex and is left open.                                   *)

YamlCall(t) ==
  /\ Call(t, "toYamlString", "yaml_lock", Root, Console, NULL, 0)
  /\ UNCHANGED <<loggerVars, appenderVars, registry, owner, out>>

YamlLock(t) ==
  /\ Step(t, "yaml_lock", "yaml_next")
  /\ Acquire(t, Manager)
  /\ todo' = [todo EXCEPT ![t] = registry]
  /\ UNCHANGED <<self, from, app, fmt, lvl, idx>>
  /\ UNCHANGED <<loggerVars, appenderVars, registry, calls, out>>

YamlNext(t) ==
  /\ Step(t, "yaml_next", "yaml_logger")
  /\ \E l \in todo[t] :
       /\ self' = [self EXCEPT ![t] = l]
       /\ from' = [from EXCEPT ![t] = l]
       /\ idx' = [idx EXCEPT ![t] = 1]
       /\ todo' = [todo EXCEPT ![t] = @ \ {l}]
       /\ UNCHANGED <<app, fmt, lvl>>
  /\ UNCHANGED <<loggerVars, appenderVars, registry, owner, calls, out>>

YamlLogger(t) ==
  /\ Step(t, "yaml_logger", "yaml_walk")
  /\ Acquire(t, self[t])
  /\ UNCHANGED <<loggerVars, appenderVars, registry, locals, calls, out>>

YamlEach(t) ==
  /\ pc[t] = "yaml_walk"
  /\ ~Exhausted(t)
  /\ owner[Current(t)] = NULL
  /\ Advance(t)
  /\ UNCHANGED <<loggerVars, appenderVars, registry, owner, pc, calls, out>>

YamlRelease(t) ==
  /\ Step(t, "yaml_walk", "yaml_next")
  /\ Exhausted(t)
  /\ Release(self[t])
  /\ UNCHANGED <<loggerVars, appenderVars, registry, locals, calls, out>>

YamlDone(t) ==
  /\ pc[t] = "yaml_next"
  /\ todo[t] = {}
  /\ Release(Manager)
  /\ Return(t)
  /\ UNCHANGED <<loggerVars, appenderVars, registry, calls, out>>

-----------------------------------------------------------------------------
(* The program when it starts its threads.  An appender main() has added   *)
(* to a logger took the logger's formatter then.                           *)

Init ==
  /\ level = [l \in Loggers |-> DEBUG]
  /\ formatter = [l \in Loggers |-> DefaultFormatter]
  /\ appenders = [l \in Loggers |->
                    IF l \in DOMAIN Prepared THEN Prepared[l] ELSE << >>]
  /\ alevel = [a \in Appenders |-> DEBUG]
  /\ hasFormatter = [a \in Appenders |-> FALSE]
  /\ aformatter = [a \in Appenders |->
                     IF Attached(a)
                     THEN DefaultFormatter ELSE NULL]
  /\ registry = DOMAIN Prepared
  /\ owner = [m \in Mutexes |-> NULL]
  /\ pc = [t \in Threads |-> "idle"]
  /\ calls = [t \in Threads |-> 0]
  /\ out = [a \in Appenders |-> << >>]
  /\ self = [t \in Threads |-> Root]
  /\ from = [t \in Threads |-> Root]
  /\ app = [t \in Threads |-> Console]
  /\ fmt = [t \in Threads |-> NULL]
  /\ lvl = [t \in Threads |-> 0]
  /\ idx = [t \in Threads |-> 1]
  /\ todo = [t \in Threads |-> {}]

ClientCall(t) ==
  \/ \E l \in Loggers, v \in LogLevels : LogCall(t, l, v)
  \/ \E l \in Loggers, f \in LoggerFormatters : SetFormatterCall(t, l, f)
  \/ \E l \in Loggers, a \in Appenders : AddCall(t, l, a)
  \/ \E l \in Loggers, a \in Appenders : DelCall(t, l, a)
  \/ \E a \in Appenders, f \in AppenderFormatters : OwnFormatterCall(t, a, f)
  \/ \E l \in Loggers, v \in LogLevels : SetLevel(t, l, v)
  \/ \E a \in Appenders, v \in LogLevels : SetAppenderLevel(t, a, v)
  \/ \E l \in Loggers : GetCall(t, l)
  \/ YamlCall(t)

\* The steps of a call in progress.
Run(t) ==
  \/ LogLock(t) \/ LogEach(t) \/ AppenderLock(t) \/ AppenderWrite(t)
  \/ LogForward(t) \/ LogDone(t) \/ LogReturn(t)
  \/ SetFormatterLock(t) \/ SetFormatterNext(t) \/ SetFormatterEach(t)
  \/ SetFormatterDone(t)
  \/ AddLock(t) \/ AddGet(t) \/ AddAppenderLock(t) \/ AddSet(t) \/ AddPush(t)
  \/ DelLock(t) \/ DelClear(t)
  \/ OwnFormatterLock(t) \/ OwnFormatterSet(t)
  \/ GetLock(t) \/ GetFind(t)
  \/ YamlLock(t) \/ YamlNext(t) \/ YamlLogger(t) \/ YamlEach(t)
  \/ YamlRelease(t) \/ YamlDone(t)

\* Every thread has made its calls and all of them have returned.
Finished == (\A t \in Threads : pc[t] = "idle" /\ calls[t] = MaxCalls)
            /\ UNCHANGED vars

Next == (\E t \in Threads : ClientCall(t) \/ Run(t)) \/ Finished

Spec == Init /\ [][Next]_vars

\* The operating system runs every thread that can run: a call in progress
\* goes on whenever it is not blocked on a mutex.
FairSpec == Spec /\ \A t \in Threads : WF_vars(Run(t))
=============================================================================
