---------------------------- MODULE LoggerState ----------------------------
(***************************************************************************)
(* The logger core of Log/Log.cpp: Logger, LogAppender and LoggerManager   *)
(* as threads of the program run them.  Every object carries one mutex,    *)
(* taken by a scoped lock at the top of a method:                          *)
(*                                                                         *)
(*   LoggerManager  m_loggers        getLogger, toYamlString               *)
(*   Logger         m_appenders,     log, setFormatter, addAppender,       *)
(*                  m_formatter      delAppender, toYamlString             *)
(*   LogAppender    m_formatter,     log, setFormatter, getFormatter,      *)
(*                  m_hasFormatter   toYamlString                          *)
(*                                                                         *)
(* m_level is read and written with no lock by both classes.               *)
(* A step ends where another thread can observe or block: at every lock,   *)
(* at every unlock that leaves another mutex held, and around every        *)
(* unlocked read.  A method whose whole body runs under one mutex it takes *)
(* alone is a lock step and a body step.                                   *)
(***************************************************************************)
EXTENDS Integers, Sequences

CONSTANTS
  Threads,            \* threads that call the library
  Loggers,            \* Logger objects, each known by its name
  Root,               \* the logger LoggerManager() creates
  Manager,            \* the LoggerManager singleton (names its mutex)
  Appenders,          \* LogAppender objects
  Console,            \* the StdoutLogAppender LoggerManager() gives to Root
  Prepared,           \* the loggers that exist, with their lists of appenders,
                      \* when the program starts its threads: Root with
                      \* <<Console>> if it has called nothing but the
                      \* singleton, more if main() has set up loggers first
  DefaultFormatter,   \* the formatter Logger() creates
  LoggerFormatters,   \* arguments clients pass to Logger::setFormatter
  AppenderFormatters, \* arguments clients pass to LogAppender::setFormatter
  LogLevels,          \* levels clients pass to log and setLevel
  Attachable,         \* pairs <<l, a>> for which clients call l.addAppender(a)
  Ops,                \* the methods clients call
  PrivateSetup,       \* TRUE: setFormatter(a) only before a is shared
  MaxCalls,           \* bound: calls per thread
  NULL

Mutexes == {Manager} \cup Loggers \cup Appenders
Formatters ==
  {NULL, DefaultFormatter} \cup LoggerFormatters \cup AppenderFormatters
Level == 0..5                  \* UNKNOW, DEBUG, INFO, WARN, ERROR, FATAL
DEBUG == 1

ASSUME LoggerAssumption ==
  /\ Root \in Loggers
  /\ Console \in Appenders
  /\ Manager \notin Loggers \cup Appenders
  /\ Loggers \cap Appenders = {}
  /\ NULL \notin Threads \cup Mutexes \cup {DefaultFormatter}
  /\ LogLevels \subseteq Level
  /\ Attachable \subseteq Loggers \X Appenders
  /\ Root \in DOMAIN Prepared
  /\ DOMAIN Prepared \subseteq Loggers
  /\ \A l \in DOMAIN Prepared : Prepared[l] \in Seq(Appenders)
  /\ PrivateSetup \in BOOLEAN
  /\ MaxCalls \in Nat

VARIABLES
  level,        \* Logger::m_level
  formatter,    \* Logger::m_formatter
  appenders,    \* Logger::m_appenders
  alevel,       \* LogAppender::m_level
  hasFormatter, \* LogAppender::m_hasFormatter
  aformatter,   \* LogAppender::m_formatter
  registry,     \* the loggers in LoggerManager::m_loggers
  owner,        \* the thread that holds each mutex, or NULL
  pc,           \* where each thread is in its call
  calls,        \* number of calls each thread has made
  out,          \* what each appender has written, in order
  (* The locals of the call each thread is in. *)
  self,         \* the logger whose method runs
  from,         \* the logger the client called: not self once the event
                \* has been forwarded to the root logger
  app,          \* the appender passed in, or the one the loop is in
  fmt, lvl,     \* the formatter or level passed in
  idx,          \* how far the loop over m_appenders is
  todo          \* the loggers toYamlString has still to visit

loggerVars == <<level, formatter, appenders>>
appenderVars == <<alevel, hasFormatter, aformatter>>
locals == <<self, from, app, fmt, lvl, idx, todo>>
vars == <<loggerVars, appenderVars, registry, owner, pc, locals, calls, out>>

-----------------------------------------------------------------------------
\* An event is named by its thread and the number of the call that logs it.
EventOf(t) == <<t, calls[t]>>

List(t) == appenders[self[t]]      \* m_appenders of the running method
Current(t) == List(t)[idx[t]]      \* the appender its loop is at
Exhausted(t) == idx[t] > Len(List(t))

Goto(t, label) == pc' = [pc EXCEPT ![t] = label]
Step(t, here, there) == pc[t] = here /\ Goto(t, there)

Acquire(t, m) == owner[m] = NULL /\ owner' = [owner EXCEPT ![m] = t]
Release(m) == owner' = [owner EXCEPT ![m] = NULL]

\* The locals of a new call.
Locals(t, l, a, f, v) ==
  /\ self' = [self EXCEPT ![t] = l]
  /\ from' = [from EXCEPT ![t] = l]
  /\ app' = [app EXCEPT ![t] = a]
  /\ fmt' = [fmt EXCEPT ![t] = f]
  /\ lvl' = [lvl EXCEPT ![t] = v]
  /\ idx' = [idx EXCEPT ![t] = 1]
  /\ todo' = [todo EXCEPT ![t] = {}]

\* Thread t calls op on logger l with the other arguments, if it has any.
Call(t, op, label, l, a, f, v) ==
  /\ op \in Ops
  /\ calls[t] < MaxCalls
  /\ calls' = [calls EXCEPT ![t] = @ + 1]
  /\ Step(t, "idle", label)
  /\ Locals(t, l, a, f, v)

Return(t) == Goto(t, "idle") /\ Locals(t, Root, Console, NULL, 0)

Advance(t) == /\ idx' = [idx EXCEPT ![t] = @ + 1]
              /\ UNCHANGED <<self, from, app, fmt, lvl, todo>>

RunOn(t, l) == /\ self' = [self EXCEPT ![t] = l]
               /\ UNCHANGED <<from, app, fmt, lvl, idx, todo>>
=============================================================================
