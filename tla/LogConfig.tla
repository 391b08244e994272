------------------------------ MODULE LogConfig ------------------------------
(***************************************************************************)
(* The listener of the "logs" configuration (LogIniter in Log/Log.cpp): a  *)
(* new configuration is applied to the loggers one call at a time, while   *)
(* a client logs an event: level test, mutex and loop over the appenders   *)
(* are steps of their own, and the listener's calls on a logger wait for   *)
(* the mutex the event holds.  ConfigVar, which calls the listener with    *)
(* the old and the new value and then stores the new one, and clear-       *)
(* Appenders, which empties the list, are not in the repository.           *)
(***************************************************************************)
EXTENDS LogDefine, FiniteSets

CONSTANTS
  Names,           \* names of loggers: numbers, as std::set orders them
  Root,
  Texts,           \* the configurations: a YAML map for each logger named
  EventLevels,     \* the levels clients log at, of debug() to fatal()
  DefaultFormat,   \* the pattern of Logger()
  Invalid          \* patterns LogFormatter finds an error in

ASSUME ConfigAssumption ==
  /\ Names \subseteq Nat /\ IsFiniteSet(Names) /\ Root \in Names
  /\ \A text \in Texts : /\ DOMAIN text \subseteq Names
                        /\ \A n \in DOMAIN text : text[n] \in LoggerMap
  /\ EventLevels \subseteq 1..5
  /\ DefaultFormat \in STRING
  /\ "" \notin Invalid /\ DefaultFormat \notin Invalid \cup {""}

VARIABLES
  daemon,          \* EnvMgr has "d"
  level, formatter, appenders,       \* of each logger
  old_value, new_value,              \* the configuration, and the next one
  phase,           \* what the listener does next, or "idle"
  todo,            \* the loggers it has still to look at
  k,               \* the appender it is at
  before,          \* the appenders when it started
  ever,            \* the loggers any configuration has named
  event            \* the event a client logs, or Null

loggers == <<level, formatter, appenders>>
history == <<before, ever>>
listenerVars == <<daemon, loggers, old_value, new_value, phase, todo, k,
                  history>>
vars == <<listenerVars, event>>

First(S) == CHOOSE x \in S : \A y \in S : x <= y
name == First(todo)
define == new_value[name]

\* The mutex of logger n is held by the event's call.
Locked(n) == event # Null /\ n \in event.held

-----------------------------------------------------------------------------
(* Plausible bugs of the steps below, which the properties must notice.    *)

\* Unchanged, looking at the names only.
KnownName == name \in DOMAIN old_value

\* Unchanged, never.
NeverUnchanged == FALSE

\* ClearAppenders, going on to the next logger too early.
ClearAndLeave ==
  /\ phase = "clear"
  /\ appenders' = [appenders EXCEPT ![name] = << >>]
  /\ phase' = "add" /\ k' = 1
  /\ todo' = todo \ {name}
  /\ UNCHANGED <<daemon, level, formatter, old_value, new_value, history, event>>

\* ClearAppenders, leaving them.
ClearNothing ==
  /\ phase = "clear"
  /\ phase' = "add" /\ k' = 1
  /\ UNCHANGED <<daemon, loggers, old_value, new_value, todo, history, event>>

\* ClearAppenders, without the mutex.
ClearUnlocked ==
  /\ phase = "clear"
  /\ appenders' = [appenders EXCEPT ![name] = << >>]
  /\ phase' = "add" /\ k' = 1
  /\ UNCHANGED <<daemon, level, formatter, old_value, new_value, todo, history,
                 event>>

\* Removed, the other way round.
RemovedTwisted == DOMAIN new_value \ DOMAIN old_value

\* Reformatted, for none but the logger itself.
Unreformatted(list, f) == list

\* Created, an appender that takes the logger's format counting as one with
\* its own.
CreatedOwn(a, loggerFormat) ==
  [type |-> a.type, file |-> a.file, level |-> a.level, own |-> TRUE,
   formatter |-> IF a.formatter # "" /\ a.formatter \notin Invalid
                 THEN a.formatter ELSE loggerFormat]

-----------------------------------------------------------------------------
(* New appenders, and new formats.                                         *)

\* new FileLogAppender or StdoutLogAppender, with the level and the format of
\* its definition; one without a valid format takes the logger's.
Created(a, loggerFormat) ==
  LET own == a.formatter # "" /\ a.formatter \notin Invalid
  IN [type |-> a.type, file |-> a.file, level |-> a.level, own |-> own,
      formatter |-> IF own THEN a.formatter ELSE loggerFormat]
Skipped(a) == a.type = Stdout /\ daemon

\* Logger::setFormatter, which also reaches the appenders without their own.
Reformatted(list, f) ==
  [x \in DOMAIN list |-> IF list[x].own THEN list[x]
                         ELSE [list[x] EXCEPT !.formatter = f]]

-----------------------------------------------------------------------------
(* The loop over the new value.                                            *)

\* ConfigVar calls the listener.
SetValue ==
  /\ phase = "idle"
  /\ \E text \in Texts :
       new_value' = [n \in DOMAIN text |-> ReadDefine(text[n])]
  /\ phase' = "visit"
  /\ todo' = DOMAIN new_value'
  /\ before' = appenders /\ ever' = ever \cup DOMAIN new_value'
  /\ UNCHANGED <<daemon, loggers, old_value, k, event>>

Unchanged == name \in DOMAIN old_value /\ Same(define, old_value[name])

Skip ==
  /\ phase = "visit" /\ todo # {} /\ Unchanged
  /\ todo' = todo \ {name}
  /\ UNCHANGED <<daemon, loggers, old_value, new_value, phase, k, history, event>>

SetLevel ==
  /\ phase = "visit" /\ todo # {} /\ ~Unchanged
  /\ level' = [level EXCEPT ![name] = define.level]
  /\ phase' = IF define.formatter # "" THEN "format" ELSE "clear"
  /\ UNCHANGED <<daemon, formatter, appenders, old_value, new_value, todo, k,
                 history, event>>

\* A pattern with an error is reported, and set all the same.
SetFormatter ==
  /\ phase = "format" /\ ~Locked(name)
  /\ formatter' = [formatter EXCEPT ![name] = define.formatter]
  /\ appenders' = [appenders EXCEPT ![name] =
                     Reformatted(@, define.formatter)]
  /\ phase' = "clear"
  /\ UNCHANGED <<daemon, level, old_value, new_value, todo, k, history, event>>

ClearAppenders ==
  /\ phase = "clear" /\ ~Locked(name)
  /\ appenders' = [appenders EXCEPT ![name] = << >>]
  /\ phase' = "add" /\ k' = 1
  /\ UNCHANGED <<daemon, level, formatter, old_value, new_value, todo, history, event>>

AddAppender ==
  /\ phase = "add" /\ k <= Len(define.appenders) /\ ~Locked(name)
  /\ LET a == define.appenders[k]
     IN appenders' = [appenders EXCEPT ![name] =
                        IF Skipped(a) THEN @
                        ELSE Append(@, Created(a, formatter[name]))]
  /\ k' = k + 1
  /\ UNCHANGED <<daemon, level, formatter, old_value, new_value, phase, todo,
                 history, event>>

NextLogger ==
  /\ phase = "add" /\ k > Len(define.appenders)
  /\ todo' = todo \ {name}
  /\ phase' = "visit"
  /\ UNCHANGED <<daemon, loggers, old_value, new_value, k, history, event>>

-----------------------------------------------------------------------------
(* The loop over the old value.                                            *)

Removed == DOMAIN old_value \ DOMAIN new_value

BeginRemoval ==
  /\ phase = "visit" /\ todo = {}
  /\ todo' = Removed
  /\ phase' = "remove"
  /\ UNCHANGED <<daemon, loggers, old_value, new_value, k, history, event>>

RemoveLevel ==
  /\ phase = "remove" /\ todo # {}
  /\ level' = [level EXCEPT ![name] = UNKNOW]
  /\ phase' = "unlink"
  /\ UNCHANGED <<daemon, formatter, appenders, old_value, new_value, todo, k,
                 history, event>>

RemoveAppenders ==
  /\ phase = "unlink" /\ ~Locked(name)
  /\ appenders' = [appenders EXCEPT ![name] = << >>]
  /\ todo' = todo \ {name}
  /\ phase' = "remove"
  /\ UNCHANGED <<daemon, level, formatter, old_value, new_value, k, history, event>>

\* ConfigVar stores the value.
Store ==
  /\ phase = "remove" /\ todo = {}
  /\ old_value' = new_value
  /\ phase' = "idle"
  /\ UNCHANGED <<daemon, loggers, new_value, todo, k, history, event>>

-----------------------------------------------------------------------------
(* A client's event: Logger::log, as in module Logger.                      *)

\* The level is tested before the mutex is taken.
EventCall(n, v) ==
  /\ event = Null /\ v >= level[n]
  /\ event' = [at |-> n, v |-> v, held |-> {}, pos |-> 1, wrote |-> << >>]
  /\ UNCHANGED listenerVars

EventLock ==
  /\ event # Null /\ event.at \notin event.held
  /\ event' = [event EXCEPT !.held = @ \cup {event.at}]
  /\ UNCHANGED listenerVars

Writing == event # Null /\ event.at \in event.held
Target(a) == <<a.type, a.file>>

EventWrite ==
  /\ Writing /\ event.pos <= Len(appenders[event.at])
  /\ LET a == appenders[event.at][event.pos]
     IN event' = [event EXCEPT
                    !.pos = @ + 1,
                    !.wrote = IF event.v >= a.level
                              THEN Append(@, Target(a)) ELSE @]
  /\ UNCHANGED listenerVars

\* A logger without appenders hands the event to the root, if that takes it.
EventForward ==
  /\ Writing /\ appenders[event.at] = << >> /\ event.at # Root
  /\ event' = IF event.v >= level[Root]
              THEN [event EXCEPT !.at = Root] ELSE Null
  /\ UNCHANGED listenerVars

EventReturn ==
  /\ Writing /\ event.pos > Len(appenders[event.at])
  /\ appenders[event.at] = << >> => event.at = Root
  /\ event' = Null
  /\ UNCHANGED listenerVars

-----------------------------------------------------------------------------
NoConfig == [n \in {} |-> 0]
Console == [type |-> Stdout, file |-> "", level |-> 1, own |-> FALSE,
            formatter |-> DefaultFormat]

\* A logger no one has asked for yet is as getLogger() will create it.
Init ==
  /\ daemon \in BOOLEAN
  /\ level = [n \in Names |-> 1]
  /\ formatter = [n \in Names |-> DefaultFormat]
  /\ appenders = [n \in Names |-> IF n = Root THEN <<Console>> ELSE << >>]
  /\ old_value = NoConfig /\ new_value = NoConfig
  /\ phase = "idle" /\ todo = {} /\ k = 1
  /\ before = appenders /\ ever = {}
  /\ event = Null

Listener == \/ Skip \/ SetLevel \/ SetFormatter \/ ClearAppenders
            \/ AddAppender \/ NextLogger
            \/ BeginRemoval \/ RemoveLevel \/ RemoveAppenders \/ Store

Client == \/ \E n \in Names, v \in EventLevels : EventCall(n, v)
          \/ EventLock \/ EventWrite \/ EventForward \/ EventReturn

Next == SetValue \/ Listener \/ Client
Spec == Init /\ [][Next]_vars
=============================================================================
