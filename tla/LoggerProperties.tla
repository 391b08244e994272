--------------------------- MODULE LoggerProperties ---------------------------
(* What the logger core has to guarantee, whatever the threads call.         *)
EXTENDS Logger, FiniteSets

Labels == {"idle", "log_lock", "log_walk", "app_lock", "app_write",
           "log_return", "fmt_lock", "fmt_walk", "fmt_set", "add_lock",
           "add_get", "add_alock", "add_set", "add_push", "del_lock",
           "del_clear", "own_lock", "own_set", "get_lock", "get_find",
           "yaml_lock", "yaml_next", "yaml_logger", "yaml_walk"}

\* Inside the loop of Logger::log.
InLog == {"log_walk", "app_lock", "app_write", "log_return"}

\* The mutexes thread t holds, read off the point its call has reached.
Holds(t) == {m \in Mutexes :
  \/ m = self[t] /\ pc[t] \in InLog \cup {"fmt_walk", "fmt_set",
       "add_get", "add_alock", "add_set", "add_push", "del_clear", "yaml_walk"}
  \/ m = from[t] /\ pc[t] \in InLog
  \/ m = from[t] /\ pc[t] = "log_lock" /\ self[t] # from[t]
  \/ m = app[t] /\ pc[t] \in {"app_write", "add_set", "own_set"}
  \/ pc[t] = "fmt_set" /\ m = Current(t)
  \/ m = Manager /\ pc[t] \in {"get_find", "yaml_next", "yaml_logger",
                               "yaml_walk"}}

\* The mutex the next step of thread t takes, if it takes one.
Wants(t) == {m \in Mutexes :
  \/ m = self[t] /\ pc[t] \in {"log_lock", "fmt_lock", "add_lock",
                                     "del_lock", "yaml_logger"}
  \/ m = app[t] /\ pc[t] \in {"app_lock", "add_get", "add_alock",
                                    "own_lock"}
  \/ /\ pc[t] \in {"fmt_walk", "yaml_walk"}
     /\ ~Exhausted(t)
     /\ m = Current(t)
  \/ m = Manager /\ pc[t] \in {"get_lock", "yaml_lock"}}

Busy(t) == pc[t] # "idle"
Blocked(t) == \E m \in Wants(t) : owner[m] # NULL

\* The level of a mutex in the order the code takes them.
Rank(m) == IF m = Manager THEN 0
           ELSE IF m = Root THEN 2
           ELSE IF m \in Loggers THEN 1 ELSE 3

-----------------------------------------------------------------------------
\* Every variable stays in its type; the one type invariant of the module.
ObjectsOK ==
  /\ level \in [Loggers -> Level]
  /\ formatter \in [Loggers -> Formatters]
  /\ appenders \in [Loggers -> Seq(Appenders)]
  /\ alevel \in [Appenders -> Level]
  /\ hasFormatter \in [Appenders -> BOOLEAN]
  /\ aformatter \in [Appenders -> Formatters]
  /\ registry \in SUBSET Loggers
ThreadsOK ==
  /\ owner \in [Mutexes -> Threads \cup {NULL}]
  /\ pc \in [Threads -> Labels]
  /\ calls \in [Threads -> Nat]
  /\ out \in [Appenders -> Seq([ev: Threads \X Nat, by: Loggers])]
LocalsOK ==
  /\ self \in [Threads -> Loggers]
  /\ from \in [Threads -> Loggers]
  /\ app \in [Threads -> Appenders]
  /\ fmt \in [Threads -> Formatters]
  /\ lvl \in [Threads -> Level]
  /\ idx \in [Threads -> Nat \ {0}]
  /\ todo \in [Threads -> SUBSET Loggers]
TypeOK == ObjectsOK /\ ThreadsOK /\ LocalsOK

\* The scoped locks of all methods together keep two threads out of the same
\* object: no logger's list and no appender's stream or formatter is used by
\* two calls at once, on any path through log, root forwarding included.
MutualExclusion ==
  \A t, u \in Threads : t # u => Holds(t) \cap Holds(u) = {}

\* A mutex is owned exactly by the thread whose call is between its lock and
\* its unlock: no path of any method leaves a mutex locked or unlocks early.
OwnershipMatchesCalls ==
  \A t \in Threads, m \in Mutexes : owner[m] = t <=> m \in Holds(t)

\* What the locals of a call say at each point of it: an event is forwarded to
\* the root only, and a loop body is entered only with an entry to work on.
CallOK(t) ==
  /\ pc[t] \in InLog \cup {"log_lock"} => self[t] \in {from[t], Root}
  /\ pc[t] \in {"app_lock", "app_write", "fmt_set"} => ~Exhausted(t)
CallsOK == \A t \in Threads : CallOK(t)

\* The inductive invariant from which the lock properties follow.
LockInv == TypeOK /\ CallsOK /\ OwnershipMatchesCalls

\* All methods take mutexes in one order: manager, logger, root logger,
\* appender (Log.cpp:766, 311, 321 and 392).
LockOrder ==
  \A t \in Threads : \A m \in Mutexes : \A n \in Wants(t) :
    owner[m] = t => Rank(m) < Rank(n)

\* Whatever mixture of logging, reconfiguration and dumping is in progress,
\* some call in progress can go on: the nested locks never close a cycle.
NoDeadlock ==
  (\E t \in Threads : Busy(t)) => \E t \in Threads : Busy(t) /\ ~Blocked(t)

\* While a method iterates over m_appenders (a std::list) with a reference to
\* its current node, nobody else changes that list (Log.cpp:248, 279, 314).
ListStableWhileIterated ==
  [][\A t \in Threads :
       pc[t] \in InLog \cup {"fmt_walk", "fmt_set", "yaml_walk"}
         => appenders'[self[t]] = appenders[self[t]]]_vars

\* LogAppender::log follows m_formatter without a test (Log.cpp:393): it is
\* never null by then, provided no client passes a null formatter, which
\* LogAppender::setFormatter accepts (Log.cpp:75-86).
NoNullFormatter ==
  \A t \in Threads :
    pc[t] = "app_write" => aformatter[app[t]] # NULL

\* m_hasFormatter says "has a formatter of its own" (Log.h:293): while it is
\* set, m_formatter is one a client gave to the appender.
OwnFormatterKept ==
  \A a \in Appenders : hasFormatter[a] => aformatter[a] \in AppenderFormatters

\* While nobody is inside a logger, each of its appenders with no formatter
\* of its own writes in the logger's present format.
InheritedFormatterCurrent ==
  \A l \in Loggers : owner[l] = NULL =>
    \A i \in DOMAIN appenders[l] :
      \/ hasFormatter[appenders[l][i]]
      \/ aformatter[appenders[l][i]] = formatter[l]

\* When Logger::log has gone through its list, the event has been written at
\* most once per entry of the list; exactly once if it is at the highest level
\* an appender is ever set to.  Whatever other threads did meanwhile, nothing
\* is lost, skipped, doubled or written elsewhere.
WrittenOncePerEntry ==
  \A t \in Threads : pc[t] = "log_return" /\ ~Forwards(t) =>
    \A a \in Appenders :
      LET written == {i \in DOMAIN out[a] : out[a][i].ev = EventOf(t)}
          entries == {i \in DOMAIN List(t) : List(t)[i] = a}
          highest == \A v \in LogLevels \cup {DEBUG} : lvl[t] >= v
      IN  /\ Cardinality(written) <= Cardinality(entries)
          /\ highest => Cardinality(written) = Cardinality(entries)

\* Two appenders of one logger never disagree on the order of two events it
\* wrote to both: its mutex is held over the whole loop (Log.cpp:311-318), so
\* one event reaches every target before the next reaches any.
SameOrder ==
  \A a, b \in Appenders : \A i, j \in DOMAIN out[a] :
    LET e == out[a][i]
        f == out[a][j]
    IN  i < j /\ e.by = f.by /\ e # f =>
          ~ \E k, m \in DOMAIN out[b] : k < m /\ out[b][k] = f /\ out[b][m] = e

\* The thread that holds logger l's mutex is in its loop over the targets.
Looping == {"log_walk", "app_lock", "app_write"}
Serves(l) ==
  owner[l] # NULL /\ self[owner[l]] = l /\ pc[owner[l]] \in Looping

\* The event each logger is handling, and the place in its list.
Handling ==
  [l \in Loggers |-> IF Serves(l) THEN {EventOf(owner[l])} ELSE {}]
Position ==
  [l \in Loggers |-> IF Serves(l) THEN idx[owner[l]] ELSE 1]

Service == INSTANCE LogService WITH
  Events <- Threads \X (0..MaxCalls),
  targets <- appenders, handling <- Handling, pos <- Position

\* All threads and mutexes together amount to one serial server per logger:
\* no event is begun before the previous one has been offered to the whole
\* list, none is handled twice by a logger, also when it was forwarded, and
\* no list changes under an event (Log.cpp:292-324).
SerialService == Service!Spec

\* Every call returns, however its locks are contended.
CallsReturn == \A t \in Threads : Busy(t) ~> ~Busy(t)

\* delAppender "deletes a log target", its parameter (Log.h:346-350): when the
\* parameter is one of the logger's targets, the others stay.
DelKeepsOthers ==
  [][\A t \in Threads :
       /\ pc[t] = "del_clear" /\ pc'[t] = "idle"
       /\ \E i \in DOMAIN List(t) : List(t)[i] = app[t]
       => \A i \in DOMAIN List(t) : List(t)[i] # app[t] =>
            \E j \in DOMAIN appenders'[self[t]] :
              appenders'[self[t]][j] = List(t)[i]]_vars
=============================================================================
