------------------------------- MODULE LogLine -------------------------------
(***************************************************************************)
(* The life of log events of Log/Log.h and how LogFormatter::format prints *)
(* them with the items init() has made.  A client streams content into its *)
(* event through a LogEventWrap, whose destructor logs the event; each     *)
(* target prints it item by item under its own mutex.  Every client logs   *)
(* through a logger of its own, and all loggers share the targets, so no   *)
(* logger's mutex keeps two clients apart.  Which targets an event reaches *)
(* is the matter of module Logger.                                         *)
(***************************************************************************)
EXTENDS LogFormatter

CONSTANTS
  Clients,         \* threads, each with one event
  Origin,          \* the logger each client's event was made for
  Targets,         \* the appenders of these loggers, in list order
  StreamOf,        \* the stream each target prints on
  PrintedPatterns, \* the patterns whose formatters print lines
  Pieces,          \* what clients stream into an event
  MaxPieces,       \* bound: pieces per event
  None

TargetSet == {Targets[k] : k \in DOMAIN Targets}
Streams == {StreamOf[a] : a \in TargetSet}

ASSUME LineAssumption ==
  /\ Origin \in [Clients -> STRING]
  /\ Targets \in Seq(TargetSet)
  /\ MaxPieces \in Nat
  /\ None \notin Clients

VARIABLES
  content,   \* m_ss of each client's event
  lpc,       \* where each client is: "write", "log", "print", "end"
  target,    \* the target its event is at
  at,        \* the item that is printed next
  holder,    \* the client that holds each target's mutex
  stream     \* what each stream has received, item by item

lineVars == <<content, lpc, target, at, holder, stream>>

-----------------------------------------------------------------------------
\* What an event keeps from its construction on.
Event(c) == [logger |-> Origin[c], content |-> content[c],
             fields |-> c]     \* level, file, line, elapse, ids, time, name

DefaultTime == "%Y-%m-%d %H:%M:%S"

\* What item k prints for the event of c.  An event that reached a target
\* through the root logger still prints the name of its own logger.  A time
\* format is printed in full: one that overflows the 64 bytes of strftime's
\* buffer prints what the stack held, and is left out.
Printed(c, k) ==
  LET e == Event(c)
      letter == pattern[vec[k].text[1]]
  IN CASE items[k] = "text" -> <<"text", vec[k].text>>
       [] items[k] = "error_format" -> <<"error_format", vec[k].text>>
       [] OTHER ->
            CASE letter = "m" -> <<"content", e.content>>
              [] letter = "c" -> <<"name", e.logger>>
              [] letter \in {"p", "r", "t", "F", "N", "f", "l"} ->
                   <<letter, e.fields>>
              [] letter = "d" /\ vec[k].fmt # << >> ->
                   <<"time", e.fields, vec[k].fmt>>
              [] letter = "d" -> <<"time", e.fields, DefaultTime>>
              [] letter \in {"n", "T"} -> <<letter>>

\* The line as LogFormatter::format returns it for a stream of its own.
Line(c) == [k \in DOMAIN items |-> Printed(c, k)]

Here(c) == Targets[target[c]]

-----------------------------------------------------------------------------
(* Plausible bugs.                                                         *)

\* LockTarget, with no mutex.
LockTargetNone(c) ==
  /\ lpc[c] = "log" /\ target[c] \in DOMAIN Targets
  /\ lpc' = [lpc EXCEPT ![c] = "print"]
  /\ UNCHANGED <<vars, content, target, at, holder, stream>>

-----------------------------------------------------------------------------
\* getSS() << piece, or format(), which drops the piece if vasprintf fails.
Write(c, piece) ==
  /\ pc = "done" /\ pattern \in PrintedPatterns
  /\ lpc[c] = "write" /\ Len(content[c]) < MaxPieces
  /\ content' = [content EXCEPT ![c] = Append(@, piece)]
  /\ UNCHANGED <<vars, lpc, target, at, holder, stream>>

\* ~LogEventWrap hands the event to its logger.
Destroy(c) ==
  /\ pc = "done" /\ pattern \in PrintedPatterns
  /\ lpc[c] = "write"
  /\ lpc' = [lpc EXCEPT ![c] = "log"]
  /\ UNCHANGED <<vars, content, target, at, holder, stream>>

LockTarget(c) ==
  /\ lpc[c] = "log" /\ target[c] \in DOMAIN Targets
  /\ holder[Here(c)] = None
  /\ holder' = [holder EXCEPT ![Here(c)] = c]
  /\ lpc' = [lpc EXCEPT ![c] = "print"]
  /\ UNCHANGED <<vars, content, target, at, stream>>

PrintItem(c) ==
  LET s == StreamOf[Here(c)]
  IN  /\ lpc[c] = "print" /\ at[c] \in DOMAIN items
      /\ stream' = [stream EXCEPT ![s] = Append(@, Printed(c, at[c]))]
      /\ at' = [at EXCEPT ![c] = @ + 1]
      /\ UNCHANGED <<vars, content, lpc, target, holder>>

UnlockTarget(c) ==
  /\ lpc[c] = "print" /\ at[c] \notin DOMAIN items
  /\ holder' = [holder EXCEPT ![Here(c)] = None]
  /\ at' = [at EXCEPT ![c] = 1]
  /\ target' = [target EXCEPT ![c] = @ + 1]
  /\ lpc' = [lpc EXCEPT ![c] = "log"]
  /\ UNCHANGED <<vars, content, stream>>

Logged(c) ==
  /\ lpc[c] = "log" /\ target[c] \notin DOMAIN Targets
  /\ lpc' = [lpc EXCEPT ![c] = "end"]
  /\ UNCHANGED <<vars, content, target, at, holder, stream>>

LineInit ==
  /\ Init
  /\ content = [c \in Clients |-> << >>]
  /\ lpc = [c \in Clients |-> "write"]
  /\ target = [c \in Clients |-> 1]
  /\ at = [c \in Clients |-> 1]
  /\ holder = [a \in TargetSet |-> None]
  /\ stream = [s \in Streams |-> << >>]

Client(c) ==
  \/ \E piece \in Pieces : Write(c, piece)
  \/ Destroy(c) \/ LockTarget(c) \/ PrintItem(c) \/ UnlockTarget(c) \/ Logged(c)

AllPrinted ==
  /\ pc = "done"
  /\ pattern \in PrintedPatterns => \A c \in Clients : lpc[c] = "end"
  /\ UNCHANGED <<vars, lineVars>>

LineNext ==
  \/ Parse /\ UNCHANGED lineVars
  \/ \E c \in Clients : Client(c)
  \/ AllPrinted

LineSpec == LineInit /\ [][LineNext]_<<vars, lineVars>>

\* The constructor runs init() to its end.
FairLineSpec == LineSpec /\ WF_<<vars, lineVars>>(Parse /\ UNCHANGED lineVars)

-----------------------------------------------------------------------------
\* A logged event is on every target's stream as one unbroken line, printed
\* with all the content its client streamed before the wrapper's destructor
\* and with the name of the logger it was made for.  It takes a stream of its
\* own for each target: two appenders on std::cout have two mutexes.
LinesWhole ==
  \A c \in Clients : lpc[c] = "end" =>
    \A a \in TargetSet :
      LET s == stream[StreamOf[a]]
      IN  \E start \in 0..Len(s) :
            /\ start + Len(items) <= Len(s)
            /\ \A k \in DOMAIN items : s[start + k] = Printed(c, k)
=============================================================================
