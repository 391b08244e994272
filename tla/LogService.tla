----------------------------- MODULE LogService -----------------------------
(***************************************************************************)
(* What the logger core promises of events, with no thread and no mutex:   *)
(* every logger is a serial server.  It takes one event at a time, offers  *)
(* it to its targets in the order of its list, which stays as it is        *)
(* meanwhile, and never takes an event a second time.                      *)
(***************************************************************************)
EXTENDS Naturals, Sequences

CONSTANTS Loggers, Appenders, Events

VARIABLES
  targets,   \* the list of targets of each logger
  handling,  \* the event each logger is handling, as a set of at most one
  pos,       \* the entry of its list the event is offered to next
  out        \* what each target has written, with the logger it came from

serviceVars == <<targets, handling, pos, out>>

Entry(l, e) == [ev |-> e, by |-> l]

Written(l, e) ==
  \E a \in Appenders : \E i \in DOMAIN out[a] : out[a][i] = Entry(l, e)

Begin(l, e) ==
  /\ handling[l] = {}
  /\ ~Written(l, e)
  /\ handling' = [handling EXCEPT ![l] = {e}]
  /\ pos' = [pos EXCEPT ![l] = 1]
  /\ UNCHANGED <<targets, out>>

\* The target at pos writes the event, or its level keeps it out.
Offer(l, e) ==
  LET a == targets[l][pos[l]]
  IN  /\ handling[l] = {e}
      /\ pos[l] \in DOMAIN targets[l]
      /\ pos' = [pos EXCEPT ![l] = @ + 1]
      /\ \/ out' = [out EXCEPT ![a] = Append(@, Entry(l, e))]
         \/ UNCHANGED out
      /\ UNCHANGED <<targets, handling>>

End(l) ==
  /\ handling[l] # {}
  /\ pos[l] \notin DOMAIN targets[l]
  /\ handling' = [handling EXCEPT ![l] = {}]
  /\ pos' = [pos EXCEPT ![l] = 1]
  /\ UNCHANGED <<targets, out>>

\* Clients change the list between two events.
Attach(l, a) ==
  /\ handling[l] = {}
  /\ targets' = [targets EXCEPT ![l] = Append(@, a)]
  /\ UNCHANGED <<handling, pos, out>>

Clear(l) ==
  /\ handling[l] = {}
  /\ targets' = [targets EXCEPT ![l] = << >>]
  /\ UNCHANGED <<handling, pos, out>>

ServiceInit ==
  /\ targets \in [Loggers -> Seq(Appenders)]
  /\ handling = [l \in Loggers |-> {}]
  /\ pos = [l \in Loggers |-> 1]
  /\ out = [a \in Appenders |-> << >>]

ServiceNext ==
  \E l \in Loggers :
    \/ \E e \in Events : Begin(l, e) \/ Offer(l, e)
    \/ End(l) \/ Clear(l)
    \/ \E a \in Appenders : Attach(l, a)

Spec == ServiceInit /\ [][ServiceNext]_serviceVars

-----------------------------------------------------------------------------
\* Two targets never disagree on the order of two events one logger wrote to
\* both (Log.cpp:311-318).
ServiceOrder ==
  \A a, b \in Appenders : \A i, j \in DOMAIN out[a] :
    i < j /\ out[a][i].by = out[a][j].by /\ out[a][i] # out[a][j] =>
      ~ \E k, m \in DOMAIN out[b] :
          k < m /\ out[b][k] = out[a][j] /\ out[b][m] = out[a][i]
=============================================================================
