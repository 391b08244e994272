------------------------- MODULE LogConfigProperties -------------------------
(* What applying a configuration has to do, and not to do, to the loggers. *)
EXTENDS LogConfig

\* The appenders a logger should have, made anew from its definition.
Wanted(n, d) ==
  LET kept == Picked(d.appenders,
                     {x \in DOMAIN d.appenders : ~Skipped(d.appenders[x])})
  IN [x \in DOMAIN kept |-> Created(kept[x], formatter[n])]

Targets(list) == [x \in DOMAIN list |-> Target(list[x])]
IsPrefixOf(s, t) == Len(s) <= Len(t) /\ s = SubSeq(t, 1, Len(s))

\* Types; the listener works on a logger until it has added its appenders.
TypeOK ==
  /\ daemon \in BOOLEAN /\ level \in [Names -> 0..5]
  /\ DOMAIN old_value \subseteq Names /\ DOMAIN new_value \subseteq Names
  /\ todo \subseteq Names /\ ever \subseteq Names
  /\ phase \in {"idle", "visit", "format", "clear", "add", "remove", "unlink"}
  /\ phase \in {"format", "clear", "add"} => todo \cap DOMAIN new_value # {}
  /\ phase = "unlink" => todo # {}
  /\ event # Null =>
       event \in [at: Names, v: EventLevels, held: SUBSET Names, pos: Nat,
                 wrote: Seq({File, Stdout} \X STRING)]

\* "Able to change the parameters of the log library dynamically" (README.md:15):
\* when the listener is done, every logger is as the configuration says, from
\* whatever configuration it comes.
Applied ==
  phase = "idle" =>
    \A n \in DOMAIN old_value :
      LET d == old_value[n]
      IN /\ level[n] = d.level
         /\ d.formatter # "" => formatter[n] = d.formatter
         /\ appenders[n] = Wanted(n, d)

\* A logger that the configuration names no more writes to nothing of its own
\* (Log.cpp:750-758).  At level 0 it hands every event to the root, which may
\* well write it.
RemovedSilent ==
  phase = "idle" =>
    \A n \in ever \ DOMAIN old_value : level[n] = UNKNOW /\ appenders[n] = << >>

\* What an event writes while the listener works goes to the old appenders or
\* to the first of the new ones, never to some of both, at its own logger as
\* at the root it may be forwarded to.
OldOrNew ==
  event # Null =>
    LET n == event.at
    IN \/ IsPrefixOf(event.wrote, Targets(before[n]))
       \/ /\ n \in DOMAIN new_value
          /\ IsPrefixOf(event.wrote, Targets(Wanted(n, new_value[n])))

\* An appender without a format of its own has the one of its logger, so the
\* listener may set the logger's at any time.
FormatsInherited ==
  \A n \in Names : \A x \in DOMAIN appenders[n] :
    appenders[n][x].own \/ appenders[n][x].formatter = formatter[n]

\* A logger that two configurations define in the same way is left alone when
\* one replaces the other: none of its events takes another way.
Undisturbed ==
  [][\A n \in DOMAIN old_value \cap DOMAIN new_value :
       phase # "idle" /\ old_value[n] = new_value[n] =>
         /\ appenders'[n] = appenders[n]
         /\ level'[n] = level[n] /\ formatter'[n] = formatter[n]]_vars

\* What toYamlString() says of a logger reads as the definition it was made
\* from, if that gives it a format and no invalid one.
DumpReadsBack ==
  phase = "idle" /\ ~daemon =>
    \A n \in DOMAIN old_value :
      LET d == old_value[n]
      IN d.formatter # "" /\ (\A x \in DOMAIN d.appenders :
                                d.appenders[x].formatter \notin Invalid)
         => ReadDefine(WriteLogger(level[n], formatter[n], appenders[n])) = d

\* A configuration written to YAML reads as itself: what reading leaves out of
\* a definition is not in it.
SavedReadsBack ==
  \A n \in DOMAIN new_value : ReadDefine(WriteDefine(new_value[n])) = new_value[n]
=============================================================================
