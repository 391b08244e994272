---------------------------- MODULE LogConfigProofs ----------------------------
(***************************************************************************)
(* Applying configurations, for any loggers, any configurations and any    *)
(* events clients log meanwhile: loggers end as they are configured, those *)
(* that are named no more are silent, those whose definition stays are     *)
(* left alone, an event meets old targets or new ones, appenders without a *)
(* format have their logger's, and what is written reads as itself.        *)
(***************************************************************************)
EXTENDS LogConfigProperties, WellFoundedInduction, SequenceTheorems, TLAPS

Changing == {"format", "clear", "add"}
Removing == {"remove", "unlink"}
Silent(n) == level[n] = UNKNOW /\ appenders[n] = << >>

\* Where the listener is: in the first loop it has still to look at loggers of
\* the new value, and changes one whose definition is another; in the second,
\* at loggers that are in the old value alone.
PhaseOK ==
  /\ DOMAIN level = Names /\ DOMAIN formatter = Names /\ DOMAIN appenders = Names
  /\ DOMAIN old_value \subseteq ever /\ DOMAIN new_value \subseteq ever
  /\ ever \subseteq Names
  /\ phase \in {"idle", "visit"} \cup Changing \cup Removing
  /\ phase \in {"visit"} \cup Changing => todo \subseteq DOMAIN new_value
  /\ phase \in Changing => todo # {} /\ ~Unchanged
  /\ phase \in Removing => todo \subseteq Removed
  /\ phase = "unlink" => todo # {}

\* Who is silent while the listener works: whom neither value names, and once
\* the removal goes on, whom it has done with.
SilentSoFar ==
  /\ phase = "idle" => \A n \in ever \ DOMAIN old_value : Silent(n)
  /\ phase \in {"visit"} \cup Changing =>
       \A n \in ever \ (DOMAIN old_value \cup DOMAIN new_value) : Silent(n)
  /\ phase \in Removing => \A n \in ever \ (DOMAIN new_value \cup todo) : Silent(n)
  /\ phase = "unlink" => level[name] = UNKNOW

ListenerInv == PhaseOK /\ SilentSoFar

-----------------------------------------------------------------------------
\* std::set gives the listener its loggers in order: a set of names that is not
\* empty has a first one.
LEMMA FirstIn ==
  ASSUME NEW S \in SUBSET Names, S # {}
  PROVE  First(S) \in S
<1>1. S \subseteq Nat
  BY ConfigAssumption
<1>2. \E x \in S : \A y \in S : ~(<<y, x>> \in OpToRel(<, Nat))
  BY <1>1, NatLessThanWellFounded, WFMin
<1>3. PICK x \in S : \A y \in S : ~(y < x)
  BY <1>1, <1>2 DEF OpToRel
<1>4. \A y \in S : x <= y
  BY <1>1, <1>3
<1> QED
  BY <1>4 DEF First

LEMMA NameIn ==
  ASSUME PhaseOK, todo # {}, phase # "idle"
  PROVE  name \in todo /\ name \in Names /\ todo \subseteq Names
<1>1. todo \subseteq Names
  BY DEF PhaseOK, Changing, Removing, Removed
<1> QED
  BY <1>1, FirstIn DEF name

LEMMA ListenerStart == Init => ListenerInv
  BY DEF Init, ListenerInv, PhaseOK, SilentSoFar, NoConfig, Changing, Removing

-----------------------------------------------------------------------------
\* One lemma for each step of the listener.

LEMMA SetValueStep ==
  ASSUME ListenerInv, SetValue
  PROVE  ListenerInv'
<1> USE DEF ListenerInv
<1>1. PICK text \in Texts : new_value' = [n \in DOMAIN text |-> ReadDefine(text[n])]
  BY DEF SetValue
<1>2. DOMAIN new_value' \subseteq Names
  BY <1>1, ConfigAssumption
<1>3. /\ phase = "idle" /\ phase' = "visit" /\ todo' = DOMAIN new_value'
      /\ ever' = ever \cup DOMAIN new_value'
      /\ UNCHANGED <<loggers, old_value>>
  BY DEF SetValue
<1>4. PhaseOK'
  BY <1>2, <1>3 DEF PhaseOK, Changing, Removing, loggers
<1>5. SilentSoFar'
  BY <1>3 DEF SilentSoFar, Silent, Changing, Removing, loggers
<1> QED
  BY <1>4, <1>5

LEMMA SkipStep ==
  ASSUME ListenerInv, Skip
  PROVE  ListenerInv'
<1>1. /\ phase = "visit" /\ phase' = phase /\ todo' = todo \ {name}
      /\ UNCHANGED <<loggers, old_value, new_value, ever>>
  BY DEF Skip, history
<1> QED
  BY <1>1 DEF ListenerInv, PhaseOK, SilentSoFar, Silent, Changing, Removing, loggers

LEMMA SetLevelStep ==
  ASSUME ListenerInv, SetLevel
  PROVE  ListenerInv'
<1> USE DEF ListenerInv
<1>1. /\ phase = "visit" /\ todo # {} /\ ~Unchanged /\ phase' \in {"format", "clear"}
      /\ level' = [level EXCEPT ![name] = define.level]
      /\ UNCHANGED <<formatter, appenders, old_value, new_value, todo, ever>>
  BY DEF SetLevel, history
<1>2. name \in todo /\ name \in DOMAIN new_value
  BY <1>1, NameIn DEF PhaseOK
<1>3. PhaseOK'
  BY <1>1 DEF PhaseOK, Changing, Removing, Unchanged, name, define
<1>4. SilentSoFar'
  BY <1>1, <1>2 DEF SilentSoFar, Silent, Changing, Removing, PhaseOK
<1> QED
  BY <1>3, <1>4

\* SetFormatter, ClearAppenders and AddAppender change the lists of the logger
\* at hand, which the new value defines.
LEMMA ChangeStep ==
  ASSUME ListenerInv, SetFormatter \/ ClearAppenders \/ AddAppender
  PROVE  ListenerInv'
<1> USE DEF ListenerInv
<1>1. /\ phase \in Changing /\ phase' \in Changing
      /\ UNCHANGED <<level, old_value, new_value, todo, ever>>
      /\ DOMAIN appenders' = DOMAIN appenders
      /\ DOMAIN formatter' = DOMAIN formatter
      /\ \A n \in DOMAIN appenders \ {name} : appenders'[n] = appenders[n]
  BY DEF SetFormatter, ClearAppenders, AddAppender, Changing, history
<1>2. name \in todo /\ name \in DOMAIN new_value
  BY <1>1, NameIn DEF PhaseOK, Changing
<1>3. PhaseOK'
  BY <1>1 DEF PhaseOK, Changing, Removing, Unchanged, name, define
<1>4. SilentSoFar'
  BY <1>1, <1>2 DEF SilentSoFar, Silent, Changing, Removing, PhaseOK
<1> QED
  BY <1>3, <1>4

LEMMA NextLoggerStep ==
  ASSUME ListenerInv, NextLogger
  PROVE  ListenerInv'
<1>1. /\ phase = "add" /\ phase' = "visit" /\ todo' = todo \ {name}
      /\ UNCHANGED <<loggers, old_value, new_value, ever>>
  BY DEF NextLogger, history
<1> QED
  BY <1>1 DEF ListenerInv, PhaseOK, SilentSoFar, Silent, Changing, Removing, loggers

LEMMA BeginRemovalStep ==
  ASSUME ListenerInv, BeginRemoval
  PROVE  ListenerInv'
<1>1. /\ phase = "visit" /\ phase' = "remove" /\ todo' = Removed
      /\ UNCHANGED <<loggers, old_value, new_value, ever>>
  BY DEF BeginRemoval, history
<1> QED
  BY <1>1 DEF ListenerInv, PhaseOK, SilentSoFar, Silent, Changing, Removing, loggers,
              Removed

LEMMA RemoveLevelStep ==
  ASSUME ListenerInv, RemoveLevel
  PROVE  ListenerInv'
<1> USE DEF ListenerInv
<1>1. /\ phase = "remove" /\ phase' = "unlink" /\ todo # {}
      /\ level' = [level EXCEPT ![name] = UNKNOW]
      /\ UNCHANGED <<formatter, appenders, old_value, new_value, todo, ever>>
  BY DEF RemoveLevel, history
<1>2. name \in todo /\ name \in Names
  BY <1>1, NameIn
<1>3. PhaseOK'
  BY <1>1 DEF PhaseOK, Changing, Removing, Removed
<1>4. level'[name'] = UNKNOW
  BY <1>1, <1>2 DEF PhaseOK, name
<1>5. SilentSoFar'
  BY <1>1, <1>2, <1>4 DEF SilentSoFar, Silent, Changing, Removing, PhaseOK
<1> QED
  BY <1>3, <1>5

LEMMA RemoveAppendersStep ==
  ASSUME ListenerInv, RemoveAppenders
  PROVE  ListenerInv'
<1> USE DEF ListenerInv
<1>1. /\ phase = "unlink" /\ phase' = "remove" /\ todo' = todo \ {name}
      /\ appenders' = [appenders EXCEPT ![name] = << >>]
      /\ UNCHANGED <<level, formatter, old_value, new_value, ever>>
  BY DEF RemoveAppenders, history
<1>2. todo # {} /\ level[name] = UNKNOW
  BY <1>1 DEF PhaseOK, SilentSoFar
<1>3. name \in todo /\ name \in Names
  BY <1>1, <1>2, NameIn
<1>4. PhaseOK'
  BY <1>1 DEF PhaseOK, Changing, Removing, Removed
<1>6. \A n \in ever \ (DOMAIN new_value \cup (todo \ {name})) :
        level[n] = UNKNOW /\ appenders'[n] = << >>
  BY <1>1, <1>2, <1>3 DEF SilentSoFar, Silent, Removing, PhaseOK
<1>7. SilentSoFar'
  BY <1>1, <1>6 DEF SilentSoFar, Silent, Changing, Removing
<1> QED
  BY <1>4, <1>7

LEMMA StoreStep ==
  ASSUME ListenerInv, Store
  PROVE  ListenerInv'
<1>1. /\ phase = "remove" /\ todo = {} /\ phase' = "idle" /\ old_value' = new_value
      /\ UNCHANGED <<loggers, new_value, todo, ever>>
  BY DEF Store, history
<1> QED
  BY <1>1 DEF ListenerInv, PhaseOK, SilentSoFar, Silent, Changing, Removing, loggers

\* An event changes nothing of the loggers.
LEMMA ClientLeaves ==
  ASSUME Client \/ UNCHANGED vars
  PROVE  UNCHANGED listenerVars
BY DEF Client, EventCall, EventLock, EventWrite, EventForward, EventReturn, vars

LEMMA ListenerStep ==
  ASSUME ListenerInv, [Next]_vars
  PROVE  ListenerInv'
<1>1. CASE Client \/ UNCHANGED vars
  <2>1. UNCHANGED <<level, formatter, appenders, old_value, new_value, phase, todo, ever>>
    BY <1>1, ClientLeaves DEF listenerVars, loggers, history
  <2> QED
    BY <2>1 DEF ListenerInv, PhaseOK, SilentSoFar, Silent, Removed, Unchanged, name, define
<1>2. CASE SetValue
  BY <1>2, SetValueStep
<1>3. CASE Listener
  BY <1>3, SkipStep, SetLevelStep, ChangeStep, NextLoggerStep, BeginRemovalStep,
     RemoveLevelStep, RemoveAppendersStep, StoreStep DEF Listener
<1> QED
  BY <1>1, <1>2, <1>3 DEF Next

LEMMA Invariant == Spec => []ListenerInv
BY ListenerStart, ListenerStep, PTL DEF Spec

\* Loggers the configuration names no more pass nothing to appenders of their
\* own (Log.cpp:750-758), after any sequence of configurations.
THEOREM SilentWhenRemoved == Spec => []RemovedSilent
<1>1. ListenerInv => RemovedSilent
  BY DEF ListenerInv, SilentSoFar, Silent, RemovedSilent
<1> QED
  BY Invariant, <1>1, PTL

-----------------------------------------------------------------------------
\* Any step, while the listener works, leaves a logger alone which both values
\* define in the same way.
LEMMA LeftAlone ==
  ASSUME ListenerInv, [Next]_vars, phase # "idle",
         NEW n \in DOMAIN old_value \cap DOMAIN new_value,
         old_value[n] = new_value[n]
  PROVE  /\ appenders'[n] = appenders[n]
         /\ level'[n] = level[n] /\ formatter'[n] = formatter[n]
<1> USE DEF ListenerInv
<1>1. n \in Names
  BY DEF PhaseOK
<1>2. ASSUME ~Unchanged, name \in DOMAIN new_value PROVE n # name
  BY <1>2 DEF Unchanged, Same, define
<1>3. CASE Client \/ UNCHANGED vars
  BY <1>3, ClientLeaves DEF listenerVars, loggers
<1>4. CASE SetValue
  BY <1>4 DEF SetValue
<1>5. CASE Skip \/ NextLogger \/ BeginRemoval \/ Store
  BY <1>5 DEF Skip, NextLogger, BeginRemoval, Store, loggers
<1>6. CASE SetLevel
  <2>1. ~Unchanged /\ todo # {} /\ phase = "visit"
    BY <1>6 DEF SetLevel
  <2>2. name \in DOMAIN new_value
    BY <2>1, NameIn DEF PhaseOK
  <2> QED
    BY <1>1, <1>2, <1>6, <2>1, <2>2 DEF SetLevel, PhaseOK
<1>7. CASE SetFormatter \/ ClearAppenders \/ AddAppender
  <2>1. phase \in Changing
    BY <1>7 DEF SetFormatter, ClearAppenders, AddAppender, Changing
  <2>2. ~Unchanged /\ name \in DOMAIN new_value
    BY <2>1, NameIn DEF PhaseOK, Changing
  <2> QED
    BY <1>1, <1>2, <1>7, <2>2 DEF SetFormatter, ClearAppenders, AddAppender, PhaseOK
<1>8. CASE RemoveLevel \/ RemoveAppenders
  <2>1. phase \in Removing /\ todo # {}
    BY <1>8 DEF RemoveLevel, RemoveAppenders, Removing, PhaseOK
  <2>2. name \in todo /\ todo \subseteq Removed
    BY <2>1, NameIn DEF PhaseOK, Removing
  <2>3. n # name
    BY <2>2 DEF Removed
  <2> QED
    BY <1>1, <1>8, <2>3 DEF RemoveLevel, RemoveAppenders, PhaseOK
<1> QED
  BY <1>3, <1>4, <1>5, <1>6, <1>7, <1>8 DEF Next, Listener

\* A logger two configurations define alike is not touched when one replaces the
\* other (Log.cpp:710-715).
THEOREM LoggersLeftAlone == Spec => Undisturbed
<1> DEFINE A == \A n \in DOMAIN old_value \cap DOMAIN new_value :
                 phase # "idle" /\ old_value[n] = new_value[n] =>
                   /\ appenders'[n] = appenders[n]
                   /\ level'[n] = level[n] /\ formatter'[n] = formatter[n]
<1>1. ListenerInv /\ [Next]_vars => A
  BY LeftAlone
<1>2. ListenerInv /\ [Next]_vars => [A]_vars
  BY <1>1
<1> QED
  BY Invariant, <1>2, PTL DEF Spec, Undisturbed

-----------------------------------------------------------------------------
\* Lists of appenders: sequences of something, whatever a definition holds.
IsList(s) == \E S : s \in Seq(S)
HaveFormats(s) == \A x \in DOMAIN s : "formatter" \in DOMAIN s[x]
Inherits(s, f) == \A x \in DOMAIN s : s[x].own \/ s[x].formatter = f
ListOK(s, f) == IsList(s) /\ HaveFormats(s) /\ Inherits(s, f)
ListsInherit == \A n \in Names : ListOK(appenders[n], formatter[n])

LEMMA AppendedList ==
  ASSUME NEW s, IsList(s), NEW e
  PROVE  /\ IsList(Append(s, e))
         /\ \A x \in DOMAIN Append(s, e) :
              Append(s, e)[x] = e \/ (x \in DOMAIN s /\ Append(s, e)[x] = s[x])
<1>1. PICK S : s \in Seq(S)
  BY DEF IsList
<1>2. s \in Seq(S \cup {e}) /\ e \in S \cup {e}
  BY <1>1
<1>3. Append(s, e) \in Seq(S \cup {e})
  BY <1>2
<1>4. \A x \in DOMAIN Append(s, e) :
        Append(s, e)[x] = e \/ (x \in DOMAIN s /\ Append(s, e)[x] = s[x])
  BY <1>2
<1> QED
  BY <1>3, <1>4 DEF IsList

LEMMA ReformattedList ==
  ASSUME NEW s, IsList(s), NEW f
  PROVE  /\ IsList(Reformatted(s, f))
         /\ DOMAIN Reformatted(s, f) = DOMAIN s
         /\ \A x \in DOMAIN s : s[x].own => Reformatted(s, f)[x] = s[x]
         /\ \A x \in DOMAIN s :
              ~s[x].own => Reformatted(s, f)[x] = [s[x] EXCEPT !.formatter = f]
<1>1. PICK S : s \in Seq(S)
  BY DEF IsList
<1> DEFINE T == S \cup {[r EXCEPT !.formatter = f] : r \in S}
<1>2. Reformatted(s, f) \in Seq(T)
  <2>1. Len(s) \in Nat /\ DOMAIN s = 1..Len(s) /\ \A x \in 1..Len(s) : s[x] \in S
    BY <1>1
  <2>2. \A x \in 1..Len(s) :
          (IF s[x].own THEN s[x] ELSE [s[x] EXCEPT !.formatter = f]) \in T
    BY <2>1
  <2>3. Reformatted(s, f) = [x \in 1..Len(s) |->
          IF s[x].own THEN s[x] ELSE [s[x] EXCEPT !.formatter = f]]
    BY <2>1 DEF Reformatted
  <2> HIDE DEF T
  <2> QED
    BY <2>1, <2>2, <2>3
<1>3. IsList(Reformatted(s, f))
  <2> HIDE DEF T
  <2> QED
    BY <1>2 DEF IsList
<1>4. DOMAIN Reformatted(s, f) = DOMAIN s
  BY DEF Reformatted
<1>5. \A x \in DOMAIN s : s[x].own => Reformatted(s, f)[x] = s[x]
  BY DEF Reformatted
<1>6. \A x \in DOMAIN s :
        ~s[x].own => Reformatted(s, f)[x] = [s[x] EXCEPT !.formatter = f]
  BY DEF Reformatted
<1> QED
  BY <1>3, <1>4, <1>5, <1>6

LEMMA EmptyListOK == \A f : ListOK(<< >>, f)
BY DEF ListOK, IsList, HaveFormats, Inherits

\* What the constructors and addAppender make of a definition.
LEMMA CreatedInherits ==
  ASSUME NEW a, NEW f
  PROVE  /\ "formatter" \in DOMAIN Created(a, f)
         /\ Created(a, f).own \/ Created(a, f).formatter = f
BY DEF Created

LEMMA AppendedOK ==
  ASSUME NEW s, NEW f, ListOK(s, f), NEW a
  PROVE  ListOK(Append(s, Created(a, f)), f)
<1> DEFINE e == Created(a, f)
<1>1. IsList(s) /\ HaveFormats(s) /\ Inherits(s, f)
  BY DEF ListOK
<1>2. "formatter" \in DOMAIN e /\ (e.own \/ e.formatter = f)
  BY CreatedInherits
<1> HIDE DEF e
<1>3. /\ IsList(Append(s, e))
      /\ \A x \in DOMAIN Append(s, e) :
           Append(s, e)[x] = e \/ (x \in DOMAIN s /\ Append(s, e)[x] = s[x])
  BY <1>1, AppendedList
<1>4. HaveFormats(Append(s, e)) /\ Inherits(Append(s, e), f)
  BY <1>1, <1>2, <1>3, Zenon DEF HaveFormats, Inherits
<1> QED
  BY <1>3, <1>4 DEF ListOK, e

LEMMA ReformattedOK ==
  ASSUME NEW s, NEW f, ListOK(s, f), NEW g
  PROVE  ListOK(Reformatted(s, g), g)
<1>1. IsList(s) /\ HaveFormats(s)
  BY DEF ListOK
<1> DEFINE t == Reformatted(s, g)
<1>2. /\ IsList(t) /\ DOMAIN t = DOMAIN s
      /\ \A x \in DOMAIN s : s[x].own => t[x] = s[x]
      /\ \A x \in DOMAIN s : ~s[x].own => t[x] = [s[x] EXCEPT !.formatter = g]
  BY <1>1, ReformattedList
<1> HIDE DEF t
<1>3. ASSUME NEW x \in DOMAIN t
      PROVE  "formatter" \in DOMAIN t[x] /\ (t[x].own \/ t[x].formatter = g)
  <2>1. x \in DOMAIN s /\ "formatter" \in DOMAIN s[x]
    BY <1>1, <1>2 DEF HaveFormats
  <2>2. CASE s[x].own
    <3>1. t[x] = s[x]
      BY <1>2, <2>1, <2>2
    <3> QED
      BY <2>1, <2>2, <3>1, Zenon
  <2>3. CASE ~s[x].own
    <3>1. t[x] = [s[x] EXCEPT !.formatter = g]
      BY <1>2, <2>1, <2>3
    <3>2. t[x].formatter = g /\ "formatter" \in DOMAIN t[x]
      BY <2>1, <3>1
    <3> QED
      BY <3>2
  <2> QED
    BY <2>2, <2>3
<1>4. HaveFormats(t) /\ Inherits(t, g)
  BY <1>3 DEF HaveFormats, Inherits
<1> QED
  BY <1>2, <1>4 DEF ListOK, t

LEMMA ListsStart == Init => ListsInherit
<1> SUFFICES ASSUME Init, NEW n \in Names
             PROVE  ListOK(appenders[n], formatter[n])
  BY DEF ListsInherit
<1>1. formatter[n] = DefaultFormat
      /\ (appenders[n] = <<Console>> \/ appenders[n] = << >>)
  BY DEF Init
<1>2. ListOK(<<Console>>, DefaultFormat)
  <2>1. <<Console>> \in Seq({Console}) /\ DOMAIN <<Console>> = {1} /\ <<Console>>[1] = Console
    OBVIOUS
  <2>2. "formatter" \in DOMAIN Console /\ Console.formatter = DefaultFormat
    BY DEF Console
  <2> QED
    BY <2>1, <2>2 DEF ListOK, IsList, HaveFormats, Inherits
<1> QED
  BY <1>1, <1>2, EmptyListOK

LEMMA ListsStep ==
  ASSUME ListenerInv, ListsInherit, [Next]_vars
  PROVE  ListsInherit'
<1> SUFFICES ASSUME NEW n \in Names
             PROVE  ListOK(appenders'[n], formatter'[n])
  BY DEF ListsInherit
<1> DEFINE s == appenders[n]
<1>1. ListOK(s, formatter[n]) /\ n \in DOMAIN appenders /\ n \in DOMAIN formatter
  BY DEF ListsInherit, ListenerInv, PhaseOK
<1> HIDE DEF s
<1>2. CASE UNCHANGED <<appenders, formatter>>
  BY <1>1, <1>2 DEF s
<1>3. CASE SetFormatter
  <2>1. CASE n = name
    <3>1. formatter'[n] = define.formatter /\ appenders'[n] = Reformatted(s, define.formatter)
      BY <1>1, <1>3, <2>1 DEF SetFormatter, s
    <3> QED
      BY <1>1, <3>1, ReformattedOK
  <2>2. CASE n # name
    <3>1. formatter'[n] = formatter[n] /\ appenders'[n] = s
      BY <1>1, <1>3, <2>2 DEF SetFormatter, s
    <3> QED
      BY <1>1, <3>1
  <2> QED
    BY <2>1, <2>2
<1>4. CASE ClearAppenders \/ RemoveAppenders
  <2>1. formatter' = formatter /\ (appenders'[n] = << >> \/ appenders'[n] = s)
    BY <1>1, <1>4 DEF ClearAppenders, RemoveAppenders, s
  <2> QED
    BY <1>1, <2>1, EmptyListOK
<1>5. CASE AddAppender
  <2>1. /\ formatter' = formatter
        /\ \/ appenders'[n] = s
           \/ appenders'[n] = Append(s, Created(define.appenders[k], formatter[n]))
    BY <1>1, <1>5 DEF AddAppender, s
  <2> QED
    BY <1>1, <2>1, AppendedOK
<1>6. CASE Client \/ UNCHANGED vars
  BY <1>2, <1>6, ClientLeaves DEF listenerVars, loggers
<1>7. CASE SetValue \/ Skip \/ SetLevel \/ NextLogger \/ BeginRemoval \/ RemoveLevel \/ Store
  <2>1. UNCHANGED <<appenders, formatter>>
    BY <1>7 DEF SetValue, Skip, SetLevel, NextLogger, BeginRemoval, RemoveLevel, Store, loggers
  <2> QED
    BY <1>2, <2>1
<1> QED
  BY <1>3, <1>4, <1>5, <1>6, <1>7 DEF Next, Listener

\* An appender without a format of its own has its logger's, before and after
\* every step of the listener (Log.cpp:279-301).
THEOREM FormatsFollow == Spec => []FormatsInherited
<1>1. Init => ListenerInv /\ ListsInherit
  BY ListenerStart, ListsStart
<1>2. (ListenerInv /\ ListsInherit) /\ [Next]_vars => (ListenerInv /\ ListsInherit)'
  BY ListenerStep, ListsStep
<1>3. ListsInherit => FormatsInherited
  BY DEF ListsInherit, ListOK, Inherits, FormatsInherited
<1> QED
  BY <1>1, <1>2, <1>3, PTL DEF Spec

-----------------------------------------------------------------------------
\* Counterexamples up to n of which 0 is none, and each has one before it, are
\* none at all.
LEMMA NoCounterexample ==
  ASSUME NEW n \in Nat, NEW C \in SUBSET (0..n), 0 \notin C,
         \A j \in 1..n : j \in C => j - 1 \in C
  PROVE  C = {}
<1> SUFFICES ASSUME C # {} PROVE FALSE
  OBVIOUS
<1>1. C \subseteq Nat
  OBVIOUS
<1>2. \E x \in C : \A y \in C : ~(<<y, x>> \in OpToRel(<, Nat))
  BY <1>1, NatLessThanWellFounded, WFMin
<1>3. PICK x \in C : \A y \in C : ~(y < x)
  BY <1>1, <1>2 DEF OpToRel
<1>4. x \in 1..n
  BY <1>1, <1>3
<1> QED
  BY <1>3, <1>4

\* The loop of Taken: there is a function as it asks for.
LEMMA TakenLoop ==
  ASSUME NEW S, NEW s \in Seq(S), NEW I
  PROVE  /\ DOMAIN Taken(s, I) = 0..Len(s)
         /\ Taken(s, I)[0] = << >>
         /\ \A j \in 1..Len(s) :
              Taken(s, I)[j] = IF j \in I THEN Append(Taken(s, I)[j - 1], s[j])
                               ELSE Taken(s, I)[j - 1]
<1> DEFINE
      Turn(f, j) == IF j = 0 THEN << >>
                    ELSE IF j \in I THEN Append(f[j - 1], s[j]) ELSE f[j - 1]
      Loop(f, n) == DOMAIN f = 0..n /\ \A j \in 0..n : f[j] = Turn(f, j)
      Exists(n) == \E f : Loop(f, n)
      C == {n \in 0..Len(s) : ~Exists(n)}
<1>1. 0 \notin C
  <2> DEFINE f == [j \in 0..0 |-> << >>]
  <2>1. DOMAIN f = 0..0 /\ \A j \in 0..0 : f[j] = << >> /\ j = 0
    OBVIOUS
  <2>2. Loop(f, 0)
    BY <2>1
  <2> QED
    BY <2>2
<1>2. ASSUME NEW n \in 1..Len(s), n \in C PROVE n - 1 \in C
  <2>1. n - 1 \in 0..Len(s)
    OBVIOUS
  <2>2. SUFFICES ASSUME Exists(n - 1) PROVE Exists(n)
    <3> HIDE DEF Exists
    <3> QED
      BY <1>2, <2>1
  <2>3. PICK f : Loop(f, n - 1)
    BY <2>2
  <2> DEFINE g == [j \in 0..n |-> IF j = n THEN Turn(f, n) ELSE f[j]]
  <2>4. \A j \in 0..n : g[j] = Turn(g, j)
    <3> SUFFICES ASSUME NEW j \in 0..n PROVE g[j] = Turn(g, j)
      OBVIOUS
    <3>1. j # 0 => g[j - 1] = f[j - 1]
      OBVIOUS
    <3>2. g[j] = Turn(f, j)
      <4>1. n \in Nat /\ n # 0 /\ (j # n => j \in 0..(n - 1))
        OBVIOUS
      <4>2. \A i \in 0..(n - 1) : f[i] = Turn(f, i)
        BY <2>3
      <4> HIDE DEF Turn
      <4> QED
        BY <4>1, <4>2
    <3> QED
      BY <3>1, <3>2
  <2>5. DOMAIN g = 0..n
    OBVIOUS
  <2> HIDE DEF g
  <2> QED
    BY <2>4, <2>5
<1>3. C = {}
  <2> HIDE DEF C
  <2>1. C \subseteq 0..Len(s) /\ Len(s) \in Nat
    BY DEF C
  <2> QED
    BY <1>1, <1>2, <2>1, NoCounterexample
<1>4. PICK f : Loop(f, Len(s))
  BY <1>3
<1>5. f = [j \in 0..Len(s) |-> Turn(f, j)]
  <2>1. Loop(f, Len(s))
    BY <1>4
  <2> HIDE DEF Turn
  <2> QED
    BY <2>1
<1>6. Taken(s, I) = [j \in 0..Len(s) |-> Turn(Taken(s, I), j)]
  BY <1>5 DEF Taken
<1>7. /\ DOMAIN Taken(s, I) = 0..Len(s)
      /\ \A j \in 0..Len(s) : Taken(s, I)[j] = Turn(Taken(s, I), j)
  <2> HIDE DEF Turn
  <2> QED
    BY <1>6
<1>8. Taken(s, I)[0] = << >>
  BY <1>7
<1>9. ASSUME NEW j \in 1..Len(s)
      PROVE  Taken(s, I)[j] = IF j \in I THEN Append(Taken(s, I)[j - 1], s[j])
                              ELSE Taken(s, I)[j - 1]
  <2>1. j \in 0..Len(s) /\ j # 0
    OBVIOUS
  <2> QED
    BY <1>7, <2>1
<1> HIDE DEF Turn
<1> QED
  BY <1>7, <1>8, <1>9

\* What is taken is in s, at the places asked for.
LEMMA TakenIn ==
  ASSUME NEW S, NEW s \in Seq(S), NEW I
  PROVE  \A j \in 0..Len(s) : Taken(s, I)[j] \in Seq({s[i] : i \in I \cap DOMAIN s})
<1> DEFINE T == {s[i] : i \in I \cap DOMAIN s}
           C == {j \in 0..Len(s) : Taken(s, I)[j] \notin Seq(T)}
<1>0. /\ Taken(s, I)[0] = << >>
      /\ \A j \in 1..Len(s) :
           Taken(s, I)[j] = IF j \in I THEN Append(Taken(s, I)[j - 1], s[j])
                            ELSE Taken(s, I)[j - 1]
  BY TakenLoop
<1>1. 0 \notin C
  <2> HIDE DEF T
  <2>1. << >> \in Seq(T) /\ Taken(s, I)[0] = << >>
    BY <1>0
  <2> QED
    BY ONLY <2>1
<1>2. ASSUME NEW j \in 1..Len(s), j \in C PROVE j - 1 \in C
  <2> SUFFICES ASSUME Taken(s, I)[j - 1] \in Seq(T) PROVE Taken(s, I)[j] \in Seq(T)
    BY <1>2
  <2>1. j \in I => s[j] \in T
    OBVIOUS
  <2>2. \/ Taken(s, I)[j] = Taken(s, I)[j - 1]
        \/ j \in I /\ Taken(s, I)[j] = Append(Taken(s, I)[j - 1], s[j])
    BY <1>0
  <2> HIDE DEF T
  <2>3. ASSUME NEW u \in Seq(T), NEW e \in T PROVE Append(u, e) \in Seq(T)
    OBVIOUS
  <2> QED
    BY ONLY <2>1, <2>2, <2>3, Taken(s, I)[j - 1] \in Seq(T)
<1>3. C \subseteq 0..Len(s) /\ Len(s) \in Nat
  OBVIOUS
<1> HIDE DEF C
<1>4. C = {}
  BY <1>1, <1>2, <1>3, NoCounterexample
<1> QED
  BY <1>4 DEF C

\* What has been taken stays in front of what is taken later.
LEMMA TakenPrefix ==
  ASSUME NEW S, NEW s \in Seq(S), NEW I, NEW i \in 0..Len(s)
  PROVE  LET t == Taken(s, I)[i]
             u == Picked(s, I)
         IN Len(t) <= Len(u) /\ \A x \in 1..Len(t) : u[x] = t[x]
<1> DEFINE t == Taken(s, I)[i]
           T == {s[j] : j \in I \cap DOMAIN s}
           Begins(u) == Len(t) <= Len(u) /\ \A x \in 1..Len(t) : u[x] = t[x]
           C == {j \in 0..Len(s) : j >= i /\ ~Begins(Taken(s, I)[j])}
<1>0. t \in Seq(T)
  BY TakenIn
<1> HIDE DEF T
<1>1. i \notin C
  BY <1>0
<1>2. ASSUME NEW j \in 1..Len(s), j \in C PROVE j - 1 \in C
  <2>1. j > i
    BY <1>1, <1>2
  <2> SUFFICES ASSUME Begins(Taken(s, I)[j - 1]) PROVE Begins(Taken(s, I)[j])
    BY <1>2, <2>1
  <2>2. Taken(s, I)[j - 1] \in Seq(T)
    BY TakenIn DEF T
  <2> HIDE DEF t
  <2>3. CASE j \in I
    <3> DEFINE u == Taken(s, I)[j - 1]
    <3>1. Taken(s, I)[j] = Append(u, s[j])
      BY <2>3, TakenLoop
    <3>2. /\ Len(Append(u, s[j])) = Len(u) + 1
          /\ \A x \in 1..Len(u) : Append(u, s[j])[x] = u[x]
      BY <2>2, <2>3 DEF T
    <3>3. Len(t) <= Len(u) /\ Len(u) \in Nat /\ Len(t) \in Nat /\ \A x \in 1..Len(t) : u[x] = t[x]
      BY <1>0, <2>2
    <3> HIDE DEF u
    <3> QED
      BY <3>1, <3>2, <3>3
  <2>4. CASE j \notin I
    <3>1. Taken(s, I)[j] = Taken(s, I)[j - 1]
      BY <2>4, TakenLoop
    <3> QED
      BY <3>1
  <2> QED
    BY <2>3, <2>4
<1>3. C \subseteq 0..Len(s) /\ 0 \notin C /\ Len(s) \in Nat
  BY <1>1
<1> HIDE DEF C
<1>4. C = {}
  BY <1>2, <1>3, NoCounterexample
<1>5. Begins(Taken(s, I)[Len(s)])
  BY <1>4 DEF C
<1> QED
  BY <1>5 DEF Picked

\* Taking everything leaves the list as it is.
LEMMA PickedAll ==
  ASSUME NEW S, NEW s \in Seq(S), NEW I, DOMAIN s \subseteq I
  PROVE  Picked(s, I) = s
<1> DEFINE T == {s[i] : i \in I \cap DOMAIN s}
           Copies(j) == /\ Len(Taken(s, I)[j]) = j
                        /\ \A x \in 1..j : Taken(s, I)[j][x] = s[x]
           C == {j \in 0..Len(s) : ~Copies(j)}
<1>1. 0 \notin C
  <2>1. Taken(s, I)[0] = << >>
    BY TakenLoop
  <2> QED
    BY <2>1
<1>2. ASSUME NEW j \in 1..Len(s), j \in C PROVE j - 1 \in C
  <2> SUFFICES ASSUME Copies(j - 1) PROVE Copies(j)
    BY <1>2
  <2> DEFINE u == Taken(s, I)[j - 1]
  <2>1. u \in Seq(T)
    BY TakenIn
  <2>0. j \in I /\ s[j] \in T
    OBVIOUS
  <2>2. Taken(s, I)[j] = Append(u, s[j]) /\ s[j] \in T
    BY <2>0, TakenLoop
  <2>4. Len(u) = j - 1 /\ \A x \in 1..(j - 1) : u[x] = s[x]
    OBVIOUS
  <2> HIDE DEF u, T
  <2>3. /\ Len(Append(u, s[j])) = Len(u) + 1
        /\ \A x \in 1..Len(u) : Append(u, s[j])[x] = u[x]
        /\ Append(u, s[j])[Len(u) + 1] = s[j]
    BY <2>1, <2>2
  <2> QED
    BY <2>2, <2>3, <2>4
<1>3. C \subseteq 0..Len(s) /\ Len(s) \in Nat
  OBVIOUS
<1> HIDE DEF C
<1>4. C = {}
  BY <1>1, <1>2, <1>3, NoCounterexample
<1>5. Copies(Len(s))
  BY <1>4 DEF C
<1>6. Picked(s, I) \in Seq(T)
  BY TakenIn DEF Picked
<1> HIDE DEF T
<1> QED
  BY <1>5, <1>6 DEF Picked

-----------------------------------------------------------------------------
(* Types: definitions as they are read, and appenders as they are made.    *)

AppenderFields == [type: {File, Stdout}, level: {UNKNOW}, formatter: STRING,
                   file: STRING]
AppenderDefine == {a \in AppenderFields : a.type = File \/ a.file = ""}
LoggerDefine == [level: 0..5, formatter: STRING, appenders: Seq(AppenderDefine)]
LoggerAppender == [type: {File, Stdout}, file: STRING, level: 0..1,
                   own: BOOLEAN, formatter: STRING]

TypeInv ==
  /\ daemon \in BOOLEAN
  /\ level \in [Names -> 0..5] /\ formatter \in [Names -> STRING]
  /\ appenders \in [Names -> Seq(LoggerAppender)]
  /\ before \in [Names -> Seq(LoggerAppender)]
  /\ \A n \in DOMAIN old_value : old_value[n] \in LoggerDefine
  /\ \A n \in DOMAIN new_value : new_value[n] \in LoggerDefine
  /\ k \in Nat \ {0} /\ (phase = "idle" => todo = {})

\* A level reads as one of the six.
LEMMA LevelRead == \A s : FromString(s) \in 0..5
<1> SUFFICES ASSUME NEW s PROVE FromString(s) \in 0..5
  OBVIOUS
<1> DEFINE Named == {l \in DOMAIN LevelNames : s \in {LevelNames[l], LowerNames[l]}}
<1>1. \A l \in Named : l \in 1..5
  BY DEF LevelNames
<1>2. FromString(s) = UNKNOW \/ FromString(s) \in Named
  BY DEF FromString
<1> HIDE DEF Named
<1> QED
  BY ONLY <1>1, <1>2 DEF UNKNOW

\* An appender that can be read becomes a definition of one.
LEMMA AppenderRead ==
  ASSUME NEW a \in AppenderMap, Readable(a)
  PROVE  ReadAppender(a) \in AppenderDefine
<1> DEFINE type == CHOOSE t \in {File, Stdout} : TypeName[t] = a.type
<1>1. \E t \in {File, Stdout} : TypeName[t] = a.type
  BY DEF Readable
<1>2. type \in {File, Stdout} /\ TypeName[type] = a.type
  BY <1>1
<1>3. type = File => a.file \in STRING
  BY <1>2 DEF Readable, AppenderMap, Maybe, TypeName, File, Stdout
<1>4. Field(a.formatter, "") \in STRING
  <2>1. a.formatter \in STRING \cup {Null}
    BY DEF AppenderMap, Maybe
  <2> QED
    BY <2>1, StringAssumption DEF Field
<1>5. ReadAppender(a) =
        [type |-> type, level |-> UNKNOW, formatter |-> Field(a.formatter, ""),
         file |-> IF type = File THEN a.file ELSE ""]
  BY DEF ReadAppender
<1>6. type \in {File, Stdout}
  BY <1>2
<1> HIDE DEF type
<1> QED
  <2>1. (IF type = File THEN a.file ELSE "") \in STRING
    BY <1>3, StringAssumption
  <2>2. ASSUME NEW t \in {File, Stdout}, NEW f \in STRING, NEW g \in STRING,
               t = File \/ g = ""
        PROVE  [type |-> t, level |-> UNKNOW, formatter |-> f, file |-> g] \in AppenderDefine
    <3> DEFINE e == [type |-> t, level |-> UNKNOW, formatter |-> f, file |-> g]
    <3>1. e \in AppenderFields
      BY DEF AppenderFields
    <3>2. e.type = t /\ e.file = g
      OBVIOUS
    <3> HIDE DEF e
    <3>3. e \in AppenderDefine
      BY <2>2, <3>1, <3>2 DEF AppenderDefine
    <3> QED
      BY <3>3 DEF e
  <2> QED
    BY <1>4, <1>5, <1>6, <2>1, <2>2

\* What the configuration holds is made of such definitions.
LEMMA DefineRead ==
  ASSUME NEW m \in LoggerMap
  PROVE  ReadDefine(m) \in LoggerDefine
<1> DEFINE maps == Field(m.appenders, << >>)
           I == {i \in DOMAIN maps : Readable(maps[i])}
           read == Picked(maps, I)
           T == {maps[i] : i \in I \cap DOMAIN maps}
           list == [i \in DOMAIN read |-> ReadAppender(read[i])]
<1>1. maps \in Seq(AppenderMap)
  BY DEF Field, LoggerMap, Maybe
<1>2. T \subseteq AppenderMap /\ \A a \in T : Readable(a)
  BY <1>1
<1>3. read \in Seq(T)
  <2> HIDE DEF maps, I
  <2>1. Len(maps) \in 0..Len(maps)
    BY <1>1
  <2> QED
    BY <1>1, <2>1, TakenIn DEF Picked
<1>4. list \in Seq(AppenderDefine)
  <2> HIDE DEF T, read
  <2>1. \A i \in DOMAIN read : ReadAppender(read[i]) \in AppenderDefine
    BY <1>2, <1>3, AppenderRead
  <2> QED
    BY <1>3, <2>1
<1>5. Field(m.formatter, "") \in STRING
  <2>1. m.formatter \in STRING \cup {Null}
    BY DEF LoggerMap, Maybe
  <2> QED
    BY <2>1, StringAssumption DEF Field
<1>6. ReadDefine(m) = [level |-> FromString(Field(m.level, "")),
                       formatter |-> Field(m.formatter, ""), appenders |-> list]
  BY DEF ReadDefine
<1>7. FromString(Field(m.level, "")) \in 0..5
  BY LevelRead
<1> HIDE DEF list
<1> QED
  <2>1. ASSUME NEW l \in 0..5, NEW f \in STRING, NEW s \in Seq(AppenderDefine)
        PROVE  [level |-> l, formatter |-> f, appenders |-> s] \in LoggerDefine
    BY DEF LoggerDefine
  <2> QED
    BY <1>4, <1>5, <1>6, <1>7, <2>1

\* What is made of a definition is an appender.
LEMMA CreatedType ==
  ASSUME NEW a \in AppenderDefine, NEW f \in STRING
  PROVE  Created(a, f) \in LoggerAppender
<1> DEFINE own == a.formatter # "" /\ a.formatter \notin Invalid
<1>1. /\ a.type \in {File, Stdout} /\ a.file \in STRING /\ a.level \in 0..1
      /\ a.formatter \in STRING
  <2>1. a \in AppenderFields
    BY DEF AppenderDefine
  <2> QED
    BY <2>1 DEF AppenderFields, UNKNOW
<1>2. Created(a, f) = [type |-> a.type, file |-> a.file, level |-> a.level, own |-> own,
                       formatter |-> IF own THEN a.formatter ELSE f]
  BY DEF Created
<1>3. own \in BOOLEAN
  OBVIOUS
<1>4. (IF own THEN a.formatter ELSE f) \in STRING
  BY <1>1
<1> HIDE DEF own
<1> QED
  BY <1>1, <1>2, <1>3, <1>4 DEF LoggerAppender

LEMMA ReformattedType ==
  ASSUME NEW s \in Seq(LoggerAppender), NEW f \in STRING
  PROVE  Reformatted(s, f) \in Seq(LoggerAppender)
<1>1. \A r \in LoggerAppender : [r EXCEPT !.formatter = f] \in LoggerAppender
  BY DEF LoggerAppender
<1>2. \A x \in DOMAIN s : (IF s[x].own THEN s[x] ELSE [s[x] EXCEPT !.formatter = f])
                            \in LoggerAppender
  BY <1>1
<1> QED
  BY <1>2 DEF Reformatted

LEMMA TypesStart == Init => TypeInv
<1> SUFFICES ASSUME Init PROVE TypeInv
  OBVIOUS
<1>1. Console \in LoggerAppender
  <2>1. DefaultFormat \in STRING /\ "" \in STRING
    BY ConfigAssumption, StringAssumption
  <2>2. ASSUME NEW f \in STRING, NEW g \in STRING
        PROVE  [type |-> Stdout, file |-> g, level |-> 1, own |-> FALSE, formatter |-> f]
                 \in LoggerAppender
    BY DEF LoggerAppender
  <2> QED
    BY <2>1, <2>2 DEF Console
<1>2. <<Console>> \in Seq(LoggerAppender) /\ << >> \in Seq(LoggerAppender)
  BY <1>1
<1>3. appenders \in [Names -> Seq(LoggerAppender)] /\ before = appenders
  BY <1>2 DEF Init
<1>4. level \in [Names -> 0..5] /\ formatter \in [Names -> STRING]
  <2>1. DefaultFormat \in STRING
    BY ConfigAssumption
  <2> QED
    BY <2>1 DEF Init
<1>5. /\ daemon \in BOOLEAN /\ k \in Nat \ {0} /\ todo = {}
      /\ DOMAIN old_value = {} /\ DOMAIN new_value = {}
  BY DEF Init, NoConfig
<1> QED
  BY <1>3, <1>4, <1>5 DEF TypeInv

-----------------------------------------------------------------------------
\* In the first loop the logger at hand is one of the new value.
LEMMA DefineIn ==
  ASSUME PhaseOK, TypeInv, phase \in {"visit"} \cup Changing, todo # {}
  PROVE  /\ name \in todo /\ name \in Names /\ name \in DOMAIN new_value
         /\ define \in LoggerDefine
         /\ define.level \in 0..5 /\ define.formatter \in STRING
         /\ define.appenders \in Seq(AppenderDefine)
<1>1. name \in todo /\ name \in Names /\ todo \subseteq DOMAIN new_value
  BY NameIn DEF PhaseOK, Changing
<1>2. define \in LoggerDefine
  BY <1>1 DEF TypeInv, define
<1>3. /\ define.level \in 0..5 /\ define.formatter \in STRING
      /\ define.appenders \in Seq(AppenderDefine)
  BY <1>2 DEF LoggerDefine
<1> QED
  BY <1>1, <1>2, <1>3

LEMMA TypesStep ==
  ASSUME ListenerInv, TypeInv, [Next]_vars
  PROVE  TypeInv'
<1> USE DEF ListenerInv
<1>1. CASE Client \/ UNCHANGED vars
  <2>1. UNCHANGED <<daemon, level, formatter, appenders, old_value, new_value, phase,
                    todo, k, before>>
    BY <1>1, ClientLeaves DEF listenerVars, loggers, history
  <2> QED
    BY <2>1 DEF TypeInv
<1>2. CASE SetValue
  <2>1. PICK text \in Texts : new_value' = [n \in DOMAIN text |-> ReadDefine(text[n])]
    BY <1>2 DEF SetValue
  <2>2. \A n \in DOMAIN new_value' : new_value'[n] \in LoggerDefine
    BY <2>1, ConfigAssumption, DefineRead
  <2>3. /\ before' = appenders /\ phase' = "visit"
        /\ UNCHANGED <<daemon, level, formatter, appenders, old_value, k>>
    BY <1>2 DEF SetValue, loggers
  <2> QED
    BY <2>2, <2>3 DEF TypeInv
<1>3. CASE Skip \/ NextLogger \/ BeginRemoval
  <2>1. /\ UNCHANGED <<daemon, level, formatter, appenders, old_value, new_value, k, before>>
        /\ phase' # "idle"
    BY <1>3 DEF Skip, NextLogger, BeginRemoval, loggers, history
  <2> QED
    BY <2>1 DEF TypeInv
<1>4. CASE Store
  <2>1. /\ UNCHANGED <<daemon, level, formatter, appenders, new_value, todo, k, before>>
        /\ old_value' = new_value /\ todo = {}
    BY <1>4 DEF Store, loggers, history
  <2> QED
    BY <2>1 DEF TypeInv
<1>5. CASE SetLevel \/ RemoveLevel
  <2>1. /\ UNCHANGED <<daemon, formatter, appenders, old_value, new_value, k, before>>
        /\ phase' # "idle"
    BY <1>5 DEF SetLevel, RemoveLevel, history
  <2>2. level' \in [Names -> 0..5]
    <3> DEFINE l == IF SetLevel THEN define.level ELSE UNKNOW
    <3>1. l \in 0..5
      <4>1. SetLevel => define.level \in 0..5
        BY DefineIn DEF SetLevel
      <4>2. UNKNOW \in 0..5
        BY DEF UNKNOW
      <4> QED
        BY <4>1, <4>2
    <3>2. level' = [level EXCEPT ![name] = l]
      BY <1>5 DEF SetLevel, RemoveLevel
    <3> HIDE DEF l
    <3> QED
      BY <3>1, <3>2 DEF TypeInv
  <2> QED
    BY <2>1, <2>2 DEF TypeInv
<1>6. CASE SetFormatter
  <2>1. define.formatter \in STRING /\ name \in Names
    BY <1>6, DefineIn DEF SetFormatter, Changing, PhaseOK
  <2>2. /\ UNCHANGED <<daemon, level, old_value, new_value, k, before>> /\ phase' # "idle"
    BY <1>6 DEF SetFormatter, history
  <2>3. formatter' \in [Names -> STRING]
    BY <1>6, <2>1 DEF SetFormatter, TypeInv
  <2>4. Reformatted(appenders[name], define.formatter) \in Seq(LoggerAppender)
    BY <2>1, ReformattedType DEF TypeInv
  <2>5. appenders' = [appenders EXCEPT ![name] =
                        Reformatted(appenders[name], define.formatter)]
    BY <1>6 DEF SetFormatter
  <2>6. appenders' \in [Names -> Seq(LoggerAppender)]
    BY <2>4, <2>5 DEF TypeInv
  <2> QED
    BY <2>2, <2>3, <2>6 DEF TypeInv
<1>7. CASE ClearAppenders \/ RemoveAppenders
  <2>1. /\ UNCHANGED <<daemon, level, formatter, old_value, new_value, before>>
        /\ appenders' = [appenders EXCEPT ![name] = << >>] /\ phase' # "idle"
    BY <1>7 DEF ClearAppenders, RemoveAppenders, history
  <2>2. k' \in Nat \ {0}
    BY <1>7 DEF ClearAppenders, RemoveAppenders, TypeInv
  <2>3. << >> \in Seq(LoggerAppender)
    OBVIOUS
  <2>4. appenders' \in [Names -> Seq(LoggerAppender)]
    BY <2>1, <2>3 DEF TypeInv
  <2> QED
    BY <2>1, <2>2, <2>4 DEF TypeInv
<1>8. CASE AddAppender
  <2>1. name \in Names /\ define.appenders \in Seq(AppenderDefine)
    BY <1>8, DefineIn DEF AddAppender, Changing, PhaseOK
  <2>2. k \in Nat \ {0} /\ k <= Len(define.appenders) /\ k' = k + 1
    BY <1>8 DEF AddAppender, TypeInv
  <2>3. define.appenders[k] \in AppenderDefine
    BY <2>1, <2>2
  <2> DEFINE e == Created(define.appenders[k], formatter[name])
  <2>4. e \in LoggerAppender
    <3>1. formatter[name] \in STRING
      BY <2>1 DEF TypeInv
    <3> QED
      BY <2>3, <3>1, CreatedType
  <2>5. \/ appenders' = appenders
        \/ appenders' = [appenders EXCEPT ![name] = Append(appenders[name], e)]
    <3>1. appenders \in [Names -> Seq(LoggerAppender)]
      BY DEF TypeInv
    <3> QED
      BY <1>8, <2>1, <3>1 DEF AddAppender
  <2> HIDE DEF e
  <2>6. appenders' \in [Names -> Seq(LoggerAppender)]
    <3>1. appenders \in [Names -> Seq(LoggerAppender)]
      BY DEF TypeInv
    <3>2. Append(appenders[name], e) \in Seq(LoggerAppender)
      BY <2>1, <2>4, <3>1
    <3> QED
      BY <2>5, <3>1, <3>2
  <2>7. UNCHANGED <<daemon, level, formatter, old_value, new_value, phase, before>> /\ phase # "idle"
    BY <1>8 DEF AddAppender, history
  <2>8. k' \in Nat \ {0}
    BY <2>2
  <2> QED
    BY <2>6, <2>7, <2>8 DEF TypeInv
<1> QED
  BY <1>1, <1>2, <1>3, <1>4, <1>5, <1>6, <1>7, <1>8 DEF Next, Listener

LEMMA TypesHold == Spec => [](ListenerInv /\ TypeInv)
<1>1. Init => ListenerInv /\ TypeInv
  BY ListenerStart, TypesStart
<1>2. (ListenerInv /\ TypeInv) /\ [Next]_vars => (ListenerInv /\ TypeInv)'
  BY ListenerStep, TypesStep
<1> QED
  BY <1>1, <1>2, PTL DEF Spec

-----------------------------------------------------------------------------
(* Writing and reading definitions.                                        *)

\* A level is written as text that reads as that level.
LEMMA LevelReadsBack ==
  ASSUME NEW l \in 0..5
  PROVE  FromString(Field(WriteLevel(l), "")) = l
<1> DEFINE Named(s) == {m \in DOMAIN LevelNames : s \in {LevelNames[m], LowerNames[m]}}
<1>1. CASE l = 0
  <2>1. Field(WriteLevel(l), "") = ""
    BY <1>1 DEF Field, WriteLevel, UNKNOW
  <2>2. \A m \in 1..5 : "" # LevelNames[m] /\ "" # LowerNames[m]
    <3>1. \A m \in 1..5 : m = 1 \/ m = 2 \/ m = 3 \/ m = 4 \/ m = 5
      OBVIOUS
    <3>2. \A m \in 1..5 :
            /\ LevelNames[m] \in {"DEBUG", "INFO", "WARN", "ERROR", "FATAL"}
            /\ LowerNames[m] \in {"debug", "info", "warn", "error", "fatal"}
      BY <3>1 DEF LevelNames, LowerNames
    <3>3. /\ "" \notin {"DEBUG", "INFO", "WARN", "ERROR", "FATAL"}
          /\ "" \notin {"debug", "info", "warn", "error", "fatal"}
      BY Zenon
    <3> QED
      BY ONLY <3>2, <3>3, Zenon
  <2>3. DOMAIN LevelNames = 1..5
    BY DEF LevelNames
  <2>4. Named("") = {}
    BY <2>2, <2>3
  <2> QED
    BY <1>1, <2>1, <2>4 DEF FromString, UNKNOW
<1>2. CASE l # 0
  <2>1. l \in 1..5
    BY <1>2
  <2>2. WriteLevel(l) = LevelNames[l]
    BY <1>2 DEF WriteLevel, ToString, UNKNOW
  <2>3. LevelNames[l] # Null
    <3>1. l \in DOMAIN LevelNames
      BY <2>1 DEF LevelNames
    <3> QED
      BY <3>1, StringAssumption, NullAssumption
  <2>4. Field(WriteLevel(l), "") = LevelNames[l]
    BY <2>2, <2>3 DEF Field
  <2>5. Named(LevelNames[l]) = {l}
    <3>1. l \in Named(LevelNames[l])
      BY <2>1 DEF LevelNames
    <3>2. \A m \in Named(LevelNames[l]) : m = l
      BY <2>1 DEF LevelNames, LowerNames
    <3> QED
      BY <3>1, <3>2
  <2>6. FromString(LevelNames[l]) = CHOOSE m \in Named(LevelNames[l]) : TRUE
    BY <2>5 DEF FromString
  <2> QED
    BY <2>4, <2>5, <2>6
<1> QED
  BY <1>1, <1>2

LEMMA TextReadsBack ==
  ASSUME NEW f \in STRING
  PROVE  Field(Unless(f, ""), "") = f /\ Unless(f, "") \in STRING \cup {Null}
BY NullAssumption DEF Field, Unless

\* An appender that a definition can hold is written as it reads.
LEMMA AppenderReadsBack ==
  ASSUME NEW a \in AppenderDefine
  PROVE  /\ WriteAppenderDefine(a) \in AppenderMap
         /\ Readable(WriteAppenderDefine(a))
         /\ ReadAppender(WriteAppenderDefine(a)) = a
<1> DEFINE m == WriteAppenderDefine(a)
<1>1. /\ a = [type |-> a.type, level |-> UNKNOW, formatter |-> a.formatter, file |-> a.file]
      /\ a.type \in {File, Stdout} /\ a.formatter \in STRING /\ a.file \in STRING
      /\ a.level = UNKNOW /\ (a.type = File \/ a.file = "")
  <2>1. a \in AppenderFields /\ (a.type = File \/ a.file = "")
    BY DEF AppenderDefine
  <2> QED
    BY <2>1 DEF AppenderFields
<1>2. m = [type |-> TypeName[a.type], file |-> IF a.type = File THEN a.file ELSE Null,
           level |-> Null, formatter |-> Unless(a.formatter, "")]
  BY <1>1 DEF WriteAppenderDefine, WriteLevel
<1>3. /\ m.type = TypeName[a.type] /\ m.formatter = Unless(a.formatter, "")
      /\ m.file = (IF a.type = File THEN a.file ELSE Null)
  <2> HIDE DEF m
  <2> QED
    BY <1>2
<1>4. m \in AppenderMap
  <2>1. TypeName[a.type] \in STRING
    <3>1. File \in DOMAIN TypeName /\ Stdout \in DOMAIN TypeName
      BY DEF TypeName, File, Stdout
    <3> QED
      BY <1>1, <3>1, StringAssumption
  <2>2. ASSUME NEW t \in STRING, NEW f \in STRING \cup {Null}, NEW g \in STRING \cup {Null}
        PROVE  [type |-> t, file |-> f, level |-> Null, formatter |-> g] \in AppenderMap
    BY DEF AppenderMap, Maybe
  <2>3. (IF a.type = File THEN a.file ELSE Null) \in STRING \cup {Null}
    BY <1>1
  <2>4. Unless(a.formatter, "") \in STRING \cup {Null}
    BY <1>1, TextReadsBack
  <2> HIDE DEF m
  <2> QED
    BY <1>2, <2>1, <2>2, <2>3, <2>4
<1>5. Readable(m)
  <2>1. a.file # Null
    BY <1>1, NullAssumption
  <2> QED
    BY <1>1, <1>3, <2>1 DEF Readable
<1>6. (CHOOSE t \in {File, Stdout} : TypeName[t] = m.type) = a.type
  <2>1. \A t, u \in {File, Stdout} : TypeName[t] = TypeName[u] => t = u
    BY DEF TypeName, File, Stdout
  <2>2. \A t \in {File, Stdout} : TypeName[t] = m.type <=> t = a.type
    BY <1>1, <1>3, <2>1
  <2> HIDE DEF m
  <2> QED
    BY <1>1, <2>2
<1>7. ReadAppender(m) =
        [type |-> a.type, level |-> UNKNOW, formatter |-> Field(m.formatter, ""),
         file |-> IF a.type = File THEN m.file ELSE ""]
  BY <1>6 DEF ReadAppender
<1>8. Field(m.formatter, "") = a.formatter
  BY <1>1, <1>3, TextReadsBack
<1>9. (IF a.type = File THEN m.file ELSE "") = a.file
  BY <1>1, <1>3
<1> HIDE DEF m
<1>10. ReadAppender(m) = a
  BY <1>1, <1>7, <1>8, <1>9
<1> QED
  BY <1>4, <1>5, <1>10 DEF m

\* A list of appenders likewise: none of them is left out.
LEMMA ListReadsBack ==
  ASSUME NEW s \in Seq(AppenderDefine)
  PROVE  LET w == Unless([x \in DOMAIN s |-> WriteAppenderDefine(s[x])], << >>)
             maps == Field(w, << >>)
             read == Picked(maps, {x \in DOMAIN maps : Readable(maps[x])})
         IN [x \in DOMAIN read |-> ReadAppender(read[x])] = s
<1> DEFINE list == [x \in DOMAIN s |-> WriteAppenderDefine(s[x])]
           maps == Field(Unless(list, << >>), << >>)
           I == {x \in DOMAIN maps : Readable(maps[x])}
           read == Picked(maps, I)
<1>1. \A x \in DOMAIN s : /\ WriteAppenderDefine(s[x]) \in AppenderMap
                          /\ Readable(WriteAppenderDefine(s[x]))
                          /\ ReadAppender(WriteAppenderDefine(s[x])) = s[x]
  BY AppenderReadsBack
<1>2. list \in Seq(AppenderMap) /\ DOMAIN list = DOMAIN s
  BY <1>1
<1>3. \A x \in DOMAIN s : list[x] = WriteAppenderDefine(s[x])
  OBVIOUS
<1> HIDE DEF list
<1>4. maps = list
  BY <1>2, NullAssumption DEF Field, Unless
<1> HIDE DEF maps
<1>5. DOMAIN maps \subseteq I
  BY <1>1, <1>2, <1>3, <1>4
<1>6. read = list
  BY <1>2, <1>4, <1>5, PickedAll
<1> HIDE DEF read
<1>7. [x \in DOMAIN read |-> ReadAppender(read[x])] = [x \in DOMAIN s |-> s[x]]
  BY <1>1, <1>2, <1>3, <1>6
<1>8. [x \in DOMAIN s |-> s[x]] = s
  OBVIOUS
<1> QED
  BY <1>7, <1>8 DEF read, maps, list

LEMMA DefineReadsBack ==
  ASSUME NEW d \in LoggerDefine
  PROVE  ReadDefine(WriteDefine(d)) = d
<1>1. /\ d = [level |-> d.level, formatter |-> d.formatter, appenders |-> d.appenders]
      /\ d.level \in 0..5 /\ d.formatter \in STRING /\ d.appenders \in Seq(AppenderDefine)
  BY DEF LoggerDefine
<1> DEFINE w == Unless([x \in DOMAIN d.appenders |->
                          WriteAppenderDefine(d.appenders[x])], << >>)
           maps == Field(w, << >>)
           read == Picked(maps, {x \in DOMAIN maps : Readable(maps[x])})
           list == [x \in DOMAIN read |-> ReadAppender(read[x])]
<1>2. /\ WriteDefine(d).level = WriteLevel(d.level)
      /\ WriteDefine(d).formatter = Unless(d.formatter, "")
      /\ WriteDefine(d).appenders = w
  BY DEF WriteDefine
<1> HIDE DEF w
<1>3. ReadDefine(WriteDefine(d)) =
        [level |-> FromString(Field(WriteLevel(d.level), "")),
         formatter |-> Field(Unless(d.formatter, ""), ""),
         appenders |-> list]
  BY <1>2 DEF ReadDefine
<1>4. list = d.appenders
  BY <1>1, ListReadsBack DEF w
<1> HIDE DEF list
<1> QED
  BY <1>1, <1>3, <1>4, LevelReadsBack, TextReadsBack

\* A configuration that was read is written (Log.cpp:658-693) as text that reads
\* (604-656) as itself, for any levels, formats and lists of appenders.
THEOREM ConfigurationReadsBack == Spec => []SavedReadsBack
<1>1. TypeInv => SavedReadsBack
  BY DefineReadsBack DEF TypeInv, SavedReadsBack
<1> QED
  BY TypesHold, <1>1, PTL

-----------------------------------------------------------------------------
(* The appenders made so far for a logger with the definition d, the format *)
(* f, and daemon the value of daemon.                                       *)

Keep(d, dm) == {x \in DOMAIN d.appenders : ~(d.appenders[x].type = Stdout /\ dm)}
Made(d, j, dm, f) ==
  LET kept == Taken(d.appenders, Keep(d, dm))[j]
  IN [x \in DOMAIN kept |-> Created(kept[x], f)]

LEMMA MadeLoop ==
  ASSUME NEW d \in LoggerDefine, NEW dm, NEW f
  PROVE  /\ Made(d, 0, dm, f) = << >>
         /\ \A j \in 1..Len(d.appenders) :
              Made(d, j, dm, f) =
                IF d.appenders[j].type = Stdout /\ dm THEN Made(d, j - 1, dm, f)
                ELSE Append(Made(d, j - 1, dm, f), Created(d.appenders[j], f))
<1> DEFINE s == d.appenders
           I == Keep(d, dm)
           T == {s[i] : i \in I \cap DOMAIN s}
<1>1. s \in Seq(AppenderDefine)
  BY DEF LoggerDefine
<1>2. /\ Taken(s, I)[0] = << >>
      /\ \A j \in 1..Len(s) :
           Taken(s, I)[j] = IF j \in I THEN Append(Taken(s, I)[j - 1], s[j])
                            ELSE Taken(s, I)[j - 1]
  BY <1>1, TakenLoop
<1>3. \A j \in 0..Len(s) : Taken(s, I)[j] \in Seq(T)
  BY <1>1, TakenIn
<1>4. Made(d, 0, dm, f) = << >>
  BY <1>2 DEF Made
<1>5. ASSUME NEW j \in 1..Len(s)
      PROVE  Made(d, j, dm, f) =
               IF s[j].type = Stdout /\ dm THEN Made(d, j - 1, dm, f)
               ELSE Append(Made(d, j - 1, dm, f), Created(s[j], f))
  <2> DEFINE kept == Taken(s, I)[j - 1]
  <2>1. kept \in Seq(T) /\ j \in DOMAIN s
    BY <1>1, <1>3
  <2>2. CASE s[j].type = Stdout /\ dm
    <3>1. j \notin I
      BY <2>2 DEF Keep
    <3>2. Taken(s, I)[j] = kept
      BY <1>2, <3>1
    <3> QED
      BY <2>2, <3>2 DEF Made
  <2>3. CASE ~(s[j].type = Stdout /\ dm)
    <3>1. j \in I
      BY <2>1, <2>3 DEF Keep
    <3>2. Taken(s, I)[j] = Append(kept, s[j])
      BY <1>2, <3>1
    <3> DEFINE longer == Append(kept, s[j])
               list == [x \in DOMAIN kept |-> Created(kept[x], f)]
    <3>3. s[j] \in T
      BY <2>1, <3>1
    <3> HIDE DEF T, kept
    <3>4. /\ Len(kept) \in Nat /\ DOMAIN kept = 1..Len(kept)
          /\ DOMAIN longer = 1..(Len(kept) + 1)
          /\ \A x \in 1..Len(kept) : longer[x] = kept[x]
          /\ longer[Len(kept) + 1] = s[j]
      BY <2>1, <3>3
    <3>5. [x \in DOMAIN longer |-> Created(longer[x], f)] = Append(list, Created(s[j], f))
      <4> DEFINE S == {Created(kept[x], f) : x \in DOMAIN kept} \cup {Created(s[j], f)}
                 e == Created(s[j], f)
                 left == [x \in DOMAIN longer |-> Created(longer[x], f)]
      <4>1. list \in Seq(S) /\ Len(list) = Len(kept) /\ e \in S
        BY <3>4
      <4> HIDE DEF S
      <4>2. /\ Append(list, e) \in Seq(S) /\ DOMAIN Append(list, e) = 1..(Len(kept) + 1)
            /\ \A x \in 1..Len(kept) : Append(list, e)[x] = list[x]
            /\ Append(list, e)[Len(kept) + 1] = e
        BY <4>1
      <4>3. /\ DOMAIN left = 1..(Len(kept) + 1)
            /\ \A x \in 1..Len(kept) : left[x] = Created(kept[x], f)
            /\ left[Len(kept) + 1] = e
        <5> HIDE DEF longer
        <5> QED
          BY <3>4
      <4>4. \A x \in 1..Len(kept) : list[x] = Created(kept[x], f)
        BY <3>4
      <4>5. \A x \in 1..(Len(kept) + 1) : left[x] = Append(list, e)[x]
        <5> HIDE DEF left, list, e
        <5> QED
          BY <3>4, <4>2, <4>3, <4>4
      <4>6. left = [x \in 1..(Len(kept) + 1) |-> left[x]]
        BY <4>3
      <4>7. Append(list, e) = [x \in 1..(Len(kept) + 1) |-> Append(list, e)[x]]
        <5>1. ASSUME NEW q \in Seq(S), NEW D, DOMAIN q = D PROVE q = [x \in D |-> q[x]]
          BY <5>1
        <5> HIDE DEF list, e
        <5> QED
          BY <4>2, <5>1
      <4> HIDE DEF left, list, e
      <4>8. left = Append(list, e)
        BY <4>5, <4>6, <4>7
      <4> QED
        BY <4>8 DEF left, list, e
    <3>6. Made(d, j, dm, f) = [x \in DOMAIN longer |-> Created(longer[x], f)]
      BY <3>2 DEF Made
    <3>7. Made(d, j - 1, dm, f) = list
      BY DEF Made, kept
    <3> QED
      BY <2>3, <3>5, <3>6, <3>7
  <2> QED
    BY <2>2, <2>3
<1> QED
  BY <1>4, <1>5

LEMMA WantedMade ==
  ASSUME NEW n, NEW d
  PROVE  Wanted(n, d) = Made(d, Len(d.appenders), daemon, formatter[n])
<1>1. {x \in DOMAIN d.appenders : ~Skipped(d.appenders[x])} = Keep(d, daemon)
  BY DEF Keep, Skipped
<1> QED
  BY <1>1 DEF Wanted, Made, Picked

-----------------------------------------------------------------------------
\* The logger the listener is at has been given the level of its definition,
\* then its format, then its appenders up to the one at k.
WorkInv ==
  /\ phase \in Changing => level[name] = define.level
  /\ phase \in {"clear", "add"} /\ define.formatter # "" =>
       formatter[name] = define.formatter
  /\ phase = "add" =>
       /\ k \in 1..(Len(define.appenders) + 1)
       /\ appenders[name] = Made(define, k - 1, daemon, formatter[name])

LEMMA WorkStep ==
  ASSUME ListenerInv, TypeInv, WorkInv, [Next]_vars
  PROVE  WorkInv'
<1> USE DEF ListenerInv
<1>1. CASE Client \/ UNCHANGED vars
  <2>1. UNCHANGED <<daemon, level, formatter, appenders, new_value, phase, todo, k>>
    BY <1>1, ClientLeaves DEF listenerVars, loggers
  <2> QED
    BY <2>1 DEF WorkInv, name, define
<1>2. CASE \/ SetValue \/ Skip \/ NextLogger \/ BeginRemoval \/ RemoveLevel
           \/ RemoveAppenders \/ Store
  <2>1. phase' \notin Changing
    BY <1>2 DEF SetValue, Skip, NextLogger, BeginRemoval, RemoveLevel,
       RemoveAppenders, Store, Changing
  <2> QED
    BY <2>1 DEF WorkInv, Changing
<1>3. CASE SetLevel \/ SetFormatter \/ ClearAppenders \/ AddAppender
  <2>1. UNCHANGED <<daemon, new_value, todo>>
    BY <1>3 DEF SetLevel, SetFormatter, ClearAppenders, AddAppender
  <2>2. name' = name /\ define' = define
    BY <2>1 DEF name, define
  <2>3. /\ name \in Names /\ define \in LoggerDefine
        /\ define.appenders \in Seq(AppenderDefine)
    <3>1. phase \in {"visit"} \cup Changing /\ todo # {}
      BY <1>3 DEF SetLevel, SetFormatter, ClearAppenders, AddAppender, Changing, PhaseOK
    <3> QED
      BY <3>1, DefineIn
  <2>4. /\ DOMAIN level = Names /\ DOMAIN formatter = Names /\ DOMAIN appenders = Names
    BY DEF PhaseOK
  <2> HIDE DEF ListenerInv
  <2>5. CASE SetLevel
    <3>1. level'[name] = define.level /\ phase' # "add"
          /\ (phase' = "clear" => define.formatter = "")
      BY <2>3, <2>4, <2>5 DEF SetLevel
    <3> QED
      BY <2>2, <3>1 DEF WorkInv
  <2>6. CASE SetFormatter
    <3>1. level'[name] = define.level /\ phase' = "clear"
          /\ formatter'[name] = define.formatter
      BY <2>3, <2>4, <2>6 DEF SetFormatter, WorkInv, Changing
    <3> QED
      BY <2>2, <3>1 DEF WorkInv
  <2>7. CASE ClearAppenders
    <3>1. /\ level' = level /\ formatter' = formatter
          /\ appenders'[name] = << >> /\ k' = 1 /\ phase' = "add"
      BY <2>3, <2>4, <2>7 DEF ClearAppenders
    <3>2. phase = "clear"
      BY <2>7 DEF ClearAppenders
    <3>3. Made(define, 0, daemon, formatter[name]) = << >>
      BY <2>3, MadeLoop
    <3>4. k' \in 1..(Len(define.appenders) + 1) /\ k' - 1 = 0
      BY <2>3, <3>1
    <3>5. /\ level[name] = define.level
          /\ define.formatter # "" => formatter[name] = define.formatter
      BY <3>2 DEF WorkInv, Changing
    <3> QED
      BY <2>1, <2>2, <3>1, <3>3, <3>4, <3>5 DEF WorkInv
  <2>8. CASE AddAppender
    <3> DEFINE a == define.appenders[k]
               made == Made(define, k - 1, daemon, formatter[name])
               more == Made(define, k, daemon, formatter[name])
    <3>1. /\ level' = level /\ formatter' = formatter /\ phase = "add"
          /\ k' = k + 1 /\ k <= Len(define.appenders)
          /\ appenders'[name] = IF Skipped(a) THEN appenders[name]
                                ELSE Append(appenders[name], Created(a, formatter[name]))
      BY <2>3, <2>4, <2>8 DEF AddAppender
    <3>2. /\ level[name] = define.level
          /\ define.formatter # "" => formatter[name] = define.formatter
          /\ k \in 1..(Len(define.appenders) + 1)
          /\ appenders[name] = made
      BY <3>1 DEF WorkInv, Changing
    <3>3. k \in 1..Len(define.appenders) /\ k' \in 1..(Len(define.appenders) + 1)
          /\ k' - 1 = k
      <4>1. Len(define.appenders) \in Nat
        BY <2>3
      <4>2. k \in 1..(Len(define.appenders) + 1) /\ k' = k + 1 /\ k <= Len(define.appenders)
        BY <3>1, <3>2
      <4> QED
        BY ONLY <4>1, <4>2
    <3>4. more = IF Skipped(a) THEN made ELSE Append(made, Created(a, formatter[name]))
      BY <2>3, <3>3, MadeLoop DEF Skipped
    <3> HIDE DEF a
    <3>5. appenders'[name] = more
      BY <3>1, <3>2, <3>4
    <3> QED
      BY <2>1, <2>2, <3>1, <3>2, <3>3, <3>5 DEF WorkInv
  <2> QED
    BY <1>3, <2>5, <2>6, <2>7, <2>8
<1> QED
  BY <1>1, <1>2, <1>3 DEF Next, Listener

-----------------------------------------------------------------------------
(* Applying a configuration.                                               *)

\* A logger is as the definition d says.
Configured(n, d) ==
  /\ level[n] = d.level
  /\ d.formatter # "" => formatter[n] = d.formatter
  /\ appenders[n] = Made(d, Len(d.appenders), daemon, formatter[n])

\* What the configuration may be: any of those given, as it is read, or none.
Value(v) ==
  v = NoConfig \/ \E text \in Texts : v = [n \in DOMAIN text |-> ReadDefine(text[n])]

\* Which loggers are as the old and the new value say while the listener works:
\* those it has not got to, and those it has left.
AppliedInv ==
  /\ Value(old_value) /\ Value(new_value)
  /\ phase = "idle" => \A n \in DOMAIN old_value : Configured(n, old_value[n])
  /\ phase \in {"visit"} \cup Changing =>
       /\ \A n \in DOMAIN new_value \ todo : Configured(n, new_value[n])
       /\ \A n \in DOMAIN old_value \cap todo :
            phase = "visit" \/ n # name => Configured(n, old_value[n])
  /\ phase \in Removing => \A n \in DOMAIN new_value : Configured(n, new_value[n])

\* operator== does not look at the appenders (Log.cpp:589): definitions that
\* differ in nothing else are taken for equal.  This excludes them.
AppendersNotAlone ==
  \A s, t \in Texts : \A n \in DOMAIN s \cap DOMAIN t :
    Same(ReadDefine(s[n]), ReadDefine(t[n])) => ReadDefine(s[n]) = ReadDefine(t[n])

LEMMA SameIsEqual ==
  ASSUME AppendersNotAlone, NEW v, NEW w, Value(v), Value(w),
         NEW n \in DOMAIN v \cap DOMAIN w, Same(v[n], w[n])
  PROVE  v[n] = w[n]
<1>1. v # NoConfig /\ w # NoConfig
  BY DEF NoConfig
<1>2. PICK s \in Texts : v = [m \in DOMAIN s |-> ReadDefine(s[m])]
  BY <1>1 DEF Value
<1>3. PICK t \in Texts : w = [m \in DOMAIN t |-> ReadDefine(t[m])]
  BY <1>1 DEF Value
<1>4. /\ n \in DOMAIN s \cap DOMAIN t
      /\ v[n] = ReadDefine(s[n]) /\ w[n] = ReadDefine(t[n])
  BY <1>2, <1>3
<1> QED
  BY <1>4 DEF AppendersNotAlone

-----------------------------------------------------------------------------
LEMMA AppliedStart == Init => AppliedInv
<1> SUFFICES ASSUME Init PROVE AppliedInv
  OBVIOUS
<1>1. old_value = NoConfig /\ new_value = NoConfig /\ phase = "idle"
  BY DEF Init
<1>2. DOMAIN NoConfig = {}
  BY DEF NoConfig
<1> QED
  BY <1>1, <1>2 DEF AppliedInv, Value, Changing, Removing

LEMMA AppliedStep ==
  ASSUME AppendersNotAlone, ListenerInv, TypeInv, WorkInv, AppliedInv, [Next]_vars
  PROVE  AppliedInv'
<1> USE DEF ListenerInv
<1> DEFINE Left(n) == /\ level'[n] = level[n] /\ formatter'[n] = formatter[n]
                      /\ appenders'[n] = appenders[n]
<1>1. ASSUME daemon' = daemon, NEW n, Left(n), NEW d, Configured(n, d)
      PROVE  Configured(n, d)'
  BY <1>1 DEF Configured
<1>2. CASE Client \/ UNCHANGED vars
  <2>1. UNCHANGED <<daemon, level, formatter, appenders, old_value, new_value, phase, todo>>
    BY <1>2, ClientLeaves DEF listenerVars, loggers
  <2> QED
    BY <2>1 DEF AppliedInv, Value, Configured, name
<1>3. CASE SetValue
  <2>1. PICK text \in Texts : new_value' = [n \in DOMAIN text |-> ReadDefine(text[n])]
    BY <1>3 DEF SetValue
  <2>2. /\ phase = "idle" /\ phase' = "visit" /\ todo' = DOMAIN new_value'
        /\ UNCHANGED <<daemon, level, formatter, appenders, old_value>>
    BY <1>3 DEF SetValue, loggers
  <2>3. Value(new_value') /\ Value(old_value')
    BY <2>1, <2>2 DEF Value, AppliedInv
  <2>4. \A n \in DOMAIN old_value' : Configured(n, old_value[n])'
    BY <2>2 DEF AppliedInv, Configured
  <2> QED
    BY <2>2, <2>3, <2>4 DEF AppliedInv, Changing, Removing
<1>4. CASE Skip
  <2>1. /\ phase = "visit" /\ todo # {} /\ Unchanged /\ phase' = "visit"
        /\ todo' = todo \ {name}
        /\ UNCHANGED <<daemon, level, formatter, appenders, old_value, new_value>>
    BY <1>4 DEF Skip, loggers
  <2>2. name \in todo /\ name \in DOMAIN new_value
    BY <2>1, DefineIn
  <2>3. name \in DOMAIN old_value /\ new_value[name] = old_value[name]
    BY <2>1, <2>2, SameIsEqual DEF Unchanged, define, AppliedInv
  <2>4. Configured(name, new_value[name])
    BY <2>1, <2>2, <2>3 DEF AppliedInv
  <2>5. \A n \in DOMAIN new_value \ todo' : Configured(n, new_value[n])
    BY <2>1, <2>4 DEF AppliedInv
  <2>6. \A n \in DOMAIN old_value \cap todo' : Configured(n, old_value[n])
    BY <2>1 DEF AppliedInv
  <2>7. Value(old_value') /\ Value(new_value')
    BY <2>1 DEF AppliedInv
  <2>8. /\ \A n \in DOMAIN new_value' \ todo' : Configured(n, new_value[n])'
        /\ \A n \in DOMAIN old_value' \cap todo' : Configured(n, old_value[n])'
    BY <2>1, <2>5, <2>6 DEF Configured
  <2> QED
    BY <2>1, <2>7, <2>8 DEF AppliedInv, Changing, Removing
<1>5. CASE SetLevel \/ SetFormatter \/ ClearAppenders \/ AddAppender
  <2>1. /\ phase \in {"visit"} \cup Changing /\ phase' \in Changing /\ todo # {}
        /\ UNCHANGED <<daemon, old_value, new_value, todo>>
    BY <1>5 DEF SetLevel, SetFormatter, ClearAppenders, AddAppender, Changing, PhaseOK
  <2>2. name \in todo /\ name' = name /\ todo \subseteq Names
    BY <2>1, NameIn DEF name, Changing
  <2>3. \A n \in Names \ {name} : Left(n)
    BY <1>5 DEF SetLevel, SetFormatter, ClearAppenders, AddAppender, PhaseOK
  <2>4. DOMAIN new_value \subseteq Names /\ DOMAIN old_value \subseteq Names
    BY DEF PhaseOK
  <2>5. \A n \in DOMAIN new_value \ todo : Configured(n, new_value[n])
    BY <2>1 DEF AppliedInv
  <2>6. \A n \in DOMAIN old_value \cap todo : n # name => Configured(n, old_value[n])
    BY <2>1 DEF AppliedInv
  <2>7. \A n \in DOMAIN new_value' \ todo' : Configured(n, new_value[n])'
    BY <2>1, <2>2, <2>3, <2>4, <2>5 DEF Configured
  <2>8. \A n \in DOMAIN old_value' \cap todo' : n # name' => Configured(n, old_value[n])'
    BY <2>1, <2>2, <2>3, <2>4, <2>6 DEF Configured
  <2>9. Value(old_value') /\ Value(new_value')
    BY <2>1 DEF AppliedInv
  <2>10. phase' \notin {"idle", "visit"} \cup Removing
    BY <2>1 DEF Changing, Removing
  <2> QED
    BY <2>7, <2>8, <2>9, <2>10 DEF AppliedInv
<1>6. CASE NextLogger
  <2>1. /\ phase = "add" /\ k > Len(define.appenders) /\ phase' = "visit"
        /\ todo' = todo \ {name}
        /\ UNCHANGED <<daemon, level, formatter, appenders, old_value, new_value>>
    BY <1>6 DEF NextLogger, loggers
  <2>2. todo # {} /\ define.appenders \in Seq(AppenderDefine)
    BY <2>1, DefineIn DEF PhaseOK, Changing
  <2>3. k - 1 = Len(define.appenders)
    <3>1. k \in 1..(Len(define.appenders) + 1) /\ k > Len(define.appenders)
      BY <2>1 DEF WorkInv
    <3>2. Len(define.appenders) \in Nat
      BY <2>2
    <3> QED
      BY ONLY <3>1, <3>2
  <2>4. Configured(name, new_value[name])
    BY <2>1, <2>3 DEF WorkInv, Configured, define, Changing
  <2>5. \A n \in DOMAIN new_value \ todo' : Configured(n, new_value[n])
    BY <2>1, <2>4 DEF AppliedInv, Changing
  <2>6. \A n \in DOMAIN old_value \cap todo' : Configured(n, old_value[n])
    BY <2>1 DEF AppliedInv, Changing
  <2>7. Value(old_value') /\ Value(new_value')
    BY <2>1 DEF AppliedInv
  <2>8. /\ \A n \in DOMAIN new_value' \ todo' : Configured(n, new_value[n])'
        /\ \A n \in DOMAIN old_value' \cap todo' : Configured(n, old_value[n])'
    BY <2>1, <2>5, <2>6 DEF Configured
  <2> QED
    BY <2>1, <2>7, <2>8 DEF AppliedInv, Changing, Removing
<1>7. CASE BeginRemoval
  <2>1. /\ phase = "visit" /\ todo = {} /\ phase' = "remove"
        /\ UNCHANGED <<daemon, level, formatter, appenders, old_value, new_value>>
    BY <1>7 DEF BeginRemoval, loggers
  <2>2. \A n \in DOMAIN new_value' : Configured(n, new_value[n])'
    BY <2>1 DEF AppliedInv, Configured
  <2>3. Value(old_value') /\ Value(new_value')
    BY <2>1 DEF AppliedInv
  <2> QED
    BY <2>1, <2>2, <2>3 DEF AppliedInv, Changing, Removing
<1>8. CASE RemoveLevel \/ RemoveAppenders
  <2>1. /\ phase \in Removing /\ phase' \in Removing /\ todo # {}
        /\ UNCHANGED <<daemon, old_value, new_value>>
    BY <1>8 DEF RemoveLevel, RemoveAppenders, Removing, PhaseOK
  <2>2. name \in todo /\ todo \subseteq Removed
    BY <2>1, NameIn DEF PhaseOK, Removing
  <2>3. name \notin DOMAIN new_value /\ DOMAIN new_value \subseteq Names
    BY <2>2 DEF Removed, PhaseOK
  <2>4. \A n \in Names \ {name} : Left(n)
    BY <1>8 DEF RemoveLevel, RemoveAppenders, PhaseOK
  <2>5. \A n \in DOMAIN new_value : Configured(n, new_value[n])
    BY <2>1 DEF AppliedInv
  <2>6. \A n \in DOMAIN new_value' : Configured(n, new_value[n])'
    BY <2>1, <2>3, <2>4, <2>5 DEF Configured
  <2>7. Value(old_value') /\ Value(new_value')
    BY <2>1 DEF AppliedInv
  <2>8. phase' \notin {"idle", "visit"} \cup Changing
    BY <2>1 DEF Changing, Removing
  <2> QED
    BY <2>6, <2>7, <2>8 DEF AppliedInv
<1>9. CASE Store
  <2>1. /\ phase = "remove" /\ phase' = "idle" /\ old_value' = new_value
        /\ UNCHANGED <<daemon, level, formatter, appenders, new_value>>
    BY <1>9 DEF Store, loggers
  <2>2. \A n \in DOMAIN new_value : Configured(n, new_value[n])
    BY <2>1 DEF AppliedInv, Removing
  <2>3. \A n \in DOMAIN old_value' : Configured(n, old_value[n])'
    BY <2>1, <2>2 DEF Configured
  <2>4. Value(old_value') /\ Value(new_value')
    BY <2>1 DEF AppliedInv
  <2> QED
    BY <2>1, <2>3, <2>4 DEF AppliedInv, Changing, Removing
<1> QED
  BY <1>2, <1>3, <1>4, <1>5, <1>6, <1>7, <1>8, <1>9 DEF Next, Listener

LEMMA WorkHolds == Spec => [](ListenerInv /\ TypeInv /\ WorkInv)
<1>1. Init => WorkInv
  BY DEF Init, WorkInv, Changing
<1>2. (ListenerInv /\ TypeInv /\ WorkInv) /\ [Next]_vars
        => (ListenerInv /\ TypeInv /\ WorkInv)'
  BY ListenerStep, TypesStep, WorkStep
<1> QED
  BY <1>1, <1>2, ListenerStart, TypesStart, PTL DEF Spec

LEMMA AppliedHolds ==
  ASSUME AppendersNotAlone
  PROVE  Spec => [](TypeInv /\ AppliedInv)
<1>1. (ListenerInv /\ TypeInv /\ WorkInv) /\ AppliedInv /\ [Next]_vars => AppliedInv'
  BY AppliedStep
<1> QED
  BY <1>1, AppliedStart, WorkHolds, PTL DEF Spec

\* When the listener is done (Log.cpp:702-761), every logger has the level, the
\* format and the appenders of its definition, in whatever order configurations
\* followed one another and whatever clients logged meanwhile: of configurations
\* no two of which differ in the appenders of a logger alone.
THEOREM ConfigurationApplied ==
  ASSUME AppendersNotAlone
  PROVE  Spec => []Applied
<1>1. AppliedInv => Applied
  BY WantedMade DEF AppliedInv, Configured, Applied
<1> QED
  BY AppliedHolds, <1>1, PTL

-----------------------------------------------------------------------------
(* What a logger says of itself.                                           *)

\* The appender made of a definition with a valid format or none is written as
\* that definition.
LEMMA CreatedWritten ==
  ASSUME NEW a \in AppenderDefine, a.formatter \notin Invalid, NEW f
  PROVE  WriteAppender(Created(a, f)) = WriteAppenderDefine(a)
<1> DEFINE own == a.formatter # "" /\ a.formatter \notin Invalid
           e == Created(a, f)
<1>1. own \in BOOLEAN /\ own = (a.formatter # "")
  OBVIOUS
<1>2. /\ e.type = a.type /\ e.file = a.file /\ e.level = a.level /\ e.own = own
      /\ e.formatter = IF own THEN a.formatter ELSE f
  BY DEF Created
<1>3. (IF e.own THEN e.formatter ELSE Null) = Unless(a.formatter, "")
  BY <1>1, <1>2 DEF Unless
<1> HIDE DEF e, own
<1>4. WriteAppender(e) = WriteAppenderDefine(a)
  BY <1>2, <1>3 DEF WriteAppender, WriteAppenderDefine
<1> QED
  BY <1>4 DEF e

\* With no daemon, an appender is made of each definition.
LEMMA MadeOfAll ==
  ASSUME NEW d \in LoggerDefine, NEW f
  PROVE  Made(d, Len(d.appenders), FALSE, f) =
           [x \in DOMAIN d.appenders |-> Created(d.appenders[x], f)]
<1>1. d.appenders \in Seq(AppenderDefine)
  BY DEF LoggerDefine
<1>2. DOMAIN d.appenders \subseteq Keep(d, FALSE)
  BY DEF Keep
<1>3. Picked(d.appenders, Keep(d, FALSE)) = d.appenders
  BY <1>1, <1>2, PickedAll
<1> QED
  BY <1>3 DEF Made, Picked

LEMMA LoggerWritten ==
  ASSUME ~daemon, NEW n, NEW d \in LoggerDefine, Configured(n, d), d.formatter # "",
         \A x \in DOMAIN d.appenders : d.appenders[x].formatter \notin Invalid
  PROVE  WriteLogger(level[n], formatter[n], appenders[n]) = WriteDefine(d)
<1> DEFINE s == d.appenders
           list == [x \in DOMAIN appenders[n] |-> WriteAppender(appenders[n][x])]
           maps == [x \in DOMAIN s |-> WriteAppenderDefine(s[x])]
<1>1. level[n] = d.level /\ formatter[n] = d.formatter
  BY DEF Configured
<1>2. daemon = FALSE \/ Made(d, Len(s), daemon, formatter[n])
                          = Made(d, Len(s), FALSE, formatter[n])
  <2>1. Keep(d, daemon) = Keep(d, FALSE)
    BY DEF Keep
  <2> QED
    BY <2>1 DEF Made
<1>3. appenders[n] = [x \in DOMAIN s |-> Created(s[x], formatter[n])]
  BY <1>2, MadeOfAll DEF Configured
<1>4. \A x \in DOMAIN s : s[x] \in AppenderDefine
  <2>1. s \in Seq(AppenderDefine)
    BY DEF LoggerDefine
  <2> HIDE DEF s, list, maps
  <2> QED
    BY ONLY <2>1
<1>5. \A x \in DOMAIN s :
        WriteAppender(Created(s[x], formatter[n])) = WriteAppenderDefine(s[x])
  BY <1>4, CreatedWritten
<1>6. list = maps
  BY <1>3, <1>5
<1>7. WriteLogger(level[n], formatter[n], appenders[n]) =
        [level |-> WriteLevel(level[n]), formatter |-> formatter[n],
         appenders |-> Unless(list, << >>)]
  BY DEF WriteLogger
<1>8. WriteDefine(d) = [level |-> WriteLevel(d.level), formatter |-> Unless(d.formatter, ""),
                        appenders |-> Unless(maps, << >>)]
  BY DEF WriteDefine
<1>9. Unless(d.formatter, "") = d.formatter
  BY DEF Unless
<1> HIDE DEF list, maps
<1> QED
  BY <1>1, <1>6, <1>7, <1>8, <1>9

\* What toYamlString() says of a logger (Log.cpp:268-285) reads as the definition
\* the logger was made from.
THEOREM LoggersReadBack ==
  ASSUME AppendersNotAlone
  PROVE  Spec => []DumpReadsBack
<1>1. TypeInv /\ AppliedInv => DumpReadsBack
  <2> SUFFICES ASSUME TypeInv, AppliedInv, phase = "idle", ~daemon,
                      NEW n \in DOMAIN old_value, old_value[n].formatter # "",
                      \A x \in DOMAIN old_value[n].appenders :
                        old_value[n].appenders[x].formatter \notin Invalid
               PROVE  ReadDefine(WriteLogger(level[n], formatter[n], appenders[n]))
                        = old_value[n]
    BY DEF DumpReadsBack
  <2>1. old_value[n] \in LoggerDefine /\ Configured(n, old_value[n])
    BY DEF TypeInv, AppliedInv
  <2> QED
    BY <2>1, LoggerWritten, DefineReadsBack
<1> QED
  BY AppliedHolds, <1>1, PTL

-----------------------------------------------------------------------------
(* Events that clients log meanwhile.                                      *)

Begins(s, t) == Len(s) <= Len(t) /\ \A x \in 1..Len(s) : s[x] = t[x]

\* What the first j appenders of the definition d write to, and the sides a list
\* of targets of logger n may be on: its old appenders', or its definition's.
NewTargets(d, j, dm) == Targets(Taken(d.appenders, Keep(d, dm))[j])
OneSide(n, t) ==
  \/ Begins(t, Targets(before[n]))
  \/ /\ n \in DOMAIN new_value
     /\ Begins(t, NewTargets(new_value[n], Len(new_value[n].appenders), daemon))

SidesInv == \A n \in Names : OneSide(n, Targets(appenders[n]))

\* An event has been written to the first pos - 1 appenders of its logger; until
\* it has the mutex, to none.
EventType == [at: Names, v: EventLevels, held: SUBSET Names, pos: Nat,
              wrote: Seq({File, Stdout} \X STRING)]
EventInv ==
  event # Null =>
    /\ event \in EventType
    /\ event.at \notin event.held => event.pos = 1 /\ event.wrote = << >>
    /\ event.at \in event.held =>
         /\ event.pos \in 1..(Len(appenders[event.at]) + 1)
         /\ Len(event.wrote) = event.pos - 1
         /\ \A x \in 1..(event.pos - 1) : event.wrote[x] = Target(appenders[event.at][x])

LEMMA TargetsOfList ==
  ASSUME NEW S, NEW s \in Seq(S)
  PROVE  /\ Len(Targets(s)) = Len(s)
         /\ \A x \in 1..Len(s) : Targets(s)[x] = Target(s[x])
         /\ Targets(s) \in Seq({Target(a) : a \in S})
<1>1. Targets(s) = [x \in 1..Len(s) |-> Target(s[x])] /\ Len(s) \in Nat
  BY DEF Targets
<1>2. \A x \in 1..Len(s) : s[x] \in S
  OBVIOUS
<1>3. \A x \in 1..Len(s) : Target(s[x]) \in {Target(a) : a \in S}
  BY <1>2
<1> QED
  BY ONLY <1>1, <1>3

LEMMA NewTargetsGrow ==
  ASSUME NEW d \in LoggerDefine, NEW dm, NEW j \in 0..Len(d.appenders)
  PROVE  /\ NewTargets(d, j, dm) \in Seq({Target(a) : a \in AppenderDefine})
         /\ Begins(NewTargets(d, j, dm), NewTargets(d, Len(d.appenders), dm))
<1> DEFINE s == d.appenders
           I == Keep(d, dm)
           T == {s[i] : i \in I \cap DOMAIN s}
           t == Taken(s, I)[j]
           u == Picked(s, I)
<1>1. s \in Seq(AppenderDefine) /\ Len(s) \in 0..Len(s)
  BY DEF LoggerDefine
<1>2. t \in Seq(T) /\ u \in Seq(T)
  BY <1>1, TakenIn DEF Picked
<1>3. Len(t) <= Len(u) /\ \A x \in 1..Len(t) : u[x] = t[x]
  BY <1>1, TakenPrefix
<1>4. T \subseteq AppenderDefine
  BY <1>1
<1>5. NewTargets(d, j, dm) = Targets(t) /\ NewTargets(d, Len(s), dm) = Targets(u)
  BY DEF NewTargets, Picked
<1> HIDE DEF t, u, T
<1>6. t \in Seq(AppenderDefine) /\ u \in Seq(AppenderDefine)
  BY <1>2, <1>4
<1>7. /\ Len(Targets(t)) = Len(t) /\ Len(Targets(u)) = Len(u)
      /\ \A x \in 1..Len(t) : Targets(t)[x] = Target(t[x])
      /\ \A x \in 1..Len(u) : Targets(u)[x] = Target(u[x])
      /\ Targets(t) \in Seq({Target(a) : a \in AppenderDefine})
  BY <1>6, TargetsOfList
<1>8. Len(t) \in Nat /\ Len(u) \in Nat
  BY <1>6
<1>9. Begins(Targets(t), Targets(u))
  BY <1>3, <1>7, <1>8 DEF Begins
<1> QED
  BY <1>5, <1>7, <1>9

LEMMA MadeTargets ==
  ASSUME NEW d, NEW j, NEW dm, NEW f
  PROVE  Targets(Made(d, j, dm, f)) = NewTargets(d, j, dm)
<1> DEFINE kept == Taken(d.appenders, Keep(d, dm))[j]
<1>1. \A x \in DOMAIN kept : Target(Created(kept[x], f)) = Target(kept[x])
  BY DEF Target, Created
<1>2. Made(d, j, dm, f) = [x \in DOMAIN kept |-> Created(kept[x], f)]
  BY DEF Made
<1> HIDE DEF kept
<1>3. Targets(Made(d, j, dm, f)) = [x \in DOMAIN kept |-> Target(kept[x])]
  BY <1>1, <1>2 DEF Targets
<1> QED
  BY <1>3 DEF NewTargets, kept, Targets

LEMMA ReformattedTargets ==
  ASSUME NEW s \in Seq(LoggerAppender), NEW f
  PROVE  Targets(Reformatted(s, f)) = Targets(s)
<1>1. \A x \in DOMAIN s : s[x] \in LoggerAppender
  OBVIOUS
<1>2. \A a \in LoggerAppender :
        Target(IF a.own THEN a ELSE [a EXCEPT !.formatter = f]) = Target(a)
  BY DEF Target, LoggerAppender
<1> QED
  BY <1>1, <1>2 DEF Targets, Reformatted

LEMMA NothingBegins ==
  ASSUME TypeInv, NEW n \in Names
  PROVE  Begins(<< >>, Targets(before[n])) /\ Targets(<< >>) = << >>
<1>1. before[n] \in Seq(LoggerAppender)
  BY DEF TypeInv
<1>2. Len(Targets(before[n])) \in Nat
  BY <1>1, TargetsOfList
<1> QED
  BY <1>2 DEF Begins, Targets

LEMMA SidesStart == Init => SidesInv /\ EventInv
<1> SUFFICES ASSUME Init PROVE SidesInv
  BY DEF Init, EventInv
<1>1. before = appenders
  BY DEF Init
<1>2. TypeInv
  BY TypesStart
<1>3. ASSUME NEW n \in Names PROVE Begins(Targets(appenders[n]), Targets(before[n]))
  <2>1. appenders[n] \in Seq(LoggerAppender)
    BY <1>2 DEF TypeInv
  <2>2. Len(Targets(appenders[n])) \in Nat
    BY <2>1, TargetsOfList
  <2> QED
    BY <1>1, <2>2 DEF Begins
<1> QED
  BY <1>3 DEF SidesInv, OneSide

-----------------------------------------------------------------------------
LEMMA SidesStep ==
  ASSUME ListenerInv, TypeInv, WorkInv, SidesInv, [Next]_vars
  PROVE  SidesInv'
<1> USE DEF ListenerInv
<1>0. TypeInv' /\ WorkInv'
  BY TypesStep, WorkStep
<1> SUFFICES ASSUME NEW n \in Names PROVE OneSide(n, Targets(appenders[n]))'
  BY DEF SidesInv
<1>1. OneSide(n, Targets(appenders[n]))
  BY DEF SidesInv
<1> DEFINE Stays == UNCHANGED <<before, new_value, daemon>>
<1>2. ASSUME Stays, Targets(appenders'[n]) = Targets(appenders[n])
      PROVE  OneSide(n, Targets(appenders[n]))'
  BY <1>1, <1>2 DEF OneSide
<1>3. ASSUME Stays, appenders'[n] = << >>
      PROVE  OneSide(n, Targets(appenders[n]))'
  <2>1. Begins(<< >>, Targets(before[n])) /\ Targets(<< >>) = << >>
    BY NothingBegins
  <2> QED
    BY <1>3, <2>1 DEF OneSide
<1>4. CASE Client \/ UNCHANGED vars
  <2>1. UNCHANGED <<appenders, before, new_value, daemon>>
    BY <1>4, ClientLeaves DEF listenerVars, loggers, history
  <2> QED
    BY <1>2, <2>1
<1>5. CASE SetValue
  <2>1. before' = appenders /\ appenders' = appenders
    BY <1>5 DEF SetValue, loggers
  <2>2. appenders[n] \in Seq(LoggerAppender)
    BY DEF TypeInv
  <2>3. Len(Targets(appenders[n])) \in Nat
    BY <2>2, TargetsOfList
  <2>4. Begins(Targets(appenders[n]), Targets(appenders[n]))
    BY <2>3 DEF Begins
  <2> QED
    BY <2>1, <2>4 DEF OneSide
<1>6. CASE Skip \/ SetLevel \/ NextLogger \/ BeginRemoval \/ RemoveLevel \/ Store
  <2>1. UNCHANGED <<appenders, before, new_value, daemon>>
    BY <1>6 DEF Skip, SetLevel, NextLogger, BeginRemoval, RemoveLevel, Store,
       loggers, history
  <2> QED
    BY <1>2, <2>1
<1>7. CASE SetFormatter
  <2>1. /\ UNCHANGED <<before, new_value, daemon>>
        /\ appenders' = [appenders EXCEPT ![name] = Reformatted(@, define.formatter)]
    BY <1>7 DEF SetFormatter, history
  <2>2. appenders'[n] = appenders[n] \/ appenders'[n] = Reformatted(appenders[n], define.formatter)
    BY <2>1 DEF TypeInv
  <2>3. Targets(Reformatted(appenders[n], define.formatter)) = Targets(appenders[n])
    <3>1. appenders[n] \in Seq(LoggerAppender)
      BY DEF TypeInv
    <3> QED
      BY <3>1, ReformattedTargets
  <2> QED
    BY <1>2, <2>1, <2>2, <2>3
<1>8. CASE ClearAppenders \/ RemoveAppenders
  <2>1. /\ UNCHANGED <<before, new_value, daemon>>
        /\ appenders' = [appenders EXCEPT ![name] = << >>]
    BY <1>8 DEF ClearAppenders, RemoveAppenders, history
  <2>2. appenders'[n] = appenders[n] \/ appenders'[n] = << >>
    BY <2>1 DEF TypeInv
  <2> QED
    BY <1>2, <1>3, <2>1, <2>2
<1>9. CASE AddAppender
  <2>1. /\ UNCHANGED <<before, new_value, daemon, todo>> /\ phase = "add" /\ phase' = "add"
        /\ appenders' = [appenders EXCEPT ![name] = appenders'[name]]
    <3>1. DOMAIN appenders = Names
      BY DEF PhaseOK
    <3> QED
      BY <1>9, <3>1 DEF AddAppender, history
  <2>2. /\ name \in Names /\ name \in DOMAIN new_value /\ define \in LoggerDefine
        /\ todo # {}
    BY <2>1, DefineIn DEF PhaseOK, Changing
  <2>3. name' = name /\ define' = define
    BY <2>1 DEF name, define
  <2>4. CASE n # name
    BY <1>2, <2>1, <2>4 DEF TypeInv
  <2>5. CASE n = name
    <3>1. /\ k' \in 1..(Len(define.appenders) + 1)
          /\ appenders'[n] = Made(define, k' - 1, daemon, formatter'[n])
      BY <1>0, <2>1, <2>3, <2>5 DEF WorkInv
    <3>2. k' - 1 \in 0..Len(define.appenders)
      <4>1. define.appenders \in Seq(AppenderDefine)
        BY <2>2 DEF LoggerDefine
      <4>2. Len(define.appenders) \in Nat
        BY <4>1
      <4>3. k' \in 1..(Len(define.appenders) + 1)
        BY <3>1
      <4>4. \A l \in Nat : \A i \in 1..(l + 1) : i - 1 \in 0..l
        OBVIOUS
      <4> QED
        BY ONLY <4>2, <4>3, <4>4
    <3>3. Begins(NewTargets(define, k' - 1, daemon),
                 NewTargets(define, Len(define.appenders), daemon))
      BY <2>2, <3>2, NewTargetsGrow
    <3>4. Targets(appenders'[n]) = NewTargets(define, k' - 1, daemon)
      BY <3>1, MadeTargets
    <3>5. define = new_value'[n] /\ n \in DOMAIN new_value' /\ daemon' = daemon
      BY <2>1, <2>2, <2>5 DEF define
    <3> HIDE DEF Stays
    <3> QED
      BY <3>3, <3>4, <3>5 DEF OneSide
  <2> QED
    BY <2>4, <2>5
<1> QED
  BY <1>4, <1>5, <1>6, <1>7, <1>8, <1>9 DEF Next, Listener

-----------------------------------------------------------------------------
\* The listener's calls on a logger wait for an event that has its mutex.
LEMMA EventKept ==
  ASSUME ListenerInv, TypeInv, EventInv, SetValue \/ Listener, event # Null
  PROVE  /\ event' = event
         /\ event.at \in event.held => appenders'[event.at] = appenders[event.at]
<1> USE DEF ListenerInv
<1>1. event' = event
  BY DEF SetValue, Listener, Skip, SetLevel, SetFormatter, ClearAppenders, AddAppender,
     NextLogger, BeginRemoval, RemoveLevel, RemoveAppenders, Store
<1>2. ASSUME event.at \in event.held
      PROVE  appenders'[event.at] = appenders[event.at]
  <2>1. event.at \in Names /\ DOMAIN appenders = Names
    BY DEF EventInv, EventType, PhaseOK
  <2>2. CASE SetFormatter \/ ClearAppenders \/ AddAppender \/ RemoveAppenders
    <3>1. ~Locked(name)
      BY <2>2 DEF SetFormatter, ClearAppenders, AddAppender, RemoveAppenders
    <3>2. event.at # name
      BY <1>2, <3>1 DEF Locked
    <3> QED
      BY <2>1, <2>2, <3>2 DEF SetFormatter, ClearAppenders, AddAppender, RemoveAppenders
  <2>3. CASE SetValue \/ Skip \/ SetLevel \/ NextLogger \/ BeginRemoval \/ RemoveLevel \/ Store
    BY <2>3 DEF SetValue, Skip, SetLevel, NextLogger, BeginRemoval, RemoveLevel, Store,
       loggers
  <2> QED
    BY <2>2, <2>3 DEF Listener
<1> QED
  BY <1>1, <1>2

\* Every appender of the listener's, and the console of the start, takes what is
\* logged at DEBUG and above.
LEMMA WriteStep ==
  ASSUME ListenerInv, TypeInv, EventInv, EventWrite
  PROVE  EventInv'
<1> DEFINE s == appenders[event.at]
           a == s[event.pos]
<1>1. /\ event # Null /\ event \in EventType /\ event.at \in event.held
      /\ event.pos <= Len(s) /\ event.pos \in 1..(Len(s) + 1)
      /\ Len(event.wrote) = event.pos - 1
      /\ \A x \in 1..(event.pos - 1) : event.wrote[x] = Target(s[x])
      /\ appenders' = appenders
  BY DEF EventWrite, Writing, EventInv, listenerVars, loggers
<1>2. /\ event.at \in Names /\ event.v \in EventLevels /\ event.held \subseteq Names
      /\ event.pos \in Nat /\ event.wrote \in Seq({File, Stdout} \X STRING)
  BY <1>1 DEF EventType
<1>3. s \in Seq(LoggerAppender)
  BY <1>2 DEF TypeInv
<1>4. event.pos \in 1..Len(s)
  <2>1. Len(s) \in Nat
    BY <1>3
  <2> HIDE DEF s
  <2> QED
    BY <1>1, <1>2, <2>1
<1>5. a \in LoggerAppender
  BY <1>3, <1>4
<1>6. Target(a) \in {File, Stdout} \X STRING
  BY <1>5 DEF Target, LoggerAppender
<1>7. event.v >= a.level
  <2>1. a.level \in 0..1
    BY <1>5 DEF LoggerAppender
  <2>2. event.v \in 1..5
    BY <1>2, ConfigAssumption
  <2> HIDE DEF a
  <2> QED
    BY <2>1, <2>2
<1> DEFINE w == Append(event.wrote, Target(a))
<1>8. event' = [event EXCEPT !.pos = event.pos + 1, !.wrote = w]
  BY <1>7 DEF EventWrite
<1>9. /\ event'.at = event.at /\ event'.held = event.held
      /\ event'.pos = event.pos + 1 /\ event'.wrote = w
  <2> HIDE DEF w
  <2> QED
    BY <1>1, <1>8 DEF EventType
<1> HIDE DEF s, a
<1>10. /\ w \in Seq({File, Stdout} \X STRING) /\ Len(w) = Len(event.wrote) + 1
       /\ \A x \in 1..Len(event.wrote) : w[x] = event.wrote[x]
       /\ w[Len(event.wrote) + 1] = Target(a)
  BY <1>2, <1>6
<1> HIDE DEF w
<1>11. event' \in EventType
  <2>1. event.pos + 1 \in Nat /\ w \in Seq({File, Stdout} \X STRING)
    BY <1>2, <1>10
  <2>2. \A p \in Nat, u \in Seq({File, Stdout} \X STRING) :
          [event EXCEPT !.pos = p, !.wrote = u] \in EventType
    BY <1>1 DEF EventType
  <2> QED
    BY <1>8, <2>1, <2>2
<1>12. event.pos + 1 \in 1..(Len(s) + 1)
  <2>1. Len(s) \in Nat
    BY <1>3
  <2> QED
    BY <1>4, <2>1
<1>13. Len(w) = (event.pos + 1) - 1
  BY <1>1, <1>2, <1>10
<1>14. \A x \in 1..((event.pos + 1) - 1) : w[x] = Target(s[x])
  <2> SUFFICES ASSUME NEW x \in 1..((event.pos + 1) - 1) PROVE w[x] = Target(s[x])
    OBVIOUS
  <2>1. x \in 1..(event.pos - 1) \/ x = event.pos
    BY <1>2
  <2>2. w[event.pos] = Target(s[event.pos])
    BY <1>1, <1>2, <1>10 DEF a
  <2>3. x \in 1..(event.pos - 1) => w[x] = event.wrote[x]
    BY <1>1, <1>10
  <2> QED
    BY <1>1, <2>1, <2>2, <2>3
<1> QED
  BY <1>1, <1>9, <1>11, <1>12, <1>13, <1>14 DEF EventInv, s

LEMMA EventStep ==
  ASSUME ListenerInv, TypeInv, EventInv, [Next]_vars
  PROVE  EventInv'
<1> USE DEF ListenerInv
<1>1. CASE SetValue \/ Listener
  <2>1. CASE event = Null
    <3>1. event' = event
      BY <1>1 DEF SetValue, Listener, Skip, SetLevel, SetFormatter, ClearAppenders,
         AddAppender, NextLogger, BeginRemoval, RemoveLevel, RemoveAppenders, Store
    <3> QED
      BY <2>1, <3>1 DEF EventInv
  <2>2. CASE event # Null
    <3>1. /\ event' = event
          /\ event.at \in event.held => appenders'[event.at] = appenders[event.at]
      BY <1>1, <2>2, EventKept
    <3> QED
      BY <2>2, <3>1 DEF EventInv
  <2> QED
    BY <2>1, <2>2
<1>2. CASE UNCHANGED vars
  BY <1>2 DEF vars, listenerVars, loggers, EventInv
<1>3. ASSUME NEW n \in Names, NEW v \in EventLevels, EventCall(n, v)
      PROVE  EventInv'
  <2>1. event' = [at |-> n, v |-> v, held |-> {}, pos |-> 1, wrote |-> << >>]
    BY <1>3 DEF EventCall
  <2>2. << >> \in Seq({File, Stdout} \X STRING)
    OBVIOUS
  <2>3. event' \in EventType
    BY <2>1, <2>2 DEF EventType
  <2>4. event'.at \notin event'.held /\ event'.pos = 1 /\ event'.wrote = << >>
    BY <2>1
  <2> QED
    BY <2>3, <2>4 DEF EventInv
<1>4. CASE EventLock
  <2>1. /\ event # Null /\ event \in EventType /\ event.pos = 1 /\ event.wrote = << >>
        /\ event' = [event EXCEPT !.held = event.held \cup {event.at}]
        /\ appenders' = appenders
    BY <1>4 DEF EventLock, EventInv, listenerVars, loggers
  <2>2. event.at \in Names /\ event.held \subseteq Names
    BY <2>1 DEF EventType
  <2>3. event' \in EventType
    BY <2>1, <2>2 DEF EventType
  <2>4. /\ event'.at = event.at /\ event'.at \in event'.held
        /\ event'.pos = 1 /\ event'.wrote = << >>
    BY <2>1 DEF EventType
  <2>5. appenders[event.at] \in Seq(LoggerAppender)
    BY <2>2 DEF TypeInv
  <2>6. 1 \in 1..(Len(appenders[event.at]) + 1)
    BY <2>5
  <2> QED
    BY <2>1, <2>3, <2>4, <2>6 DEF EventInv
<1>5. CASE EventWrite
  BY <1>5, WriteStep
<1>6. CASE EventForward
  <2>1. CASE event' = Null
    BY <2>1 DEF EventInv
  <2>2. CASE event' # Null
    <3>1. /\ event # Null /\ event \in EventType /\ event.at \in event.held
          /\ appenders[event.at] = << >>
          /\ event' = [event EXCEPT !.at = Root] /\ appenders' = appenders
      BY <1>6, <2>2 DEF EventForward, Writing, EventInv, listenerVars, loggers
    <3>2. event.pos \in 1..1 /\ Len(event.wrote) = event.pos - 1
      BY <3>1 DEF EventInv
    <3>3. event.wrote \in Seq({File, Stdout} \X STRING)
      BY <3>1 DEF EventType
    <3>4. event.pos = 1 /\ event.wrote = << >>
      BY <3>2, <3>3
    <3>5. Root \in Names
      BY ConfigAssumption
    <3>6. event' \in EventType
      BY <3>1, <3>5 DEF EventType
    <3>7. /\ event'.at = Root /\ event'.pos = 1 /\ event'.wrote = << >>
      BY <3>1, <3>4 DEF EventType
    <3>8. appenders[Root] \in Seq(LoggerAppender)
      BY <3>5 DEF TypeInv
    <3>9. 1 \in 1..(Len(appenders[Root]) + 1)
      BY <3>8
    <3> QED
      BY <3>1, <3>6, <3>7, <3>9 DEF EventInv
  <2> QED
    BY <2>1, <2>2
<1>7. CASE EventReturn
  BY <1>7 DEF EventReturn, EventInv
<1> QED
  BY <1>1, <1>2, <1>3, <1>4, <1>5, <1>6, <1>7 DEF Next, Client

-----------------------------------------------------------------------------
LEMMA EventsHold == Spec => [](ListenerInv /\ TypeInv /\ WorkInv /\ SidesInv /\ EventInv)
<1>1. (ListenerInv /\ TypeInv /\ WorkInv) /\ SidesInv /\ EventInv /\ [Next]_vars
        => SidesInv' /\ EventInv'
  BY SidesStep, EventStep
<1> QED
  BY <1>1, SidesStart, WorkHolds, PTL DEF Spec

LEMMA BeginsIsPrefix ==
  ASSUME NEW S, NEW s \in Seq(S), NEW T, NEW t \in Seq(T), Begins(s, t)
  PROVE  IsPrefixOf(s, t)
<1>1. Len(s) \in Nat /\ Len(t) \in Nat /\ Len(s) <= Len(t)
  BY DEF Begins
<1>2. /\ SubSeq(t, 1, Len(s)) \in Seq(T) /\ Len(SubSeq(t, 1, Len(s))) = Len(s)
      /\ \A x \in 1..Len(s) : SubSeq(t, 1, Len(s))[x] = t[x]
  BY <1>1, SubSeqProperties
<1>3. s = SubSeq(t, 1, Len(s))
  BY <1>1, <1>2 DEF Begins
<1> QED
  BY <1>1, <1>3 DEF IsPrefixOf

\* What an event has been written to is on one side, as the list it is from is.
LEMMA WrittenOnOneSide ==
  ASSUME TypeInv, SidesInv, EventInv, event # Null
  PROVE  /\ event.at \in Names /\ event.wrote \in Seq({File, Stdout} \X STRING)
         /\ OneSide(event.at, event.wrote)
<1> DEFINE n == event.at
           s == appenders[n]
           w == event.wrote
<1>1. n \in Names /\ w \in Seq({File, Stdout} \X STRING) /\ event.pos \in Nat
  BY DEF EventInv, EventType
<1>2. CASE n \notin event.held
  <2>1. w = << >>
    BY <1>2 DEF EventInv
  <2> QED
    BY <1>1, <2>1, NothingBegins DEF OneSide
<1>3. CASE n \in event.held
  <2>1. /\ event.pos \in 1..(Len(s) + 1) /\ Len(w) = event.pos - 1
        /\ \A x \in 1..(event.pos - 1) : w[x] = Target(s[x])
    BY <1>3 DEF EventInv
  <2>2. s \in Seq(LoggerAppender)
    BY <1>1 DEF TypeInv
  <2>3. /\ Len(Targets(s)) = Len(s) /\ Len(s) \in Nat
        /\ \A x \in 1..Len(s) : Targets(s)[x] = Target(s[x])
    <3>1. Len(s) \in Nat
      BY <2>2
    <3> HIDE DEF s
    <3>2. /\ Len(Targets(s)) = Len(s)
          /\ \A x \in 1..Len(s) : Targets(s)[x] = Target(s[x])
      BY <2>2, TargetsOfList
    <3> QED
      BY <3>1, <3>2
  <2>4. Len(w) \in Nat /\ Len(w) <= Len(Targets(s))
        /\ \A x \in 1..Len(w) : w[x] = Targets(s)[x]
    <3> HIDE DEF n, s, w
    <3> QED
      BY <1>1, <2>1, <2>3
  <2>5. OneSide(n, Targets(s))
    BY <1>1 DEF SidesInv
  <2>6. ASSUME NEW u, Len(u) \in Nat, Begins(Targets(s), u) PROVE Begins(w, u)
    <3> HIDE DEF s, w
    <3> QED
      BY <2>3, <2>4, <2>6 DEF Begins
  <2>7. Len(Targets(before[n])) \in Nat
    <3>1. before[n] \in Seq(LoggerAppender)
      BY <1>1 DEF TypeInv
    <3> QED
      BY <3>1, TargetsOfList
  <2>8. ASSUME n \in DOMAIN new_value
        PROVE  Len(NewTargets(new_value[n], Len(new_value[n].appenders), daemon)) \in Nat
    <3>1. new_value[n] \in LoggerDefine
      BY <2>8 DEF TypeInv
    <3>2. new_value[n].appenders \in Seq(AppenderDefine)
      BY <3>1 DEF LoggerDefine
    <3>3. Len(new_value[n].appenders) \in 0..Len(new_value[n].appenders)
      BY <3>2
    <3>4. NewTargets(new_value[n], Len(new_value[n].appenders), daemon)
            \in Seq({Target(a) : a \in AppenderDefine})
      BY <3>1, <3>3, NewTargetsGrow
    <3> QED
      BY ONLY <3>4
  <2> QED
    BY <1>1, <2>5, <2>6, <2>7, <2>8 DEF OneSide
<1> QED
  BY <1>2, <1>3

\* While the listener takes the appenders of a logger away and adds the new ones
\* (Log.cpp:724-747), an event is written to old appenders or to new ones, in
\* their order, never to some of both.
THEOREM EventsOldOrNew == Spec => []OldOrNew
<1>1. TypeInv /\ SidesInv /\ EventInv => OldOrNew
  <2> SUFFICES ASSUME TypeInv, SidesInv, EventInv, event # Null
               PROVE  LET n == event.at
                      IN \/ IsPrefixOf(event.wrote, Targets(before[n]))
                         \/ /\ n \in DOMAIN new_value
                            /\ IsPrefixOf(event.wrote, Targets(Wanted(n, new_value[n])))
    BY DEF OldOrNew
  <2> DEFINE n == event.at
  <2>1. /\ n \in Names /\ event.wrote \in Seq({File, Stdout} \X STRING)
        /\ OneSide(n, event.wrote)
    BY WrittenOnOneSide
  <2>2. CASE Begins(event.wrote, Targets(before[n]))
    <3>1. before[n] \in Seq(LoggerAppender)
      BY <2>1 DEF TypeInv
    <3>2. Targets(before[n]) \in Seq({Target(a) : a \in LoggerAppender})
      BY <3>1, TargetsOfList
    <3>3. IsPrefixOf(event.wrote, Targets(before[n]))
      BY <2>1, <2>2, <3>2, BeginsIsPrefix
    <3> QED
      BY <3>3
  <2>3. CASE n \in DOMAIN new_value /\
             Begins(event.wrote,
                    NewTargets(new_value[n], Len(new_value[n].appenders), daemon))
    <3> DEFINE d == new_value[n]
               t == NewTargets(d, Len(d.appenders), daemon)
    <3>1. d \in LoggerDefine
      BY <2>3 DEF TypeInv
    <3>2. d.appenders \in Seq(AppenderDefine)
      BY <3>1 DEF LoggerDefine
    <3>3. Len(d.appenders) \in 0..Len(d.appenders)
      BY <3>2
    <3>4. t \in Seq({Target(a) : a \in AppenderDefine})
      BY <3>1, <3>3, NewTargetsGrow
    <3>5. t = Targets(Wanted(n, d))
      BY WantedMade, MadeTargets
    <3> HIDE DEF t, d
    <3>6. IsPrefixOf(event.wrote, t)
      BY <2>1, <2>3, <3>4, BeginsIsPrefix DEF t, d
    <3> QED
      BY <2>3, <3>5, <3>6 DEF d
  <2> QED
    BY <2>1, <2>2, <2>3 DEF OneSide
<1> QED
  BY EventsHold, <1>1, PTL

\* Types: of the listener's and the client's state, whatever is configured.
THEOREM TypeCorrect == Spec => []TypeOK
<1>1. ListenerInv /\ TypeInv /\ EventInv => TypeOK
  <2> SUFFICES ASSUME ListenerInv, TypeInv, EventInv PROVE TypeOK
    OBVIOUS
  <2> USE DEF ListenerInv
  <2>1. todo \subseteq Names
    <3>1. phase = "idle" => todo = {}
      BY DEF TypeInv
    <3> QED
      BY <3>1 DEF PhaseOK, Changing, Removing, Removed
  <2>2. phase \in {"format", "clear", "add"} => todo \cap DOMAIN new_value # {}
    BY DEF PhaseOK, Changing
  <2>3. /\ DOMAIN old_value \subseteq Names /\ DOMAIN new_value \subseteq Names
        /\ ever \subseteq Names /\ (phase = "unlink" => todo # {})
        /\ phase \in {"idle", "visit", "format", "clear", "add", "remove", "unlink"}
    BY DEF PhaseOK, Changing, Removing
  <2>4. daemon \in BOOLEAN /\ level \in [Names -> 0..5]
    BY DEF TypeInv
  <2>5. event # Null => event \in EventType
    BY DEF EventInv
  <2> QED
    BY <2>1, <2>2, <2>3, <2>4, <2>5 DEF TypeOK, EventType
<1> QED
  BY EventsHold, <1>1, PTL
=============================================================================
