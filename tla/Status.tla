-------------------------------- MODULE Status --------------------------------
(***************************************************************************)
(* Status of DB/include/ldb/status.h: null for success, or a pointer to a  *)
(* message that was allocated for it.  The constructor with a code and     *)
(* CopyState are declared there without a body: they allocate an array     *)
(* (comment, 74-79).  Memory is taken never to run out; a block may be     *)
(* handed out again once it is deleted.                                    *)
(***************************************************************************)
EXTENDS Naturals

CONSTANTS
  Objects,       \* the places where a Status can live
  Messages,      \* code and message of an error
  Blocks,        \* addresses of arrays
  Null,
  Ok, Gone       \* of StatusValue

ASSUME StatusAssumption ==
  /\ Null \notin Blocks \cup Messages
  /\ Gone \notin Messages \cup {Ok}
  /\ Ok \notin Messages

VARIABLES
  live,          \* the objects that are constructed
  state_,        \* what an object points to
  heap           \* the arrays that are allocated, with their messages

statusVars == <<live, state_, heap>>

-----------------------------------------------------------------------------
(* The heap: new[] and delete[], before it and after it. *)

Allocated == {b \in Blocks : heap[b] # Null}
New(h, b, msg) == [h EXCEPT ![b] = msg]
Deleted(p) == IF p = Null THEN heap ELSE [heap EXCEPT ![p] = Null]

\* state_ of o becomes a copy of what p points to, made after h is the heap.
CopyInto(h, o, p) ==
  IF p = Null
  THEN state_' = [state_ EXCEPT ![o] = Null] /\ heap' = h
  ELSE \E b \in {c \in Blocks : h[c] = Null} :
         /\ state_' = [state_ EXCEPT ![o] = b]
         /\ heap' = New(h, b, h[p])

Point(o, p) == state_' = [state_ EXCEPT ![o] = p]

-----------------------------------------------------------------------------
(* Plausible bugs of the definitions below. *)

MoveConstructKept(o, rhs) ==
  /\ o \notin live /\ rhs \in live
  /\ live' = live \cup {o} /\ Point(o, state_[rhs])
  /\ UNCHANGED heap

DiffersAlways(o, rhs) == TRUE

DestroyKept(o) ==
  /\ o \in live
  /\ live' = live \ {o} /\ Point(o, Null) /\ UNCHANGED heap

-----------------------------------------------------------------------------
(* The special members, and the functions that make an error. *)

ConstructOk(o) ==
  /\ o \notin live
  /\ live' = live \cup {o} /\ Point(o, Null) /\ UNCHANGED heap

ConstructError(o, msg) ==
  /\ o \notin live
  /\ live' = live \cup {o}
  /\ \E b \in Blocks \ Allocated : Point(o, b) /\ heap' = New(heap, b, msg)

CopyConstruct(o, rhs) ==
  /\ o \notin live /\ rhs \in live
  /\ live' = live \cup {o}
  /\ CopyInto(heap, o, state_[rhs])

MoveConstruct(o, rhs) ==
  /\ o \notin live /\ rhs \in live
  /\ live' = live \cup {o}
  /\ state_' = [state_ EXCEPT ![o] = state_[rhs], ![rhs] = Null]
  /\ UNCHANGED heap

Differs(o, rhs) == state_[o] # state_[rhs]

CopyAssign(o, rhs) ==
  /\ o \in live /\ rhs \in live
  /\ Differs(o, rhs)
  /\ CopyInto(Deleted(state_[o]), o, state_[rhs])
  /\ UNCHANGED live

MoveAssign(o, rhs) ==
  /\ o \in live /\ rhs \in live
  /\ state_' = [state_ EXCEPT ![o] = state_[rhs], ![rhs] = state_[o]]
  /\ UNCHANGED <<live, heap>>

Destroy(o) ==
  /\ o \in live
  /\ live' = live \ {o} /\ Point(o, Null) /\ heap' = Deleted(state_[o])

StatusInit ==
  /\ live = {}
  /\ state_ = [o \in Objects |-> Null]
  /\ heap = [b \in Blocks |-> Null]

StatusNext ==
  \/ \E o \in Objects :
       \/ ConstructOk(o) \/ Destroy(o)
       \/ \E msg \in Messages : ConstructError(o, msg)
  \/ \E o, rhs \in Objects :
       \/ CopyConstruct(o, rhs) \/ MoveConstruct(o, rhs)
       \/ CopyAssign(o, rhs) \/ MoveAssign(o, rhs)

StatusSpec == StatusInit /\ [][StatusNext]_statusVars
=============================================================================
