--------------------------- MODULE StatusProperties ---------------------------
(* What the special members of Status have to guarantee together. *)
EXTENDS Status

Pointers == {state_[o] : o \in live} \ {Null}

\* No array is pointed to by two objects, and none by an object that is gone:
\* every array is deleted once (destructor, copies, moves; status.h 9-16, 82-99).
OneOwner ==
  \A o, p \in Objects :
    state_[o] # Null => o \in live /\ (o # p => state_[o] # state_[p])

\* The allocated arrays are those the objects point to: none is lost by an
\* assignment or a move, none is used after it was deleted.
NoLeak == Allocated = Pointers

\* To its users a status is a value, whatever happens to the arrays.
Held(o) ==
  IF o \notin live THEN Gone
  ELSE IF state_[o] = Null THEN Ok ELSE heap[state_[o]]
Value == INSTANCE StatusValue WITH value <- [o \in Objects |-> Held(o)]

\* Copying, moving, assigning (to itself as well) and destroying do to the
\* values what they should and nothing to any other object.
ValueSemantics == Value!Spec
=============================================================================
