----------------------------- MODULE StatusValue -----------------------------
(***************************************************************************)
(* What Status of DB/include/ldb/status.h promises: a status is a value.   *)
(* There are no pointers here; an assignment from another status copies    *)
(* its value and leaves the other alone, a move exchanges what the two     *)
(* hold (operator=, line 97) or leaves an OK status behind (line 15).      *)
(***************************************************************************)
CONSTANTS
  Objects,       \* the places where a Status can live
  Messages,      \* code and message of an error
  Ok, Gone       \* the value of a success status, and of no object

VARIABLE value

Put(o, v) == value' = [value EXCEPT ![o] = v]

Construct(o) == value[o] = Gone /\ \E v \in Messages \cup {Ok} : Put(o, v)
Copy(o, from) == value[o] = Gone /\ value[from] # Gone /\ Put(o, value[from])
Move(o, from) ==
  /\ value[o] = Gone /\ value[from] # Gone
  /\ value' = [value EXCEPT ![o] = value[from], ![from] = Ok]
Assign(o, from) == value[o] # Gone /\ value[from] # Gone /\ Put(o, value[from])
Exchange(o, from) ==
  /\ value[o] # Gone /\ value[from] # Gone
  /\ value' = [value EXCEPT ![o] = value[from], ![from] = value[o]]
Destroy(o) == value[o] # Gone /\ Put(o, Gone)

Init == value = [o \in Objects |-> Gone]
Next ==
  \/ \E o \in Objects : Construct(o) \/ Destroy(o)
  \/ \E o, from \in Objects :
       Copy(o, from) \/ Move(o, from) \/ Assign(o, from) \/ Exchange(o, from)
Spec == Init /\ [][Next]_value
=============================================================================
