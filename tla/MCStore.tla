------------------------------- MODULE MCStore -------------------------------
(***************************************************************************)
(* The parts of the store that have code.  They share no state, and are    *)
(* explored one at a time: statuses live, or a table does, or two slices   *)
(* are compared, one of which has bytes taken off its front.               *)
(***************************************************************************)
EXTENDS MemTable, StatusProperties, SliceProperties

Users == {"writer", "reader", "iterator"}

\* One key is a prefix of the other.
PrefixKeys == {<<1>>, <<1, 0>>}

VARIABLE part

Init ==
  /\ \/ part \in {"status", "table"} /\ slice = <<>> /\ other = <<>>
     \/ part = "slices" /\ SliceInit
  /\ StatusInit /\ MemTableInit

Next ==
  /\ UNCHANGED part
  /\ \/ part = "status" /\ StatusNext /\ UNCHANGED <<memTableVars, sliceVars>>
     \/ part = "table" /\ MemTableNext /\ UNCHANGED <<statusVars, sliceVars>>
     \/ part = "slices" /\ SliceNext /\ UNCHANGED <<statusVars, memTableVars>>

Spec == Init /\ [][Next]_<<part, statusVars, memTableVars, sliceVars>>
=============================================================================
