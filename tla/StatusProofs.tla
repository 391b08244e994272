----------------------------- MODULE StatusProofs -----------------------------
(***************************************************************************)
(* Every array of a status has one owner, none is lost, and statuses are   *)
(* values, for any number of objects, messages and arrays.                 *)
(***************************************************************************)
EXTENDS StatusProperties, TLAPS

StatusTypeOK ==
  /\ live \subseteq Objects
  /\ state_ \in [Objects -> Blocks \cup {Null}]
  /\ heap \in [Blocks -> Messages \cup {Null}]

\* OneOwner and NoLeak need each other: what an assignment deletes is of no
\* other object, and what it gets from new[] is of none.
Owned ==
  \A b \in Blocks : heap[b] # Null <=> \E o \in Objects : state_[o] = b

StatusInv == StatusTypeOK /\ OneOwner /\ Owned

-----------------------------------------------------------------------------
\* The inductive invariant says what the run checks.
LEMMA OwnedIsNoLeak == StatusInv => NoLeak
<1> SUFFICES ASSUME StatusInv PROVE NoLeak
  OBVIOUS
<1> USE DEF StatusInv, StatusTypeOK
<1>1. ASSUME NEW b \in Allocated PROVE b \in Pointers
  <2>1. b \in Blocks /\ heap[b] # Null
    BY <1>1 DEF Allocated
  <2>2. PICK o \in Objects : state_[o] = b
    BY <2>1 DEF Owned
  <2>3. b # Null
    BY <2>1, StatusAssumption
  <2> QED
    BY <2>2, <2>3 DEF OneOwner, Pointers
<1>2. ASSUME NEW b \in Pointers PROVE b \in Allocated
  <2>1. PICK o \in live : state_[o] = b /\ b # Null
    BY <1>2 DEF Pointers
  <2>2. o \in Objects /\ b \in Blocks
    BY <2>1
  <2> QED
    BY <2>1, <2>2 DEF Owned, Allocated
<1> QED
  BY <1>1, <1>2 DEF NoLeak

LEMMA StatusInvInit == StatusInit => StatusInv
  BY StatusAssumption DEF StatusInit, StatusInv, StatusTypeOK, OneOwner, Owned

-----------------------------------------------------------------------------
\* One lemma for each special member: it keeps the invariant, and to the values
\* it does what StatusValue says.

V == [o \in Objects |-> Held(o)]

LEMMA HeldByLive ==
  ASSUME StatusInv, NEW o \in live
  PROVE  /\ Held(o) # Gone
         /\ state_[o] # Null => heap[state_[o]] \in Messages /\ heap[state_[o]] # Null
<1> USE DEF StatusInv, StatusTypeOK
<1>1. CASE state_[o] = Null
  BY <1>1, StatusAssumption DEF Held
<1>2. CASE state_[o] # Null
  <2>1. heap[state_[o]] \in Messages /\ heap[state_[o]] # Null
    BY <1>2 DEF Owned
  <2> QED
    BY <1>2, <2>1, StatusAssumption DEF Held
<1> QED
  BY <1>1, <1>2

LEMMA ConstructOkStep ==
  ASSUME StatusInv, NEW o \in Objects, ConstructOk(o)
  PROVE  StatusInv' /\ Value!Construct(o)
<1> USE DEF StatusInv, StatusTypeOK, ConstructOk, Point
<1>1. StatusTypeOK' /\ OneOwner' /\ Owned'
  BY StatusAssumption DEF OneOwner, Owned
<1>2. \A q \in Objects : Held(q)' = IF q = o THEN Ok ELSE Held(q)
  BY DEF Held
<1>3. Held(o) = Gone
  BY DEF Held
<1> HIDE DEF StatusInv, StatusTypeOK, ConstructOk, Point
<1>11. StatusInv'
  BY <1>1 DEF StatusInv
<1>12. Value!Construct(o)
  BY <1>2, <1>3 DEF Value!Construct, Value!Put
<1> QED
  BY <1>11, <1>12

LEMMA ConstructErrorStep ==
  ASSUME StatusInv, NEW o \in Objects, NEW msg \in Messages,
         ConstructError(o, msg)
  PROVE  StatusInv' /\ Value!Construct(o)
<1> USE DEF StatusInv, StatusTypeOK, Point, New
<1>1. PICK b \in Blocks \ Allocated :
        /\ state_' = [state_ EXCEPT ![o] = b]
        /\ heap' = [heap EXCEPT ![b] = msg]
  BY DEF ConstructError
<1>2. o \notin live /\ live' = live \cup {o}
  BY DEF ConstructError
<1>3. b \in Blocks /\ heap[b] = Null /\ b # Null /\ msg # Null
  BY StatusAssumption DEF Allocated
<1>4. \A q \in Objects : state_[q] # b
  BY <1>3 DEF Owned
<1>5. StatusTypeOK'
  BY <1>1, <1>2, <1>3
<1>6. OneOwner'
  BY <1>1, <1>2, <1>3, <1>4 DEF OneOwner
<1>7. state_[o] = Null
  BY <1>2 DEF OneOwner
<1>8. Owned'
  BY <1>1, <1>3, <1>4, <1>7, StatusAssumption DEF Owned
<1>9. \A q \in Objects : Held(q)' = IF q = o THEN msg ELSE Held(q)
  BY <1>1, <1>2, <1>3, <1>4 DEF Held
<1>10. Held(o) = Gone
  BY <1>2 DEF Held
<1> HIDE DEF StatusInv, StatusTypeOK, Point, New
<1>11. StatusInv'
  BY <1>5, <1>6, <1>8 DEF StatusInv
<1>12. Value!Construct(o)
  BY <1>9, <1>10 DEF Value!Construct, Value!Put
<1> QED
  BY <1>11, <1>12

LEMMA DestroyStep ==
  ASSUME StatusInv, NEW o \in Objects, Destroy(o)
  PROVE  StatusInv' /\ Value!Destroy(o)
<1> USE DEF StatusInv, StatusTypeOK, Point, Deleted
<1>1. o \in live /\ live' = live \ {o} /\ state_' = [state_ EXCEPT ![o] = Null]
  BY DEF Destroy
<1>2. heap' = IF state_[o] = Null THEN heap ELSE [heap EXCEPT ![state_[o]] = Null]
  BY DEF Destroy
<1>3. StatusTypeOK'
  BY <1>1, <1>2
<1>4. OneOwner'
  BY <1>1 DEF OneOwner
<1>5. Owned'
  BY <1>1, <1>2, StatusAssumption DEF Owned, OneOwner
<1>6. \A q \in Objects : Held(q)' = IF q = o THEN Gone ELSE Held(q)
  BY <1>1, <1>2 DEF Held, OneOwner
<1>7. Held(o) # Gone
  BY <1>1, HeldByLive
<1> HIDE DEF StatusInv, StatusTypeOK, Point, Deleted
<1>11. StatusInv'
  BY <1>3, <1>4, <1>5 DEF StatusInv
<1>12. Value!Destroy(o)
  BY <1>6, <1>7 DEF Value!Destroy, Value!Put
<1> QED
  BY <1>11, <1>12

LEMMA MoveConstructStep ==
  ASSUME StatusInv, NEW o \in Objects, NEW rhs \in Objects,
         MoveConstruct(o, rhs)
  PROVE  StatusInv' /\ Value!Move(o, rhs)
<1> USE DEF StatusInv, StatusTypeOK
<1>1. /\ o \notin live /\ rhs \in live /\ o # rhs
      /\ live' = live \cup {o} /\ heap' = heap
      /\ state_' = [state_ EXCEPT ![o] = state_[rhs], ![rhs] = Null]
  BY DEF MoveConstruct
<1>2. state_[o] = Null
  BY <1>1 DEF OneOwner
<1>3. \A q \in Objects : state_'[q] =
        IF q = rhs THEN Null ELSE IF q = o THEN state_[rhs] ELSE state_[q]
  BY <1>1
<1>4. StatusTypeOK'
  BY <1>1
<1>5. OneOwner'
  BY <1>1, <1>2, <1>3 DEF OneOwner
<1>6. Owned'
  BY <1>1, <1>2, <1>3, StatusAssumption DEF Owned
<1>7. \A q \in Objects :
        Held(q)' = IF q = rhs THEN Ok ELSE IF q = o THEN Held(rhs) ELSE Held(q)
  BY <1>1, <1>3 DEF Held
<1>8. Held(o) = Gone /\ Held(rhs) # Gone
  BY <1>1, HeldByLive DEF Held
<1> HIDE DEF StatusInv, StatusTypeOK
<1>11. StatusInv'
  BY <1>4, <1>5, <1>6 DEF StatusInv
<1>12. Value!Move(o, rhs)
  BY <1>1, <1>7, <1>8 DEF Value!Move
<1> QED
  BY <1>11, <1>12

LEMMA MoveAssignStep ==
  ASSUME StatusInv, NEW o \in Objects, NEW rhs \in Objects, MoveAssign(o, rhs)
  PROVE  StatusInv' /\ Value!Exchange(o, rhs)
<1> USE DEF StatusInv, StatusTypeOK
<1>1. /\ o \in live /\ rhs \in live /\ live' = live /\ heap' = heap
      /\ state_' = [state_ EXCEPT ![o] = state_[rhs], ![rhs] = state_[o]]
  BY DEF MoveAssign
<1>2. \A q \in Objects : state_'[q] =
        IF q = rhs THEN state_[o] ELSE IF q = o THEN state_[rhs] ELSE state_[q]
  BY <1>1
<1>3. StatusTypeOK'
  BY <1>1
<1>4. OneOwner'
  BY <1>1, <1>2 DEF OneOwner
<1>5. Owned'
  <2>1. ASSUME NEW b \in Blocks
        PROVE  (\E q \in Objects : state_[q] = b) <=> (\E q \in Objects : state_'[q] = b)
    BY <1>2, <2>1
  <2> QED
    BY <1>1, <2>1 DEF Owned
<1>6. \A q \in Objects :
        Held(q)' = IF q = rhs THEN Held(o) ELSE IF q = o THEN Held(rhs) ELSE Held(q)
  BY <1>1, <1>2 DEF Held
<1>7. Held(o) # Gone /\ Held(rhs) # Gone
  BY <1>1, HeldByLive
<1> HIDE DEF StatusInv, StatusTypeOK
<1>11. StatusInv'
  BY <1>3, <1>4, <1>5 DEF StatusInv
<1>12. Value!Exchange(o, rhs)
  BY <1>6, <1>7 DEF Value!Exchange
<1> QED
  BY <1>11, <1>12

LEMMA CopyConstructStep ==
  ASSUME StatusInv, NEW o \in Objects, NEW rhs \in Objects,
         CopyConstruct(o, rhs)
  PROVE  StatusInv' /\ Value!Copy(o, rhs)
<1> USE DEF StatusInv, StatusTypeOK
<1>1. /\ o \notin live /\ rhs \in live /\ o # rhs
      /\ live' = live \cup {o}
  BY DEF CopyConstruct
<1>2. state_[o] = Null /\ Held(o) = Gone /\ Held(rhs) # Gone
  BY <1>1, HeldByLive DEF OneOwner, Held
<1>3. CASE state_[rhs] = Null
  <2>1. state_' = [state_ EXCEPT ![o] = Null] /\ heap' = heap
    BY <1>3 DEF CopyConstruct, CopyInto
  <2>2. StatusInv'
    BY <1>1, <1>2, <2>1, StatusAssumption DEF OneOwner, Owned
  <2>3. \A q \in Objects : Held(q)' = IF q = o THEN Held(rhs) ELSE Held(q)
    BY <1>1, <1>2, <1>3, <2>1 DEF Held
  <2> HIDE DEF StatusInv, StatusTypeOK
  <2>11. StatusInv'
    BY <2>2 DEF StatusInv
  <2>12. Value!Copy(o, rhs)
    BY <1>2, <2>3 DEF Value!Copy, Value!Put
  <2> QED
    BY <2>11, <2>12
<1>4. CASE state_[rhs] # Null
  <2>1. PICK b \in Blocks :
          /\ heap[b] = Null
          /\ state_' = [state_ EXCEPT ![o] = b]
          /\ heap' = [heap EXCEPT ![b] = heap[state_[rhs]]]
    BY <1>4 DEF CopyConstruct, CopyInto, New
  <2>2. heap[state_[rhs]] \in Messages /\ heap[state_[rhs]] # Null /\ b # Null
    BY <1>1, <1>4, HeldByLive, StatusAssumption
  <2>3. \A q \in Objects : state_[q] # b
    BY <2>1 DEF Owned
  <2>4. StatusTypeOK'
    BY <1>1, <2>1, <2>2
  <2>5. OneOwner'
    BY <1>1, <2>1, <2>2, <2>3 DEF OneOwner
  <2>6. Owned'
    BY <1>2, <2>1, <2>2, <2>3, StatusAssumption DEF Owned
  <2>7. \A q \in Objects : Held(q)' = IF q = o THEN Held(rhs) ELSE Held(q)
    BY <1>1, <1>4, <2>1, <2>2, <2>3 DEF Held
  <2> HIDE DEF StatusInv, StatusTypeOK
  <2>11. StatusInv'
    BY <2>4, <2>5, <2>6 DEF StatusInv
  <2>12. Value!Copy(o, rhs)
    BY <1>2, <2>7 DEF Value!Copy, Value!Put
  <2> QED
    BY <2>11, <2>12
<1> QED
  BY <1>3, <1>4

\* state_ differs, so rhs is another object and its array another one: what is
\* deleted first is not what is copied then.
LEMMA CopyAssignStep ==
  ASSUME StatusInv, NEW o \in Objects, NEW rhs \in Objects, CopyAssign(o, rhs)
  PROVE  StatusInv' /\ Value!Assign(o, rhs)
<1> DEFINE h == Deleted(state_[o])
<1> USE DEF StatusInv, StatusTypeOK
<1>1. /\ o \in live /\ rhs \in live /\ live' = live
      /\ state_[o] # state_[rhs] /\ o # rhs
  BY DEF CopyAssign, Differs
<1>2. Held(o) # Gone /\ Held(rhs) # Gone
  BY <1>1, HeldByLive
<1>3. /\ h \in [Blocks -> Messages \cup {Null}]
      /\ \A b \in Blocks : h[b] = IF b = state_[o] THEN Null ELSE heap[b]
  BY StatusAssumption DEF Deleted
<1>4. CopyInto(h, o, state_[rhs])
  BY DEF CopyAssign
<1> HIDE DEF h
<1>5. CASE state_[rhs] = Null
  <2>1. state_' = [state_ EXCEPT ![o] = Null] /\ heap' = h
    BY <1>4, <1>5 DEF CopyInto
  <2>2. StatusTypeOK'
    BY <1>1, <1>3, <2>1
  <2>3. OneOwner'
    BY <1>1, <2>1 DEF OneOwner
  <2>4. Owned'
    BY <1>3, <2>1, StatusAssumption DEF Owned, OneOwner
  <2>5. \A q \in Objects : Held(q)' = IF q = o THEN Held(rhs) ELSE Held(q)
    BY <1>1, <1>3, <1>5, <2>1 DEF Held, OneOwner
  <2> HIDE DEF StatusInv, StatusTypeOK
  <2>11. StatusInv'
    BY <2>2, <2>3, <2>4 DEF StatusInv
  <2>12. Value!Assign(o, rhs)
    BY <1>2, <2>5 DEF Value!Assign, Value!Put
  <2> QED
    BY <2>11, <2>12
<1>6. CASE state_[rhs] # Null
  <2>1. PICK b \in Blocks :
          /\ h[b] = Null
          /\ state_' = [state_ EXCEPT ![o] = b]
          /\ heap' = [h EXCEPT ![b] = h[state_[rhs]]]
    BY <1>4, <1>6 DEF CopyInto, New
  <2>2. /\ state_[rhs] \in Blocks /\ b # Null
        /\ h[state_[rhs]] = heap[state_[rhs]]
        /\ heap[state_[rhs]] \in Messages /\ heap[state_[rhs]] # Null
    BY <1>1, <1>3, <1>6, HeldByLive, StatusAssumption
  <2>3. \A q \in Objects : q # o => state_[q] # b
    BY <1>1, <1>3, <2>1, StatusAssumption DEF Owned, OneOwner
  <2>4. StatusTypeOK'
    BY <1>1, <1>3, <2>1, <2>2
  <2>5. OneOwner'
    BY <1>1, <2>1, <2>2, <2>3 DEF OneOwner
  <2>6. \A c \in Blocks :
          heap'[c] = IF c = b THEN heap[state_[rhs]]
                     ELSE IF c = state_[o] THEN Null ELSE heap[c]
    BY <1>3, <2>1, <2>2
  <2>7. Owned'
    BY <2>1, <2>2, <2>3, <2>6, StatusAssumption DEF Owned, OneOwner
  <2>8. \A q \in Objects : Held(q)' = IF q = o THEN Held(rhs) ELSE Held(q)
    BY <1>1, <1>6, <2>1, <2>2, <2>3, <2>6 DEF Held, OneOwner
  <2> HIDE DEF StatusInv, StatusTypeOK
  <2>11. StatusInv'
    BY <2>4, <2>5, <2>7 DEF StatusInv
  <2>12. Value!Assign(o, rhs)
    BY <1>2, <2>8 DEF Value!Assign, Value!Put
  <2> QED
    BY <2>11, <2>12
<1> QED
  BY <1>5, <1>6

-----------------------------------------------------------------------------
LEMMA StatusStep ==
  ASSUME StatusInv, [StatusNext]_statusVars
  PROVE  StatusInv' /\ [Value!Next]_V
<1>1. CASE UNCHANGED statusVars
  <2>1. \A q \in Objects : Held(q)' = Held(q)
    BY <1>1 DEF statusVars, Held
  <2> QED
    BY <1>1, <2>1 DEF statusVars, StatusInv, StatusTypeOK, OneOwner, Owned, V
<1>2. ASSUME NEW o \in Objects, ConstructOk(o) PROVE StatusInv' /\ Value!Next
  BY <1>2, ConstructOkStep DEF Value!Next
<1>3. ASSUME NEW o \in Objects, NEW msg \in Messages, ConstructError(o, msg)
      PROVE  StatusInv' /\ Value!Next
  BY <1>3, ConstructErrorStep DEF Value!Next
<1>4. ASSUME NEW o \in Objects, Destroy(o) PROVE StatusInv' /\ Value!Next
  BY <1>4, DestroyStep DEF Value!Next
<1>5. ASSUME NEW o \in Objects, NEW rhs \in Objects, CopyConstruct(o, rhs)
      PROVE  StatusInv' /\ Value!Next
  BY <1>5, CopyConstructStep DEF Value!Next
<1>6. ASSUME NEW o \in Objects, NEW rhs \in Objects, MoveConstruct(o, rhs)
      PROVE  StatusInv' /\ Value!Next
  BY <1>6, MoveConstructStep DEF Value!Next
<1>7. ASSUME NEW o \in Objects, NEW rhs \in Objects, CopyAssign(o, rhs)
      PROVE  StatusInv' /\ Value!Next
  BY <1>7, CopyAssignStep DEF Value!Next
<1>8. ASSUME NEW o \in Objects, NEW rhs \in Objects, MoveAssign(o, rhs)
      PROVE  StatusInv' /\ Value!Next
  BY <1>8, MoveAssignStep DEF Value!Next
<1> QED
  BY <1>1, <1>2, <1>3, <1>4, <1>5, <1>6, <1>7, <1>8 DEF StatusNext

\* Every array has one owner, and no array is lost or used after it was
\* deleted, whatever is done to statuses (status.h 9-16, 82-99).
THEOREM OwnersAndArrays == StatusSpec => [](OneOwner /\ NoLeak)
<1>1. StatusInv /\ [StatusNext]_statusVars => StatusInv'
  BY StatusStep
<1>2. StatusInv => OneOwner /\ NoLeak
  BY OwnedIsNoLeak DEF StatusInv
<1> QED
  BY StatusInvInit, <1>1, <1>2, PTL DEF StatusSpec

\* In particular no assignment, copy or move loses an array or leaves a pointer
\* to a deleted one, self-assignment included (status.h 82-99).
THEOREM NoArrayLost == StatusSpec => []NoLeak
BY OwnersAndArrays, PTL

\* Status is a value: the class with its arrays implements StatusValue.
THEOREM StatusIsAValue == StatusSpec => ValueSemantics
<1>1. StatusInit => Value!Init
  BY DEF StatusInit, Value!Init, Held
<1>2. StatusInv /\ [StatusNext]_statusVars => StatusInv'
  BY StatusStep
<1>3. StatusInv /\ [StatusNext]_statusVars => [Value!Next]_V
  BY StatusStep
<1> QED
  BY StatusInvInit, <1>1, <1>2, <1>3, PTL DEF StatusSpec, ValueSemantics, Value!Spec, V
=============================================================================
