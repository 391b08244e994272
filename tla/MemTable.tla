------------------------------- MODULE MemTable -------------------------------
(***************************************************************************)
(* MemTable of DB/db/memtable.h: entries in an arena that is a member of   *)
(* the table, and a count of the references its owners hold.  The count is *)
(* a plain int, so that calls are taken to be serialised by the owners.    *)
(* Add, Get and the skip list under them are declared without a body: they *)
(* are taken from the comments over them (memtable.h 48-57, skiplist.h     *)
(* 47-48 and 76) and do nothing here but what those say.                   *)
(***************************************************************************)
EXTENDS DBFormat, Arena

CONSTANTS
  Owners,
  Keys,          \* user keys
  MaxSequence    \* bound on the number of entries

ASSUME MemTableAssumption == Keys \subseteq Seq(0..255) /\ MaxSequence \in 0..255

VARIABLES
  refs_,
  holders,       \* the owners that have called Ref and not yet Unref
  deleted,
  table,         \* the internal keys of the entries
  sequence       \* the last sequence number a writer has used

tableVars == <<refs_, holders, deleted, table, sequence>>
memTableVars == <<tableVars, arenaVars>>

\* Plausible bugs of the definitions below.
UnreferencedAtOne(n) == n <= 1
RefOfFirst(o) ==
  /\ ~deleted /\ o \notin holders
  /\ refs_' = IF refs_ = 0 THEN 1 ELSE refs_
  /\ holders' = holders \cup {o}
  /\ UNCHANGED <<deleted, table, sequence, arenaVars>>

\* Whether Unref deletes the table.
Unreferenced(n) == n <= 0

Ref(o) ==
  /\ ~deleted /\ o \notin holders
  /\ refs_' = refs_ + 1
  /\ holders' = holders \cup {o}
  /\ UNCHANGED <<deleted, table, sequence, arenaVars>>

Unref(o) ==
  /\ o \in holders
  /\ refs_' = refs_ - 1
  /\ holders' = holders \ {o}
  /\ UNCHANGED sequence
  /\ IF Unreferenced(refs_ - 1)
     THEN deleted' = TRUE /\ table' = {} /\ Free
     ELSE UNCHANGED <<deleted, table, arenaVars>>

\* The key as LookupKey has it, the length of the value, and the value: one
\* byte, or none when the entry is a deletion.
EntrySize(key, type) == 1 + InternalKeyEncodingLength(key) + 1 + type

\* The writer chooses the next sequence number: no two entries compare equal.
Add(o, type, key) ==
  /\ o \in holders
  /\ sequence < MaxSequence
  /\ sequence' = sequence + 1
  /\ table' = table \cup {InternalKey(key, sequence + 1, type)}
  /\ Allocate(EntrySize(key, type))
  /\ UNCHANGED <<refs_, holders, deleted>>

\* The entries not before k, and the first of them.
FromKey(k) == {e \in table : ~Before(e, k)}
Seek(k) == {e \in FromKey(k) : \A f \in FromKey(k) : ~Before(f, e)}

\* What Get answers from, when the entry sought is one of the same user key.
Get(lookup) ==
  {e \in Seek(internal_key(lookup)) :
     Compare(ExtractUserKey(e), user_key(lookup)) = 0}

MemTableInit ==
  /\ refs_ = 0 /\ holders = {} /\ deleted = FALSE
  /\ table = {} /\ sequence = 0
  /\ ArenaInit

MemTableNext ==
  \E o \in Owners :
    \/ Ref(o)
    \/ Unref(o)
    \/ \E type \in {kTypeDeletion, kTypeValue}, key \in Keys : Add(o, type, key)

MemTableSpec == MemTableInit /\ [][MemTableNext]_memTableVars

-----------------------------------------------------------------------------
\* The table is there as long as an owner holds it, and its memory no longer:
\* whoever drops the last reference deletes it (memtable.h 17-18, 27-34).
KeptWhileHeld ==
  /\ holders # {} => ~deleted
  /\ holders = {} => blocks = {}

\* The newest entry of a user key that a reader at a sequence number may see,
\* by its definition: of that key, not younger, none of them newer.
Visible(key, seq) == {e \in table : ExtractUserKey(e) = key /\ SequenceOf(e) <= seq}
Newest(key, seq) ==
  {e \in Visible(key, seq) :
     \A f \in Visible(key, seq) : SequenceOf(f) <= SequenceOf(e)}

\* A lookup at any sequence number answers from the newest entry visible there,
\* deletions included, or from none: the order of internal keys and the type a
\* lookup key carries fit together (dbformat.h 42-48).
SeekFindsNewest ==
  \A key \in Keys, seq \in 0..sequence : Get(LookupKey(key, seq)) = Newest(key, seq)
=============================================================================
