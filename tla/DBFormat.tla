------------------------------- MODULE DBFormat -------------------------------
(***************************************************************************)
(* Keys of DB/db/dbformat.h.  An internal key is a user key and eight      *)
(* bytes, the tag, which hold a sequence number and the type of the entry. *)
(* AppendInternalKey, the comparator and the constructor of LookupKey are  *)
(* declared there without a body; they are taken from the comments over    *)
(* them (72, 87-88, 190-196) and from how the inline functions read what  *)
(* they make.  A sequence number stays below 256 here: one byte.           *)
(***************************************************************************)
EXTENDS Slice

kTypeDeletion == 0
kTypeValue == 1

\* Plausible bugs of the definitions below.
SeekLowest == kTypeDeletion
OneByteMore(s) == SubSeq(s, 1, Len(s) - 7)

kValueTypeForSeek == kTypeValue

Tag(seq, type) == <<type, seq, 0, 0, 0, 0, 0, 0>>

\* AppendInternalKey(ParsedInternalKey(user, seq, type)).
InternalKey(user, seq, type) == user \o Tag(seq, type)
InternalKeyEncodingLength(user) == Len(user) + 8

ExtractUserKey(s) == SubSeq(s, 1, Len(s) - 8)

\* The number in the tag, of which the type is the low byte (52-53).
TagOf(s) == s[Len(s) - 7] + 256 * s[Len(s) - 6]
SequenceOf(s) == TagOf(s) \div 256

\* InternalKeyComparator: user keys in their order, then newest first.
Before(a, b) ==
  LET r == Compare(ExtractUserKey(a), ExtractUserKey(b))
  IN r < 0 \/ (r = 0 /\ TagOf(a) > TagOf(b))

\* LookupKey: the length of the internal key, and the internal key to seek.
LookupKey(user, seq) ==
  LET sought == InternalKey(user, seq, kValueTypeForSeek)
  IN <<Len(sought)>> \o sought
memtable_key(lookup) == lookup
internal_key(lookup) == RemovePrefix(lookup, 1)
user_key(lookup) == SubSeq(lookup, 2, Len(lookup) - 8)
=============================================================================
