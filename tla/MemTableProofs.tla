---------------------------- MODULE MemTableProofs ----------------------------
(***************************************************************************)
(* The memory of a table: allocations share no byte, and it lasts exactly  *)
(* as long as an owner holds a reference, for any number of owners, keys,  *)
(* addresses and sizes of blocks.  Its entries: a lookup finds the newest  *)
(* of the key.  The order they are found by: slices of any length compare  *)
(* as in a dictionary, and internal keys are ordered.                      *)
(***************************************************************************)
EXTENDS MemTable, SliceProperties, FiniteSetTheorems, SequenceTheorems,
        WellFoundedInduction, TLAPS

Chunks == [at: Nat, size: Nat]

ArenaTypeOK ==
  /\ alloc_ptr \in Nat /\ alloc_bytes_remaining \in Nat
  /\ blocks \subseteq Chunks /\ allocated \subseteq Chunks

\* The rest of the last block: it lies in a block, and no allocation reaches
\* into it.
RestIsFree ==
  alloc_bytes_remaining > 0 =>
    LET rest == Chunk(alloc_ptr, alloc_bytes_remaining)
    IN /\ \E b \in blocks : Within(rest, b)
       /\ \A r \in allocated : Apart(rest, r)

ArenaInv == ArenaTypeOK /\ RestIsFree /\ AllocationsApart

\* The count is the number of owners that hold the table.
CountInv ==
  /\ IsFiniteSet(holders) /\ refs_ = Cardinality(holders)
  /\ deleted \in BOOLEAN
  /\ deleted => holders = {}
  /\ holders = {} => blocks = {}

-----------------------------------------------------------------------------
LEMMA ArenaInvInit == ArenaInit => ArenaInv
  BY DEF ArenaInit, ArenaInv, ArenaTypeOK, RestIsFree, AllocationsApart

LEMMA ArenaInvFree == Free => ArenaInv'
  BY DEF Free, ArenaInv, ArenaTypeOK, RestIsFree, AllocationsApart

\* Bytes from the front of the rest: the new allocation and what is left share
\* none, and both lie where the rest lay.
LEMMA FromBlockStep ==
  ASSUME ArenaInv, NEW bytes \in Nat \ {0}, AllocateFromBlock(bytes)
  PROVE  ArenaInv'
<1> DEFINE new == Chunk(alloc_ptr, bytes)
           rest == Chunk(alloc_ptr, alloc_bytes_remaining)
           left == Chunk(alloc_ptr + bytes, alloc_bytes_remaining - bytes)
<1> USE DEF ArenaInv, ArenaTypeOK, Chunks
<1>1. /\ bytes <= alloc_bytes_remaining
      /\ allocated' = allocated \cup {new} /\ blocks' = blocks
      /\ alloc_ptr' = alloc_ptr + bytes
      /\ alloc_bytes_remaining' = alloc_bytes_remaining - bytes
  BY DEF AllocateFromBlock, Fits
<1>2. new \in Chunks /\ rest \in Chunks /\ left \in Chunks
  BY <1>1 DEF Chunk
<1>3. PICK b \in blocks : Within(rest, b)
  BY <1>1 DEF RestIsFree
<1>4. \A r \in allocated : Apart(rest, r)
  BY <1>1 DEF RestIsFree
<1>5. b \in Chunks
  OBVIOUS
<1>6. Within(new, b) /\ Within(left, b) /\ Apart(left, new)
  BY <1>1, <1>3, <1>5 DEF Within, Chunk, Apart
<1>7. ASSUME NEW r \in allocated PROVE Apart(new, r) /\ Apart(left, r) /\ Apart(r, new)
  <2>1. Apart(rest, r) /\ r.at \in Nat /\ r.size \in Nat
    BY <1>4
  <2> QED
    BY <1>1, <2>1 DEF Apart, Chunk
<1>8. ArenaTypeOK'
  BY <1>1, <1>2 DEF Chunk
<1>9. RestIsFree'
  BY <1>1, <1>6, <1>7 DEF RestIsFree
<1>10. AllocationsApart'
  BY <1>1, <1>6, <1>7 DEF AllocationsApart
<1> QED
  BY <1>8, <1>9, <1>10

\* A block of its own: no allocation and no rest of another block reaches in.
LEMMA FallbackStep ==
  ASSUME ArenaInv, NEW bytes \in Nat \ {0}, NEW at \in Nat, NEW size \in Nat,
         AllocateFallback(bytes, at, size)
  PROVE  ArenaInv'
<1> DEFINE new == Chunk(at, bytes)
           block == Chunk(at, size)
           rest == Chunk(alloc_ptr, alloc_bytes_remaining)
           left == Chunk(at + bytes, size - bytes)
<1> USE DEF ArenaInv, ArenaTypeOK, Chunks
<1>1. /\ bytes <= size
      /\ \A b \in blocks : Apart(block, b)
      /\ blocks' = blocks \cup {block} /\ allocated' = allocated \cup {new}
  BY DEF AllocateFallback
<1>2. new \in Chunks /\ block \in Chunks /\ rest \in Chunks /\ left \in Chunks
  BY <1>1 DEF Chunk
<1>3. Within(new, block) /\ Within(left, block) /\ Apart(left, new)
  BY <1>1 DEF Within, Chunk, Apart
<1>4. ASSUME NEW r \in Chunks, NEW b \in blocks, Within(r, b)
      PROVE  Apart(new, r) /\ Apart(r, new) /\ Apart(left, r)
  <2>1. Apart(block, b) /\ b.at \in Nat /\ b.size \in Nat /\ r.at \in Nat /\ r.size \in Nat
    BY <1>1
  <2> QED
    BY <1>1, <1>4, <2>1 DEF Apart, Chunk, Within
<1>5. ASSUME NEW r \in allocated
      PROVE  Apart(new, r) /\ Apart(r, new) /\ Apart(left, r)
  <2>1. PICK b \in blocks : Within(r, b)
    BY DEF AllocationsApart
  <2> QED
    BY <1>4, <2>1
<1>6. AllocationsApart'
  BY <1>1, <1>3, <1>5 DEF AllocationsApart
<1>7. CASE UNCHANGED <<alloc_ptr, alloc_bytes_remaining>>
  <2>1. ArenaTypeOK'
    BY <1>1, <1>2, <1>7
  <2>2. RestIsFree'
    <3>1. SUFFICES ASSUME alloc_bytes_remaining > 0
                   PROVE  /\ \E b \in blocks' : Within(rest, b)
                          /\ \A r \in allocated' : Apart(rest, r)
      BY <1>7 DEF RestIsFree
    <3>2. PICK b \in blocks : Within(rest, b)
      BY <3>1 DEF RestIsFree
    <3>3. Apart(rest, new)
      BY <1>2, <1>4, <3>2
    <3> QED
      BY <1>1, <3>1, <3>2, <3>3 DEF RestIsFree
  <2> QED
    BY <1>6, <2>1, <2>2
<1>8. CASE alloc_ptr' = at + bytes /\ alloc_bytes_remaining' = size - bytes
  <2>1. ArenaTypeOK'
    BY <1>1, <1>2, <1>8 DEF Chunk
  <2>2. RestIsFree'
    BY <1>1, <1>3, <1>5, <1>8 DEF RestIsFree
  <2> QED
    BY <1>6, <2>1, <2>2
<1> QED
  BY <1>7, <1>8 DEF AllocateFallback

LEMMA AllocateStep ==
  ASSUME ArenaInv, NEW bytes \in Nat, Allocate(bytes)
  PROVE  ArenaInv'
<1>1. bytes \in Nat \ {0}
  BY DEF Allocate
<1>2. CASE AllocateFromBlock(bytes)
  BY <1>1, <1>2, FromBlockStep
<1>3. CASE \E at \in Addresses, size \in BlockSizes : AllocateFallback(bytes, at, size)
  BY <1>1, <1>3, FallbackStep, ArenaAssumption
<1> QED
  BY <1>2, <1>3 DEF Allocate

-----------------------------------------------------------------------------
LEMMA EntrySizeNat ==
  ASSUME NEW type \in {kTypeDeletion, kTypeValue}, NEW key \in Keys
  PROVE  EntrySize(key, type) \in Nat
<1>1. key \in Seq(0..255)
  BY MemTableAssumption
<1>2. Len(key) \in Nat
  BY <1>1
<1> QED
  BY <1>2 DEF EntrySize, InternalKeyEncodingLength, kTypeDeletion, kTypeValue

LEMMA ArenaInvStep ==
  ASSUME ArenaInv, [MemTableNext]_memTableVars
  PROVE  ArenaInv'
<1>1. CASE UNCHANGED arenaVars
  BY <1>1 DEF arenaVars, ArenaInv, ArenaTypeOK, RestIsFree, AllocationsApart
<1>2. ASSUME NEW o \in Owners, Ref(o) PROVE ArenaInv'
  BY <1>1, <1>2 DEF Ref
<1>3. ASSUME NEW o \in Owners, Unref(o) PROVE ArenaInv'
  BY <1>1, <1>3, ArenaInvFree DEF Unref
<1>4. ASSUME NEW o \in Owners, NEW type \in {kTypeDeletion, kTypeValue},
             NEW key \in Keys, Add(o, type, key)
      PROVE  ArenaInv'
  BY <1>4, AllocateStep, EntrySizeNat DEF Add
<1> QED
  BY <1>1, <1>2, <1>3, <1>4 DEF MemTableNext, memTableVars

LEMMA CountInvInit == MemTableInit => CountInv
  BY FS_EmptySet DEF MemTableInit, ArenaInit, CountInv

LEMMA CountInvStep ==
  ASSUME CountInv, [MemTableNext]_memTableVars
  PROVE  CountInv'
<1> USE DEF CountInv
<1>1. CASE UNCHANGED memTableVars
  BY <1>1 DEF memTableVars, tableVars, arenaVars
<1>2. ASSUME NEW o \in Owners, Ref(o) PROVE CountInv'
  <2>1. /\ ~deleted /\ o \notin holders
        /\ refs_' = refs_ + 1 /\ holders' = holders \cup {o}
        /\ deleted' = deleted
    BY <1>2 DEF Ref
  <2>2. IsFiniteSet(holders') /\ Cardinality(holders') = Cardinality(holders) + 1
    BY <2>1, FS_AddElement
  <2> QED
    BY <2>1, <2>2
<1>3. ASSUME NEW o \in Owners, Unref(o) PROVE CountInv'
  <2>1. o \in holders /\ refs_' = refs_ - 1 /\ holders' = holders \ {o}
    BY <1>3 DEF Unref
  <2>2. /\ IsFiniteSet(holders')
        /\ Cardinality(holders') = Cardinality(holders) - 1
    BY <2>1, FS_RemoveElement
  <2>3. Cardinality(holders') \in Nat
    BY <2>2, FS_CardinalityType
  <2>4. Cardinality(holders') = 0 <=> holders' = {}
    BY <2>2, FS_EmptySet
  <2>5. refs_' = Cardinality(holders')
    BY <2>1, <2>2
  <2>6. CASE Unreferenced(refs_ - 1)
    <3>1. deleted' = TRUE /\ blocks' = {}
      BY <1>3, <2>6 DEF Unref, Free
    <3>2. holders' = {}
      BY <2>1, <2>3, <2>4, <2>5, <2>6 DEF Unreferenced
    <3> QED
      BY <2>2, <2>5, <3>1, <3>2
  <2>7. CASE ~Unreferenced(refs_ - 1)
    <3>1. deleted' = deleted
      BY <1>3, <2>7 DEF Unref
    <3>2. holders' # {}
      BY <2>1, <2>3, <2>4, <2>5, <2>7 DEF Unreferenced
    <3> QED
      BY <2>1, <2>2, <2>5, <3>1, <3>2
  <2> QED
    BY <2>6, <2>7
<1>4. ASSUME NEW o \in Owners, NEW type \in {kTypeDeletion, kTypeValue},
             NEW key \in Keys, Add(o, type, key)
      PROVE  CountInv'
  BY <1>4 DEF Add
<1> QED
  BY <1>1, <1>2, <1>3, <1>4 DEF MemTableNext

\* No two entries of a table share a byte of its arena (arena.h 51-65).
THEOREM EntriesApart == MemTableSpec => []AllocationsApart
<1>1. MemTableInit => ArenaInv
  BY ArenaInvInit DEF MemTableInit
<1>2. ArenaInv /\ [MemTableNext]_memTableVars => ArenaInv'
  BY ArenaInvStep
<1>3. ArenaInv => AllocationsApart
  BY DEF ArenaInv
<1> QED
  BY <1>1, <1>2, <1>3, PTL DEF MemTableSpec

\* Owners that call Ref before they use the table and Unref once find it alive
\* as long as they hold it, and the last one frees it (memtable.h 24-34).
THEOREM DeletedByTheLast == MemTableSpec => []KeptWhileHeld
<1>1. CountInv /\ [MemTableNext]_memTableVars => CountInv'
  BY CountInvStep
<1>2. CountInv => KeptWhileHeld
  BY DEF CountInv, KeptWhileHeld
<1> QED
  BY CountInvInit, <1>1, <1>2, PTL DEF MemTableSpec

-----------------------------------------------------------------------------
(* A lookup finds the newest entry.                                        *)

Byte == 0..255
Bytestring == Seq(Byte)

\* memcmp over the shorter length and then the lengths: 0 for equal slices only.
LEMMA CompareZero ==
  ASSUME NEW u \in Bytestring, NEW v \in Bytestring
  PROVE  Compare(u, v) = 0 <=> u = v
<1> DEFINE n == Shorter(u, v)
           differ == {k \in 1..n : u[k] # v[k]}
<1>1. Len(u) \in Nat /\ Len(v) \in Nat /\ n \in Nat
  BY DEF Shorter, Bytestring
<1>2. Memcmp(u, v, n) = 0 <=> differ = {}
  BY DEF Memcmp
<1>3. CASE u = v
  <2>1. differ = {}
    BY <1>3
  <2>2. SizeOrder(u, v) = 0
    BY <1>1, <1>3 DEF SizeOrder
  <2> QED BY <1>2, <1>3, <2>1, <2>2 DEF Compare
<1>4. ASSUME Compare(u, v) = 0 PROVE u = v
  <2>1. differ = {} /\ SizeOrder(u, v) = 0
    BY <1>2, <1>4 DEF Compare
  <2>2. Len(u) = Len(v)
    BY <1>1, <2>1 DEF SizeOrder
  <2>3. \A k \in 1..Len(u) : u[k] = v[k]
    BY <2>1, <2>2 DEF Shorter
  <2> QED BY <2>2, <2>3 DEF Bytestring
<1> QED BY <1>3, <1>4

LEMMA BytesAreNumbers ==
  ASSUME NEW q \in Bytestring
  PROVE  q \in Seq(Nat)
<1>1. Len(q) \in Nat /\ \A i \in 1..Len(q) : q[i] \in Byte
  BY DEF Bytestring
<1>2. \A i \in 1..Len(q) : q[i] \in Nat
  <2>1. \A b \in Byte : b \in Nat
    BY DEF Byte
  <2> QED BY <1>1, <2>1
<1>3. q = [i \in 1..Len(q) |-> q[i]]
  BY DEF Bytestring
<1>4. [i \in 1..Len(q) |-> q[i]] \in Seq(Nat)
  BY <1>1, <1>2
<1> QED BY <1>3, <1>4

LEMMA ConcatParts ==
  ASSUME NEW T, NEW q \in Seq(T), NEW r \in Seq(T)
  PROVE  /\ q \o r \in Seq(T) /\ Len(q \o r) = Len(q) + Len(r)
         /\ \A i \in 1..Len(q) : (q \o r)[i] = q[i]
         /\ \A i \in 1..Len(r) : (q \o r)[Len(q) + i] = r[i]
OBVIOUS

\* What an internal key holds can be read back from it.
LEMMA KeyParts ==
  ASSUME NEW u \in Bytestring, NEW s \in Byte,
         NEW type \in {kTypeDeletion, kTypeValue},
         NEW k, k = InternalKey(u, s, type)
  PROVE  /\ k \in Bytestring
         /\ Len(k) = Len(u) + 8
         /\ ExtractUserKey(k) = u
         /\ TagOf(k) = type + 256 * s
         /\ SequenceOf(k) = s
<1> DEFINE g == Tag(s, type)
<1>1. g \in Seq(Byte) /\ Len(g) = 8 /\ g[1] = type /\ g[2] = s
  BY DEF Tag, Byte, kTypeDeletion, kTypeValue
<1>2. u \in Seq(Byte) /\ Len(u) \in Nat
  BY DEF Bytestring
<1> HIDE DEF g
<1>3. /\ k = u \o g
      /\ k \in Seq(Byte) /\ Len(k) = Len(u) + 8
      /\ \A i \in 1..Len(u) : k[i] = u[i]
      /\ k[Len(u) + 1] = type /\ k[Len(u) + 2] = s
  <2>1. k = u \o g
    BY DEF InternalKey, g
  <2>2. /\ u \o g \in Seq(Byte) /\ Len(u \o g) = Len(u) + Len(g)
        /\ \A i \in 1..Len(u) : (u \o g)[i] = u[i]
        /\ \A i \in 1..Len(g) : (u \o g)[Len(u) + i] = g[i]
    <3>1. g \in Seq(Byte) /\ u \in Seq(Byte)
      BY <1>1, <1>2
    <3> QED BY ONLY <3>1, ConcatParts
  <2>3. 1 \in 1..Len(g) /\ 2 \in 1..Len(g)
    BY <1>1
  <2> QED BY <1>1, <2>1, <2>2, <2>3
<1>4. ExtractUserKey(k) = u
  <2>1. ExtractUserKey(k) = SubSeq(k, 1, Len(u))
    BY <1>2, <1>3 DEF ExtractUserKey
  <2> QED BY <1>2, <1>3, <2>1
<1>5. TagOf(k) = type + 256 * s
  BY <1>2, <1>3 DEF TagOf
<1>6. SequenceOf(k) = s
  BY <1>5 DEF SequenceOf, Byte, kTypeDeletion, kTypeValue
<1> QED BY <1>3, <1>4, <1>5, <1>6 DEF Bytestring

LEMMA LookupParts ==
  ASSUME NEW u \in Bytestring, NEW s \in Byte
  PROVE  /\ internal_key(LookupKey(u, s)) = InternalKey(u, s, kTypeValue)
         /\ user_key(LookupKey(u, s)) = u
<1> DEFINE k == InternalKey(u, s, kTypeValue)
           h == LookupKey(u, s)
<1>1. k \in Bytestring /\ Len(k) = Len(u) + 8 /\ ExtractUserKey(k) = u
  BY KeyParts
<1>2. Len(u) \in Nat /\ Len(k) \in Nat
  BY <1>1 DEF Bytestring
<1>3. k = u \o Tag(s, kTypeValue) /\ Tag(s, kTypeValue) \in Seq(Nat)
  BY DEF InternalKey, Tag, Byte, kTypeValue
<1>4. h = <<Len(k)>> \o k
  BY DEF LookupKey, kValueTypeForSeek
<1> HIDE DEF k, h
<1>5. /\ Len(h) = Len(k) + 1 /\ h \in Seq(Nat)
      /\ \A i \in 1..Len(k) : h[i + 1] = k[i]
  <2>1. <<Len(k)>> \in Seq(Nat) /\ Len(<<Len(k)>>) = 1
    BY <1>2
  <2>2. k \in Seq(Nat)
    BY <1>1, BytesAreNumbers
  <2>3. \A i \in 1..Len(k) : (<<Len(k)>> \o k)[1 + i] = k[i]
    BY <2>1, <2>2, ConcatParts
  <2>4. \A i \in 1..Len(k) : 1 + i = i + 1
    BY <1>2
  <2> QED BY <1>2, <1>4, <2>1, <2>2, <2>3, <2>4, ConcatParts
<1>6. SubSeq(h, 2, Len(h)) = k
  BY <1>1, <1>2, <1>5 DEF Bytestring
<1>7. SubSeq(h, 2, Len(h) - 8) = u
  <2>1. \A i \in 1..Len(u) : k[i] = u[i]
    BY <1>2, <1>3 DEF Bytestring
  <2>2. Len(h) - 8 = Len(u) + 1
    BY <1>1, <1>2, <1>5
  <2>3. \A i \in 1..Len(u) : h[i + 1] = u[i]
    BY <1>1, <1>2, <1>5, <2>1
  <2>4. /\ SubSeq(h, 2, Len(u) + 1) \in Seq(Nat)
        /\ Len(SubSeq(h, 2, Len(u) + 1)) = Len(u)
        /\ \A i \in 1..Len(u) : SubSeq(h, 2, Len(u) + 1)[i] = h[i + 1]
    BY <1>1, <1>2, <1>5
  <2> QED BY <1>2, <2>2, <2>3, <2>4 DEF Bytestring
<1> QED BY <1>6, <1>7 DEF internal_key, user_key, RemovePrefix, k, h

\* The entries of a table: every one has a sequence number of its own.
TableInv ==
  /\ sequence \in 0..MaxSequence
  /\ \A e \in table : \E key \in Keys, seq \in 1..sequence,
                         type \in {kTypeDeletion, kTypeValue} :
       e = InternalKey(key, seq, type)
  /\ \A e, f \in table : SequenceOf(e) = SequenceOf(f) => e = f

LEMMA EntryParts ==
  ASSUME TableInv, NEW e \in table
  PROVE  /\ ExtractUserKey(e) \in Bytestring
         /\ SequenceOf(e) \in 1..sequence
         /\ \E type \in {0, 1} : TagOf(e) = type + 256 * SequenceOf(e)
<1>1. PICK key \in Keys, seq \in 1..sequence,
           type \in {kTypeDeletion, kTypeValue} : e = InternalKey(key, seq, type)
  BY DEF TableInv
<1>2. key \in Bytestring /\ seq \in Byte
  BY MemTableAssumption DEF TableInv, Bytestring, Byte
<1>3. /\ ExtractUserKey(e) = key /\ SequenceOf(e) = seq
      /\ TagOf(e) = type + 256 * seq
  BY <1>1, <1>2, KeyParts
<1>4. type \in {0, 1}
  BY DEF kTypeDeletion, kTypeValue
<1> QED BY <1>2, <1>3, <1>4

LEMMA TableInvInit == MemTableInit => TableInv
BY MemTableAssumption DEF MemTableInit, TableInv

LEMMA TableInvStep ==
  ASSUME TableInv, [MemTableNext]_memTableVars
  PROVE  TableInv'
<1>1. CASE UNCHANGED <<table, sequence>>
  BY <1>1 DEF TableInv
<1>2. CASE table' = {} /\ sequence' = sequence
  BY <1>2 DEF TableInv
<1>3. ASSUME NEW o \in Owners, NEW type \in {kTypeDeletion, kTypeValue},
             NEW key \in Keys, Add(o, type, key)
      PROVE  TableInv'
  <2> DEFINE new == InternalKey(key, sequence + 1, type)
  <2>1. /\ sequence \in Nat /\ MaxSequence \in 0..255
        /\ sequence' = sequence + 1 /\ sequence + 1 \in 1..MaxSequence
        /\ table' = table \cup {new}
    BY <1>3, MemTableAssumption DEF Add, TableInv
  <2>2. SequenceOf(new) = sequence + 1
    <3>1. key \in Bytestring /\ sequence + 1 \in Byte
      BY <2>1, MemTableAssumption DEF Bytestring, Byte
    <3> QED BY <3>1, KeyParts
  <2>3. \A e \in table : SequenceOf(e) # sequence + 1
    BY <2>1, EntryParts
  <2>4. \A e \in table' : \E k \in Keys, seq \in 1..sequence',
                             t \in {kTypeDeletion, kTypeValue} :
          e = InternalKey(k, seq, t)
    <3>1. \A e \in table : \E k \in Keys, seq \in 1..sequence',
                              t \in {kTypeDeletion, kTypeValue} :
            e = InternalKey(k, seq, t)
      <4>1. \A seq \in 1..sequence : seq \in 1..sequence'
        BY <2>1
      <4> QED BY <4>1 DEF TableInv
    <3>2. sequence + 1 \in 1..sequence'
      BY <2>1
    <3> QED BY <2>1, <3>1, <3>2
  <2>5. \A e, f \in table' : SequenceOf(e) = SequenceOf(f) => e = f
    <3> HIDE DEF new
    <3> QED BY <2>1, <2>2, <2>3 DEF TableInv
  <2> QED BY <2>1, <2>4, <2>5 DEF TableInv
<1> QED
  BY <1>1, <1>2, <1>3 DEF MemTableNext, memTableVars, tableVars, Ref, Unref

\* Entries and the key sought, compared.
LEMMA BeforeSought ==
  ASSUME TableInv, NEW e \in table, NEW u \in Bytestring, NEW s \in Byte
  PROVE  LET c == Compare(ExtractUserKey(e), u)
         IN  ~Before(e, InternalKey(u, s, kTypeValue))
               <=> ~(c < 0) /\ (c = 0 => SequenceOf(e) <= s)
<1> DEFINE k == InternalKey(u, s, kTypeValue)
<1>1. ExtractUserKey(k) = u /\ TagOf(k) = 1 + 256 * s
  BY KeyParts DEF kTypeValue
<1>2. /\ SequenceOf(e) \in Nat
      /\ \E type \in {0, 1} : TagOf(e) = type + 256 * SequenceOf(e)
  BY EntryParts
<1>3. TagOf(e) > TagOf(k) <=> ~ (SequenceOf(e) <= s)
  BY <1>1, <1>2 DEF Byte
<1> QED BY <1>1, <1>3 DEF Before

LEMMA SeekIsNewest == TableInv => SeekFindsNewest
<1> SUFFICES ASSUME TableInv, NEW u \in Keys, NEW s \in 0..sequence
             PROVE  Get(LookupKey(u, s)) = Newest(u, s)
  BY DEF SeekFindsNewest
<1> DEFINE k == InternalKey(u, s, kTypeValue)
<1>1. u \in Bytestring /\ s \in Byte
  BY MemTableAssumption DEF TableInv, Bytestring, Byte
<1>2. Get(LookupKey(u, s)) =
        {e \in Seek(k) : ExtractUserKey(e) = u}
  <2>1. \A e \in Seek(k) : Compare(ExtractUserKey(e), u) = 0
                             <=> ExtractUserKey(e) = u
    BY <1>1, EntryParts, CompareZero DEF Seek, FromKey
  <2> QED BY <1>1, <2>1, LookupParts DEF Get
<1>3. \A e \in table : ExtractUserKey(e) = u =>
        (e \in FromKey(k) <=> e \in Visible(u, s))
  <2> TAKE e \in table
  <2> HAVE ExtractUserKey(e) = u
  <2>1. Compare(ExtractUserKey(e), u) = 0
    BY <1>1, CompareZero
  <2> QED BY <1>1, <2>1, BeforeSought DEF FromKey, Visible
<1>4. \A e, f \in table : ExtractUserKey(e) = u /\ ExtractUserKey(f) = u =>
        (Before(f, e) => SequenceOf(e) <= SequenceOf(f))
        /\ (SequenceOf(e) < SequenceOf(f) => Before(f, e))
  <2> TAKE e, f \in table
  <2> HAVE ExtractUserKey(e) = u /\ ExtractUserKey(f) = u
  <2>1. Compare(ExtractUserKey(f), ExtractUserKey(e)) = 0
    BY <1>1, CompareZero
  <2>2. /\ SequenceOf(e) \in Nat /\ SequenceOf(f) \in Nat
        /\ \E type \in {0, 1} : TagOf(e) = type + 256 * SequenceOf(e)
        /\ \E type \in {0, 1} : TagOf(f) = type + 256 * SequenceOf(f)
    BY EntryParts
  <2> QED BY <2>1, <2>2 DEF Before
<1>5. ASSUME NEW e \in Seek(k), ExtractUserKey(e) = u
      PROVE  e \in Newest(u, s)
  <2>1. e \in table /\ e \in FromKey(k) /\ \A f \in FromKey(k) : ~Before(f, e)
    BY DEF Seek, FromKey
  <2>2. e \in Visible(u, s)
    BY <1>3, <1>5, <2>1
  <2>3. \A f \in Visible(u, s) : SequenceOf(f) <= SequenceOf(e)
    <3> TAKE f \in Visible(u, s)
    <3>1. f \in table /\ ExtractUserKey(f) = u
      BY DEF Visible
    <3>2. ~ Before(f, e)
      BY <1>3, <2>1, <3>1
    <3>3. SequenceOf(e) \in Nat /\ SequenceOf(f) \in Nat
      BY <2>1, <3>1, EntryParts
    <3>4. ~ (SequenceOf(e) < SequenceOf(f))
      BY <1>4, <1>5, <2>1, <3>1, <3>2
    <3> QED BY <3>3, <3>4
  <2> QED BY <2>2, <2>3 DEF Newest
<1>6. ASSUME NEW e \in Newest(u, s)
      PROVE  e \in Seek(k) /\ ExtractUserKey(e) = u
  <2>1. /\ e \in table /\ ExtractUserKey(e) = u /\ e \in Visible(u, s)
        /\ \A f \in Visible(u, s) : SequenceOf(f) <= SequenceOf(e)
    BY DEF Newest, Visible
  <2>2. e \in FromKey(k)
    BY <1>3, <2>1
  <2>3. \A f \in FromKey(k) : ~Before(f, e)
    <3> SUFFICES ASSUME NEW f \in FromKey(k), Before(f, e) PROVE FALSE
      OBVIOUS
    <3>1. f \in table /\ ~Before(f, k)
      BY DEF FromKey
    <3>2. ~ (Compare(ExtractUserKey(f), u) < 0)
      BY <1>1, <3>1, BeforeSought
    <3>3. Compare(ExtractUserKey(f), u) = 0 /\ TagOf(f) > TagOf(e)
      BY <2>1, <3>2 DEF Before
    <3>4. ExtractUserKey(f) = u
      BY <1>1, <3>1, <3>3, EntryParts, CompareZero
    <3>5. SequenceOf(f) <= SequenceOf(e)
      BY <1>3, <2>1, <3>1, <3>4
    <3>6. SequenceOf(e) <= SequenceOf(f)
      BY <1>4, <2>1, <3>1, <3>4
    <3>7. SequenceOf(e) = SequenceOf(f)
      BY <2>1, <3>1, <3>5, <3>6, EntryParts
    <3>8. e = f
      BY <2>1, <3>1, <3>7 DEF TableInv
    <3>9. TagOf(e) \in Int
      BY <2>1, EntryParts
    <3> QED BY <3>3, <3>8, <3>9
  <2> QED BY <2>1, <2>2, <2>3 DEF Seek
<1> QED BY <1>2, <1>5, <1>6

\* A lookup at any sequence number answers from the newest entry visible there
\* or from none, for any keys, also those of which one is a prefix of another
\* (dbformat.h 42-48, memtable.h 54-57).
THEOREM LookupFindsNewest == MemTableSpec => []SeekFindsNewest
<1>1. TableInv /\ [MemTableNext]_memTableVars => TableInv'
  BY TableInvStep
<1> QED
  BY TableInvInit, <1>1, SeekIsNewest, PTL DEF MemTableSpec

-----------------------------------------------------------------------------
(* The order of slices and of internal keys.                               *)

\* Where slices differ, memcmp goes by the first byte they differ in.
LEMMA MemcmpFirst ==
  ASSUME NEW u \in Bytestring, NEW v \in Bytestring, NEW n \in Nat
  PROVE  \/ Memcmp(u, v, n) = 0 /\ \A i \in 1..n : u[i] = v[i]
         \/ \E j \in 1..n : /\ \A i \in 1..(j - 1) : u[i] = v[i]
                            /\ u[j] # v[j]
                            /\ Memcmp(u, v, n) = IF u[j] < v[j] THEN -1 ELSE 1
<1> DEFINE differ == {i \in 1..n : u[i] # v[i]}
           j == CHOOSE i \in differ : \A m \in differ : i <= m
<1>1. CASE differ = {}
  BY <1>1 DEF Memcmp
<1>2. CASE differ # {}
  <2>1. differ \subseteq Nat
    OBVIOUS
  <2>2. \E i \in differ : \A m \in differ : ~(<<m, i>> \in OpToRel(<, Nat))
    <3> HIDE DEF differ
    <3> QED
      BY <1>2, <2>1, NatLessThanWellFounded, WFMin
  <2>3. PICK i \in differ : \A m \in differ : ~(m < i)
    BY <2>1, <2>2 DEF OpToRel
  <2>4. \A m \in differ : i <= m
    BY <2>1, <2>3
  <2>5. j \in differ /\ \A m \in differ : j <= m
    <3> HIDE DEF differ
    <3> QED
      BY <2>4
  <2>6. Memcmp(u, v, n) = IF u[j] < v[j] THEN -1 ELSE 1
    BY <1>2 DEF Memcmp
  <2> HIDE DEF j
  <2>7. j \in 1..n /\ u[j] # v[j]
    BY <2>5
  <2>8. ASSUME NEW m \in 1..(j - 1) PROVE u[m] = v[m]
    <3>1. m \in 1..n /\ m < j
      BY <2>7
    <3>2. m \notin differ
      BY <2>5, <2>7, <3>1
    <3> QED
      BY <3>1, <3>2
  <2> QED
    BY <2>6, <2>7, <2>8
<1> QED
  BY <1>1, <1>2

LEMMA BytesOrdered ==
  ASSUME NEW u \in Bytestring
  PROVE  Len(u) \in Nat /\ \A i \in 1..Len(u) : u[i] \in Nat
<1>1. u \in Seq(Nat)
  BY BytesAreNumbers
<1> QED
  BY <1>1

\* Of two slices the one is earlier, or the other, or they are equal, and compare
\* says which.
LEMMA CompareCases ==
  ASSUME NEW u \in Bytestring, NEW v \in Bytestring
  PROVE  \/ Compare(u, v) = 0 /\ u = v
         \/ Compare(u, v) = -1 /\ Earlier(u, v)
         \/ Compare(u, v) = 1 /\ Earlier(v, u)
<1> DEFINE n == Shorter(u, v)
<1>1. /\ Len(u) \in Nat /\ Len(v) \in Nat /\ n \in Nat /\ n <= Len(u) /\ n <= Len(v)
      /\ n = Len(u) \/ n = Len(v)
      /\ \A i \in 1..Len(u) : u[i] \in Nat
      /\ \A i \in 1..Len(v) : v[i] \in Nat
  BY BytesOrdered DEF Shorter
<1>2. CASE Memcmp(u, v, n) = 0 /\ \A i \in 1..n : u[i] = v[i]
  <2>1. Compare(u, v) = SizeOrder(u, v)
    BY <1>2 DEF Compare
  <2> HIDE DEF n
  <2>2. CASE Len(u) = Len(v)
    <3>1. Compare(u, v) = 0
      BY <1>1, <2>1, <2>2 DEF SizeOrder
    <3> QED
      BY <3>1, CompareZero
  <2>3. CASE Len(u) < Len(v)
    <3>1. Compare(u, v) = -1
      BY <2>1, <2>3 DEF SizeOrder
    <3>2. n = Len(u) /\ n \in 0..Len(u) /\ n < Len(v)
      BY <1>1, <2>3
    <3> QED
      BY <1>2, <3>1, <3>2 DEF Earlier
  <2>4. CASE Len(u) > Len(v)
    <3>1. Compare(u, v) = 1
      BY <1>1, <2>1, <2>4 DEF SizeOrder
    <3>2. n = Len(v) /\ n \in 0..Len(v) /\ n < Len(u)
      BY <1>1, <2>4
    <3> QED
      BY <1>2, <3>1, <3>2 DEF Earlier
  <2> QED
    BY <1>1, <2>2, <2>3, <2>4
<1>3. ASSUME NEW j \in 1..n, \A i \in 1..(j - 1) : u[i] = v[i], u[j] # v[j],
             Memcmp(u, v, n) = IF u[j] < v[j] THEN -1 ELSE 1
      PROVE  \/ Compare(u, v) = -1 /\ Earlier(u, v)
             \/ Compare(u, v) = 1 /\ Earlier(v, u)
  <2>1. Compare(u, v) = Memcmp(u, v, n)
    BY <1>3 DEF Compare
  <2> HIDE DEF n
  <2>2. /\ j - 1 \in 0..Len(u) /\ j - 1 \in 0..Len(v) /\ (j - 1) + 1 = j
        /\ j - 1 < Len(u) /\ j - 1 < Len(v) /\ u[j] \in Nat /\ v[j] \in Nat
    BY <1>1
  <2>3. u[j] < v[j] \/ v[j] < u[j]
    BY <1>3, <2>2
  <2>4. CASE u[j] < v[j]
    <3>1. Earlier(u, v)
      BY <1>3, <2>2, <2>4 DEF Earlier
    <3> QED
      BY <1>3, <2>1, <2>4, <3>1
  <2>5. CASE v[j] < u[j]
    <3>1. Earlier(v, u)
      BY <1>3, <2>2, <2>5 DEF Earlier
    <3>2. ~(u[j] < v[j])
      BY <2>2, <2>5
    <3> QED
      BY <1>3, <2>1, <3>1, <3>2
  <2> QED
    BY <2>3, <2>4, <2>5
<1>4. ASSUME ~(Memcmp(u, v, n) = 0 /\ \A i \in 1..n : u[i] = v[i])
      PROVE  \E j \in 1..n : /\ \A i \in 1..(j - 1) : u[i] = v[i]
                             /\ u[j] # v[j]
                             /\ Memcmp(u, v, n) = IF u[j] < v[j] THEN -1 ELSE 1
  <2>1. n \in Nat
    BY <1>1
  <2> HIDE DEF n
  <2> QED
    BY <1>4, <2>1, MemcmpFirst
<1> QED
  BY <1>2, <1>3, <1>4

LEMMA EarlierStrict ==
  ASSUME NEW u \in Bytestring, NEW v \in Bytestring, Earlier(u, v)
  PROVE  u # v /\ ~Earlier(v, u)
<1>0. /\ Len(u) \in Nat /\ Len(v) \in Nat
      /\ \A i \in 1..Len(u) : u[i] \in Nat
      /\ \A i \in 1..Len(v) : v[i] \in Nat
  BY BytesOrdered
<1>1. PICK n \in 0..Len(u) : /\ n < Len(v) /\ \A i \in 1..n : u[i] = v[i]
                             /\ n = Len(u) \/ u[n + 1] < v[n + 1]
  BY DEF Earlier
<1>2. u # v
  <2>1. n < Len(u) => n + 1 \in 1..Len(u)
    BY <1>0, <1>1
  <2> QED
    BY <1>0, <1>1, <2>1
<1>3. ASSUME NEW m \in 0..Len(v), m < Len(u), \A i \in 1..m : v[i] = u[i],
             m = Len(v) \/ v[m + 1] < u[m + 1]
      PROVE  FALSE
  <2>1. n \in Nat /\ m \in Nat /\ n + 1 \in 1..Len(v) /\ m + 1 \in 1..Len(u)
    BY <1>0, <1>1, <1>3
  <2>2. CASE n < m
    <3>1. n + 1 \in 1..m /\ n # Len(u) /\ n + 1 \in 1..Len(u)
      BY <1>0, <1>1, <1>3, <2>1, <2>2
    <3> QED
      BY <1>0, <1>1, <1>3, <2>1, <3>1
  <2>3. CASE m < n
    <3>1. m + 1 \in 1..n /\ m # Len(v) /\ m + 1 \in 1..Len(v)
      BY <1>0, <1>1, <1>3, <2>1, <2>3
    <3> QED
      BY <1>0, <1>1, <1>3, <2>1, <3>1
  <2>4. CASE n = m
    <3>1. u[n + 1] < v[n + 1] /\ v[n + 1] < u[n + 1]
      BY <1>0, <1>1, <1>3, <2>1, <2>4
    <3>2. u[n + 1] \in Nat /\ v[n + 1] \in Nat
      BY <1>0, <2>1, <2>4
    <3> QED
      BY <3>1, <3>2
  <2> QED
    BY <2>1, <2>2, <2>3, <2>4
<1> QED
  BY <1>2, <1>3 DEF Earlier

LEMMA EarlierTransitive ==
  ASSUME NEW u \in Bytestring, NEW v \in Bytestring, NEW w \in Bytestring,
         Earlier(u, v), Earlier(v, w)
  PROVE  Earlier(u, w)
<1>0. /\ Len(u) \in Nat /\ Len(v) \in Nat /\ Len(w) \in Nat
      /\ \A i \in 1..Len(u) : u[i] \in Nat
      /\ \A i \in 1..Len(v) : v[i] \in Nat
      /\ \A i \in 1..Len(w) : w[i] \in Nat
  BY BytesOrdered
<1>1. PICK n \in 0..Len(u) : /\ n < Len(v) /\ \A i \in 1..n : u[i] = v[i]
                             /\ n = Len(u) \/ u[n + 1] < v[n + 1]
  BY DEF Earlier
<1>2. PICK m \in 0..Len(v) : /\ m < Len(w) /\ \A i \in 1..m : v[i] = w[i]
                             /\ m = Len(v) \/ v[m + 1] < w[m + 1]
  BY DEF Earlier
<1>3. n \in Nat /\ m \in Nat /\ n + 1 \in 1..Len(v) /\ m + 1 \in 1..Len(w)
  BY <1>0, <1>1, <1>2
<1>4. CASE n < m
  <2>1. n < Len(w) /\ n + 1 \in 1..m /\ v[n + 1] = w[n + 1]
    BY <1>0, <1>2, <1>3, <1>4
  <2>2. \A i \in 1..n : u[i] = w[i]
    BY <1>1, <1>2, <1>3, <1>4
  <2> QED
    BY <1>1, <2>1, <2>2 DEF Earlier
<1>5. CASE m < n
  <2>1. /\ m \in 0..Len(u) /\ m + 1 \in 1..n /\ m # Len(v)
        /\ u[m + 1] = v[m + 1] /\ v[m + 1] < w[m + 1]
    BY <1>0, <1>1, <1>2, <1>3, <1>5
  <2>2. \A i \in 1..m : u[i] = w[i]
    BY <1>1, <1>2, <1>3, <1>5
  <2> QED
    BY <1>2, <2>1, <2>2 DEF Earlier
<1>6. CASE n = m
  <2>1. n < Len(w) /\ v[n + 1] < w[n + 1]
    BY <1>1, <1>2, <1>3, <1>6, <1>0
  <2>2. \A i \in 1..n : u[i] = w[i]
    BY <1>1, <1>2, <1>3, <1>6
  <2>3. n # Len(u) => /\ u[n + 1] \in Nat /\ v[n + 1] \in Nat /\ w[n + 1] \in Nat
                      /\ u[n + 1] < v[n + 1]
    BY <1>0, <1>1, <1>3, <1>6
  <2>4. n # Len(u) => u[n + 1] < w[n + 1]
    BY <2>1, <2>3
  <2> QED
    BY <1>1, <2>1, <2>2, <2>4 DEF Earlier
<1> QED
  BY <1>3, <1>4, <1>5, <1>6

-----------------------------------------------------------------------------
LEMMA MemcmpZero ==
  ASSUME NEW u \in Bytestring, NEW v \in Bytestring, NEW n \in Nat
  PROVE  Memcmp(u, v, n) = 0 <=> \A i \in 1..n : u[i] = v[i]
<1>1. ASSUME NEW j \in 1..n, u[j] # v[j],
             Memcmp(u, v, n) = IF u[j] < v[j] THEN -1 ELSE 1
      PROVE  Memcmp(u, v, n) # 0 /\ ~ \A i \in 1..n : u[i] = v[i]
  BY <1>1
<1> QED
  BY <1>1, MemcmpFirst

LEMMA PrefixRemoved ==
  ASSUME NEW u \in Bytestring, NEW n \in 0..Len(u)
  PROVE  /\ RemovePrefix(u, n) \in Bytestring
         /\ Len(RemovePrefix(u, n)) = Len(u) - n
         /\ \A i \in 1..(Len(u) - n) : RemovePrefix(u, n)[i] = u[n + i]
<1>1. u \in Seq(Byte) /\ Len(u) \in Nat
  BY DEF Bytestring
<1>2. RemovePrefix(u, n) = SubSeq(u, n + 1, Len(u))
  BY DEF RemovePrefix
<1>3. \A i \in (n + 1)..Len(u) : u[i] \in Byte
  BY <1>1
<1>4. n + 1 \in Int /\ Len(u) \in Int
  BY <1>1
<1>5. /\ SubSeq(u, n + 1, Len(u)) \in Seq(Byte)
      /\ Len(SubSeq(u, n + 1, Len(u))) =
           IF n + 1 <= Len(u) THEN Len(u) - (n + 1) + 1 ELSE 0
      /\ \A i \in 1..(Len(u) - (n + 1) + 1) :
           SubSeq(u, n + 1, Len(u))[i] = u[(n + 1) + i - 1]
  BY ONLY <1>3, <1>4, SubSeqProperties
<1>6. /\ Len(u) - (n + 1) + 1 = Len(u) - n
      /\ Len(u) - n = (IF n + 1 <= Len(u) THEN Len(u) - (n + 1) + 1 ELSE 0)
      /\ \A i \in 1..(Len(u) - n) : (n + 1) + i - 1 = n + i
  BY <1>1
<1> QED
  BY <1>2, <1>5, <1>6 DEF Bytestring

LEMMA FrontIsPrefix ==
  ASSUME NEW u \in Bytestring, NEW v \in Bytestring
  PROVE  StartsWith(u, v) <=> \E n \in 0..Len(u) : u = v \o RemovePrefix(u, n)
<1>1. u \in Seq(Byte) /\ v \in Seq(Byte) /\ Len(u) \in Nat /\ Len(v) \in Nat
  BY DEF Bytestring
<1>2. ASSUME StartsWith(u, v) PROVE \E n \in 0..Len(u) : u = v \o RemovePrefix(u, n)
  <2> DEFINE n == Len(v)
             rest == RemovePrefix(u, n)
  <2>1. n \in 0..Len(u) /\ Memcmp(u, v, n) = 0
    BY <1>1, <1>2 DEF StartsWith
  <2>2. \A i \in 1..n : u[i] = v[i]
    <3>1. n \in Nat
      BY <1>1
    <3> HIDE DEF n
    <3> QED
      BY <2>1, <3>1, MemcmpZero
  <2>3. /\ rest \in Seq(Byte) /\ Len(rest) = Len(u) - n
        /\ \A i \in 1..(Len(u) - n) : rest[i] = u[n + i]
    BY <2>1, PrefixRemoved DEF Bytestring
  <2> HIDE DEF rest
  <2>4. /\ v \o rest \in Seq(Byte) /\ Len(v \o rest) = Len(v) + Len(rest)
        /\ \A i \in 1..Len(v) : (v \o rest)[i] = v[i]
        /\ \A i \in 1..Len(rest) : (v \o rest)[Len(v) + i] = rest[i]
    BY <1>1, <2>3, ConcatParts
  <2>5. Len(v \o rest) = Len(u)
    BY <1>1, <2>3, <2>4
  <2>6. ASSUME NEW i \in 1..Len(u) PROVE (v \o rest)[i] = u[i]
    <3>1. CASE i \in 1..n
      BY <2>2, <2>4, <3>1
    <3>2. CASE i \notin 1..n
      <4>1. i - n \in 1..(Len(u) - n) /\ n + (i - n) = i
        BY <1>1, <2>1, <3>2
      <4>2. rest[i - n] = u[n + (i - n)]
        BY <2>3, <4>1
      <4>3. (v \o rest)[Len(v) + (i - n)] = rest[i - n]
        BY <2>3, <2>4, <4>1
      <4> QED
        BY <4>1, <4>2, <4>3
    <3> QED
      BY <3>1, <3>2
  <2>7. v \o rest = u
    <3>1. ASSUME NEW p \in Seq(Byte), NEW q \in Seq(Byte), Len(p) = Len(q),
                 \A i \in 1..Len(q) : p[i] = q[i]
          PROVE  p = q
      BY <3>1
    <3> QED
      BY <1>1, <2>4, <2>5, <2>6, <3>1
  <2> QED
    BY <2>1, <2>7 DEF rest
<1>3. ASSUME NEW n \in 0..Len(u), u = v \o RemovePrefix(u, n) PROVE StartsWith(u, v)
  <2> DEFINE rest == RemovePrefix(u, n)
  <2>1. rest \in Seq(Byte) /\ Len(rest) \in Nat
    BY PrefixRemoved DEF Bytestring
  <2> HIDE DEF rest
  <2>2. /\ Len(v \o rest) = Len(v) + Len(rest)
        /\ \A i \in 1..Len(v) : (v \o rest)[i] = v[i]
    BY <1>1, <2>1, ConcatParts
  <2>3. u = v \o rest
    BY <1>3 DEF rest
  <2>4. Len(u) >= Len(v) /\ \A i \in 1..Len(v) : u[i] = v[i]
    BY <1>1, <2>1, <2>2, <2>3
  <2>5. Memcmp(u, v, Len(v)) = 0
    BY <1>1, <2>4, MemcmpZero
  <2> QED
    BY <2>4, <2>5 DEF StartsWith
<1> QED
  BY <1>2, <1>3

LEMMA EqualSlices ==
  ASSUME NEW u \in Bytestring, NEW v \in Bytestring
  PROVE  Equal(u, v) <=> u = v
<1>1. u \in Seq(Byte) /\ v \in Seq(Byte) /\ Len(u) \in Nat
  BY DEF Bytestring
<1>2. Memcmp(u, v, Len(u)) = 0 <=> \A i \in 1..Len(u) : u[i] = v[i]
  BY <1>1, MemcmpZero
<1>3. ASSUME NEW p \in Seq(Byte), NEW q \in Seq(Byte), Len(p) = Len(q),
             \A i \in 1..Len(p) : p[i] = q[i]
      PROVE  p = q
  BY <1>3
<1> QED
  BY <1>1, <1>2, <1>3 DEF Equal

SliceInv == slice \in Bytestring /\ other \in Bytestring

LEMMA SliceInvStart == SliceInit => SliceInv
<1>1. \A b \in Bytes : b \in Byte
  BY SliceAssumption DEF Byte
<1>2. ASSUME NEW n \in 0..MaxLength, NEW s \in [1..n -> Bytes] PROVE s \in Bytestring
  <2>1. n \in Nat
    BY SliceAssumption
  <2>2. Bytes \subseteq Byte
    BY <1>1
  <2>3. s \in [1..n -> Byte]
    <3> HIDE DEF Byte
    <3> QED
      BY ONLY <2>2, s \in [1..n -> Bytes]
  <2> QED
    <3> HIDE DEF Byte
    <3> QED
      BY <2>1, <2>3 DEF Bytestring
<1> QED
  BY <1>2 DEF SliceInit, SliceInv, Slices

LEMMA SliceInvStep == SliceInv /\ [SliceNext]_sliceVars => SliceInv'
<1> SUFFICES ASSUME SliceInv, [SliceNext]_sliceVars PROVE SliceInv'
  OBVIOUS
<1>1. CASE UNCHANGED sliceVars
  BY <1>1 DEF sliceVars, SliceInv
<1>2. CASE SliceNext
  <2>1. PICK n \in 1..Len(slice) : slice' = RemovePrefix(slice, n) /\ other' = other
    BY <1>2 DEF SliceNext
  <2>2. n \in 0..Len(slice)
    OBVIOUS
  <2> QED
    BY <2>1, <2>2, PrefixRemoved DEF SliceInv
<1> QED
  BY <1>1, <1>2

\* compare() is negative, zero or positive (slice.h 79-89) as the first slice is
\* earlier in a dictionary than the second, equal to it or later, and ==,
\* starts_with() and remove_prefix() fit it: for bytes of any value and slices of
\* any length.
THEOREM SlicesInOrder == SliceSpec => []SlicesOrdered
<1>1. SliceInv => SlicesOrdered
  <2> SUFFICES ASSUME SliceInv PROVE SlicesOrdered
    OBVIOUS
  <2>1. slice \in Bytestring /\ other \in Bytestring
    BY DEF SliceInv
  <2>2. /\ Compare(slice, other) < 0 <=> Earlier(slice, other)
        /\ Compare(slice, other) > 0 <=> Earlier(other, slice)
    BY <2>1, CompareCases, EarlierStrict
  <2> QED
    BY <2>1, <2>2, EqualSlices, FrontIsPrefix DEF SlicesOrdered
<1> QED
  BY SliceInvStart, SliceInvStep, <1>1, PTL DEF SliceSpec

\* The internal keys there are.
InternalKeys == {InternalKey(u, s, type) : u \in Bytestring, s \in Byte,
                                           type \in {kTypeDeletion, kTypeValue}}

LEMMA KeyRead ==
  ASSUME NEW u \in Bytestring, NEW s \in Byte, NEW type \in {kTypeDeletion, kTypeValue}
  PROVE  /\ ExtractUserKey(InternalKey(u, s, type)) = u
         /\ TagOf(InternalKey(u, s, type)) = type + 256 * s
  BY KeyParts

LEMMA BeforeCases ==
  ASSUME NEW a \in InternalKeys, NEW b \in InternalKeys
  PROVE  /\ ExtractUserKey(a) \in Bytestring /\ TagOf(a) \in Nat
         /\ Before(a, b) <=> \/ Earlier(ExtractUserKey(a), ExtractUserKey(b))
                             \/ /\ ExtractUserKey(a) = ExtractUserKey(b)
                                /\ TagOf(a) > TagOf(b)
<1>1. \A e \in InternalKeys : ExtractUserKey(e) \in Bytestring /\ TagOf(e) \in Nat
  <2> SUFFICES ASSUME NEW u \in Bytestring, NEW s \in Byte,
                      NEW type \in {kTypeDeletion, kTypeValue}
               PROVE  LET e == InternalKey(u, s, type)
                      IN ExtractUserKey(e) \in Bytestring /\ TagOf(e) \in Nat
    BY DEF InternalKeys
  <2>1. /\ ExtractUserKey(InternalKey(u, s, type)) = u
        /\ TagOf(InternalKey(u, s, type)) = type + 256 * s
    BY KeyRead
  <2>2. type + 256 * s \in Nat
    BY DEF Byte, kTypeDeletion, kTypeValue
  <2> QED
    BY <2>1, <2>2
<1> DEFINE u == ExtractUserKey(a)
           v == ExtractUserKey(b)
<1>2. u \in Bytestring /\ v \in Bytestring
  BY <1>1
<1>3. /\ Compare(u, v) < 0 <=> Earlier(u, v)
      /\ Compare(u, v) = 0 <=> u = v
  <2> HIDE DEF u, v
  <2> QED
    BY <1>2, CompareCases, EarlierStrict, CompareZero
<1> QED
  BY <1>1, <1>3 DEF Before

\* InternalKeyComparator, which the skip list keeps its entries by (dbformat.h
\* 147-155), puts any two different internal keys in an order, and in one only,
\* and the orders of three of them agree.
THEOREM KeysInOrder ==
  /\ \A a, b \in InternalKeys : Before(a, b) => ~Before(b, a)
  /\ \A a, b, c \in InternalKeys : Before(a, b) /\ Before(b, c) => Before(a, c)
  /\ \A a, b \in InternalKeys : a = b \/ Before(a, b) \/ Before(b, a)
<1>1. ASSUME NEW a \in InternalKeys, NEW b \in InternalKeys, Before(a, b)
      PROVE  ~Before(b, a)
  BY <1>1, BeforeCases, EarlierStrict
<1>2. ASSUME NEW a \in InternalKeys, NEW b \in InternalKeys, NEW c \in InternalKeys,
             Before(a, b), Before(b, c)
      PROVE  Before(a, c)
  BY <1>2, BeforeCases, EarlierTransitive
<1>3. ASSUME NEW a \in InternalKeys, NEW b \in InternalKeys,
             ~Before(a, b), ~Before(b, a)
      PROVE  a = b
  <2> DEFINE u == ExtractUserKey(a)
             v == ExtractUserKey(b)
  <2>1. u \in Bytestring /\ v \in Bytestring /\ TagOf(a) \in Nat /\ TagOf(b) \in Nat
    BY BeforeCases
  <2>2. ~Earlier(u, v) /\ ~Earlier(v, u)
    BY <1>3, BeforeCases
  <2>3. u = v
    <3> HIDE DEF u, v
    <3> QED
      BY <2>1, <2>2, CompareCases
  <2>4. TagOf(a) = TagOf(b)
    BY <1>3, <2>1, <2>3, BeforeCases
  <2>5. PICK p \in Bytestring, s \in Byte, type \in {kTypeDeletion, kTypeValue} :
          a = InternalKey(p, s, type)
    BY DEF InternalKeys
  <2>6. PICK q \in Bytestring, t \in Byte, kind \in {kTypeDeletion, kTypeValue} :
          b = InternalKey(q, t, kind)
    BY DEF InternalKeys
  <2> HIDE DEF u, v, Byte, kTypeDeletion, kTypeValue
  <2>7. ExtractUserKey(a) = p /\ TagOf(a) = type + 256 * s
    BY <2>5, KeyRead
  <2>8. ExtractUserKey(b) = q /\ TagOf(b) = kind + 256 * t
    BY <2>6, KeyRead
  <2>9. p = q
    BY <2>3, <2>7, <2>8 DEF u, v
  <2>10. \A i, j \in {0, 1}, m, n \in 0..255 : i + 256 * m = j + 256 * n => i = j /\ m = n
    OBVIOUS
  <2>11. type \in {0, 1} /\ kind \in {0, 1} /\ s \in 0..255 /\ t \in 0..255
    BY DEF Byte, kTypeDeletion, kTypeValue
  <2>12. type + 256 * s = kind + 256 * t
    BY <2>4, <2>7, <2>8
  <2>13. type = kind /\ s = t
    BY ONLY <2>10, <2>11, <2>12
  <2> QED
    BY <2>5, <2>6, <2>9, <2>13
<1> QED
  BY <1>1, <1>2, <1>3
=============================================================================
