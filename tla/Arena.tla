-------------------------------- MODULE Arena --------------------------------
(***************************************************************************)
(* Arena of DB/util/arena.h: memory handed out from the rest of the last   *)
(* block, while it lasts.  The constructor and AllocateFallback have no    *)
(* body in the repository.  The latter gets a block of at least the bytes  *)
(* asked for and either uses it for them alone or goes on with its rest.   *)
(* Writers are synchronised by the caller (skiplist.h:8).                  *)
(***************************************************************************)
EXTENDS Naturals

CONSTANTS
  Addresses,     \* where blocks may begin
  BlockSizes     \* of the blocks AllocateFallback gets

ASSUME ArenaAssumption ==
  Addresses \subseteq Nat /\ BlockSizes \subseteq Nat

VARIABLES
  alloc_ptr, alloc_bytes_remaining,
  blocks,        \* the blocks the arena owns: [at, size]
  allocated      \* what it has handed out: [at, size]

arenaVars == <<alloc_ptr, alloc_bytes_remaining, blocks, allocated>>

Chunk(at, size) == [at |-> at, size |-> size]
Within(r, b) == b.at <= r.at /\ r.at + r.size <= b.at + b.size
Apart(r, s) == r.at + r.size <= s.at \/ s.at + s.size <= r.at

\* Plausible bug of Fits: off by one.
FitsOneMore(bytes) == bytes <= alloc_bytes_remaining + 1

Fits(bytes) == bytes <= alloc_bytes_remaining

AllocateFromBlock(bytes) ==
  /\ Fits(bytes)
  /\ allocated' = allocated \cup {Chunk(alloc_ptr, bytes)}
  /\ alloc_ptr' = alloc_ptr + bytes
  /\ alloc_bytes_remaining' = alloc_bytes_remaining - bytes
  /\ UNCHANGED blocks

AllocateFallback(bytes, at, size) ==
  /\ ~Fits(bytes) /\ bytes <= size
  /\ \A b \in blocks : Apart(Chunk(at, size), b)
  /\ blocks' = blocks \cup {Chunk(at, size)}
  /\ allocated' = allocated \cup {Chunk(at, bytes)}
  /\ \/ UNCHANGED <<alloc_ptr, alloc_bytes_remaining>>
     \/ /\ alloc_ptr' = at + bytes
        /\ alloc_bytes_remaining' = size - bytes

Allocate(bytes) ==
  /\ bytes > 0
  /\ \/ AllocateFromBlock(bytes)
     \/ \E at \in Addresses, size \in BlockSizes :
          AllocateFallback(bytes, at, size)

\* The destructor: the blocks go back.
Free ==
  /\ alloc_ptr' = 0 /\ alloc_bytes_remaining' = 0
  /\ blocks' = {} /\ allocated' = {}

ArenaInit ==
  /\ alloc_ptr = 0 /\ alloc_bytes_remaining = 0
  /\ blocks = {} /\ allocated = {}

-----------------------------------------------------------------------------
\* No two allocations share a byte, and each lies in one block the arena owns,
\* also those that take exactly what is left of a block (arena.h:57).
AllocationsApart ==
  /\ \A r \in allocated : \E b \in blocks : Within(r, b)
  /\ \A r, s \in allocated : r # s => Apart(r, s)
=============================================================================
