--------------------------- MODULE SliceProperties ---------------------------
(* Two slices compared, one of which has bytes taken off its front. *)
EXTENDS Slice

CONSTANTS
  Bytes,         \* the bytes of the slices
  MaxLength      \* bound on their lengths

ASSUME SliceAssumption == Bytes \subseteq 0..255 /\ MaxLength \in Nat

VARIABLES slice, other

sliceVars == <<slice, other>>

Slices == UNION {[1..n -> Bytes] : n \in 0..MaxLength}

SliceInit == slice \in Slices /\ other \in Slices

SliceNext ==
  \E n \in 1..Len(slice) : slice' = RemovePrefix(slice, n) /\ UNCHANGED other

SliceSpec == SliceInit /\ [][SliceNext]_sliceVars

-----------------------------------------------------------------------------
\* The order of a dictionary, by its definition: after a front that both have,
\* the one ends before the other or goes on with the smaller byte.
Earlier(s, t) ==
  \E n \in 0..Len(s) :
    /\ n < Len(t) /\ \A i \in 1..n : s[i] = t[i]
    /\ n = Len(s) \/ s[n + 1] < t[n + 1]

\* compare, ==, starts_with and remove_prefix agree with the order of a
\* dictionary and with each other (slice.h 50-54, 65-67, 73-89).
SlicesOrdered ==
  /\ Compare(slice, other) < 0 <=> Earlier(slice, other)
  /\ Compare(slice, other) > 0 <=> Earlier(other, slice)
  /\ Equal(slice, other) <=> slice = other
  /\ StartsWith(slice, other)
       <=> \E n \in 0..Len(slice) : slice = other \o RemovePrefix(slice, n)
=============================================================================
