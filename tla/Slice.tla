-------------------------------- MODULE Slice --------------------------------
(***************************************************************************)
(* Slice of DB/include/ldb/slice.h: a view on bytes, here the sequence of  *)
(* the bytes it refers to.  memcmp is the library's: the sign is that of   *)
(* the first byte that differs, bytes being unsigned.                      *)
(***************************************************************************)
EXTENDS Integers, Sequences

\* Plausible bug of compare: only the common part counts.
SizeOrderNone(x, y) == 0

Shorter(x, y) == IF Len(x) < Len(y) THEN Len(x) ELSE Len(y)

Memcmp(x, y, n) ==
  LET differ == {k \in 1..n : x[k] # y[k]}
  IN IF differ = {} THEN 0
     ELSE LET k == CHOOSE j \in differ : \A m \in differ : j <= m
          IN IF x[k] < y[k] THEN -1 ELSE 1

\* Of two slices that agree as far as the shorter one goes.
SizeOrder(x, y) == CASE Len(x) < Len(y) -> -1
                     [] Len(x) > Len(y) -> 1
                     [] OTHER -> 0

Compare(x, y) ==
  LET r == Memcmp(x, y, Shorter(x, y))
  IN IF r = 0 THEN SizeOrder(x, y) ELSE r

Equal(x, y) == Len(x) = Len(y) /\ Memcmp(x, y, Len(x)) = 0
StartsWith(x, p) == Len(x) >= Len(p) /\ Memcmp(x, p, Len(p)) = 0
RemovePrefix(x, n) == SubSeq(x, n + 1, Len(x))
=============================================================================
