----------------------- MODULE LogFormatterProperties -----------------------
(* What LogFormatter::init has to guarantee, whatever the pattern.         *)
EXTENDS LogFormatter

Delimiters == {"%", "{", "}"}

\* The positions a string or an entry of vec names.
Text(f) == {f[k] : k \in DOMAIN f}
Positions(e) == Text(e.text) \cup Text(e.fmt)
Placed(v) == UNION {Positions(v[k]) : k \in DOMAIN v}

\* Entries that follow one another in the pattern, each read left to right.
Ascending(f) == \A j, k \in DOMAIN f : j < k => f[j] < f[k]
Ordered(v) ==
  /\ \A k \in DOMAIN v : Ascending(v[k].text) /\ Ascending(v[k].fmt)
  /\ \A j, k \in DOMAIN v : j < k =>
       \A p \in Positions(v[j]), q \in Positions(v[k]) : p < q

\* Types, and the bounds of both loops: no character past the pattern is read.
TypeOK ==
  /\ pattern \in Patterns
  /\ pc \in {"scan", "spec", "close", "build", "done"}
  /\ i \in 1..(Size + 1) /\ n \in 1..(Size + 1)
  /\ pc \in {"spec", "close"} => i < n /\ i <= Size
  /\ fmt_status \in {0, 1} /\ fmt_begin \in 0..Size
  /\ nstr \in Seq(1..Size) /\ str \in Seq(1..Size)
  /\ fmt \in Seq(1..Size)
  /\ vec \in Seq([text: Seq(0..Size), fmt: Seq(0..Size), type: {0, 1}])
  /\ items \in Seq({"text", "item", "error_format"})
  /\ m_error \in BOOLEAN

\* A pattern parsed without error is printed as it is written: what it spells
\* out is in the items once, in the order of the pattern.
InOrder == pc = "done" /\ ~m_error => Ordered(vec)

\* ... and none of it is lost but the marks of an item: %, { and }.
NothingLost ==
  pc = "done" /\ ~m_error =>
    \A p \in 1..Size : p \in Placed(vec) \/ pattern[p] \in Delimiters

\* %x or %x{format} from b up to e, where x is a key of s_format_items.  What
\* follows %x alone has to end a name.
Item(p, b, e) ==
  /\ b + 1 <= Len(p) /\ p[b] = "%" /\ p[b + 1] \in ItemLetters
  /\ \/ /\ e = b + 2
        /\ e <= Len(p) => p[e] \notin Letters \cup {"{", "}"}
     \/ /\ e \in (b + 4)..(Len(p) + 1)
        /\ p[b + 2] = "{" /\ p[e - 1] = "}"
        /\ \A k \in (b + 3)..(e - 2) : p[k] # "}"

\* An item from each place in B up to End, and text around them.  A % is text
\* only if another % follows it, which for its part begins an item or is text
\* for the same reason.  So %%d is the text % and the item %d, but %% and a%%b
\* split in no way: their last % begins no item.
Splits(p, B, End) ==
  /\ \A b \in B : Item(p, b, End[b])
  /\ \A b, c \in B : b < c => End[b] <= c
  /\ \A k \in 1..Len(p) : p[k] = "%" =>
       \/ \E b \in B : b <= k /\ k < End[b]
       \/ k + 1 <= Len(p) /\ p[k + 1] = "%"

WellFormed(p) ==
  \E B \in SUBSET {b \in 1..Len(p) : p[b] = "%"} :
    \E End \in [B -> 1..(Len(p) + 1)] : Splits(p, B, End)

\* init() reports an error for exactly the patterns that do not split into text
\* and items of known letters, wherever an item begins, closes or meets the
\* end of the pattern (Log.cpp:437-540).
AcceptsWellFormed == pc = "done" => (m_error <=> ~WellFormed(pattern))

\* init() comes to its end on every pattern, also after an unclosed {.
Terminates == <>(pc = "done")

\* The format every logger starts with is parsed without error.
DefaultAccepted == pc = "done" /\ pattern = DefaultPattern => ~m_error

\* The comment at Log.cpp:432 lists the forms of a pattern: %xxx, %xxx{xxx}
\* and %%.  The last of them alone is a pattern with no error.
EscapeAccepted == pc = "done" /\ pattern = <<"%", "%">> => ~m_error
=============================================================================
