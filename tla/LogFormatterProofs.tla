------------------------- MODULE LogFormatterProofs -------------------------
(***************************************************************************)
(* Proofs that init() stays inside the pattern and, when it reports no     *)
(* error, loses and reorders nothing; that it accepts exactly the patterns *)
(* that split into text and known items; and that the lines clients print  *)
(* through the items arrive whole.  For patterns of any length, any        *)
(* clients, targets and events.                                            *)
(***************************************************************************)
EXTENDS LogFormatterProperties, LogLine, SequenceTheorems, TLAPS

EntryType == [text: Seq(0..Size), fmt: Seq(0..Size), type: {0, 1}]

\* v and then t hold what is spelled out before hi, in order and complete.
ReadTo(v, t, hi) ==
  /\ Ordered(v) /\ Ascending(t)
  /\ \A p \in Placed(v), q \in Text(t) : p < q
  /\ \A p \in Placed(v) \cup Text(t) : p < hi
  /\ \A p \in 1..(hi - 1) : \/ p \in Placed(v) \cup Text(t)
                            \/ pattern[p] \in Delimiters

ReadSoFar ==
  /\ pc \in {"scan", "spec", "close"} /\ ~m_error => ReadTo(vec, nstr, i)
  /\ pc \in {"build", "done"} /\ ~m_error => ReadTo(vec, << >>, Size + 1)

\* What is pending between a % and the end of its item.
AtItem == pc \in {"spec", "close"} => pattern[i] = "%"
NameRead == pc = "spec" /\ fmt_status = 0 =>
  /\ fmt = << >>
  /\ str = IF n <= Size THEN << >> ELSE Substr(i + 1, n - 1)
FormatRead == pc = "spec" /\ fmt_status = 1 =>
  /\ fmt = << >>
  /\ fmt_begin \in (i + 1)..(n - 1) /\ pattern[fmt_begin] = "{"
  /\ n <= Size => str = Substr(i + 1, fmt_begin - 1)

\* An item read from the % at i up to n: %str, or %str{fmt}.
Spelled(s, f) ==
  \/ s = Substr(i + 1, n - 1) /\ f = << >>
  \/ \E b \in (i + 1)..(n - 2) :
       /\ pattern[b] = "{" /\ pattern[n - 1] = "}"
       /\ s = Substr(i + 1, b - 1) /\ f = Substr(b + 1, n - 2)
ItemRead == pc = "close" /\ fmt_status = 0 => Spelled(str, fmt)

FormatterInv ==
  TypeOK /\ AtItem /\ NameRead /\ FormatRead /\ ItemRead /\ ReadSoFar

-----------------------------------------------------------------------------
(* What the helpers return.                                                *)

\* A substring names its positions, in order.
LEMMA SubstrFacts ==
  ASSUME NEW S \in Nat, NEW a \in Int, NEW b \in Int,
         1 <= a, a <= b + 1, b <= S
  PROVE  /\ Substr(a, b) \in Seq(1..S)
         /\ Text(Substr(a, b)) = a..b
         /\ Ascending(Substr(a, b))
<1> DEFINE m == b - a + 1
           s == Substr(a, b)
<1>1. m \in Nat  OBVIOUS
<1>2. s = [k \in 1..m |-> a + k - 1]  BY DEF Substr
<1>3. \A k \in 1..m : a + k - 1 \in 1..S  BY <1>1
<1>4. s \in Seq(1..S) /\ DOMAIN s = 1..m
  <2>1. s \in [1..m -> 1..S]  BY <1>2, <1>3
  <2> QED  BY <1>1, <2>1, SeqDef
<1>5. Text(s) = a..b
  <2>1. \A k \in 1..m : s[k] \in a..b  BY <1>1, <1>2
  <2>2. \A p \in a..b : p - a + 1 \in 1..m /\ s[p - a + 1] = p
    BY <1>1, <1>2
  <2> QED  BY <1>4, <2>1, <2>2 DEF Text
<1>6. Ascending(s)
  <2>1. \A j, k \in 1..m : j < k => s[j] < s[k]  BY <1>1, <1>2
  <2> QED  BY <1>4, <2>1 DEF Ascending
<1> QED  BY <1>4, <1>5, <1>6

\* Appending an entry adds its positions; after all others it keeps the order.
LEMMA AppendEntry ==
  ASSUME NEW T, NEW v \in Seq(T), NEW e \in T
  PROVE  /\ Placed(Append(v, e)) = Placed(v) \cup Positions(e)
         /\ /\ Ordered(v) /\ Ascending(e.text) /\ Ascending(e.fmt)
            /\ \A p \in Placed(v), q \in Positions(e) : p < q
            => Ordered(Append(v, e))
<1> DEFINE w == Append(v, e)
           m == Len(v) + 1
<1>1. /\ w \in Seq(T) /\ Len(w) = m /\ m \in Nat
      /\ w[m] = e /\ \A k \in 1..(m - 1) : w[k] = v[k]
  BY AppendProperties, LenProperties
<1>2. DOMAIN v = 1..(m - 1) /\ DOMAIN w = 1..m  BY <1>1, LenProperties
<1>3. 1..m = (1..(m - 1)) \cup {m}  BY <1>1, LenProperties
<1>4. \A k \in 1..(m - 1) : Positions(v[k]) \subseteq Placed(v)
  BY <1>2 DEF Placed
<1>5. Placed(w) = Placed(v) \cup Positions(e)
  BY <1>1, <1>2, <1>3 DEF Placed
<1>6. ASSUME Ordered(v), Ascending(e.text), Ascending(e.fmt),
             \A p \in Placed(v), q \in Positions(e) : p < q
      PROVE  Ordered(w)
  <2>1. \A k \in 1..m : Ascending(w[k].text) /\ Ascending(w[k].fmt)
    BY <1>1, <1>2, <1>3, <1>6 DEF Ordered
  <2>2. ASSUME NEW j \in 1..m, NEW k \in 1..m, j < k
        PROVE  \A p \in Positions(w[j]), q \in Positions(w[k]) : p < q
    <3>1. j \in 1..(m - 1) /\ w[j] = v[j]  BY <1>1, <2>2
    <3>2. CASE k = m  BY <1>1, <1>4, <1>6, <3>1, <3>2
    <3>3. CASE k \in 1..(m - 1)
      BY <1>1, <1>2, <1>6, <2>2, <3>1, <3>3 DEF Ordered
    <3> QED  BY <1>3, <3>2, <3>3
  <2> QED  BY <1>2, <2>1, <2>2 DEF Ordered
<1> QED  BY <1>5, <1>6

\* Nothing is at no position.
LEMMA EmptyText == Text(<< >>) = {} /\ Ascending(<< >>) /\ Placed(<< >>) = {}
                   /\ Ordered(<< >>)
  BY DEF Text, Ascending, Placed, Ordered

\* What has been placed are positions.
LEMMA PlacedInt ==
  ASSUME Size \in Nat, NEW v \in Seq(EntryType)
  PROVE  Placed(v) \subseteq Int
<1>1. \A k \in DOMAIN v : v[k] \in EntryType
  BY ElementOfSeq, LenProperties
<1>2. \A e \in EntryType : Positions(e) \subseteq Int
  <2> TAKE e \in EntryType
  <2>1. e.text \in Seq(0..Size) /\ e.fmt \in Seq(0..Size)  BY DEF EntryType
  <2>2. /\ \A k \in DOMAIN e.text : e.text[k] \in 0..Size
        /\ \A k \in DOMAIN e.fmt : e.fmt[k] \in 0..Size
    BY <2>1, ElementOfSeq, LenProperties
  <2> QED  BY <2>2 DEF Positions, Text
<1> QED  BY <1>1, <1>2 DEF Placed
-----------------------------------------------------------------------------
(* What has been read grows by a character, a text and an item.            *)

\* Lengths and positions are numbers.
LEMMA Sizes == ASSUME TypeOK PROVE /\ Size \in Nat /\ pattern \in Seq(STRING)
                                   /\ i \in Int /\ n \in Int
<1>1. pattern \in Seq(STRING)  BY FormatterAssumption DEF TypeOK
<1>2. Size \in Nat  BY <1>1, LenProperties DEF Size
<1> QED  BY <1>1, <1>2 DEF TypeOK

\* Positions are among the positions and 0, which stands for no position.
LEMMA WiderSeq ==
  ASSUME NEW S \in Nat, NEW g \in Seq(1..S)
  PROVE  g \in Seq(0..S)
<1>1. g \in [1..Len(g) -> 1..S] /\ Len(g) \in Nat
  BY LenProperties, ElementOfSeq
<1>2. g \in [1..Len(g) -> 0..S]  BY <1>1
<1> QED  BY <1>1, <1>2, SeqDef

\* At the start nothing has been read.
LEMMA NothingRead == ReadTo(<< >>, << >>, 1)
  BY EmptyText DEF ReadTo

\* One more character of literal text.
LEMMA LiteralRead ==
  ASSUME TypeOK, i <= Size, ReadTo(vec, nstr, i)
  PROVE  ReadTo(vec, Append(nstr, i), i + 1)
<1> DEFINE longer == Append(nstr, i)
           m == Len(nstr) + 1
<1>1. nstr \in Seq(1..Size) /\ i \in 1..Size /\ Size \in Nat
  BY Sizes DEF TypeOK
<1>2. /\ Len(longer) = m /\ m \in Nat /\ longer \in Seq(1..Size)
      /\ longer[m] = i /\ \A k \in 1..(m - 1) : longer[k] = nstr[k]
  BY <1>1, AppendProperties, LenProperties
<1>3. DOMAIN nstr = 1..(m - 1) /\ DOMAIN longer = 1..m
  BY <1>1, <1>2, LenProperties
<1>4. Text(longer) = Text(nstr) \cup {i}
  <2>1. 1..m = (1..(m - 1)) \cup {m}  BY <1>2
  <2> QED  BY <1>2, <1>3, <2>1 DEF Text
<1>5. \A q \in Text(nstr) : q < i  BY DEF ReadTo
<1>6. Ascending(longer)
  <2> SUFFICES ASSUME NEW j \in 1..m, NEW k \in 1..m, j < k
               PROVE  longer[j] < longer[k]
    BY <1>3 DEF Ascending
  <2>1. j \in 1..(m - 1) /\ longer[j] = nstr[j] /\ nstr[j] \in Text(nstr)
    BY <1>2, <1>3 DEF Text
  <2>2. CASE k = m  BY <1>2, <1>5, <2>1, <2>2
  <2>3. CASE k # m
    <3>1. k \in 1..(m - 1) /\ longer[k] = nstr[k]  BY <1>2, <2>3
    <3> QED  BY <1>3, <2>1, <3>1 DEF ReadTo, Ascending
  <2> QED  BY <2>2, <2>3
<1>7. \A p \in Placed(vec), q \in Text(longer) : p < q
  BY <1>4 DEF ReadTo
<1>8. \A p \in Placed(vec) \cup Text(longer) : p < i + 1
  <2>1. Placed(vec) \subseteq Int
    BY <1>1, PlacedInt DEF TypeOK, EntryType
  <2>2. Text(nstr) \subseteq Int
    BY <1>1, ElementOfSeq, LenProperties DEF Text
  <2> QED  BY <1>1, <1>4, <2>1, <2>2 DEF ReadTo
<1>9. \A p \in 1..i : \/ p \in Placed(vec) \cup Text(longer)
                      \/ pattern[p] \in Delimiters
  <2>1. \A p \in 1..i : p \in 1..(i - 1) \/ p = i  BY <1>1
  <2> QED  BY <1>4, <2>1 DEF ReadTo
<1>10. Ordered(vec)  BY DEF ReadTo
<1> HIDE DEF longer
<1>11. ReadTo(vec, longer, i + 1)
  BY <1>1, <1>6, <1>7, <1>8, <1>9, <1>10 DEF ReadTo
<1> QED  BY <1>11 DEF longer

\* The pending text becomes an entry.
LEMMA FlushedRead ==
  ASSUME TypeOK
  PROVE  /\ Flushed \in Seq(EntryType)
         /\ \A h \in Int : ReadTo(vec, nstr, h) => ReadTo(Flushed, << >>, h)
<1> DEFINE e == Entry(nstr, << >>, 0)
<1>1. vec \in Seq(EntryType) /\ nstr \in Seq(1..Size) /\ Size \in Nat
  BY Sizes DEF TypeOK, EntryType
<1>2. CASE nstr = << >>  BY <1>1, <1>2 DEF Flushed
<1>3. CASE nstr # << >>
  <2>1. Flushed = Append(vec, e)  BY <1>3 DEF Flushed
  <2>2. e \in EntryType
    <3>1. nstr \in Seq(0..Size)
      BY <1>1, WiderSeq
    <3>2. << >> \in Seq(0..Size)  OBVIOUS
    <3> QED  BY <3>1, <3>2 DEF Entry, EntryType
  <2>3. /\ e.text = nstr /\ e.fmt = << >> /\ Positions(e) = Text(nstr)
    BY EmptyText DEF Entry, Positions
  <2>4. Append(vec, e) \in Seq(EntryType)
    BY <1>1, <2>2, AppendProperties
  <2>5. ASSUME NEW h \in Int, ReadTo(vec, nstr, h)
        PROVE  ReadTo(Append(vec, e), << >>, h)
    <3>1. Placed(Append(vec, e)) = Placed(vec) \cup Text(nstr)
      BY <1>1, <2>2, <2>3, AppendEntry
    <3>2. Ordered(Append(vec, e))
      BY <1>1, <2>2, <2>3, <2>5, AppendEntry, EmptyText DEF ReadTo
    <3> QED  BY <2>5, <3>1, <3>2, EmptyText DEF ReadTo
  <2> QED  BY <2>1, <2>4, <2>5
<1> QED  BY <1>2, <1>3

\* What an item spells out lies between its % and n, all of it.
LEMMA SpelledFacts ==
  ASSUME TypeOK, pc = "close", NEW s, NEW f, Spelled(s, f)
  PROVE  /\ s \in Seq(1..Size) /\ f \in Seq(1..Size)
         /\ Ascending(s) /\ Ascending(f)
         /\ \A p \in Text(s) \cup Text(f) : p \in Int /\ i < p /\ p < n
         /\ \A p \in (i + 1)..(n - 1) : \/ p \in Text(s) \cup Text(f)
                                       \/ pattern[p] \in Delimiters
<1>1. /\ Size \in Nat /\ i \in 1..Size /\ n \in (i + 1)..(Size + 1)
  BY Sizes DEF TypeOK
<1>2. CASE s = Substr(i + 1, n - 1) /\ f = << >>
  <2>1. /\ i + 1 \in Int /\ n - 1 \in Int
        /\ 1 <= i + 1 /\ i + 1 <= n - 1 + 1 /\ n - 1 <= Size
    BY <1>1
  <2>2. /\ s \in Seq(1..Size) /\ Text(s) = (i + 1)..(n - 1) /\ Ascending(s)
    BY <1>1, <1>2, <2>1, SubstrFacts
  <2> QED  BY <1>1, <1>2, <2>2, EmptyText
<1>3. ASSUME NEW b \in (i + 1)..(n - 2),
             pattern[b] = "{", pattern[n - 1] = "}",
             s = Substr(i + 1, b - 1), f = Substr(b + 1, n - 2)
      PROVE  /\ s \in Seq(1..Size) /\ f \in Seq(1..Size)
             /\ Ascending(s) /\ Ascending(f)
             /\ Text(s) = (i + 1)..(b - 1) /\ Text(f) = (b + 1)..(n - 2)
  <2>1. /\ i + 1 \in Int /\ b - 1 \in Int
        /\ 1 <= i + 1 /\ i + 1 <= b - 1 + 1 /\ b - 1 <= Size
    BY <1>1
  <2>2. /\ b + 1 \in Int /\ n - 2 \in Int
        /\ 1 <= b + 1 /\ b + 1 <= n - 2 + 1 /\ n - 2 <= Size
    BY <1>1
  <2>3. /\ Substr(i + 1, b - 1) \in Seq(1..Size)
        /\ Ascending(Substr(i + 1, b - 1))
        /\ Text(Substr(i + 1, b - 1)) = (i + 1)..(b - 1)
    BY <1>1, <2>1, SubstrFacts
  <2>4. /\ Substr(b + 1, n - 2) \in Seq(1..Size)
        /\ Ascending(Substr(b + 1, n - 2))
        /\ Text(Substr(b + 1, n - 2)) = (b + 1)..(n - 2)
    BY <1>1, <2>2, SubstrFacts
  <2> QED  BY <1>3, <2>3, <2>4
<1>4. CASE \E b \in (i + 1)..(n - 2) :
             /\ pattern[b] = "{" /\ pattern[n - 1] = "}"
             /\ s = Substr(i + 1, b - 1) /\ f = Substr(b + 1, n - 2)
  <2>1. PICK b \in (i + 1)..(n - 2) :
          /\ pattern[b] = "{" /\ pattern[n - 1] = "}"
          /\ s = Substr(i + 1, b - 1) /\ f = Substr(b + 1, n - 2)
    BY <1>4
  <2>2. /\ s \in Seq(1..Size) /\ f \in Seq(1..Size)
        /\ Ascending(s) /\ Ascending(f)
        /\ Text(s) = (i + 1)..(b - 1) /\ Text(f) = (b + 1)..(n - 2)
    BY <1>3, <2>1
  <2>3. \A p \in (i + 1)..(n - 1) :
          \/ p \in (i + 1)..(b - 1) \/ p \in (b + 1)..(n - 2)
          \/ p = b \/ p = n - 1
    BY <1>1
  <2>4. \A p \in Text(s) \cup Text(f) : p \in Int /\ i < p /\ p < n
    BY <1>1, <2>2
  <2>5. \A p \in (i + 1)..(n - 1) : \/ p \in Text(s) \cup Text(f)
                                   \/ pattern[p] \in Delimiters
    BY <2>1, <2>2, <2>3 DEF Delimiters
  <2> QED  BY <2>2, <2>4, <2>5
<1> QED  BY <1>2, <1>4 DEF Spelled

\* One more item.
LEMMA ItemAdded ==
  ASSUME TypeOK, pc = "close", AtItem, NEW s, NEW f, Spelled(s, f),
         NEW v \in Seq(EntryType)
  PROVE  /\ Append(v, Entry(s, f, 1)) \in Seq(EntryType)
         /\ ReadTo(v, << >>, i) => ReadTo(Append(v, Entry(s, f, 1)), << >>, n)
<1> DEFINE e == Entry(s, f, 1)
<1>1. /\ Size \in Nat /\ i \in 1..Size /\ n \in (i + 1)..(Size + 1)
  BY Sizes DEF TypeOK
<1>2. /\ e.text = s /\ e.fmt = f /\ Positions(e) = Text(s) \cup Text(f)
  BY DEF Entry, Positions
<1>3. e \in EntryType
  <2>1. s \in Seq(0..Size) /\ f \in Seq(0..Size)
    BY <1>1, SpelledFacts, WiderSeq
  <2> QED  BY <2>1 DEF Entry, EntryType
<1>4. Append(v, e) \in Seq(EntryType)  BY <1>3, AppendProperties
<1>5. ASSUME ReadTo(v, << >>, i) PROVE ReadTo(Append(v, e), << >>, n)
  <2>1. Placed(Append(v, e)) = Placed(v) \cup Positions(e)
    BY <1>3, AppendEntry
  <2>2. Placed(v) \subseteq Int  BY <1>1, PlacedInt
  <2>3. \A p \in Placed(v) : p < i  BY <1>5 DEF ReadTo
  <2>4. \A p \in Positions(e) : p \in Int /\ i < p /\ p < n
    BY <1>2, SpelledFacts
  <2>5. Ordered(Append(v, e))
    <3>1. \A p \in Placed(v), q \in Positions(e) : p < q
      BY <1>1, <2>2, <2>3, <2>4
    <3>2. Ordered(v) /\ Ascending(e.text) /\ Ascending(e.fmt)
      BY <1>2, <1>5, SpelledFacts DEF ReadTo
    <3> QED  BY <1>3, <3>1, <3>2, AppendEntry
  <2>6. \A p \in Placed(Append(v, e)) \cup Text(<< >>) : p < n
    BY <1>1, <2>1, <2>2, <2>3, <2>4, EmptyText
  <2>7. \A p \in 1..(n - 1) :
          \/ p \in Placed(Append(v, e)) \cup Text(<< >>)
          \/ pattern[p] \in Delimiters
    <3>1. \A p \in 1..(n - 1) :
            p \in 1..(i - 1) \/ p = i \/ p \in (i + 1)..(n - 1)
      BY <1>1
    <3>2. \A p \in 1..(i - 1) : \/ p \in Placed(v)
                                \/ pattern[p] \in Delimiters
      BY <1>5, EmptyText DEF ReadTo
    <3>3. pattern[i] \in Delimiters  BY DEF AtItem, Delimiters
    <3>4. \A p \in (i + 1)..(n - 1) : \/ p \in Positions(e)
                                     \/ pattern[p] \in Delimiters
      BY <1>2, SpelledFacts
    <3> QED  BY <2>1, <3>1, <3>2, <3>3, <3>4
  <2> QED  BY <2>5, <2>6, <2>7, EmptyText DEF ReadTo
<1> QED  BY <1>4, <1>5
-----------------------------------------------------------------------------
(* Every step keeps the invariant.                                         *)

\* The first state.
LEMMA InitInv == Init => FormatterInv
<1> SUFFICES ASSUME Init PROVE FormatterInv  OBVIOUS
<1>1. pattern \in Seq(STRING) /\ Size \in Nat
  BY FormatterAssumption, LenProperties DEF Init, Size
<1>2. << >> \in Seq(1..Size) /\ << >> \in Seq({"text", "item", "error_format"})
      /\ << >> \in Seq([text: Seq(0..Size), fmt: Seq(0..Size), type: {0, 1}])
  OBVIOUS
<1>3. TypeOK
  <2>1. i \in 1..(Size + 1) /\ n \in 1..(Size + 1) /\ fmt_begin \in 0..Size
    BY <1>1 DEF Init
  <2>2. vec \in Seq([text: Seq(0..Size), fmt: Seq(0..Size), type: {0, 1}])
    BY <1>2 DEF Init
  <2>3. /\ nstr \in Seq(1..Size) /\ str \in Seq(1..Size) /\ fmt \in Seq(1..Size)
        /\ items \in Seq({"text", "item", "error_format"})
    BY <1>2 DEF Init
  <2>4. pc = "scan" /\ fmt_status = 0 /\ m_error = FALSE /\ pattern \in Patterns
    BY DEF Init
  <2> QED  BY <2>1, <2>2, <2>3, <2>4 DEF TypeOK
<1>4. ReadSoFar  BY NothingRead DEF Init, ReadSoFar
<1> QED  BY <1>3, <1>4 DEF Init, FormatterInv, AtItem, NameRead, FormatRead,
                           ItemRead

\* A character of literal text.
LEMMA LiteralStep == FormatterInv /\ Literal => FormatterInv'
<1> SUFFICES ASSUME FormatterInv, Literal PROVE FormatterInv'  OBVIOUS
<1>1. TypeOK /\ ReadSoFar /\ Size \in Nat  BY Sizes DEF FormatterInv
<1>2. /\ pc = "scan" /\ pc' = pc /\ pattern' = pattern /\ i \in 1..Size
      /\ i' = i + 1 /\ nstr' = Append(nstr, i) /\ vec' = vec
      /\ m_error' = m_error /\ items' = items /\ n' = n
      /\ fmt_status' = fmt_status /\ fmt_begin' = fmt_begin
      /\ str' = str /\ fmt' = fmt
  BY <1>1 DEF Literal, TypeOK, spec
<1>3. Size' = Size  BY <1>2 DEF Size
<1>4. TypeOK'
  <2>1. nstr' \in Seq(1..Size)  BY <1>1, <1>2, AppendProperties DEF TypeOK
  <2> QED  BY <1>1, <1>2, <1>3, <2>1 DEF TypeOK
<1>5. ReadSoFar'
  <2>1. ~m_error => ReadTo(vec, Append(nstr, i), i + 1)
    BY <1>1, <1>2, LiteralRead DEF ReadSoFar
  <2> QED  BY <1>2, <2>1 DEF ReadSoFar, ReadTo
<1> QED  BY <1>2, <1>4, <1>5 DEF FormatterInv, AtItem, NameRead, FormatRead,
                                 ItemRead

\* The % of an item.
LEMMA BeginItemStep == FormatterInv /\ BeginItem => FormatterInv'
<1> SUFFICES ASSUME FormatterInv, BeginItem PROVE FormatterInv'  OBVIOUS
<1>1. TypeOK /\ ReadSoFar /\ Size \in Nat  BY Sizes DEF FormatterInv
<1>2. /\ pc = "scan" /\ pc' = "spec" /\ pattern' = pattern /\ i \in 1..Size
      /\ pattern[i] = "%" /\ i' = i /\ nstr' = nstr /\ vec' = vec
      /\ m_error' = m_error /\ items' = items /\ n' = i + 1
      /\ fmt_status' = 0 /\ fmt_begin' = 0 /\ str' = << >> /\ fmt' = << >>
  BY <1>1 DEF BeginItem, Percent, TypeOK
<1>3. Size' = Size  BY <1>2 DEF Size
<1>4. TypeOK'  BY <1>1, <1>2, <1>3 DEF TypeOK
<1>5. ReadSoFar'
  <2>1. ~m_error => ReadTo(vec, nstr, i)  BY <1>1, <1>2 DEF ReadSoFar
  <2> QED  BY <1>2, <2>1 DEF ReadSoFar, ReadTo
<1>6. NameRead'
  <2>1. ~(n' <= Size') => Substr(i' + 1, n' - 1) = << >>
    BY <1>2 DEF Substr
  <2> QED  BY <1>2, <2>1 DEF NameRead
<1> QED  BY <1>2, <1>4, <1>5, <1>6 DEF FormatterInv, AtItem, FormatRead,
                                       ItemRead

\* The end of a name.
LEMMA StopNameStep == FormatterInv /\ StopName => FormatterInv'
<1> SUFFICES ASSUME FormatterInv, StopName PROVE FormatterInv'  OBVIOUS
<1>1. TypeOK /\ AtItem /\ NameRead /\ ReadSoFar /\ Size \in Nat
  BY Sizes DEF FormatterInv
<1>2. /\ pc = "spec" /\ pc' = "close" /\ pattern' = pattern /\ n <= Size
      /\ fmt_status = 0 /\ i' = i /\ n' = n /\ nstr' = nstr /\ vec' = vec
      /\ m_error' = m_error /\ items' = items /\ fmt_status' = fmt_status
      /\ fmt_begin' = fmt_begin /\ str' = Substr(i + 1, n - 1) /\ fmt' = fmt
  BY DEF StopName, Scanning, EndsName
<1>3. Size' = Size  BY <1>2 DEF Size
<1>4. TypeOK'
  <2>1. str' \in Seq(1..Size)
    <3>1. /\ i + 1 \in Int /\ n - 1 \in Int
          /\ 1 <= i + 1 /\ i + 1 <= n - 1 + 1 /\ n - 1 <= Size
      BY <1>1, <1>2 DEF TypeOK
    <3> QED  BY <1>1, <1>2, <3>1, SubstrFacts
  <2> QED  BY <1>1, <1>2, <1>3, <2>1 DEF TypeOK
<1>5. ReadSoFar'
  <2>1. ~m_error => ReadTo(vec, nstr, i)  BY <1>1, <1>2 DEF ReadSoFar
  <2> QED  BY <1>2, <2>1 DEF ReadSoFar, ReadTo
<1>6. ItemRead'
  <2>1. fmt = << >>  BY <1>1, <1>2 DEF NameRead
  <2> QED  BY <1>2, <2>1 DEF ItemRead, Spelled
<1>7. AtItem'  BY <1>1, <1>2 DEF AtItem
<1> QED  BY <1>2, <1>4, <1>5, <1>6, <1>7 DEF FormatterInv, NameRead, FormatRead

\* The { of a format.
LEMMA OpenFormatStep == FormatterInv /\ OpenFormat => FormatterInv'
<1> SUFFICES ASSUME FormatterInv, OpenFormat PROVE FormatterInv'  OBVIOUS
<1>1. TypeOK /\ AtItem /\ NameRead /\ ReadSoFar /\ Size \in Nat
  BY Sizes DEF FormatterInv
<1>2. /\ pc = "spec" /\ pc' = "spec" /\ pattern' = pattern /\ n <= Size
      /\ fmt_status = 0 /\ i' = i /\ n' = n + 1 /\ nstr' = nstr /\ vec' = vec
      /\ m_error' = m_error /\ items' = items /\ fmt_status' = 1
      /\ fmt_begin' = n /\ str' = Substr(i + 1, n - 1) /\ fmt' = fmt
  BY DEF OpenFormat, Scanning, OpensFormat
<1>3. Size' = Size  BY <1>2 DEF Size
<1>4. pattern[n] = "{"  BY DEF OpenFormat, OpensFormat
<1>5. TypeOK'
  <2>1. str' \in Seq(1..Size)
    <3>1. /\ i + 1 \in Int /\ n - 1 \in Int
          /\ 1 <= i + 1 /\ i + 1 <= n - 1 + 1 /\ n - 1 <= Size
      BY <1>1, <1>2 DEF TypeOK
    <3> QED  BY <1>1, <1>2, <3>1, SubstrFacts
  <2>2. /\ n' \in 1..(Size + 1) /\ i' < n' /\ i' <= Size
        /\ fmt_begin' \in 0..Size
    BY <1>1, <1>2 DEF TypeOK
  <2> QED  BY <1>1, <1>2, <1>3, <2>1, <2>2 DEF TypeOK
<1>6. ReadSoFar'
  <2>1. ~m_error => ReadTo(vec, nstr, i)  BY <1>1, <1>2 DEF ReadSoFar
  <2> QED  BY <1>2, <2>1 DEF ReadSoFar, ReadTo
<1>7. FormatRead'
  <2>1. fmt = << >>  BY <1>1, <1>2 DEF NameRead
  <2>2. n \in (i + 1)..(n' - 1)  BY <1>1, <1>2 DEF TypeOK
  <2>3. /\ fmt' = << >> /\ fmt_begin' \in (i' + 1)..(n' - 1)
        /\ str' = Substr(i' + 1, fmt_begin' - 1)
    BY <1>2, <2>1, <2>2
  <2>4. pattern'[fmt_begin'] = "{"  BY <1>2, <1>4
  <2> QED  BY <2>3, <2>4 DEF FormatRead
<1>8. AtItem'  BY <1>1, <1>2 DEF AtItem
<1> QED  BY <1>2, <1>5, <1>6, <1>7, <1>8 DEF FormatterInv, NameRead, ItemRead

\* The } of a format.
LEMMA CloseFormatStep == FormatterInv /\ CloseFormat => FormatterInv'
<1> SUFFICES ASSUME FormatterInv, CloseFormat PROVE FormatterInv'  OBVIOUS
<1>1. TypeOK /\ AtItem /\ FormatRead /\ ReadSoFar /\ Size \in Nat
  BY Sizes DEF FormatterInv
<1>2. /\ pc = "spec" /\ pc' = "close" /\ pattern' = pattern /\ n <= Size
      /\ fmt_status = 1 /\ i' = i /\ n' = n + 1 /\ nstr' = nstr /\ vec' = vec
      /\ m_error' = m_error /\ items' = items /\ fmt_status' = 0
      /\ fmt_begin' = fmt_begin /\ fmt' = Substr(fmt_begin + 1, n - 1)
      /\ str' = str
  BY DEF CloseFormat, Scanning, ClosesFormat
<1>3. Size' = Size  BY <1>2 DEF Size
<1>4. /\ fmt_begin \in (i + 1)..(n - 1)
      /\ str = Substr(i + 1, fmt_begin - 1)
  BY <1>1, <1>2 DEF FormatRead
<1>5. pattern[fmt_begin] = "{" /\ pattern[n] = "}"
  BY <1>1, <1>2 DEF FormatRead, CloseFormat, ClosesFormat
<1>6. i \in 1..Size /\ n \in 1..Size  BY <1>1, <1>2 DEF TypeOK
<1>7. TypeOK'
  <2>1. fmt' \in Seq(1..Size)
    <3>1. /\ fmt_begin + 1 \in Int /\ n - 1 \in Int
          /\ 1 <= fmt_begin + 1 /\ fmt_begin + 1 <= n - 1 + 1 /\ n - 1 <= Size
      BY <1>1, <1>4, <1>6
    <3> QED  BY <1>1, <1>2, <3>1, SubstrFacts
  <2>2. n' \in 1..(Size + 1) /\ i' < n' /\ i' <= Size
    BY <1>1, <1>2 DEF TypeOK
  <2> QED  BY <1>1, <1>2, <1>3, <2>1, <2>2 DEF TypeOK
<1>8. ReadSoFar'
  <2>1. ~m_error => ReadTo(vec, nstr, i)  BY <1>1, <1>2 DEF ReadSoFar
  <2> QED  BY <1>2, <2>1 DEF ReadSoFar, ReadTo
<1>9. ItemRead'
  <2>1. fmt_begin \in (i' + 1)..(n' - 2)  BY <1>2, <1>4, <1>6
  <2>2. n' - 1 = n /\ n' - 2 = n - 1  BY <1>2, <1>6
  <2>3. /\ pattern'[fmt_begin] = "{" /\ pattern'[n' - 1] = "}"
        /\ str' = Substr(i' + 1, fmt_begin - 1)
        /\ fmt' = Substr(fmt_begin + 1, n' - 2)
    BY <1>2, <1>4, <1>5, <2>2
  <2> QED  BY <2>1, <2>3 DEF ItemRead, Spelled
<1>10. AtItem'  BY <1>1, <1>2 DEF AtItem
<1> QED  BY <1>2, <1>7, <1>8, <1>9, <1>10 DEF FormatterInv, NameRead, FormatRead

\* Any other character.
LEMMA NextCharStep == FormatterInv /\ NextChar => FormatterInv'
<1> SUFFICES ASSUME FormatterInv, NextChar PROVE FormatterInv'  OBVIOUS
<1>1. /\ TypeOK /\ AtItem /\ NameRead /\ FormatRead /\ ReadSoFar
      /\ Size \in Nat
  BY Sizes DEF FormatterInv
<1>2. /\ pc = "spec" /\ pc' = pc /\ pattern' = pattern /\ n <= Size
      /\ i' = i /\ n' = n + 1 /\ nstr' = nstr /\ vec' = vec
      /\ m_error' = m_error /\ items' = items /\ fmt_status' = fmt_status
      /\ fmt_begin' = fmt_begin /\ fmt' = fmt
  BY DEF NextChar, Scanning
<1>3. str' = IF n = Size /\ str = << >> THEN Substr(i + 1, Size) ELSE str
  BY DEF NextChar, Scanning
<1>4. Size' = Size  BY <1>2 DEF Size
<1>5. i \in 1..Size /\ n \in (i + 1)..Size /\ fmt_status \in {0, 1}
  BY <1>1, <1>2 DEF TypeOK
<1>6. TypeOK'
  <2>1. Substr(i + 1, Size) \in Seq(1..Size)
    <3>1. /\ i + 1 \in Int /\ Size \in Int
          /\ 1 <= i + 1 /\ i + 1 <= Size + 1 /\ Size <= Size
      BY <1>1, <1>5
    <3> QED  BY <1>1, <3>1, SubstrFacts
  <2>2. str' \in Seq(1..Size)  BY <1>1, <1>3, <2>1 DEF TypeOK
  <2>3. n' \in 1..(Size + 1) /\ i' < n' /\ i' <= Size
    BY <1>1, <1>2, <1>5
  <2> QED  BY <1>1, <1>2, <1>4, <2>2, <2>3 DEF TypeOK
<1>7. ReadSoFar'
  <2>1. ~m_error => ReadTo(vec, nstr, i)  BY <1>1, <1>2 DEF ReadSoFar
  <2> QED  BY <1>2, <2>1 DEF ReadSoFar, ReadTo
<1>8. NameRead'
  <2> SUFFICES ASSUME fmt_status = 0
               PROVE  /\ fmt = << >>
                      /\ str' = IF n' <= Size THEN << >>
                                ELSE Substr(i + 1, n' - 1)
    BY <1>2, <1>4 DEF NameRead
  <2>1. fmt = << >> /\ str = << >>  BY <1>1, <1>2 DEF NameRead
  <2>2. CASE n = Size
    <3>1. str' = Substr(i + 1, n)  BY <1>3, <2>1, <2>2
    <3>2. ~(n' <= Size) /\ n' - 1 = n  BY <1>1, <1>2, <1>5, <2>2
    <3> QED  BY <2>1, <3>1, <3>2
  <2>3. CASE n # Size
    <3>1. str' = << >>  BY <1>3, <2>1, <2>3
    <3>2. n' <= Size  BY <1>1, <1>2, <1>5, <2>3
    <3> QED  BY <2>1, <3>1, <3>2
  <2> QED  BY <2>2, <2>3
<1>9. FormatRead'
  <2> SUFFICES ASSUME fmt_status = 1
               PROVE  /\ fmt = << >>
                      /\ fmt_begin \in (i + 1)..(n' - 1)
                      /\ pattern[fmt_begin] = "{"
                      /\ n' <= Size => str' = Substr(i + 1, fmt_begin - 1)
    BY <1>2, <1>4 DEF FormatRead
  <2>1. /\ fmt = << >> /\ fmt_begin \in (i + 1)..(n - 1)
        /\ str = Substr(i + 1, fmt_begin - 1)
    BY <1>1, <1>2 DEF FormatRead
  <2>2. pattern[fmt_begin] = "{"  BY <1>1, <1>2 DEF FormatRead
  <2>3. fmt_begin \in (i + 1)..(n' - 1)  BY <1>2, <1>5, <2>1
  <2>4. n' <= Size => n # Size  BY <1>1, <1>2, <1>5
  <2> QED  BY <1>3, <2>1, <2>2, <2>3, <2>4
<1>10. AtItem'  BY <1>1, <1>2 DEF AtItem
<1> QED  BY <1>2, <1>6, <1>7, <1>8, <1>9, <1>10 DEF FormatterInv, ItemRead

\* The end of the pattern inside an item.
LEMMA NoMoreStep == FormatterInv /\ NoMore => FormatterInv'
<1> SUFFICES ASSUME FormatterInv, NoMore PROVE FormatterInv'  OBVIOUS
<1>1. TypeOK /\ AtItem /\ NameRead /\ ReadSoFar /\ Size \in Nat
  BY Sizes DEF FormatterInv
<1>2. /\ pc = "spec" /\ pc' = "close" /\ pattern' = pattern /\ n > Size
      /\ i' = i /\ n' = n /\ nstr' = nstr /\ vec' = vec
      /\ m_error' = m_error /\ items' = items /\ fmt_status' = fmt_status
      /\ fmt_begin' = fmt_begin /\ fmt' = fmt /\ str' = str
  BY DEF NoMore, spec
<1>3. Size' = Size  BY <1>2 DEF Size
<1>4. TypeOK'  BY <1>1, <1>2, <1>3 DEF TypeOK
<1>5. ReadSoFar'
  <2>1. ~m_error => ReadTo(vec, nstr, i)  BY <1>1, <1>2 DEF ReadSoFar
  <2> QED  BY <1>2, <2>1 DEF ReadSoFar, ReadTo
<1>6. ItemRead'
  <2>1. n \in Int /\ ~(n <= Size)  BY <1>1, <1>2, Sizes
  <2>2. fmt_status = 0 => fmt = << >> /\ str = Substr(i + 1, n - 1)
    BY <1>1, <1>2, <2>1 DEF NameRead
  <2> QED  BY <1>2, <2>2 DEF ItemRead, Spelled
<1>7. AtItem'  BY <1>1, <1>2 DEF AtItem
<1> QED  BY <1>2, <1>4, <1>5, <1>6, <1>7 DEF FormatterInv, NameRead, FormatRead

\* A whole item.
LEMMA CloseItemStep == FormatterInv /\ CloseItem => FormatterInv'
<1> SUFFICES ASSUME FormatterInv, CloseItem PROVE FormatterInv'  OBVIOUS
<1>1. TypeOK /\ AtItem /\ ItemRead /\ ReadSoFar /\ Size \in Nat
  BY Sizes DEF FormatterInv
<1>2. /\ pc = "close" /\ pc' = "scan" /\ pattern' = pattern
      /\ fmt_status = 0 /\ i' = n /\ n' = n /\ nstr' = << >>
      /\ vec' = Append(Flushed, Entry(str, fmt, 1))
      /\ m_error' = m_error /\ items' = items /\ fmt_status' = fmt_status
      /\ fmt_begin' = fmt_begin /\ fmt' = fmt /\ str' = str
  BY DEF CloseItem, spec
<1>3. Size' = Size  BY <1>2 DEF Size
<1>4. Spelled(str, fmt)  BY <1>1, <1>2 DEF ItemRead
<1>5. /\ Flushed \in Seq(EntryType)
      /\ ReadTo(vec, nstr, i) => ReadTo(Flushed, << >>, i)
  BY <1>1, FlushedRead, Sizes
<1>6. /\ vec' \in Seq(EntryType)
      /\ ReadTo(Flushed, << >>, i) => ReadTo(vec', << >>, n)
  BY <1>1, <1>2, <1>4, <1>5, ItemAdded
<1>7. TypeOK'
  <2>1. vec' \in Seq([text: Seq(0..Size'), fmt: Seq(0..Size'), type: {0, 1}])
    BY <1>3, <1>6 DEF EntryType
  <2>2. nstr' \in Seq(1..Size')  BY <1>2
  <2> QED  BY <1>1, <1>2, <1>3, <2>1, <2>2 DEF TypeOK
<1>8. ReadSoFar'
  <2>1. ~m_error => ReadTo(vec', << >>, n)
    BY <1>1, <1>2, <1>5, <1>6 DEF ReadSoFar
  <2> QED  BY <1>2, <2>1 DEF ReadSoFar, ReadTo
<1> QED  BY <1>2, <1>7, <1>8 DEF FormatterInv, AtItem, NameRead, FormatRead,
                                 ItemRead

\* An item without its }.
LEMMA CloseErrorStep == FormatterInv /\ CloseError => FormatterInv'
<1> SUFFICES ASSUME FormatterInv, CloseError PROVE FormatterInv'  OBVIOUS
<1>1. TypeOK /\ Size \in Nat  BY Sizes DEF FormatterInv
<1>2. /\ pc = "close" /\ pc' = "scan" /\ pattern' = pattern
      /\ i' = i + 1 /\ n' = n /\ nstr' = nstr
      /\ vec' = Append(vec, PatternError)
      /\ m_error' = TRUE /\ items' = items /\ fmt_status' = fmt_status
      /\ fmt_begin' = fmt_begin /\ fmt' = fmt /\ str' = str
  BY DEF CloseError, spec
<1>3. Size' = Size  BY <1>2 DEF Size
<1>4. TypeOK'
  <2>1. vec \in Seq(EntryType)  BY <1>1 DEF TypeOK, EntryType
  <2>2. PatternError \in EntryType
    BY <1>1 DEF PatternError, Entry, EntryType
  <2>3. Append(vec, PatternError) \in Seq(EntryType)
    BY <2>1, <2>2, AppendProperties
  <2>4. vec' \in Seq([text: Seq(0..Size'), fmt: Seq(0..Size'), type: {0, 1}])
    BY <1>2, <1>3, <2>3 DEF EntryType
  <2>5. i' \in 1..(Size + 1)  BY <1>1, <1>2 DEF TypeOK
  <2> QED  BY <1>1, <1>2, <1>3, <2>4, <2>5 DEF TypeOK
<1> QED  BY <1>2, <1>4 DEF FormatterInv, AtItem, NameRead, FormatRead,
                           ItemRead, ReadSoFar

\* The end of the pattern.
LEMMA AtEndStep == FormatterInv /\ AtEnd => FormatterInv'
<1> SUFFICES ASSUME FormatterInv, AtEnd PROVE FormatterInv'  OBVIOUS
<1>1. TypeOK /\ ReadSoFar /\ Size \in Nat  BY Sizes DEF FormatterInv
<1>2. /\ pc = "scan" /\ pc' = "build" /\ pattern' = pattern /\ i > Size
      /\ i' = i /\ n' = n /\ nstr' = nstr /\ vec' = Flushed
      /\ m_error' = m_error /\ items' = items /\ fmt_status' = fmt_status
      /\ fmt_begin' = fmt_begin /\ fmt' = fmt /\ str' = str
  BY DEF AtEnd, spec
<1>3. Size' = Size  BY <1>2 DEF Size
<1>4. i = Size + 1 /\ i \in Int  BY <1>1, <1>2 DEF TypeOK
<1>5. /\ vec' \in Seq(EntryType)
      /\ ReadTo(vec, nstr, Size + 1) => ReadTo(vec', << >>, Size + 1)
  BY <1>1, <1>2, <1>4, FlushedRead
<1>6. TypeOK'
  <2>1. vec' \in Seq([text: Seq(0..Size'), fmt: Seq(0..Size'), type: {0, 1}])
    BY <1>3, <1>5 DEF EntryType
  <2> QED  BY <1>1, <1>2, <1>3, <2>1 DEF TypeOK
<1>7. ReadSoFar'
  <2>1. ~m_error => ReadTo(vec', << >>, Size + 1)
    BY <1>1, <1>2, <1>4, <1>5 DEF ReadSoFar
  <2> QED  BY <1>2, <1>3, <2>1 DEF ReadSoFar, ReadTo
<1> QED  BY <1>2, <1>6, <1>7 DEF FormatterInv, AtItem, NameRead, FormatRead,
                                 ItemRead

\* The items, one for each entry.
LEMMA BuildItemsStep == FormatterInv /\ BuildItems => FormatterInv'
<1> SUFFICES ASSUME FormatterInv, BuildItems PROVE FormatterInv'  OBVIOUS
<1>1. TypeOK /\ ReadSoFar /\ Size \in Nat  BY Sizes DEF FormatterInv
<1>2. /\ pc = "build" /\ pc' = "done" /\ pattern' = pattern
      /\ i' = i /\ n' = n /\ nstr' = nstr /\ vec' = vec
      /\ fmt_status' = fmt_status
      /\ fmt_begin' = fmt_begin /\ fmt' = fmt /\ str' = str
      /\ items' = [k \in DOMAIN vec |-> ItemFor(vec[k])]
  BY DEF BuildItems, spec
<1>3. Size' = Size  BY <1>2 DEF Size
<1>4. m_error' \in BOOLEAN /\ (~m_error' => ~m_error)
  BY <1>1 DEF BuildItems, TypeOK
<1>5. items' \in Seq({"text", "item", "error_format"})
  <2>1. DOMAIN vec = 1..Len(vec) /\ Len(vec) \in Nat
    BY <1>1, LenProperties DEF TypeOK
  <2>2. \A k \in DOMAIN vec :
          ItemFor(vec[k]) \in {"text", "item", "error_format"}
    <3> TAKE k \in DOMAIN vec
    <3>1. CASE vec[k].type = 0  BY <3>1 DEF ItemFor
    <3>2. CASE vec[k].type # 0  BY <3>2 DEF ItemFor
    <3> QED  BY <3>1, <3>2
  <2>3. items' \in [1..Len(vec) -> {"text", "item", "error_format"}]
    BY <1>2, <2>1, <2>2
  <2> QED  BY <2>1, <2>3, SeqDef
<1>6. TypeOK'  BY <1>1, <1>2, <1>3, <1>4, <1>5 DEF TypeOK
<1>7. ReadSoFar'
  <2>1. ~m_error' => ReadTo(vec, << >>, Size + 1)
    BY <1>1, <1>2, <1>4 DEF ReadSoFar
  <2> QED  BY <1>2, <1>3, <2>1 DEF ReadSoFar, ReadTo
<1> QED  BY <1>2, <1>6, <1>7 DEF FormatterInv, AtItem, NameRead, FormatRead,
                                 ItemRead

\* Any step of init(), and no step.
LEMMA StepInv == FormatterInv /\ [Next]_vars => FormatterInv'
<1> SUFFICES ASSUME FormatterInv, [Next]_vars PROVE FormatterInv'  OBVIOUS
<1>1. CASE Parse
  BY <1>1, LiteralStep, BeginItemStep, StopNameStep, OpenFormatStep,
     CloseFormatStep, NextCharStep, NoMoreStep, CloseItemStep, CloseErrorStep,
     AtEndStep, BuildItemsStep DEF Parse
<1>2. CASE UNCHANGED vars
  <2>1. /\ pc' = pc /\ pattern' = pattern
        /\ i' = i /\ n' = n /\ nstr' = nstr /\ vec' = vec
        /\ fmt_status' = fmt_status /\ m_error' = m_error /\ items' = items
        /\ fmt_begin' = fmt_begin /\ fmt' = fmt /\ str' = str
    BY <1>2 DEF vars
  <2>2. Size' = Size  BY <2>1 DEF Size
  <2>3. TypeOK'  BY <2>1, <2>2 DEF FormatterInv, TypeOK
  <2>4. ReadSoFar'  BY <2>1, <2>2 DEF FormatterInv, ReadSoFar, ReadTo
  <2>5. ItemRead'  BY <2>1 DEF FormatterInv, ItemRead, Spelled
  <2>6. NameRead' /\ FormatRead'
    BY <2>1, <2>2 DEF FormatterInv, NameRead, FormatRead
  <2>7. AtItem'  BY <2>1 DEF FormatterInv, AtItem
  <2> QED  BY <2>3, <2>4, <2>5, <2>6, <2>7 DEF FormatterInv
<1> QED  BY <1>1, <1>2 DEF Next, Finished

-----------------------------------------------------------------------------
(* The theorems.                                                           *)

\* init() never reads past the pattern, however it ends: Log.cpp:437-500.
THEOREM InsidePattern == Spec => []TypeOK
<1>1. FormatterInv => TypeOK  BY DEF FormatterInv
<1> QED  BY InitInv, StepInv, <1>1, PTL DEF Spec

\* The items of a pattern parsed without error stand in its order.
THEOREM ParsedInOrder == Spec => []InOrder
<1>1. FormatterInv => InOrder
  BY DEF FormatterInv, InOrder, ReadSoFar, ReadTo
<1> QED  BY InitInv, StepInv, <1>1, PTL DEF Spec

\* ... and hold all of it but the marks of an item.
THEOREM ParsedWhole == Spec => []NothingLost
<1>1. FormatterInv => NothingLost
  <2> SUFFICES ASSUME FormatterInv, pc = "done", ~m_error
               PROVE  \A p \in 1..Size : \/ p \in Placed(vec)
                                        \/ pattern[p] \in Delimiters
    BY DEF NothingLost
  <2>1. ReadTo(vec, << >>, Size + 1) /\ Size \in Nat
    BY Sizes DEF FormatterInv, ReadSoFar
  <2>2. Size + 1 - 1 = Size  BY <2>1
  <2> QED  BY <2>1, <2>2, EmptyText DEF ReadTo
<1> QED  BY InitInv, StepInv, <1>1, PTL DEF Spec

-----------------------------------------------------------------------------
(* Lines arrive whole on streams of their own.                             *)

\* No two targets print on one stream.
OwnStreamEach == \A a, b \in TargetSet : StreamOf[a] = StreamOf[b] => a = b

\* Client c's line stands in s, unbroken.
WholeIn(s, c) ==
  \E start \in 0..Len(s) :
    /\ start + Len(items) <= Len(s)
    /\ \A k \in DOMAIN items : s[start + k] = Printed(c, k)

\* The first m items of client c's line end s.
EndsWith(s, c, m) ==
  m <= Len(s) /\ \A k \in 1..m : s[Len(s) - m + k] = Printed(c, k)

LineTypeOK ==
  /\ content \in [Clients -> Seq(Pieces)]
  /\ lpc \in [Clients -> {"write", "log", "print", "end"}]
  /\ target \in [Clients -> Nat \ {0}]
  /\ at \in [Clients -> Nat \ {0}]
  /\ holder \in [TargetSet -> Clients \cup {None}]
StreamsOK ==
  /\ stream = [s \in Streams |-> stream[s]]
  /\ \A s \in Streams : \E S : stream[s] \in Seq(S)

\* A client prints at a target it holds, after the items it has printed there,
\* and its line is whole at every target before it.
Prints(c) ==
  /\ target[c] \in DOMAIN Targets /\ holder[Here(c)] = c
  /\ at[c] <= Len(items) + 1
  /\ EndsWith(stream[StreamOf[Here(c)]], c, at[c] - 1)
ClientOK(c) ==
  /\ IF lpc[c] = "write" THEN target[c] = 1 ELSE pc = "done"
  /\ lpc[c] \in {"write", "log"} => at[c] = 1
  /\ lpc[c] = "print" => Prints(c)
  /\ lpc[c] = "end" => target[c] \notin DOMAIN Targets
  /\ lpc[c] # "write" => \A j \in DOMAIN Targets : j < target[c] =>
       WholeIn(stream[StreamOf[Targets[j]]], c)
LinesInv == \A c \in Clients : ClientOK(c)
LineInv == FormatterInv /\ LineTypeOK /\ StreamsOK /\ LinesInv

LEMMA ItemsSeq ==
  ASSUME FormatterInv
  PROVE  DOMAIN items = 1..Len(items) /\ Len(items) \in Nat
<1>1. items \in Seq({"text", "item", "error_format"})
  BY DEF FormatterInv, TypeOK
<1> QED  BY <1>1, LenProperties

\* The streams and targets a client works with.
LEMMA HereType ==
  ASSUME LineInv, NEW c \in Clients, target[c] \in DOMAIN Targets
  PROVE  Here(c) \in TargetSet /\ StreamOf[Here(c)] \in Streams
BY DEF Here, TargetSet, Streams

LEMMA StreamLen ==
  ASSUME StreamsOK, NEW s \in Streams
  PROVE  Len(stream[s]) \in Nat
BY LenProperties DEF StreamsOK

\* One more item on a stream: what was whole stays whole, and what ended the
\* stream is followed by the item.
LEMMA AppendItem ==
  ASSUME NEW T, NEW q \in Seq(T), NEW e
  PROVE  /\ \E U : Append(q, e) \in Seq(U)
         /\ Len(q) \in Nat /\ Len(Append(q, e)) = Len(q) + 1
         /\ Append(q, e)[Len(q) + 1] = e
         /\ \A k \in 1..Len(q) : Append(q, e)[k] = q[k]
<1>1. q \in Seq(T \cup {e})
  BY SeqMonotonic
<1> QED  BY <1>1, LenProperties

LEMMA AppendKeeps ==
  ASSUME FormatterInv, NEW T, NEW q \in Seq(T), NEW e, NEW c
  PROVE  /\ WholeIn(q, c) => WholeIn(Append(q, e), c)
         /\ \A m \in Nat : EndsWith(q, c, m) /\ e = Printed(c, m + 1)
                             => EndsWith(Append(q, e), c, m + 1)
<1> DEFINE r == Append(q, e)
<1>1. /\ Len(q) \in Nat /\ Len(r) = Len(q) + 1
      /\ r[Len(q) + 1] = e
      /\ \A k \in 1..Len(q) : r[k] = q[k]
  BY AppendItem
<1>2. DOMAIN items = 1..Len(items) /\ Len(items) \in Nat
  BY ItemsSeq
<1> HIDE DEF r
<1>3. ASSUME WholeIn(q, c) PROVE WholeIn(r, c)
  <2>1. PICK start \in 0..Len(q) :
          /\ start + Len(items) <= Len(q)
          /\ \A k \in DOMAIN items : q[start + k] = Printed(c, k)
    BY <1>3 DEF WholeIn
  <2>2. start \in 0..Len(r) /\ start + Len(items) <= Len(r)
    BY <1>1, <1>2, <2>1
  <2>3. \A k \in DOMAIN items : start + k \in 1..Len(q)
    BY <1>1, <1>2, <2>1
  <2>4. \A k \in DOMAIN items : r[start + k] = Printed(c, k)
    BY <1>1, <2>1, <2>3
  <2> QED  BY <2>2, <2>4 DEF WholeIn
<1>4. ASSUME NEW m \in Nat, EndsWith(q, c, m), e = Printed(c, m + 1)
      PROVE  EndsWith(r, c, m + 1)
  <2>1. m <= Len(q) /\ \A k \in 1..m : q[Len(q) - m + k] = Printed(c, k)
    BY <1>4 DEF EndsWith
  <2>2. Len(r) - (m + 1) = Len(q) - m
    BY <1>1
  <2>3. \A k \in 1..m : Len(q) - m + k \in 1..Len(q)
    BY <1>1, <2>1
  <2>4. \A k \in 1..m : r[Len(r) - (m + 1) + k] = Printed(c, k)
    BY <1>1, <2>1, <2>2, <2>3
  <2>5. r[Len(r) - (m + 1) + (m + 1)] = Printed(c, m + 1)
    BY <1>1, <1>4
  <2>6. \A k \in 1..(m + 1) : k \in 1..m \/ k = m + 1
    OBVIOUS
  <2> QED  BY <1>1, <2>1, <2>4, <2>5, <2>6 DEF EndsWith
<1> QED  BY <1>3, <1>4 DEF r

\* A client whose event, streams and place stay as they are.
Undisturbed(c) ==
  /\ UNCHANGED <<items, vec, pattern, pc>>
  /\ lpc'[c] = lpc[c] /\ target'[c] = target[c] /\ at'[c] = at[c]
  /\ content'[c] = content[c]

LEMMA PrintedSame ==
  ASSUME NEW c, UNCHANGED <<items, vec, pattern>>, content'[c] = content[c]
  PROVE  \A k : Printed(c, k)' = Printed(c, k)
BY DEF Printed, Event

LEMMA WholeSame ==
  ASSUME NEW c, UNCHANGED <<items, vec, pattern>>, content'[c] = content[c],
         NEW q
  PROVE  /\ WholeIn(q, c)' <=> WholeIn(q, c)
         /\ \A m : EndsWith(q, c, m)' <=> EndsWith(q, c, m)
BY PrintedSame DEF WholeIn, EndsWith

\* A step of another client that prints nothing.
LEMMA OtherQuiet ==
  ASSUME LineInv, NEW c \in Clients, Undisturbed(c), stream' = stream,
         \A a \in TargetSet : holder[a] = c => holder'[a] = c
  PROVE  ClientOK(c)'
<1>1. ClientOK(c)
  BY DEF LineInv, LinesInv
<1>2. Here(c)' = Here(c)
  BY DEF Here, Undisturbed
<1>3. \A j \in DOMAIN Targets :
        WholeIn(stream[StreamOf[Targets[j]]], c)
          => WholeIn(stream[StreamOf[Targets[j]]], c)'
  BY WholeSame DEF Undisturbed
<1>4. Prints(c) => Prints(c)'
  <2> SUFFICES ASSUME Prints(c) PROVE Prints(c)'
    OBVIOUS
  <2>1. holder'[Here(c)] = c
    BY HereType DEF Prints
  <2>2. EndsWith(stream[StreamOf[Here(c)]], c, at[c] - 1)'
    BY <1>2, WholeSame DEF Undisturbed, Prints
  <2> QED  BY <1>2, <2>1, <2>2 DEF Undisturbed, Prints
<1> QED  BY <1>1, <1>3, <1>4 DEF ClientOK, Undisturbed

LEMMA WriteLine ==
  ASSUME LineInv, NEW c \in Clients, NEW piece \in Pieces, Write(c, piece)
  PROVE  LineTypeOK' /\ StreamsOK' /\ LinesInv'
<1> USE DEF Write, LineInv, LineTypeOK
<1>1. /\ content' = [content EXCEPT ![c] = Append(@, piece)]
      /\ UNCHANGED <<lpc, target, at, holder, stream, items, vec, pattern, pc>>
  BY DEF vars
<1>2. LineTypeOK' /\ StreamsOK'
  BY <1>1 DEF StreamsOK
<1>3. ClientOK(c)'
  BY <1>1 DEF LinesInv, ClientOK
<1>4. ASSUME NEW u \in Clients \ {c} PROVE ClientOK(u)'
  BY <1>1, OtherQuiet DEF Undisturbed
<1> QED  BY <1>2, <1>3, <1>4 DEF LinesInv

LEMMA DestroyLine ==
  ASSUME LineInv, NEW c \in Clients, Destroy(c)
  PROVE  LineTypeOK' /\ StreamsOK' /\ LinesInv'
<1> USE DEF Destroy, LineInv, LineTypeOK
<1>1. /\ lpc' = [lpc EXCEPT ![c] = "log"] /\ lpc[c] = "write" /\ pc = "done"
      /\ UNCHANGED <<content, target, at, holder, stream, items, vec, pattern,
                     pc>>
  BY DEF vars
<1>2. LineTypeOK' /\ StreamsOK'
  BY <1>1 DEF StreamsOK
<1>3. ClientOK(c)'
  <2>1. target[c] = 1 /\ at[c] = 1
    BY <1>1 DEF LinesInv, ClientOK
  <2>2. \A j \in DOMAIN Targets : ~ (j < 1)
    BY LineAssumption, LenProperties
  <2> QED  BY <1>1, <2>1, <2>2 DEF ClientOK
<1>4. ASSUME NEW u \in Clients \ {c} PROVE ClientOK(u)'
  BY <1>1, OtherQuiet DEF Undisturbed
<1> QED  BY <1>2, <1>3, <1>4 DEF LinesInv

LEMMA LockTargetLine ==
  ASSUME LineInv, NEW c \in Clients, LockTarget(c)
  PROVE  LineTypeOK' /\ StreamsOK' /\ LinesInv'
<1> USE DEF LockTarget, LineInv, LineTypeOK
<1>1. /\ lpc' = [lpc EXCEPT ![c] = "print"] /\ lpc[c] = "log"
      /\ target[c] \in DOMAIN Targets /\ holder[Here(c)] = None
      /\ holder' = [holder EXCEPT ![Here(c)] = c]
      /\ UNCHANGED <<content, target, at, stream, items, vec, pattern, pc>>
  BY DEF vars
<1>2. Here(c) \in TargetSet /\ StreamOf[Here(c)] \in Streams
  BY <1>1, HereType
<1>3. LineTypeOK' /\ StreamsOK'
  BY <1>1, <1>2 DEF StreamsOK
<1>4. ClientOK(c)'
  <2>1. ClientOK(c) /\ at[c] = 1
    BY <1>1 DEF LinesInv, ClientOK
  <2>2. Here(c)' = Here(c)
    BY <1>1 DEF Here
  <2>3. Len(stream[StreamOf[Here(c)]]) \in Nat /\ Len(items) \in Nat
    BY <1>2, StreamLen, ItemsSeq
  <2>4. EndsWith(stream[StreamOf[Here(c)]], c, 0)'
    BY <1>1, <2>3 DEF EndsWith
  <2>5. Prints(c)'
    BY <1>1, <1>2, <2>1, <2>2, <2>3, <2>4 DEF Prints
  <2>6. \A j \in DOMAIN Targets : j < target[c] =>
          WholeIn(stream[StreamOf[Targets[j]]], c)'
    BY <1>1, <2>1, WholeSame DEF ClientOK
  <2> QED  BY <1>1, <2>1, <2>5, <2>6 DEF ClientOK
<1>5. ASSUME NEW u \in Clients \ {c} PROVE ClientOK(u)'
  <2>1. \A a \in TargetSet : holder[a] = u => holder'[a] = u
    BY <1>1, <1>2, LineAssumption
  <2> QED  BY <1>1, <2>1, OtherQuiet DEF Undisturbed
<1> QED  BY <1>3, <1>4, <1>5 DEF LinesInv

LEMMA PrintItemLine ==
  ASSUME OwnStreamEach, LineInv, NEW c \in Clients, PrintItem(c)
  PROVE  LineTypeOK' /\ StreamsOK' /\ LinesInv'
<1> USE DEF PrintItem, LineInv, LineTypeOK
<1> DEFINE s == StreamOf[Here(c)]
           e == Printed(c, at[c])
<1>1. /\ lpc[c] = "print" /\ at[c] \in DOMAIN items
      /\ stream' = [stream EXCEPT ![s] = Append(@, e)]
      /\ at' = [at EXCEPT ![c] = @ + 1]
      /\ UNCHANGED <<content, lpc, target, holder, items, vec, pattern, pc>>
  BY DEF vars
<1>2. ClientOK(c) /\ Prints(c)
  BY <1>1 DEF LinesInv, ClientOK
<1>3. Here(c) \in TargetSet /\ s \in Streams
  BY <1>2, HereType DEF Prints
<1>4. at[c] \in Nat \ {0} /\ at[c] <= Len(items) /\ Len(items) \in Nat
  BY <1>1, ItemsSeq
<1> HIDE DEF e, s
<1>5. /\ stream'[s] = Append(stream[s], e)
      /\ \A z \in Streams : z # s => stream'[z] = stream[z]
      /\ stream' = [z \in Streams |-> stream'[z]]
  BY <1>1, <1>3 DEF StreamsOK
<1>6. PICK T : stream[s] \in Seq(T)
  BY <1>3 DEF StreamsOK
<1>7. LineTypeOK' /\ StreamsOK'
  <2>1. LineTypeOK'
    BY <1>1
  <2>2. \E U : Append(stream[s], e) \in Seq(U)
    BY <1>6, AppendItem
  <2> QED  BY <1>5, <2>1, <2>2 DEF StreamsOK
<1>8. \A u : Undisturbed(u) \/ u = c => \A z \in Streams :
        WholeIn(stream[z], u) => WholeIn(stream[z], u)'
  <2> SUFFICES ASSUME NEW u, Undisturbed(u) \/ u = c, NEW z \in Streams,
                      WholeIn(stream[z], u)
               PROVE  WholeIn(stream[z], u)'
    OBVIOUS
  <2>1. WholeIn(stream'[z], u)
    BY <1>5, <1>6, AppendKeeps
  <2>2. UNCHANGED <<items, vec, pattern>> /\ content'[u] = content[u]
    BY <1>1 DEF Undisturbed
  <2>3. \A k : Printed(u, k)' = Printed(u, k)
    BY <2>2, PrintedSame
  <2>4. PICK start \in 0..Len(stream'[z]) :
          /\ start + Len(items) <= Len(stream'[z])
          /\ \A k \in DOMAIN items : stream'[z][start + k] = Printed(u, k)
    BY <2>1 DEF WholeIn
  <2>5. \A k \in DOMAIN items' : stream'[z][start + k] = Printed(u, k)'
    BY <2>2, <2>3, <2>4
  <2> QED  BY <2>2, <2>4, <2>5 DEF WholeIn
<1>9. ClientOK(c)'
  <2>1. EndsWith(stream[s], c, at[c] - 1)
    BY <1>2 DEF Prints, s
  <2>2. EndsWith(stream'[s], c, at[c])
    <3>1. at[c] - 1 \in Nat /\ at[c] - 1 + 1 = at[c] /\ e = Printed(c, at[c])
      BY <1>4 DEF e
    <3>2. EndsWith(Append(stream[s], e), c, at[c] - 1 + 1)
      BY <1>6, <2>1, <3>1, AppendKeeps
    <3> QED  BY <1>5, <3>1, <3>2
  <2>3. Here(c)' = Here(c) /\ at'[c] = at[c] + 1 /\ at[c] + 1 - 1 = at[c]
    BY <1>1, <1>4 DEF Here
  <2>4. \A k : Printed(c, k)' = Printed(c, k)
    BY <1>1, PrintedSame
  <2>5. Prints(c)'
    <3>1. EndsWith(stream'[s], c, at'[c] - 1)
      BY <2>2, <2>3
    <3>2. EndsWith(stream[StreamOf[Here(c)]], c, at[c] - 1)'
      BY <2>3, <2>4, <3>1 DEF EndsWith, s
    <3>3. at'[c] <= Len(items) + 1
      BY <1>4, <2>3
    <3> QED  BY <1>1, <1>2, <2>3, <3>2, <3>3 DEF Prints
  <2>6. \A j \in DOMAIN Targets : j < target[c] =>
          WholeIn(stream[StreamOf[Targets[j]]], c)'
    <3>1. \A j \in DOMAIN Targets : StreamOf[Targets[j]] \in Streams
      BY DEF Streams, TargetSet
    <3> QED  BY <1>1, <1>2, <1>8, <3>1 DEF ClientOK
  <2> QED  BY <1>1, <1>2, <2>5, <2>6 DEF ClientOK
<1>10. ASSUME NEW u \in Clients \ {c} PROVE ClientOK(u)'
  <2>1. ClientOK(u) /\ Undisturbed(u) /\ Here(u)' = Here(u)
    BY <1>1 DEF LinesInv, Undisturbed, Here
  <2>2. Prints(u) => Prints(u)'
    <3> SUFFICES ASSUME Prints(u) PROVE Prints(u)'
      OBVIOUS
    <3>1. Here(u) \in TargetSet /\ StreamOf[Here(u)] \in Streams
      BY HereType DEF Prints
    <3>2. Here(u) # Here(c)
      BY <1>2 DEF Prints
    <3>3. StreamOf[Here(u)] # s
      BY <1>3, <3>1, <3>2 DEF OwnStreamEach, s
    <3>4. EndsWith(stream[StreamOf[Here(u)]], u, at[u] - 1)'
      BY <1>5, <2>1, <3>1, <3>3, WholeSame DEF Undisturbed, Prints
    <3> QED  BY <1>1, <2>1, <3>4 DEF Undisturbed, Prints
  <2>3. \A j \in DOMAIN Targets : j < target[u] /\ lpc[u] # "write" =>
          WholeIn(stream[StreamOf[Targets[j]]], u)'
    <3>1. \A j \in DOMAIN Targets : StreamOf[Targets[j]] \in Streams
      BY DEF Streams, TargetSet
    <3> QED  BY <1>8, <2>1, <3>1 DEF ClientOK
  <2> QED  BY <2>1, <2>2, <2>3 DEF ClientOK, Undisturbed
<1> QED  BY <1>7, <1>9, <1>10 DEF LinesInv

LEMMA UnlockTargetLine ==
  ASSUME LineInv, NEW c \in Clients, UnlockTarget(c)
  PROVE  LineTypeOK' /\ StreamsOK' /\ LinesInv'
<1> USE DEF UnlockTarget, LineInv, LineTypeOK
<1>1. /\ lpc[c] = "print" /\ at[c] \notin DOMAIN items
      /\ holder' = [holder EXCEPT ![Here(c)] = None]
      /\ at' = [at EXCEPT ![c] = 1]
      /\ target' = [target EXCEPT ![c] = @ + 1]
      /\ lpc' = [lpc EXCEPT ![c] = "log"]
      /\ UNCHANGED <<content, stream, items, vec, pattern, pc>>
  BY DEF vars
<1>2. ClientOK(c) /\ Prints(c)
  BY <1>1 DEF LinesInv, ClientOK
<1>3. Here(c) \in TargetSet /\ StreamOf[Here(c)] \in Streams
  BY <1>2, HereType DEF Prints
<1>4. DOMAIN items = 1..Len(items) /\ Len(items) \in Nat /\ at[c] \in Nat \ {0}
  BY ItemsSeq
<1>5. LineTypeOK' /\ StreamsOK'
  BY <1>1, <1>3 DEF StreamsOK
<1>6. ClientOK(c)'
  <2>1. at[c] = Len(items) + 1
    BY <1>1, <1>2, <1>4 DEF Prints
  <2>2. EndsWith(stream[StreamOf[Here(c)]], c, Len(items))
    <3>1. at[c] - 1 = Len(items)
      BY <1>4, <2>1
    <3> QED  BY <1>2, <3>1 DEF Prints
  <2>3. WholeIn(stream[StreamOf[Here(c)]], c)
    <3> DEFINE q == stream[StreamOf[Here(c)]]
    <3>1. Len(q) \in Nat
      BY <1>3, StreamLen
    <3> HIDE DEF q
    <3>2. /\ Len(q) - Len(items) \in 0..Len(q)
          /\ Len(q) - Len(items) + Len(items) <= Len(q)
          /\ \A k \in DOMAIN items :
               q[Len(q) - Len(items) + k] = Printed(c, k)
      BY <1>4, <2>2, <3>1 DEF EndsWith, q
    <3> QED  BY <3>2 DEF WholeIn, q
  <2>4. \A j \in DOMAIN Targets : j < target[c] + 1 =>
          WholeIn(stream[StreamOf[Targets[j]]], c)
    <3>1. \A j \in DOMAIN Targets : j \in Nat
      BY LineAssumption, LenProperties
    <3>2. \A j \in DOMAIN Targets : j < target[c] + 1 =>
            j < target[c] \/ j = target[c]
      BY <3>1
    <3> QED  BY <1>1, <1>2, <2>3, <3>2 DEF ClientOK, Here
  <2>5. \A j \in DOMAIN Targets : j < target'[c] =>
          WholeIn(stream[StreamOf[Targets[j]]], c)'
    BY <1>1, <2>4, WholeSame
  <2> QED  BY <1>1, <1>2, <2>5 DEF ClientOK
<1>7. ASSUME NEW u \in Clients \ {c} PROVE ClientOK(u)'
  <2>1. \A a \in TargetSet : holder[a] = u => holder'[a] = u
    BY <1>1, <1>2, <1>3 DEF Prints
  <2> QED  BY <1>1, <2>1, OtherQuiet DEF Undisturbed
<1> QED  BY <1>5, <1>6, <1>7 DEF LinesInv

LEMMA LoggedLine ==
  ASSUME LineInv, NEW c \in Clients, Logged(c)
  PROVE  LineTypeOK' /\ StreamsOK' /\ LinesInv'
<1> USE DEF Logged, LineInv, LineTypeOK
<1>1. /\ lpc[c] = "log" /\ target[c] \notin DOMAIN Targets
      /\ lpc' = [lpc EXCEPT ![c] = "end"]
      /\ UNCHANGED <<content, target, at, holder, stream, items, vec, pattern,
                     pc>>
  BY DEF vars
<1>2. LineTypeOK' /\ StreamsOK'
  BY <1>1 DEF StreamsOK
<1>3. ClientOK(c)'
  <2>1. ClientOK(c)
    BY DEF LinesInv
  <2>2. \A j \in DOMAIN Targets : j < target[c] =>
          WholeIn(stream[StreamOf[Targets[j]]], c)'
    BY <1>1, <2>1, WholeSame DEF ClientOK
  <2> QED  BY <1>1, <2>1, <2>2 DEF ClientOK
<1>4. ASSUME NEW u \in Clients \ {c} PROVE ClientOK(u)'
  BY <1>1, OtherQuiet DEF Undisturbed
<1> QED  BY <1>2, <1>3, <1>4 DEF LinesInv

\* While the pattern is parsed every client is still writing.
LEMMA ParseLine ==
  ASSUME LineInv, Parse, UNCHANGED lineVars
  PROVE  LineTypeOK' /\ StreamsOK' /\ LinesInv'
<1>1. pc # "done"
  BY DEF Parse, Scanning, Literal, BeginItem, StopName, OpenFormat, CloseFormat,
    NextChar, NoMore, CloseItem, CloseError, AtEnd, BuildItems
<1>2. /\ content' = content /\ lpc' = lpc /\ target' = target /\ at' = at
      /\ holder' = holder /\ stream' = stream
  BY DEF lineVars
<1>3. LineTypeOK' /\ StreamsOK'
  BY <1>2 DEF LineInv, LineTypeOK, StreamsOK
<1>4. \A c \in Clients : lpc[c] = "write" /\ target[c] = 1 /\ at[c] = 1
  BY <1>1 DEF LineInv, LinesInv, ClientOK, LineTypeOK
<1>5. LinesInv'
  BY <1>2, <1>4 DEF LinesInv, ClientOK
<1> QED  BY <1>3, <1>5

LEMMA LineStep ==
  ASSUME OwnStreamEach, LineInv, [LineNext]_<<vars, lineVars>>
  PROVE  LineInv'
<1>1. [Next]_vars
  BY DEF LineNext, Client, Write, Destroy, LockTarget, PrintItem, UnlockTarget,
    Logged, AllPrinted, Next
<1>2. FormatterInv'
  BY <1>1, StepInv DEF LineInv
<1>3. CASE Parse /\ UNCHANGED lineVars
  BY <1>2, <1>3, ParseLine DEF LineInv
<1>4. CASE \E c \in Clients : Client(c)
  BY <1>2, <1>4, WriteLine, DestroyLine, LockTargetLine, PrintItemLine,
    UnlockTargetLine, LoggedLine DEF LineInv, Client
<1>5. CASE UNCHANGED <<vars, lineVars>>
  <2>1. UNCHANGED <<content, lpc, target, at, holder, stream, items, vec,
                    pattern, pc>>
    BY <1>5 DEF vars, lineVars
  <2>2. LineTypeOK' /\ StreamsOK'
    BY <2>1 DEF LineInv, LineTypeOK, StreamsOK
  <2>3. LinesInv'
    BY <2>1, OtherQuiet DEF LinesInv, Undisturbed
  <2> QED  BY <1>2, <2>2, <2>3 DEF LineInv
<1> QED  BY <1>3, <1>4, <1>5 DEF LineNext, AllPrinted

LEMMA LineStart == LineInit => LineInv
<1> SUFFICES ASSUME LineInit PROVE LineInv
  OBVIOUS
<1>1. FormatterInv
  BY InitInv DEF LineInit
<1>2. LineTypeOK /\ StreamsOK
  BY EmptySeq DEF LineInit, LineTypeOK, StreamsOK
<1>3. LinesInv
  BY DEF LineInit, LinesInv, ClientOK
<1> QED  BY <1>1, <1>2, <1>3 DEF LineInv

LEMMA WholeAtEnd == LineInv => LinesWhole
<1> SUFFICES ASSUME LineInv, NEW c \in Clients, lpc[c] = "end",
                    NEW a \in TargetSet
             PROVE  WholeIn(stream[StreamOf[a]], c)
  BY DEF LinesWhole, WholeIn
<1>1. ClientOK(c) /\ target[c] \in Nat \ {0}
  BY DEF LineInv, LinesInv, LineTypeOK
<1>2. PICK j \in DOMAIN Targets : a = Targets[j]
  BY DEF TargetSet
<1>3. DOMAIN Targets = 1..Len(Targets) /\ Len(Targets) \in Nat
  BY LineAssumption, LenProperties
<1>4. j < target[c]
  BY <1>1, <1>3 DEF ClientOK
<1> QED  BY <1>1, <1>2, <1>4 DEF ClientOK

\* Targets that share no stream receive every line whole, with the content
\* its client had streamed when the wrapper was destroyed and the name of the
\* logger it was made for, however many clients and targets there are
\* (Log.h 97-117, Log.cpp:390-397 and 419-425).
THEOREM LinesArriveWhole ==
  ASSUME OwnStreamEach
  PROVE  LineSpec => []LinesWhole
<1>1. LineInv /\ [LineNext]_<<vars, lineVars>> => LineInv'
  BY LineStep
<1> QED  BY LineStart, <1>1, WholeAtEnd, PTL DEF LineSpec

-----------------------------------------------------------------------------
(* Which patterns are accepted.                                            *)

\* What reading the items of such a pattern one by one comes down to.
ReadAsSplit(B, End) ==
  /\ Splits(pattern, B, End)
  /\ ~m_error
  /\ \A k \in DOMAIN vec : vec[k].type = 1 => Known(vec[k])
  /\ pc = "scan" => \A b \in B : i <= b \/ End[b] <= i
  /\ pc \in {"spec", "close"} => i \in B
  /\ pc = "spec" /\ fmt_status = 0 => n \in {i + 1, i + 2}
  /\ pc = "spec" /\ fmt_status = 1 =>
       pattern[i + 2] = "{" /\ fmt_begin = i + 2 /\ n \in (i + 3)..(End[i] - 1)
  /\ pc = "close" =>
       fmt_status = 0 /\ n = End[i] /\ str = Substr(i + 1, i + 1)

AcceptInv ==
  WellFormed(pattern) =>
    \E B \in SUBSET (1..Size) : \E End \in [B -> 1..(Size + 1)] : ReadAsSplit(B, End)

\* Entries stay known when another is appended that is.
LEMMA KnownKept ==
  ASSUME NEW T, NEW v \in Seq(T), NEW e \in T,
         \A k \in DOMAIN v : v[k].type = 1 => Known(v[k]),
         e.type = 1 => Known(e)
  PROVE  LET w == Append(v, e) IN \A k \in DOMAIN w : w[k].type = 1 => Known(w[k])
<1> DEFINE w == Append(v, e)
           m == Len(v) + 1
<1>1. /\ w \in Seq(T) /\ Len(w) = m /\ m \in Nat
      /\ w[m] = e /\ \A k \in 1..(m - 1) : w[k] = v[k]
  BY AppendProperties, LenProperties
<1>2. DOMAIN v = 1..(m - 1) /\ DOMAIN w = 1..m
  BY <1>1, LenProperties
<1>3. \A k \in 1..m : k \in 1..(m - 1) \/ k = m
  BY <1>1
<1> HIDE DEF w, m
<1>4. \A k \in DOMAIN w : w[k].type = 1 => Known(w[k])
  BY <1>1, <1>2, <1>3
<1> QED BY <1>4 DEF w

\* Text that is pending is no item.
LEMMA KnownFlushed ==
  ASSUME TypeOK, \A k \in DOMAIN vec : vec[k].type = 1 => Known(vec[k])
  PROVE  \A k \in DOMAIN Flushed : Flushed[k].type = 1 => Known(Flushed[k])
<1> DEFINE e == Entry(nstr, << >>, 0)
<1>1. CASE nstr = << >>
  BY <1>1 DEF Flushed
<1>2. CASE nstr # << >>
  <2>1. vec \in Seq(EntryType) /\ nstr \in Seq(1..Size) /\ Size \in Nat
    BY Sizes DEF TypeOK, EntryType
  <2>2. e \in EntryType /\ e.type = 0
    <3>1. nstr \in Seq(0..Size) /\ << >> \in Seq(0..Size)
      BY <2>1, WiderSeq
    <3> QED
      BY <3>1 DEF Entry, EntryType
  <2>3. Flushed = Append(vec, e)
    BY <1>2 DEF Flushed
  <2> HIDE DEF e
  <2> QED
    BY <2>1, <2>2, <2>3, KnownKept
<1> QED BY <1>1, <1>2

\* The item that begins at i.
LEMMA ItemHere ==
  ASSUME TypeOK, NEW B \in SUBSET (1..Size), NEW End \in [B -> 1..(Size + 1)],
         Splits(pattern, B, End), i \in B
  PROVE  /\ Size \in Nat /\ i \in 1..Size /\ i + 1 <= Size /\ End[i] \in 1..(Size + 1)
         /\ pattern[i] = "%" /\ pattern[i + 1] \in ItemLetters
         /\ pattern[i + 1] \in Letters
         /\ \/ /\ End[i] = i + 2
               /\ i + 2 <= Size => pattern[i + 2] \notin Letters \cup {"{", "}"}
            \/ /\ End[i] \in (i + 4)..(Size + 1)
               /\ pattern[i + 2] = "{" /\ pattern[End[i] - 1] = "}"
               /\ \A k \in (i + 3)..(End[i] - 2) : pattern[k] # "}"
<1>1. Item(pattern, i, End[i])
  BY DEF Splits
<1>2. Size \in Nat /\ i \in 1..Size /\ End[i] \in 1..(Size + 1)
  BY Sizes
<1> QED
  BY <1>1, <1>2, FormatterAssumption DEF Item, Size

\* ... and where it lies.
LEMMA ItemPlace ==
  ASSUME TypeOK, NEW B \in SUBSET (1..Size), NEW End \in [B -> 1..(Size + 1)],
         Splits(pattern, B, End), i \in B
  PROVE  /\ Size \in Nat /\ i \in Nat /\ End[i] \in Nat
         /\ i + 1 <= Size /\ End[i] <= Size + 1
         /\ End[i] = i + 2 \/ i + 4 <= End[i]
<1>1. /\ Size \in Nat /\ i \in 1..Size /\ i + 1 <= Size /\ End[i] \in 1..(Size + 1)
      /\ End[i] = i + 2 \/ End[i] \in (i + 4)..(Size + 1)
  BY ItemHere
<1> QED
  BY ONLY <1>1

\* A character of text is before every item that begins at i or later.
LEMMA LiteralAccepted ==
  ASSUME FormatterInv, NEW B \in SUBSET (1..Size), NEW End \in [B -> 1..(Size + 1)],
         ReadAsSplit(B, End), Literal
  PROVE  ReadAsSplit(B, End)'
<1>1. TypeOK /\ Size \in Nat /\ i \in 1..Size
  BY Sizes DEF FormatterInv, Literal, TypeOK
<1>2. /\ pc = "scan" /\ pc' = pc /\ pattern' = pattern /\ i' = i + 1
      /\ vec' = vec /\ m_error' = m_error
      /\ pattern[i] = "%" => i + 1 <= Size /\ pattern[i + 1] = "%"
  BY <1>1 DEF Literal, Percent, Doubled
<1>3. i \notin B
  <2> SUFFICES ASSUME i \in B PROVE FALSE
    OBVIOUS
  <2>1. pattern[i] = "%" /\ pattern[i + 1] \in Letters
    BY <1>1, ItemHere DEF ReadAsSplit
  <2> QED
    BY <1>2, <2>1, FormatterAssumption
<1>4. \A b \in B : i + 1 <= b \/ End[b] <= i + 1
  <2> TAKE b \in B
  <2>1. b \in Int /\ End[b] \in Int /\ b # i
    BY <1>1, <1>3
  <2>2. i <= b \/ End[b] <= i
    BY <1>2 DEF ReadAsSplit
  <2> QED
    BY <1>1, <2>1, <2>2
<1>5. \A e : Known(e)' <=> Known(e)
  BY <1>2 DEF Known
<1> QED
  BY <1>2, <1>4, <1>5 DEF ReadAsSplit

\* A % that does not stand before another one begins an item.
LEMMA BeginItemAccepted ==
  ASSUME FormatterInv, NEW B \in SUBSET (1..Size), NEW End \in [B -> 1..(Size + 1)],
         ReadAsSplit(B, End), BeginItem
  PROVE  ReadAsSplit(B, End)'
<1>1. TypeOK /\ Size \in Nat /\ i \in 1..Size
  BY Sizes DEF FormatterInv, BeginItem, Percent, TypeOK
<1>2. /\ pc = "scan" /\ pc' = "spec" /\ pattern' = pattern /\ i' = i
      /\ vec' = vec /\ m_error' = m_error /\ n' = i + 1 /\ fmt_status' = 0
      /\ pattern[i] = "%" /\ ~(i + 1 <= Size /\ pattern[i + 1] = "%")
  BY DEF BeginItem, Percent, Doubled
<1>3. i \in B
  <2>1. PICK b \in B : b <= i /\ i < End[b]
    BY <1>1, <1>2 DEF ReadAsSplit, Splits, Size
  <2>2. i <= b \/ End[b] <= i
    BY <1>2 DEF ReadAsSplit
  <2>3. b \in Int /\ End[b] \in Int
    BY <1>1
  <2> QED
    BY <1>1, <2>1, <2>2, <2>3
<1>5. \A e : Known(e)' <=> Known(e)
  BY <1>2 DEF Known
<1> QED
  BY <1>2, <1>3, <1>5 DEF ReadAsSplit

\* A name of one letter ends where the item does.
LEMMA StopNameAccepted ==
  ASSUME FormatterInv, NEW B \in SUBSET (1..Size), NEW End \in [B -> 1..(Size + 1)],
         ReadAsSplit(B, End), StopName
  PROVE  ReadAsSplit(B, End)'
<1>1. /\ pc = "spec" /\ pc' = "close" /\ pattern' = pattern /\ i' = i /\ n' = n
      /\ vec' = vec /\ m_error' = m_error /\ fmt_status = 0 /\ fmt_status' = 0
      /\ n <= Size /\ pattern[n] \notin Letters \cup {"{", "}"}
      /\ str' = Substr(i + 1, n - 1)
  BY DEF StopName, Scanning, EndsName
<1>2. i \in B /\ TypeOK /\ Splits(pattern, B, End) /\ n \in {i + 1, i + 2}
  BY <1>1 DEF ReadAsSplit, FormatterInv
<1>3. n = i + 2 /\ End[i] = i + 2
  BY <1>1, <1>2, ItemHere
<1>4. n - 1 = i + 1
  BY <1>2, <1>3, ItemPlace
<1>5. \A e : Known(e)' <=> Known(e)
  BY <1>1 DEF Known
<1> QED
  BY <1>1, <1>2, <1>3, <1>4, <1>5 DEF ReadAsSplit

\* A { behind the one letter opens the format of the item.
LEMMA OpenFormatAccepted ==
  ASSUME FormatterInv, NEW B \in SUBSET (1..Size), NEW End \in [B -> 1..(Size + 1)],
         ReadAsSplit(B, End), OpenFormat
  PROVE  ReadAsSplit(B, End)'
<1>1. /\ pc = "spec" /\ pc' = pc /\ pattern' = pattern /\ i' = i /\ n' = n + 1
      /\ vec' = vec /\ m_error' = m_error /\ fmt_status = 0 /\ fmt_status' = 1
      /\ n <= Size /\ pattern[n] = "{" /\ fmt_begin' = n
  BY DEF OpenFormat, Scanning, OpensFormat
<1>2. i \in B /\ TypeOK /\ Splits(pattern, B, End) /\ n \in {i + 1, i + 2}
  BY <1>1 DEF ReadAsSplit, FormatterInv
<1>3. n = i + 2 /\ End[i] \in (i + 4)..(Size + 1)
  BY <1>1, <1>2, ItemHere, FormatterAssumption
<1>4. n' \in (i' + 3)..(End[i'] - 1)
  <2>1. i \in Int /\ End[i] \in Int
    BY <1>2, ItemPlace
  <2>2. i' = i /\ n' = n + 1
    BY <1>1
  <2> QED
    BY ONLY <1>3, <2>1, <2>2
<1>5. pattern'[i' + 2] = "{" /\ fmt_begin' = i' + 2
  BY <1>1, <1>3
<1>6. \A e : Known(e)' <=> Known(e)
  BY <1>1 DEF Known
<1>7. pc' = "spec" /\ fmt_status' = 1 /\ i' \in B /\ ~m_error'
  BY <1>1, <1>2 DEF ReadAsSplit
<1>8. Splits(pattern', B, End)
  BY <1>1, <1>2
<1>9. \A k \in DOMAIN vec' : vec'[k].type = 1 => Known(vec[k])'
  BY <1>1, <1>6 DEF ReadAsSplit
<1>10. fmt_status' # 0
  BY <1>7
<1> QED
  BY <1>4, <1>5, <1>7, <1>8, <1>9, <1>10, Zenon DEF ReadAsSplit

\* The first } ends the format and the item.
LEMMA CloseFormatAccepted ==
  ASSUME FormatterInv, NEW B \in SUBSET (1..Size), NEW End \in [B -> 1..(Size + 1)],
         ReadAsSplit(B, End), CloseFormat
  PROVE  ReadAsSplit(B, End)'
<1>1. /\ pc = "spec" /\ pc' = "close" /\ pattern' = pattern /\ i' = i /\ n' = n + 1
      /\ vec' = vec /\ m_error' = m_error /\ fmt_status = 1 /\ fmt_status' = 0
      /\ n <= Size /\ pattern[n] = "}" /\ str' = str
  BY DEF CloseFormat, Scanning, ClosesFormat
<1>2. i \in B /\ TypeOK /\ Splits(pattern, B, End)
  BY <1>1 DEF ReadAsSplit, FormatterInv
<1>3. fmt_begin = i + 2 /\ n \in (i + 3)..(End[i] - 1)
  BY <1>1 DEF ReadAsSplit
<1>4. i \in Int /\ End[i] \in Int
  BY <1>2, ItemPlace
<1>5. n + 1 = End[i]
  <2>1. End[i] # i + 2
    BY <1>3, <1>4
  <2>2. \A k \in (i + 3)..(End[i] - 2) : pattern[k] # "}"
    BY <1>2, <2>1, ItemHere
  <2>3. n \notin (i + 3)..(End[i] - 2)
    BY <1>1, <2>2
  <2> QED
    BY <1>3, <1>4, <2>3
<1>6. str = Substr(i + 1, i + 1)
  <2>1. str = Substr(i + 1, fmt_begin - 1)
    BY <1>1 DEF FormatterInv, FormatRead
  <2>2. fmt_begin - 1 = i + 1
    BY <1>3, <1>4
  <2> QED
    BY <2>1, <2>2
<1>7. \A e : Known(e)' <=> Known(e)
  BY <1>1 DEF Known
<1> QED
  BY <1>1, <1>2, <1>5, <1>6, <1>7 DEF ReadAsSplit

\* The letter of the item, and the characters of its format.
LEMMA NextCharAccepted ==
  ASSUME FormatterInv, NEW B \in SUBSET (1..Size), NEW End \in [B -> 1..(Size + 1)],
         ReadAsSplit(B, End), NextChar
  PROVE  ReadAsSplit(B, End)'
<1>1. /\ pc = "spec" /\ pc' = pc /\ pattern' = pattern /\ i' = i /\ n' = n + 1
      /\ vec' = vec /\ m_error' = m_error /\ fmt_status' = fmt_status
      /\ fmt_begin' = fmt_begin /\ n <= Size
      /\ ~EndsName /\ ~OpensFormat /\ ~ClosesFormat
  BY DEF NextChar, Scanning
<1>2. i \in B /\ TypeOK /\ Splits(pattern, B, End) /\ fmt_status \in {0, 1}
  BY <1>1 DEF ReadAsSplit, FormatterInv, TypeOK
<1>3. i \in Int /\ End[i] \in Int
  BY <1>2, ItemPlace
<1>4. CASE fmt_status = 0
  <2>1. n \in {i + 1, i + 2}
    BY <1>1, <1>4 DEF ReadAsSplit
  <2>2. pattern[n] \in Letters \cup {"}"}
    BY <1>1, <1>4 DEF EndsName, OpensFormat
  <2>3. n # i + 2
    <3> SUFFICES ASSUME n = i + 2 PROVE FALSE
      OBVIOUS
    <3>1. \/ pattern[i + 2] \notin Letters \cup {"{", "}"}
          \/ pattern[i + 2] = "{"
      BY <1>1, <1>2, ItemHere
    <3> QED
      BY <2>2, <3>1, FormatterAssumption
  <2>4. n' \in {i + 1, i + 2}
    BY <1>1, <1>3, <2>1, <2>3
  <2> QED
    BY <1>1, <1>2, <1>4, <2>4 DEF ReadAsSplit, Known
<1>5. CASE fmt_status = 1
  <2>1. n \in (i + 3)..(End[i] - 1)
    BY <1>1, <1>5 DEF ReadAsSplit
  <2>2. pattern[i + 2] = "{" /\ fmt_begin = i + 2
    BY <1>1, <1>5 DEF ReadAsSplit
  <2>3. pattern[n] # "}"
    BY <1>1, <1>5 DEF ClosesFormat
  <2>4. n # End[i] - 1
    <3>1. End[i] # i + 2
      BY <1>3, <2>1
    <3>2. pattern[End[i] - 1] = "}"
      BY <1>2, <3>1, ItemHere
    <3> QED
      BY <2>3, <3>2
  <2>5. n' \in (i + 3)..(End[i] - 1)
    <3>1. n' = n + 1
      BY <1>1
    <3> QED
      BY ONLY <1>3, <2>1, <2>4, <3>1
  <2>6. pattern'[i' + 2] = "{" /\ fmt_begin' = i' + 2 /\ n' \in (i' + 3)..(End[i'] - 1)
    BY <1>1, <2>2, <2>5
  <2>7. pc' = "spec" /\ fmt_status' = 1 /\ i' \in B /\ ~m_error'
    BY <1>1, <1>2, <1>5 DEF ReadAsSplit
  <2>8. \A k \in DOMAIN vec' : vec'[k].type = 1 => Known(vec[k])'
    BY <1>1 DEF ReadAsSplit, Known
  <2>9. Splits(pattern', B, End)
    BY <1>1, <1>2
  <2>10. fmt_status' # 0
    BY <2>7
  <2> QED
    BY <2>6, <2>7, <2>8, <2>9, <2>10, Zenon DEF ReadAsSplit
<1> QED
  BY <1>2, <1>4, <1>5

\* The pattern ends with an item of one letter.
LEMMA NoMoreAccepted ==
  ASSUME FormatterInv, NEW B \in SUBSET (1..Size), NEW End \in [B -> 1..(Size + 1)],
         ReadAsSplit(B, End), NoMore
  PROVE  ReadAsSplit(B, End)'
<1>1. /\ pc = "spec" /\ pc' = "close" /\ pattern' = pattern /\ i' = i /\ n' = n
      /\ vec' = vec /\ m_error' = m_error /\ fmt_status' = fmt_status
      /\ str' = str /\ n > Size
  BY DEF NoMore, spec
<1>2. i \in B /\ TypeOK /\ Splits(pattern, B, End) /\ fmt_status \in {0, 1}
  BY <1>1 DEF ReadAsSplit, FormatterInv, TypeOK
<1>3. /\ Size \in Nat /\ i \in 1..Size /\ i + 1 <= Size /\ End[i] \in 1..(Size + 1)
      /\ End[i] = i + 2 \/ End[i] \in (i + 4)..(Size + 1)
  BY <1>2, ItemHere
<1>4. fmt_status = 0
  <2> SUFFICES ASSUME fmt_status = 1 PROVE FALSE
    BY <1>2
  <2>1. n \in (i + 3)..(End[i] - 1)
    BY <1>1 DEF ReadAsSplit
  <2> QED
    BY <1>1, <1>3, <2>1
<1>5. n \in {i + 1, i + 2}
  BY <1>1, <1>4 DEF ReadAsSplit
<1>6. n = i + 2 /\ End[i] = n
  BY <1>1, <1>3, <1>5
<1>7. str = Substr(i + 1, i + 1)
  <2>1. n \in Int /\ ~(n <= Size)
    BY <1>1, <1>3, <1>6
  <2>2. str = Substr(i + 1, n - 1)
    BY <1>1, <1>4, <2>1 DEF FormatterInv, NameRead
  <2>3. n - 1 = i + 1
    BY <1>3, <1>6
  <2> QED
    BY <2>2, <2>3
<1>8. \A e : Known(e)' <=> Known(e)
  BY <1>1 DEF Known
<1> QED
  BY <1>1, <1>2, <1>4, <1>6, <1>7, <1>8 DEF ReadAsSplit

\* The item is one of the map, and the scan goes on behind it.
LEMMA CloseItemAccepted ==
  ASSUME FormatterInv, NEW B \in SUBSET (1..Size), NEW End \in [B -> 1..(Size + 1)],
         ReadAsSplit(B, End), CloseItem
  PROVE  ReadAsSplit(B, End)'
<1> DEFINE e == Entry(str, fmt, 1)
<1>1. /\ pc = "close" /\ pc' = "scan" /\ pattern' = pattern /\ i' = n
      /\ vec' = Append(Flushed, e) /\ m_error' = m_error
  BY DEF CloseItem
<1>2. /\ i \in B /\ TypeOK /\ Splits(pattern, B, End) /\ n = End[i]
      /\ str = Substr(i + 1, i + 1)
  BY <1>1 DEF ReadAsSplit, FormatterInv
<1>3. Known(e)
  <2>1. Len(str) = 1 /\ str[1] = i + 1
    <3>1. i \in Int
      BY <1>2, ItemPlace
    <3>2. str = [k \in 1..1 |-> i + k]
      BY <1>2, <3>1 DEF Substr
    <3> QED
      BY <3>1, <3>2
  <2>2. pattern[i + 1] \in ItemLetters
    BY <1>2, ItemHere
  <2> QED
    BY <2>1, <2>2 DEF Known, Entry
<1>4. Flushed \in Seq(EntryType)
  BY <1>2, FlushedRead
<1>5. e \in EntryType
  <2>1. Size \in Nat /\ str \in Seq(1..Size) /\ fmt \in Seq(1..Size)
    BY <1>2, Sizes DEF TypeOK
  <2>2. str \in Seq(0..Size) /\ fmt \in Seq(0..Size)
    BY <2>1, WiderSeq
  <2> QED
    BY <2>2 DEF Entry, EntryType
<1>6. \A k \in DOMAIN Flushed : Flushed[k].type = 1 => Known(Flushed[k])
  BY <1>2, KnownFlushed DEF ReadAsSplit
<1> HIDE DEF e
<1>7. \A k \in DOMAIN vec' : vec'[k].type = 1 => Known(vec'[k])
  BY <1>1, <1>3, <1>4, <1>5, <1>6, KnownKept
<1>8. \A d : Known(d)' <=> Known(d)'
  OBVIOUS
<1>9. \A k \in DOMAIN vec' : vec'[k].type = 1 => Known(vec[k])'
  BY <1>1, <1>7 DEF Known
<1>10. \A b \in B : n <= b \/ End[b] <= n
  <2> TAKE b \in B
  <2>1. b \in Int /\ i \in Int /\ End[b] \in Int
    BY <1>2, ItemPlace
  <2>2. CASE b = i
    BY <1>2, <2>1, <2>2
  <2>3. CASE i < b
    BY <1>2, <2>3 DEF Splits
  <2>4. CASE b < i
    <3>1. End[b] <= i
      BY <1>2, <2>4 DEF Splits
    <3>2. i <= n
      BY <1>2, ItemPlace
    <3> QED
      BY <1>2, <2>1, <3>1, <3>2
  <2> QED
    BY <2>1, <2>2, <2>3, <2>4
<1> QED
  BY <1>1, <1>2, <1>9, <1>10 DEF ReadAsSplit

\* No other step reports an error.
LEMMA OtherAccepted ==
  ASSUME FormatterInv, NEW B \in SUBSET (1..Size), NEW End \in [B -> 1..(Size + 1)],
         ReadAsSplit(B, End), CloseError \/ AtEnd \/ BuildItems
  PROVE  ReadAsSplit(B, End)'
<1>1. TypeOK
  BY DEF FormatterInv
<1>2. ~CloseError
  <2>1. pc = "close" => fmt_status = 0
    BY DEF ReadAsSplit
  <2> QED
    BY <2>1 DEF CloseError
<1>3. CASE AtEnd
  <2>1. /\ pc' = "build" /\ pattern' = pattern /\ vec' = Flushed /\ m_error' = m_error
    BY <1>3 DEF AtEnd
  <2>2. \A k \in DOMAIN Flushed : Flushed[k].type = 1 => Known(Flushed[k])
    BY <1>1, KnownFlushed DEF ReadAsSplit
  <2> HIDE DEF Flushed
  <2>3. \A k \in DOMAIN vec' : vec'[k].type = 1 => Known(vec[k])'
    BY <2>1, <2>2 DEF Known
  <2> QED
    BY <2>1, <2>3 DEF ReadAsSplit
<1>4. CASE BuildItems
  <2>1. /\ pc' = "done" /\ pattern' = pattern /\ vec' = vec
        /\ m_error' = (m_error \/ \E k \in DOMAIN vec : ItemFor(vec[k]) = "error_format")
    BY <1>4 DEF BuildItems
  <2>2. \A k \in DOMAIN vec : vec[k].type \in {0, 1}
    <3>1. \A k \in DOMAIN vec : vec[k] \in EntryType
      BY <1>1, ElementOfSeq, LenProperties DEF TypeOK, EntryType
    <3> QED
      BY <3>1 DEF EntryType
  <2>3. ASSUME NEW k \in DOMAIN vec PROVE ItemFor(vec[k]) # "error_format"
    BY <2>2 DEF ReadAsSplit, ItemFor
  <2> QED
    BY <2>1, <2>3 DEF ReadAsSplit, Known
<1> QED
  BY <1>2, <1>3, <1>4

\* Every step, and the first state.
LEMMA AcceptStep == FormatterInv /\ AcceptInv /\ [Next]_vars => AcceptInv'
<1> SUFFICES ASSUME FormatterInv, AcceptInv, [Next]_vars, WellFormed(pattern)'
             PROVE  AcceptInv'
  BY DEF AcceptInv
<1>1. pattern' = pattern
  BY DEF vars, Next, Parse, Finished, Literal, BeginItem, StopName, OpenFormat,
         CloseFormat, NextChar, NoMore, CloseItem, CloseError, AtEnd, BuildItems
<1>2. Size' = Size /\ WellFormed(pattern)
  BY <1>1 DEF Size, WellFormed
<1>3. PICK B \in SUBSET (1..Size) : \E End \in [B -> 1..(Size + 1)] : ReadAsSplit(B, End)
  BY <1>2 DEF AcceptInv
<1>4. PICK End \in [B -> 1..(Size + 1)] : ReadAsSplit(B, End)
  BY <1>3
<1>5. ReadAsSplit(B, End)'
  <2>1. CASE UNCHANGED vars
    BY <1>4, <2>1 DEF vars, ReadAsSplit, Splits, Known, Size
  <2>2. CASE Parse
    BY <1>4, <2>2, LiteralAccepted, BeginItemAccepted, StopNameAccepted,
       OpenFormatAccepted, CloseFormatAccepted, NextCharAccepted, NoMoreAccepted,
       CloseItemAccepted, OtherAccepted DEF Parse
  <2> QED
    BY <2>1, <2>2 DEF Next, Finished
<1> QED
  BY <1>2, <1>5 DEF AcceptInv

LEMMA AcceptStart == Init => AcceptInv
<1> SUFFICES ASSUME Init, WellFormed(pattern) PROVE AcceptInv
  BY DEF AcceptInv
<1>0. PICK B \in SUBSET {b \in 1..Size : pattern[b] = "%"} :
        \E End \in [B -> 1..(Size + 1)] : Splits(pattern, B, End)
  BY DEF WellFormed, Size
<1>1. PICK End \in [B -> 1..(Size + 1)] : Splits(pattern, B, End)
  BY <1>0
<1>2. pc = "scan" /\ i = 1 /\ vec = << >> /\ m_error = FALSE
  BY DEF Init
<1>3. B \in SUBSET (1..Size) /\ \A b \in B : i <= b
  BY <1>2
<1>4. ReadAsSplit(B, End)
  BY <1>1, <1>2, <1>3 DEF ReadAsSplit
<1> QED
  BY <1>3, <1>4 DEF AcceptInv

-----------------------------------------------------------------------------
(* No other pattern is accepted.                                           *)

\* Every item in v is one of the map, in pattern p.
KnownIn(p, v) ==
  \A k \in DOMAIN v : v[k].type = 1 =>
    Len(v[k].text) = 1 /\ p[v[k].text[1]] \in ItemLetters

\* What stands in p before hi splits into the items at B and text.
SplitsUpTo(p, B, End, hi) ==
  /\ \A b \in B : Item(p, b, End[b]) /\ End[b] <= hi
  /\ \A b, c \in B : b < c => End[b] <= c
  /\ \A k \in 1..(hi - 1) : p[k] = "%" =>
       \/ \E b \in B : b <= k /\ k < End[b]
       \/ k + 1 <= Len(p) /\ p[k + 1] = "%"

SplitBefore(p, hi) ==
  \E B \in SUBSET (1..Len(p)) :
    \E End \in [B -> 1..(Len(p) + 1)] : SplitsUpTo(p, B, End, hi)

\* A name alone ends where a name can end, a format at the first }.
FormatOpen == pc = "spec" /\ fmt_status = 1 =>
  \A k \in (fmt_begin + 1)..(n - 1) : pattern[k] # "}"
ItemEnds == pc = "close" /\ fmt_status = 0 =>
  \/ /\ str = Substr(i + 1, n - 1)
     /\ n <= Size => pattern[n] \notin Letters \cup {"{", "}"}
  \/ \E b \in (i + 1)..(n - 2) :
       /\ pattern[b] = "{" /\ pattern[n - 1] = "}"
       /\ str = Substr(i + 1, b - 1)
       /\ \A k \in (b + 1)..(n - 2) : pattern[k] # "}"

\* What was read without error, up to where the scan has come, splits.
SplitInv ==
  /\ FormatOpen /\ ItemEnds
  /\ pc \in {"build", "done"} => i = Size + 1
  /\ ~m_error /\ KnownIn(pattern, vec) => SplitBefore(pattern, i)
  /\ pc = "done" /\ ~m_error => KnownIn(pattern, vec)

\* A string of one character.
LEMMA SubstrOne ==
  ASSUME NEW a \in Int, NEW b \in Int, a <= b + 1, Len(Substr(a, b)) = 1
  PROVE  a = b /\ Substr(a, b)[1] = a
<1> DEFINE m == b - a + 1
<1>1. m \in Nat
  OBVIOUS
<1>2. Substr(a, b) = [k \in 1..m |-> a + k - 1]
  BY DEF Substr
<1> HIDE DEF m
<1>3. Len([k \in 1..m |-> a + k - 1]) = m
  BY <1>1
<1>4. m = 1
  BY <1>2, <1>3, Zenon
<1>5. Substr(a, b)[1] = a
  BY <1>2, <1>4
<1> QED
  BY <1>4, <1>5 DEF m

\* A name of one known letter makes what stands from i up to n an item.
LEMMA KnownIsItem ==
  ASSUME FormatterInv, ItemEnds, pc = "close", fmt_status = 0,
         Len(str) = 1, pattern[str[1]] \in ItemLetters
  PROVE  Item(pattern, i, n)
<1>1. /\ Size \in Nat /\ i \in 1..Size /\ n \in 1..(Size + 1) /\ i < n
      /\ pattern[i] = "%" /\ Size = Len(pattern)
  BY Sizes DEF FormatterInv, TypeOK, AtItem, Size
<1>2. CASE /\ str = Substr(i + 1, n - 1)
           /\ n <= Size => pattern[n] \notin Letters \cup {"{", "}"}
  <2>1. i + 1 \in Int /\ n - 1 \in Int /\ i + 1 <= n - 1 + 1
    BY <1>1
  <2>2. i + 1 = n - 1 /\ str[1] = i + 1
    BY <1>2, <2>1, SubstrOne
  <2>3. n = i + 2 /\ i + 1 <= Len(pattern) /\ pattern[i + 1] \in ItemLetters
    BY <1>1, <2>2
  <2>4. n <= Len(pattern) => pattern[n] \notin Letters \cup {"{", "}"}
    BY <1>1, <1>2
  <2> QED
    BY <1>1, <2>3, <2>4, Zenon DEF Item
<1>3. ASSUME NEW b \in (i + 1)..(n - 2), pattern[b] = "{", pattern[n - 1] = "}",
             str = Substr(i + 1, b - 1),
             \A k \in (b + 1)..(n - 2) : pattern[k] # "}"
      PROVE  Item(pattern, i, n)
  <2>1. i + 1 \in Int /\ b - 1 \in Int /\ i + 1 <= b - 1 + 1
    BY <1>1
  <2>2. i + 1 = b - 1 /\ str[1] = i + 1
    BY <1>3, <2>1, SubstrOne
  <2>3. /\ b = i + 2 /\ b + 1 = i + 3 /\ i + 1 <= Len(pattern)
        /\ n \in (i + 4)..(Len(pattern) + 1) /\ pattern[i + 1] \in ItemLetters
    BY <1>1, <2>2
  <2>4. \A k \in (i + 3)..(n - 2) : pattern[k] # "}"
    BY <1>3, <2>3
  <2> QED
    BY <1>1, <1>3, <2>3, <2>4, Zenon DEF Item
<1> QED
  BY <1>2, <1>3 DEF ItemEnds

\* Text, and the first of two %, can be added to what splits.
LEMMA SplitText ==
  ASSUME NEW p \in Seq(STRING), NEW hi \in 1..Len(p), SplitBefore(p, hi),
         p[hi] = "%" => hi + 1 <= Len(p) /\ p[hi + 1] = "%"
  PROVE  SplitBefore(p, hi + 1)
<1>0. Len(p) \in Nat
  BY LenProperties
<1>1. PICK B \in SUBSET (1..Len(p)) :
        \E End \in [B -> 1..(Len(p) + 1)] : SplitsUpTo(p, B, End, hi)
  BY DEF SplitBefore
<1>2. PICK End \in [B -> 1..(Len(p) + 1)] : SplitsUpTo(p, B, End, hi)
  BY <1>1
<1>3. \A b \in B : Item(p, b, End[b]) /\ End[b] <= hi + 1
  <2>1. \A b \in B : End[b] \in Int
    OBVIOUS
  <2> QED
    BY <1>2, <2>1 DEF SplitsUpTo
<1>4. ASSUME NEW k \in 1..(hi + 1 - 1), p[k] = "%"
      PROVE  \/ \E b \in B : b <= k /\ k < End[b]
             \/ k + 1 <= Len(p) /\ p[k + 1] = "%"
  <2>1. CASE k = hi
    BY <1>4, <2>1
  <2>2. CASE k # hi
    <3>1. k \in 1..(hi - 1)
      BY <2>2
    <3> QED
      BY <1>2, <1>4, <3>1 DEF SplitsUpTo
  <2> QED
    BY <2>1, <2>2
<1>5. SplitsUpTo(p, B, End, hi + 1)
  BY <1>2, <1>3, <1>4 DEF SplitsUpTo
<1> QED
  BY <1>5 DEF SplitBefore

\* So can an item.
LEMMA SplitItem ==
  ASSUME NEW p \in Seq(STRING), NEW b \in 1..Len(p), NEW e \in 1..(Len(p) + 1),
         SplitBefore(p, b), Item(p, b, e), b < e
  PROVE  SplitBefore(p, e)
<1>0. Len(p) \in Nat
  BY LenProperties
<1>1. PICK B \in SUBSET (1..Len(p)) :
        \E End \in [B -> 1..(Len(p) + 1)] : SplitsUpTo(p, B, End, b)
  BY DEF SplitBefore
<1>2. PICK End \in [B -> 1..(Len(p) + 1)] : SplitsUpTo(p, B, End, b)
  BY <1>1
<1>3. \A c \in B : Item(p, c, End[c]) /\ c < End[c] /\ End[c] <= b /\ c \in Int
  <2> TAKE c \in B
  <2>1. c \in Int /\ End[c] \in Int /\ Item(p, c, End[c]) /\ End[c] <= b
    BY <1>2 DEF SplitsUpTo
  <2>2. End[c] = c + 2 \/ End[c] \in (c + 4)..(Len(p) + 1)
    BY <2>1, Zenon DEF Item
  <2> QED
    BY <1>0, <2>1, <2>2
<1> DEFINE C == B \cup {b}
           F == [c \in C |-> IF c = b THEN e ELSE End[c]]
<1>4. /\ C \in SUBSET (1..Len(p)) /\ F \in [C -> 1..(Len(p) + 1)]
      /\ F[b] = e /\ \A c \in B : c # b /\ F[c] = End[c]
  BY <1>3
<1>5. \A c \in C : c = b \/ c \in B
  OBVIOUS
<1>6. b \in C /\ \A c \in B : c \in C
  OBVIOUS
<1> HIDE DEF C, F
<1>7. \A c \in C : Item(p, c, F[c]) /\ F[c] <= e
  <2> TAKE c \in C
  <2>1. CASE c = b
    BY <1>4, <2>1
  <2>2. CASE c \in B
    <3>1. F[c] = End[c] /\ End[c] \in Int /\ End[c] <= b /\ Item(p, c, End[c])
      BY <1>3, <1>4, <2>2
    <3> QED
      BY <3>1
  <2> QED
    BY <1>5, <2>1, <2>2
<1>8. ASSUME NEW c \in C, NEW d \in C, c < d PROVE F[c] <= d
  <2>1. CASE c \in B /\ d \in B
    BY <1>2, <1>4, <1>8, <2>1 DEF SplitsUpTo
  <2>2. CASE c \in B /\ d = b
    BY <1>3, <1>4, <2>2
  <2>3. CASE c = b /\ d \in B
    <3>1. d < End[d] /\ End[d] <= b /\ d \in Int /\ End[d] \in Int
      BY <1>3, <2>3
    <3> QED
      BY <1>8, <2>3, <3>1
  <2>4. CASE c = b /\ d = b
    BY <1>8, <2>4
  <2> QED
    BY <1>5, <2>1, <2>2, <2>3, <2>4
<1>9. ASSUME NEW k \in 1..(e - 1), p[k] = "%"
      PROVE  \/ \E c \in C : c <= k /\ k < F[c]
             \/ k + 1 <= Len(p) /\ p[k + 1] = "%"
  <2>1. CASE k < b
    <3>1. k \in 1..(b - 1)
      BY <2>1
    <3>2. \/ \E c \in B : c <= k /\ k < End[c]
          \/ k + 1 <= Len(p) /\ p[k + 1] = "%"
      BY <1>2, <1>9, <3>1 DEF SplitsUpTo
    <3> QED
      BY <1>4, <1>6, <3>2
  <2>2. CASE b <= k
    <3>1. b \in C /\ b <= k /\ k < F[b]
      BY <1>4, <1>6, <2>2
    <3> QED
      BY <3>1
  <2> QED
    BY <2>1, <2>2
<1>10. SplitsUpTo(p, C, F, e)
  BY <1>7, <1>8, <1>9 DEF SplitsUpTo
<1> QED
  BY <1>4, <1>10 DEF SplitBefore

\* What is known of a longer list is known of its beginning.
LEMMA KnownBefore ==
  ASSUME NEW T, NEW v \in Seq(T), NEW e, NEW p, KnownIn(p, Append(v, e)), e \in T
  PROVE  /\ KnownIn(p, v)
         /\ e.type = 1 => Len(e.text) = 1 /\ p[e.text[1]] \in ItemLetters
<1> DEFINE w == Append(v, e)
           m == Len(v) + 1
<1>1. /\ m \in Nat /\ Len(w) = m /\ w \in Seq(T)
      /\ w[m] = e /\ \A k \in 1..(m - 1) : w[k] = v[k]
  BY AppendProperties, LenProperties
<1>2. DOMAIN v = 1..(m - 1) /\ DOMAIN w = 1..m /\ m \in 1..m
  BY <1>1, LenProperties
<1>3. KnownIn(p, w)
  OBVIOUS
<1> HIDE DEF w, m
<1> QED
  BY <1>1, <1>2, <1>3 DEF KnownIn

LEMMA KnownBeforeFlush ==
  ASSUME TypeOK, KnownIn(pattern, Flushed)
  PROVE  KnownIn(pattern, vec)
<1>1. CASE nstr = << >>
  BY <1>1 DEF Flushed
<1>2. CASE nstr # << >>
  <2>1. Entry(nstr, << >>, 0) \in EntryType /\ vec \in Seq(EntryType)
    <3>1. vec \in Seq(EntryType) /\ nstr \in Seq(1..Size) /\ Size \in Nat
      BY Sizes DEF TypeOK, EntryType
    <3>2. nstr \in Seq(0..Size) /\ << >> \in Seq(0..Size)
      BY <3>1, WiderSeq
    <3> QED
      BY <3>1, <3>2 DEF Entry, EntryType
  <2>2. Flushed = Append(vec, Entry(nstr, << >>, 0))
    BY <1>2 DEF Flushed
  <2> QED
    BY <2>1, <2>2, KnownBefore
<1> QED BY <1>1, <1>2

LEMMA SplitStart == Init => SplitInv
<1> SUFFICES ASSUME Init PROVE SplitInv
  OBVIOUS
<1>1. pc = "scan" /\ i = 1 /\ m_error = FALSE
  BY DEF Init
<1>2. SplitBefore(pattern, i)
  <2>1. pattern \in Seq(STRING) /\ Len(pattern) \in Nat
    BY FormatterAssumption, LenProperties DEF Init
  <2> DEFINE E == [b \in {} |-> 1]
  <2>2. {} \in SUBSET (1..Len(pattern)) /\ E \in [{} -> 1..(Len(pattern) + 1)]
    OBVIOUS
  <2>3. SplitsUpTo(pattern, {}, E, i)
    BY <1>1 DEF SplitsUpTo
  <2> QED
    BY <2>2, <2>3 DEF SplitBefore
<1> QED
  BY <1>1, <1>2 DEF SplitInv, FormatOpen, ItemEnds

\* The steps that neither move i nor put anything into the list.
LEMMA QuietSplit ==
  ASSUME FormatterInv, SplitInv,
         BeginItem \/ StopName \/ OpenFormat \/ CloseFormat \/ NextChar \/ NoMore
  PROVE  SplitInv'
<1>1. /\ pattern' = pattern /\ i' = i /\ vec' = vec /\ m_error' = m_error
      /\ pc' \in {"spec", "close"} /\ Size' = Size
  BY DEF BeginItem, StopName, OpenFormat, CloseFormat, NextChar, NoMore, Scanning,
         spec, Size
<1>2. TypeOK /\ NameRead /\ FormatRead /\ Size \in Nat
  BY Sizes DEF FormatterInv
<1>3. (~m_error /\ KnownIn(pattern, vec) => SplitBefore(pattern, i))'
  BY <1>1 DEF SplitInv
<1>4. FormatOpen'
  <2>1. CASE OpenFormat
    <3>1. fmt_begin' = n /\ n' = n + 1 /\ n \in Int
      BY <1>2, <2>1 DEF OpenFormat, TypeOK
    <3>2. \A k \in (fmt_begin' + 1)..(n' - 1) : FALSE
      BY <3>1
    <3> QED
      BY <3>2, Zenon DEF FormatOpen
  <2>2. CASE NextChar
    <3>1. /\ pc = "spec" /\ n' = n + 1 /\ fmt_begin' = fmt_begin
          /\ fmt_status' = fmt_status
          /\ fmt_status = 1 => pattern[n] # "}"
      BY <2>2, Zenon DEF NextChar, Scanning, ClosesFormat
    <3>2. fmt_status = 1 => \A k \in (fmt_begin + 1)..(n - 1) : pattern[k] # "}"
      BY <3>1 DEF SplitInv, FormatOpen
    <3>3. n \in Int /\ fmt_begin \in Int
      BY <1>2 DEF TypeOK
    <3>4. fmt_status = 1 => \A k \in (fmt_begin + 1)..(n + 1 - 1) : pattern[k] # "}"
      <4> SUFFICES ASSUME fmt_status = 1, NEW k \in (fmt_begin + 1)..(n + 1 - 1)
                   PROVE  pattern[k] # "}"
        OBVIOUS
      <4>1. k = n \/ k \in (fmt_begin + 1)..(n - 1)
        BY <3>3
      <4> QED
        BY <3>1, <3>2, <4>1
    <3>5. fmt_status' = 1 =>
            \A k \in (fmt_begin' + 1)..(n' - 1) : pattern'[k] # "}"
      <4>1. /\ fmt_status' = fmt_status /\ fmt_begin' = fmt_begin /\ n' = n + 1
            /\ pattern' = pattern
        BY <1>1, <3>1, Zenon
      <4>2. (fmt_begin' + 1)..(n' - 1) = (fmt_begin + 1)..(n + 1 - 1)
        BY <3>3, <4>1
      <4> QED
        BY <3>4, <4>1, <4>2, Zenon
    <3> QED
      BY <3>5, Zenon DEF FormatOpen
  <2>3. CASE BeginItem
    <3>1. fmt_status' # 1
      BY <2>3 DEF BeginItem
    <3> QED
      BY <3>1, Zenon DEF FormatOpen
  <2>4. CASE StopName \/ CloseFormat \/ NoMore
    BY <2>4 DEF StopName, CloseFormat, NoMore, FormatOpen
  <2> QED
    BY <2>1, <2>2, <2>3, <2>4
<1>5. ItemEnds'
  <2>1. CASE StopName
    <3>1. /\ n' = n /\ str' = Substr(i + 1, n - 1)
          /\ pattern[n] \notin Letters \cup {"{", "}"}
      BY <2>1 DEF StopName, EndsName
    <3> QED
      BY <1>1, <3>1 DEF ItemEnds, Substr
  <2>2. CASE CloseFormat
    <3>1. /\ pc = "spec" /\ fmt_status = 1 /\ n <= Size /\ pattern[n] = "}"
          /\ n' = n + 1 /\ str' = str
      BY <2>2 DEF CloseFormat, Scanning, ClosesFormat
    <3>2. /\ fmt_begin \in (i + 1)..(n - 1) /\ pattern[fmt_begin] = "{"
          /\ str = Substr(i + 1, fmt_begin - 1)
      BY <1>2, <3>1 DEF FormatRead
    <3>6. n \in Int /\ i \in Int /\ fmt_begin \in Int
      BY <1>2 DEF TypeOK
    <3>3. \A k \in (fmt_begin + 1)..(n - 1) : pattern[k] # "}"
      BY <3>1 DEF SplitInv, FormatOpen
    <3>4. /\ fmt_begin \in (i' + 1)..(n' - 2) /\ n' - 1 = n
          /\ n' - 2 = n - 1
      <4>1. fmt_begin \in (i + 1)..(n - 1) /\ n' = n + 1 /\ i' = i
        BY <1>1, <3>1, <3>2, Zenon
      <4> QED
        BY <3>6, <4>1
    <3>5. /\ pattern'[fmt_begin] = "{" /\ pattern'[n' - 1] = "}"
          /\ str' = Substr(i' + 1, fmt_begin - 1)
          /\ \A k \in (fmt_begin + 1)..(n' - 2) : pattern'[k] # "}"
      BY <1>1, <3>1, <3>2, <3>3, <3>4
    <3> QED
      BY <3>4, <3>5 DEF ItemEnds, Substr
  <2>3. CASE NoMore
    <3>1. /\ pc = "spec" /\ n > Size /\ n' = n /\ str' = str
          /\ fmt_status' = fmt_status /\ n \in Int
      BY <1>2, <2>3 DEF NoMore, spec, TypeOK
    <3>2. fmt_status = 0 => str = Substr(i + 1, n - 1)
      BY <1>2, <3>1 DEF NameRead
    <3>3. ~(n' <= Size')
      BY <1>1, <1>2, <3>1
    <3>4. fmt_status' = 0 => str' = Substr(i' + 1, n' - 1)
      BY <1>1, <3>1, <3>2
    <3> QED
      BY <3>3, <3>4 DEF ItemEnds, Substr
  <2>4. CASE BeginItem \/ OpenFormat \/ NextChar
    <3>1. pc' = "spec"
      BY <2>4 DEF BeginItem, OpenFormat, NextChar, Scanning
    <3> QED
      BY <3>1 DEF ItemEnds
  <2> QED
    BY <2>1, <2>2, <2>3, <2>4
<1> QED
  BY <1>1, <1>3, <1>4, <1>5 DEF SplitInv

LEMMA LiteralSplit ==
  ASSUME FormatterInv, SplitInv, Literal
  PROVE  SplitInv'
<1>1. /\ pattern' = pattern /\ i' = i + 1 /\ vec' = vec /\ m_error' = m_error
      /\ pc' = "scan" /\ i <= Size /\ (Percent => Doubled)
  BY DEF Literal
<1>2. pattern \in Seq(STRING) /\ i \in 1..Len(pattern) /\ Size = Len(pattern)
  BY <1>1, Sizes DEF FormatterInv, TypeOK, Size
<1>3. SplitBefore(pattern, i) => SplitBefore(pattern, i + 1)
  BY <1>1, <1>2, SplitText DEF Percent, Doubled
<1> QED
  BY <1>1, <1>3 DEF SplitInv, FormatOpen, ItemEnds

LEMMA CloseItemSplit ==
  ASSUME FormatterInv, SplitInv, CloseItem
  PROVE  SplitInv'
<1> DEFINE e == Entry(str, fmt, 1)
<1>1. /\ pc = "close" /\ fmt_status = 0 /\ pc' = "scan" /\ pattern' = pattern
      /\ i' = n /\ vec' = Append(Flushed, e) /\ m_error' = m_error
  BY DEF CloseItem
<1>2. TypeOK /\ ItemEnds
  BY DEF FormatterInv, SplitInv
<1>3. /\ pattern \in Seq(STRING) /\ i \in 1..Len(pattern)
      /\ n \in 1..(Len(pattern) + 1) /\ i < n
  BY <1>1, <1>2, Sizes DEF TypeOK, Size
<1>4. Flushed \in Seq(EntryType)
  BY <1>2, FlushedRead
<1>5. e \in EntryType
  <2>1. Size \in Nat /\ str \in Seq(1..Size) /\ fmt \in Seq(1..Size)
    BY <1>2, Sizes DEF TypeOK
  <2>2. str \in Seq(0..Size) /\ fmt \in Seq(0..Size)
    BY <2>1, WiderSeq
  <2> QED
    BY <2>2 DEF Entry, EntryType
<1>6. e.type = 1 /\ e.text = str
  BY DEF Entry
<1> HIDE DEF e
<1>7. ASSUME ~m_error, KnownIn(pattern, vec')
      PROVE  SplitBefore(pattern, n)
  <2>1. /\ KnownIn(pattern, Flushed)
        /\ Len(str) = 1 /\ pattern[str[1]] \in ItemLetters
    BY <1>1, <1>4, <1>5, <1>6, <1>7, KnownBefore
  <2>2. SplitBefore(pattern, i)
    BY <1>2, <1>7, <2>1, KnownBeforeFlush DEF SplitInv
  <2>3. Item(pattern, i, n)
    BY <1>1, <1>2, <2>1, KnownIsItem
  <2> QED
    BY <1>3, <2>2, <2>3, SplitItem
<1> QED
  BY <1>1, <1>7 DEF SplitInv, FormatOpen, ItemEnds

\* The error, and the end of the pattern.
LEMMA EndSplit ==
  ASSUME FormatterInv, SplitInv, CloseError \/ AtEnd \/ BuildItems
  PROVE  SplitInv'
<1>1. TypeOK /\ Size \in Nat
  BY Sizes DEF FormatterInv
<1>2. CASE CloseError
  BY <1>2 DEF CloseError, SplitInv, FormatOpen, ItemEnds
<1>3. CASE AtEnd
  <2>1. /\ pc' = "build" /\ pattern' = pattern /\ i' = i /\ vec' = Flushed
        /\ m_error' = m_error /\ i > Size
    BY <1>3 DEF AtEnd
  <2>2. i' = Size' + 1
    BY <1>1, <2>1 DEF TypeOK, Size
  <2> HIDE DEF Flushed
  <2> QED
    BY <1>1, <2>1, <2>2, KnownBeforeFlush DEF SplitInv, FormatOpen, ItemEnds
<1>4. CASE BuildItems
  <2>1. /\ pc = "build" /\ pc' = "done" /\ pattern' = pattern /\ i' = i /\ vec' = vec
        /\ m_error' = (m_error \/ \E k \in DOMAIN vec : ItemFor(vec[k]) = "error_format")
    BY <1>4 DEF BuildItems
  <2>2. ~m_error' => KnownIn(pattern, vec)
    <3>1. ASSUME ~m_error', NEW k \in DOMAIN vec, vec[k].type = 1
          PROVE  Known(vec[k])
      <4>1. ItemFor(vec[k]) # "error_format"
        BY <2>1, <3>1, Zenon
      <4>2. vec[k].type # 0
        BY <3>1
      <4> QED
        BY <4>1, <4>2 DEF ItemFor
    <3> QED
      BY <3>1, Zenon DEF KnownIn, Known
  <2>3. ~m_error' => ~m_error
    BY <2>1
  <2>4. i' = Size' + 1
    BY <2>1 DEF SplitInv, Size
  <2>5. ~m_error' => KnownIn(pattern, vec)
    BY <2>1, <2>2
  <2> QED
    BY <2>1, <2>3, <2>4, <2>5 DEF SplitInv, FormatOpen, ItemEnds
<1> QED
  BY <1>2, <1>3, <1>4

LEMMA SplitStep == FormatterInv /\ SplitInv /\ [Next]_vars => SplitInv'
<1> SUFFICES ASSUME FormatterInv, SplitInv, [Next]_vars PROVE SplitInv'
  OBVIOUS
<1>1. CASE UNCHANGED vars
  BY <1>1 DEF vars, SplitInv, FormatOpen, ItemEnds, Size, Substr
<1>2. CASE Parse
  BY <1>2, LiteralSplit, QuietSplit, CloseItemSplit, EndSplit DEF Parse
<1> QED
  BY <1>1, <1>2 DEF Next, Finished

\* At the end the whole pattern splits.
LEMMA SplitAtEnd ==
  ASSUME TypeOK, SplitInv, pc = "done", ~m_error
  PROVE  WellFormed(pattern)
<1>1. SplitBefore(pattern, Len(pattern) + 1) /\ Len(pattern) \in Nat
  BY Sizes DEF SplitInv, Size
<1>2. PICK B \in SUBSET (1..Len(pattern)) :
        \E End \in [B -> 1..(Len(pattern) + 1)] :
          SplitsUpTo(pattern, B, End, Len(pattern) + 1)
  BY <1>1 DEF SplitBefore
<1>3. PICK End \in [B -> 1..(Len(pattern) + 1)] :
        SplitsUpTo(pattern, B, End, Len(pattern) + 1)
  BY <1>2
<1>4. B \in SUBSET {b \in 1..Len(pattern) : pattern[b] = "%"}
  BY <1>3 DEF SplitsUpTo, Item
<1>5. Len(pattern) + 1 - 1 = Len(pattern)
  BY <1>1
<1>6. Splits(pattern, B, End)
  BY <1>3, <1>5 DEF SplitsUpTo, Splits
<1> QED
  BY <1>4, <1>6 DEF WellFormed

\* init() reports no error for the patterns that split into text and items of
\* known letters, each with or without a format, and reports one for every
\* other, of whatever length: %% and a%%b among them (Log.cpp:433-540).
THEOREM AcceptedExactly == Spec => []AcceptsWellFormed
<1>1. FormatterInv /\ AcceptInv /\ SplitInv => AcceptsWellFormed
  <2> SUFFICES ASSUME FormatterInv, AcceptInv, SplitInv, pc = "done"
               PROVE  m_error <=> ~WellFormed(pattern)
    BY DEF AcceptsWellFormed
  <2>1. WellFormed(pattern) => ~m_error
    BY DEF AcceptInv, ReadAsSplit
  <2>2. ~m_error => WellFormed(pattern)
    BY SplitAtEnd DEF FormatterInv
  <2>3. m_error \in BOOLEAN
    BY DEF FormatterInv, TypeOK
  <2> QED
    BY <2>1, <2>2, <2>3
<1> QED
  BY InitInv, StepInv, AcceptStart, AcceptStep, SplitStart, SplitStep, <1>1, PTL
     DEF Spec

-----------------------------------------------------------------------------
(* The default pattern is well formed.                                     *)

DefaultItems == {1, 22, 24, 26, 28, 30, 32, 34, 37, 40, 43, 46, 48, 51, 53, 55, 57}
DefaultEnd == [b \in DefaultItems |-> IF b = 1 THEN 22 ELSE b + 2]

LEMMA DefaultSplits ==
  /\ DefaultItems \in SUBSET (1..Len(DefaultPattern))
  /\ DefaultEnd \in [DefaultItems -> 1..(Len(DefaultPattern) + 1)]
  /\ Splits(DefaultPattern, DefaultItems, DefaultEnd)
<1> DEFINE p == DefaultPattern
<1>1. Len(p) = 58
  BY DEF DefaultPattern
<1>2. /\ p[1] = "%" /\ p[2] = "d" /\ p[3] = "{"
      /\ \A k \in 4..20 : p[k] # "}"
      /\ p[21] = "}"
  <2>1. \A k \in 4..20 : k \in {4, 5, 6, 7, 8, 9, 10, 11, 12, 13, 14, 15, 16, 17, 18, 19, 20}
    OBVIOUS
  <2> QED
    BY <2>1 DEF DefaultPattern
<1>3. /\ p[22] = "%" /\ p[23] = "T" /\ p[24] = "%" /\ p[25] = "t"
      /\ p[26] = "%" /\ p[27] = "T" /\ p[28] = "%" /\ p[29] = "N"
      /\ p[30] = "%" /\ p[31] = "T" /\ p[32] = "%" /\ p[33] = "F"
      /\ p[34] = "%" /\ p[35] = "T" /\ p[36] = "["
      /\ p[37] = "%" /\ p[38] = "p" /\ p[39] = "]"
      /\ p[40] = "%" /\ p[41] = "T" /\ p[42] = "["
      /\ p[43] = "%" /\ p[44] = "c" /\ p[45] = "]"
      /\ p[46] = "%" /\ p[47] = "T" /\ p[48] = "%" /\ p[49] = "f" /\ p[50] = ":"
      /\ p[51] = "%" /\ p[52] = "l" /\ p[53] = "%" /\ p[54] = "T"
      /\ p[55] = "%" /\ p[56] = "m" /\ p[57] = "%" /\ p[58] = "n"
  BY DEF DefaultPattern
<1> HIDE DEF p
<1>4. /\ DefaultItems \in SUBSET (1..58)
      /\ DefaultEnd \in [DefaultItems -> 1..59]
      /\ \A b, c \in DefaultItems : b < c => DefaultEnd[b] <= c
  BY DEF DefaultItems, DefaultEnd
<1>5. \A b \in DefaultItems : Item(p, b, DefaultEnd[b])
  <2>0. /\ \A x \in {"d", "T", "t", "N", "F", "p", "c", "f", "l", "m", "n"} :
             x \in ItemLetters
        /\ \A x \in {"%", "[", "]", ":"} : x \notin Letters \cup {"{", "}"}
    <3>1. \A x \in {"%", "[", "]", ":"} : x \notin Letters
      BY FormatterAssumption
    <3>2. \A x \in {"%", "[", "]", ":"} : x \notin {"{", "}"}
      OBVIOUS
    <3> QED
      BY <3>1, <3>2, FormatterAssumption
  <2>1. Item(p, 1, 22)
    <3>1. /\ 1 + 1 = 2 /\ 1 + 2 = 3 /\ 22 - 1 = 21 /\ 22 - 2 = 20 /\ 1 + 3 = 4
          /\ 2 <= 58 /\ 22 \in (1 + 4)..(58 + 1)
      OBVIOUS
    <3>2. p[2] \in ItemLetters
      BY <1>2, <2>0
    <3> QED
      BY <1>1, <1>2, <3>1, <3>2, Zenon DEF Item
  <2>2. ASSUME NEW b \in DefaultItems \ {1} PROVE Item(p, b, b + 2)
    <3>1. b + 1 <= 58 /\ p[b] = "%"
      BY <1>3 DEF DefaultItems
    <3>2. p[b + 1] \in {"d", "T", "t", "N", "F", "p", "c", "f", "l", "m", "n"}
      BY <1>3 DEF DefaultItems
    <3>3. b = 57 \/ p[b + 2] \in {"%", "[", "]", ":"}
      BY <1>3 DEF DefaultItems
    <3>4. b + 2 <= 58 => b # 57
      OBVIOUS
    <3>5. b + 2 <= 58 => p[b + 2] \notin Letters \cup {"{", "}"}
      BY <2>0, <3>3, <3>4, Zenon
    <3>6. p[b + 1] \in ItemLetters
      BY <2>0, <3>2, Zenon
    <3> QED
      BY <1>1, <3>1, <3>5, <3>6, Zenon DEF Item
  <2>3. \A b \in DefaultItems : DefaultEnd[b] = IF b = 1 THEN 22 ELSE b + 2
    BY DEF DefaultEnd
  <2> QED
    BY <2>1, <2>2, <2>3
<1>6. ASSUME NEW k \in 1..58, p[k] = "%"
      PROVE  \E b \in DefaultItems : b <= k /\ k < DefaultEnd[b]
  <2>1. CASE k < 22
    <3>1. 1 \in DefaultItems /\ DefaultEnd[1] = 22
      BY DEF DefaultItems, DefaultEnd
    <3> QED
      BY <2>1, <3>1
  <2>2. CASE 22 <= k
    <3>1. k \in DefaultItems
      BY <1>3, <1>6, <2>2 DEF DefaultItems
    <3>2. DefaultEnd[k] = k + 2
      BY <2>2, <3>1 DEF DefaultEnd
    <3> QED
      BY <3>1, <3>2
  <2> QED BY <2>1, <2>2
<1>7. Splits(p, DefaultItems, DefaultEnd)
  BY <1>1, <1>4, <1>5, <1>6 DEF Splits
<1> QED
  BY <1>1, <1>4, <1>7 DEF p

\* The format every logger starts with (Log.cpp:240-242) is one of them.
THEOREM DefaultPatternAccepted == Spec => []DefaultAccepted
<1>1. WellFormed(DefaultPattern)
  <2>1. DefaultItems \in SUBSET {b \in 1..Len(DefaultPattern) : DefaultPattern[b] = "%"}
    BY DefaultSplits DEF Splits, Item
  <2> QED
    BY <2>1, DefaultSplits DEF WellFormed
<1>2. AcceptInv => DefaultAccepted
  BY <1>1 DEF AcceptInv, ReadAsSplit, DefaultAccepted
<1> QED
  BY InitInv, StepInv, AcceptStart, AcceptStep, <1>2, PTL DEF Spec
=============================================================================
