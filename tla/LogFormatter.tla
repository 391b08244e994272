---------------------------- MODULE LogFormatter ----------------------------
(***************************************************************************)
(* LogFormatter::init of Log/Log.cpp: the parser that turns the pattern of *)
(* a log line into the items that print it.  Characters are told apart as  *)
(* far as the parser does, and text is named by where it stands in the     *)
(* pattern: a string is the sequence of the positions of its characters,   *)
(* counted from 1.  One step is one iteration of a loop.                   *)
(***************************************************************************)
EXTENDS Integers, Sequences

CONSTANTS
  Patterns,      \* the patterns to parse: sequences of characters
  Letters,       \* the characters isalpha() accepts
  ItemLetters    \* the keys of s_format_items, all of one letter

\* What the parser and the default pattern need to know of them.
ASSUME FormatterAssumption ==
  /\ \A p \in Patterns : p \in Seq(STRING)
  /\ ItemLetters \subseteq Letters
  /\ {"%", "{", "}", "[", "]", ":"} \cap Letters = {}
  /\ {"d", "T", "t", "N", "F", "p", "c", "f", "l", "m", "n"} \subseteq ItemLetters

VARIABLES
  pattern,       \* m_pattern
  pc,            \* "scan" the pattern, "spec" after a %, "close" it,
                 \* "build" the items, "done"
  i, n,          \* the positions the two loops are at
  fmt_status,    \* 1 between { and }
  fmt_begin,     \* where { stood
  nstr,          \* literal text not yet in vec
  str, fmt,      \* name and format of the item being read
  vec,           \* what has been read: type 0 is literal text, 1 an item
  items,         \* m_items: the vec entry each prints, and how
  m_error

vars == <<pattern, pc, i, n, fmt_status, fmt_begin, nstr, str, fmt, vec,
          items, m_error>>
spec == <<n, fmt_status, fmt_begin, str, fmt>>

Size == Len(pattern)
Substr(a, b) == [k \in 1..(b - a + 1) |-> a + k - 1]     \* a up to b
Entry(text, format, type) == [text |-> text, fmt |-> format, type |-> type]
Flushed == IF nstr = << >> THEN vec ELSE Append(vec, Entry(nstr, << >>, 0))

\* The literal "<<pattern_error>>" stands at no position.
PatternError == Entry(<<0>>, << >>, 0)

\* The pattern Logger() creates its formatter from.
DefaultPattern == <<
    "%", "d", "{", "%", "Y", "-", "%", "m", "-", "%", "d", " ", "%", "H",
    ":", "%", "M", ":", "%", "S", "}", "%", "T", "%", "t", "%", "T", "%",
    "N", "%", "T", "%", "F", "%", "T", "[", "%", "p", "]", "%", "T", "[",
    "%", "c", "]", "%", "T", "%", "f", ":", "%", "l", "%", "T", "%", "m",
    "%", "n">>
-----------------------------------------------------------------------------
(* Plausible bugs of the steps below, which the properties must notice.    *)

\* CloseItem, going on one character too far.
CloseItemSkips ==
  /\ pc = "close" /\ fmt_status = 0
  /\ vec' = Append(Flushed, Entry(str, fmt, 1))
  /\ nstr' = << >>
  /\ i' = n + 1
  /\ pc' = "scan"
  /\ UNCHANGED <<pattern, spec, items, m_error>>

\* CloseItem, the pending text being put in after the item.
CloseItemLateText ==
  /\ pc = "close" /\ fmt_status = 0
  /\ vec' = Append(vec, Entry(str, fmt, 1))
  /\ i' = n
  /\ pc' = "scan"
  /\ UNCHANGED <<pattern, spec, nstr, items, m_error>>

\* CloseError, starting over at the same %.
CloseErrorAgain ==
  /\ pc = "close" /\ fmt_status = 1
  /\ m_error' = TRUE
  /\ pc' = "scan"
  /\ UNCHANGED <<pattern, spec, i, nstr, vec, items>>

\* AtEnd, without the text after the last item.
AtEndDropsText ==
  /\ pc = "scan" /\ i > Size
  /\ pc' = "build"
  /\ UNCHANGED <<pattern, spec, i, nstr, vec, items, m_error>>

\* OpensFormat, a { being a character like any other.
NeverOpens == FALSE

\* EndsName, a name also ending at a }.
EndsNameAtBrace == fmt_status = 0 /\ pattern[n] \notin Letters \cup {"{"}

-----------------------------------------------------------------------------
(* The outer loop.                                                         *)

Percent == i <= Size /\ pattern[i] = "%"
Doubled == i + 1 <= Size /\ pattern[i + 1] = "%"

\* A character that stands for itself; also the first of two %.
Literal ==
  /\ pc = "scan" /\ i <= Size
  /\ Percent => Doubled
  /\ nstr' = Append(nstr, i)
  /\ i' = i + 1
  /\ UNCHANGED <<pattern, pc, spec, vec, items, m_error>>

BeginItem ==
  /\ pc = "scan" /\ Percent /\ ~Doubled
  /\ pc' = "spec"
  /\ n' = i + 1
  /\ fmt_status' = 0 /\ fmt_begin' = 0
  /\ str' = << >> /\ fmt' = << >>
  /\ UNCHANGED <<pattern, i, nstr, vec, items, m_error>>

-----------------------------------------------------------------------------
(* The inner loop, over the characters after a %.                          *)

Scanning == pc = "spec" /\ n <= Size
EndsName == fmt_status = 0 /\ pattern[n] \notin Letters \cup {"{", "}"}
OpensFormat == fmt_status = 0 /\ pattern[n] = "{"
ClosesFormat == fmt_status = 1 /\ pattern[n] = "}"

StopName ==
  /\ Scanning /\ EndsName
  /\ str' = Substr(i + 1, n - 1)
  /\ pc' = "close"
  /\ UNCHANGED <<pattern, i, n, fmt_status, fmt_begin, nstr, fmt, vec, items,
                 m_error>>

OpenFormat ==
  /\ Scanning /\ OpensFormat
  /\ str' = Substr(i + 1, n - 1)
  /\ fmt_status' = 1
  /\ fmt_begin' = n
  /\ n' = n + 1
  /\ UNCHANGED <<pattern, pc, i, nstr, fmt, vec, items, m_error>>

CloseFormat ==
  /\ Scanning /\ ClosesFormat
  /\ fmt' = Substr(fmt_begin + 1, n - 1)
  /\ fmt_status' = 0
  /\ n' = n + 1
  /\ pc' = "close"
  /\ UNCHANGED <<pattern, i, fmt_begin, nstr, str, vec, items, m_error>>

\* Any other character; the last one of the pattern ends the name.
NextChar ==
  /\ Scanning /\ ~EndsName /\ ~OpensFormat /\ ~ClosesFormat
  /\ n' = n + 1
  /\ str' = IF n = Size /\ str = << >> THEN Substr(i + 1, Size) ELSE str
  /\ UNCHANGED <<pattern, pc, i, fmt_status, fmt_begin, nstr, fmt, vec, items,
                 m_error>>

NoMore ==
  /\ pc = "spec" /\ n > Size
  /\ pc' = "close"
  /\ UNCHANGED <<pattern, i, spec, nstr, vec, items, m_error>>

CloseItem ==
  /\ pc = "close" /\ fmt_status = 0
  /\ vec' = Append(Flushed, Entry(str, fmt, 1))
  /\ nstr' = << >>
  /\ i' = n
  /\ pc' = "scan"
  /\ UNCHANGED <<pattern, spec, items, m_error>>

\* A { without its }: the text already read stays pending, and the characters
\* after the % are read again as literal text.
CloseError ==
  /\ pc = "close" /\ fmt_status = 1
  /\ m_error' = TRUE
  /\ vec' = Append(vec, PatternError)
  /\ i' = i + 1
  /\ pc' = "scan"
  /\ UNCHANGED <<pattern, spec, nstr, items>>

-----------------------------------------------------------------------------
(* The end of the pattern, and the loop that turns vec into m_items.       *)

AtEnd ==
  /\ pc = "scan" /\ i > Size
  /\ vec' = Flushed
  /\ pc' = "build"
  /\ UNCHANGED <<pattern, spec, i, nstr, items, m_error>>

Known(e) == Len(e.text) = 1 /\ pattern[e.text[1]] \in ItemLetters
ItemFor(e) == CASE e.type = 0 -> "text"
                [] e.type = 1 /\ Known(e) -> "item"
                [] OTHER -> "error_format"

BuildItems ==
  /\ pc = "build"
  /\ items' = [k \in DOMAIN vec |-> ItemFor(vec[k])]
  /\ m_error' = (m_error \/ \E k \in DOMAIN vec :
                              ItemFor(vec[k]) = "error_format")
  /\ pc' = "done"
  /\ UNCHANGED <<pattern, i, spec, nstr, vec>>

-----------------------------------------------------------------------------
Init ==
  /\ pattern \in Patterns
  /\ pc = "scan"
  /\ i = 1 /\ n = 1 /\ fmt_status = 0 /\ fmt_begin = 0
  /\ nstr = << >> /\ str = << >> /\ fmt = << >>
  /\ vec = << >> /\ items = << >> /\ m_error = FALSE

Parse == \/ Literal \/ BeginItem
         \/ StopName \/ OpenFormat \/ CloseFormat \/ NextChar \/ NoMore
         \/ CloseItem \/ CloseError
         \/ AtEnd \/ BuildItems

Finished == pc = "done" /\ UNCHANGED vars

Next == Parse \/ Finished
Spec == Init /\ [][Next]_vars

\* The constructor runs init() to its end.
FairSpec == Spec /\ WF_vars(Parse)
=============================================================================
