--------------------------- MODULE MCLogFormatter ---------------------------
(* All short patterns over one character of each kind the parser tells     *)
(* apart, and the default pattern; two clients print with a few of them.   *)
EXTENDS LogFormatterProperties, LogLine

CONSTANTS MaxLength, c1, c2, console, file, cout, ofstream

Kinds == {"%", "{", "}", "d", "x", "."}
ShortPatterns == UNION {[1..k -> Kinds] : k \in 0..MaxLength}
DocumentedPatterns == {DefaultPattern, <<"%", "%">>}

LinePatterns ==
  {DefaultPattern,
   <<"%", "m">>,
   <<"%", "c", "%", "m", "%", "n">>,
   <<"%", "d", "{", "%", "H", "}", "[", "%", "p", "]", "%", "x", "%", "m">>}
ParsedPatterns == ShortPatterns \cup LinePatterns

LoggerOf == [c \in {c1, c2} |-> IF c = c1 THEN "root" ELSE "lib"]
ConsoleAndFile == <<console, file>>
OwnStreams == [a \in {console, file} |-> IF a = file THEN ofstream ELSE cout]

AllLetters == {"c", "d", "f", "l", "m", "n", "p", "r", "t", "x",
               "F", "H", "M", "N", "S", "T", "Y"}
AllItems == {"m", "p", "r", "c", "t", "n", "d", "f", "l", "T", "F", "N"}

\* Of the short patterns init() accepts exactly those that split into text and
\* items of known letters (Log.cpp:437-540).  For longer ones there are too
\* many splits to look through; AcceptedExactly in LogFormatterProofs is about
\* all of them.
ShortAcceptedExactly == Len(pattern) <= MaxLength => AcceptsWellFormed
=============================================================================
