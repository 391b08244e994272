----------------------------- MODULE MCLogConfig -----------------------------
(* Three loggers, each with one of a few definitions or none.              *)
EXTENDS LogConfigProperties

Appender(type, file, lvl, format) ==
  [type |-> type, file |-> file, level |-> lvl, formatter |-> format]
ToFile(lvl, format) == Appender("FileLogAppender", "a.log", lvl, format)
ToOther == Appender("FileLogAppender", "b.log", Null, Null)
ToStdout(format) == Appender("StdoutLogAppender", Null, Null, format)
NoFile == Appender("FileLogAppender", Null, Null, Null)
NoType == Appender("SyslogAppender", Null, Null, Null)

Map(lvl, format, list) ==
  [level |-> lvl, formatter |-> format, appenders |-> list]

\* Definitions that differ in more than their appenders.
Maps == {
  Map("info", "%m", <<ToStdout(Null), ToFile(Null, "%d")>>),
  Map("WARN", "%m", <<NoFile, ToFile(Null, "%"), ToOther, NoType>>),
  Map(Null, Null, Null),
  Map("none", "%", <<ToFile(Null, Null), ToStdout("%p")>>)}

\* Two that do not.
Alike == {Map("info", "%m", <<ToStdout(Null)>>),
          Map("info", "%m", <<ToStdout(Null), ToOther>>)}

TextsOf(maps) == UNION {[S -> maps] : S \in SUBSET Names}
AllTexts == TextsOf(Maps)
AlikeTexts == TextsOf(Alike)
=============================================================================
