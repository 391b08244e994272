------------------------------ MODULE LogDefine ------------------------------
(***************************************************************************)
(* LogDefine and LogAppenderDefine of Log/Log.cpp: the configuration of    *)
(* loggers, and its conversions from and to YAML.  A YAML map is a record  *)
(* of the fields the code looks for, Null where the map has none.          *)
(***************************************************************************)
EXTENDS Integers, Sequences

CONSTANT Null

\* The YAML maps of an appender and of a logger.
Maybe(S) == S \cup {Null}
AppenderMap == [type: Maybe(STRING), file: Maybe(STRING), level: Maybe(STRING),
                formatter: Maybe(STRING)]
LoggerMap == [level: Maybe(STRING), formatter: Maybe(STRING),
              appenders: Maybe(Seq(AppenderMap))]

ASSUME NullAssumption == Null \notin STRING \cup Seq(AppenderMap)

UNKNOW == 0
LevelNames == <<"DEBUG", "INFO", "WARN", "ERROR", "FATAL">>
LowerNames == <<"debug", "info", "warn", "error", "fatal">>

ToString(l) == IF l = UNKNOW THEN "UNKNOW" ELSE LevelNames[l]
FromString(s) ==
  LET Named == {l \in DOMAIN LevelNames : s \in {LevelNames[l], LowerNames[l]}}
  IN IF Named = {} THEN UNKNOW ELSE CHOOSE l \in Named : TRUE

File == 1
Stdout == 2
TypeName == <<"FileLogAppender", "StdoutLogAppender">>

\* True of these strings as of any, which the provers have to be told.
ASSUME StringAssumption ==
  /\ "" \in STRING
  /\ \A l \in DOMAIN LevelNames : LevelNames[l] \in STRING
  /\ \A t \in DOMAIN TypeName : TypeName[t] \in STRING

Field(x, default) == IF x = Null THEN default ELSE x
Unless(x, default) == IF x = default THEN Null ELSE x

\* What a loop over s that passes over the places outside I has after each turn,
\* and in the end.
Taken(s, I) ==
  LET taken[k \in 0..Len(s)] ==
        IF k = 0 THEN << >>
        ELSE IF k \in I THEN Append(taken[k - 1], s[k]) ELSE taken[k - 1]
  IN taken
Picked(s, I) == Taken(s, I)[Len(s)]

-----------------------------------------------------------------------------
(* LexicalCast<std::string, LogDefine>: an appender it cannot read is left *)
(* out, and the level of an appender is not read.                          *)

Readable(a) == \/ a.type = TypeName[File] /\ a.file # Null
               \/ a.type = TypeName[Stdout]

ReadAppender(a) ==
  LET type == CHOOSE k \in {File, Stdout} : TypeName[k] = a.type
  IN [type |-> type, level |-> UNKNOW, formatter |-> Field(a.formatter, ""),
      file |-> IF type = File THEN a.file ELSE ""]

ReadDefine(n) ==
  LET maps == Field(n.appenders, << >>)
      read == Picked(maps, {k \in DOMAIN maps : Readable(maps[k])})
  IN [level |-> FromString(Field(n.level, "")),
      formatter |-> Field(n.formatter, ""),
      appenders |-> [k \in DOMAIN read |-> ReadAppender(read[k])]]

\* LogDefine::operator==, between definitions of one name.  It compares the
\* appenders of one of them with themselves.
Same(d, e) == d.level = e.level /\ d.formatter = e.formatter

-----------------------------------------------------------------------------
(* LexicalCast<LogDefine, std::string>.                                    *)

WriteLevel(l) == IF l = UNKNOW THEN Null ELSE ToString(l)

WriteAppenderDefine(a) ==
  [type |-> TypeName[a.type], file |-> IF a.type = File THEN a.file ELSE Null,
   level |-> WriteLevel(a.level), formatter |-> Unless(a.formatter, "")]

\* WriteDefine, bug: the formats of the appenders are left out.
WriteDefineBare(d) ==
  [level |-> WriteLevel(d.level), formatter |-> Unless(d.formatter, ""),
   appenders |-> Unless([k \in DOMAIN d.appenders |->
                           [WriteAppenderDefine(d.appenders[k])
                            EXCEPT !.formatter = Null]], << >>)]

WriteDefine(d) ==
  [level |-> WriteLevel(d.level), formatter |-> Unless(d.formatter, ""),
   appenders |-> Unless([k \in DOMAIN d.appenders |->
                           WriteAppenderDefine(d.appenders[k])], << >>)]

-----------------------------------------------------------------------------
(* Logger::toYamlString and LogAppender::toYamlString.                     *)

WriteAppender(a) ==
  [type |-> TypeName[a.type], file |-> IF a.type = File THEN a.file ELSE Null,
   level |-> WriteLevel(a.level),
   formatter |-> IF a.own THEN a.formatter ELSE Null]

WriteLogger(l, f, appenders) ==
  [level |-> WriteLevel(l), formatter |-> f,
   appenders |-> Unless([k \in DOMAIN appenders |->
                           WriteAppender(appenders[k])], << >>)]
=============================================================================
