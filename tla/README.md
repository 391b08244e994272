# Rabbit_LogDB: a TLA+ project

Rabbit_LogDB is two libraries in one repository: a logging library in the
style of log4j (`Log/`, namespace `RabbitLog`), and the beginnings of an
LSM-tree key-value store (`DB/`, after LevelDB).  The logging library has all
the running code; the store is mostly declarations.  This directory models the
parts that have code, checks the models with TLC on small instances and proves
the main invariants with TLAPS for all instances.

Contents: [how the source is read](#how-the-source-is-read) -
[inventory](#inventory) - [modules](#modules) - [runs](#runs) -
[what disagrees with the documentation](#where-code-and-documentation-disagree) -
[fairness](#fairness) - [proofs](#proofs) - [limits](#what-is-not-covered) -
[plan](#plan).

Paths below are relative to `src/`; a bare line number is one of
`Log/Log.cpp`.

## How the source is read

The repository is work in progress and does not compile as it stands.  Where a
line has one sensible reading, the models take it:

| source | reading |
|---|---|
| `MutexType::Lock lock(m_mutex)` everywhere in `Log/Log.cpp`; `Mutex` in `Utils/mutex.h` has `lock`/`unlock` but no `Lock` | a scoped lock of a plain, non-recursive pthread mutex |
| `typedef MutexType;` (`Log.h:256`) | `typedef Mutex MutexType;`, as in `Logger` and `LoggerManager` |
| `i=>m_formatter` (251) | `i->m_formatter` |
| `class MessageFormatItem::public ...` (93), `Loggger::ptr` (149) | `class MessageFormatItem : public ...`, `Logger::ptr` |
| `DataTimeFormatItem` (155), used as `DateTimeFormatItem` (515) | one class |
| `LogAppender`'s protected members used by `Logger`, `Logger`'s private ones by `LoggerManager` | accessible (the missing friend declarations are there) |
| `toYamlString` of `FileLogAppender` (366), not declared in `Log.h` | declared: it overrides `LogAppender`'s |
| `clearAppenders` (`Log.h:352-354`), called at 724 and 757, never defined | empties `m_appenders`, as its comment says; external |
| `return LogLevel::Level;` in the macro of `LogLevel::FromString` (29), whose parameter is `level` | `return LogLevel::level;`, the constant |
| `LogLevel` and `sylar::` names of the configuration code (566-760) | the library's own `LogLevel`; `ConfigVar`, `EnvMgr`, `YAML`, `FSUtil` are external and modelled from their uses |

Unlocked reads and writes of `m_level` and `m_lastTime` are data races on
words of one machine access: the models make each an atomic step, so a reader
sees the old or the new value.

## Inventory

### Logger core (`Log/Log.cpp`, `Log/Log.h`)

* **State.** `Logger`: level, formatter, list of appenders, pointer to the root
  logger, mutex.  `LogAppender`: level, formatter, `m_hasFormatter`, mutex.
  `LoggerManager`: map of loggers, mutex.
* **Operations.** `Logger::log` (and `debug` .. `fatal`, the `LogEventWrap`
  destructor), `setFormatter`, `addAppender`, `delAppender`, `setLevel`,
  `toYamlString`; `LogAppender::log`, `setFormatter`, `getFormatter`,
  `setLevel`, `toYamlString`; `LoggerManager::getLogger`, `toYamlString`.
* **Interaction.** A logger calls its appenders and, when it has none, the root
  logger, all with its own mutex held.  The manager's dump calls every logger,
  which calls every appender, all mutexes nested.
* **Hard.** Nested mutexes on several paths; lists iterated by one thread and
  changed by another; the level tested with no mutex; the appender's formatter
  tested and set under two separate holds of its mutex.
* **Correct when** the locks exclude each other and never deadlock, no list
  changes under an iteration, every event is written once per target in one
  order, no appender is used without a formatter, and an appender has its own
  formatter or its logger's present one.

### Pattern parser (`LogFormatter::init`, 433-540)

* **State.** The pattern, two indices, the status of `{}`, the text read so
  far, the list `vec` of what was read, the items, `m_error`.
* **Operations.** One pass over the pattern with an inner loop for each `%`,
  then the items are made from `vec`.  Runs in the constructor; a formatter
  never changes afterwards.
* **Hard.** Unsigned indices set back by one for a loop to count up again; an
  item that ends at the last character takes another path; text is flushed
  into `vec` at a distance from where it was read.
* **Correct when** no character outside the pattern is read, parsing ends,
  exactly the well-formed patterns are accepted, and those are kept whole and
  in order.

### File appender (`FileLogAppender`, 346-388)

* **State.** The stream, `m_lastTime`, the mutex it shares with the formatter.
* **Operations.** `log`: when the event is three seconds newer than
  `m_lastTime`, `reopen()` (its own hold of the mutex), store `m_lastTime`
  (no mutex), then write (a second hold).
* **Interaction.** Called by `Logger::log` of any logger it was added to, so
  by several threads; the file system moves its file and fails.
* **Hard.** The test, the reopening and the store are not one step, and events
  reach the appender out of the order of their times.
* **Correct when** the stream is one thread's at a time, a file moved away is
  let go in time, and an outage of the file system ends in time.

### Configuration (`LogDefine`, `LogIniter`, 565-762)

* **State.** The configuration `logs`: for each logger a level, a pattern and
  appenders, in YAML.
* **Operations.** Reading and writing of it, `operator==`, and the listener
  that turns an old and a new configuration into calls on the loggers.
* **Interaction.** `ConfigVar` calls the listener, the listener calls
  `setLevel`, `setFormatter`, `clearAppenders`, `addAppender` of the loggers,
  while other threads log through them.
* **Hard.** Every configuration can follow every other; a logger is changed in
  several calls that others see between; what counts as changed hangs on
  `operator==`.
* **Correct when** the loggers end as the configuration says from wherever they
  started, removed loggers have no targets of their own, unchanged ones are left alone, no event
  meets old and new appenders, and what is reported reads back.

### Events and items (46-238, 407-430)

* **State.** `LogEvent` is a record that one thread fills; its content is a
  string stream.  A format item has none but a time format.
* **Operations.** `getSS() <<` and `format` append content; the destructor of
  `LogEventWrap` logs the event (50-52); `LogFormatter::format` prints a line
  item by item into the stream of an appender (425-430).
* **Interaction.** A line is printed with the appender's mutex held, and with
  the mutex of each logger on the way.
* **Hard.** Several threads print on one stream; an item prints the name of the
  event's logger, not of the one that writes it (the root, when it was
  forwarded); two appenders on one stream hold different mutexes.
* **Correct when** every line is unbroken, has all that was streamed into its
  event, and names the event's logger.

### The store (`DB/`)

`Slice`, `Status`, the inline parts of `dbformat.h`, `Arena::Allocate` and
`MemTable::Ref`/`Unref` have bodies.  Nothing in the repository calls them.

* **`Status`** owns an array with code and message, or holds null for success.
  Copies duplicate the array, moves hand it over, the assignment from a moved
  status exchanges the arrays.  Hard: self-assignment, and every sequence of
  copies, moves and destructions.  Correct when each array has one owner, none
  is lost or used after it was deleted, and a status behaves as a value.
* **`Arena`** hands out memory from the rest of the last block.  Hard: the
  request for exactly what is left.  Correct when allocations share no byte
  and lie in blocks the arena owns.
* **`MemTable`** counts the references its owners hold, starting at none, and
  deletes itself, with the arena that is a member of it, when the last is
  dropped.  Correct when it lives as long as it is held and its memory no
  longer.
* **Keys and slices.** An internal key is a user key and a tag with sequence
  number and type; keys sort by user key, then newest first; a lookup key is
  built so that the first entry not before it is the newest one visible.
  Correct when every lookup finds that entry, when slices compare as in a
  dictionary, and when the comparisons agree with each other.

`SkipList` has a constructor and one accessor of its nodes; `DBImpl`,
`WriteBatch`, the iterators, the versions and everything in `DBOld` are
declarations or empty bodies.

## Modules

| module | models | state and actions |
|---|---|---|
| `LoggerState` | objects, mutexes and threads of the logger core | `level`, `formatter`, `appenders` of loggers; `alevel`, `hasFormatter`, `aformatter` of appenders; `registry` is `m_loggers`; `owner` the mutexes; `pc` and the locals `self`, `from`, `app`, `fmt`, `lvl`, `idx`, `todo` the call each thread is in; `out` what every appender has written |
| `Logger` | the methods, one action per stretch of code between two points where another thread can observe or block | `LogCall` .. `LogReturn` (`Logger::log`, 307-324), `SetFormatter...` (244-266), `Add...` (292-300), `Del...` (302-305), `OwnFormatter...` (75-86), `Get...` (552-563), `Yaml...` (765-774) |
| `LoggerProperties` | what the core has to guarantee | |
| `LoggerProofs` | theorems and proofs | |
| `LogService` | what the core promises of events, with no thread and no mutex: every logger is a serial server | `targets`, `handling`, `pos`, `out`; `Begin`, `Offer`, `End`, `Attach`, `Clear` |
| `LogServiceProofs` | the service writes in one order | |
| `LoggerServiceProofs` | `Logger` implements `LogService` | |
| `LogFormatter` | `LogFormatter::init` | one action per branch of the loops; a string is the sequence of the positions of its characters in the pattern |
| `LogFormatterProperties`, `LogFormatterProofs` | properties; theorems and proofs | |
| `LogLine` | events, their wrapper, and `LogFormatter::format` printing with the items `LogFormatter` has made | `content` is `m_ss`; `holder` the appenders' mutexes; `stream` what each stream received. `Write`, `Destroy`, `LockTarget`, `PrintItem`, `UnlockTarget` of each client |
| `FileLogAppender` | `FileLogAppender::log` and `reopen` with the file system around them | `Test`, `ReopenLock`, `Reopen`, `Stamp`, `Lock`, `Write` of a thread; `Tick`, `Rotate`, `Fail`, `Heal` of the world |
| `FileLogAppenderProperties`, `FileLogAppenderProofs` | properties; theorems and proofs | |
| `LogDefine` | levels by name, reading, writing and comparing definitions | operators only |
| `LogConfig` | `ConfigVar::setValue` and the listener | `SetValue`; `Skip`, `SetLevel`, `SetFormatter`, `ClearAppenders`, `AddAppender`, `NextLogger` for the configured loggers; `BeginRemoval`, `RemoveLevel`, `RemoveAppenders` for the removed ones; `Store`. A client's event beside it: `EventCall` (the level test), `EventLock`, `EventWrite`, `EventForward`, `EventReturn` |
| `LogConfigProperties`, `LogConfigProofs` | properties; theorems and proofs | |
| `Slice` | comparison of byte strings, `remove_prefix` | operators only |
| `SliceProperties` | a slice that loses bytes at its front, compared with another; what the comparisons have to agree with | `slice`, `other`; the step is `remove_prefix` |
| `DBFormat` | internal keys and lookup keys | operators only; extends `Slice` |
| `Arena` | `Arena::Allocate` | `alloc_ptr`, `alloc_bytes_remaining`, `blocks`, `allocated`; `AllocateFromBlock`, `AllocateFallback`, `Free` |
| `MemTable` | a table with its arena and its keys | `refs_`, `deleted`, `table`; `Ref`, `Unref`, `Add`; `Seek` and `Get` are operators. Composes `DBFormat` and `Arena` |
| `MemTableProofs` | theorems and proofs | |
| `StatusValue` | what `Status` promises: a value | one variable; `Construct`, `Copy`, `Move`, `Assign`, `Exchange`, `Destroy` |
| `Status` | `Status` with its arrays on a heap | `live`, `state_`, `heap`; one action per special member |
| `StatusProperties`, `StatusProofs` | ownership and the refinement of `StatusValue`; theorems and proofs | |
| `MC...` | the instances TLC checks: small sets, initial lists of appenders, symmetry | |

`Logger` extends `LoggerState`; each `...Properties` module extends the module
it is about (`Arena` and `MemTable` state theirs at their end), each `MC...`
and `...Proofs` module extends the properties.  In each model the operators before the first action with comments of the form
"X, with ..." are plausible bugs of X; no specification uses them.

Three abstractions connect the modules.  In `Logger` a formatter is a value and
writing an event is one step: how a pattern becomes items is `LogFormatter`,
how items become a line is `LogLine`, how writing goes to a file is
`FileLogAppender`.  In `LogConfig` one call of the listener on a logger is one
step, which waits while an event holds that logger's mutex, because `Logger`
shows that a call excludes the others on the same object (`MutualExclusion`,
`ListStableWhileIterated`); the client's event is not one step, since the test
of its level comes before the mutex and its forwarding to the root takes a
second one.  In `LogLine` the loggers' mutexes are left out: every client logs
through a logger of its own, which is the case in which they do not help.

History variables, which the code does not have: `out` and `calls` in the
logger core, `line`, `moved`, `healed` and `filled` in the file appender,
`before`, `ever` and the `wrote` of `event` in the configuration, `holders`
and `allocated` in the table.

## Runs

| run | question | bounds, and why they are enough |
|---|---|---|
| `LoggerLocks` | With every method in play: `MutualExclusion`, `OwnershipMatchesCalls`, `NoNullFormatter`, `ListStableWhileIterated`, `LockOrder`, `NoDeadlock`, and under fairness `CallsReturn` | No symmetry, for liveness. Two threads, two calls each, two loggers and two appenders, from the state in which the singleton leaves the program.  A conflict is between two calls; the first call of each thread brings the state into which the second runs.  The proofs cover all sizes |
| `LoggerEvents` | `WrittenOncePerEntry`, `SameOrder`, and the refinement `SerialService`: where events go while targets are added, removed and filtered | A logger with two targets and one that forwards; events below and above what filters are set to.  Two events of two loggers and two targets are what a disagreement needs |
| `LoggerFormatters` | `OwnFormatterKept`, `InheritedFormatterCurrent` for a program that gives an appender its own formatter before it shares it | Three calls per thread: register, add, set in all orders; two logger formatters, so that an old one shows |
| `LoggerDelAppender` | finding: `DelKeepsOthers`, for calls whose argument is in the list | a logger with two targets, one call per thread |
| `LoggerOwnFormatter` | finding: `OwnFormatterKept` without the discipline of `LoggerFormatters` | one call per thread |
| `LogFormatterParse` | `InOrder`, `NothingLost`, `DefaultAccepted`, `ShortAcceptedExactly`, `Terminates`, the bounds of the indices in `TypeOK`, and `LinesWhole` for two clients that print with the items | All patterns of up to five characters out of `%`, `{`, `}`, an item letter, another letter and another character, which are the classes the parser tells apart; five is a whole `%x{x}` or one item and what surrounds it; and the default pattern. Lines: two clients, two targets with a stream each, up to two pieces of content, four patterns with every kind of item; two lines on one stream are what an interleaving needs |
| `LogFormatterEscape` | finding: `EscapeAccepted` | the pattern `%%` |
| `FileLogAppenderRotation` | `StreamExclusive`, `RotationNoticed`, `OutageBounded` | Two threads, seven seconds (two reopenings and the second after), one rotation, any number of outages and full disks |
| `FileLogAppenderReopen` | finding: `ReopenOpens` | one thread, one file |
| `LogConfigApply` | `Applied`, `RemovedSilent`, `OldOrNew`, `FormatsInherited`, `DumpReadsBack`, `SavedReadsBack`, `Undisturbed`, with a client's event before, between and after any two steps of the listener | Every configuration of two loggers, the root among them, after every other and any number of times; four definitions with no, valid and invalid patterns and levels, unreadable appenders among readable ones, in daemon mode and not.  No two of them differ in their appenders alone |
| `LogConfigAppenders` | finding: `Applied` for two that do | one logger |
| `Store` | `OneOwner`, `NoLeak`, `ValueSemantics`; `KeptWhileHeld`, `AllocationsApart`, `SeekFindsNewest`; `SlicesOrdered` | Three statuses, two messages, four arrays: one more array than statuses, so that a copy is made before or after any deletion. Three owners, four entries of two keys of which one is a prefix of the other, three places for blocks of 24 bytes, in which entries fit exactly, with a rest, and not. All slices of up to three bytes out of 0, 1 and 255 |

Deadlock checking is on in every run but `Store`: a deleted table, a slice
whose bytes are taken off, and a table that has used up the bounded entries
have nothing more to do.  `Finished` in `Logger` is the one step of a program
whose bounded calls have all returned, `AllPrinted` in `LogLine` that of one
whose clients have logged their events.

What the properties mean:

* `WrittenOncePerEntry`: at the end of `Logger::log` each target has the event
  at most once for each time it is in the list, and exactly so often if the
  event is at the highest level any filter is set to.
* `SameOrder`: no two targets of a logger disagree on the order of two events
  which that logger wrote.  It is per logger: two loggers sharing an appender
  hold different mutexes.
* `OwnFormatterKept`: `m_hasFormatter` is only set while `m_formatter` is one a
  client gave.  `InheritedFormatterCurrent`: an appender without an own one has
  the formatter the logger has now.
* `InOrder` and `NothingLost`: the positions that the entries of `vec` name are
  in ascending order, and every position but those of `%`, `{` and `}` is among
  them.
* `ShortAcceptedExactly`, which is `AcceptsWellFormed` for the patterns of up to
  five characters: `m_error` is set at the end exactly if the pattern does
  not split into text and items.  An item is `%` and a known letter, with a
  format up to the first `}` or with a character after it that ends a name.  A
  `%` is text only if another `%` follows it, so that `%%d` is the text `%` and
  the item `%d`, and `%%` and `a%%b` are errors: what the code does, not what
  its comment says (finding 3).  `WellFormed` looks for a split among all there
  are, which for the default pattern are too many: that one is
  `DefaultAccepted`, and every pattern is the theorem `AcceptedExactly`.
* `RotationNoticed`: the file that was moved away at second `s` gets no event
  of second `s + 3` or later.  `OutageBounded`: with no write ever failed, an
  event that is lost while the file system works is of less than three seconds
  after the outage.  Both are about the second of the event, not of the
  writing: a thread may hold an event for any time before it logs it.
* `SerialService`: `Logger` implements `LogService`, which writes an event into
  the list a logger had when it took the event, entry after entry, takes no
  other meanwhile and no event twice.  The mapping: a logger handles an event
  while the thread that owns its mutex is in the loop of `Logger::log`, at the
  place `idx` of that thread.  A forwarded event is one of both loggers.
* `LinesWhole`: when `Logger::log` has returned, each stream has the event's
  line in one piece, with everything streamed before the wrapper's end.
* `OldOrNew`: what one event has been written to is the beginning of the old
  targets of the logger it is at, or of its new ones.  An event that is at the
  root because its own logger was empty for a moment is judged there.
* `ValueSemantics`: `Status` implements `StatusValue`, a status being the
  message it points to.
* `SeekFindsNewest`: for every key and sequence number, what a lookup key finds
  is the newest entry of that key which is not younger, found by definition.
* `SlicesOrdered`: `compare` is the order of a dictionary, and `==`,
  `starts_with` and `remove_prefix` agree with it.

## Where code and documentation disagree

Each is a run that TLC finds violated.

1. `LoggerDelAppender`: `delAppender(appender)` clears the whole list (304)
   where `Log.h:347-348` documents it to delete one target.  In the trace a
   thread calls `delAppender(file)` on a logger with the targets `file` and
   `extra`, and both are gone.  In the model as in the code any appender may be
   the argument; the property is about those that are in the list.
2. `LoggerOwnFormatter`: `addAppender` tests and assigns the appender's
   formatter under two holds of its mutex (294-298).  A formatter set between
   is overwritten while `m_hasFormatter`, "has a formatter of its own"
   (`Log.h:293`), stays true; from then on the appender follows neither.
3. `LogFormatterEscape`: `%%`, listed over `init()` (432), is parsed as a `%`
   followed by an item with an empty name, an error; so is `a%%b`, whose second
   `%` begins the unknown item `b`.
4. `FileLogAppenderReopen`: `reopen()` closes the file if the stream is *good*
   (384), not if it is open.  After one failed write the stream is not good, is
   never closed, and opening it again fails: the appender is silent for good.
   This assumes that `FSUtil::OpenForWrite`, which is not in the repository,
   calls `open` on the stream it is given, and that opening an open
   `std::ofstream` fails, as the standard says.
5. `LogConfigAppenders`: `operator==` compares `appenders` with itself (589),
   so that a configuration which changes only a logger's appenders changes
   nothing.

Not runs, but met on the way: the default format documented at `Log.h:192`
contains `%[`, which the parser reads as an item with an empty name, an error;
the pattern the constructor really uses (241) has none.
`Logger::setFormatter(string)` reports an invalid pattern and installs it
(258-265).  An appender that is removed and added again keeps the format it
inherited the first time (294 asks for any formatter, not an own one).

## Fairness

`FairSpec` of `Logger` (`LoggerLocks`) has weak fairness of `Run(t)` for each thread: the
operating system runs every thread that can run.  No client is made to call
anything.  With `MaxCalls` calls per thread a mutex is wanted by finitely many
calls, so weak fairness is enough; with unboundedly many, a pthread mutex
promises no thread its turn, and `CallsReturn` would need mutexes that are
fair.  What the run shows is that no path keeps a mutex for good.

`FairLineSpec` of `LogLine` (`LogFormatterParse`) has weak fairness of the
parser, which is one thread that runs on, and of nothing the clients do.  The
other models have safety properties only.

## Proofs

All proofs are for any values of the constants that satisfy the named
assumption in the declaring module; TLC evaluates these on every run.

**`LoggerProofs`** (`LoggerAssumption`).  `TypeCorrect` is inductive alone.
`LockInv` adds `CallsOK` (a call forwarded is in the root; a loop body has an
entry) and `OwnershipMatchesCalls`: a mutex is owned by `t` exactly if the
point `t`'s call has reached is between a lock and its unlock.  It is needed
because the properties speak of either the mutexes or the calls.  From it:
`NoTwoInside` (one owner per mutex), `ListsStable` (a list is changed only by
the owner of its logger's mutex, and who iterates is the owner), `Ordered`
(what a call holds ranks below what it wants).  `DeadlockFree` takes a blocked
call that wants a mutex of the highest rank: its owner is in a call, and wants
a mutex of a yet higher rank or none.  `FormattersPresent` has a further
invariant, `FormatInv`: an appender in any list, or past `addAppender`'s
assignment, has a formatter, and no logger's formatter is null; its hypothesis
is that clients pass no null formatter.

Two theorems have the hypothesis that makes `LoggerFormatters` pass.
`OwnFormattersStay` assumes `PrivateSetup`: an appender gets a formatter of its
own only before it is shared.  `OwnInv` says what follows from that: nobody
else has such an appender in hand, so that none appears between the two holds
in `addAppender`.  `InheritedFormattersFollow` assumes `OneHome`: besides, an
appender may be attached to one logger only, and `delAppender` is not called.
Its invariant, `InheritInv`, says where an appender may lag behind its logger:
in a list that a `setFormatter` in progress is looping over, at a place the
loop has not reached.

**`LogServiceProofs`**.  `ServiceOrdered`: in a system of serial servers no two
targets disagree on the order of two events of one server.  The invariant adds
`Latest`: once a target has the event its server is handling, that server adds
no other to it.

**`LoggerServiceProofs`** (`LoggerAssumption`).  `ImplementsService`: every step
of `Logger` is a step of `LogService` or changes nothing it sees.  The mapping
needs the lock invariant of `LoggerProofs` (the owner of a logger's mutex is
the thread in its loop), that no target has an event whose call has not begun
(`NoFuture`), and that the event of a call about to lock a logger has been
written by nobody (`ServeOK`), also when it was forwarded.  `OneOrder`, the
order of events in the code's own terms, is `ServiceOrdered` carried over by
the refinement.

`NothingLostOrDoubled` is proved there too, since it needs that nobody has
written an event before its call enters the loop (`ServeOK`).  `CountInv` says
of every call in the loop that each target has the event at most as often as it
stands in the list before `idx`, and exactly so often if the event is at the
highest level any target is ever set to; the list it counts in is the one the
call began with, because a call in the loop owns the mutex of the list.

**`LogFormatterProofs`** (`FormatterAssumption`), for a pattern of any length.
`FormatterInv` says that `vec` and `nstr` together hold what is spelled out
before position `i`, complete and in order (`ReadTo`), and that the name and
format being read are the characters from the `%` at `i` up to `n`
(`Spelled`).  One lemma per action; `InsidePattern`, `ParsedInOrder` and
`ParsedWhole` follow.

`AcceptedExactly` says which patterns are accepted: those that are `WellFormed`
(see `AcceptsWellFormed` above), and no others.  For the one direction,
`AcceptInv` says that the parser comes to the beginning of every item of the
split and to no place inside one.  For the other, `SplitInv` says that what
stands before `i`, as long as it was read without error, splits; it needs that
a format has no `}` inside (`FormatOpen`) and where a name alone has ended
(`ItemEnds`).
`DefaultPatternAccepted` cuts the pattern of `Logger()` that way; for it
`FormatterAssumption` names the letters of that pattern as keys of
`s_format_items` (510-521), and `[`, `]`, `:` as characters that are no letters.

`LinesArriveWhole` is about `LogLine`, with the hypothesis `OwnStreamEach`: no
two targets print on one stream.  Without it two appenders on one stream hold
different mutexes and do cut each other's lines.  `LineInv` says that
while a client prints at a target, the target's stream ends with the part of the
client's line that its items have printed so far (`Prints`), and that every
target before it has the line whole.

**`FileLogAppenderProofs`** (`FileAssumption`), for any number of threads,
files and seconds.  The invariant rests on one idea: the stream is never older
than `m_lastTime` says, nor than the event of a thread about to store it there
(`Fresh`), so who passes the test has a stream less than three seconds older
than its event (`Recent`).  `RotationInTime`, `OutageInTime` and `StreamOwned`
follow.

**`LogConfigProofs`** (`ConfigAssumption`), for any loggers and any
configurations of them.  `ListenerInv` says which loggers the listener has
still to look at in each loop, that the logger it is changing is one whose
definition is another, and which loggers are silent by now (`SilentSoFar`).
That a set of names has a first one, which the order of `std::set` supplies in
the code, comes from the library's theorem on the natural numbers.
`SilentWhenRemoved` and `LoggersLeftAlone` follow; `FormatsFollow` adds an
invariant on the lists alone.

`TypeCorrect` follows from `TypeInv`, of the listener, and `EventInv`, of the
event beside it.  `ConfigurationApplied` and `LoggersReadBack` rest on `WorkInv`, how far
the logger in hand has come (its level set, its list emptied, the first of the
new appenders in it), and `AppliedInv`, that every logger the listener is done
with, and every one it never had to change, is as configured.  Their hypothesis
`AppendersNotAlone` excludes exactly the finding of `LogConfigAppenders`: no two
texts define a logger with the same level and format and different appenders.
`EventsOldOrNew` has no such hypothesis.  `EventInv` follows an event through
the steps of the listener: once the event has a logger's mutex the listener
waits there, and what it has been written to are the first entries of that
logger's list.  `SidesInv` says that every list is at all times the old one,
empty, or a beginning of the new one.

`ConfigurationReadsBack` is about operators: reading what was written gives
back a definition that was read before.  Reading passes over what it cannot
read, in a loop; `Taken`, a recursive function, is that loop.  What it returns is shown by
the library's theorem that a set of natural numbers that is not empty has a
least element, applied to the set of turns at which the claim fails
(`NoCounterexample`): an induction that needs no operator as a parameter.
`StringAssumption` and `NullAssumption` of `LogDefine` say what no prover knows
by itself: that the names in the code are strings, and that a field which is
absent is not one.

**`StatusProofs`** (`StatusAssumption`).  `OneOwner` is not inductive without
`Owned`, that an array is allocated exactly if a status points to it: what an
assignment deletes must be nobody else's, and what `new` returns nobody's.
`OwnersAndArrays` is both, and `NoArrayLost` its other half: what is allocated
is what statuses point to.  `StatusIsAValue` is the refinement, one lemma per
special member.

**`MemTableProofs`** (`ArenaAssumption`, `MemTableAssumption`).  `EntriesApart`
rests on `RestIsFree`: what is left of the last block is in a block of the
arena and no allocation reaches into it.  `DeletedByTheLast` rests on the count
being the number of owners.

`LookupFindsNewest` needs that the keys of a table are internal keys with
distinct sequence numbers up to `sequence` (`TableInv`), and the order of keys:
by user key, then by sequence number, the highest first, where a lookup key is
not after any entry of its own number.  `KeysInOrder` says that this order is
strict and total on all internal keys, which the skip list relies on; it comes
from the order of slices.  `SlicesInOrder` shows that order to be a
dictionary's, for slices of any length: `memcmp` finds the first byte that
differs, and lengths decide if there is none.  As in the model, a sequence
number is one byte here; the seven of the code would only make the tag a larger number.

**Model-checked only.**  `CallsReturn` and `Terminates`: liveness is out of the
prover's reach.  Every invariant and action property of the passing runs, and
both refinements, are theorems; the properties of the runs that find a
violation are false, and have none.

## What is not covered

Assumptions of the models:

* Clients pass no null formatter.  `LogAppender::setFormatter` accepts one
  (75-86), and an event that reaches the appender afterwards would follow the
  null pointer at 393.  `LoggerLocks` and the theorem `FormattersPresent` show
  that nothing else leads there.
* The listener's own message, an event on the root at level INFO before it
  changes anything (702), is left out; no property is about what the root has
  received.
* `std::shared_ptr` keeps every object a list or a call refers to; no model has
  an object of the logging library die.
* Memory never runs out.  In `Status::operator=` the old array is deleted
  before the copy is allocated (`status.h:91`); what a throw between the two
  leaves behind depends on `CopyState`, which has no body.
* YAML that makes the conversion throw (a definition without a name): the
  listener is then not called.
* One listener changes loggers at a time, and no client reconfigures one by
  hand while it works.  Clients that only log are in the model.
* Targets have a stream each in the run of `LogLine`: two appenders on one
  stream have two mutexes, and cut each other's lines.  No comment promises
  otherwise, so that it is a hazard and not a finding.
* A line of `DateTimeFormatItem` fits the 64 bytes of its buffer (164-168).
* The owners of a table call `Ref` and `Unref` one at a time: `refs_` is a
  plain `int`, and nothing in the repository calls them from two threads.
* `Arena` keeps what it has handed out as a set: the same bytes with the same
  size handed out twice would be one element of it.  No action does that, since
  every allocation from a block moves `alloc_ptr` on.

Hazards that no property covers, because nothing in the repository says what
should happen:

* Two appenders on one stream cut each other's lines (393).
* An event that passed the test of the level is written after `setLevel` has
  raised it (308).
* While the listener has emptied a logger's list (724), an event of it goes to
  the root.  `OldOrNew` judges it there.
* A removed logger is at level 0 (755) and hands every event to the root, and a
  configuration that does not name the root takes its appenders away (756).
  `RemovedSilent` is about a removed logger's own level and list only.

Not modelled:

* `ParseInternalKey` (`dbformat.h:154-164`): it passes a size where
  `DecodeFixed64`, which is not in the repository, takes an address, so that
  nothing can be said of what it decodes.
* The links of the skip list: `Insert` and the searches have no body,
  `SetNext` an empty one.  `MemTable` takes an ordered set in their place, as
  their comments say, and `Arena` its `AllocateFallback` likewise; these are
  marked external.
* `DBImpl`, `DB`, `WriteBatch`, iterators, versions, the options, and all of
  `DBOld` with its test: declarations and empty bodies, nothing to translate.
* `Semaphore`, `SpinLock`, `DataBaseLogAppender`, `LoggerManager::init`: no
  bodies either.  `Singleton` is a local static variable.
* `cmake-build-debug`: what CMake generates to probe the compilers, some 1500
  lines of C and C++ which are not part of the program.

With these left out, what remains without a model in `Log/Log.cpp` is
includes, registrations and text formatting, and in the headers declarations,
comments and accessors.

## Plan

Done, in this order:

1. `LoggerState`, `Logger`: the core, locks and events.
2. `LoggerProofs`, last the theorems on formatters.
3. `LogFormatter` with proofs.
4. `FileLogAppender` with proofs.
5. `LogDefine`, `LogConfig`.
6. `LogService`, the refinement by `Logger`, and its proof.
7. `LogLine`: lines printed item by item.
8. The listener together with a client that logs, and `LogConfigProofs`.
9. The store: `Slice`, `DBFormat`, `Arena`, `MemTable`, `Status`, with proofs.

10. Proofs of what was model-checked only: events written once, lines, the
    listener's effect, the order of slices and keys, lookups, the patterns
    that are accepted.

Left:

11. What an accepted pattern prints: the items are those of its letters, each
    with its format.
12. `SkipList` and `DBImpl`, once they have bodies: lock-free readers against
    the writer that publishes nodes.
