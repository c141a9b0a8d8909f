# TLA+ specifications of CocoaLumberjack

This directory holds formal specifications of the CocoaLumberjack logging framework: TLA+ modules
translated from the Objective-C sources, TLC configurations that model-check them on small
instances, and TLAPS proofs of the properties that matter most for instances of every size.

Paths in this document are relative to `Sources/CocoaLumberjack/` unless they begin with `Sources/`.

## 1. The system

An application makes log statements. `DDLog` turns each into a `DDLogMessage`, queues it and hands
it to every registered *logger* whose level includes the message's flag. A logger formats the message
and writes it somewhere: a file, a database, the terminal, the system log. Three things make this
hard to get right. Everything is asynchronous, over a tree of GCD queues. Loggers run in parallel,
and yet each message is to reach them in one order and with the settings of its time. Files, timers
and background deletions outlive single calls, processes and even the files themselves.

### Components

| component | state | operations | interacts with |
|---|---|---|---|
| **DDLog dispatch core** (`DDLog.m`) | logger list; serial *logging queue*; dispatch group; one serial queue per logger; `_logFormatter` of each `DDAbstractLogger` | synchronous and asynchronous log statement; add, remove, list loggers; `flushLog`; termination; formatter getter and setter | runs every logger's callbacks |
| **DDFileLogger**, **DDLogFileManagerDefault** (`DDFileLogger.m`) | current file info, handle, vnode source, rolling timer, settings; on disk: files with sizes, dates and the `archived` attribute | log, roll, resume, archive, delete old files | logger of DDLog; deletes on a global queue |
| **DDAbstractDatabaseLogger** | save and delete timers, count and time of unsaved entries, time of the last deletion, five settings | log, save, delete, setters, flush, add, remove | logger of DDLog; superclass of database loggers |
| **Buffering proxy** (`Extensions/DDFileLogger+Buffering.m`) | data in memory | log, flush, release | in front of DDFileLogger |
| **DDASLLogCapture** (`DDASLLogCapture.m`) | cancel flag, capture level; per registration the time of its start and the last message seen | start, stop, level, handler of a notification | searches the ASL store when syslogd notifies; makes log statements |
| **DDASLLogger** (`DDASLLogger.m`) | none | log | logger of DDLog; writes to the ASL store |
| **DDMultiFormatter**, **DDContextFilterLogFormatter**, **DDDispatchQueueLogFormatter** (`Extensions/`) | list of formatters behind a barrier queue; sets and dictionaries behind a mutex | add, remove, format | called by loggers |
| **Registered dynamic logging** (`DDLog.m:466-610`) | none (the classes' own levels) | list classes, get and set levels | Objective-C runtime |
| **DDTTYLogger**, CLIColor | colour profiles | set and clear profiles, log | logger of DDLog; terminal |
| **DDOSLogger** | a log handle | log | logger of DDLog; `os_log` |
| **Front ends**: log macros (`include/CocoaLumberjack/DDLogMacros.h`), Swift functions and `DDAssert` (`Sources/CocoaLumberjackSwift/`), swift-log handler (`Sources/CocoaLumberjackSwiftLogBackend/`) | global level and asynchrony; threshold of the handler | log statements, assertions | DDLog |
| **DDLog+Combine** (`Sources/CocoaLumberjackSwift/DDLog+Combine.swift`) | per subscription: its subscriber | subscribe, log, cancel | a subscription is a logger of DDLog; its subscriber runs on its queue |

### What is hard, and what correct means

* **DDLog.** Blocks of many threads meet on the logging queue, and each fans out over the loggers'
  queues. Correct: one order of messages at every logger; a synchronous statement returns only after
  all loggers have seen it; no backlog on a slow logger; registration brackets delivery; a formatter
  applies to exactly the statements after it was set; flush and termination leave nothing behind; nobody
  waits for ever.
* **DDFileLogger.** Rolling happens from five places (message, timer, file source, setter, client);
  passes delete files from an outdated list with no lock; a crash leaves any state on disk; other programs remove
  files between any two calls. Correct: deletion and writing never meet in one file; archived
  files are final and announced once; only the newest file is open; limits of size, age, number and
  quota hold in the end; the logger lets go of a file that is gone.
* **DDAbstractDatabaseLogger.** GCD crashes a program that resumes a running timer or releases a suspended
  one, and eight places touch the timers. Correct: timers are used legally under every
  order of calls; entries are saved when the threshold or the interval says so; none is forgotten at removal; sweeps
  go on.
* **Buffering.** Sends, flushes, rolls, failures and the release of the proxy fall between the byte ranges of messages.
  Correct: files and buffer together hold the log once and in order; only failed writes are missing; after a flush all that was written is on the disk.
* **ASL capture.** Notifications carry nothing, are coalesced and run handlers on a concurrent queue; each handler works on a search made earlier
  while messages go on being saved, some of them by `DDASLLogger`, which is given what the capture logs. `stop` takes effect at the next notification only,
  and `start` may come before. Correct: no message is passed over, each is logged once and in order, and nothing goes round.
* **Front ends.** Macros, Swift functions, swift-log and assertions decide in different ways which statements are synchronous; the process may end right
  after one. A subscription is cancelled while its messages wait on three queues and its subscriber may be in the middle of one, or cancel from there.
  Correct: the author of an urgent statement waits for all loggers, an assertion loses nothing unless its author asked for that, a cancelled subscriber is left alone.
* **Formatters.** A chain is changed asynchronously by clients while several loggers format through it, and the sets of its
  filters change at any moment. Correct: each message passes the chain as it was requested by then, whole and in order; the
  verdict of a filter was true at some moment; nobody waits for ever.

## 2. Modules

Each component has a specification, a module of properties and an MC module with the values TLC instantiates constants with.
All have a module of proofs; the inductive invariant is at its head, or in a module of its own where TLC checks it as well.

```
 OrderedBroadcast  <--- refinement --- DDLogProperties      DDFileLoggerProperties      DDDatabaseProperties
                                        EXTENDS DDLog        EXTENDS DDFileLogger        EXTENDS DDAbstractDatabaseLogger
                                             ^                       ^                          ^
                                        DDLogInvariant       DDFileLoggerInvariant       DDDatabaseInvariant
                                         ^         ^           ^            ^               ^            ^
                                   MCDDLog   DDLogProofs  MCDDFileLogger DDFileLoggerProofs MCDatabase DDDatabaseProofs
                                                   ^
                                         DDLogServiceProofs
                                                   ^
   DDLogFrontEnds        EXTENDS DDLogProperties   |        DDASLLogCaptureProperties
   DDLogFrontEndsProperties      ^                 |        EXTENDS DDASLLogCapture
   DDLogFrontEndsInvariant (and DDLogInvariant)    |                    ^
        ^                ^                         |         DDASLLogCaptureInvariant
   MCFrontEnds    DDLogFrontEndsProofs ------------+          ^                    ^
                                                        MCCapture        DDASLLogCaptureProofs

                DDBufferedProxyProperties             DDMultiFormatterProperties
                EXTENDS DDBufferedProxy               EXTENDS DDMultiFormatter
                    ^            ^                        ^             ^
             MCBuffering  DDBufferedProxyProofs   MCFormatters  DDMultiFormatterProofs
```

The components meet at the logger's queue: `DDLog` decides in which order a logger's callbacks run,
and the modules of loggers take an action for each block that runs there. `DDAbstractDatabaseLogger` assumes what
`DDLog` guarantees to a logger registered once (`NotifiedBeforeLogging`, `NoLogAfterRemoval`).

### `DDLog`: the dispatch core

| variable | code |
|---|---|
| `loggers` | `_loggers`, the array of `DDLoggerNode` |
| `loggingQueue`, `running` | `_loggingQueue` and the block that runs on it |
| `job`, `todo`, `outstanding` | the loop of `lt_log:`, `lt_flush` or the formatter's getter over the nodes: what it makes them do, the nodes it has still to visit, and `_loggingGroup` |
| `loggerQueue` | a FIFO per logger queue, both the loggers' own and those `lt_addLogger:` creates |
| `blocked` | threads in `dispatch_sync` |
| `formatter` | `_logFormatter` |
| `received`, `flushed`, `attached`, `detached` | what the logger object has seen: messages and the formatter that applied, flushes, notifications |

API calls enqueue blocks (`Log`, `AddLogger`, `FlushLog`, `SetLogFormatter`, ...). `RunLoggingQueue` has one action
for each kind of block, and `VisitNode` and `FinishJob` for the loop inside a block: it interleaves with the
threads and the loggers. `RunLoggerQueue` runs the callbacks. With `Multiprocessor` the nodes of a message are all dispatched before
the group is waited for; without it each is waited for in turn, as in `lt_log:`. A block of the client on the logging queue (`ClientBlock`)
may log directly (`LogDirectly`), the case of `dispatch_get_specific` in `queueLogMessage:asynchronously:`.

`OrderedBroadcast` is the promise: a list of requests that take effect one at a time, each message reaching
all its loggers in one atomic step with the formatter last set. `DDLogProperties` has the refinement mapping: a
running block is still a request, a message that is being handed out counts as received by nobody (`Settled`), and a
formatter counts as set as soon as its setter is on the logger's queue (`InForce`).

### `DDFileLogger`: files, rolling and deletion

`disk` is the logs directory (names to files), `files` every file ever created with its size and the
`archived` attribute. A file is named after the time of its creation, and files are ordered by name, as
`sortedLogFileInfos` orders them. `info`, `created`, `handle`, `watched` and `timer` are the instance variables
of the logger; `passes` are the lists of the running deletions. Rolling archives a file, and dispatches the call of `didArchiveLogFile:` to
`completionQueue`; `announced` counts the calls once they are made (`didArchiveLogFile`), in any order, as the queue is a global one. A call that waits when the process dies is lost.

Blocks of the logger's queue are atomic except where something outside can come between two of their file system
calls and make a difference: `logMessageFindsFile` (find or create a file), `OpenLogFile` and `WatchAndWrite` are steps of their
own, linked by `stage`. The environment ticks the clock and sets it back, moves and removes files, lets calls fail and
crashes the process; a crash clears what is in memory and starts a logger on what is on disk.
`Clock` says how the wall clock behaves, because files are named by it: `"apart"` (every file is created after the newest one by the clock, by
at least a tick of the name's format, a millisecond; between two files the clock may be set back), `"steady"` (two files may be created in one tick) and
`"adjusted"` (it may also be set back to before the newest file).

What may fail: every call that changes the file system (creating and opening a file, `setxattr`, deleting, writing) and `getOffset`
before the size check. Each failure has the consequence the code gives it: a file that could not be archived stays unarchived and is announced all the same, a
pass goes on to its next file, a message is dropped, a check is left out. A failed seek changes nothing, as the handle is at the end of the file. Reading the
attributes of a file fails when the file is gone. What failed is kept in history variables that no action reads and properties except by name:
`unmarked` (files that could not be archived), `unchecked` (the last size check failed), `undeleted`
(files that could not be deleted since the last pass began) and `lost` (announcements that died with the process).

### `DDAbstractDatabaseLogger`: when to save and sweep

An action is a block of the logger's queue, so all are atomic. The subclass is a buffer: `db_log:` adds an
entry, `db_save` empties the buffer, `db_delete` is a sweep. A timer is a record of its GCD state
(`inactive`, `running`, `suspended`, or `crashed` after a misuse), the code's belief about it
(`_saveTimerSuspended`) and the ticks left. `oldest` and `swept` record what really happened to entries and sweeps, next to
`unsavedTime` and `lastDelete`, which are what the class believes. All time is relative, so the state space is finite without a last moment and liveness
is checked on unbounded behaviours.

### `DDBufferedProxy`: the buffer in front of the file logger

`buffer` holds the byte ranges in memory (`_buffer`), `currentBufferSizeBytes` and `maxBufferSizeBytes` are the proxy's, `ranges` is what
`enumerateByteRangesUsingBlock:` has still to visit of the message being logged. Of the file logger there is what the proxy can notice:
`written` in all files together, the size of the open file (`offset`), how much of it is in files that were `closed`, which places are `synced`, and which are not
because synchronising failed (`unsaved`). `Send` is
`lt_sendBufferedDataToFileLogger`: it empties the buffer whether or not the write succeeds. A file that a send fills is rolled, and synchronised only then: the flush that follows
finds no open file (`lt_flush`). Opening a file, writing, telling its size and synchronising may fail. `dealloc` sends what is left;
`willRemoveLogger` and rolling are forwarded and do not look at the buffer. `setMaxBufferSizeBytes` takes no lock, so it may come between two ranges;
it is in no header, and only code that knows the class of the proxy reaches it.

### `DDMultiFormatter`: a shared chain of formatters

`queue` is the concurrent dispatch queue: blocks start in order, those that read (`formatLogMessage`, `AskForChain`) run side by side
(`reading`), a change is a barrier (`RunBarrier`). `message` is the local state of `formatLogMessage:` of each logger; `NextFormatter`
is one turn of its loop, so chains, sets and messages interleave link by link. The context filters are links: `Accepts` is their
`formatLogMessage:`, `ChangeSet` the critical section of `DDLoggingContextSet`. `expected` and `verdicts` are history: the chain that
was requested when a reader asked, and what each filter could have answered since.

### `DDLogFrontEnds`: the ways into DDLog

The module composes the front ends with the whole of `DDLog`: it shares its variables, and each step makes one of its API calls, runs one of its
queues, or leaves it alone. `Statement` is the call that all front ends end in; `LogMacro`, `LogFunction` with `Asynchronous`, `SwiftLog` with `logAsync`, and
`DDAssert` decide whether it is made and whether it is synchronous. `dynamicLogLevel` and `asyncLoggingEnabled` are two independent atomic values that any thread
may change between any two statements, so a statement reads any value of each. `doing` is the step between two calls of one thread:
making a subscription (`receive`, `receiveSubscription`), cancelling it (`cancel`, `clearSubscriber`), or ending the process
after the statement of an assertion (`DDAssert`, `assertionFailure`). A subscription is a logger without a queue of its own; `log` reads its subscriber,
`receiveValue` gives it the message, and `cancelWhileReceiving` is a subscriber that cancels in between, on the logger's queue. Each
access to the `subscriber` reference is atomic in the model; in the code it has no lock. A subscription starts when it is made, so its subscriber can be given
values before `receive(subscription:)`.

### `DDASLLogCapture`: the system log and back

`store` is the ASL database, in the order of the messages' identifiers; `captures` are the registrations with `startTime` and `lastSeenID`;
`handler` are the runs of their handlers, each with what it has still to visit of its search. `DDLog` is one queue here, its loggers
are `delivered` and `DDASLLogger` (`Saved`). The two class methods touch `_cancel` without a lock, so `start` is two steps.
`syslogd` is external: it notifies every registration of whatever was saved since it last did (`Post`), and whether handlers of one
registration overlap is a matter of the queue, so instances with and without overlap are explored. `events`, `from` and `handled` are history. Each instance of
a run has its own bounds (`Instances`).

## 3. Runs

| run | question | instance |
|---|---|---|
| `DDLog_dispatch` | order, backlog, synchronous return, flush, exit, refinement | 2 threads, 2 loggers (one with its own queue, `-flush` and formatter; one with neither and a smaller level), all messages' flags, blocks of the client on the logging queue, the whole API, 4 calls, multiprocessor; symmetric in the threads |
| `DDLog_live` | registration against delivery; what is urgent, asserted or cancelled; nothing hangs; refinement | 2 threads and a subscriber that calls from its own queue, a file logger and a subscription, all front ends and the whole API, two levels, the serial branch of `lt_log:`, 3 calls, fairness |
| `DDLog_twolevels` | *finding* | one logger added at two levels and removed once |
| `DDFileLogger` | deletion, archiving, announcing, resuming, limits, sources; files are rolled by age and let go when moved | sizes 1 and 2, frequencies 0 and 2, 1 or 2 files, quotas 0 and 1; 3 ticks of a clock that may be set back, 2 messages, one crash and one failure or removal; fairness (705,318 states) |
| `DDFileLogger_maximum`, `DDFileLogger_deleted`, `DDFileLogger_unique` | *findings* | small instances |
| `Database_schedule` | timers, thresholds, saves and sweeps, safety and liveness | thresholds 0, 2, 3; intervals and ages 0, 1, 3 |
| `Buffering` | the log is complete and in order over files and buffer; memory is bounded; flush and exit reach the disk | 3 messages of 1 or 2 ranges of 1 or 2 bytes, limits 0, 2, 3 and 4, files of 4 bytes, one failing call |
| `Formatters` | the chain as requested, whole and in order; verdicts; nobody waits for ever | 2 loggers, 1 client, an allowlist, a denylist and a formatter that writes, chains of up to 2 links (also twice the same), a pending change |
| `Capture` | nothing is skipped, logged twice or out of order, or goes round; all is seen | two instances: a capture stopped and started again by two threads; one whose handlers overlap, with a message without text and a critical one; 2 statements each |
| `Capture_once` | *finding* | one thread stops and starts a capture |

Bounds. `MaxCalls` bounds the API calls of a behaviour of `DDLog`. A violation of order, of a synchronous return or of
registration needs two messages and one or two other calls, from at most two threads; four calls on two
threads cover every pair of statements with every pair of operations around them, and three calls of the whole API with a logger already installed
allow log, remove, add as well as subscribe, log, cancel.
Two loggers are the fewest that can disagree, and they differ in all that the code distinguishes: own queue,
flush, level. The theorems below remove these bounds for all the invariants of `DDLog`, for its refinement, and for all the safety properties of the front ends.
In `DDFileLogger` three files are needed for a pass that deletes one while another is archived and a third is
written; three ticks create them. Sizes 1 and 2 with quotas 0 and 1 let the newest file alone exceed the quota, the case in
which it must be spared. One incident and one restart reach every single failure, also one whose file is found again after a crash; the theorems hold for any number.
In `Database_schedule` interval 1 makes timers due at once, 3 leaves room for changes, and 0 disables; ages beyond
`Horizon` are not told apart, as no interval exceeds it. Threshold 2 and 3 with a buffer of 3 make it possible to lower the threshold below, at and
above what waits. With `saveThreshold` 0 and `saveInterval` 0 the buffer could grow for ever: `MaxUnsaved` is a bound on messages,
not of the code.
In `Buffering` files are as large as the largest buffer, so sending may or may not roll the file; the limit can be lowered below what is in
memory; three messages leave one on each side of a send. In `Formatters` behaviours have no end: messages and changes go on for ever, and only the chain
and the changes that wait at one time are bounded. The order of two waiting changes is that of a FIFO.
In `DDLog_live` one subscription is enough, as subscriptions share only the registry; `sub` is also a thread, the one that runs its queue. The threshold of swift-log
is its level `error`. In `Capture` two messages are the fewest that can be skipped or swapped, and two registrations the fewest that see one message twice;
the second of the clock matters only while nothing was seen. The theorems remove the bounds of its invariants too.

Deadlock is checked in every run. Where clients stop calling there is a stopping step for exactly that state: `Stopped` of `DDLog` is
enabled only after exit, or when all calls are made, all queues are empty and no thread is blocked (`FrontStopped` adds a failed assertion and threads between two calls), so a hang in any branch of `lt_log:` is a deadlock also in
the runs without liveness; `Exited` of `DDBufferedProxy` only after exit; `Finished` of `DDASLLogCapture` when no block, handler, notification or message waits.

### Fairness

Every fairness condition is weak fairness of something that GCD or the kernel does by itself, never of a client:

* `DDLog`: the logging queue runs its next block or goes on with the running one, and each logger queue
  runs its next callback. GCD serves every queue that is not suspended, and the code suspends none. A logger's
  callback is assumed to return.
* `DDFileLogger`: blocks of the logger's queue, the rolling timer when it is due, the vnode source after its file has moved,
  and deletion passes on the global queue. The system delivers timers and vnode events of active sources.
* `DDAbstractDatabaseLogger`: the two timers when due, and time.
* `DDLogFrontEnds`: as `DDLog`, and a subscriber that is given a value returns. Threads are not fair: `NothingHangs` asks for rest only after they pause.
* `DDASLLogCapture`: blocks of the global queues and of `DDLog` run, handlers go on, and syslogd notifies after a save. Not the application, nor `start` and `stop`.
* `DDMultiFormatter`: the dispatch queue starts what may start, the loop of a logger goes on, and a formatter returns.
* `RecoversFromDeletion` is stated under the hypothesis that messages go on being logged.

### What the checks show

All the properties of the passing runs hold. Five runs of the code against what its documentation says do not:

1. `DDLog_twolevels`: `lt_addLogger:` accepts a logger again at another level and `lt_removeLogger:` stops at its first node:
   after `willRemoveLogger` the logger goes on receiving messages (`DDLog.m:671`, against `DDLog.h:612`).
2. `DDFileLogger_deleted`: once the current file is deleted between being found and being opened, the cached info is used for
   ever after and no message is written (`DDFileLogger.m:1087`, against `DDFileLogger.m:296`).
3. `DDFileLogger_unique`: two files of the same millisecond have one name and the second takes the place of the first, because an atomic
   write never fails with "file exists" (`DDFileLogger.m:509`, against `DDFileLogger.h:182`).
4. `DDFileLogger_maximum`: `maximumNumberOfLogFiles` is the first index to delete in a list that has the active file, so one archived file less is kept
   than documented (`DDFileLogger.m:226`, against `DDFileLogger.h:115`, "will only keep 3 archived log files (plus the current active log file)").
   `RetentionKept` states the limit as the code means it.
5. `Capture_once`: `stop` sets a flag that the handler reads after its next notification; `start` before that clears it and registers a second
   handler while the first stays, and every message is logged twice from then on (`DDASLLogCapture.m:54`, against `DDASLLogCapture.m:138`).

Writing the models showed more that is worth knowing, though no run is devoted to it:

* If a new log file is removed before its creation date is read, the rolling timer fires at once over and over and never rolls
  (`DDFileLogger.m:837`; the changelog, #1028, knows high CPU usage from empty file attributes). `AgedFileIsRolled` speaks of files that are still there.
* `DDASLLogCapture`: handlers of one registration that overlap write `lastSeenID` in any order, also backwards: messages may be logged twice, none is lost.
  Messages saved between `start` and the first notification are seen only with that notification, and setting the clock back hides them.
* `DDAssert` waits for the loggers and does not flush them: what the buffering proxy or a database logger holds in memory dies with the
  process. On the logging queue itself (in a formatter, say) an assertion is not modelled.
* `DDTTYLogger`: with `automaticallyAppendNewlineForCustomFormatters` off, the vector of four parts that is written has no room for the
  colour's reset code (`DDTTYLogger.m:1212-1235`); `clearColorsForFlag:` clears context 0 where the setter sets `LOG_CONTEXT_ALL` (`DDTTYLogger.m:944`, `:1019`);
  the test for a newline at the end of the message looks behind it (`DDTTYLogger.m:1330`).
* A file whose `setxattr` failed is announced as complete all the same; found again after a restart it is written on or archived and announced once more,
  and behind a newer file it stays unarchived for ever. A crash between archiving a file and the block that announces it loses the announcement: nothing makes up for it.
* `DDAssert` with `asynchronous: true` does not wait: its own message may be lost with the process, though it is to "output a log message even when assertions are disabled" (`DDAssert.swift:22-23`).
* The buffering proxy does not see rolling: on demand, by age or at removal the file is rolled while the buffer stays, and its data
  goes to the next file. A removed proxy that somebody still holds keeps its data, and an exit loses it. A message of several
  byte ranges can be split over two files. No timer ever empties the buffer. A failed write costs the whole buffer.
* `removeFormatter:` removes every occurrence of a formatter that was added twice. A link that asks its own `DDMultiFormatter` for
  its formatters while a change waits would wait for itself (a `dispatch_sync` within one, with a barrier between).
* A synchronous statement made on the logging queue overtakes the queued ones, by design (`DDLog.m:304-337`).
  `DeliveredInOrder` exempts exactly these.
* With a clock that is set back before the creation of the newest file, the active file looks older than an archived one and a pass deletes it:
  `DeletedFilesAreArchived` fails for `Clock = "adjusted"`. What does not depend on the order of names holds there as well (`OpenIInv`, `SourcesIInv`
  and `ArchivedIsFinal`, proved for every clock).
* A file that is unlinked between being opened and its source being activated is written to unnoticed until it is rolled for
  another reason.
* `lt_cleanup` (removal, release) closes the file without archiving it; a later logger resumes it. Deletion passes that were dispatched when
  the process dies are lost; files beyond the limits stay until the next pass.
* A database logger registered at two levels and removed once loses both timers and goes on collecting entries.
  `savePendingLogEntries` does not pass through the logging queue and so does not cover what its caller just logged; `flushLog` does.
  Setters called before registration or after removal create timers. `_lastDeleteTime` is not kept over launches,
  so an application that never runs for `deleteInterval` never sweeps by timer; `SweepsGoOn` is stated from the first sweep on.
  With `deleteOnEverySave` the subclass is asked to delete also when `maxAge` is 0.

## 4. Proofs

Every theorem is checked by TLAPS down to its leaves, for all values of the constants that satisfy the
named assumptions next to them. Every safety invariant and every action property that a passing run checks is a theorem, and so is the refinement.
Sums and counts along a sequence or over a set are recursive functions or cardinalities; what is proved of them for every length goes by
the least counterexample (`WFMin` of the natural numbers), as the provers cannot instantiate an induction theorem whose parameter is an operator.

**`DDLogProofs`** (any number of threads, loggers, levels, formatters and calls). *DeliveredInOrder* is not inductive: it says
nothing of what is still queued. `IInv` adds that the logging queue is sorted by message number (`QueueOrdered`),
that what is being handed out is older than what is queued and no older than what was received (`JobIsOldest`,
`ReceivedIsOlder`). This in turn needs that callbacks on the loggers' queues belong to the running job: each is of a node in the
dispatch group (`WaitedInGroup`), no node has two (`WaitedOnce`), and a node that has still to be visited is not in the group (`TodoFresh`), which
rests on the list having no duplicates (`LoggersDistinct`). So an empty group means that no callback is pending, and the next block starts clean.
*OneMessageAtATime* follows from `WaitedInGroup`; *SyncReturnsDelivered* from it and from `OneBlockPerThread` and
`SyncMessageNamesCaller`: the block of a synchronous message is the one that its thread waits for.
Theorems: `Invariance`, `TypeCorrect`, `DeliveryOrder`, `Backlog`, `SyncDelivery`.

**`DDLogServiceProofs`** goes on from there. What a flush and an exit guarantee depends on what is still queued behind them: no statement of the thread that
waits for the flush (`FlushComesLast`), only statements younger than the notification of termination (`TerminateComesLast`). `FlushProgress` says that a logger which
is neither to be visited nor waited for has flushed all it received, and `JobNodesRegistered` that the nodes of a message stay registered while it is handed out, because
every change of the list is a block of the same serial queue. Theorems: `ServiceInvariance`, `RegisteredOnly`, `FlushCovers`, `ExitCovers` (two of them action properties).

*NotifiedBeforeLogging* counts: a logger's `attached` is the number of its nodes that were told they are registered. Between the array and what a node was told lie the notices
that wait on its queue. `NoticesAlternate` says that additions and removals of one node alternate there and that the last agrees with the array, so a node was told if and only if
the first notice that waits is a removal, or none waits and it is registered (`Told`). `NoticesPlaced` says that no notice waits behind a message, which makes
the count of a logger about to log that of its registered nodes. Theorems: `NoticeInvariance`, `NotifiedFirst`.

*BroadcastIsAtomic* needs to know, at the moment the block of a message ends and its request takes effect, that each logger has exactly the copies an atomic step would give it,
at the end of what it received and with the formatter then in force. `HandedOut` of `BroadcastInv` says it of every moment before: the copies are as many as the nodes served so far (`Served`), they
are the last entries, each with the formatter that the clients see. That no setter changes this formatter meanwhile is `SettersFirst`: setters pass through the logging queue, which is
busy with the message, so no setter waits behind a callback that logs. `MessagesNumbered` makes a new message unlike all that was received, `QueuesOwned` keeps the callbacks of a logger
with a queue of its own together, `JobOfBlock` ties the loop to its block, and `GetterAsks` says what the getter will be answered. Each action is then a step of `OrderedBroadcast` or
invisible: `FinishJob` is the step in which a log statement, a removal of all, a flush, an exit or an answer takes effect, and a message of a block that logged directly interjects;
additions, removals and lists run at once; `ForwardFormatter` sets the formatter; visits and callbacks are invisible.
Theorems: `BroadcastInvariance`, `Atomicity` (that the initial states and every step map to those of the promise).

**`DDLogFrontEndsProofs`** (any number of threads, subscriptions, loggers and calls). `FrontEndsUseDDLog` shows that the composition implements `DDLog`: each of its steps is
a step of the core or leaves it alone, with the core's variables as they are. So `IInv` and `ServiceInv` hold of it, and `FrontInv` needs to add only what is
new. `AssertionWaits`: while the statement of an assertion waits or runs its thread is blocked, and after that nothing older is left anywhere, which
joins the order of the queue to the synchronous return; an assertion whose caller asked for an asynchronous statement is exempt. `CancelHolds` counts the value that is being handed over when `cancel` returns.
Theorems: `FrontEndsUseDDLog`, `FrontInvariance`, `UrgentDelivery`, `AssertionDelivery`, `CancelEndsIt`; and from `DDLog`, what `DDLog_live` checks of it for programs with front ends, `FrontEndsAtomicity` and `FrontEndsRegistration`.

**`DDASLLogCaptureProofs`** (any number of registrations, messages and statements). *NothingSkipped* rests on `ResponsesComplete`: of what a handler has
still to visit, and of the message it has just handed over, nothing older is unseen, by itself or another handler of the registration. So any handler may write
`lastSeenID` at any time, also back. `StoreInOrder`, `CapturedIsHandled` and `StatementsAreSavedOnce` follow each event through store and queue, and give *NoEcho*:
what is captured was not written by `DDASLLogger`, and what it writes was in no store before. *OnceInOrder* adds `HandledInOrder`, for handlers that do not overlap.
Theorems: `CaptureTypes`, `NoneIsSkipped`, `NothingGoesRound`, `CapturedOnceInOrder`.

**`DDFileLoggerProofs`** (any settings and any number of passes, incidents and messages, any call failing at any time). The steps fall into a few kinds,
by what they do to the files, the directory and the current file (`StepKind`), and each invariant is proved kind by kind.

However the clock moves: the directory links files under their own names, the current file is not archived, and the open file is the current one (`OpenIInv`); so nothing is written to an archived file.
*SourcesFollowFile* and *OpenFileHasRoom* are about a logger at rest; `SourcesIInv` follows the steps between opening a file and watching it, when there is
neither timer nor source (`NoSourcesYet`), and says that a creation date that could not be read is that of a file that is gone and stays so (`SourcesSet`).
Theorems: `OpenInvariance`, `FileTypeCorrect`, `ArchivedFilesFinal` (an action property), `SourcesInvariance`, `OpenFileRoom`, `SourcesCorrect`.

When each file is created after the last one by the clock (`Clock = "apart"`, an assumption of these theorems): the code has no lock
between the logger and a deletion pass, and the proof shows why none is needed. Of the files that could be archived only the one created last may not be
(`LastIsOpen`), nothing in the directory is newer than the current one (`InfoIsNewest`), files are created in the order of their names
(`CreationOrder`, where the assumption enters), and archiving is never undone. So what a pass listed as archived stays archived, whatever
happens meanwhile (`PassesArchived`). `Announcements` counts the calls of `didArchiveLogFile:`, made and waiting.
*RetentionKept* is about the moment when no pass is left. `RetentionIInv` speaks of the files that no pass has still to delete (`Spared`) and that no pass failed to delete: once the last
pass has made its list, they are within the limits of number and quota (`WithinLimits`), whichever passes delete their files first, and they stay so since only the newest file grows,
which does not count. The size of several files is the number of messages in them (`SizeOf`, a cardinality), so fewer files are no larger.
Theorems: `FileInvariance`, `DeletionSafe`, `NewestIsOpen`, `ArchivingAnnounced`, `RetentionInvariance`, `RetentionCorrect`.

**`DDDatabaseProofs`** (any thresholds, intervals and ages). `CountersExact` ties the class's belief to the buffer, `SaveTimerMatches` says when the timer exists,
sleeps and is due, `DeleteTimerMatches` the same of the sweep. The heart of it is that each setter restores the relation
from whichever state the timer is in. `BufferBounds` includes `SavedOnRemoval`, that nothing waits in a removed logger, which no run checks on its own.
Theorems: `DatabaseInvariance`, `DatabaseTypeCorrect`, `TimerUse`, `BufferBounds`, `SaveInTime`, `SweepInTime`.

**`DDBufferedProxyProofs`** (any sizes of ranges, buffers and files, any number of ranges, messages and failures). `BufferIInv` keeps files,
memory and the message at hand apart: each is in the order of the log (`Sorted`), each precedes the next (`Precedes`), nothing in them is lost, and
together with what is lost they are what was logged. Sending moves the buffer to the files or to the losses, and the step that logs needs to know
that all chunks taken so far are of earlier messages. Since `Before` is irreflexive, order alone gives that nothing is there twice.
*FlushReachesDisk* speaks of everything that was ever written, so a flush, which synchronises only a file that is open, relies on what was rolled before: `DiskIInv` says that
every place in a closed file was synchronised, as far as that did not fail, and that without an open file all places are in closed ones. *MemoryBounded* is inductive with the types (`SizeIInv`): the step that takes a range sends as soon as the limit is reached, and
a limit set between two ranges is at most `MaxBufferSize`. Theorems: `BufferInvariance`, `LogInOrder`, `LogComplete`, `DiskInvariance`, `FlushComplete`, `MemoryBound` (with type correctness).

**`DDMultiFormatterProofs`** (any number of loggers, clients, formatters and waiting changes). *ChainAsRequested* speaks only of readers that have
started. `QueueExpects` adds that each block of the queue expects what its change makes of what the block before it expects, the first of what the
chain is; `ReadersExpect` and `ReadersOnce` that the one block of a reader expects what the reader does; `ReadersHaveMessages` that a logger that
begins to format has no other read under way. A barrier runs only when nobody reads, so it can disturb no reader that has started. The proof does not
look into `Apply`: no change of the chain, whatever it does, can overtake a reader. Theorems: `ChainInvariance`, `ChainRead`.

*WholeChainApplied* and *VerdictJustified* speak of the moment a line is returned. `FormatIInv` says of every link before what they then say of the whole chain: the line holds what the
writers among the links so far wrote, in order (`LinksApplied`; `FirstIn` is the table of these prefixes), a filter that was passed could have accepted the message, and if it was rejected one of them could have rejected
it (`VerdictsGiven`). What a filter would answer now is always among its verdicts (`AnswersKnown`), since a change of its set adds to the verdicts of all messages under way. It needs the types,
and so that `removeFormatter:` leaves formatters (`Only`). Theorems: `FormatInvariance`, `LineCorrect`, `VerdictCorrect`.

Only model-checked, on the bounded instances: everything temporal (`NothingHangs`, `AgedFileIsRolled`, `MovedFileIsLeft`, `TimersGoOn`, `NobodyStarves`,
`EverythingIsSeen`), as TLAPS has neither fairness nor ENABLED in reach. `NoLogAfterRemoval` and `SeenOnce` do not hold (section 3).

## 5. What is not modelled

* In `DDLog`: synchronous statements and getters from a logger's own callback, which deadlock by design (`DDLog.m:1231`); building the text of a message, thread and queue names, `extractFileNameWithoutExtension`, the assertions, and registered dynamic logging, which reads and
  writes the levels of classes found in the Objective-C runtime and keeps no state.
* In `DDFileLogger`: serialisation, headers, parsing and formatting of names and dates, file protection on iOS, the file extension that stands for the attribute on
  the simulator, the advisory lock, and `NSFileManager` beyond success and failure; a pass that cannot list the directory, which does nothing;
  `cleanupLogFilesWithError:`, a pass that a client runs on its own thread and that may stop at its first failure.
* In `DDAbstractDatabaseLogger`: the subclass's database.
* In `DDBufferedProxy`: messages without data; a client that registers both the proxy and the file logger behind it.
* In `DDASLLogCapture`: the search by process, the fields of messages, the asl handles. In the front ends: message formats, file names, metadata and labels;
  `formatted(with:)`, which maps values.
* `DDTTYLogger`: its colour table is changed and read on its own queue only, its setters hop there like `setLogFormatter:` in `DDLog`, and the rest is output.
  `DDDispatchQueueLogFormatter`: formatting throughout; its dictionary is behind a mutex and its two lengths are independent atomic values, so no state is related
  by the steps of several actors.
* `DDOSLogger` is a stateless adapter; `DDLoggerNames` has constants; `CLIColor` is a value. Demos, benchmarks and tests are clients of the library and were
  read for how it is used.

## 6. Plan

1. Which parts of `FileIInv` beyond `OpenIInv` survive a clock that may give two files one time (`Clock = "steady"`).
2. An abstract specification of what is logged and what is on disk, implemented by `DDBufferedProxy`, and the refinement proved from `BufferIInv`.
