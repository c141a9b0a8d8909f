-------------------------- MODULE DDBufferedProxy --------------------------
(***************************************************************************)
(* The buffering proxy of DDFileLogger (DDFileLogger+Buffering.m).  It     *)
(* takes the file logger's place in DDLog, collects the data of messages   *)
(* in memory and hands them over when they fill the buffer, at a flush and *)
(* when it is released.  Everything else is forwarded to the file logger.  *)
(*                                                                         *)
(* An action is a block of the file logger's queue, except that logging a  *)
(* message goes range by range over its data, and that the limit is set by *)
(* any thread in between.  Of the file logger, module DDFileLogger, only   *)
(* what the proxy can notice is here: whether a file is open, how large it *)
(* is, what was written, and how much of it was synchronised.  Opening,    *)
(* writing, getting the offset and synchronising may fail.                 *)
(***************************************************************************)
EXTENDS Integers, Sequences, SequencesExt

CONSTANTS
    RangeSizes,       \* sizes a byte range of a message's data may have
    MaxRanges,        \* bound: byte ranges the data of one message has
    BufferSizes,      \* values the client gives maxBufferSizeBytes
    DefaultBufferSize,\* DDGetDefaultBufferSizeBytes: f_bsize of the file system
    MaxBufferSize,    \* DDGetMaxBufferSizeBytes: its f_iosize
    MaximumFileSize,  \* maximumFileSize of the file logger (0 disables it)
    MaxMessages,      \* bound: messages logged
    MaxIncidents,     \* bound: blocks in which a call of the file logger fails
    None

ASSUME BufferAssumption ==
    /\ RangeSizes \subseteq Nat \ {0} /\ MaxRanges \in Nat \ {0}
    /\ BufferSizes \subseteq Nat
    /\ MaxBufferSize \in Nat \ {0} /\ DefaultBufferSize \in 0 .. MaxBufferSize
    /\ MaximumFileSize \in Nat /\ MaxMessages \in Nat /\ MaxIncidents \in Nat
    /\ None \notin Nat

\* A byte range of the data of a message.
Chunks == [msg : 1 .. MaxMessages, part : 1 .. MaxRanges, size : RangeSizes]

VARIABLES
    wrapped,               \* a proxy exists
    registered,            \* it is a logger of DDLog
    buffer,                \* _buffer: the chunks in memory
    currentBufferSizeBytes,
    maxBufferSizeBytes,
    ranges,                \* the ranges of the message being logged, still to come
    written,               \* what the file logger wrote, in all its files
    offset,                \* size of the file it has open; None if there is none
    closed,                \* how many of the chunks are in files that were closed
    synced,                \* the places in "written" that are synchronised with the disk
    unsaved,               \* those that are not because synchronising their file failed
    logged, taken,         \* messages logged, and their chunks
    lost,                  \* the chunks whose write failed
    incidents,
    alive                  \* the process has not exited

memory == <<buffer, currentBufferSizeBytes>>
disk   == <<closed, synced, unsaved>>
file   == <<written, offset, disk>>
history == <<logged, taken>>
losses == <<lost, incidents>>
vars   == <<wrapped, registered, memory, maxBufferSizeBytes, ranges, file,
            history, losses, alive>>

Init ==
    /\ wrapped = TRUE /\ registered = FALSE
    /\ buffer = <<>> /\ currentBufferSizeBytes = 0
    /\ maxBufferSizeBytes = DefaultBufferSize
    /\ ranges = <<>>
    /\ written = <<>> /\ offset = None
    /\ closed = 0 /\ synced = {} /\ unsaved = {}
    /\ logged = 0 /\ taken = {} /\ lost = {} /\ incidents = 0
    /\ alive = TRUE

\* No block of the logger's queue is under way.
Idle == alive /\ ranges = <<>>

-----------------------------------------------------------------------------
(* The file logger.                                                          *)

\* The size of the first n chunks, and of all of them.  A function: the proofs have to
\* unfold it.
SizeOfFirst(data) ==
    LET size[n \in 0 .. Len(data)] == IF n = 0 THEN 0 ELSE size[n - 1] + data[n].size
    IN  size
Total(data) == SizeOfFirst(data)[Len(data)]

Size == IF offset = None THEN 0 ELSE offset

\* Whether the calls of a block succeed is not up to the code.
Attempt(success) ==
    IF success THEN UNCHANGED incidents ELSE incidents < MaxIncidents /\ incidents' = incidents + 1

\* A file that got too large is rolled, unless its size cannot be told.
Checked(size, checks) ==
    IF checks /\ MaximumFileSize > 0 /\ size >= MaximumFileSize THEN None ELSE size

\* Opens a file if none is open, writes, and checks the size.
Write(data, checks) ==
    /\ written' = written \o data
    /\ offset' = Checked(Size + Total(data), checks)
    /\ UNCHANGED lost

\* The file cannot be opened, or it is open and writeData: fails.
WriteFails(data, checks) ==
    /\ lost' = lost \cup ToSet(data)
    /\ offset' \in {offset, Checked(Size, checks)}
    /\ UNCHANGED written

lt_logData(data, writes, checks) ==
    \/ data = <<>> /\ writes /\ checks /\ UNCHANGED <<written, offset, lost>>
    \/ data # <<>> /\ writes /\ Write(data, checks)
    \/ data # <<>> /\ ~writes /\ WriteFails(data, checks)

\* Places of the chunks in the file that is open, or is being rolled; none without one.
OpenFile == closed + 1 .. Len(written')

\* synchronizeAndReturnError: of that file, which has no effect when it fails.
Synchronize(success) ==
    IF success THEN synced' = synced \cup OpenFile /\ unsaved' = unsaved \ OpenFile
    ELSE OpenFile # {} /\ synced' = synced /\ unsaved' = unsaved \cup (OpenFile \ synced)

\* Faulty variant of SynchronizeIfRolled: a file that is rolled is just closed.
CloseIfRolled(success) ==
    success /\ closed' = (IF offset' = None THEN Len(written') ELSE closed) /\ UNCHANGED <<synced, unsaved>>
\* lt_rollLogFileNow synchronises the file before it closes it.
SynchronizeIfRolled(success) ==
    IF offset' = None THEN Synchronize(success) /\ closed' = Len(written')
    ELSE success /\ UNCHANGED disk

\* lt_flush after the data was handed over: if that rolled the file there is none to
\* synchronise any more.
lt_flush(success) ==
    IF offset' = None THEN SynchronizeIfRolled(success) ELSE Synchronize(success) /\ UNCHANGED closed

-----------------------------------------------------------------------------
(* The proxy.                                                                *)

\* Faulty variant of Send: the buffer is kept, as for another attempt.
SendKept(data, flushes) ==
    /\ buffer' = data /\ UNCHANGED currentBufferSizeBytes
    /\ \E writes, checks, syncs \in BOOLEAN :
          /\ lt_logData(data, writes, checks)
          /\ IF flushes THEN lt_flush(syncs) ELSE SynchronizeIfRolled(syncs)
          /\ Attempt(writes /\ checks /\ syncs)
\* lt_sendBufferedDataToFileLogger and flushBuffer; then the file logger may be flushed.
Send(data, flushes) ==
    /\ buffer' = <<>> /\ currentBufferSizeBytes' = 0
    /\ \E writes, checks, syncs \in BOOLEAN :
          /\ lt_logData(data, writes, checks)
          /\ IF flushes THEN lt_flush(syncs) ELSE SynchronizeIfRolled(syncs)
          /\ Attempt(writes /\ checks /\ syncs)

\* Data without any byte is not logged.
logMessage ==
    /\ Idle /\ registered /\ logged < MaxMessages
    /\ \E n \in 1 .. MaxRanges : \E size \in [1 .. n -> RangeSizes] :
          ranges' = [i \in 1 .. n |-> [msg |-> logged + 1, part |-> i, size |-> size[i]]]
    /\ logged' = logged + 1 /\ taken' = taken \cup ToSet(ranges')
    /\ UNCHANGED <<wrapped, registered, memory, maxBufferSizeBytes, file, losses, alive>>

Full == currentBufferSizeBytes + Head(ranges).size >= maxBufferSizeBytes

\* The limit is looked at after each range.
AppendRange ==
    /\ alive /\ ranges # <<>>
    /\ \/ Full /\ Send(Append(buffer, Head(ranges)), FALSE)
       \/ /\ ~Full
          /\ buffer' = Append(buffer, Head(ranges))
          /\ currentBufferSizeBytes' = currentBufferSizeBytes + Head(ranges).size
          /\ UNCHANGED <<file, losses>>
    /\ ranges' = Tail(ranges)
    /\ UNCHANGED <<wrapped, registered, maxBufferSizeBytes, history, alive>>

FlushAll == Send(buffer, TRUE)

\* By flushLog if the proxy is registered, by the client in any case.
flush ==
    /\ Idle /\ wrapped
    /\ FlushAll
    /\ UNCHANGED <<wrapped, registered, maxBufferSizeBytes, ranges, history, alive>>

\* Faulty variant of setMaxBufferSizeBytes: what the system prefers is no limit.
setMaxBufferSizeBytesUnlimited(n) ==
    /\ alive /\ wrapped
    /\ maxBufferSizeBytes' = n
    /\ UNCHANGED <<wrapped, registered, memory, ranges, file, history, losses, alive>>
\* Any thread, at any time, also between two ranges of a message.  The class is not
\* in a header: only a caller that knows the proxy for what it is gets here.
setMaxBufferSizeBytes(n) ==
    /\ alive /\ wrapped
    /\ maxBufferSizeBytes' = IF n < MaxBufferSize THEN n ELSE MaxBufferSize
    /\ UNCHANGED <<wrapped, registered, memory, ranges, file, history, losses, alive>>

-----------------------------------------------------------------------------
(* What is forwarded to the file logger: neither looks at the buffer.        *)

Roll ==
    /\ offset' = None /\ UNCHANGED <<written, lost>>
    /\ \E syncs \in BOOLEAN : SynchronizeIfRolled(syncs) /\ Attempt(syncs)

\* On demand or by age.
rollLogFile ==
    /\ Idle /\ offset # None
    /\ Roll
    /\ UNCHANGED <<wrapped, registered, memory, maxBufferSizeBytes, ranges, history, alive>>

didAddLogger ==
    /\ Idle /\ wrapped /\ ~registered
    /\ registered' = TRUE
    /\ UNCHANGED <<wrapped, memory, maxBufferSizeBytes, ranges, file, history, losses, alive>>

willRemoveLogger ==
    /\ Idle /\ registered
    /\ registered' = FALSE
    /\ Roll
    /\ UNCHANGED <<wrapped, memory, maxBufferSizeBytes, ranges, history, alive>>

-----------------------------------------------------------------------------
(* The life of proxy and process.                                            *)

\* Faulty variant of dealloc: the buffer goes with the proxy.
deallocUnsent ==
    /\ Idle /\ wrapped /\ ~registered
    /\ wrapped' = FALSE
    /\ buffer' = <<>> /\ currentBufferSizeBytes' = 0
    /\ UNCHANGED <<registered, maxBufferSizeBytes, ranges, file, history, losses, alive>>
\* The last reference goes; while it is registered DDLog holds one.
dealloc ==
    /\ Idle /\ wrapped /\ ~registered
    /\ wrapped' = FALSE
    /\ Send(buffer, FALSE)
    /\ UNCHANGED <<registered, maxBufferSizeBytes, ranges, history, alive>>

wrapWithBuffer ==
    /\ Idle /\ ~wrapped
    /\ wrapped' = TRUE
    /\ maxBufferSizeBytes' = DefaultBufferSize
    /\ UNCHANGED <<registered, memory, ranges, file, history, losses, alive>>

\* DDLog flushes the registered loggers; what else is in memory goes.
ApplicationWillTerminate ==
    /\ Idle
    /\ alive' = FALSE
    /\ IF registered THEN FlushAll ELSE UNCHANGED <<memory, file, losses>>
    /\ UNCHANGED <<wrapped, registered, maxBufferSizeBytes, ranges, history>>

Exited == ~alive /\ UNCHANGED vars

Next ==
    \/ logMessage \/ AppendRange \/ flush
    \/ \E n \in BufferSizes : setMaxBufferSizeBytes(n)
    \/ rollLogFile \/ didAddLogger \/ willRemoveLogger
    \/ dealloc \/ wrapWithBuffer
    \/ ApplicationWillTerminate \/ Exited

Spec == Init /\ [][Next]_vars
=============================================================================
