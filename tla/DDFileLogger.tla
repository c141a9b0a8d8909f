---------------------------- MODULE DDFileLogger ----------------------------
(***************************************************************************)
(* DDFileLogger and its DDLogFileManagerDefault (DDFileLogger.m): which log *)
(* file is written, when it is rolled and archived, and how background      *)
(* passes on a global queue delete old files meanwhile.                     *)
(*                                                                         *)
(* Blocks of the logger's serial queue are atomic except where another      *)
(* process or a deletion pass can come between two of their file system     *)
(* calls: finding a file, opening it, and watching it are separate steps.   *)
(* Sizes are counted in messages, times in ticks of the wall clock.  A file *)
(* is named after its time of creation, as newLogFileName names it.         *)
(* Calls that change the file system may fail, and so may getOffset.        *)
(***************************************************************************)
EXTENDS Integers, Sequences, FiniteSets, Functions

CONSTANTS
    MaximumFileSizes,   \* values the client gives maximumFileSize (0 disables it)
    RollingFrequencies, \* values of rollingFrequency (0 disables it)
    MaximumNumbers,     \* values of maximumNumberOfLogFiles (0 disables it)
    DiskQuotas,         \* values of logFilesDiskQuota (0 disables it)
    RollingLeeway,      \* kDDRollingLeeway
    DoNotReuseLogFiles, \* doNotReuseLogFiles
    Clock,              \* how the wall clock moves, one of ClockKinds
    MaxTime,            \* bound: the clock stops here
    MaxMessages,        \* bound: messages logged
    MaxPasses,          \* bound: deletion passes outstanding when a setting changes
    MaxIncidents,       \* bound: crashes, failures and removals by other programs
    None                \* nil

\* The clock may be set back.  "apart": still every file is created at least one tick
\* of the file date format after the last one; "steady": or in the same tick;
\* "adjusted": the clock may be set back to any time before.
ClockKinds == {"apart", "steady", "adjusted"}

ASSUME DDFileLoggerAssumption ==
    /\ MaximumFileSizes \subseteq Nat /\ RollingFrequencies \subseteq Nat
    /\ MaximumNumbers \subseteq Nat /\ DiskQuotas \subseteq Nat
    /\ RollingLeeway \in Nat
    /\ DoNotReuseLogFiles \in BOOLEAN
    /\ Clock \in ClockKinds
    /\ MaxTime \in Nat /\ MaxMessages \in Nat /\ MaxPasses \in Nat /\ MaxIncidents \in Nat
    /\ None \notin Nat

Names == 0 .. MaxTime
FileRecord == [name : Names, size : Nat, archived : BOOLEAN]

VARIABLES
    now,      \* the wall clock
    disk,     \* the logs directory: name -> number of the file it links to
    files,    \* every file ever created: name, size, archived (the extended attribute)
    info,     \* _currentLogFileInfo: a name
    created,  \* its creationDate, None as long as its file attributes were not read
    handle,   \* _currentLogFileHandle: the number of the open file
    watched,  \* _currentLogFileVnode: the open file, None if not watched
    timer,    \* _rollingTimer: the time it fires, None if not set
    stage,    \* how far logging a message has got when the file must be opened first
    maximumFileSize, rollingFrequency, maximumNumberOfLogFiles, logFilesDiskQuota,
    requested, \* deletion passes dispatched and not started
    passes,    \* the running passes: the names each has still to delete
    completionQueue, \* _completionQueue: the calls of didArchiveLogFile: dispatched, per name
    announced, \* the calls of didArchiveLogFile: that were made
    logged,    \* messages logged
    incidents, \* failures, removals by others and clock adjustments so far
    launches,  \* how often the process was restarted
    \* What failed, recorded for the properties:
    unmarked,  \* names of the files that could not be archived at some time
    unchecked, \* whether the last check of the open file's size failed
    undeleted, \* names of the files not deleted since the last pass started
    lost       \* names with calls of didArchiveLogFile: that died with the process

open     == <<info, created, handle, watched, timer, unchecked>>
archive  == <<files, unmarked, completionQueue>>
notices  == <<announced, lost>>
settings == <<maximumFileSize, rollingFrequency, maximumNumberOfLogFiles, logFilesDiskQuota>>
deletion == <<requested, passes, undeleted>>
counters == <<logged, incidents, launches>>
vars     == <<now, disk, archive, open, stage, settings, deletion, notices, counters>>

Init ==
    /\ now = 0 /\ disk = <<>> /\ files = <<>>
    /\ info = None /\ created = None /\ handle = None /\ watched = None /\ timer = None
    /\ stage = "idle"
    /\ maximumFileSize \in MaximumFileSizes /\ rollingFrequency \in RollingFrequencies
    /\ maximumNumberOfLogFiles \in MaximumNumbers /\ logFilesDiskQuota \in DiskQuotas
    /\ requested = 0 /\ passes = <<>>
    /\ completionQueue = [f \in Names |-> 0] /\ announced = [f \in Names |-> 0]
    /\ logged = 0 /\ incidents = 0 /\ launches = 0
    /\ unmarked = {} /\ unchecked = FALSE /\ undeleted = {} /\ lost = {}

-----------------------------------------------------------------------------
Linked(i) == files[i].name \in DOMAIN disk /\ disk[files[i].name] = i
File(f) == files[disk[f]]
IsNewest(f) == \A g \in DOMAIN disk : g <= f
Age(f) == now - f

\* Every block of the logger's queue starts when the one before it ended.
Idle == stage = "idle"

\* Whether all calls of a step succeed is not up to the code; failures are incidents.
Attempt(success) ==
    IF success THEN UNCHANGED incidents ELSE incidents < MaxIncidents /\ incidents' = incidents + 1

\* The calls of didArchiveLogFile: for one name, waiting or made.
Calls(f) == completionQueue[f] + announced[f]

\* setIsArchived: sets the attribute of the file at the path, if there is one.
\* A failure is only logged; in either case the file is announced as archived.
Archive(fs, f, success) ==
    IF success /\ f \in DOMAIN disk THEN [fs EXCEPT ![disk[f]].archived = TRUE] ELSE fs
Announce(f, success) ==
    /\ completionQueue' = [completionQueue EXCEPT ![f] = @ + 1]
    /\ unmarked' = IF success \/ f \notin DOMAIN disk THEN unmarked ELSE unmarked \cup {f}

\* No file is open, nor known, and the sources are cancelled.
Forget ==
    /\ info' = None /\ created' = None /\ handle' = None
    /\ watched' = None /\ timer' = None /\ unchecked' = FALSE

\* Faulty variants of RollFrom: the file is not archived; the vnode source stays.
RollFromUnarchived(fs, success) ==
    files' = fs /\ Announce(info, TRUE) /\ Forget
RollFromWatching(fs, success) ==
    /\ files' = Archive(fs, info, success) /\ Announce(info, success)
    /\ info' = None /\ created' = None /\ handle' = None
    /\ watched' = watched /\ timer' = None /\ unchecked' = FALSE
\* lt_rollLogFileNow with an open file: close, archive, announce, cancel the sources.
RollFrom(fs, success) ==
    files' = Archive(fs, info, success) /\ Announce(info, success) /\ Forget

lt_rollLogFileNow ==
    IF handle = None THEN UNCHANGED <<archive, open, incidents>>
    ELSE \E success \in BOOLEAN : Attempt(success) /\ RollFrom(files, success)

\* The attributes of the current file are read once, and again while that fails.
CreationDate ==
    IF created # None THEN created ELSE IF info \in DOMAIN disk THEN info ELSE None

\* lt_scheduleTimerToRollLogFileDueToAge: nil has its way through the date
\* arithmetic, the timer of a file that has no creation date fires at once.
Schedule(date, frequency) ==
    IF frequency = 0 THEN None ELSE IF date = None THEN now ELSE date + frequency

\* lt_maybeRollLogFileDueToAge; and so such a file never gets older.
IsDue(frequency) ==
    frequency > 0 /\ (IF CreationDate = None THEN 0 ELSE Age(CreationDate)) + RollingLeeway >= frequency

\* Faulty variant of RollDueToAge: the timer is not set again.
RollDueToAgeOnce(frequency) ==
    IF IsDue(frequency) THEN lt_rollLogFileNow
    ELSE timer' = None /\ UNCHANGED <<archive, info, created, handle, watched, unchecked, incidents>>
\* With the file open.
RollDueToAge(frequency) ==
    IF IsDue(frequency) THEN lt_rollLogFileNow
    ELSE /\ timer' = Schedule(CreationDate, frequency)
         /\ created' = CreationDate
         /\ UNCHANGED <<archive, info, handle, watched, unchecked, incidents>>

\* lt_maybeRollLogFileDueToSize.
TooLarge(size, maximum) == maximum > 0 /\ size >= maximum

-----------------------------------------------------------------------------
(* Finding the file to write: lt_currentLogFileInfo.                         *)

\* createNewLogFileWithError: the write is atomic, so it replaces a file of the
\* same name.  A deletion pass is dispatched.  Five errors in a row give up.  (The
\* parameters: the files, and whether the block had no failure before.)
CreateNewLogFile(fs, success) ==
    \/ LET f == IF Clock = "apart" THEN now + 1 ELSE now
       IN  /\ f <= MaxTime
           /\ now' = f
           /\ files' = Append(fs, [name |-> f, size |-> 0, archived |-> FALSE])
           /\ disk' = [g \in DOMAIN disk \cup {f} |-> IF g = f THEN Len(fs) + 1 ELSE disk[g]]
           /\ info' = f /\ created' = None
           /\ requested' = requested + 1
           /\ Attempt(success)
    \/ /\ Attempt(FALSE)
       /\ info' = None /\ created' = None
       /\ files' = fs
       /\ UNCHANGED <<now, disk, requested>>

\* lt_shouldLogFileBeArchived.
ShouldBeArchived(f) ==
    \/ TooLarge(File(f).size, maximumFileSize)
    \/ rollingFrequency > 0 /\ Age(f) >= rollingFrequency

\* The newest file may go on being used.
MayResume(f) == ~File(f).archived /\ ~DoNotReuseLogFiles /\ ~ShouldBeArchived(f)

Keep(f, date) ==
    /\ info' = f /\ created' = date
    /\ UNCHANGED <<now, disk, archive, requested, incidents>>
Renew == CreateNewLogFile(files, TRUE) /\ UNCHANGED <<unmarked, completionQueue>>

\* Faulty variant of FindLogFile: an archived file is resumed.
FindLogFileArchived ==
    \/ info # None /\ Keep(info, CreationDate)
    \/ info = None /\ DOMAIN disk = {} /\ Renew
    \/ info = None /\ \E f \in DOMAIN disk : IsNewest(f) /\ Keep(f, f)
\* Faulty variant of FindLogFile: the file that must not be reused is left as it is.
FindLogFileUnarchived ==
    \/ info # None /\ Keep(info, CreationDate)
    \/ info = None /\ DOMAIN disk = {} /\ Renew
    \/ info = None /\ \E f \in DOMAIN disk :
           IsNewest(f) /\ (IF MayResume(f) THEN Keep(f, f) ELSE Renew)

\* The current file is kept unless it is archived.  Without one the newest file
\* of the directory is resumed, archived on the spot if it must not be reused, or
\* left alone if it is archived; then a new one is created.
FindLogFile ==
    \/ /\ info # None
       /\ ~(info \in DOMAIN disk /\ File(info).archived)
       /\ Keep(info, CreationDate)
    \/ /\ info # None /\ info \in DOMAIN disk /\ File(info).archived
       /\ Renew
    \/ /\ info = None
       /\ DOMAIN disk = {}
       /\ Renew
    \/ /\ info = None
       /\ \E f \in DOMAIN disk :
            /\ IsNewest(f)
            /\ \/ MayResume(f) /\ Keep(f, f)
               \/ File(f).archived /\ Renew
               \/ /\ ~File(f).archived /\ ~MayResume(f)
                  /\ \E success \in BOOLEAN :
                        CreateNewLogFile(Archive(files, f, success), success) /\ Announce(f, success)

\* The public currentLogFileInfo finds a file but does not open it.
currentLogFileInfo ==
    /\ Idle
    /\ FindLogFile
    /\ UNCHANGED <<handle, watched, timer, unchecked, stage, settings, passes, undeleted, notices,
                   logged, launches>>

-----------------------------------------------------------------------------
(* Logging: lt_logData.                                                      *)

\* Writing one message to the open file, and didLogMessage: the size check.  For a
\* file that was just opened the date is read and timer and vnode source are set.
\* A message that cannot be written is lost, and without the offset the check is
\* left out; when the write raises an exception both are the case.
Write(date, rollingTimer, vnode) ==
    \E written, checked, success \in BOOLEAN :
        LET fs == IF written THEN [files EXCEPT ![handle].size = @ + 1] ELSE files
        IN  /\ Attempt(written /\ checked /\ success)
            /\ logged' = logged + 1
            /\ IF checked /\ TooLarge(fs[handle].size, maximumFileSize)
               THEN RollFrom(fs, success)
               ELSE /\ success
                    /\ files' = fs
                    /\ created' = date
                    /\ timer' = rollingTimer
                    /\ watched' = vnode
                    /\ unchecked' = ~checked
                    /\ UNCHANGED <<unmarked, completionQueue, info, handle>>

\* A message when the file is open.
logMessage ==
    /\ Idle /\ logged < MaxMessages
    /\ handle # None
    /\ Write(created, timer, watched)
    /\ UNCHANGED <<now, disk, stage, settings, deletion, notices, launches>>

\* Otherwise lt_currentLogFileHandle finds one ...
logMessageFindsFile ==
    /\ Idle /\ logged < MaxMessages
    /\ handle = None
    /\ FindLogFile
    /\ stage' = "open"
    /\ UNCHANGED <<handle, watched, timer, unchecked, settings, passes, undeleted, notices,
                   logged, launches>>

\* ... opens it; the message is dropped when there is no file or it cannot be opened ...
OpenLogFile ==
    /\ stage = "open"
    /\ \/ /\ info # None /\ info \in DOMAIN disk
          /\ handle' = disk[info]
          /\ stage' = "watch"
          /\ UNCHANGED incidents
       \/ /\ info = None \/ info \notin DOMAIN disk
          /\ stage' = "idle"
          /\ UNCHANGED <<handle, incidents>>
       \/ /\ info # None /\ info \in DOMAIN disk
          /\ Attempt(FALSE)
          /\ stage' = "idle"
          /\ UNCHANGED handle
    /\ UNCHANGED <<now, disk, archive, info, created, watched, timer, unchecked, settings, deletion,
                   notices, logged, launches>>

\* ... sets the timer, watches the file (in vain if it is already gone) and writes.
WatchAndWrite ==
    /\ stage = "watch"
    /\ stage' = "idle"
    /\ Write(CreationDate, Schedule(CreationDate, rollingFrequency),
             IF Linked(handle) THEN handle ELSE None)
    /\ UNCHANGED <<now, disk, settings, deletion, notices, launches>>

-----------------------------------------------------------------------------
(* Rolling, removal and the settings, on the logger's queue.                 *)

\* rollLogFile, and willRemoveLogger when the logger leaves the logging system.
rollLogFile ==
    /\ Idle
    /\ lt_rollLogFileNow
    /\ UNCHANGED <<now, disk, stage, settings, deletion, notices, logged, launches>>

\* The timer's handler.
RollingTimerFires ==
    /\ Idle
    /\ timer # None /\ now >= timer
    /\ RollDueToAge(rollingFrequency)
    /\ UNCHANGED <<now, disk, stage, settings, deletion, notices, logged, launches>>

\* The handler of the vnode source: the watched file was deleted, moved or replaced.
LogFileWasMoved ==
    /\ Idle
    /\ watched # None /\ ~Linked(watched)
    /\ lt_rollLogFileNow
    /\ UNCHANGED <<now, disk, stage, settings, deletion, notices, logged, launches>>

\* Faulty variant of setMaximumFileSize: the open file is not checked.
setMaximumFileSizeUnchecked(n) ==
    /\ Idle
    /\ maximumFileSize' = n
    /\ UNCHANGED <<now, disk, archive, open, stage, rollingFrequency, maximumNumberOfLogFiles,
                   logFilesDiskQuota, deletion, notices, counters>>
\* The size check fails as it does for a message.
setMaximumFileSize(n) ==
    /\ Idle
    /\ maximumFileSize' = n
    /\ \E checked, success \in BOOLEAN :
         /\ handle = None => checked
         /\ Attempt(checked /\ success)
         /\ IF handle # None /\ checked /\ TooLarge(files[handle].size, n)
            THEN RollFrom(files, success)
            ELSE /\ success
                 /\ unchecked' = ~checked
                 /\ UNCHANGED <<archive, info, created, handle, watched, timer>>
    /\ UNCHANGED <<now, disk, stage, rollingFrequency, maximumNumberOfLogFiles,
                   logFilesDiskQuota, deletion, notices, logged, launches>>

setRollingFrequency(n) ==
    /\ Idle
    /\ rollingFrequency' = n
    /\ IF handle # None THEN RollDueToAge(n) ELSE UNCHANGED <<archive, open, incidents>>
    /\ UNCHANGED <<now, disk, stage, maximumFileSize, maximumNumberOfLogFiles,
                   logFilesDiskQuota, deletion, notices, logged, launches>>

\* The block dispatched to the completion queue runs.
didArchiveLogFile(f) ==
    /\ completionQueue[f] > 0
    /\ completionQueue' = [completionQueue EXCEPT ![f] = @ - 1]
    /\ announced' = [announced EXCEPT ![f] = @ + 1]
    /\ UNCHANGED <<now, disk, files, unmarked, open, stage, settings, deletion, lost, counters>>

\* lt_cleanup, from dealloc: the file is closed and not archived.  The blocks on the
\* completion queue retain the logger.  The program creates another one for the same
\* directory.
lt_cleanup ==
    /\ Idle
    /\ \A f \in Names : completionQueue[f] = 0
    /\ launches < MaxIncidents
    /\ Forget
    /\ launches' = launches + 1
    /\ UNCHANGED <<now, disk, archive, stage, settings, deletion, notices, logged, incidents>>

-----------------------------------------------------------------------------
(* Deletion of old files by the file manager, on a global concurrent queue.  *)

\* A setting that changed has old files deleted.
setMaximumNumberOfLogFiles(n) ==
    /\ n # maximumNumberOfLogFiles
    /\ requested + Len(passes) < MaxPasses
    /\ maximumNumberOfLogFiles' = n
    /\ requested' = requested + 1
    /\ UNCHANGED <<now, disk, archive, open, stage, maximumFileSize, rollingFrequency,
                   logFilesDiskQuota, passes, undeleted, notices, counters>>

setLogFilesDiskQuota(n) ==
    /\ n # logFilesDiskQuota
    /\ requested + Len(passes) < MaxPasses
    /\ logFilesDiskQuota' = n
    /\ requested' = requested + 1
    /\ UNCHANGED <<now, disk, archive, open, stage, maximumFileSize, rollingFrequency,
                   maximumNumberOfLogFiles, passes, undeleted, notices, counters>>

\* The size of several files of the directory: the messages in them, counted.
Messages(F) == UNION {{f} \X (1 .. File(f).size) : f \in F}
SizeOf(F) == Cardinality(Messages(F))

\* From firstIndexToDelete on: the files beyond the number or the quota.
Excess ==
    {f \in DOMAIN disk :
        \/ maximumNumberOfLogFiles > 0
           /\ Cardinality({g \in DOMAIN disk : g > f}) >= maximumNumberOfLogFiles
        \/ logFilesDiskQuota > 0 /\ SizeOf({g \in DOMAIN disk : g >= f}) > logFilesDiskQuota}

\* Faulty variants of ToDelete: the newest file is not spared; one file too many stays.
ToDeleteAll == Excess
ToDeleteLess == {f \in Excess : \E g \in Excess : g > f}
\* The first file of the list is spared while it is not archived.
ToDelete == {f \in Excess : ~(IsNewest(f) /\ ~File(f).archived)}

\* deleteOldLogFilesWithError: lists the files and decides, then deletes them one
\* by one, the newest first, while the logger goes on.
StartDeletion ==
    /\ requested > 0
    /\ requested' = requested - 1
    /\ passes' = IF ToDelete = {} THEN passes ELSE Append(passes, ToDelete)
    /\ undeleted' = {}
    /\ UNCHANGED <<now, disk, archive, open, stage, settings, notices, counters>>

\* A file that cannot be deleted stays, and the pass goes on.
DeleteOldLogFile(p) ==
    \E f \in passes[p] :
        /\ \A g \in passes[p] : g <= f
        /\ \/ disk' = Restrict(disk, DOMAIN disk \ {f}) /\ UNCHANGED <<undeleted, incidents>>
           \/ undeleted' = undeleted \cup {f} /\ Attempt(FALSE) /\ UNCHANGED disk
        /\ passes' = IF passes[p] = {f}
                     THEN SubSeq(passes, 1, p - 1) \o SubSeq(passes, p + 1, Len(passes))
                     ELSE [passes EXCEPT ![p] = @ \ {f}]
        /\ UNCHANGED <<now, archive, open, stage, settings, requested, notices, logged, launches>>

-----------------------------------------------------------------------------
(* The environment.                                                          *)

Tick ==
    /\ now < MaxTime
    /\ now' = now + 1
    /\ UNCHANGED <<disk, archive, open, stage, settings, deletion, notices, counters>>

SetClockBack ==
    /\ Attempt(FALSE)
    /\ now' \in 0 .. now
    /\ Clock # "adjusted" => \A i \in DOMAIN files : files[i].name <= now'
    /\ UNCHANGED <<disk, archive, open, stage, settings, deletion, notices, logged, launches>>

\* Another program, or the user, deletes or moves a log file.
RemovedByOthers ==
    /\ Attempt(FALSE)
    /\ \E f \in DOMAIN disk : disk' = Restrict(disk, DOMAIN disk \ {f})
    /\ UNCHANGED <<now, archive, open, stage, settings, deletion, notices, logged, launches>>

\* The process dies, with its queues, and is started again.
Crash ==
    /\ launches < MaxIncidents
    /\ launches' = launches + 1
    /\ Forget
    /\ stage' = "idle" /\ requested' = 0 /\ passes' = <<>> /\ undeleted' = {}
    /\ lost' = lost \cup {f \in Names : completionQueue[f] > 0}
    /\ completionQueue' = [f \in Names |-> 0]
    /\ UNCHANGED <<now, disk, files, unmarked, settings, announced, logged, incidents>>

-----------------------------------------------------------------------------
LoggerQueue ==
    \/ OpenLogFile \/ WatchAndWrite \/ RollingTimerFires \/ LogFileWasMoved

DeleteOldLogFiles == StartDeletion \/ \E p \in DOMAIN passes : DeleteOldLogFile(p)

Client ==
    \/ logMessage \/ logMessageFindsFile \/ currentLogFileInfo \/ rollLogFile \/ lt_cleanup
    \/ \E n \in MaximumFileSizes : setMaximumFileSize(n)
    \/ \E n \in RollingFrequencies : setRollingFrequency(n)
    \/ \E n \in MaximumNumbers : setMaximumNumberOfLogFiles(n)
    \/ \E n \in DiskQuotas : setLogFilesDiskQuota(n)

Next ==
    \/ Client \/ LoggerQueue \/ DeleteOldLogFiles
    \/ \E f \in Names : didArchiveLogFile(f)
    \/ Tick \/ SetClockBack \/ RemovedByOthers \/ Crash

Spec == Init /\ [][Next]_vars

\* GCD runs what is enqueued, fires timers and delivers vnode events; the two
\* steps of a deletion pass are those of one background block.
Fairness ==
    /\ WF_vars(OpenLogFile) /\ WF_vars(WatchAndWrite)
    /\ WF_vars(RollingTimerFires) /\ WF_vars(LogFileWasMoved)
    /\ WF_vars(DeleteOldLogFiles)

FairSpec == Spec /\ Fairness
=============================================================================
