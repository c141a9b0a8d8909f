---------------------- MODULE DDAbstractDatabaseLogger ----------------------
(***************************************************************************)
(* The base class of database loggers (DDAbstractDatabaseLogger.m).        *)
(* Entries collect in a buffer of the subclass.  The class decides when    *)
(* the subclass saves them (a threshold, a timer, a flush, removal) and    *)
(* when it sweeps old entries from the database (a timer, every save, a    *)
(* smaller maxAge).                                                        *)
(*                                                                         *)
(* All its state is touched on the logger's serial queue only.  An action  *)
(* is a block that runs there, in an order that module DDLog allows for a  *)
(* logger registered once: messages come between didAddLogger and          *)
(* willRemoveLogger, blocks of setters come at any time.                   *)
(*                                                                         *)
(* Time is relative: points in time are kept as the number of ticks since, *)
(* deadlines as the number of ticks left, so that runs need no end.        *)
(***************************************************************************)
EXTENDS Integers

CONSTANTS
    SaveThresholds,  \* values of saveThreshold; 0 disables it
    SaveIntervals,   \* values of saveInterval; 0 disables it
    MaxAges,         \* values of maxAge; 0 disables it
    DeleteIntervals, \* values of deleteInterval; 0 disables it
    Horizon,         \* bound: older ages are not told apart
    MaxUnsaved,      \* bound: entries the buffer takes
    None

Ages == 0 .. Horizon

ASSUME DatabaseAssumption ==
    /\ Horizon \in Nat /\ MaxUnsaved \in Nat
    /\ SaveThresholds \subseteq Nat
    /\ SaveIntervals \subseteq Ages /\ DeleteIntervals \subseteq Ages
    /\ MaxAges \subseteq Nat
    /\ None \notin Int

VARIABLES
    saveThreshold, saveInterval, maxAge, deleteInterval, deleteOnEverySave, \* the settings
    unsavedCount,  \* _unsavedCount
    unsavedTime,   \* the age of _unsavedTime; None stands for 0
    saveTimer,     \* _saveTimer and _saveTimerSuspended
    lastDelete,    \* the age of _lastDeleteTime; None stands for 0
    deleteTimer,   \* ticks until _deleteTimer fires; None if there is none
    added,         \* the logger is registered
    buffered,      \* how many entries the subclass has in its buffer ...
    oldest,        \* ... and the age of the oldest; None if it is empty
    swept          \* ticks since the subclass was last asked to delete; None: never

settings == <<saveThreshold, saveInterval, maxAge, deleteInterval, deleteOnEverySave>>
unsaved  == <<unsavedCount, unsavedTime, buffered, oldest>>
sweeping == <<lastDelete, deleteTimer, swept>>
vars     == <<settings, unsaved, saveTimer, sweeping, added>>

\* Ticks from now until interval has passed since a time that is age ticks ago.
Remaining(interval, age) == IF age < interval THEN interval - age ELSE 0

-----------------------------------------------------------------------------
(* Dispatch sources.  Resuming one that runs or releasing one that does not  *)
(* crashes the program; activating one twice does nothing.                   *)

Activate(source) == IF source = "inactive" THEN "running" ELSE source
Resume(source)   == IF source = "running" THEN "crashed" ELSE "running"
Suspend(source)  == IF source = "running" THEN "suspended" ELSE "crashed"
Release(source)  == IF source = "running" THEN "none" ELSE "crashed"

\* The timer exists (source), the code's idea of its state (suspended: -1 not yet
\* activated, 1 suspended, 0 running) and, while it runs, the ticks left.
Timers == [source : {"none", "inactive", "suspended", "running", "crashed"},
           suspended : -1 .. 1, due : Ages]
NoTimer == [source |-> "none", suspended |-> 0, due |-> 0]

Awake(t) == CASE t.suspended < 0 -> Activate(t.source)
              [] t.suspended > 0 -> Resume(t.source)
              [] OTHER           -> t.source

SuspendSaveTimer(t) ==
    IF t.source # "none" /\ t.suspended = 0
    THEN [source |-> Suspend(t.source), suspended |-> 1, due |-> 0] ELSE t

\* Faulty variant of destroySaveTimer: a suspended timer is released as it is.
destroySaveTimerSuspended(t) ==
    IF t.source # "none"
    THEN [source |-> Release(IF t.suspended < 0 THEN Activate(t.source) ELSE t.source),
          suspended |-> 0, due |-> 0] ELSE t

destroySaveTimer(t) ==
    IF t.source # "none"
    THEN [source |-> Release(Awake(t)), suspended |-> 0, due |-> 0] ELSE t

\* Faulty variant of updateAndResumeSaveTimer: the interval is counted from now.
updateAndResumeSaveTimerFromNow(t, interval, since) ==
    IF t.source # "none" /\ interval > 0 /\ since # None
    THEN [source |-> Awake(t), suspended |-> 0, due |-> interval] ELSE t

updateAndResumeSaveTimer(t, interval, since) ==
    IF t.source # "none" /\ interval > 0 /\ since # None
    THEN [source |-> Awake(t), suspended |-> 0, due |-> Remaining(interval, since)] ELSE t

createSuspendedSaveTimer(t, interval) ==
    IF t.source = "none" /\ interval > 0
    THEN [source |-> "inactive", suspended |-> -1, due |-> 0] ELSE t

\* The delete timer has no state but its deadline: it is activated when created.
updateDeleteTimer(t, interval, age, last) ==
    IF t # None /\ interval > 0 /\ age > 0
    THEN Remaining(interval, IF last = None THEN 0 ELSE last) ELSE t

\* Faulty variant of createAndStartDeleteTimer: maxAge is not looked at.
createAndStartDeleteTimerUnchecked(t, interval, age, last) ==
    IF t = None /\ interval > 0
    THEN Remaining(interval, IF last = None THEN 0 ELSE last) ELSE t

createAndStartDeleteTimer(t, interval, age, last) ==
    IF t = None /\ interval > 0 /\ age > 0
    THEN updateDeleteTimer(0, interval, age, last) ELSE t

-----------------------------------------------------------------------------
Init ==
    /\ saveThreshold \in SaveThresholds /\ saveInterval \in SaveIntervals
    /\ maxAge \in MaxAges /\ deleteInterval \in DeleteIntervals
    /\ deleteOnEverySave = FALSE
    /\ unsavedCount = 0 /\ unsavedTime = None /\ saveTimer = NoTimer
    /\ lastDelete = None /\ deleteTimer = None
    /\ added = FALSE /\ buffered = 0 /\ oldest = None /\ swept = None

\* db_save or db_saveAndDelete of the subclass, if there is anything to save.
Save ==
    /\ unsavedCount' = 0 /\ unsavedTime' = None
    /\ IF unsavedCount > 0
       THEN /\ buffered' = 0 /\ oldest' = None
            /\ swept' = IF deleteOnEverySave THEN 0 ELSE swept
       ELSE UNCHANGED <<buffered, oldest, swept>>

performSaveAndSuspendSaveTimer ==
    /\ Save
    /\ saveTimer' = SuspendSaveTimer(saveTimer)

\* age is the value of maxAge the setter has stored.
performDelete(age) ==
    IF age > 0 THEN swept' = 0 /\ lastDelete' = 0 ELSE UNCHANGED <<swept, lastDelete>>

SaveTimerFires ==
    /\ saveTimer.source = "running" /\ saveTimer.due = 0
    /\ performSaveAndSuspendSaveTimer
    /\ UNCHANGED <<settings, lastDelete, deleteTimer, added>>

\* The delete timer repeats by itself, in its old rhythm if this block is late.
DeleteTimerFires ==
    /\ deleteTimer = 0
    /\ performDelete(maxAge)
    /\ deleteTimer' \in 1 .. deleteInterval
    /\ UNCHANGED <<settings, unsaved, saveTimer, added>>

\* Faulty variant of setSaveThreshold: the buffer is not compared with the new threshold.
setSaveThresholdUnchecked(n) ==
    /\ saveThreshold' = n
    /\ UNCHANGED <<saveInterval, maxAge, deleteInterval, deleteOnEverySave,
                   unsaved, saveTimer, sweeping, added>>

setSaveThreshold(n) ==
    /\ saveThreshold' = n
    /\ IF n # saveThreshold /\ unsavedCount >= n /\ n > 0
       THEN performSaveAndSuspendSaveTimer
       ELSE UNCHANGED <<unsaved, saveTimer, swept>>
    /\ UNCHANGED <<saveInterval, maxAge, deleteInterval, deleteOnEverySave,
                   lastDelete, deleteTimer, added>>

\* Faulty variant of setSaveInterval: a timer that is made late stays suspended.
setSaveIntervalAsleep(n) ==
    /\ n # saveInterval
    /\ saveInterval' = n
    /\ saveTimer' = IF n > 0 THEN createSuspendedSaveTimer(saveTimer, n)
                    ELSE destroySaveTimer(saveTimer)
    /\ UNCHANGED <<saveThreshold, maxAge, deleteInterval, deleteOnEverySave,
                   unsaved, sweeping, added>>

setSaveInterval(n) ==
    /\ n # saveInterval
    /\ saveInterval' = n
    /\ saveTimer' =
          IF n > 0
          THEN updateAndResumeSaveTimer(createSuspendedSaveTimer(saveTimer, n), n, unsavedTime)
          ELSE destroySaveTimer(saveTimer)
    /\ UNCHANGED <<saveThreshold, maxAge, deleteInterval, deleteOnEverySave,
                   unsaved, sweeping, added>>

\* Deletes at once if the limit is new or stricter.
setMaxAge(n) ==
    /\ n # maxAge
    /\ maxAge' = n
    /\ IF n > 0 /\ (maxAge = 0 \/ n < maxAge)
       THEN /\ performDelete(n)
            /\ deleteTimer' =
                 IF deleteTimer # None
                 THEN updateDeleteTimer(deleteTimer, deleteInterval, n, lastDelete')
                 ELSE createAndStartDeleteTimer(deleteTimer, deleteInterval, n, lastDelete')
       ELSE /\ deleteTimer' = IF n = 0 THEN None ELSE deleteTimer
            /\ UNCHANGED <<swept, lastDelete>>
    /\ UNCHANGED <<saveThreshold, saveInterval, deleteInterval, deleteOnEverySave,
                   unsaved, saveTimer, added>>

setDeleteInterval(n) ==
    /\ n # deleteInterval
    /\ deleteInterval' = n
    /\ deleteTimer' =
          IF n = 0 THEN None
          ELSE IF deleteTimer = None
          THEN createAndStartDeleteTimer(deleteTimer, n, maxAge, lastDelete)
          ELSE updateDeleteTimer(deleteTimer, n, maxAge, lastDelete)
    /\ UNCHANGED <<saveThreshold, saveInterval, maxAge, deleteOnEverySave,
                   unsaved, saveTimer, lastDelete, swept, added>>

setDeleteOnEverySave(flag) ==
    /\ deleteOnEverySave' = flag
    /\ UNCHANGED <<saveThreshold, saveInterval, maxAge, deleteInterval,
                   unsaved, saveTimer, sweeping, added>>

\* savePendingLogEntries, and flush of the DDLogger protocol.
savePendingLogEntries ==
    /\ performSaveAndSuspendSaveTimer
    /\ UNCHANGED <<settings, lastDelete, deleteTimer, added>>

deleteOldLogEntries ==
    /\ performDelete(maxAge)
    /\ UNCHANGED <<settings, unsaved, saveTimer, deleteTimer, added>>

didAddLogger ==
    /\ ~added /\ added' = TRUE
    /\ saveTimer' = createSuspendedSaveTimer(saveTimer, saveInterval)
    /\ deleteTimer' = createAndStartDeleteTimer(deleteTimer, deleteInterval, maxAge, lastDelete)
    /\ UNCHANGED <<settings, unsaved, lastDelete, swept>>

willRemoveLogger ==
    /\ added /\ added' = FALSE
    /\ Save
    /\ saveTimer' = destroySaveTimer(SuspendSaveTimer(saveTimer))
    /\ deleteTimer' = None
    /\ UNCHANGED <<settings, lastDelete>>

\* db_log: may ignore a message, which then changes nothing.  An entry that
\* reaches the threshold is saved with the others.
logMessage ==
    /\ added /\ buffered < MaxUnsaved
    /\ IF saveThreshold > 0 /\ unsavedCount + 1 >= saveThreshold
       THEN /\ unsavedCount' = 0 /\ unsavedTime' = None
            /\ buffered' = 0 /\ oldest' = None
            /\ swept' = IF deleteOnEverySave THEN 0 ELSE swept
            /\ saveTimer' = SuspendSaveTimer(saveTimer)
       ELSE /\ unsavedCount' = unsavedCount + 1
            /\ buffered' = buffered + 1
            /\ oldest' = IF buffered = 0 THEN 0 ELSE oldest
            /\ IF unsavedCount = 0
               THEN /\ unsavedTime' = 0
                    /\ saveTimer' = updateAndResumeSaveTimer(saveTimer, saveInterval, 0)
               ELSE UNCHANGED <<unsavedTime, saveTimer>>
            /\ UNCHANGED swept
    /\ UNCHANGED <<settings, lastDelete, deleteTimer, added>>

-----------------------------------------------------------------------------
Older(age) == IF age \in Ages /\ age < Horizon THEN age + 1 ELSE age
Sooner(due) == IF due = None \/ due = 0 THEN due ELSE due - 1

\* Time passes, also while a timer is due: its block may have to wait.
Tick ==
    /\ unsavedTime' = Older(unsavedTime) /\ oldest' = Older(oldest)
    /\ lastDelete' = Older(lastDelete) /\ swept' = Older(swept)
    /\ saveTimer' = [saveTimer EXCEPT !.due = Sooner(@)]
    /\ deleteTimer' = Sooner(deleteTimer)
    /\ UNCHANGED <<settings, unsavedCount, buffered, added>>

Next ==
    \/ \E n \in SaveThresholds : setSaveThreshold(n)
    \/ \E n \in SaveIntervals : setSaveInterval(n)
    \/ \E n \in MaxAges : setMaxAge(n)
    \/ \E n \in DeleteIntervals : setDeleteInterval(n)
    \/ \E flag \in BOOLEAN : setDeleteOnEverySave(flag)
    \/ savePendingLogEntries
    \/ deleteOldLogEntries
    \/ didAddLogger
    \/ willRemoveLogger
    \/ logMessage
    \/ SaveTimerFires
    \/ DeleteTimerFires
    \/ Tick

Spec == Init /\ [][Next]_vars

\* GCD runs the blocks of timers that are due, and time goes on.
Fairness == WF_vars(SaveTimerFires) /\ WF_vars(DeleteTimerFires) /\ WF_vars(Tick)
FairSpec == Spec /\ Fairness
=============================================================================
