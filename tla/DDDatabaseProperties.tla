------------------------ MODULE DDDatabaseProperties ------------------------
(***************************************************************************)
(* What makes the schedule of a database logger correct.                   *)
(***************************************************************************)
EXTENDS DDAbstractDatabaseLogger

TypeOK ==
    /\ saveThreshold \in SaveThresholds /\ saveInterval \in SaveIntervals
    /\ maxAge \in MaxAges /\ deleteInterval \in DeleteIntervals
    /\ deleteOnEverySave \in BOOLEAN /\ added \in BOOLEAN
    /\ unsavedCount \in Nat /\ buffered \in Nat
    /\ unsavedTime \in Ages \cup {None} /\ oldest \in Ages \cup {None}
    /\ lastDelete \in Ages \cup {None} /\ swept \in Ages \cup {None}
    /\ saveTimer \in Timers
    /\ deleteTimer \in Ages \cup {None}

\* destroySaveTimer: "must activate a timer before releasing it (or it will
\* crash)": whatever the order of settings, saves, additions and removals,
\* _saveTimerSuspended is what GCD thinks of the timer.
NoTimerMisuse ==
    /\ saveTimer.source # "crashed"
    /\ saveTimer.suspended = IF saveTimer.source = "inactive" THEN -1
                             ELSE IF saveTimer.source = "suspended" THEN 1 ELSE 0

\* "A save is done when the number of unsaved log entries reaches saveThreshold":
\* between two blocks the buffer is below it, also when the threshold changed.
ThresholdHeld ==
    saveThreshold > 0 => buffered < saveThreshold

\* "... or the amount of time since the oldest unsaved log entry was created
\* reaches saveInterval": the timer runs exactly while there is something to save
\* and fires in time for the oldest entry, however the interval was changed,
\* disabled and enabled meanwhile.
SaveScheduled ==
    /\ saveTimer.source = "running" => buffered > 0
    /\ (added /\ saveInterval > 0 /\ buffered > 0) =>
          /\ saveTimer.source = "running"
          /\ saveTimer.due <= Remaining(saveInterval, oldest)

\* A logger that was removed keeps no entry back.
SavedOnRemoval ==
    ~added => buffered = 0

\* Old entries are swept when deleteInterval has passed since the last sweep, also
\* after removal and addition, and never by a timer when maxAge or the interval is
\* disabled, in whatever order the two are set.
SweepScheduled ==
    /\ (maxAge = 0 \/ deleteInterval = 0) => deleteTimer = None
    /\ (added /\ maxAge > 0 /\ deleteInterval > 0) =>
          /\ deleteTimer \in 0 .. deleteInterval
          /\ lastDelete # None => deleteTimer <= Remaining(deleteInterval, swept)

\* Every entry is saved at last, unless saveInterval is disabled.
EveryEntryIsSaved ==
    (buffered > 0 /\ saveInterval > 0) ~> (buffered = 0 \/ saveInterval = 0)

\* After the first sweep another one always follows, for as long as the logger is
\* registered and sweeping enabled.
SweepsGoOn ==
    (added /\ maxAge > 0 /\ deleteInterval > 0 /\ lastDelete # None)
        ~> (swept = 0 \/ ~added \/ maxAge = 0 \/ deleteInterval = 0)

\* Both timers go on doing their work through all changes of the settings.
TimersGoOn == EveryEntryIsSaved /\ SweepsGoOn
=============================================================================
