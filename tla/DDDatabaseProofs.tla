-------------------------- MODULE DDDatabaseProofs --------------------------
(***************************************************************************)
(* Machine-checked proofs about the database logger, for all settings.     *)
(***************************************************************************)
EXTENDS DDDatabaseInvariant, TLAPS

\* The domains of the settings, as numbers.
LEMMA Numbers ==
    /\ Horizon \in Nat /\ MaxUnsaved \in Nat /\ Ages = 0 .. Horizon
    /\ Ages \subseteq Nat /\ None \notin Int
    /\ SaveThresholds \subseteq Nat /\ MaxAges \subseteq Nat
    /\ SaveIntervals \subseteq Ages /\ DeleteIntervals \subseteq Ages
  BY DatabaseAssumption DEF Ages

\* What is left of an interval is no longer than the interval, and the older the
\* time it counts from, the less.
LEMMA RemainingBounds ==
    ASSUME NEW n \in Ages
    PROVE  /\ \A a \in Ages : Remaining(n, a) \in 0 .. n /\ Remaining(n, a) \in Ages
           /\ \A a, b \in Ages : a <= b => Remaining(n, b) <= Remaining(n, a)
           /\ Remaining(n, 0) = n
  BY Numbers DEF Remaining, Ages

\* A deadline that was in time stays in time when a tick passes.
LEMMA RemainingTick ==
    ASSUME NEW n \in Ages, NEW a \in Ages, NEW due \in Ages, due <= Remaining(n, a)
    PROVE  /\ Older(a) \in Ages /\ Sooner(due) \in Ages
           /\ Sooner(due) <= Remaining(n, Older(a))
  BY Numbers DEF Remaining, Older, Sooner, Ages

\* None stays None, and no age or deadline leaves its range.
LEMMA TickTypes ==
    /\ Older(None) = None /\ Sooner(None) = None
    /\ \A a \in Ages : Older(a) \in Ages /\ Sooner(a) \in Ages /\ Sooner(a) <= a
    /\ \A a, b \in Ages : a <= b => Older(a) <= Older(b)
  BY Numbers DEF Older, Sooner, Ages

\* The code's idea of the timer's state is right.
Known(t) ==
    /\ t \in Timers
    /\ t.source # "crashed"
    /\ t.suspended = IF t.source = "inactive" THEN -1
                     ELSE IF t.source = "suspended" THEN 1 ELSE 0

\* Every operation on a save timer whose state is known leaves it known: GCD is
\* never asked for what it does not allow.
LEMMA SuspendKnown ==
    ASSUME NEW t, Known(t)
    PROVE  /\ Known(SuspendSaveTimer(t))
           /\ SuspendSaveTimer(t).source # "running"
           /\ SuspendSaveTimer(t).source = "none" <=> t.source = "none"
  BY Numbers DEF Known, SuspendSaveTimer, Suspend, Timers, Ages

LEMMA DestroyKnown ==
    ASSUME NEW t, Known(t)
    PROVE  Known(destroySaveTimer(t)) /\ destroySaveTimer(t).source = "none"
  BY Numbers DEF Known, destroySaveTimer, Release, Awake, Activate, Resume, Timers, Ages

LEMMA CreateKnown ==
    ASSUME NEW t, Known(t), NEW n \in Ages
    PROVE  /\ Known(createSuspendedSaveTimer(t, n))
           /\ createSuspendedSaveTimer(t, n).source =
                 IF t.source = "none" /\ n > 0 THEN "inactive" ELSE t.source
           /\ t.source # "none" => createSuspendedSaveTimer(t, n) = t
  BY Numbers DEF Known, createSuspendedSaveTimer, Timers, Ages

LEMMA UpdateKnown ==
    ASSUME NEW t, Known(t), NEW n \in Ages, NEW a \in Ages \cup {None}
    PROVE  /\ Known(updateAndResumeSaveTimer(t, n, a))
           /\ (t.source # "none" /\ n > 0 /\ a # None) =>
                 /\ updateAndResumeSaveTimer(t, n, a).source = "running"
                 /\ updateAndResumeSaveTimer(t, n, a).due = Remaining(n, a)
           /\ ~(t.source # "none" /\ n > 0 /\ a # None) =>
                 updateAndResumeSaveTimer(t, n, a) = t
  BY Numbers, RemainingBounds
     DEF Known, updateAndResumeSaveTimer, Awake, Activate, Resume, Timers

\* NoTimerMisuse says that the state of the save timer is known.
LEMMA MisuseIsUnknown ==
    ASSUME TypeOK
    PROVE  NoTimerMisuse <=> Known(saveTimer)
  BY DEF TypeOK, NoTimerMisuse, Known

-----------------------------------------------------------------------------
\* The initial state.
LEMMA DatabaseInit == Init => DatabaseIInv
  <1> SUFFICES ASSUME Init PROVE DatabaseIInv
    OBVIOUS
  <1>1. TypeOK
    <2>1. 0 \in Ages /\ 0 \in -1 .. 1
      BY Numbers
    <2>2. NoTimer \in Timers
      BY <2>1 DEF NoTimer, Timers
    <2> QED
      BY <2>2, Numbers DEF Init, TypeOK
  <1>2. NoTimerMisuse
    <2>1. saveTimer.source = "none" /\ saveTimer.suspended = 0
      BY DEF Init, NoTimer
    <2> QED
      BY <2>1 DEF NoTimerMisuse
  <1>3. ThresholdHeld /\ CountersExact
    BY Numbers DEF Init, ThresholdHeld, CountersExact
  <1>4. SaveTimerMatches /\ DeleteTimerMatches
    BY Numbers DEF Init, NoTimer, SaveTimerMatches, DeleteTimerMatches
  <1> QED
    BY <1>1, <1>2, <1>3, <1>4 DEF DatabaseIInv

\* The sweeps, the settings and the registration are as they were.
SweepingKept ==
    UNCHANGED <<maxAge, deleteInterval, deleteOnEverySave, lastDelete, deleteTimer, added>>

\* A save that found something to save, or nothing: the buffer is empty.
Emptied ==
    /\ unsavedCount' = 0 /\ unsavedTime' = None
    /\ buffered' = 0 /\ oldest' = None
    /\ swept' \in {0, swept}

LEMMA SaveEmpties ==
    ASSUME DatabaseIInv, Save
    PROVE  Emptied
  BY Numbers DEF DatabaseIInv, TypeOK, CountersExact, Save, Emptied

\* Saving and suspending the timer keeps the invariant.
LEMMA EmptiedKeeps ==
    ASSUME DatabaseIInv, Emptied, saveTimer' = SuspendSaveTimer(saveTimer),
           saveThreshold' \in SaveThresholds, saveInterval' = saveInterval, SweepingKept
    PROVE  DatabaseIInv'
  <1>1. Known(saveTimer) /\ Known(saveTimer')
    BY MisuseIsUnknown, SuspendKnown DEF DatabaseIInv
  <1>2. TypeOK'
    BY <1>1, Numbers DEF DatabaseIInv, TypeOK, Emptied, SweepingKept, Known
  <1>3. NoTimerMisuse'
    BY <1>1 DEF Known, NoTimerMisuse
  <1>4. ThresholdHeld' /\ CountersExact'
    BY Numbers DEF DatabaseIInv, ThresholdHeld, CountersExact, Emptied, SweepingKept
  <1>5. SaveTimerMatches'
    BY <1>1, SuspendKnown DEF DatabaseIInv, SaveTimerMatches, Emptied, SweepingKept
  <1>6. DeleteTimerMatches'
    BY Numbers DEF DatabaseIInv, TypeOK, DeleteTimerMatches, Emptied, SweepingKept, Ages
  <1> QED
    BY <1>2, <1>3, <1>4, <1>5, <1>6 DEF DatabaseIInv

\* What an action that leaves the save timer and the buffer alone has to show.
LEMMA SavingKept ==
    ASSUME DatabaseIInv, UNCHANGED <<saveThreshold, saveInterval, unsaved, saveTimer, added>>
    PROVE  NoTimerMisuse' /\ ThresholdHeld' /\ CountersExact' /\ SaveTimerMatches'
  BY DEF DatabaseIInv, unsaved, NoTimerMisuse, ThresholdHeld, CountersExact, SaveTimerMatches

\* A delete timer that is set anew is in time for the last sweep.
InTime(u, n, last) ==
    u \in Ages /\ u <= n /\ (last # None => u <= Remaining(n, last))

LEMMA RemainingInTime ==
    ASSUME NEW n \in Ages, NEW last \in Ages \cup {None}
    PROVE  InTime(Remaining(n, IF last = None THEN 0 ELSE last), n, last)
  <1>1. 0 \in Ages
    BY Numbers
  <1>2. ASSUME NEW a \in Ages
        PROVE  Remaining(n, a) \in Ages /\ Remaining(n, a) <= n
    <2>1. Remaining(n, a) \in 0 .. n /\ Remaining(n, a) \in Ages
      BY RemainingBounds
    <2> QED
      BY <2>1, Numbers
  <1>3. CASE last = None
    BY <1>1, <1>2, <1>3 DEF InTime
  <1>4. CASE last # None
    <2>1. last \in Ages
      BY <1>4
    <2>2. Remaining(n, last) \in Ages /\ Remaining(n, last) <= n
      BY <1>2, <2>1
    <2>3. Remaining(n, last) <= Remaining(n, last)
      BY <2>2, Numbers
    <2> QED
      BY <1>4, <2>2, <2>3 DEF InTime
  <1> QED
    BY <1>3, <1>4

LEMMA UpdatedInTime ==
    ASSUME NEW t, NEW n \in Ages, NEW age \in Nat, NEW last \in Ages \cup {None}
    PROVE  /\ (t # None /\ n > 0 /\ age > 0) =>
                 InTime(updateDeleteTimer(t, n, age, last), n, last)
           /\ ~(t # None /\ n > 0 /\ age > 0) => updateDeleteTimer(t, n, age, last) = t
  BY RemainingInTime DEF updateDeleteTimer

LEMMA CreatedInTime ==
    ASSUME NEW t, NEW n \in Ages, NEW age \in Nat, NEW last \in Ages \cup {None}
    PROVE  /\ (t = None /\ n > 0 /\ age > 0) =>
                 InTime(createAndStartDeleteTimer(t, n, age, last), n, last)
           /\ ~(t = None /\ n > 0 /\ age > 0) =>
                 createAndStartDeleteTimer(t, n, age, last) = t
  <1>1. 0 # None
    BY Numbers
  <1> QED
    BY <1>1, UpdatedInTime DEF createAndStartDeleteTimer

-----------------------------------------------------------------------------
(* The steps, one lemma for each group of actions.                           *)

\* The saves: the timer's, those asked for, and the one a threshold asks for.
LEMMA SaveSteps ==
    ASSUME DatabaseIInv,
           \/ SaveTimerFires \/ savePendingLogEntries
           \/ \E n \in SaveThresholds : setSaveThreshold(n)
    PROVE  DatabaseIInv'
  <1>1. CASE SaveTimerFires \/ savePendingLogEntries
    <2>1. performSaveAndSuspendSaveTimer /\ UNCHANGED settings /\ SweepingKept
      BY <1>1 DEF SaveTimerFires, savePendingLogEntries, settings, SweepingKept
    <2>2. Emptied /\ saveTimer' = SuspendSaveTimer(saveTimer)
      BY <2>1, SaveEmpties DEF performSaveAndSuspendSaveTimer
    <2>3. saveThreshold' \in SaveThresholds /\ saveInterval' = saveInterval
      BY <2>1 DEF settings, DatabaseIInv, TypeOK
    <2> QED
      BY <2>1, <2>2, <2>3, EmptiedKeeps
  <1>2. ASSUME NEW n \in SaveThresholds, setSaveThreshold(n)
        PROVE  DatabaseIInv'
    <2>1. saveThreshold' \in SaveThresholds /\ saveInterval' = saveInterval /\ SweepingKept
      BY <1>2 DEF setSaveThreshold, SweepingKept
    <2>2. CASE n # saveThreshold /\ unsavedCount >= n /\ n > 0
      <3>1. Emptied /\ saveTimer' = SuspendSaveTimer(saveTimer)
        BY <1>2, <2>2, SaveEmpties DEF setSaveThreshold, performSaveAndSuspendSaveTimer
      <3> QED
        BY <2>1, <3>1, EmptiedKeeps
    <2>3. CASE ~(n # saveThreshold /\ unsavedCount >= n /\ n > 0)
      <3>1. saveThreshold' = n /\ UNCHANGED <<unsaved, saveTimer, swept>>
        BY <1>2, <2>3 DEF setSaveThreshold
      <3>2. TypeOK'
        BY <2>1, <3>1 DEF DatabaseIInv, TypeOK, SweepingKept, unsaved
      <3>3. ThresholdHeld'
        BY <2>3, <3>1, Numbers DEF DatabaseIInv, TypeOK, ThresholdHeld, CountersExact, unsaved
      <3>4. NoTimerMisuse' /\ CountersExact' /\ SaveTimerMatches' /\ DeleteTimerMatches'
        BY <2>1, <3>1 DEF DatabaseIInv, NoTimerMisuse, CountersExact, SaveTimerMatches,
                          DeleteTimerMatches, SweepingKept, unsaved
      <3> QED
        BY <3>2, <3>3, <3>4 DEF DatabaseIInv
    <2> QED
      BY <2>2, <2>3
  <1> QED
    BY <1>1, <1>2

\* A new save interval: the timer is made, set anew or destroyed.
LEMMA SetSaveIntervalStep ==
    ASSUME DatabaseIInv, NEW n \in SaveIntervals, setSaveInterval(n)
    PROVE  DatabaseIInv'
  <1> DEFINE c == createSuspendedSaveTimer(saveTimer, n)
             u == updateAndResumeSaveTimer(c, n, unsavedTime)
  <1>1. /\ n \in Ages /\ n # saveInterval /\ saveInterval' = n
        /\ saveTimer' = IF n > 0 THEN u ELSE destroySaveTimer(saveTimer)
        /\ SweepingKept /\ UNCHANGED <<saveThreshold, unsaved, swept>>
    BY Numbers DEF setSaveInterval, SweepingKept, sweeping
  <1>2. Known(saveTimer)
    BY MisuseIsUnknown DEF DatabaseIInv
  <1>3. /\ Known(c) /\ (saveTimer.source # "none" => c = saveTimer)
        /\ n > 0 => c.source # "none"
        /\ c.source = IF saveTimer.source = "none" /\ n > 0 THEN "inactive" ELSE saveTimer.source
    BY <1>1, <1>2, CreateKnown
  <1>4. /\ unsavedTime \in Ages \cup {None} /\ unsavedTime = oldest
        /\ buffered = 0 <=> oldest = None
        /\ buffered \in Nat
    BY DEF DatabaseIInv, TypeOK, CountersExact
  <1>5. /\ Known(u)
        /\ (n > 0 /\ unsavedTime # None) =>
              u.source = "running" /\ u.due = Remaining(n, unsavedTime)
        /\ (n > 0 /\ unsavedTime = None) => u = c
    BY <1>1, <1>3, <1>4, UpdateKnown
  <1>6. Known(saveTimer')
    BY <1>1, <1>2, <1>5, DestroyKnown
  <1>7. TypeOK'
    BY <1>1, <1>6 DEF DatabaseIInv, TypeOK, Known, SweepingKept, unsaved
  <1>8. NoTimerMisuse'
    BY <1>6 DEF Known, NoTimerMisuse
  <1>9. ThresholdHeld' /\ CountersExact' /\ DeleteTimerMatches'
    BY <1>1 DEF DatabaseIInv, ThresholdHeld, CountersExact, DeleteTimerMatches,
                SweepingKept, unsaved
  <1>10. SaveTimerMatches'
    <2> HIDE DEF c, u
    <2>1. CASE n > 0 /\ unsavedTime # None
      <3>1. Remaining(n, oldest) \in Ages
        BY <1>1, <1>4, <2>1, RemainingBounds
      <3>2. saveTimer'.source = "running" /\ saveTimer'.due <= Remaining(n, oldest)
        BY <1>1, <1>4, <1>5, <2>1, <3>1, Numbers
      <3>3. buffered > 0
        BY <1>4, <2>1
      <3> QED
        BY <1>1, <2>1, <3>2, <3>3 DEF SaveTimerMatches, unsaved
    <2>2. CASE n > 0 /\ unsavedTime = None
      <3>1. saveTimer' = c /\ buffered = 0
        BY <1>1, <1>4, <1>5, <2>2
      <3>2. c.source # "running"
        BY <1>3, <3>1 DEF DatabaseIInv, SaveTimerMatches
      <3> QED
        BY <1>1, <1>3, <2>2, <3>1, <3>2 DEF SaveTimerMatches, unsaved
    <2>3. CASE ~(n > 0)
      <3>1. saveTimer'.source = "none"
        BY <1>1, <1>2, <2>3, DestroyKnown
      <3> QED
        BY <1>1, <2>3, <3>1 DEF SaveTimerMatches
    <2> QED
      BY <2>1, <2>2, <2>3
  <1> QED
    BY <1>7, <1>8, <1>9, <1>10 DEF DatabaseIInv

\* A message: a new entry, or a save of all of them.
LEMMA LogMessageStep ==
    ASSUME DatabaseIInv, logMessage
    PROVE  DatabaseIInv'
  <1>1. /\ added /\ SweepingKept
        /\ saveThreshold' = saveThreshold /\ saveInterval' = saveInterval
        /\ saveThreshold \in SaveThresholds /\ saveInterval \in SaveIntervals
    BY DEF logMessage, settings, SweepingKept, DatabaseIInv, TypeOK
  <1>2. CASE saveThreshold > 0 /\ unsavedCount + 1 >= saveThreshold
    <2>1. Emptied /\ saveTimer' = SuspendSaveTimer(saveTimer)
      BY <1>2 DEF logMessage, Emptied
    <2> QED
      BY <1>1, <2>1, EmptiedKeeps
  <1>3. CASE ~(saveThreshold > 0 /\ unsavedCount + 1 >= saveThreshold)
    <2> DEFINE u == updateAndResumeSaveTimer(saveTimer, saveInterval, 0)
    <2>1. /\ unsavedCount' = unsavedCount + 1 /\ buffered' = buffered + 1
          /\ oldest' = IF buffered = 0 THEN 0 ELSE oldest
          /\ swept' = swept
          /\ unsavedCount = 0 => unsavedTime' = 0 /\ saveTimer' = u
          /\ unsavedCount # 0 => UNCHANGED <<unsavedTime, saveTimer>>
      BY <1>3 DEF logMessage
    <2>2. /\ unsavedCount = buffered /\ unsavedTime = oldest /\ buffered \in Nat
          /\ (buffered = 0 <=> oldest = None) /\ oldest \in Ages \cup {None}
      BY DEF DatabaseIInv, CountersExact, TypeOK
    <2>3. 0 \in Ages /\ 0 # None /\ saveInterval \in Ages /\ Known(saveTimer)
      BY <1>1, MisuseIsUnknown, Numbers DEF DatabaseIInv
    <2>4. /\ Known(u)
          /\ (saveTimer.source # "none" /\ saveInterval > 0) =>
                u.source = "running" /\ u.due = Remaining(saveInterval, 0)
          /\ ~(saveTimer.source # "none" /\ saveInterval > 0) => u = saveTimer
      BY <2>3, UpdateKnown
    <2>5. Known(saveTimer')
      BY <2>1, <2>3, <2>4
    <2>6. TypeOK'
      <3>1. unsavedCount' \in Nat /\ buffered' \in Nat
        BY <2>1, <2>2, Numbers
      <3>2. unsavedTime' \in Ages \cup {None} /\ oldest' \in Ages \cup {None}
        BY <2>1, <2>2, <2>3
      <3> QED
        BY <1>1, <2>1, <2>5, <3>1, <3>2 DEF DatabaseIInv, TypeOK, SweepingKept, Known
    <2>7. NoTimerMisuse'
      BY <2>5 DEF Known, NoTimerMisuse
    <2>8. ThresholdHeld'
      BY <1>1, <1>3, <2>1, <2>2, Numbers DEF ThresholdHeld
    <2>9. CountersExact'
      <3>1. buffered' # 0 /\ oldest' # None /\ unsavedTime' = oldest'
        BY <2>1, <2>2, <2>3, Numbers
      <3> QED
        BY <1>1, <2>1, <2>2, <3>1 DEF CountersExact, SweepingKept
    <2>10. SaveTimerMatches'
      <3>1. buffered' > 0
        BY <2>1, <2>2, Numbers
      <3>2. CASE saveTimer.source = "none"
        <4>1. saveTimer' = saveTimer
          BY <2>1, <2>4, <3>2
        <4> QED
          BY <1>1, <3>1, <3>2, <4>1 DEF DatabaseIInv, SaveTimerMatches, SweepingKept
      <3>3. CASE saveTimer.source # "none" /\ buffered = 0
        <4>1. saveInterval > 0 /\ oldest' = 0
          BY <2>1, <3>3 DEF DatabaseIInv, SaveTimerMatches
        <4>2. saveTimer'.source = "running" /\ saveTimer'.due = Remaining(saveInterval, 0)
          BY <2>1, <2>2, <2>4, <3>3, <4>1
        <4>3. saveTimer'.due <= Remaining(saveInterval, 0)
          BY <2>3, <4>2, RemainingBounds, Numbers
        <4> QED
          BY <1>1, <3>1, <4>1, <4>2, <4>3 DEF SaveTimerMatches, SweepingKept
      <3>4. CASE saveTimer.source # "none" /\ buffered # 0
        <4>1. saveTimer' = saveTimer /\ oldest' = oldest
          BY <2>1, <2>2, <3>4
        <4> QED
          BY <1>1, <3>1, <3>4, <4>1 DEF DatabaseIInv, SaveTimerMatches, SweepingKept
      <3> QED
        BY <3>2, <3>3, <3>4
    <2>11. DeleteTimerMatches'
      BY <1>1, <2>1 DEF DatabaseIInv, DeleteTimerMatches, SweepingKept
    <2> QED
      BY <2>6, <2>7, <2>8, <2>9, <2>10, <2>11 DEF DatabaseIInv
  <1> QED
    BY <1>2, <1>3

\* The settings that only the delete timer heeds, and the sweeps.
LEMMA SweepSteps ==
    ASSUME DatabaseIInv,
           \/ \E n \in MaxAges : setMaxAge(n)
           \/ \E n \in DeleteIntervals : setDeleteInterval(n)
           \/ \E flag \in BOOLEAN : setDeleteOnEverySave(flag)
           \/ deleteOldLogEntries \/ DeleteTimerFires
    PROVE  DatabaseIInv'
  <1>1. /\ UNCHANGED <<saveThreshold, saveInterval, unsaved, saveTimer, added>>
        /\ deleteOnEverySave' \in BOOLEAN
    BY DEF setMaxAge, setDeleteInterval, setDeleteOnEverySave, deleteOldLogEntries,
           DeleteTimerFires, settings, DatabaseIInv, TypeOK
  <1>2. NoTimerMisuse' /\ ThresholdHeld' /\ CountersExact' /\ SaveTimerMatches'
    BY <1>1, SavingKept
  <1> DEFINE Sweeps == /\ maxAge' \in MaxAges /\ deleteInterval' \in DeleteIntervals
                       /\ lastDelete' \in Ages \cup {None} /\ swept' \in Ages \cup {None}
                       /\ deleteTimer' \in Ages \cup {None}
  <1>3. ASSUME Sweeps, DeleteTimerMatches'
        PROVE  DatabaseIInv'
    <2>1. TypeOK'
      BY <1>1, <1>3 DEF DatabaseIInv, TypeOK, unsaved
    <2> QED
      BY <1>2, <1>3, <2>1 DEF DatabaseIInv
  <1>4. /\ maxAge \in Nat /\ deleteInterval \in Ages /\ maxAge \in MaxAges
        /\ deleteInterval \in DeleteIntervals
        /\ lastDelete \in Ages \cup {None} /\ swept \in Ages \cup {None}
        /\ deleteTimer \in Ages \cup {None} /\ 0 \in Ages /\ 0 # None
    BY Numbers DEF DatabaseIInv, TypeOK
  <1>5. ASSUME NEW n \in MaxAges, setMaxAge(n)
        PROVE  DatabaseIInv'
    <2>1. maxAge' = n /\ deleteInterval' = deleteInterval /\ n \in Nat /\ added' = added
      BY <1>5, Numbers DEF setMaxAge
    <2>2. CASE n > 0 /\ (maxAge = 0 \/ n < maxAge)
      <3>1. /\ swept' = 0 /\ lastDelete' = 0
            /\ deleteTimer' =
                 IF deleteTimer # None
                 THEN updateDeleteTimer(deleteTimer, deleteInterval, n, 0)
                 ELSE createAndStartDeleteTimer(deleteTimer, deleteInterval, n, 0)
        BY <1>5, <2>2 DEF setMaxAge, performDelete
      <3>2. CASE deleteInterval > 0
        <4>1. InTime(deleteTimer', deleteInterval, 0)
          BY <1>4, <2>1, <2>2, <3>1, <3>2, UpdatedInTime, CreatedInTime
        <4>2. deleteTimer' \in Ages /\ deleteTimer' # None
          BY <4>1, Numbers DEF InTime
        <4> QED
          BY <1>3, <1>4, <2>1, <2>2, <3>1, <3>2, <4>1, <4>2, Numbers
             DEF DeleteTimerMatches, InTime
      <3>3. CASE ~(deleteInterval > 0)
        <4>1. deleteInterval = 0 /\ deleteTimer = None
          BY <1>4, <3>3, Numbers DEF DatabaseIInv, DeleteTimerMatches
        <4>2. deleteTimer' = None
          BY <1>4, <2>1, <3>1, <3>3, <4>1, CreatedInTime
        <4> QED
          BY <1>3, <1>4, <2>1, <3>1, <3>3, <4>1, <4>2, Numbers DEF DeleteTimerMatches
      <3> QED
        BY <3>2, <3>3
    <2>3. CASE ~(n > 0 /\ (maxAge = 0 \/ n < maxAge))
      <3>1. /\ deleteTimer' = IF n = 0 THEN None ELSE deleteTimer
            /\ UNCHANGED <<swept, lastDelete>>
        BY <1>5, <2>3 DEF setMaxAge
      <3>2. Sweeps
        BY <1>4, <2>1, <3>1
      <3>3. n = 0 \/ maxAge > 0
        BY <1>4, <2>1, <2>3, Numbers
      <3>4. DeleteTimerMatches'
        BY <1>4, <2>1, <3>1, <3>3, Numbers DEF DatabaseIInv, DeleteTimerMatches
      <3> QED
        BY <1>3, <3>2, <3>4
    <2> QED
      BY <2>2, <2>3
  <1>6. ASSUME NEW n \in DeleteIntervals, setDeleteInterval(n)
        PROVE  DatabaseIInv'
    <2>1. /\ deleteInterval' = n /\ n \in Ages
          /\ UNCHANGED <<maxAge, lastDelete, swept, added>>
          /\ deleteTimer' =
                IF n = 0 THEN None
                ELSE IF deleteTimer = None
                THEN createAndStartDeleteTimer(deleteTimer, n, maxAge, lastDelete)
                ELSE updateDeleteTimer(deleteTimer, n, maxAge, lastDelete)
      BY <1>6, Numbers DEF setDeleteInterval
    <2>2. CASE n > 0 /\ maxAge > 0
      <3>1. n # 0
        BY <2>2, Numbers
      <3>2. InTime(deleteTimer', n, lastDelete)
        BY <1>4, <2>1, <2>2, <3>1, UpdatedInTime, CreatedInTime
      <3>3. deleteTimer' \in Ages /\ deleteTimer' # None
        BY <3>2, Numbers DEF InTime
      <3> QED
        BY <1>3, <1>4, <2>1, <2>2, <3>2, <3>3, Numbers
           DEF DatabaseIInv, DeleteTimerMatches, InTime
    <2>3. CASE ~(n > 0 /\ maxAge > 0)
      <3>1. n = 0 \/ (maxAge = 0 /\ deleteTimer = None)
        BY <1>4, <2>1, <2>3, Numbers DEF DatabaseIInv, DeleteTimerMatches
      <3>2. deleteTimer' = None
        BY <1>4, <2>1, <2>3, <3>1, CreatedInTime
      <3> QED
        BY <1>3, <1>4, <2>1, <2>3, <3>1, <3>2, Numbers DEF DatabaseIInv, DeleteTimerMatches
    <2> QED
      BY <2>2, <2>3
  <1>7. CASE \E flag \in BOOLEAN : setDeleteOnEverySave(flag)
    <2>1. UNCHANGED <<maxAge, deleteInterval, lastDelete, swept, deleteTimer, added>>
      BY <1>7 DEF setDeleteOnEverySave, sweeping
    <2> QED
      BY <1>3, <1>4, <2>1 DEF DatabaseIInv, DeleteTimerMatches
  <1>8. CASE deleteOldLogEntries
    <2>1. UNCHANGED <<maxAge, deleteInterval, deleteTimer, added>>
      BY <1>8 DEF deleteOldLogEntries, settings
    <2>2. \/ swept' = 0 /\ lastDelete' = 0
          \/ swept' = swept /\ lastDelete' = lastDelete
      BY <1>8 DEF deleteOldLogEntries, performDelete
    <2>3. Remaining(deleteInterval, 0) = deleteInterval
      BY <1>4, RemainingBounds
    <2>4. DeleteTimerMatches'
      BY <1>4, <2>1, <2>2, <2>3, Numbers DEF DatabaseIInv, DeleteTimerMatches
    <2> QED
      BY <1>3, <1>4, <2>1, <2>2, <2>4
  <1>9. CASE DeleteTimerFires
    <2>1. /\ deleteTimer = 0 /\ deleteTimer' \in 1 .. deleteInterval
          /\ UNCHANGED <<maxAge, deleteInterval, added>>
      BY <1>9 DEF DeleteTimerFires, settings
    <2>2. maxAge > 0 /\ deleteInterval > 0 /\ maxAge # 0 /\ deleteInterval # 0
      BY <1>4, <2>1, Numbers DEF DatabaseIInv, DeleteTimerMatches
    <2>3. swept' = 0 /\ lastDelete' = 0
      BY <1>9, <2>2 DEF DeleteTimerFires, performDelete
    <2>4. Remaining(deleteInterval, 0) = deleteInterval
      BY <1>4, RemainingBounds
    <2>5. deleteTimer' \in Ages /\ deleteTimer' # None /\ deleteTimer' <= deleteInterval
      BY <1>4, <2>1, Numbers
    <2>6. DeleteTimerMatches'
      BY <1>4, <2>1, <2>2, <2>3, <2>4, <2>5, Numbers DEF DeleteTimerMatches
    <2> QED
      BY <1>3, <1>4, <2>1, <2>3, <2>5, <2>6
  <1> QED
    BY <1>5, <1>6, <1>7, <1>8, <1>9

\* Registration makes the timers that the settings ask for.
LEMMA DidAddLoggerStep ==
    ASSUME DatabaseIInv, didAddLogger
    PROVE  DatabaseIInv'
  <1>1. /\ ~added /\ added' = TRUE
        /\ saveTimer' = createSuspendedSaveTimer(saveTimer, saveInterval)
        /\ deleteTimer' = createAndStartDeleteTimer(deleteTimer, deleteInterval, maxAge, lastDelete)
        /\ UNCHANGED <<saveThreshold, saveInterval, maxAge, deleteInterval, deleteOnEverySave,
                       unsavedCount, unsavedTime, buffered, oldest, lastDelete, swept>>
    BY DEF didAddLogger, settings, unsaved
  <1>2. /\ saveInterval \in Ages /\ deleteInterval \in Ages /\ maxAge \in Nat
        /\ lastDelete \in Ages \cup {None} /\ deleteTimer \in Ages \cup {None}
        /\ Known(saveTimer) /\ buffered = 0
    BY <1>1, MisuseIsUnknown, Numbers DEF DatabaseIInv, TypeOK, CountersExact
  <1>3. /\ Known(saveTimer')
        /\ saveTimer'.source =
              IF saveTimer.source = "none" /\ saveInterval > 0 THEN "inactive" ELSE saveTimer.source
    BY <1>1, <1>2, CreateKnown
  <1>4. /\ (deleteTimer = None /\ deleteInterval > 0 /\ maxAge > 0) =>
              InTime(deleteTimer', deleteInterval, lastDelete)
        /\ ~(deleteTimer = None /\ deleteInterval > 0 /\ maxAge > 0) =>
              deleteTimer' = deleteTimer
    BY <1>1, <1>2, CreatedInTime
  <1>5. TypeOK'
    BY <1>1, <1>2, <1>3, <1>4 DEF DatabaseIInv, TypeOK, Known, InTime
  <1>6. NoTimerMisuse' /\ ThresholdHeld' /\ CountersExact'
    BY <1>1, <1>2, <1>3 DEF DatabaseIInv, Known, NoTimerMisuse, ThresholdHeld, CountersExact
  <1>7. SaveTimerMatches'
    <2>1. saveTimer.source # "running"
      BY <1>2, Numbers DEF DatabaseIInv, SaveTimerMatches
    <2> QED
      BY <1>1, <1>2, <1>3, <2>1 DEF DatabaseIInv, SaveTimerMatches
  <1>8. DeleteTimerMatches'
    <2>1. CASE deleteTimer = None /\ deleteInterval > 0 /\ maxAge > 0
      <3>1. deleteTimer' # None
        BY <1>4, <2>1, Numbers DEF InTime
      <3> QED
        BY <1>1, <1>4, <2>1, <3>1, Numbers DEF DatabaseIInv, DeleteTimerMatches, InTime
    <2>2. CASE ~(deleteTimer = None /\ deleteInterval > 0 /\ maxAge > 0)
      BY <1>1, <1>4, <2>2 DEF DatabaseIInv, DeleteTimerMatches
    <2> QED
      BY <2>1, <2>2
  <1> QED
    BY <1>5, <1>6, <1>7, <1>8 DEF DatabaseIInv

\* Removal saves what is left and gives the timers up.
LEMMA WillRemoveLoggerStep ==
    ASSUME DatabaseIInv, willRemoveLogger
    PROVE  DatabaseIInv'
  <1>1. /\ added' = FALSE /\ Save /\ deleteTimer' = None
        /\ saveTimer' = destroySaveTimer(SuspendSaveTimer(saveTimer))
        /\ UNCHANGED <<saveThreshold, saveInterval, maxAge, deleteInterval, deleteOnEverySave,
                       lastDelete>>
    BY DEF willRemoveLogger, settings
  <1>2. Emptied
    BY <1>1, SaveEmpties
  <1>3. Known(saveTimer)
    BY MisuseIsUnknown DEF DatabaseIInv
  <1>4. Known(SuspendSaveTimer(saveTimer))
    BY <1>3, SuspendKnown
  <1>5. Known(saveTimer') /\ saveTimer'.source = "none"
    BY <1>1, <1>4, DestroyKnown
  <1>6. TypeOK'
    <2>1. swept' \in Ages \cup {None} /\ 0 \in Nat
      BY <1>2, Numbers DEF DatabaseIInv, TypeOK, Emptied
    <2> QED
      BY <1>1, <1>2, <1>5, <2>1 DEF DatabaseIInv, TypeOK, Emptied, Known
  <1>7. NoTimerMisuse' /\ SaveTimerMatches'
    BY <1>1, <1>5 DEF Known, NoTimerMisuse, SaveTimerMatches
  <1>8. ThresholdHeld' /\ CountersExact'
    BY <1>1, <1>2 DEF DatabaseIInv, ThresholdHeld, CountersExact, Emptied
  <1>9. DeleteTimerMatches'
    BY <1>1, <1>2, Numbers DEF DatabaseIInv, TypeOK, DeleteTimerMatches, Emptied
  <1> QED
    BY <1>6, <1>7, <1>8, <1>9 DEF DatabaseIInv

\* Deadlines and ages move together.
LEMMA TickStep ==
    ASSUME DatabaseIInv, Tick
    PROVE  DatabaseIInv'
  <1>1. /\ unsavedTime' = Older(unsavedTime) /\ oldest' = Older(oldest)
        /\ lastDelete' = Older(lastDelete) /\ swept' = Older(swept)
        /\ saveTimer' = [saveTimer EXCEPT !.due = Sooner(saveTimer.due)]
        /\ deleteTimer' = Sooner(deleteTimer)
        /\ UNCHANGED <<saveThreshold, saveInterval, maxAge, deleteInterval, deleteOnEverySave,
                       unsavedCount, buffered, added>>
    BY DEF Tick, settings
  <1>2. /\ unsavedTime \in Ages \cup {None} /\ oldest \in Ages \cup {None}
        /\ lastDelete \in Ages \cup {None} /\ swept \in Ages \cup {None}
        /\ deleteTimer \in Ages \cup {None} /\ Known(saveTimer) /\ saveTimer.due \in Ages
        /\ saveInterval \in Ages /\ deleteInterval \in Ages
    BY MisuseIsUnknown, Numbers DEF DatabaseIInv, TypeOK, Timers
  <1>3. /\ \A a \in Ages \cup {None} : /\ Older(a) \in Ages \cup {None}
                                       /\ Sooner(a) \in Ages \cup {None}
                                       /\ Older(a) = None <=> a = None
                                       /\ Sooner(a) = None <=> a = None
    <2>1. None \notin Ages
      BY Numbers
    <2> QED
      BY <2>1, TickTypes
  <1>4. /\ Known(saveTimer') /\ saveTimer'.source = saveTimer.source
        /\ saveTimer'.due = Sooner(saveTimer.due)
    <2>1. Sooner(saveTimer.due) \in Ages
      BY <1>2, TickTypes
    <2> QED
      BY <1>1, <1>2, <2>1 DEF Known, Timers
  <1>5. TypeOK'
    BY <1>1, <1>2, <1>3, <1>4 DEF DatabaseIInv, TypeOK, Known
  <1>6. NoTimerMisuse' /\ ThresholdHeld' /\ CountersExact'
    BY <1>1, <1>2, <1>3, <1>4 DEF DatabaseIInv, Known, NoTimerMisuse, ThresholdHeld, CountersExact
  <1>7. SaveTimerMatches'
    <2>1. ASSUME saveTimer.source = "running"
          PROVE  buffered > 0 /\ saveTimer'.due <= Remaining(saveInterval, oldest')
      <3>1. buffered > 0 /\ saveTimer.due <= Remaining(saveInterval, oldest) /\ buffered # 0
        BY <2>1, Numbers DEF DatabaseIInv, SaveTimerMatches
      <3>2. oldest \in Ages
        BY <1>2, <3>1 DEF DatabaseIInv, CountersExact
      <3> QED
        BY <1>1, <1>2, <1>4, <3>1, <3>2, RemainingTick
    <2> QED
      BY <1>1, <1>4, <2>1 DEF DatabaseIInv, SaveTimerMatches
  <1>8. DeleteTimerMatches'
    <2>1. ASSUME lastDelete # None
          PROVE  swept' # None /\ swept' <= lastDelete'
      BY <1>1, <1>2, <1>3, <2>1, TickTypes DEF DatabaseIInv, DeleteTimerMatches
    <2>2. ASSUME deleteTimer # None
          PROVE  /\ deleteTimer' <= deleteInterval
                 /\ lastDelete # None => deleteTimer' <= Remaining(deleteInterval, lastDelete')
      <3>1. deleteTimer \in Ages /\ deleteTimer <= deleteInterval
        BY <1>2, <2>2 DEF DatabaseIInv, DeleteTimerMatches
      <3>2. Sooner(deleteTimer) \in Ages /\ Sooner(deleteTimer) <= deleteTimer
        BY <3>1, TickTypes
      <3>3. deleteTimer' <= deleteInterval
        BY <1>1, <1>2, <3>1, <3>2, Numbers
      <3>4. ASSUME lastDelete # None
            PROVE  deleteTimer' <= Remaining(deleteInterval, lastDelete')
        <4>1. lastDelete \in Ages /\ deleteTimer <= Remaining(deleteInterval, lastDelete)
          BY <1>2, <2>2, <3>4 DEF DatabaseIInv, DeleteTimerMatches
        <4> QED
          BY <1>1, <1>2, <3>1, <4>1, RemainingTick
      <3> QED
        BY <3>3, <3>4
    <2>3. deleteTimer' = None <=> deleteTimer = None
      BY <1>1, <1>2, <1>3
    <2>4. lastDelete' = None <=> lastDelete = None
      BY <1>1, <1>2, <1>3
    <2> QED
      BY <1>1, <2>1, <2>2, <2>3, <2>4 DEF DatabaseIInv, DeleteTimerMatches
  <1> QED
    BY <1>5, <1>6, <1>7, <1>8 DEF DatabaseIInv

-----------------------------------------------------------------------------
\* The invariant holds in every state a database logger can reach.
THEOREM DatabaseInvariance == Spec => []DatabaseIInv
  <1>1. Init => DatabaseIInv
    BY DatabaseInit
  <1>2. DatabaseIInv /\ [Next]_vars => DatabaseIInv'
    <2> SUFFICES ASSUME DatabaseIInv, [Next]_vars
                 PROVE  DatabaseIInv'
      OBVIOUS
    <2>1. CASE Next
      <3>1. CASE \/ SaveTimerFires \/ savePendingLogEntries
                 \/ \E n \in SaveThresholds : setSaveThreshold(n)
        BY <3>1, SaveSteps
      <3>2. CASE \E n \in SaveIntervals : setSaveInterval(n)
        BY <3>2, SetSaveIntervalStep
      <3>3. CASE \/ \E n \in MaxAges : setMaxAge(n)
                 \/ \E n \in DeleteIntervals : setDeleteInterval(n)
                 \/ \E flag \in BOOLEAN : setDeleteOnEverySave(flag)
                 \/ deleteOldLogEntries \/ DeleteTimerFires
        BY <3>3, SweepSteps
      <3>4. CASE logMessage
        BY <3>4, LogMessageStep
      <3>5. CASE didAddLogger
        BY <3>5, DidAddLoggerStep
      <3>6. CASE willRemoveLogger
        BY <3>6, WillRemoveLoggerStep
      <3>7. CASE Tick
        BY <3>7, TickStep
      <3> QED
        BY <2>1, <3>1, <3>2, <3>3, <3>4, <3>5, <3>6, <3>7 DEF Next
    <2>2. CASE UNCHANGED vars
      BY <2>2 DEF vars, settings, unsaved, sweeping, DatabaseIInv, TypeOK, NoTimerMisuse,
                  ThresholdHeld, CountersExact, SaveTimerMatches, DeleteTimerMatches
    <2> QED
      BY <2>1, <2>2
  <1> QED
    BY <1>1, <1>2, PTL DEF Spec

\* Type correctness, for all settings.
THEOREM DatabaseTypeCorrect == Spec => []TypeOK
  <1>1. DatabaseIInv => TypeOK
    BY DEF DatabaseIInv
  <1> QED
    BY <1>1, DatabaseInvariance, PTL

\* The class uses its save timer as GCD demands.
THEOREM TimerUse == Spec => []NoTimerMisuse
  <1>1. DatabaseIInv => NoTimerMisuse
    BY DEF DatabaseIInv
  <1> QED
    BY <1>1, DatabaseInvariance, PTL

\* The buffer stays below the threshold, and a removed logger's is empty.
THEOREM BufferBounds == Spec => [](ThresholdHeld /\ SavedOnRemoval)
  <1>1. DatabaseIInv => ThresholdHeld /\ SavedOnRemoval
    BY DEF DatabaseIInv, CountersExact, SavedOnRemoval
  <1> QED
    BY <1>1, DatabaseInvariance, PTL

\* While there is something to save, the save timer is in time for the oldest entry.
THEOREM SaveInTime == Spec => []SaveScheduled
  <1>1. ASSUME DatabaseIInv
        PROVE  SaveScheduled
    <2>1. ASSUME added, saveInterval > 0, buffered > 0
          PROVE  saveTimer.source = "running"
      <3>1. saveTimer \in Timers /\ saveTimer.source # "crashed" /\ saveTimer.source # "none"
        BY <1>1, <2>1 DEF DatabaseIInv, TypeOK, NoTimerMisuse, SaveTimerMatches
      <3>2. buffered # 0
        BY <2>1, Numbers
      <3>3. saveTimer.source \notin {"inactive", "suspended"}
        BY <1>1, <3>2 DEF DatabaseIInv, SaveTimerMatches
      <3> QED
        BY <3>1, <3>3 DEF Timers
    <2> QED
      BY <1>1, <2>1 DEF DatabaseIInv, SaveTimerMatches, SaveScheduled
  <1> QED
    BY <1>1, DatabaseInvariance, PTL

\* While sweeping is enabled, the delete timer is in time for the next sweep; while
\* it is not, there is none.
THEOREM SweepInTime == Spec => []SweepScheduled
  <1>1. ASSUME DatabaseIInv
        PROVE  SweepScheduled
    <2>1. /\ deleteInterval \in Ages
          /\ deleteTimer \in Ages \cup {None}
          /\ lastDelete \in Ages \cup {None} /\ swept \in Ages \cup {None}
      BY <1>1, Numbers DEF DatabaseIInv, TypeOK
    <2>2. ASSUME added, maxAge > 0, deleteInterval > 0
          PROVE  /\ deleteTimer \in 0 .. deleteInterval
                 /\ lastDelete # None => deleteTimer <= Remaining(deleteInterval, swept)
      <3>1. deleteTimer \in Ages /\ deleteTimer <= deleteInterval
        BY <1>1, <2>1, <2>2 DEF DatabaseIInv, DeleteTimerMatches
      <3>2. ASSUME lastDelete # None
            PROVE  deleteTimer <= Remaining(deleteInterval, swept)
        <4>1. /\ lastDelete \in Ages /\ swept \in Ages /\ swept <= lastDelete
              /\ deleteTimer <= Remaining(deleteInterval, lastDelete)
          BY <1>1, <2>1, <3>1, <3>2, Numbers DEF DatabaseIInv, DeleteTimerMatches
        <4>2. /\ Remaining(deleteInterval, lastDelete) <= Remaining(deleteInterval, swept)
              /\ Remaining(deleteInterval, lastDelete) \in Ages
              /\ Remaining(deleteInterval, swept) \in Ages
          BY <2>1, <4>1, RemainingBounds
        <4> QED
          BY <3>1, <4>1, <4>2, Numbers
      <3> QED
        BY <2>1, <3>1, <3>2, Numbers
    <2> QED
      BY <1>1, <2>2 DEF DatabaseIInv, DeleteTimerMatches, SweepScheduled
  <1> QED
    BY <1>1, DatabaseInvariance, PTL
=============================================================================
