------------------------- MODULE DDDatabaseInvariant -------------------------
(***************************************************************************)
(* The inductive invariant behind the safety properties of the database    *)
(* logger.                                                                 *)
(***************************************************************************)
EXTENDS DDDatabaseProperties

\* The class counts what the subclass has in its buffer and knows the age of the
\* oldest entry; a removed logger has none.
CountersExact ==
    /\ unsavedCount = buffered /\ unsavedTime = oldest
    /\ buffered = 0 <=> oldest = None
    /\ ~added => buffered = 0

\* There is a save timer only if saveInterval is enabled, and always while the
\* logger is registered; it sleeps exactly while nothing is to be saved.
SaveTimerMatches ==
    /\ saveTimer.source # "none" => saveInterval > 0
    /\ (added /\ saveInterval > 0) => saveTimer.source # "none"
    /\ saveTimer.source = "running" =>
          buffered > 0 /\ saveTimer.due <= Remaining(saveInterval, oldest)
    /\ saveTimer.source \in {"inactive", "suspended"} => buffered = 0

\* There is a delete timer only if both settings are enabled, and always while the
\* logger is registered; it counts from the last sweep the class knows of.
DeleteTimerMatches ==
    /\ (maxAge = 0 \/ deleteInterval = 0) => deleteTimer = None
    /\ (added /\ maxAge > 0 /\ deleteInterval > 0) => deleteTimer # None
    /\ lastDelete # None => swept # None /\ swept <= lastDelete
    /\ deleteTimer # None =>
          /\ deleteTimer <= deleteInterval
          /\ lastDelete # None => deleteTimer <= Remaining(deleteInterval, lastDelete)

DatabaseIInv ==
    /\ TypeOK
    /\ NoTimerMisuse
    /\ ThresholdHeld
    /\ CountersExact
    /\ SaveTimerMatches
    /\ DeleteTimerMatches
=============================================================================
