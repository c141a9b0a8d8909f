----------------------- MODULE DDFileLoggerProperties -----------------------
(***************************************************************************)
(* What makes the file logger and its file manager correct.                *)
(***************************************************************************)
EXTENDS DDFileLogger

TypeOK ==
    /\ now \in Names
    /\ files \in Seq(FileRecord)
    /\ DOMAIN disk \subseteq Names /\ \A f \in DOMAIN disk : disk[f] \in DOMAIN files
    /\ info \in Names \cup {None}
    /\ created \in Names \cup {None}
    /\ handle \in DOMAIN files \cup {None}
    /\ watched \in DOMAIN files \cup {None}
    /\ timer \in Nat \cup {None}
    /\ stage \in {"idle", "open", "watch"}
    /\ maximumFileSize \in MaximumFileSizes /\ rollingFrequency \in RollingFrequencies
    /\ maximumNumberOfLogFiles \in MaximumNumbers /\ logFilesDiskQuota \in DiskQuotas
    /\ requested \in Nat /\ passes \in Seq(SUBSET Names)
    /\ completionQueue \in [Names -> Nat] /\ announced \in [Names -> Nat]
    /\ logged \in Nat /\ incidents \in Nat /\ launches \in Nat
    /\ unmarked \subseteq Names /\ undeleted \subseteq Names /\ lost \subseteq Names
    /\ unchecked \in BOOLEAN

\* deleteOldLogFilesWithError: needs no synchronisation with the logger "since
\* the files we're deleting are all archived and not in use": whatever the logger
\* does meanwhile, no file a pass has still to delete is one that may be written,
\* unless it is one that could not be archived.
DeletedFilesAreArchived ==
    \A p \in DOMAIN passes : \A f \in (passes[p] \cap DOMAIN disk) \ unmarked :
        File(f).archived /\ disk[f] # handle

\* Of the files that could be archived at most one is not, and it is the newest:
\* resuming picks the newest, so any other would stay open for ever, through crashes
\* and restarts.
OnlyNewestIsOpen ==
    \A f \in DOMAIN disk \ unmarked : ~File(f).archived => IsNewest(f)

\* Nothing is written to a file once it was archived and announced as complete,
\* not even after a restart.
ArchivedIsFinal ==
    [][\A i \in DOMAIN files : files[i].archived =>
          files'[i].archived /\ files'[i].size = files[i].size]_vars

\* Between two blocks of its queue the logger has no file open that reached
\* maximumFileSize, however the setting changed and whatever was logged before, unless
\* the last check failed: the next one makes up for it.
OpenFileHasRoom ==
    (Idle /\ handle # None /\ maximumFileSize > 0 /\ ~unchecked)
        => files[handle].size < maximumFileSize

\* The file is rolled in time because the timer always stands for the open file
\* and the current frequency, unless the file was gone before its date was read;
\* without an open file no timer and no source is left.
SourcesFollowFile ==
    Idle => IF handle = None THEN timer = None /\ watched = None
            ELSE /\ info = files[handle].name
                 /\ Linked(handle) => created = info
                 /\ created # None => timer = Schedule(created, rollingFrequency)
                 /\ watched \in {handle, None}

\* didArchiveLogFile: is called or about to be called for every archived file,
\* whichever of rolling, resuming, size, age, removal of the logger or of the file
\* archived it, unless the process died before the call; and never twice for one, not
\* even when it has died, if the file could be archived.
AnnouncedOnce ==
    /\ \A f \in DOMAIN disk \ lost : File(f).archived => Calls(f) >= 1
    /\ \A f \in Names \ unmarked : Calls(f) <= 1

\* createNewLogFileWithError: generates a "new unique log file path": it never
\* takes the place of a file that is in the directory.
NewPathIsUnique ==
    [][\A f \in DOMAIN disk \cap DOMAIN disk' : disk'[f] = disk[f]]_vars

\* All but the newest of these files.
OlderOf(K) == {f \in K : \E g \in K : g > f}

\* What the settings allow, if only the files of K were left: maximumNumberOfLogFiles
\* files (at least the newest), and apart from the newest no more than logFilesDiskQuota.
WithinLimits(K) ==
    /\ maximumNumberOfLogFiles > 0 => Cardinality(OlderOf(K)) < maximumNumberOfLogFiles
    /\ logFilesDiskQuota > 0 => SizeOf(OlderOf(K)) <= logFilesDiskQuota

\* When the last deletion pass ends, what the settings allow is left, not counting
\* files that could not be deleted, although files are created, rolled and removed
\* and settings change during the passes.
RetentionKept ==
    [][(requested + Len(passes) > 0 /\ requested' = 0 /\ passes' = <<>> /\ launches' = launches)
          => WithinLimits(DOMAIN disk \ undeleted)']_vars

\* maximumNumberOfLogFiles: the file manager will "keep 3 archived log files (plus the
\* current active log file)": a pass deletes a file only if that many archived ones
\* are newer.
KeepsMaximumArchived ==
    [][\A f \in DOMAIN disk \ DOMAIN disk' :
          Cardinality({g \in DOMAIN disk : g > f /\ File(g).archived}) >= maximumNumberOfLogFiles]_vars

Aged == Idle /\ handle # None /\ rollingFrequency > 0 /\ Age(info) >= rollingFrequency
NotAged == handle = None \/ rollingFrequency = 0 \/ Age(info) < rollingFrequency

\* A file of the directory that stays open beyond rollingFrequency is rolled.
AgedFileIsRolled == (Aged /\ Linked(handle)) ~> NotAged

\* A file that is deleted or moved while it is watched is let go.
MovedFileIsLeft ==
    (watched # None /\ ~Linked(watched)) ~> (watched = None)

\* logsDirectory: "this way the code continues to work if the directory gets
\* deleted while the code is running": as long as messages are logged, the logger
\* does not hold on to a file that is gone.
Gone == info # None /\ handle = None /\ info \notin DOMAIN disk
RecoversFromDeletion ==
    []<><<logMessageFindsFile>>_vars => (Gone ~> ~Gone)
=============================================================================
