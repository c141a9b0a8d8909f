SPECIFICATION FairSpec
CONSTANTS
    None = None
    MaximumFileSizes <- OneOrTwo
    RollingFrequencies <- TwoOrOff
    MaximumNumbers <- OneOrTwo
    DiskQuotas <- OneOrOff
    RollingLeeway = 1
    DoNotReuseLogFiles = FALSE
    Clock = "apart"
    MaxTime = 3
    MaxMessages = 2
    MaxPasses = 1
    MaxIncidents = 1
INVARIANTS
    DeletedFilesAreArchived
    OnlyNewestIsOpen
    OpenFileHasRoom
    SourcesFollowFile
    AnnouncedOnce
PROPERTIES
    ArchivedIsFinal
    RetentionKept
    AgedFileIsRolled
    MovedFileIsLeft
