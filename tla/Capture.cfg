SPECIFICATION FairSpec
CONSTANTS
    CaptureLevels <- OnlyErrors
    Statements <- Infos
    MaxStarts = 2
    Instances <- RestartedOrOverlapping
INVARIANTS
    NoEcho
    OnceInOrder
    NothingSkipped
PROPERTY
    EverythingIsSeen
