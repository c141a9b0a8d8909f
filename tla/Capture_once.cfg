SPECIFICATION Spec
CONSTANTS
    CaptureLevels <- OnlyErrors
    Statements <- Infos
    MaxStarts = 2
    Instances <- StoppedAndStarted
INVARIANT SeenOnce
