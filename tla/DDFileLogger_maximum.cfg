SPECIFICATION Spec
CONSTANTS
    None = None
    MaximumFileSizes <- Two
    RollingFrequencies <- TwoOrOff
    MaximumNumbers <- Two
    DiskQuotas <- Off
    RollingLeeway = 1
    DoNotReuseLogFiles = FALSE
    Clock = "apart"
    MaxTime = 3
    MaxMessages = 2
    MaxPasses = 1
    MaxIncidents = 0
PROPERTY
    KeepsMaximumArchived
