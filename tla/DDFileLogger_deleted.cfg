SPECIFICATION FairSpec
CONSTANTS
    None = None
    MaximumFileSizes <- Two
    RollingFrequencies <- TwoOrOff
    MaximumNumbers <- One
    DiskQuotas <- Off
    RollingLeeway = 1
    DoNotReuseLogFiles = FALSE
    Clock = "apart"
    MaxTime = 3
    MaxMessages = 2
    MaxPasses = 1
    MaxIncidents = 1
PROPERTY
    RecoversFromDeletion
