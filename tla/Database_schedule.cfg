SPECIFICATION FairSpec
CONSTANTS
    None = None
    SaveThresholds <- Off23
    SaveIntervals <- Off13
    MaxAges <- Off13
    DeleteIntervals <- Off13
    Horizon = 3
    MaxUnsaved = 3
INVARIANTS
    NoTimerMisuse
    ThresholdHeld
    SaveScheduled
    SweepScheduled
PROPERTIES
    TimersGoOn
