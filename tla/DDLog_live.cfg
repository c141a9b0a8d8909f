SPECIFICATION FairFrontSpec
CONSTANTS
    file = file
    error = error
    info = info
    None = None
    NoFormatter = NoFormatter
    Threads = {t1, t2, sub}
    Loggers = {file, sub}
    OwnQueue = {file}
    Flushable = {file}
    Flags <- MCFlags
    Levels <- TwoLevels
    Formatters = {f1}
    Api <- WholeApi
    Installed <- FileInstalled
    Multiprocessor = FALSE
    MaxCalls = 3
    Subscriptions = {sub}
    SubscriptionLevels <- ErrorLevel
    ErrorFlag = error
    LogLevel <- MCFlags
    AsyncEnabled = TRUE
    FlagOfLevel <- MCFlagOfLevel
    Threshold = 5
INVARIANTS
    OnlyRegisteredAreCalled
    NotifiedBeforeLogging
    CancelIsFinal
    UrgentIsDelivered
PROPERTIES
    BroadcastIsAtomic
    AssertionLosesNothing
    NothingHangs
