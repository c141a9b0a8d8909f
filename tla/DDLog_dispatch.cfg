SPECIFICATION Spec
CONSTANTS
    file = file
    tty = tty
    error = error
    info = info
    None = None
    NoFormatter = NoFormatter
    Threads = {t1, t2}
    Loggers = {file, tty}
    OwnQueue = {file}
    Flushable = {file}
    Flags <- MCFlags
    Levels <- OneLevel
    Formatters = {f1}
    Api <- DispatchApi
    Installed <- BothInstalled
    Multiprocessor = TRUE
    MaxCalls = 4
SYMMETRY ThreadSymmetry
INVARIANTS
    TypeOK
    DeliveredInOrder
    OneMessageAtATime
    SyncReturnsDelivered
PROPERTIES
    BroadcastIsAtomic
    FlushCoversCaller
    ExitLosesNothing
