SPECIFICATION Spec
CONSTANTS
    file = file
    tty = tty
    error = error
    info = info
    None = None
    NoFormatter = NoFormatter
    Threads = {t1}
    Loggers = {file, tty}
    OwnQueue = {file}
    Flushable = {file}
    Flags <- MCFlags
    Levels <- TwoLevels
    Formatters = {f1}
    Api <- AddRemoveApi
    Installed <- NothingInstalled
    Multiprocessor = TRUE
    MaxCalls = 4
INVARIANT
    NoLogAfterRemoval
