SPECIFICATION FairSpec
CONSTANTS
    None = None
    Loggers = {l1, l2}
    Threads = {t}
    Allowlists = {allow}
    Denylists = {deny}
    Writers = {text}
    Contexts = {c}
    MaxFormatters = 2
    MaxPending = 1
INVARIANTS
    ChainAsRequested
    WholeChainApplied
    VerdictJustified
PROPERTIES
    NobodyStarves
