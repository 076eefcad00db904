CONSTANTS
    m = m
    w1 = w1
    e1 = e1
    e2 = e2
    dump = dump
    Main = m
    Workers <- MCWorkers
    Threads <- MCThreads
    Errors <- MCErrors
    MemLimitMsg = dump
    MaxErrorsOptions = {0, 2}
    DEFAULT_MAX_ERRORS = 3
    MaxReports = 2
SPECIFICATION Spec
INVARIANT
    MemLimitDumpReported
CHECK_DEADLOCK FALSE
