\* Two threads with two operations each; deltas +1 and +2, Set to 0 (below
\* the mark), a TryUpdate limit of 2, a ScopedCounter of 1.  A 5-bit
\* counter (-16..15) holds every value four such operations reach, so the
\* int64 overflow of TryUpdate (a separate observation) is not part of
\* this run.
CONSTANTS
    Threads = {t1, t2}
    W = 5
    Deltas = {1, 2}
    SetValues = {0}
    Limits = {2}
    ScopedVals = {1}
    MaxOps = 2
SPECIFICATION Spec
INVARIANT HwmIsPeakWhenQuiescent
PROPERTIES
    ImplementsHighWaterMark
    OperationsComplete
\* Every thread stops after MaxOps operations.
CHECK_DEADLOCK FALSE
