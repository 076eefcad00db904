\* One ScopedTimer, one ThreadCounterMeasurement and one EventSequence on a
\* clock of two ticks: enough for a stopwatch to run, pause and resume, for
\* ReleaseCounter before the destructor, for Stop() before the destructor,
\* and for two events marked on either side of a Stop/Start.  Counter::Update
\* is one atomic add, so further timers on the same counter only reorder
\* commuting additions.
CONSTANTS
    Timers = {t1}
    MaxTime = 2
    MaxEvents = 2
SPECIFICATION Spec
INVARIANTS
    TypeOK
    TimerCountsRunningTime
    MeasurementCountsOnce
    EventsInTimeOrder
\* The model stops when the clock bound is reached and every object is gone.
CHECK_DEADLOCK FALSE
