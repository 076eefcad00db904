---------------------------- MODULE ProfileTimers ----------------------------
(***************************************************************************)
(* The timing helpers of be/src/util/runtime-profile.h: ScopedTimer on a   *)
(* TIME_NS Counter that several threads share, ThreadCounterMeasurement    *)
(* on a ThreadCounters set, and an EventSequence, all against one clock.   *)
(*                                                                         *)
(* A MonotonicStopWatch is a record: running, the time it was started, and *)
(* the time it accumulated before; Start does not reset it, Stop pauses    *)
(* it.  getrusage is abstracted to one monotone usage figure per thread:  *)
(* each of the four rusage counters is updated with "usage now - usage at *)
(* construction", so one stands for all.  Counter::Update is the atomic   *)
(* add on its AtomicInt, so one step.                                      *)
(***************************************************************************)
EXTENDS Naturals, Sequences, Functions

CONSTANTS
    Timers,     \* threads, each with a ScopedTimer on the shared counter
    MaxTime,    \* bound on the clock
    MaxEvents   \* bound on MarkEvent calls

VARIABLES
    now,          \* the monotonic clock
    timeCounter,  \* value_ of the TIME_NS Counter the timers share
    tpc,          \* per timer: "none", "live" (in scope), "gone" (destroyed)
    tsw,          \* per timer: its stopwatch sw_
    tctr,         \* per timer: counter_ != NULL
    mpc,          \* the measurement: "none", "live", "gone"
    msw,          \* its sw_
    mstop,        \* its stop_
    mbase,        \* its usage_base_
    usage,        \* the measured thread's rusage figure
    totalTime,    \* counters_->total_time_
    rusageTime,   \* counters_->user_time_ (and the other rusage counters)
    esw,          \* the EventSequence's sw_
    events,       \* its events_: the timestamps of the marked events
    credited,     \* history: ticks each timer's stopwatch ran with counter_ set
    early,        \* history: UpdateCounter called on a timer before its end
    recounted,    \* history: the elapsed time that mid-scope call added
    mRun,         \* history: ticks during which the measurement was running
    mUsage        \* history: usage increments while the measurement was running

vars == <<now, timeCounter, tpc, tsw, tctr, mpc, msw, mstop, mbase, usage,
          totalTime, rusageTime, esw, events, credited, early, recounted, mRun, mUsage>>

timerVars == <<tpc, tsw, tctr, early, recounted>>
measureVars == <<mpc, msw, mstop, mbase, totalTime, rusageTime>>
eventVars == <<esw, events>>

StopWatches == [running : BOOLEAN, start : 0..MaxTime, total : 0..MaxTime]
Stopped == [running |-> FALSE, start |-> 0, total |-> 0]

TypeOK ==
    /\ now \in 0..MaxTime
    /\ timeCounter \in Nat
    /\ tpc \in [Timers -> {"none", "live", "gone"}]
    /\ tsw \in [Timers -> StopWatches]
    /\ tctr \in [Timers -> BOOLEAN]
    /\ mpc \in {"none", "live", "gone"}
    /\ msw \in StopWatches /\ esw \in StopWatches
    /\ mstop \in BOOLEAN
    /\ {mbase, usage, totalTime, rusageTime} \subseteq 0..MaxTime
    /\ events \in Seq(0..MaxTime) /\ Len(events) <= MaxEvents
    /\ credited \in [Timers -> 0..MaxTime]
    /\ early \in [Timers -> BOOLEAN]
    /\ recounted \in [Timers -> 0..MaxTime]
    /\ {mRun, mUsage} \subseteq 0..MaxTime

(* The counters, created at zero: the shared TIME_NS Counter and the       *)
(* ThreadCounters set of the measured thread.                              *)
CountersInit == timeCounter = 0 /\ totalTime = 0 /\ rusageTime = 0

(* No ScopedTimer yet: each has a default (stopped, zero) sw_ and no       *)
(* counter_.                                                               *)
TimerInit ==
    /\ tpc = [t \in Timers |-> "none"]
    /\ tsw = [t \in Timers |-> Stopped]
    /\ tctr = [t \in Timers |-> FALSE]

(* No ThreadCounterMeasurement yet. *)
MeasureInit == mpc = "none" /\ msw = Stopped /\ mstop = FALSE /\ mbase = 0

(* EventSequence(): an empty events_ and a stopped sw_. *)
EventInit == esw = Stopped /\ events = <<>>

Init ==
    /\ now = 0 /\ usage = 0
    /\ CountersInit /\ TimerInit /\ MeasureInit /\ EventInit
    /\ credited = [t \in Timers |-> 0]
    /\ early = [t \in Timers |-> FALSE]
    /\ recounted = [t \in Timers |-> 0]
    /\ mRun = 0 /\ mUsage = 0

-----------------------------------------------------------------------------
(* sw_.ElapsedTime() *)
Elapsed(sw) == sw.total + (IF sw.running THEN now - sw.start ELSE 0)

(* sw_.Start(): starts the timer without resetting it. *)
SwStart(sw) == IF sw.running THEN sw ELSE [sw EXCEPT !.running = TRUE, !.start = now]

(* sw_.Stop(): pauses it. *)
SwStop(sw) == [running |-> FALSE, start |-> 0, total |-> Elapsed(sw)]

(* Mutant: the delta applied with the wrong sign. *)
CounterUpdate_Negated(delta) == timeCounter' = timeCounter - delta

(* Counter::Update(delta): value_ += delta, atomically. *)
CounterUpdate(delta) == timeCounter' = timeCounter + delta

(* The clock advances; the measured thread may or may not use CPU.        *)
Tick ==
    /\ now < MaxTime
    /\ now' = now + 1
    /\ \E used \in {0, 1} :
          /\ usage' = usage + used
          /\ mUsage' = IF mpc = "live" /\ ~mstop THEN mUsage + used ELSE mUsage
    /\ credited' = [t \in Timers |->
                      IF tsw[t].running /\ tctr[t] /\ tpc[t] = "live"
                      THEN credited[t] + 1 ELSE credited[t]]
    /\ mRun' = IF mpc = "live" /\ ~mstop THEN mRun + 1 ELSE mRun
    /\ UNCHANGED <<timeCounter, timerVars, measureVars, eventVars>>

-----------------------------------------------------------------------------
(***************************************************************************)
(* ScopedTimer<MonotonicStopWatch>, one per thread in Timers.              *)
(***************************************************************************)

(* UpdateCounter() on stopwatch sw: add its elapsed time if counter_ is set. *)
UpdateCounterWith(t, sw) ==
    IF tctr[t] THEN CounterUpdate(Elapsed(sw)) ELSE UNCHANGED timeCounter

(* ScopedTimer(counter): a NULL counter returns before sw_.Start(). *)
TimerConstruct(t) ==
    /\ tpc[t] = "none"
    /\ tpc' = [tpc EXCEPT ![t] = "live"]
    /\ \E attached \in BOOLEAN :
          /\ tctr' = [tctr EXCEPT ![t] = attached]
          /\ tsw' = IF attached THEN [tsw EXCEPT ![t] = SwStart(tsw[t])] ELSE tsw
    /\ UNCHANGED <<timeCounter, early, recounted>>

(* Stop() and Start(): pause and resume sw_. *)
TimerStop(t) ==
    /\ tpc[t] = "live"
    /\ tsw' = [tsw EXCEPT ![t] = SwStop(tsw[t])]
    /\ UNCHANGED <<timeCounter, tpc, tctr, early, recounted>>

TimerStart(t) ==
    /\ tpc[t] = "live"
    /\ tsw' = [tsw EXCEPT ![t] = SwStart(tsw[t])]
    /\ UNCHANGED <<timeCounter, tpc, tctr, early, recounted>>

(* A caller's own UpdateCounter() while the timer is still in scope; the  *)
(* model bounds it to one such call per timer (the early flag).            *)
TimerUpdateCounter(t) ==
    /\ tpc[t] = "live"
    /\ ~early[t]
    /\ UpdateCounterWith(t, tsw[t])
    /\ early' = IF tctr[t] THEN [early EXCEPT ![t] = TRUE] ELSE early
    /\ recounted' = IF tctr[t] THEN [recounted EXCEPT ![t] = Elapsed(tsw[t])] ELSE recounted
    /\ UNCHANGED <<tpc, tsw, tctr>>

(* Mutant: ReleaseCounter leaves counter_ set. *)
ClearCounter_Missing(t) == tctr' = tctr

(* counter_ = NULL *)
ClearCounter(t) == tctr' = [tctr EXCEPT ![t] = FALSE]

(* ReleaseCounter(): UpdateCounter(), then counter_ = NULL. *)
TimerReleaseCounter(t) ==
    /\ tpc[t] = "live"
    /\ UpdateCounterWith(t, tsw[t])
    /\ ClearCounter(t)
    /\ UNCHANGED <<tpc, tsw, early, recounted>>

(* ~ScopedTimer(): sw_.Stop(), then UpdateCounter() with the stopped sw_. *)
TimerDestroy(t) ==
    /\ tpc[t] = "live"
    /\ tpc' = [tpc EXCEPT ![t] = "gone"]
    /\ tsw' = [tsw EXCEPT ![t] = SwStop(tsw[t])]
    /\ UpdateCounterWith(t, SwStop(tsw[t]))
    /\ UNCHANGED <<tctr, early, recounted>>

-----------------------------------------------------------------------------
(***************************************************************************)
(* ThreadCounterMeasurement on one thread's ThreadCounters.                *)
(***************************************************************************)

(* ThreadCounterMeasurement(counters): stop_ = false, sw_.Start(), and     *)
(* getrusage into usage_base_.                                             *)
MeasureConstruct ==
    /\ mpc = "none"
    /\ mpc' = "live"
    /\ mstop' = FALSE
    /\ msw' = SwStart(msw)
    /\ mbase' = usage
    /\ UNCHANGED <<totalTime, rusageTime>>

(* Mutant: Stop() without the stop_ check. *)
MeasureStopBody_NoGuard ==
    /\ mstop' = TRUE
    /\ msw' = SwStop(msw)
    /\ totalTime' = totalTime + Elapsed(SwStop(msw))
    /\ rusageTime' = rusageTime + (usage - mbase)

(* Stop(): once only; sw_.Stop(), getrusage, then each counter of the set *)
(* updated: total_time_ by the elapsed time, the rusage ones by the diff. *)
MeasureStopBody ==
    IF mstop THEN UNCHANGED <<mstop, msw, totalTime, rusageTime>>
    ELSE /\ mstop' = TRUE
         /\ msw' = SwStop(msw)
         /\ totalTime' = totalTime + Elapsed(SwStop(msw))
         /\ rusageTime' = rusageTime + (usage - mbase)

MeasureStop ==
    /\ mpc = "live"
    /\ MeasureStopBody
    /\ UNCHANGED <<mpc, mbase>>

(* ~ThreadCounterMeasurement(): Stop(). *)
MeasureDestroy ==
    /\ mpc = "live"
    /\ mpc' = "gone"
    /\ MeasureStopBody
    /\ UNCHANGED mbase

-----------------------------------------------------------------------------
(***************************************************************************)
(* EventSequence, used by its one owning thread.                           *)
(***************************************************************************)

(* Mutant: EventSequence::Start() restarts sw_ from zero. *)
EventStart_Resets ==
    /\ esw' = [running |-> TRUE, start |-> now, total |-> 0]
    /\ UNCHANGED events

(* Start(): starts the timer without resetting it. *)
EventStart ==
    /\ esw' = SwStart(esw)
    /\ UNCHANGED events

(* Stop(): stops (pauses) the timer. *)
EventStop ==
    /\ esw' = SwStop(esw)
    /\ UNCHANGED events

(* MarkEvent(label): push (label, sw_.ElapsedTime()). *)
MarkEvent ==
    /\ Len(events) < MaxEvents
    /\ events' = Append(events, Elapsed(esw))
    /\ UNCHANGED esw

-----------------------------------------------------------------------------
Next ==
    \/ Tick
    \/ \E t \in Timers :
          /\ \/ TimerConstruct(t) \/ TimerStop(t) \/ TimerStart(t)
             \/ TimerUpdateCounter(t) \/ TimerReleaseCounter(t) \/ TimerDestroy(t)
          /\ UNCHANGED <<now, usage, measureVars, eventVars, credited, mRun, mUsage>>
    \/ /\ MeasureConstruct \/ MeasureStop \/ MeasureDestroy
       /\ UNCHANGED <<now, usage, timeCounter, timerVars, eventVars, credited, mRun, mUsage>>
    \/ /\ EventStart \/ EventStop \/ MarkEvent
       /\ UNCHANGED <<now, usage, timeCounter, timerVars, measureVars, credited, mRun, mUsage>>

Spec == Init /\ [][Next]_vars

-----------------------------------------------------------------------------
(* The shared TIME_NS counter holds the time each timer's stopwatch ran   *)
(* before its counter was released or the timer destroyed, counted once,   *)
(* plus, once more, the elapsed time at a caller's mid-scope               *)
(* UpdateCounter(): UpdateCounter adds sw_.ElapsedTime(), the time since   *)
(* construction, and ReleaseCounter or the destructor adds it again in     *)
(* full.  This holds for every interleaving of the threads' Start, Stop,   *)
(* UpdateCounter, ReleaseCounter and destructors.                          *)
Detached(t) == tpc[t] = "gone" \/ ~tctr[t]

TimerCountsRunningTime ==
    timeCounter = FoldFunctionOnSet(+, 0, credited, {t \in Timers : Detached(t)})
                  + FoldFunctionOnSet(+, 0, recounted, Timers)

(* Once the measurement has stopped, by Stop() or by its destructor, its   *)
(* counters hold the wall time and the CPU usage of the measured span,     *)
(* counted once however often Stop() is called.                            *)
MeasurementCountsOnce ==
    mstop => (totalTime = mRun /\ rusageTime = mUsage)

(* events_ is "stored in increasing time order" (EventSequence): however  *)
(* Start, Stop and MarkEvent are interleaved with the clock.               *)
EventsInTimeOrder ==
    \A i \in 1..Len(events) - 1 : events[i] <= events[i + 1]
====
