---------------------------- MODULE RuntimeState ----------------------------
(***************************************************************************)
(* The per-fragment-instance RuntimeState of be/src/runtime/runtime-state.cc *)
(* as far as other threads see it: the bounded error log with the         *)
(* watermark GetUnreportedErrors advances, and the sticky query_status_    *)
(* that SetMemLimitExceeded and CheckQueryState move to                    *)
(* MEM_LIMIT_EXCEEDED.                                                     *)
(*                                                                         *)
(* SetMemLimitExceeded is two steps: the test-and-set of query_status_     *)
(* under query_status_lock_, then the LogError of the usage dump after the *)
(* lock is released.  memPc[t] records that thread t is between the two.   *)
(* The MemTracker hierarchy is outside src/: memExceeded stands for        *)
(* instance_mem_tracker_->AnyLimitExceeded(), which becomes TRUE when an   *)
(* allocation fails.                                                       *)
(***************************************************************************)
EXTENDS Naturals, Sequences, SequencesExt

CONSTANTS
    Threads,            \* threads of the fragment instance calling in
    Errors,             \* error messages the threads log (model values)
    MemLimitMsg,        \* the "Memory Limit Exceeded" usage dump
    MaxErrorsOptions,   \* values query_options.max_errors may arrive with
    DEFAULT_MAX_ERRORS  \* what Init substitutes for max_errors <= 0 (100)

ASSUME MemLimitMsg \notin Errors
ASSUME DEFAULT_MAX_ERRORS \in Nat \ {0}

VARIABLES
    errorLog,           \* error_log_
    unreportedErrorIdx, \* unreported_error_idx_
    queryStatus,        \* query_status_
    maxErrors,          \* query_options.max_errors after Init
    memExceeded,        \* instance_mem_tracker_->AnyLimitExceeded()
    memPc,              \* per thread: "idle" or "log" inside SetMemLimitExceeded
    raised              \* errors the threads have already tried to log

rsVars == <<errorLog, unreportedErrorIdx, queryStatus, maxErrors,
            memExceeded, memPc, raised>>

RSTypeOK ==
    /\ errorLog \in Seq(Errors \cup {MemLimitMsg})
    /\ unreportedErrorIdx \in 0..Len(errorLog)
    /\ queryStatus \in {"OK", "MEM_LIMIT_EXCEEDED"}
    /\ maxErrors \in Nat \ {0}
    /\ memExceeded \in BOOLEAN
    /\ memPc \in [Threads -> {"idle", "log"}]
    /\ raised \subseteq Errors

-----------------------------------------------------------------------------
(* Mutant: max_errors is taken as it comes. *)
ClampMaxErrors_NoClamp(opt) == opt

(* Init: a non-positive max_errors falls back to the default. *)
ClampMaxErrors(opt) == IF opt <= 0 THEN DEFAULT_MAX_ERRORS ELSE opt

InitRS ==
    /\ errorLog = <<>>
    /\ unreportedErrorIdx = 0
    /\ queryStatus = "OK"
    /\ maxErrors \in {ClampMaxErrors(o) : o \in MaxErrorsOptions}
    /\ memExceeded = FALSE
    /\ memPc = [t \in Threads |-> "idle"]
    /\ raised = {}

(* LogError(string): under error_log_lock_, append only while there is     *)
(* room; a full log drops the message.                                    *)
LogError(msg) ==
    errorLog' = IF Len(errorLog) < maxErrors THEN Append(errorLog, msg)
                                             ELSE errorLog

(* ErrorLogIsEmpty, as written: it answers size() > 0. *)
ErrorLogIsEmpty == Len(errorLog) > 0

(* The errors GetUnreportedErrors hands out: those past the watermark. *)
UnreportedErrors == SubSeq(errorLog, unreportedErrorIdx + 1, Len(errorLog))

(* Mutant: the watermark is never advanced. *)
GetUnreportedErrors_KeepWatermark == UNCHANGED unreportedErrorIdx

(* GetUnreportedErrors advances the watermark to the end of the log, in    *)
(* the same critical section that copies UnreportedErrors out.            *)
GetUnreportedErrors == unreportedErrorIdx' = Len(errorLog)

(* Mutant: the test of query_status_ is dropped, every caller logs. *)
SetMemLimitExceededLocked_NoTest(t) ==
    /\ memPc[t] = "idle"
    /\ queryStatus' = "MEM_LIMIT_EXCEEDED"
    /\ memPc' = [memPc EXCEPT ![t] = "log"]

(* First half of SetMemLimitExceeded: under query_status_lock_, move an OK *)
(* status to MEM_LIMIT_EXCEEDED; a thread finding it already non-OK        *)
(* returns it without logging anything.                                    *)
SetMemLimitExceededLocked(t) ==
    /\ memPc[t] = "idle"
    /\ IF queryStatus = "OK"
         THEN /\ queryStatus' = "MEM_LIMIT_EXCEEDED"
              /\ memPc' = [memPc EXCEPT ![t] = "log"]
         ELSE UNCHANGED <<queryStatus, memPc>>

(* Second half: with the lock released, log the usage dump. *)
SetMemLimitExceededLog(t) ==
    /\ memPc[t] = "log"
    /\ LogError(MemLimitMsg)
    /\ memPc' = [memPc EXCEPT ![t] = "idle"]
    /\ UNCHANGED <<unreportedErrorIdx, queryStatus, maxErrors, memExceeded, raised>>

(* CheckQueryState: an exceeded tracker goes through SetMemLimitExceeded;  *)
(* otherwise query_status_ is only read.                                   *)
CheckQueryState(t) ==
    /\ memPc[t] = "idle"
    /\ IF memExceeded THEN SetMemLimitExceededLocked(t)
                      ELSE UNCHANGED <<queryStatus, memPc>>

(* The status CheckQueryState returns in that same step. *)
CheckQueryStateResult ==
    IF memExceeded THEN "MEM_LIMIT_EXCEEDED" ELSE queryStatus

-----------------------------------------------------------------------------
(* What a thread of the fragment instance does to its RuntimeState.        *)

(* A thread logs a new error through LogError(Status). *)
ThreadLogError(t, e) ==
    /\ memPc[t] = "idle"
    /\ e \in Errors \ raised
    /\ LogError(e)
    /\ raised' = raised \cup {e}
    /\ UNCHANGED <<unreportedErrorIdx, queryStatus, maxErrors, memExceeded, memPc>>

(* An allocation of thread t fails against the tracker's limit, and t      *)
(* calls SetMemLimitExceeded.                                              *)
ThreadAllocFails(t) ==
    /\ memExceeded' = TRUE
    /\ SetMemLimitExceededLocked(t)
    /\ UNCHANGED <<errorLog, unreportedErrorIdx, maxErrors, raised>>

(* An ancestor tracker goes over its limit without any thread of this      *)
(* instance failing an allocation: the query tracker is shared by all       *)
(* instances of the query on the node, and the process tracker by all.      *)
AncestorLimitExceeded ==
    /\ ~memExceeded
    /\ memExceeded' = TRUE
    /\ UNCHANGED <<errorLog, unreportedErrorIdx, queryStatus, maxErrors, memPc, raised>>

ThreadCheckQueryState(t) ==
    /\ CheckQueryState(t)
    /\ UNCHANGED <<errorLog, unreportedErrorIdx, maxErrors, memExceeded, raised>>

-----------------------------------------------------------------------------
(* SetMemLimitExceeded logs its usage dump at most once per instance, even *)
(* when several threads hit the limit or CheckQueryState at the same time, *)
(* and never while query_status_ is still OK.                              *)
MemLimitDumpOnce ==
    /\ Cardinality({i \in DOMAIN errorLog : errorLog[i] = MemLimitMsg}) <= 1
    /\ MemLimitMsg \in ToSet(errorLog) => queryStatus = "MEM_LIMIT_EXCEEDED"

=============================================================================
