-------------------------- MODULE FragmentExecState --------------------------
(***************************************************************************)
(* ImpalaServer::FragmentExecState (be/src/service/fragment-exec-state.cc) *)
(* composed with the RuntimeState of its fragment instance.                *)
(*                                                                         *)
(* Threads:                                                                *)
(*  - Main runs Prepare and then Exec (executor_.Open(), executor_.Close());*)
(*    the end of Open sends the final report (done = TRUE) through          *)
(*    ReportStatusCb.                                                      *)
(*  - the executor's reporting thread calls ReportStatusCb with OK, done = *)
(*    FALSE while the fragment runs; it is stopped before the final report,*)
(*    so at most one callback is in flight (cb).                           *)
(*  - Workers (scanner and exchange threads) log errors, check the query   *)
(*    state and fail allocations against the memory limit.                 *)
(*  - the coordinator calls Cancel() at any time after Prepare.            *)
(* The PlanFragmentExecutor is outside src/: the steps of Open and the     *)
(* reporting thread are modelled from the spec.                            *)
(*                                                                         *)
(* ReportExecStatus is a synchronous RPC.  It may fail with a transport    *)
(* exception before the request reaches the coordinator, or after it has   *)
(* arrived (the response is lost); any other TException does not retry.    *)
(* received is what the coordinator has been handed, in arrival order.     *)
(***************************************************************************)
EXTENDS RuntimeState

CONSTANTS
    Main,        \* the thread running Prepare and Exec
    Workers,     \* the executor's other threads
    MaxReports   \* bound on callbacks of the reporting thread

ASSUME Threads = Workers \cup {Main} /\ Main \notin Workers
ASSUME MaxReports \in Nat

VARIABLES
    execStatus,     \* exec_status_
    mainPc,         \* where Main is in Prepare / Exec
    execCancelled,  \* executor_.Cancel() has been called
    mainQs,         \* what Main's CheckQueryState returned
    openResult,     \* the status executor_.Open() finishes with
    cb,             \* the ReportStatusCb in flight, if any
    seq,            \* number of ReportStatusCb invocations so far
    received        \* reports the coordinator has received

fesVars == <<execStatus, mainPc, execCancelled, mainQs, openResult, cb, seq, received>>
vars == <<rsVars, fesVars>>

Status == {"OK", "CANCELLED", "EXEC_ERROR", "MEM_LIMIT_EXCEEDED",
           "INTERNAL_ERROR", "REOPEN_ERROR", "COORD_ERROR"}

MainPcs == {"created", "prepared", "prepare_failed", "running", "checking",
            "final", "reporting", "reported", "closed"}

Report == [seq : Nat, status : Status, done : BOOLEAN,
           errs : Seq(Errors \cup {MemLimitMsg})]

IdleCb == [pc |-> "idle", seq |-> 0, status |-> "OK", done |-> FALSE, errs |-> <<>>]

TypeOK ==
    /\ RSTypeOK
    /\ execStatus \in Status
    /\ mainPc \in MainPcs
    /\ execCancelled \in BOOLEAN
    /\ mainQs \in Status
    /\ openResult \in Status
    /\ cb \in {IdleCb} \cup [pc : {"send", "retry"}, seq : Nat, status : Status,
                             done : BOOLEAN, errs : Seq(Errors \cup {MemLimitMsg})]
    /\ seq \in Nat
    /\ received \in Seq(Report)

Init ==
    /\ InitRS
    /\ execStatus = "OK"
    /\ mainPc = "created"
    /\ execCancelled = FALSE
    /\ mainQs = "OK"
    /\ openResult = "OK"
    /\ cb = IdleCb
    /\ seq = 0
    /\ received = <<>>

-----------------------------------------------------------------------------
(* Mutant: the first error is not kept, a later one overwrites it. *)
UpdateStatus_Overwrite(cur, s) == IF s # "OK" THEN s ELSE cur

(* UpdateStatus: the first non-OK status wins; returns exec_status_. *)
UpdateStatus(cur, s) == IF s # "OK" /\ cur = "OK" THEN s ELSE cur

(* Cancel: under status_lock_, a fragment whose status is already an error *)
(* returns it; otherwise executor_.Cancel() is called.  exec_status_ is    *)
(* left OK.                                                                *)
Cancel ==
    /\ mainPc \in MainPcs \ {"created", "prepare_failed", "closed"}
    /\ execStatus = "OK"
    /\ execCancelled' = TRUE
    /\ UNCHANGED <<rsVars, execStatus, mainPc, mainQs, openResult, cb, seq, received>>

(* Prepare: executor_.Prepare() either fails, and the fragment never runs, *)
(* or succeeds and the LLVM module is optimised.                           *)
Prepare ==
    /\ mainPc = "created"
    /\ mainPc' \in {"prepared", "prepare_failed"}
    /\ UNCHANGED <<rsVars, execStatus, execCancelled, mainQs, openResult, cb, seq, received>>

(* Exec: executor_.Open() starts running the fragment. *)
Exec ==
    /\ mainPc = "prepared"
    /\ mainPc' = "running"
    /\ UNCHANGED <<rsVars, execStatus, execCancelled, mainQs, openResult, cb, seq, received>>

(* The end of Open: Main calls CheckQueryState; the mem-limit check takes  *)
(* priority over cancellation.                                             *)
OpenCheckQueryState ==
    /\ mainPc = "running"
    /\ CheckQueryState(Main)
    /\ mainQs' = CheckQueryStateResult
    /\ mainPc' = "checking"
    /\ UNCHANGED <<errorLog, unreportedErrorIdx, maxErrors, memExceeded, raised,
                   execStatus, execCancelled, openResult, cb, seq, received>>

OpenOutcomes ==
    IF mainQs # "OK" THEN {mainQs}
    ELSE IF execCancelled THEN {"CANCELLED"}
    ELSE {"OK", "EXEC_ERROR"}

OpenReturn ==
    /\ mainPc = "checking"
    /\ memPc[Main] = "idle"
    /\ openResult' \in OpenOutcomes
    /\ mainPc' = "final"
    /\ UNCHANGED <<rsVars, execStatus, execCancelled, mainQs, cb, seq, received>>

(* Main's own SetMemLimitExceeded logging its dump. *)
MainMemLog ==
    /\ SetMemLimitExceededLog(Main)
    /\ UNCHANGED fesVars

(* Close: after the final report, executor_.Close(). *)
Close ==
    /\ mainPc = "reported"
    /\ mainPc' = "closed"
    /\ UNCHANGED <<rsVars, execStatus, execCancelled, mainQs, openResult, cb, seq, received>>

-----------------------------------------------------------------------------
(* ReportStatusCb.                                                         *)

(* ReportStatusCb returns; for the final report, Main moves on to Close. *)
FinishCb(done) ==
    /\ cb' = IdleCb
    /\ mainPc' = IF done THEN "reported" ELSE mainPc

(* The report as ReportExecStatus carries it to the coordinator. *)
Deliver ==
    received' = Append(received, [seq |-> cb.seq, status |-> cb.status,
                                  done |-> cb.done, errs |-> cb.errs])

(* An RPC outcome that is not OK: UpdateStatus(rpc_status), then          *)
(* executor_.Cancel(), then return.                                        *)
FailCb(rpcStatus) ==
    /\ execStatus' = UpdateStatus(execStatus, rpcStatus)
    /\ execCancelled' = TRUE
    /\ FinishCb(cb.done)

(* The callback up to the RPC: exec_status = UpdateStatus(status); no     *)
(* client for coord_hostport_ records INTERNAL_ERROR and returns (without  *)
(* cancelling); otherwise the params are built and GetUnreportedErrors     *)
(* attaches the new errors and advances the watermark.                     *)
ReportStatusCbBegin(status, done) ==
    /\ cb.pc = "idle"
    /\ seq' = seq + 1
    /\ LET exec_status == UpdateStatus(execStatus, status) IN
       \/ /\ execStatus' = UpdateStatus(exec_status, "INTERNAL_ERROR")
          /\ FinishCb(done)
          /\ UNCHANGED unreportedErrorIdx
       \/ /\ execStatus' = exec_status
          /\ cb' = [pc |-> "send", seq |-> seq + 1, status |-> exec_status,
                    done |-> done, errs |-> UnreportedErrors]
          /\ GetUnreportedErrors
          /\ mainPc' = IF done THEN "reporting" ELSE mainPc
    /\ UNCHANGED <<errorLog, queryStatus, maxErrors, memExceeded, memPc, raised,
                   execCancelled, mainQs, openResult, received>>

(* The first coord->ReportExecStatus(). *)
ReportStatusCbSend ==
    /\ cb.pc = "send"
    /\ \/ /\ Deliver                         \* res.status OK
          /\ FinishCb(cb.done)
          /\ UNCHANGED <<execStatus, execCancelled>>
       \/ /\ Deliver                         \* res.status not OK
          /\ FailCb("COORD_ERROR")
       \/ /\ UNCHANGED received              \* TTransportException, request lost
          /\ cb' = [cb EXCEPT !.pc = "retry"]
          /\ UNCHANGED <<execStatus, execCancelled, mainPc>>
       \/ /\ Deliver                         \* TTransportException, response lost
          /\ cb' = [cb EXCEPT !.pc = "retry"]
          /\ UNCHANGED <<execStatus, execCancelled, mainPc>>
       \/ /\ UNCHANGED received              \* any other TException
          /\ FailCb("INTERNAL_ERROR")
    /\ UNCHANGED <<rsVars, mainQs, openResult, seq>>

(* After a transport exception: coord.Reopen(), then the same params once  *)
(* more; anything the retry throws lands in the outer catch (TException).  *)
ReportStatusCbRetry ==
    /\ cb.pc = "retry"
    /\ \/ /\ UNCHANGED received              \* Reopen() fails
          /\ FailCb("REOPEN_ERROR")
       \/ /\ Deliver                         \* retry answered OK
          /\ FinishCb(cb.done)
          /\ UNCHANGED <<execStatus, execCancelled>>
       \/ /\ Deliver                         \* retry answered not OK
          /\ FailCb("COORD_ERROR")
       \/ /\ UNCHANGED received              \* retry throws, request lost
          /\ FailCb("INTERNAL_ERROR")
       \/ /\ Deliver                         \* retry throws, response lost
          /\ FailCb("INTERNAL_ERROR")
    /\ UNCHANGED <<rsVars, mainQs, openResult, seq>>

(* The executor's reporting thread, while Open runs. *)
PeriodicReport ==
    /\ mainPc = "running"
    /\ seq < MaxReports
    /\ ReportStatusCbBegin("OK", FALSE)

(* Main, after Open returned and the reporting thread has stopped: the    *)
(* final report, carrying Open's status.                                   *)
FinalReport ==
    /\ mainPc = "final"
    /\ ReportStatusCbBegin(openResult, TRUE)

-----------------------------------------------------------------------------
(* The executor's other threads, from Open until Close.                    *)

WorkersRun == mainPc \in {"running", "checking", "final", "reporting", "reported"}

WorkerStep(w) ==
    /\ \/ /\ WorkersRun
          /\ \E e \in Errors : ThreadLogError(w, e)
       \/ /\ WorkersRun
          /\ ThreadAllocFails(w)
       \/ /\ WorkersRun
          /\ ThreadCheckQueryState(w)
       \/ SetMemLimitExceededLog(w)
    /\ UNCHANGED fesVars

Next ==
    \/ Prepare
    \/ Exec
    \/ OpenCheckQueryState
    \/ MainMemLog
    \/ OpenReturn
    \/ FinalReport
    \/ Close
    \/ PeriodicReport
    \/ ReportStatusCbSend
    \/ ReportStatusCbRetry
    \/ Cancel
    \/ \E w \in Workers : WorkerStep(w)
    \/ AncestorLimitExceeded /\ WorkersRun /\ UNCHANGED fesVars

(* Main's own steps and a thread inside SetMemLimitExceeded keep running. *)
(* ReportExecStatus is not fair: no timeout is set on the coordinator      *)
(* connection, so an RPC may never return.  The reporting timer, the      *)
(* workers' errors and allocations and the coordinator's Cancel need not  *)
(* happen either.                                                          *)
Fairness ==
    /\ WF_vars(Prepare) /\ WF_vars(Exec) /\ WF_vars(OpenCheckQueryState)
    /\ WF_vars(MainMemLog) /\ WF_vars(OpenReturn) /\ WF_vars(FinalReport)
    /\ WF_vars(Close)
    /\ \A w \in Workers : WF_vars(SetMemLimitExceededLog(w) /\ UNCHANGED fesVars)

Spec == Init /\ [][Next]_vars /\ Fairness

-----------------------------------------------------------------------------
(* Properties.                                                             *)

(* A report that reaches the coordinator with an error status carries the *)
(* fragment's first error: a later RPC failure of the reporting thread     *)
(* never leaves exec_status_ disagreeing with an error the coordinator has *)
(* already been told.                                                     *)
ReportedErrorIsFinal ==
    \A i \in DOMAIN received :
        received[i].status # "OK" => received[i].status = execStatus

(* Two different ReportStatusCb invocations never hand the coordinator the *)
(* same logged error: GetUnreportedErrors advances the watermark in the    *)
(* critical section that copies the errors.                                *)
ErrorsReportedOnce ==
    \A i, j \in DOMAIN received :
        received[i].seq # received[j].seq =>
            ToSet(received[i].errs) \cap ToSet(received[j].errs) = {}

(* The coordinator receives each ReportStatusCb invocation at most once. *)
NoReportDeliveredTwice ==
    \A i, j \in DOMAIN received : i # j => received[i].seq # received[j].seq

(* A final report saying MEM_LIMIT_EXCEEDED reaches the coordinator with  *)
(* the memory usage dump SetMemLimitExceeded logs, when the log has room.  *)
MemLimitDumpReported ==
    \A i \in DOMAIN received :
        (received[i].done /\ received[i].status = "MEM_LIMIT_EXCEEDED"
         /\ Len(errorLog) < maxErrors)
          => \E j \in DOMAIN received : MemLimitMsg \in ToSet(received[j].errs)

=============================================================================
