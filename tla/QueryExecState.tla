--------------------------- MODULE QueryExecState ---------------------------
(***************************************************************************)
(* ImpalaServer::QueryExecState (be/src/service/query-exec-state.h), as    *)
(* its header describes it: client fetch threads and a cancel request      *)
(* working on one query while its coordinator produces row batches.        *)
(*                                                                         *)
(* Only the header is in src/.  Its comments fix the locking protocol:    *)
(* a fetch holds fetch_rows_lock_ and lock_ around FetchRows, and          *)
(* FetchNextBatch releases lock_ while it blocks on the coordinator;       *)
(* Cancel runs under lock_; expiration_data_lock_ is the last lock and is  *)
(* held only inside MarkActive, MarkInactive and is_active, so each of     *)
(* those is one step.  A request marks the query active before it works    *)
(* on it and inactive after (the ImpalaServer handlers, not in src/).     *)
(* A step that takes lock_, changes what it protects and releases it is    *)
(* one step.                                                               *)
(*                                                                         *)
(* A statement with child queries (COMPUTE STATS, a DDL statement, so     *)
(* coord_ is not set) runs them on child_queries_thread_, one after the   *)
(* other, while Wait() joins that thread in WaitForChildQueries.  Fetching *)
(* such a statement's request_result_set_ does not touch a coordinator and *)
(* is left out.                                                            *)
(***************************************************************************)
EXTENDS Naturals, Sequences, SequencesExt

CONSTANTS
    Fetchers,     \* client threads calling FetchRows
    Canceller,    \* the thread serving a cancel request
    MaxFetches,   \* bound on fetch requests per fetcher
    MaxBatches,   \* bound on row batches the coordinator produces
    RefCountBits, \* width of ref_count_ (32 in the build)
    NumChildren   \* child queries of a statement that has them

Threads == Fetchers \cup {Canceller}
NoOwner == "none"
Locks == {"fetch_rows_lock_", "lock_"}

(* ref_count_ is a uint32_t: arithmetic modulo 2^RefCountBits. *)
RefCountMod == 2^RefCountBits

VARIABLES
    owner,        \* the thread holding each of the two locks
    pc,           \* per thread: where it is in its request
    outcome,      \* per fetcher: what the coordinator returned to FetchNextBatch
    refCount,     \* ref_count_
    queryState,   \* query_state_
    queryStatus,  \* query_status_
    eos,          \* eos_
    coordState,   \* the coordinator: none (coord_ not set), running,
                  \* batch_ready, done, failed, cancelled
    batches,      \* row batches the coordinator has produced
    fetches,      \* per fetcher: fetch requests made
    childPc,      \* child_queries_thread_: none, unstarted, running, finished
    childResults, \* history: the results of the child queries run, in order
    childStatus,  \* child_queries_status_
    waitPc,       \* the thread in Wait(): idle, waiting, returned
    waitResult    \* what WaitForChildQueries returned

childVars == <<childPc, childResults, childStatus, waitPc, waitResult>>

vars == <<owner, pc, outcome, refCount, queryState, queryStatus, eos,
          coordState, batches, fetches, childVars>>

FetcherPcs == {"idle", "frl", "lock", "wait", "relock", "inactive"}
CancelPcs == {"idle", "lock", "inactive", "done"}
Outcomes == {"batch_ready", "done", "failed", "cancelled"}
ChildOutcomes == {"OK", "EXEC_ERROR"}

(* beeswax::QueryState, in the order of its enum values. *)
StateRank == [RUNNING |-> 0, FINISHED |-> 1, EXCEPTION |-> 2]

TypeOK ==
    /\ owner \in [Locks -> Threads \cup {NoOwner}]
    /\ \A f \in Fetchers : pc[f] \in FetcherPcs
    /\ pc[Canceller] \in CancelPcs
    /\ outcome \in [Fetchers -> Outcomes \cup {"none"}]
    /\ refCount \in 0..RefCountMod - 1
    /\ queryState \in DOMAIN StateRank
    /\ queryStatus \in {"OK", "EXEC_ERROR", "CANCELLED"}
    /\ eos \in BOOLEAN
    /\ coordState \in {"none", "running"} \cup Outcomes
    /\ batches \in 0..MaxBatches
    /\ fetches \in [Fetchers -> 0..MaxFetches]
    /\ childPc \in {"none", "unstarted", "running", "finished"}
    /\ childResults \in Seq(ChildOutcomes) /\ Len(childResults) <= NumChildren
    /\ childStatus \in ChildOutcomes
    /\ waitPc \in {"idle", "waiting", "returned"}
    /\ waitResult \in {"none", "OK", "CANCELLED"} \cup ChildOutcomes

Init ==
    /\ owner = [l \in Locks |-> NoOwner]
    /\ pc = [t \in Threads |-> "idle"]
    /\ outcome = [f \in Fetchers |-> "none"]
    /\ refCount = 0
    /\ queryState = "RUNNING"
    /\ queryStatus = "OK"
    /\ eos = FALSE
    /\ batches = 0
    /\ fetches = [f \in Fetchers |-> 0]
    \* a query with a coordinator, or a statement with child queries
    /\ \/ coordState = "running" /\ childPc = "none"
       \/ coordState = "none" /\ childPc = "unstarted"
    /\ childResults = <<>>
    /\ childStatus = "OK"
    /\ waitPc = "idle"
    /\ waitResult = "none"

-----------------------------------------------------------------------------
(* MarkActive: ++ref_count_ under expiration_data_lock_. *)
MarkActive == refCount' = (refCount + 1) % RefCountMod

(* MarkInactive: --ref_count_ under expiration_data_lock_. *)
MarkInactive == refCount' = (refCount - 1) % RefCountMod

(* UpdateQueryStatus: no change once query_status_ is not OK. *)
UpdateQueryStatus(s) == queryStatus' = IF queryStatus = "OK" THEN s ELSE queryStatus

(* UpdateQueryState: no change if the requested state is already obsolete. *)
UpdateQueryState(s) ==
    queryState' = IF StateRank[queryState] < StateRank[s] THEN s ELSE queryState

Acquire(t, l) == /\ owner[l] \in {NoOwner, t}
                 /\ owner' = [owner EXCEPT ![l] = t]

(* A client request on the query: MarkActive, then take fetch_rows_lock_. *)
FetchStart(f) ==
    /\ pc[f] = "idle"
    /\ coordState # "none"
    /\ fetches[f] < MaxFetches
    /\ MarkActive
    /\ fetches' = [fetches EXCEPT ![f] = @ + 1]
    /\ pc' = [pc EXCEPT ![f] = "frl"]
    /\ UNCHANGED <<owner, outcome, queryState, queryStatus, eos, coordState, batches,
                   childVars>>

AcquireFetchRowsLock(f) ==
    /\ pc[f] = "frl"
    /\ Acquire(f, "fetch_rows_lock_")
    /\ pc' = [pc EXCEPT ![f] = "lock"]
    /\ UNCHANGED <<outcome, refCount, queryState, queryStatus, eos, coordState,
                   batches, fetches, childVars>>

(* Mutant: FetchNextBatch blocks on the coordinator holding lock_. *)
FetchNextBatch_KeepsLock(f) == owner' = [owner EXCEPT !["lock_"] = f]

(* FetchNextBatch: lock_ is released while it blocks. *)
FetchNextBatch(f) == owner' = [owner EXCEPT !["lock_"] = NoOwner]

(* The caller takes lock_ and checks eos_; FetchRows then calls            *)
(* FetchNextBatch, which releases lock_ and waits on the coordinator.      *)
(* At eos the request returns without fetching.                            *)
FetchRowsBegin(f) ==
    /\ pc[f] = "lock"
    /\ owner["lock_"] = NoOwner
    /\ IF eos
         THEN /\ owner' = [owner EXCEPT !["fetch_rows_lock_"] = NoOwner]
              /\ pc' = [pc EXCEPT ![f] = "inactive"]
         ELSE /\ FetchNextBatch(f)
              /\ pc' = [pc EXCEPT ![f] = "wait"]
    /\ UNCHANGED <<outcome, refCount, queryState, queryStatus, eos, coordState,
                   batches, fetches, childVars>>

(* Mutant: GetNext returns without waiting for the coordinator. *)
CoordReturns_NoWait == TRUE

(* The coordinator's GetNext returns: a batch, the end, an error, or the   *)
(* cancellation.                                                           *)
CoordReturns == coordState # "running"

Wake(f) ==
    /\ pc[f] = "wait"
    /\ CoordReturns
    /\ outcome' = [outcome EXCEPT ![f] = coordState]
    /\ coordState' = IF coordState = "batch_ready" THEN "running" ELSE coordState
    /\ pc' = [pc EXCEPT ![f] = "relock"]
    /\ UNCHANGED <<owner, refCount, queryState, queryStatus, eos, batches, fetches,
                   childVars>>

(* FetchNextBatch takes lock_ back; FetchRows applies the result (eos at   *)
(* the end; on an error or a cancellation, UpdateQueryStatus and state     *)
(* EXCEPTION); the caller releases lock_ and fetch_rows_lock_.             *)
FetchRowsEnd(f) ==
    /\ pc[f] = "relock"
    /\ owner["lock_"] \in {NoOwner, f}
    /\ owner' = [l \in Locks |-> NoOwner]
    /\ eos' = (eos \/ outcome[f] = "done")
    /\ CASE outcome[f] = "done" -> UpdateQueryState("FINISHED") /\ UNCHANGED queryStatus
         [] outcome[f] = "failed" -> UpdateQueryState("EXCEPTION") /\ UpdateQueryStatus("EXEC_ERROR")
         [] outcome[f] = "cancelled" -> UpdateQueryState("EXCEPTION") /\ UpdateQueryStatus("CANCELLED")
         [] OTHER -> UNCHANGED <<queryState, queryStatus>>
    /\ pc' = [pc EXCEPT ![f] = "inactive"]
    /\ UNCHANGED <<outcome, refCount, coordState, batches, fetches, childVars>>

(* The request is over: MarkInactive. *)
FetchEnd(f) ==
    /\ pc[f] = "inactive"
    /\ MarkInactive
    /\ pc' = [pc EXCEPT ![f] = "idle"]
    /\ UNCHANGED <<owner, outcome, queryState, queryStatus, eos, coordState,
                   batches, fetches, childVars>>

(* A cancel request: MarkActive. *)
CancelStart ==
    /\ pc[Canceller] = "idle"
    /\ MarkActive
    /\ pc' = [pc EXCEPT ![Canceller] = "lock"]
    /\ UNCHANGED <<owner, outcome, queryState, queryStatus, eos, coordState,
                   batches, fetches, childVars>>

(* Cancel(cause) under lock_: nothing at eos; otherwise state EXCEPTION    *)
(* and the coordinator is cancelled with the cause, which its GetNext then *)
(* returns to a waiting fetch.                                             *)
Cancel ==
    /\ pc[Canceller] = "lock"
    /\ owner["lock_"] = NoOwner
    /\ IF eos
         THEN UNCHANGED <<queryState, coordState>>
         ELSE /\ queryState' = "EXCEPTION"
              /\ coordState' = IF coordState \in {"running", "batch_ready"}
                                 THEN "cancelled" ELSE coordState
    /\ pc' = [pc EXCEPT ![Canceller] = "inactive"]
    /\ UNCHANGED <<owner, outcome, refCount, queryStatus, eos, batches, fetches,
                   childVars>>

CancelEnd ==
    /\ pc[Canceller] = "inactive"
    /\ MarkInactive
    /\ pc' = [pc EXCEPT ![Canceller] = "done"]
    /\ UNCHANGED <<owner, outcome, queryState, queryStatus, eos, coordState,
                   batches, fetches, childVars>>

(* The coordinator produces a batch, reaches the end, or fails. *)
CoordStep ==
    /\ coordState = "running"
    /\ \/ batches < MaxBatches /\ coordState' = "batch_ready" /\ batches' = batches + 1
       \/ coordState' = "done" /\ UNCHANGED batches
       \/ coordState' = "failed" /\ UNCHANGED batches
    /\ UNCHANGED <<owner, pc, outcome, refCount, queryState, queryStatus, eos, fetches,
                   childVars>>

(* The parent query has been cancelled: Cancel set query_state_ to        *)
(* EXCEPTION.                                                              *)
ParentCancelled == queryState = "EXCEPTION"

childRest == <<owner, pc, outcome, refCount, queryState, queryStatus, eos,
               coordState, batches, fetches>>

(* Exec: ExecChildQueriesAsync starts child_queries_thread_. *)
ExecChildQueriesAsync ==
    /\ childPc = "unstarted"
    /\ childPc' = "running"
    /\ UNCHANGED <<childResults, childStatus, waitPc, waitResult>>
    /\ UNCHANGED childRest

(* ExecChildQueries runs the children serially: while child_queries_status_ *)
(* is OK and the parent is not cancelled, the next child's ExecAndWait,     *)
(* whose status becomes child_queries_status_.                              *)
ExecChildQuery ==
    /\ childPc = "running"
    /\ Len(childResults) < NumChildren
    /\ childStatus = "OK"
    /\ ~ParentCancelled
    /\ \E r \in ChildOutcomes : childResults' = Append(childResults, r) /\ childStatus' = r
    /\ UNCHANGED <<childPc, waitPc, waitResult>>
    /\ UNCHANGED childRest

(* ExecChildQueries returns: every child ran, one failed ("abort on the     *)
(* first error"), or the parent was cancelled (the remaining children are  *)
(* not executed).                                                          *)
ChildQueriesFinish ==
    /\ childPc = "running"
    /\ \/ Len(childResults) = NumChildren
       \/ childStatus # "OK"
       \/ ParentCancelled
    /\ childPc' = "finished"
    /\ UNCHANGED <<childResults, childStatus, waitPc, waitResult>>
    /\ UNCHANGED childRest

(* Wait(), which must be preceded by Exec(). *)
WaitStart ==
    /\ waitPc = "idle"
    /\ childPc # "unstarted"
    /\ waitPc' = "waiting"
    /\ UNCHANGED <<childPc, childResults, childStatus, waitResult>>
    /\ UNCHANGED childRest

(* Mutant: a cancelled parent is not reported, only the children's status. *)
WaitForChildQueries_IgnoresCancel ==
    /\ waitPc = "waiting"
    /\ childPc \in {"none", "finished"}
    /\ waitResult' = IF childPc = "none" THEN "OK" ELSE childStatus
    /\ waitPc' = "returned"
    /\ UNCHANGED <<childPc, childResults, childStatus>>
    /\ UNCHANGED childRest

(* WaitForChildQueries: OK if child_queries_thread_ is not set; otherwise  *)
(* it joins the thread and returns the failed child's status, or a         *)
(* cancellation if the parent was cancelled, or OK.                        *)
WaitForChildQueries ==
    /\ waitPc = "waiting"
    /\ childPc \in {"none", "finished"}
    /\ waitResult' = CASE childPc = "none" -> "OK"
                       [] childStatus # "OK" -> childStatus
                       [] ParentCancelled -> "CANCELLED"
                       [] OTHER -> "OK"
    /\ waitPc' = "returned"
    /\ UNCHANGED <<childPc, childResults, childStatus>>
    /\ UNCHANGED childRest

FetcherStep(f) ==
    \/ FetchStart(f)
    \/ AcquireFetchRowsLock(f)
    \/ FetchRowsBegin(f)
    \/ Wake(f)
    \/ FetchRowsEnd(f)
    \/ FetchEnd(f)

Next ==
    \/ \E f \in Fetchers : FetcherStep(f)
    \/ CancelStart \/ Cancel \/ CancelEnd
    \/ CoordStep
    \/ ExecChildQueriesAsync \/ ExecChildQuery \/ ChildQueriesFinish
    \/ WaitStart \/ WaitForChildQueries

(* A thread that is inside a request runs it to the end; new requests and *)
(* the coordinator's progress are not assumed (a query may hang).          *)
Spec == Init /\ [][Next]_vars
        /\ \A f \in Fetchers :
              WF_vars(AcquireFetchRowsLock(f) \/ FetchRowsBegin(f) \/ Wake(f)
                      \/ FetchRowsEnd(f) \/ FetchEnd(f))
        /\ WF_vars(Cancel \/ CancelEnd)

-----------------------------------------------------------------------------
(* A cancel request completes even while a fetch is blocked on a           *)
(* coordinator that never produces another batch.                          *)
CancelCompletes ==
    pc[Canceller] = "lock" ~> pc[Canceller] = "done"

(* WaitForChildQueries reports success only when every child query ran    *)
(* and succeeded: a Cancel that stops the child thread between two         *)
(* children is reported as a failure, not as a statement that completed.   *)
WaitOkMeansAllChildrenRan ==
    (waitPc = "returned" /\ waitResult = "OK" /\ childPc # "none")
        => /\ Len(childResults) = NumChildren
           /\ \A i \in DOMAIN childResults : childResults[i] = "OK"

=============================================================================
