---------------------------- MODULE ThriftClient ----------------------------
(***************************************************************************)
(* ThriftClientImpl (be/src/rpc/thrift-client.cc): CreateSocket, Open,     *)
(* OpenWithRetry and Close of one client, used by one caller thread,       *)
(* against a server that goes down and comes back up.                      *)
(*                                                                         *)
(* An OpenWithRetry call is one step per iteration of its loop: one Open   *)
(* attempt, then return or sleep.  try_count only decides when a call with *)
(* num_tries > 0 gives up; with num_tries = 0 it only feeds the log line,  *)
(* so it is not kept there.                                                *)
(***************************************************************************)
EXTENDS Naturals

CONSTANTS
    NumTriesOptions,  \* num_tries values callers pass
    MaxOutages,       \* bound on how often the server goes down
    MaxCalls          \* bound on calls the caller makes

ASSUME NumTriesOptions \subseteq Nat /\ MaxOutages \in Nat /\ MaxCalls \in Nat

VARIABLES
    ssl,            \* ssl_
    createStatus,   \* socket_create_status_: "none" before CreateSocket
    transportOpen,  \* transport_->isOpen()
    serverUp,       \* the server accepts connections
    outages,        \* times the server went down
    callPc,         \* "idle" or "retrying" inside OpenWithRetry
    numTries,       \* num_tries of the call in progress
    tryCount,       \* try_count of the call in progress
    lastCall,       \* what the last finished OpenWithRetry returned, after how many Opens
    calls           \* calls made so far

vars == <<ssl, createStatus, transportOpen, serverUp, outages, callPc,
          numTries, tryCount, lastCall, calls>>

TypeOK ==
    /\ ssl \in BOOLEAN
    /\ createStatus \in {"none", "OK", "ERROR"}
    /\ transportOpen \in BOOLEAN
    /\ serverUp \in BOOLEAN
    /\ outages \in 0..MaxOutages
    /\ callPc \in {"idle", "retrying"}
    /\ numTries \in NumTriesOptions
    /\ tryCount \in 0..numTries
    /\ lastCall = <<>> \/ /\ DOMAIN lastCall = {1}
                          /\ lastCall[1].status \in {"OK", "ERROR"}
                          /\ lastCall[1].numTries \in NumTriesOptions
                          /\ lastCall[1].tries \in 0..lastCall[1].numTries
    /\ calls \in 0..MaxCalls

Init ==
    /\ ssl \in BOOLEAN
    /\ createStatus = "none"
    /\ transportOpen = FALSE
    /\ serverUp \in BOOLEAN
    /\ outages = 0
    /\ callPc = "idle"
    /\ numTries \in NumTriesOptions
    /\ tryCount = 0
    /\ lastCall = <<>>
    /\ calls = 0

-----------------------------------------------------------------------------
(* CreateSocket: a plain socket always succeeds; with SSL, loading the    *)
(* trusted CA certificates or creating the socket may throw, which becomes *)
(* a non-OK status.                                                        *)
CreateSocket ==
    /\ createStatus = "none"
    /\ createStatus' \in IF ssl THEN {"OK", "ERROR"} ELSE {"OK"}
    /\ UNCHANGED <<ssl, transportOpen, serverUp, outages, callPc, numTries,
                   tryCount, lastCall, calls>>

(* Open, as the value it returns: the socket's creation status if that    *)
(* failed; OK if the transport is open or opening it works; otherwise the  *)
(* TTransportException turned into an error.                               *)
OpenStatus ==
    IF createStatus # "OK" THEN "ERROR"
    ELSE IF transportOpen \/ serverUp THEN "OK"
    ELSE "ERROR"

(* Mutant: Open keeps the failure it caught in socket_create_status_. *)
Open_RememberFailure ==
    /\ transportOpen' = (transportOpen \/ (createStatus = "OK" /\ serverUp))
    /\ createStatus' = IF OpenStatus = "ERROR" THEN "ERROR" ELSE createStatus

(* Open's effect: open the transport unless it is open already; a failed  *)
(* attempt changes nothing.                                                *)
Open ==
    /\ transportOpen' = (transportOpen \/ (createStatus = "OK" /\ serverUp))
    /\ UNCHANGED createStatus

(* Mutant: try_count is not reset, it carries over from the last call. *)
StartOpenWithRetry_NoReset ==
    /\ createStatus # "none"
    /\ callPc = "idle"
    /\ calls < MaxCalls
    /\ \E n \in NumTriesOptions : numTries' = n
    /\ callPc' = "retrying"
    /\ calls' = calls + 1
    /\ UNCHANGED <<ssl, createStatus, transportOpen, serverUp, outages, lastCall,
                   tryCount>>

(* The caller calls OpenWithRetry(n, wait_ms): try_count starts at 0. *)
StartOpenWithRetry ==
    /\ createStatus # "none"
    /\ callPc = "idle"
    /\ calls < MaxCalls
    /\ \E n \in NumTriesOptions : numTries' = n
    /\ tryCount' = 0
    /\ callPc' = "retrying"
    /\ calls' = calls + 1
    /\ UNCHANGED <<ssl, createStatus, transportOpen, serverUp, outages, lastCall>>

(* After a failed Open: num_tries = 0 retries indefinitely, otherwise the *)
(* call returns when try_count reaches num_tries.                          *)
GivesUp(n, count) == n # 0 /\ count = n

(* One iteration of the loop: ++try_count, Open(); an OK status returns,   *)
(* a failure either returns or sleeps wait_ms and goes round again.        *)
OpenWithRetryStep ==
    /\ callPc = "retrying"
    /\ Open
    /\ LET count == IF numTries = 0 THEN 0 ELSE tryCount + 1
           done == OpenStatus = "OK" \/ GivesUp(numTries, count)
       IN  /\ tryCount' = count
           /\ callPc' = IF done THEN "idle" ELSE "retrying"
           /\ lastCall' = IF done
                            THEN <<[status |-> OpenStatus, tries |-> count,
                                    numTries |-> numTries]>>
                            ELSE lastCall
    /\ UNCHANGED <<ssl, serverUp, outages, numTries, calls>>

(* Close: closes the transport if there is one and it is open. *)
Close ==
    /\ callPc = "idle"
    /\ calls < MaxCalls
    /\ transportOpen' = FALSE
    /\ calls' = calls + 1
    /\ UNCHANGED <<ssl, createStatus, serverUp, outages, callPc, numTries,
                   tryCount, lastCall>>

(* The server goes down; an already open transport stays open locally.    *)
ServerDown ==
    /\ serverUp
    /\ outages < MaxOutages
    /\ serverUp' = FALSE
    /\ outages' = outages + 1
    /\ UNCHANGED <<ssl, createStatus, transportOpen, callPc, numTries, tryCount,
                   lastCall, calls>>

ServerUp ==
    /\ ~serverUp
    /\ serverUp' = TRUE
    /\ UNCHANGED <<ssl, createStatus, transportOpen, outages, callPc, numTries,
                   tryCount, lastCall, calls>>

Next ==
    \/ CreateSocket
    \/ StartOpenWithRetry
    \/ OpenWithRetryStep
    \/ Close
    \/ ServerDown
    \/ ServerUp

(* The caller's thread runs its loop; a down server comes back.            *)
Spec == Init /\ [][Next]_vars
        /\ WF_vars(CreateSocket) /\ WF_vars(OpenWithRetryStep) /\ WF_vars(ServerUp)

-----------------------------------------------------------------------------
(* A call to OpenWithRetry(0, ...) on a client whose socket was created    *)
(* returns OK once the server stays up.                                    *)
RetryForeverSucceeds ==
    (callPc = "retrying" /\ numTries = 0 /\ createStatus = "OK")
        ~> (callPc = "idle" /\ lastCall # <<>> /\ lastCall[1].status = "OK")

(* Any call to OpenWithRetry(0, ...) returns, with OK, once the server     *)
(* stays up.                                                               *)
RetryForeverReturns ==
    (callPc = "retrying" /\ numTries = 0)
        ~> (callPc = "idle" /\ lastCall # <<>> /\ lastCall[1].status = "OK")

=============================================================================
