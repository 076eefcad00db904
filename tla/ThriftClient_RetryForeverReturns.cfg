\* One client, num_tries of 0 (retry indefinitely) or 2, a server that goes
\* down at most twice, three calls from the caller.
CONSTANTS
    NumTriesOptions = {0, 2}
    MaxOutages = 2
    MaxCalls = 3
SPECIFICATION Spec
PROPERTY RetryForeverReturns
\* The caller stops after MaxCalls calls and the server stays up after its
\* last outage: the client then has nothing left to do.
CHECK_DEADLOCK FALSE
