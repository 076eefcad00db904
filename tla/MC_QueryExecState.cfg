\* Two fetch threads (they contend for fetch_rows_lock_), one cancel
\* request, two fetches each and two batches: enough for a fetch to block
\* on the coordinator while the other fetcher and the cancel wait.  A
\* statement with child queries has two (COMPUTE STATS runs a table and a
\* column statistics query), so a cancel can fall between them.
CONSTANTS
    f1 = f1
    f2 = f2
    c = c
    Fetchers <- MCFetchers
    Canceller = c
    MaxFetches = 2
    MaxBatches = 2
    RefCountBits = 4
    NumChildren = 2
SPECIFICATION Spec
INVARIANTS
    TypeOK
    WaitOkMeansAllChildrenRan
PROPERTIES
    CancelCompletes
\* The clients stop after their requests, and the coordinator may hang.
CHECK_DEADLOCK FALSE
