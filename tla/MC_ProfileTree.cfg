\* Up to two reports per instance out of three trees: retried duplicates,
\* reports that add a child, reorder children or leave a counter out, and
\* both merge orders; the averaged profile may get a child of its own,
\* before or after the merged ones.
CONSTANTS
    root = root
    scan = scan
    exch = exch
    rows = rows
    time = time
    k1 = k1
    k2 = k2
    v1 = v1
    v2 = v2
    ev = ev
    i1 = i1
    i2 = i2
    Names <- MCNames
    RootName = root
    CounterNames <- MCCounterNames
    InfoKeys <- MCInfoKeys
    InfoValues <- MCInfoValues
    EventKeys = {ev}
    NameOrder <- MCNameOrder
    Instances <- MCInstances
    Reports <- MCReports
    MaxReports = 2
    CounterBound = 4
    NoLocation = NoLocation
    AvgChildren = {exch}
SPECIFICATION Spec
INVARIANTS
    TypeOK
    CountersAreLatest
PROPERTIES
    ImplementsProfileCounters
