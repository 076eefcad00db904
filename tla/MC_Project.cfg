\* Digits 0 and 1, INT_MAX = 10, two source columns of types int and str,
\* two tuple values.
CONSTANTS
    int = int
    str = str
    v1 = v1
    v2 = v2
    Digits = {"0", "1"}
    INT_MAX = 10
    Columns = 2
    SrcSchema <- MCSrcSchema
    Values = {v1, v2}
    Projections <- MCProjections
SPECIFICATION Spec
INVARIANTS TypeOK ParseMatchesReference InitOutcomeMatchesConfig MapCopiesNamedColumns
\* A configuration init rejects ends the operator's life.
CHECK_DEADLOCK FALSE
