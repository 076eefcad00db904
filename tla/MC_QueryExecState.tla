-------------------------- MODULE MC_QueryExecState --------------------------
EXTENDS QueryExecState

CONSTANTS f1, f2, c

MCFetchers == {f1, f2}

=============================================================================
