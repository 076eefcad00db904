------------------------ MODULE MC_FragmentExecState ------------------------
(* One fragment instance: Main and one worker thread, two errors, up to two *)
(* periodic reports besides the final one.                                  *)
EXTENDS FragmentExecState

CONSTANTS m, w1, e1, e2, dump

MCWorkers == {w1}
MCThreads == {m, w1}
MCErrors == {e1, e2}
=============================================================================
