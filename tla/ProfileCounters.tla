--------------------------- MODULE ProfileCounters ---------------------------
(***************************************************************************)
(* What the counters of RuntimeProfile's Update, Merge and Divide promise   *)
(* the coordinator, with the tree left out: each instance's profile is a    *)
(* map from counter paths to values, a report overrides the values it       *)
(* carries and keeps the rest, merging adds an instance's map into the      *)
(* average path by path, and dividing divides every value once all          *)
(* instances are in.                                                        *)
(***************************************************************************)
EXTENDS Integers, FiniteSets, TLC

CONSTANTS Instances,   \* fragment instances reporting to the coordinator
          ReportMaps   \* the counter maps a status report can carry

VARIABLES vals,     \* instance -> its counter map
          avgVals,  \* the averaged profile's counter map
          merged,   \* instances merged into the average
          divided   \* whether the average has been divided

vars == <<vals, avgVals, merged, divided>>

EmptyMap == [x \in {} |-> 0]

(* The value of map m at x, 0 where m has none. *)
ValueOr0(m, x) == IF x \in DOMAIN m THEN m[x] ELSE 0

Init ==
    /\ vals = [i \in Instances |-> EmptyMap]
    /\ avgVals = EmptyMap
    /\ merged = {}
    /\ divided = FALSE

Report(i, m) ==
    /\ i \notin merged
    /\ vals' = [vals EXCEPT ![i] = m @@ @]
    /\ UNCHANGED <<avgVals, merged, divided>>

MergeIn(i) ==
    /\ i \notin merged
    /\ avgVals' = [x \in DOMAIN avgVals \cup DOMAIN vals[i] |->
                     ValueOr0(avgVals, x) + ValueOr0(vals[i], x)]
    /\ merged' = merged \cup {i}
    /\ UNCHANGED <<vals, divided>>

DivideAll ==
    /\ merged = Instances
    /\ ~divided
    /\ avgVals' = [x \in DOMAIN avgVals |-> avgVals[x] \div Cardinality(Instances)]
    /\ divided' = TRUE
    /\ UNCHANGED <<vals, merged>>

Next ==
    \/ \E i \in Instances, m \in ReportMaps : Report(i, m)
    \/ \E i \in Instances : MergeIn(i)
    \/ DivideAll

Spec == Init /\ [][Next]_vars

=============================================================================
