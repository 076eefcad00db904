------------------------------ MODULE ProfileTree ------------------------------
(***************************************************************************)
(* RuntimeProfile trees (be/src/util/runtime-profile.h) as the coordinator *)
(* uses them: each fragment instance's profile is brought up to date with  *)
(* Update(thrift_profile) whenever the instance reports, and at the end    *)
(* the instance profiles are Merge()d into an averaged profile that is      *)
(* then Divide()d by the number of instances.                              *)
(*                                                                         *)
(* A profile is a record of the fields of RuntimeProfile that Update and   *)
(* Merge read or write: name_, counter_map_ (a function from counter names  *)
(* to values), info_strings_ with info_strings_display_order_,              *)
(* event_sequence_map_ (its keys), and children_ (profile, indent) whose   *)
(* names are child_map_'s keys.  A thrift tree is the pre-order sequence of *)
(* TRuntimeProfileNode that ToThrift produces, each node with its number of *)
(* children.  Only the header is in src/: the bodies of Update, Merge and   *)
(* Divide follow spec 4.A ("Merge vs Update") and the header's comments.    *)
(* Counter types, metadata and time-series counters are left out: Update    *)
(* and Merge treat every integer counter alike and never touch time series. *)
(***************************************************************************)
EXTENDS Integers, Sequences, SequencesExt

CONSTANTS
    Names,        \* profile names
    RootName,     \* name of an instance profile and of the averaged profile
    CounterNames, \* counter names
    InfoKeys,     \* info-string keys
    InfoValues,   \* info-string values
    EventKeys,    \* event-sequence keys
    NameOrder,    \* SortChildren's comparator: the order of profile names
    Instances,    \* fragment instances the coordinator keeps a profile for
    Reports,      \* profile trees the instances report (as records)
    MaxReports,   \* bound on the reports of one instance
    CounterBound, \* bound on counter values, sums included
    NoLocation,   \* AddChild's NULL location: append
    AvgChildren   \* names of children the coordinator adds to avg itself

VARIABLES
    inst,     \* each instance's profile on the coordinator
    history,  \* the reports each instance's profile has been updated with
    avg,      \* the averaged profile
    merged,   \* instances already merged into avg
    divided   \* avg has been divided by the number of instances

vars == <<inst, history, avg, merged, divided>>

-----------------------------------------------------------------------------
(* RuntimeProfile(pool, name): a profile with no counters, info strings,   *)
(* event sequences or children.                                            *)
NewProfile(n) == [name |-> n, counters |-> <<>>, infos |-> <<>>,
                  infoOrder |-> <<>>, events |-> {}, children |-> <<>>]

(* child_map_.find(n): the position of the child named n in children_, 0  *)
(* if there is none.                                                       *)
ChildPos(p, n) == SelectInSeq(p.children, LAMBDA ch : ch.prof.name = n)

(* Mutant: a new key is entered with the key and value swapped. *)
AddInfoString_SwapKeyValue(p, k, v) ==
    IF k \in DOMAIN p.infos
      THEN [p EXCEPT !.infos[k] = v]
      ELSE [p EXCEPT !.infos = (k :> k) @@ @, !.infoOrder = Append(@, k)]

(* AddInfoString: update the value of a registered key; register a new    *)
(* key at the end of the display order.                                    *)
AddInfoString(p, k, v) ==
    IF k \in DOMAIN p.infos
      THEN [p EXCEPT !.infos[k] = v]
      ELSE [p EXCEPT !.infos = (k :> v) @@ @, !.infoOrder = Append(@, k)]

(* AddEventSequence: a new sequence unless one with the key exists. *)
AddEventSequence(p, k) == [p EXCEPT !.events = @ \cup {k}]

(* AddChild(child, indent, location): entered in child_map_ under its     *)
(* name and inserted into children_ just after location, or at the end if *)
(* location is NULL (NoLocation).                                          *)
AddChild(p, child, indent, location) ==
    LET at == IF location = NoLocation THEN Len(p.children) + 1
              ELSE ChildPos(p, location) + 1
    IN  [p EXCEPT !.children = InsertAt(@, at, [prof |-> child, indent |-> indent])]

(* The child of p named n, created with AddChild(child, indent) (no       *)
(* location: at the end) if p has none.                                    *)
ChildFor(p, n, indent) ==
    IF ChildPos(p, n) = 0 THEN AddChild(p, NewProfile(n), indent, NoLocation) ELSE p

(* Mutant: Update adds the incoming values to the counters, as Merge does. *)
UpdateCounters_Add(m, incoming) ==
    [c \in DOMAIN m \cup DOMAIN incoming |->
        (IF c \in DOMAIN m THEN m[c] ELSE 0)
        + (IF c \in DOMAIN incoming THEN incoming[c] ELSE 0)]

(* Update's counters: an existing counter is set to the incoming value, a  *)
(* missing one is added (AddCounter) with it; the others are kept.         *)
UpdateCounters(m, incoming) ==
    [c \in DOMAIN m \cup DOMAIN incoming |->
        IF c \in DOMAIN incoming THEN incoming[c] ELSE m[c]]

(* Mutant: Merge overwrites the counters it finds instead of adding. *)
MergeCounters_Overwrite(m, src) ==
    [c \in DOMAIN m \cup DOMAIN src |-> IF c \in DOMAIN src THEN src[c] ELSE m[c]]

(* Merge's counters: counters with the same name are added up, a missing  *)
(* one is created with the source's value.                                 *)
MergeCounters(m, src) ==
    [c \in DOMAIN m \cup DOMAIN src |->
        (IF c \in DOMAIN m THEN m[c] ELSE 0) + (IF c \in DOMAIN src THEN src[c] ELSE 0)]

-----------------------------------------------------------------------------
(* ToThrift(nodes): the profile and its subtrees in pre-order, each node  *)
(* carrying its own counters, info strings and event sequences, its indent *)
(* flag and its number of children.                                        *)
RECURSIVE ToThrift(_, _)
ToThrift(p, indent) ==
    <<[name |-> p.name, num_children |-> Len(p.children), indent |-> indent,
       counters |-> p.counters, infos |-> p.infos, infoOrder |-> p.infoOrder,
       events |-> p.events]>>
    \o FlattenSeq([k \in DOMAIN p.children |->
                      ToThrift(p.children[k].prof, p.children[k].indent)])

(* Update(nodes, idx) of the node at idx itself: its counters, then its    *)
(* info strings matched up by key, in the node's display order.            *)
UpdateNode(p, node) ==
    FoldLeft(LAMBDA q, k : AddInfoString(q, k, node.infos[k]),
             [p EXCEPT !.counters = UpdateCounters(@, node.counters)],
             node.infoOrder)

(* Update(nodes, idx): update p from the subtree rooted at nodes[idx]; the *)
(* result is the new profile and the index just past the subtree.  Each of *)
(* the node's children is matched by name, created at the end of children_ *)
(* if missing, and updated from its own subtree.                           *)
RECURSIVE UpdateAt(_, _, _)
UpdateAt(p, nodes, idx) ==
    LET RECURSIVE Kids(_, _, _)
        Kids(q, i, k) ==
            IF k = 0 THEN [prof |-> q, next |-> i]
            ELSE LET q1  == ChildFor(q, nodes[i].name, nodes[i].indent)
                     pos == ChildPos(q1, nodes[i].name)
                     sub == UpdateAt(q1.children[pos].prof, nodes, i)
                 IN  Kids([q1 EXCEPT !.children[pos].prof = sub.prof],
                          sub.next, k - 1)
    IN  Kids(UpdateNode(p, nodes[idx]), idx + 1, nodes[idx].num_children)

(* Update(thrift_profile) *)
Update(p, nodes) == UpdateAt(p, nodes, 1).prof

(* Merge(src): add up the counters with identical paths; info strings and  *)
(* event sequences are not merged.  src's children are walked in order; a  *)
(* child missing here is created at the end of children_ with src's indent *)
(* flag, and then merged into.                                             *)
RECURSIVE Merge(_, _)
Merge(p, src) ==
    FoldLeft(LAMBDA q, ch :
                 LET q1  == ChildFor(q, ch.prof.name, ch.indent)
                     pos == ChildPos(q1, ch.prof.name)
                 IN  [q1 EXCEPT !.children[pos].prof = Merge(@, ch.prof)],
             [p EXCEPT !.counters = MergeCounters(@, src.counters)],
             src.children)

(* Divide(n): every counter of the tree divided by n. *)
RECURSIVE Divide(_, _)
Divide(p, n) ==
    [p EXCEPT !.counters = [c \in DOMAIN @ |-> @[c] \div n],
              !.children = [k \in DOMAIN @ |-> [@[k] EXCEPT !.prof = Divide(@, n)]]]

(* SortChildren(cmp): children_ sorted by cmp, here the order of names. *)
SortChildren(p) ==
    LET before(a, b) == \E i, j \in DOMAIN NameOrder :
                            i < j /\ NameOrder[i] = a.prof.name /\ NameOrder[j] = b.prof.name
    IN  [p EXCEPT !.children = SortSeq(@, before)]

-----------------------------------------------------------------------------
(* The coordinator.                                                        *)

N == Cardinality(Instances)

RECURSIVE IsProfile(_)
IsProfile(p) ==
    /\ DOMAIN p = {"name", "counters", "infos", "infoOrder", "events", "children"}
    /\ p.name \in Names
    /\ DOMAIN p.counters \subseteq CounterNames
    /\ \A c \in DOMAIN p.counters : p.counters[c] \in 0..CounterBound
    /\ DOMAIN p.infos \subseteq InfoKeys
    /\ \A k \in DOMAIN p.infos : p.infos[k] \in InfoValues
    /\ p.infoOrder \in Seq(InfoKeys)
    /\ p.events \subseteq EventKeys
    /\ \A k \in DOMAIN p.children :
          /\ p.children[k].indent \in BOOLEAN
          /\ IsProfile(p.children[k].prof)

TypeOK ==
    /\ \A i \in Instances : IsProfile(inst[i]) /\ history[i] \in Seq(Reports)
    /\ IsProfile(avg)
    /\ merged \subseteq Instances
    /\ divided \in BOOLEAN

Init ==
    /\ inst = [i \in Instances |-> NewProfile(RootName)]
    /\ history = [i \in Instances |-> <<>>]
    /\ avg = NewProfile(RootName)
    /\ merged = {}
    /\ divided = FALSE

(* A status report of instance i arrives with its profile: the instance's  *)
(* profile is updated from the thrift tree.  A report the backend retried  *)
(* after a lost response arrives again (the same r twice in a row).        *)
UpdateFromReport(i, r) ==
    /\ i \notin merged
    /\ Len(history[i]) < MaxReports
    /\ inst' = [inst EXCEPT ![i] = Update(@, ToThrift(r, TRUE))]
    /\ history' = [history EXCEPT ![i] = Append(@, r)]
    /\ UNCHANGED <<avg, merged, divided>>

(* The averaged profile takes in a finished instance's profile. *)
MergeInstance(i) ==
    /\ i \notin merged
    /\ avg' = Merge(avg, inst[i])
    /\ merged' = merged \cup {i}
    /\ UNCHANGED <<inst, history, divided>>

(* Once every instance is in, the averaged profile is divided by their    *)
(* number.                                                                 *)
DivideAverage ==
    /\ merged = Instances
    /\ ~divided
    /\ avg' = Divide(avg, N)
    /\ divided' = TRUE
    /\ UNCHANGED <<inst, history, merged>>

AvgAddInfoString(k, v) ==
    /\ avg' = AddInfoString(avg, k, v)
    /\ UNCHANGED <<inst, history, merged, divided>>

AvgAddEventSequence(k) ==
    /\ avg' = AddEventSequence(avg, k)
    /\ UNCHANGED <<inst, history, merged, divided>>

AvgSortChildren ==
    /\ avg' = SortChildren(avg)
    /\ UNCHANGED <<inst, history, merged, divided>>

(* A child profile n the coordinator adds to the averaged profile itself, *)
(* after the existing child location or at the end; location must already *)
(* be a child.                                                             *)
AvgAddChild(n, indent, location) ==
    /\ n # RootName
    /\ ChildPos(avg, n) = 0
    /\ location = NoLocation \/ ChildPos(avg, location) # 0
    /\ avg' = AddChild(avg, NewProfile(n), indent, location)
    /\ UNCHANGED <<inst, history, merged, divided>>

Next ==
    \/ \E i \in Instances, r \in Reports : UpdateFromReport(i, r)
    \/ \E i \in Instances : MergeInstance(i)
    \/ DivideAverage
    \/ \E k \in InfoKeys, v \in InfoValues : AvgAddInfoString(k, v)
    \/ \E k \in EventKeys : AvgAddEventSequence(k)
    \/ AvgSortChildren
    \/ \E n \in AvgChildren, indent \in BOOLEAN, l \in Names \cup {NoLocation} :
          AvgAddChild(n, indent, l)

Spec == Init /\ [][Next]_vars

-----------------------------------------------------------------------------
(* Reference definitions: a profile read as the set of paths to its        *)
(* counters, a path being the child names from the root down and the      *)
(* counter name.                                                           *)

RECURSIVE CounterPaths(_)
CounterPaths(p) ==
    {<<c>> : c \in DOMAIN p.counters}
    \cup UNION {{<<p.children[k].prof.name>> \o x : x \in CounterPaths(p.children[k].prof)}
                : k \in DOMAIN p.children}

RECURSIVE CounterAt(_, _)
CounterAt(p, x) ==
    IF Len(x) = 1 THEN p.counters[x[1]]
    ELSE CounterAt(p.children[ChildPos(p, x[1])].prof, Tail(x))

(* The value at path x in the last of the reports h that has x. *)
LatestValue(h, x) == CounterAt(h[SelectLastInSeq(h, LAMBDA r : x \in CounterPaths(r))], x)

(* The sum at path x over the instances in S that have x. *)
SumAt(S, x) ==
    FoldFunctionOnSet(+, 0,
        [i \in Instances |-> IF x \in CounterPaths(inst[i]) THEN CounterAt(inst[i], x) ELSE 0],
        S)

(* A profile's counters as a map from counter paths to values. *)
PathValues(p) == [x \in CounterPaths(p) |-> CounterAt(p, x)]

PC == INSTANCE ProfileCounters
        WITH vals <- [i \in Instances |-> PathValues(inst[i])],
             avgVals <- PathValues(avg),
             ReportMaps <- {PathValues(r) : r \in Reports}

-----------------------------------------------------------------------------
(* Properties.                                                             *)

(* Update replaces: after any sequence of reports, retried duplicates     *)
(* included, an instance profile has exactly the counter paths the reports *)
(* carried, each with the value of the latest report that carried it; a    *)
(* counter a later report leaves out keeps its earlier value.              *)
CountersAreLatest ==
    \A i \in Instances :
        /\ CounterPaths(inst[i]) = UNION {CounterPaths(r) : r \in ToSet(history[i])}
        /\ \A x \in CounterPaths(inst[i]) : CounterAt(inst[i], x) = LatestValue(history[i], x)

(* The tree implements the path-to-value view of its counters: every     *)
(* report's Update overrides exactly the values the report carries and     *)
(* keeps the rest, every Merge adds an instance path by path into the      *)
(* average whatever the order of the merges (spec invariant 2), Divide     *)
(* divides every value once after all instances are in, and AddInfoString, *)
(* AddEventSequence, SortChildren and AddChild change no counter, wherever *)
(* AddChild puts a child that a later Merge then finds by name.           *)
ImplementsProfileCounters == PC!Spec

=============================================================================
