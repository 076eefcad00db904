---------------------------- MODULE MC_ProfileTree ----------------------------
(* Two instances whose reports have a root and up to two children, scan and *)
(* exch, with counters rows and time and info strings k1, k2.  R2 lists the *)
(* children in the other order and overwrites R3's k1; R3 leaves rows out   *)
(* at the root.  The exchange child is added without indentation.          *)
EXTENDS ProfileTree

CONSTANTS root, scan, exch, rows, time, k1, k2, v1, v2, ev, i1, i2

Node(n, ctrs, infos, order, kids) ==
    [name |-> n, counters |-> ctrs, infos |-> infos, infoOrder |-> order,
     events |-> {}, children |-> [k \in DOMAIN kids |-> [prof |-> kids[k], indent |-> kids[k].name # exch]]]

Leaf(n, ctrs) == Node(n, ctrs, <<>>, <<>>, <<>>)

R1 == Node(root, rows :> 1, <<>>, <<>>, <<Leaf(scan, rows :> 1)>>)
R2 == Node(root, rows :> 2 @@ time :> 1, k1 :> v2, <<k1>>,
           <<Leaf(exch, time :> 1), Leaf(scan, rows :> 2)>>)
R3 == Node(root, time :> 2, k2 :> v1 @@ k1 :> v1, <<k2, k1>>,
           <<Leaf(exch, rows :> 1)>>)

MCNames == {root, scan, exch}
MCCounterNames == {rows, time}
MCInfoKeys == {k1, k2}
MCInfoValues == {v1, v2}
MCNameOrder == <<root, scan, exch>>
MCInstances == {i1, i2}
MCReports == {R1, R2, R3}

=============================================================================
