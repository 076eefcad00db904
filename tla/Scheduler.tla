------------------------------ MODULE Scheduler ------------------------------
(***************************************************************************)
(* SimpleScheduler (be/src/statestore/simple-scheduler.h): the backend     *)
(* maps the membership callback rebuilds, and the assignment of a data     *)
(* location to a backend by locality, then round-robin.                    *)
(*                                                                         *)
(* Only the header is in src/: its fields and the inline HasLocalBackend.  *)
(* UpdateMembership and GetBackend follow spec 4.D and the header's field  *)
(* comments.  backend_map_ maps a node's IP to the list of its backends;   *)
(* backend_ip_map_ maps a hostname to its IP; next_nonlocal_backend_entry_ *)
(* is an iterator over backend_map_'s entries, here an index into the      *)
(* entries in the map's iteration order (EntryOrder).  Every operation     *)
(* holds backend_map_lock_ throughout, so each is one step.                *)
(***************************************************************************)
EXTENDS Integers, Sequences, SequencesExt

CONSTANTS
    Backends,     \* backend ids
    Hostname,     \* each backend's node's hostname
    IpOf,         \* each backend's node's IP address
    BackendOrder, \* the order in which a rebuild lists a node's backends
    EntryOrder,   \* the iteration order of backend_map_'s keys (all IPs)
    Locations,    \* data locations: hostnames, IPs, and unknown hosts
    MaxAssign,    \* bound on assignments
    MaxDeltas     \* bound on membership deltas

IPs == Range(EntryOrder)
Names == {Hostname[b] : b \in Backends}

NoIp == "none"

VARIABLES
    membership,   \* current_membership_
    backendMap,   \* backend_map_: IP -> list of backends, <<>> if absent
    ipMap,        \* backend_ip_map_: hostname -> IP, NoIp if absent
    nextEntry,    \* next_nonlocal_backend_entry_: index into Entries
    assignments,  \* total_assignments
    local,        \* total_local_assignments
    last,         \* the last assignment: location, backend, local or not
    sinceDelta,   \* non-local assignments per backend since the last delta
    deltas        \* membership deltas so far

vars == <<membership, backendMap, ipMap, nextEntry, assignments, local, last,
          sinceDelta, deltas>>

(* backend_map_'s entries, in iteration order. *)
Entries == SelectSeq(EntryOrder, LAMBDA ip : backendMap[ip] # <<>>)

NoAssignment == [loc |-> NoIp, backend |-> NoIp, local |-> FALSE]

TypeOK ==
    /\ membership \subseteq Backends
    /\ backendMap \in [IPs -> Seq(Backends)]
    /\ ipMap \in [Names -> IPs \cup {NoIp}]
    /\ nextEntry \in 1..Len(EntryOrder) + 1
    /\ assignments \in 0..MaxAssign
    /\ local \in 0..assignments
    /\ last \in {NoAssignment} \cup
                [loc : Locations, backend : Backends, local : BOOLEAN]
    /\ sinceDelta \in [Backends -> 0..MaxAssign]
    /\ deltas \in 0..MaxDeltas

-----------------------------------------------------------------------------
(* The maps as UpdateMembership rebuilds them from a membership. *)
MapOf(m) == [ip \in IPs |-> SelectSeq(BackendOrder, LAMBDA b : b \in m /\ IpOf[b] = ip)]

(* Mutant: backend_ip_map_ records the backend's hostname as its address. *)
IpMapOf_UsesHostname(m) == [n \in Names |-> IF \E b \in m : Hostname[b] = n
                                               THEN n ELSE NoIp]

IpMapOf(m) == [n \in Names |-> IF \E b \in m : Hostname[b] = n
                                  THEN IpOf[CHOOSE b \in m : Hostname[b] = n]
                                  ELSE NoIp]

Init ==
    /\ membership \in {{}, Backends}
    /\ backendMap = MapOf(membership)
    /\ ipMap = IpMapOf(membership)
    /\ nextEntry = 1
    /\ assignments = 0
    /\ local = 0
    /\ last = NoAssignment
    /\ sinceDelta = [b \in Backends |-> 0]
    /\ deltas = 0

(* The rebuild sets next_nonlocal_backend_entry_ back to begin() (spec   *)
(* 4.D; UpdateMembership's body is not in src/).                          *)
ResetIterator == nextEntry' = 1

(* The membership callback applies a topic delta: backends join and leave. *)
UpdateMembership ==
    /\ deltas < MaxDeltas
    /\ \E joined \in SUBSET (Backends \ membership), left \in SUBSET membership :
          /\ joined \cup left # {}
          /\ membership' = (membership \cup joined) \ left
    /\ backendMap' = MapOf(membership')
    /\ ipMap' = IpMapOf(membership')
    /\ ResetIterator
    /\ sinceDelta' = [b \in Backends |-> 0]
    /\ deltas' = deltas + 1
    /\ UNCHANGED <<assignments, local, last>>

(* Mutant: hostnames are not resolved through backend_ip_map_. *)
LocalEntry_NoIpMap(loc) ==
    IF loc \in IPs /\ backendMap[loc] # <<>> THEN loc ELSE NoIp

(* The entry holding the backends local to loc: loc itself if it is a key, *)
(* otherwise the IP backend_ip_map_ resolves it to; NoIp if neither.       *)
LocalEntry(loc) ==
    IF loc \in IPs /\ backendMap[loc] # <<>> THEN loc
    ELSE IF loc \in Names /\ ipMap[loc] # NoIp /\ backendMap[ipMap[loc]] # <<>>
         THEN ipMap[loc]
         ELSE NoIp

(* HasLocalBackend, as the header defines it: backend_map_.find(hostname). *)
HasLocalBackend(loc) == loc \in IPs /\ backendMap[loc] # <<>>

(* Mutant: the iterator is not advanced past the entry it used. *)
Advance_Missing(i) == i

(* ++next_nonlocal_backend_entry_ *)
Advance(i) == i + 1

(* GetBackend(loc): a local entry if there is one; otherwise the entry at  *)
(* the round-robin iterator, wrapping at end().  The entry's first backend *)
(* is chosen and moved to the back of its list.                            *)
GetBackend(loc) ==
    /\ assignments < MaxAssign
    /\ Entries # <<>>
    /\ LET isLocal == LocalEntry(loc) # NoIp
           pos     == IF nextEntry > Len(Entries) THEN 1 ELSE nextEntry
           entry   == IF isLocal THEN LocalEntry(loc) ELSE Entries[pos]
           b       == Head(backendMap[entry])
       IN  /\ backendMap' = [backendMap EXCEPT ![entry] = Tail(@) \o <<Head(@)>>]
           /\ nextEntry' = IF isLocal THEN nextEntry ELSE Advance(pos)
           /\ assignments' = assignments + 1
           /\ local' = IF isLocal THEN local + 1 ELSE local
           /\ last' = [loc |-> loc, backend |-> b, local |-> isLocal]
           /\ sinceDelta' = IF isLocal THEN sinceDelta
                            ELSE [sinceDelta EXCEPT ![b] = @ + 1]
    /\ UNCHANGED <<membership, ipMap, deltas>>

Next ==
    \/ UpdateMembership
    \/ \E loc \in Locations : GetBackend(loc)

Spec == Init /\ [][Next]_vars

-----------------------------------------------------------------------------
(* Non-local assignments since the last delta that went to the backends of *)
(* the entry for ip.                                                       *)
EntryLoad(ip) == FoldFunctionOnSet(+, 0, sinceDelta, {b \in Backends : IpOf[b] = ip})

(* An assignment is local exactly when a live backend runs on the node the *)
(* location names, by hostname or by IP, and a local assignment goes to    *)
(* such a backend; every assignment goes to a live backend.                *)
LocalityRespected ==
    [][assignments' = assignments + 1 =>
         /\ last'.backend \in membership
         /\ last'.local <=> \E b \in membership : last'.loc \in {Hostname[b], IpOf[b]}
         /\ last'.local => last'.loc \in {Hostname[last'.backend], IpOf[last'.backend]}
      ]_vars

(* Since the last membership delta, the non-local assignments are spread   *)
(* over backend_map_'s entries so that no two entries' totals differ by    *)
(* more than one.                                                          *)
NonLocalRoundRobinBalanced ==
    \A e1, e2 \in Range(Entries) : EntryLoad(e1) - EntryLoad(e2) <= 1

(* Round-robin fairness over backends (spec invariant 7): since the last   *)
(* delta, no live backend has had two more non-local assignments than      *)
(* another.                                                                *)
PerBackendRoundRobinFair ==
    \A b1, b2 \in membership : sinceDelta[b1] - sinceDelta[b2] <= 1

=============================================================================
