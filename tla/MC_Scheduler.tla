---------------------------- MODULE MC_Scheduler ----------------------------
(* Three backends: b1 and b2 share node A, b3 runs alone on node B.  A data *)
(* location is node A or B by hostname or by IP, or a host with no backend. *)
EXTENDS Scheduler

CONSTANTS b1, b2, b3

MCBackends == {b1, b2, b3}
MCHostname == (b1 :> "hostA" @@ b2 :> "hostA" @@ b3 :> "hostB")
MCIpOf == (b1 :> "10.0.0.1" @@ b2 :> "10.0.0.1" @@ b3 :> "10.0.0.2")
MCBackendOrder == <<b1, b2, b3>>
MCEntryOrder == <<"10.0.0.1", "10.0.0.2">>
MCLocations == {"hostA", "10.0.0.1", "hostB", "hostD"}

=============================================================================
