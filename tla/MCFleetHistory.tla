---------------------------- MODULE MCFleetHistory ---------------------------
(* Two boxes of one region, one of which may be on its second life. *)
EXTENDS FleetHistory

OneRegion == [h \in Hosts |-> "east"]
=============================================================================
