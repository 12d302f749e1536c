--------------------------- MODULE MCFleetPlacement --------------------------
(* Small fleets for FleetPlacement. *)
EXTENDS FleetPlacement, TLC

\* One world, asked for by joiners that name no region.
OneWorld == {[world |-> w, region |-> AnyRegion] : w \in World}

OneRegion == [h \in Hosts |-> "east"]

JoinerSymmetry == Permutations(Sessions)
=============================================================================
