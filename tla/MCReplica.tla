----------------------------- MODULE MCReplica -----------------------------
(* What the client replicates reaches the renderer as calls on nodes, which  *)
(* the replication never reads back, so the mirrored world and the retained  *)
(* scene are each run on their own, with the other standing still.           *)
EXTENDS Replica, Scene

VARIABLE scene

Init == scene \in {"replication", "drawing"} /\ ReplicaInit /\ SceneInit

Next ==
    /\ UNCHANGED scene
    /\ \/ scene = "replication" /\ ReplicaNext /\ UNCHANGED sceneVars
       \/ scene = "drawing" /\ SceneNext /\ UNCHANGED replicaVars

vars == <<scene, replicaVars, sceneVars>>

Spec == Init /\ [][Next]_vars
=============================================================================
