------------------------------ MODULE MCCreator ------------------------------
(* Authoring and building share no state the models keep apart (a build      *)
(* reads a frozen manifest, which no later save changes), so a behaviour is  *)
(* of one of them while the other stands still.                              *)
EXTENDS Workspaces, Builds

VARIABLE scene

Init == scene \in {"authoring", "building"} /\ WorkspacesInit /\ BuildsInit

Next ==
    /\ UNCHANGED scene
    /\ \/ scene = "authoring" /\ WorkspacesNext /\ UNCHANGED buildVars
       \/ scene = "building" /\ BuildsNext /\ UNCHANGED workspaceVars

vars == <<scene, workspaceVars, buildVars>>

Spec == Init /\ [][Next]_vars /\ BuildsFairness
=============================================================================
