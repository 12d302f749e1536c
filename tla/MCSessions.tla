----------------------------- MODULE MCSessions -----------------------------
(* The server's sessions with its clients, creator code inside the engine, a *)
(* client's prediction and its renderer's assets share no state the models   *)
(* keep apart, so a behaviour is of one of them while the others stand still.*)
EXTENDS Sessions, Scripts, Prediction, Textures

CONSTANTS c1, c2, ann

OneIdentity == [c \in {c1, c2} |-> ann]

VARIABLE scene

MCInit ==
    /\ scene \in {"sessions", "scripts", "prediction", "assets"}
    /\ Init /\ ScriptsInit /\ PredictionInit /\ TexturesInit

MCNext ==
    /\ UNCHANGED scene
    /\ \/ scene = "sessions" /\ Next /\ UNCHANGED <<scriptVars, predictionVars, textureVars>>
       \/ scene = "scripts" /\ ScriptsNext /\ UNCHANGED <<vars, predictionVars, textureVars>>
       \/ scene = "prediction" /\ PredictionNext /\ UNCHANGED <<vars, scriptVars, textureVars>>
       \/ scene = "assets" /\ TexturesNext /\ UNCHANGED <<vars, scriptVars, predictionVars>>

MCSpec == MCInit /\ [][MCNext]_<<scene, vars, scriptVars, predictionVars, textureVars>>
=============================================================================
