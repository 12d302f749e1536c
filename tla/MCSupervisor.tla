----------------------------- MODULE MCSupervisor -----------------------------
(* One small box for Supervisor: every id is of the same game. *)
EXTENDS Supervisor, TLC

OneGame == [i \in Ids |-> CHOOSE g \in Games : TRUE]

Alike == Permutations(Ids) \cup Permutations(Pids) \cup Permutations(Ports)
=============================================================================
