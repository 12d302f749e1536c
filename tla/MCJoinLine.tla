------------------------------ MODULE MCJoinLine -----------------------------
(* Three callers, which is one more than the line holds. *)
EXTENDS JoinLine

=============================================================================
