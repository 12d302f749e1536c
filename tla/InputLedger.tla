---------------------------- MODULE InputLedger ----------------------------
(***************************************************************************)
(* What the input path promises a player: every frame handed to the wire   *)
(* is settled at most once, as applied or as dropped, and the number the   *)
(* server acknowledges covers settled frames only.  The client throws its  *)
(* own copy of a frame away at the acknowledgement, so an acknowledgement  *)
(* that ran ahead would lose a press for good (AdmissionState.takeAck,     *)
(* InputRing.ack).                                                         *)
(***************************************************************************)
EXTENDS Integers

CONSTANT Seqs  \* the numbers frames are given, an initial part of Nat

VARIABLES fate,   \* what became of each number: "unsent", "sent", "applied" or "dropped"
          told    \* the highest number a client has been told is settled, -1 for none

ledgerVars == <<fate, told>>

Init == fate = [s \in Seqs |-> "unsent"] /\ told = -1

\* The display frame that sends may also find the clock behind, and join anew.
Send(s) ==
  /\ fate[s] = "unsent"
  /\ fate' = [fate EXCEPT ![s] = "sent"]
  /\ told' \in {told, -1}

\* One simulated tick settles every frame that is due on it.
Settle(S, how) ==
  /\ \A s \in S : fate[s] = "sent"
  /\ fate' = [s \in Seqs |-> IF s \in S THEN how ELSE fate[s]]
  /\ UNCHANGED told

\* The player's copy is pruned up to t, or the client forgets what it was told and joins anew.
Tell(t) ==
  /\ t > told
  /\ \A s \in Seqs : s <= t => fate[s] \in {"applied", "dropped"}
  /\ told' = t
  /\ UNCHANGED fate

Forget == told' = -1 /\ UNCHANGED fate

Next ==
  \/ \E s \in Seqs : Send(s) \/ Tell(s)
  \/ \E S \in SUBSET Seqs, how \in {"applied", "dropped"} : Settle(S, how)
  \/ Forget

Spec == Init /\ [][Next]_ledgerVars
=============================================================================
