----------------------------- MODULE Protection -----------------------------
(* What anond promises, without how: traffic of ordinary users is blocked     *)
(* from leaving directly before protection is claimed, a claim is made only   *)
(* when no clear connection has been overlooked, and the block is lifted only *)
(* after the claim was withdrawn. What leaves in the clear under the block is *)
(* the answer on a connection that was cut and whose peer has spoken. Only a  *)
(* restart of the machine ends all.                                           *)
VARIABLES
  blocked,  \* nothing new leaves directly
  claimed,  \* the session is reported Active
  flow      \* clear: a connection from before the block still leaves, unreported

vars == <<blocked, claimed, flow>>

Init == blocked = FALSE /\ claimed = FALSE /\ flow = "none"

Block == ~blocked /\ blocked' = TRUE /\ UNCHANGED <<claimed, flow>>
Unblock == blocked /\ ~claimed /\ blocked' = FALSE /\ UNCHANGED <<claimed, flow>>

Claim == blocked /\ flow # "clear" /\ claimed' = TRUE /\ UNCHANGED <<blocked, flow>>
Withdraw == claimed /\ claimed' = FALSE /\ UNCHANGED <<blocked, flow>>

Connect == ~blocked /\ flow' = "clear" /\ UNCHANGED <<blocked, claimed>>
Answer == flow = "none" /\ flow' = "answer" /\ UNCHANGED <<blocked, claimed>>
Disconnect == flow # "none" /\ flow' = "none" /\ UNCHANGED <<blocked, claimed>>

Restart == blocked' = FALSE /\ claimed' = FALSE /\ flow' = "none"

Next ==
  \/ Block \/ Unblock \/ Claim \/ Withdraw
  \/ Connect \/ Answer \/ Disconnect \/ Restart

Spec == Init /\ [][Next]_vars
=============================================================================
