----------------------------- MODULE Isolation ------------------------------
(* What arxonion promises, without how: an app is let in only when the way    *)
(* out is sealed, and the seal is lifted only when nobody is inside and       *)
(* nobody asked for it to be kept.                                            *)
CONSTANT Slots  \* where apps may run

VARIABLES
  sealed,  \* the namespace stands and its only way out is Tor
  inside,  \* the slots whose apps are in it
  kept     \* the user was told that it stays

vars == <<sealed, inside, kept>>

Init == sealed = FALSE /\ inside = {} /\ kept = FALSE

Seal == ~sealed /\ sealed' = TRUE /\ UNCHANGED <<inside, kept>>
Unseal == sealed /\ inside = {} /\ ~kept /\ sealed' = FALSE /\ UNCHANGED <<inside, kept>>

Enter(p) == sealed /\ inside' = inside \cup {p} /\ UNCHANGED <<sealed, kept>>
Leave(p) == inside' = inside \ {p} /\ UNCHANGED <<sealed, kept>>

Keep == sealed /\ kept' = TRUE /\ UNCHANGED <<sealed, inside>>
Release == kept' = FALSE /\ UNCHANGED <<sealed, inside>>

Next == Seal \/ Unseal \/ Keep \/ Release \/ \E p \in Slots : Enter(p) \/ Leave(p)

Spec == Init /\ [][Next]_vars
=============================================================================
