----------------------------- MODULE MCAnondRace -----------------------------
(* Anond with two or more writers and a history: for each writer, whether its *)
(* current command has run without any other writer beside it, and what its   *)
(* own helpers have refused to undo since it started.                         *)
EXTENDS Anond, TLC

VARIABLES
  alone,  \* no other writer has run beside the current command
  kept    \* what the current command could not delete or write back

RaceVars == <<vars, alone, kept>>

(* The two slots run the same commands.                                       *)
Symmetry == Permutations(Writers)

(* No command reads pub.json, so states that differ in it behave alike.       *)
View == <<netVars, hostVars, file, pc, cmdVars, alone, kept>>

OthersIdle(p) == \A q \in Writers \ {p} : pc[q] = "idle" /\ pc'[q] = "idle"

RaceInit == Init /\ alone = [p \in Writers |-> FALSE] /\ kept = [p \in Writers |-> {}]

Alone(p) == pc'[p] # "idle" /\ OthersIdle(p) /\ (pc[p] = "idle" \/ alone[p])

(* What the step of p was to delete or to write back and has left.            *)
Leaves(p, labels) == pc[p] \in labels /\ pc'[p] \in Labels \ (labels \cup {"idle"})
Refused(p) ==
  {x \in {"inet", "ip6", "pin"} :
     \/ x = "inet" /\ Leaves(p, {"arm", "d_ks"}) /\ (armed' \/ exempt' # {})
     \/ x = "ip6" /\ Leaves(p, {"arm6", "d_ks6"}) /\ armed6'
     \/ x = "pin" /\ Leaves(p, {"d_dns"}) /\ pinned'}

RaceNext ==
  /\ Next
  /\ alone' = [p \in Writers |-> Alone(p)]
  /\ kept' = [p \in Writers |-> IF Alone(p) THEN kept[p] \cup Refused(p) ELSE {}]

RaceSpec == RaceInit /\ [][RaceNext]_RaceVars

(* Whatever concurrent commands, crashes and half-written files have left     *)
(* behind, one `down` that runs by itself to its end releases the host: no    *)
(* session, no i2pd, a Tor that is gone or was told to go, and no table,      *)
(* exemption or pin but what nft or the resolver file refused to give up      *)
(* while it ran (main.rs:230-247).                                            *)
LoneDownIsComplete ==
  \A p \in Writers : alone[p] /\ pc[p] = "d_pub" =>
    /\ file = NoSession /\ ~i2pd /\ tor \in {"off", "ending"}
    /\ armed \/ exempt # {} => "inet" \in kept[p]
    /\ armed6 => "ip6" \in kept[p]
    /\ pinned => "pin" \in kept[p]

(* And one bring-up that runs by itself blocks the host again: when it is     *)
(* about to publish, both tables are loaded with the exemptions of this       *)
(* session, with those of no other unless nft refused to delete the old table *)
(* before, and if it reports Active the pin stands and the session is         *)
(* recorded (main.rs:140-222, killswitch.rs:71-90).                           *)
LoneUpIsProtected ==
  \A p \in Writers : alone[p] /\ pc[p] \in Published =>
    /\ armed /\ armed6 /\ Exempted(p) \subseteq exempt
    /\ exempt = Exempted(p) \/ "inet" \in kept[p]
    /\ pc[p] = "pub_active" => pinned /\ file.state = "Active"
=============================================================================
