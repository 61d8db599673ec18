------------------------------- MODULE Relay --------------------------------
(* What the console of the privacy panel promises of the commands it starts,  *)
(* without how their output travels: every line a command prints, on either   *)
(* pipe, is shown once, none is made up, and a command is answered only when  *)
(* there is nothing left of it to show. Starting a command empties the        *)
(* console, and that is the only way a line leaves it.                        *)
EXTENDS Naturals

CONSTANTS Commands, Pipes

VARIABLES
  open,     \* commands that were started and are not answered yet
  printed,  \* lines each has printed on each pipe
  shown,    \* lines of each in the console
  wiped     \* lines of each that were shown until the console was emptied

vars == <<open, printed, shown, wiped>>

Blank == [p \in Pipes |-> 0]
AllBlank == [c \in Commands |-> Blank]

Init == open = {} /\ printed = AllBlank /\ shown = AllBlank /\ wiped = AllBlank

(* A command that cannot start is a line by itself.                           *)
Open(c) ==
  /\ c \notin open /\ open' = open \cup {c}
  /\ \E said \in {Blank} \cup {[Blank EXCEPT ![p] = 1] : p \in Pipes} :
       printed' = [printed EXCEPT ![c] = said]
  /\ shown' = AllBlank
  /\ wiped' = [d \in Commands |-> IF d = c THEN Blank
                                  ELSE [p \in Pipes |-> wiped[d][p] + shown[d][p]]]

Say(c, p) ==
  /\ c \in open /\ printed' = [printed EXCEPT ![c][p] = @ + 1]
  /\ UNCHANGED <<open, shown, wiped>>

Show(c, p) ==
  /\ c \in open /\ shown[c][p] + wiped[c][p] < printed[c][p]
  /\ shown' = [shown EXCEPT ![c][p] = @ + 1]
  /\ UNCHANGED <<open, printed, wiped>>

Close(c) ==
  /\ c \in open /\ \A p \in Pipes : shown[c][p] + wiped[c][p] = printed[c][p]
  /\ open' = open \ {c}
  /\ UNCHANGED <<printed, shown, wiped>>

Next == \E c \in Commands : Open(c) \/ Close(c) \/ \E p \in Pipes : Say(c, p) \/ Show(c, p)

Spec == Init /\ [][Next]_vars
=============================================================================
