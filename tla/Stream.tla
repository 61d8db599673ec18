------------------------------- MODULE Stream -------------------------------
(* anond_action_streamed: anond runs as a child with two pipes. A worker      *)
(* drains its stdout to the end, then its stderr, then waits for it; every    *)
(* line goes through a channel to the console of the privacy panel. A pipe    *)
(* that is full holds the child up. Nothing keeps a second click from         *)
(* starting another command while one streams: it empties the console, and    *)
(* both go on to write to it.                                                 *)
EXTENDS Naturals, Sequences

CONSTANTS
  Actions,   \* bound: commands that may stream at once
  Capacity,  \* lines a pipe holds
  MaxLines   \* lines a child prints at most on each pipe

Pipes == {"out", "err"}

ASSUME CapacityAssumption == Capacity \in Nat \ {0}
ASSUME LinesAssumption == MaxLines \in [Pipes -> Nat]

VARIABLES
  cmd,      \* each command: its child, pipes, worker and channel
  console,  \* lines of each command in the panel
  wiped     \* history: lines of each that a later click removed from the panel

panelVars == <<console, wiped>>
streamVars == <<cmd, panelVars>>

Nothing == [p \in Pipes |-> 0]

(* Mutant: the worker drains stderr first.                                    *)
OrderErrFirst == <<"err", "out">>

(* In which order the worker drains the pipes.                                *)
Order == <<"out", "err">>

Streaming ==
  [child   : {"none", "running", "ended"},
   writing : Pipes \cup {"none"},     \* the pipe it is about to write to, if any
   piped   : [Pipes -> 0 .. Capacity],
   printed : [Pipes -> Nat],
   worker  : {"idle", "out", "err", "wait", "closed"},
   sent    : Seq(Pipes)]              \* lines in the channel, by their pipe

NotStreaming == [child |-> "none", writing |-> "none", piped |-> Nothing, printed |-> Nothing,
              worker |-> "idle", sent |-> <<>>]

StreamTypeOK ==
  cmd \in [Actions -> Streaming] /\ {console, wiped} \subseteq [Actions -> [Pipes -> Nat]]

StreamInit ==
  /\ cmd = [a \in Actions |-> NotStreaming]
  /\ console = [a \in Actions |-> Nothing] /\ wiped = [a \in Actions |-> Nothing]

-----------------------------------------------------------------------------
Started == [NotStreaming EXCEPT !.child = "running", !.worker = Order[1]]
(* That pkexec is not there is a line of its own.                             *)
NotStarted == [NotStreaming EXCEPT !.child = "ended", !.worker = "closed", !.sent = <<"out">>,
                                !.printed["out"] = 1]

(* A click empties the console and starts a worker, which starts the child.   *)
StartAnond(a) ==
  /\ cmd[a].worker = "idle"
  /\ \E c \in {Started, NotStarted} : cmd' = [cmd EXCEPT ![a] = c]
  /\ console' = [b \in Actions |-> Nothing]
  /\ wiped' = [b \in Actions |-> IF b = a THEN Nothing
                                 ELSE [p \in Pipes |-> wiped[b][p] + console[b][p]]]

Writes(a, p) ==
  /\ cmd[a].child = "running" /\ cmd[a].writing = "none" /\ cmd[a].printed[p] < MaxLines[p]
  /\ cmd' = [cmd EXCEPT ![a].writing = p] /\ UNCHANGED panelVars

Written(a) == \E p \in Pipes :
  /\ cmd[a].child = "running" /\ cmd[a].writing = p /\ cmd[a].piped[p] < Capacity
  /\ cmd' = [cmd EXCEPT ![a].writing = "none", ![a].piped[p] = @ + 1, ![a].printed[p] = @ + 1]
  /\ UNCHANGED panelVars

Ends(a) ==
  /\ cmd[a].child = "running" /\ cmd[a].writing = "none"
  /\ cmd' = [cmd EXCEPT ![a].child = "ended"] /\ UNCHANGED panelVars

(* A signal ends it also while it waits for room.                             *)
Signalled(a) ==
  /\ cmd[a].child = "running"
  /\ cmd' = [cmd EXCEPT ![a].child = "ended", ![a].writing = "none"] /\ UNCHANGED panelVars

(* Mutant: a pipe that is empty is taken for one that is closed.              *)
DrainHasty(a, p, next) ==
  /\ cmd[a].worker = p /\ UNCHANGED panelVars
  /\ \/ /\ cmd[a].piped[p] > 0
        /\ cmd' = [cmd EXCEPT ![a].piped[p] = @ - 1, ![a].sent = Append(@, p)]
     \/ cmd[a].piped[p] = 0 /\ cmd' = [cmd EXCEPT ![a].worker = next]

(* BufReader::lines: a line, or the end when the child has closed the pipe.   *)
Drain(a, p, next) ==
  /\ cmd[a].worker = p /\ UNCHANGED panelVars
  /\ \/ /\ cmd[a].piped[p] > 0
        /\ cmd' = [cmd EXCEPT ![a].piped[p] = @ - 1, ![a].sent = Append(@, p)]
     \/ /\ cmd[a].piped[p] = 0 /\ cmd[a].child = "ended"
        /\ cmd' = [cmd EXCEPT ![a].worker = next]

DrainPipes(a) == Drain(a, Order[1], Order[2]) \/ Drain(a, Order[2], "wait")

(* child.wait; the worker returns and drops its end of the channel.           *)
Reap(a) ==
  /\ cmd[a].worker = "wait" /\ cmd[a].child = "ended"
  /\ cmd' = [cmd EXCEPT ![a].worker = "closed"] /\ UNCHANGED panelVars

Emit(a) ==
  /\ cmd[a].sent # <<>> /\ cmd' = [cmd EXCEPT ![a].sent = Tail(@)]
  /\ console' = [console EXCEPT ![a][Head(cmd[a].sent)] = @ + 1] /\ UNCHANGED wiped

(* The loop over the channel ends, the worker is joined, the code returned.   *)
Finished(a) == cmd[a].worker = "closed" /\ cmd[a].sent = <<>>
Answer(a) ==
  Finished(a) /\ cmd' = [cmd EXCEPT ![a].worker = "idle"] /\ UNCHANGED panelVars

ChildGoesOn(a) == Written(a) \/ Ends(a) \/ \E p \in Pipes : Writes(a, p)
PanelGoesOn(a) == DrainPipes(a) \/ Reap(a) \/ Emit(a)

StreamNext ==
  \E a \in Actions : StartAnond(a) \/ ChildGoesOn(a) \/ Signalled(a) \/ PanelGoesOn(a) \/ Answer(a)

(* The children, the workers and the loops that emit are threads that go on.  *)
StreamFairness ==
  \A a \in Actions : /\ WF_streamVars(ChildGoesOn(a))
                     /\ WF_streamVars(DrainPipes(a) \/ Reap(a)) /\ WF_streamVars(Emit(a))

StreamSpec == StreamInit /\ [][StreamNext]_streamVars /\ StreamFairness

-----------------------------------------------------------------------------
(* Every action returns, and by then everything anond printed has been in the *)
(* panel, although stdout may be longer than a pipe and other commands stream *)
(* beside it: what is not there was removed by a later click. It needs that   *)
(* what anond prints on stderr fits a pipe: nobody reads that one before      *)
(* stdout has ended (src-tauri/src/main.rs:510-515).                          *)
AllShown(a) == \A p \in Pipes : console[a][p] + wiped[a][p] = cmd[a].printed[p]
StreamEnds == \A a \in Actions : cmd[a].worker # "idle" ~> Finished(a) /\ AllShown(a)

(* The streams keep the promise of Relay: through the two pipes and the       *)
(* channel every line reaches the panel once, under its own command, and the  *)
(* answer comes after the last of them, also when anond is killed, could not  *)
(* be started, or another command streams beside it                           *)
(* (src-tauri/src/main.rs:486-541, app.js:646-655).                           *)
Promise == INSTANCE Relay WITH
  Commands <- Actions, open <- {a \in Actions : cmd[a].worker # "idle"},
  printed <- [a \in Actions |-> cmd[a].printed], shown <- console
Relays == Promise!Spec
=============================================================================
