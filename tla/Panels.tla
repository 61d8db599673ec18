------------------------------- MODULE Panels -------------------------------
(* The panels of the Control Center: what the page shows, the calls it makes  *)
(* to the backend, and the state of the machine behind them, which changes    *)
(* meanwhile. A behaviour follows one panel, chosen at the start: a panel has *)
(* its own interval, controls and elements, and shares nothing with another.  *)
(* Commands that are not declared async run one after the other on the main   *)
(* thread, so `calls` and the `replies` to them are queues.                   *)
EXTENDS Naturals, Sequences

CONSTANTS
  Ips,       \* the exit addresses of Tor
  MaxCalls,  \* bound: calls and replies before the user or an interval adds one
  MaxLater   \* bound: streamed actions and timeouts that run at once

Polled == {"update", "performance", "network", "privacy", "isolation"}
Followed == Polled \cup {"community", "wifi", "ports"}

(* The state a panel shows, reduced to what the page tells apart: an address  *)
(* is an Active snapshot with that exit, "Busy" any other session without     *)
(* one, "ready" no namespace but a Tor; a port is a service that listens.     *)
Values == [update |-> {"none", "some"}, performance |-> {"on", "off"},
           network |-> {"on", "off"}, community |-> {"on", "off"},
           wifi |-> {"on", "off"}, ports |-> {"on", "off"},
           isolation |-> {"up", "ready", "blocked"}, privacy |-> {"Down", "Busy"} \cup Ips]

ASSUME IpsAssumption ==
  Ips \cap {"-", "locating", "unknown", "", "Down", "Busy"} = {}
ASSUME BoundsAssumption == MaxCalls \in Nat \ {0} /\ MaxLater \in Nat

VARIABLES
  panel,       \* the panel this behaviour follows
  actual,      \* the state of the machine
  online,      \* arx and the location service answer
  resting,     \* the user and everything outside have stopped
  outside,     \* a panel that does not poll: changed behind it since it was opened
  open,        \* the panel has the class `active`
  ticking,     \* the interval in the panel's timer variable is alive
  alive,       \* how many intervals of the panel are alive
  calls, replies,
  later,       \* timeouts and streamed actions that end in a paint
  shown,       \* what the page shows of the state, "-" before the first paint
  busy,        \* the control is disabled until its call returns
  lastExitIp, location

vars == <<panel, actual, online, resting, outside, open, ticking, alive, calls,
          replies, later, shown, busy, lastExitIp, location>>
worldVars == <<panel, actual, online, resting, outside>>
timerVars == <<open, ticking, alive>>
anonVars == <<lastExitIp, location>>

Call(kind, arg) == [kind |-> kind, arg |-> arg]
Read == Call("read", "")
Kinds == {"read", "load", "set", "locate"}
Results == {"read", "load", "done", "refused", "locate"}
Opposite(v) ==
  CASE v = "on" -> "off" [] v = "off" -> "on" [] v = "up" -> "ready" [] v = "ready" -> "up"

TypeOK ==
  /\ panel \in Followed /\ actual \in Values[panel]
  /\ {online, resting, outside, open, ticking, busy} \subseteq BOOLEAN
  /\ alive \in Nat /\ later \in 0 .. MaxLater
  /\ Len(calls) + Len(replies) <= MaxCalls + MaxLater
  /\ \A i \in DOMAIN calls : calls[i].kind \in Kinds
  /\ \A i \in DOMAIN replies : replies[i].kind \in Results
  /\ shown \in Values[panel] \cup {"-"} \cup (IF panel = "network" THEN {"turning"} ELSE {})
  /\ lastExitIp \in Ips \cup {""} /\ location \in Ips \cup {"-", "locating", "unknown"}

Init ==
  /\ panel \in Followed /\ actual \in Values[panel] /\ online = TRUE
  /\ resting = FALSE /\ outside = FALSE
  /\ open = FALSE /\ ticking = FALSE /\ alive = 0
  /\ calls = <<>> /\ replies = <<>> /\ later = 0
  /\ shown = "-" /\ busy = FALSE /\ lastExitIp = "" /\ location = "-"

Room == Len(calls) + Len(replies) < MaxCalls
Invoke(call) == calls' = Append(calls, call)

-----------------------------------------------------------------------------
(* Opening a panel, or clicking its entry again, runs its loader.             *)

(* Mutant: the interval of the last visit is not cleared.                      *)
RearmOnly == ticking' = TRUE /\ alive' = alive + 1

(* clearInterval(timer), then setInterval.                                    *)
Rearm == ticking' = TRUE /\ alive' = IF ticking THEN alive ELSE alive + 1
Clear == ticking' = FALSE /\ alive' = IF ticking THEN alive - 1 ELSE alive

UserActs == ~resting /\ Room

OpenUpdate ==
  /\ UserActs /\ panel = "update"
  /\ open' = TRUE /\ outside' = FALSE /\ Invoke(Read) /\ Rearm
  /\ UNCHANGED <<panel, actual, online, resting, replies, later, shown, busy, anonVars>>

OpenCommunity ==
  /\ UserActs /\ panel = "community"
  /\ open' = TRUE /\ outside' = FALSE /\ Invoke(Read)
  /\ UNCHANGED <<panel, actual, online, resting, ticking, alive, replies, later, shown,
                 busy, anonVars>>

(* The other loaders await a first paint and set the interval after it.       *)
OpenAwaiting ==
  /\ UserActs /\ panel \notin {"update", "community"}
  /\ open' = TRUE /\ outside' = FALSE /\ Invoke(Call("load", ""))
  /\ UNCHANGED <<panel, actual, online, resting, ticking, alive, replies, later, shown,
                 busy, anonVars>>

(* Mutant: every panel leaves it to the next tick.                             *)
LeaveOnly ==
  /\ ~resting /\ open /\ open' = FALSE
  /\ UNCHANGED <<worldVars, ticking, alive, calls, replies, later, shown, busy, anonVars>>

(* Only the Update panel stops its interval when the user leaves.             *)
Leave ==
  /\ ~resting /\ open /\ open' = FALSE
  /\ IF panel = "update" THEN Clear ELSE UNCHANGED <<ticking, alive>>
  /\ UNCHANGED <<worldVars, calls, replies, later, shown, busy, anonVars>>

(* The others find out at their next tick, which clears what the variable holds. *)
Tick ==
  /\ alive > 0 /\ Room
  /\ IF open \/ panel = "update" THEN Invoke(Read) /\ UNCHANGED <<ticking, alive>>
     ELSE Clear /\ UNCHANGED calls
  /\ UNCHANGED <<worldVars, open, replies, later, shown, busy, anonVars>>

Later ==
  /\ later > 0 /\ later' = later - 1 /\ Invoke(Read)
  /\ UNCHANGED <<worldVars, timerVars, replies, shown, busy, anonVars>>

-----------------------------------------------------------------------------
(* The controls. A toggle paints what was asked for before it is so.          *)
Click(painted, asked, disables) ==
  /\ UserActs /\ open /\ ~busy
  /\ shown' = painted /\ busy' = disables /\ Invoke(Call("set", asked))
  /\ UNCHANGED <<worldVars, timerVars, replies, later, anonVars>>

ClickTurbo ==
  panel = "performance" /\ shown # "-" /\ Click(Opposite(shown), Opposite(shown), FALSE)

ClickCommunity ==
  panel = "community" /\ shown # "-" /\ Click(Opposite(shown), Opposite(shown), FALSE)

ClickWifi ==
  panel = "wifi" /\ shown # "-" /\ Click(shown, Opposite(shown), FALSE)

(* Whatever does not read `Turn on` asks for off.                             *)
ClickIface ==
  /\ panel = "network" /\ shown # "-"
  /\ Click("turning", IF shown = "off" THEN "on" ELSE "off", TRUE)

(* A service that listens has a button to disable it.                         *)
ClickDisable == panel = "ports" /\ shown = "on" /\ Click(shown, "off", TRUE)

(* The switch is off and enabled before its first paint.                      *)
ClickOnion ==
  /\ panel = "isolation" /\ shown # "blocked"
  /\ LET asked == IF shown = "up" THEN "ready" ELSE "up" IN Click(asked, asked, FALSE)

(* up, down, verify and new-identity run beside the main thread, one or more. *)
RunAnond ==
  /\ UserActs /\ open /\ panel = "privacy" /\ later < MaxLater /\ later' = later + 1
  /\ UNCHANGED <<worldVars, timerVars, calls, replies, shown, busy, anonVars>>

-----------------------------------------------------------------------------
(* The main thread.                                                           *)
Reply(kind, arg) ==
  calls' = Tail(calls) /\ replies' = Append(replies, Call(kind, arg))

Answers(p, value) ==
  /\ panel = p /\ calls # <<>> /\ Head(calls).kind \in {"read", "load"}
  /\ Reply(Head(calls).kind, value)
  /\ UNCHANGED <<worldVars, timerVars, later, shown, busy, anonVars>>

(* A list that arx could not compute reads as an empty one.                   *)
UpdatesList == Answers("update", IF online THEN actual ELSE "none")
PerfStatus == Answers("performance", actual)
NetStatus == Answers("network", actual)
WifiState == Answers("wifi", actual)
NetPorts == Answers("ports", actual)
CommunityStatus == Answers("community", actual)
ArxonionStatus == Answers("isolation", actual)
AnondStatus == Answers("privacy", actual)

(* pkexec is refused, or the change is made.                                  *)
Elevated(p) ==
  /\ panel = p /\ calls # <<>> /\ Head(calls).kind = "set"
  /\ \/ actual' = Head(calls).arg /\ Reply("done", Head(calls).arg)
     \/ actual' = actual /\ Reply("refused", Head(calls).arg)
  /\ UNCHANGED <<panel, online, resting, outside, timerVars, later, shown, busy, anonVars>>

PerfSetTurbo == Elevated("performance")
NetIfaceSet == Elevated("network")
NetWifiRadio == Elevated("wifi")
NetDisableService == Elevated("ports")
CommunitySet == Elevated("community")

(* Only a terminal is opened: the change comes from outside, or never.        *)
ArxonionToggle ==
  /\ calls # <<>> /\ Head(calls).kind = "set" /\ panel = "isolation"
  /\ Reply("done", Head(calls).arg)
  /\ UNCHANGED <<worldVars, timerVars, later, shown, busy, anonVars>>

AnondExitLocation ==
  /\ calls # <<>> /\ Head(calls).kind = "locate"
  /\ Reply("locate", IF online THEN Head(calls).arg ELSE "unknown")
  /\ UNCHANGED <<worldVars, timerVars, later, shown, busy, anonVars>>

-----------------------------------------------------------------------------
(* The page takes a reply.                                                    *)
Takes(kinds) ==
  /\ replies # <<>> /\ Head(replies).kind \in kinds /\ replies' = Tail(replies)
Value == Head(replies).arg

(* What an awaited first paint is followed by.                                *)
Loaded ==
  IF Head(replies).kind = "load" /\ panel \in Polled THEN Rearm
  ELSE UNCHANGED <<ticking, alive>>

Paints(p) ==
  /\ panel = p /\ Takes({"read", "load"}) /\ shown' = Value /\ Loaded
  /\ UNCHANGED <<worldVars, open, calls, later, busy, anonVars>>

PaintUpdateCounts == Paints("update")
PaintPerf == Paints("performance")
PaintCommunity == Paints("community")

(* A button that is disabled keeps its text.                                  *)
PaintNet ==
  /\ panel = "network" /\ Takes({"read", "load"})
  /\ shown' = (IF busy THEN shown ELSE Value) /\ Loaded
  /\ UNCHANGED <<worldVars, open, calls, later, busy, anonVars>>

(* These wait for the first paint of the panel they are a part of. A paint of *)
(* the ports replaces the rows, and the buttons in them.                      *)
PaintsPart(p) ==
  /\ panel = p /\ Takes({"read", "load"})
  /\ IF Head(replies).kind = "load" THEN Invoke(Read) /\ UNCHANGED <<shown, busy>>
     ELSE shown' = Value /\ busy' = (busy /\ p # "ports") /\ UNCHANGED calls
  /\ Loaded
  /\ UNCHANGED <<worldVars, open, later, anonVars>>

PaintOnion == PaintsPart("isolation")
PaintWifi == PaintsPart("wifi")
PaintPorts == PaintsPart("ports")

(* Mutant: a snapshot without an exit leaves the old location on the page.     *)
PaintAnonKept ==
  /\ panel = "privacy" /\ Takes({"read", "load"})
  /\ shown' = Value /\ Loaded
  /\ \/ /\ Value \in Ips \ {lastExitIp}
        /\ lastExitIp' = Value /\ location' = "locating" /\ Invoke(Call("locate", Value))
     \/ Value \notin Ips \ {lastExitIp} /\ UNCHANGED <<anonVars, calls>>
  /\ UNCHANGED <<worldVars, open, later, busy>>

(* A location is looked up once for each new address.                         *)
PaintAnon ==
  /\ panel = "privacy" /\ Takes({"read", "load"})
  /\ shown' = Value /\ Loaded
  /\ \/ /\ Value \in Ips \ {lastExitIp}
        /\ lastExitIp' = Value /\ location' = "locating" /\ Invoke(Call("locate", Value))
     \/ Value = lastExitIp /\ UNCHANGED <<anonVars, calls>>
     \/ Value \notin Ips /\ lastExitIp' = "" /\ location' = "-" /\ UNCHANGED calls
  /\ UNCHANGED <<worldVars, open, later, busy>>

(* Mutant: a failed lookup paints the address, which may be gone by then.      *)
PaintLocationOrIp ==
  /\ Takes({"locate"}) /\ location' = (IF Value = "unknown" THEN lastExitIp ELSE Value)
  /\ UNCHANGED <<worldVars, timerVars, calls, later, shown, busy, lastExitIp>>

PaintLocation ==
  /\ Takes({"locate"}) /\ location' = Value
  /\ UNCHANGED <<worldVars, timerVars, calls, later, shown, busy, lastExitIp>>

(* A refused change of the turbo inverts the box, whatever it shows by then.  *)
TurboDone ==
  /\ panel = "performance" /\ Takes({"done", "refused"})
  /\ IF Head(replies).kind = "done" THEN Invoke(Read) /\ UNCHANGED shown
     ELSE shown' = Opposite(shown) /\ UNCHANGED calls
  /\ UNCHANGED <<worldVars, timerVars, later, busy, anonVars>>

CommunityDone ==
  /\ panel = "community" /\ Takes({"done", "refused"})
  /\ shown' = (IF Head(replies).kind = "done" THEN Value ELSE Opposite(Value))
  /\ Invoke(Read)
  /\ UNCHANGED <<worldVars, timerVars, later, busy, anonVars>>

(* Mutant: only a success enables the button again.                            *)
IfaceDoneOk ==
  /\ panel = "network" /\ Takes({"done", "refused"}) /\ later < MaxLater
  /\ busy' = (Head(replies).kind = "refused") /\ later' = later + 1
  /\ UNCHANGED <<worldVars, timerVars, calls, shown, anonVars>>

(* The button is enabled at once; the paint that gives it a text comes later. *)
IfaceDone ==
  /\ panel = "network" /\ Takes({"done", "refused"}) /\ later < MaxLater
  /\ busy' = FALSE /\ later' = later + 1
  /\ UNCHANGED <<worldVars, timerVars, calls, shown, anonVars>>

(* A click that was made after the one whose reply is taken.                  *)
AnotherAsked ==
  \/ \E i \in DOMAIN calls : calls[i].kind = "set"
  \/ \E i \in DOMAIN replies \ {1} : replies[i].kind \in {"done", "refused"}

(* A refusal enables the button that was clicked; one that was painted and    *)
(* clicked meanwhile waits for a call of its own.                             *)
PortsDone ==
  /\ panel = "ports" /\ Takes({"done", "refused"})
  /\ IF Head(replies).kind = "done" THEN Invoke(Read) /\ UNCHANGED busy
     ELSE busy' = (busy /\ AnotherAsked) /\ UNCHANGED calls
  /\ UNCHANGED <<worldVars, timerVars, later, shown, anonVars>>

ToggleDone(p) ==
  /\ panel = p /\ Takes({"done", "refused"}) /\ later < MaxLater
  /\ later' = later + 1
  /\ UNCHANGED <<worldVars, timerVars, calls, shown, busy, anonVars>>

OnionDone == ToggleDone("isolation")
WifiDone == ToggleDone("wifi")

-----------------------------------------------------------------------------
(* Terminals, the daemon, other programs, the network.                        *)
Changes ==
  /\ ~resting /\ actual' \in Values[panel] \ {actual}
  /\ outside' = (panel \notin Polled)
  /\ UNCHANGED <<panel, online, resting, timerVars, calls, replies, later, shown, busy,
                 anonVars>>

LinkChanges ==
  /\ ~resting /\ panel \in {"update", "privacy"} /\ online' = ~online
  /\ UNCHANGED <<panel, actual, resting, outside, timerVars, calls, replies, later, shown,
                 busy, anonVars>>

Rest ==
  /\ ~resting /\ resting' = TRUE
  /\ UNCHANGED <<panel, actual, online, outside, timerVars, calls, replies, later, shown,
                 busy, anonVars>>

Open == OpenUpdate \/ OpenCommunity \/ OpenAwaiting
Clicks == ClickTurbo \/ ClickCommunity \/ ClickWifi \/ ClickIface \/ ClickDisable
          \/ ClickOnion \/ RunAnond
Serve ==
  \/ UpdatesList \/ PerfStatus \/ NetStatus \/ WifiState \/ NetPorts \/ CommunityStatus
  \/ ArxonionStatus \/ AnondStatus \/ AnondExitLocation
  \/ PerfSetTurbo \/ NetIfaceSet \/ NetWifiRadio \/ NetDisableService \/ CommunitySet \/ ArxonionToggle
Receive ==
  \/ PaintUpdateCounts \/ PaintPerf \/ PaintNet \/ PaintWifi \/ PaintPorts \/ PaintCommunity
  \/ PaintOnion \/ PaintAnon \/ PaintLocation
  \/ TurboDone \/ IfaceDone \/ WifiDone \/ PortsDone \/ CommunityDone \/ OnionDone

Next ==
  \/ Open \/ Leave \/ Tick \/ Later \/ Clicks \/ Serve \/ Receive
  \/ Changes \/ LinkChanges \/ Rest

(* The main thread, the event loop of the page and its timers go on.          *)
Fairness == WF_vars(Serve) /\ WF_vars(Receive) /\ WF_vars(Tick) /\ WF_vars(Later)
Spec == Init /\ [][Next]_vars /\ Fairness

-----------------------------------------------------------------------------
(* However fast a panel is opened and left while its first paint is awaited,  *)
(* no interval is lost (app.js:133, 276, 347, 522) ...                        *)
OneInterval == alive <= 1

(* ... and a panel that stays closed ends up asking for nothing, also when    *)
(* the user left before its interval was set (app.js:137-139, 277, 348, 523). *)
QuietWhenClosed == <>[]~open => <>[](alive = 0 /\ calls = <<>>)

(* A panel that polls ends up showing the state of the machine, and one that  *)
(* does not ends up showing it if nobody else changed it, after any clicks,   *)
(* refusals and late replies (app.js:108, 194, 354, 387, 476, 695).                *)
ShowsWhatIs ==
  <>(resting /\ open /\ online /\ (panel \in Polled \/ ~outside)) => <>[](shown = actual)

(* The location that stays on the page belongs to the exit address, or there  *)
(* is neither (app.js:622-632).                                               *)
LocationOfExit ==
  <>(resting /\ open /\ panel = "privacy") =>
    <>[](location \in IF actual \in Ips THEN {actual, "unknown"} ELSE {"-"})
=============================================================================
