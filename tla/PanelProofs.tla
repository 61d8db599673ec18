---------------------------- MODULE PanelProofs -----------------------------
(* Proofs about Panels, for any exit addresses and any number of calls.       *)
EXTENDS Panels, SequenceTheorems, TLAPS

(* The interval that is alive is the one that the timer variable holds.       *)
Held == ticking \in BOOLEAN /\ alive = IF ticking THEN 1 ELSE 0

LEMMA TimerKeepsHeld ==
  ASSUME Held, Rearm \/ Clear \/ UNCHANGED <<ticking, alive>>
  PROVE  Held'
<1>1. CASE Rearm
  <2>1. ticking' = TRUE /\ alive' = 1
    BY <1>1 DEF Held, Rearm
  <2>2. QED
    BY <2>1 DEF Held
<1>2. CASE Clear
  <2>1. ticking' = FALSE /\ alive' = 0
    BY <1>2 DEF Held, Clear
  <2>2. QED
    BY <2>1 DEF Held
<1>3. CASE UNCHANGED <<ticking, alive>>
  BY <1>3 DEF Held
<1>4. QED
  BY <1>1, <1>2, <1>3

(* Every step sets the interval, clears it, or leaves it alone.               *)
LEMMA StepsOfTimer == [Next]_vars => Rearm \/ Clear \/ UNCHANGED <<ticking, alive>>
<1> SUFFICES ASSUME [Next]_vars PROVE Rearm \/ Clear \/ UNCHANGED <<ticking, alive>>
  OBVIOUS
<1> USE DEF timerVars
<1>1. CASE Open \/ Leave
  BY <1>1 DEF Open, OpenUpdate, OpenCommunity, OpenAwaiting, Leave
<1>2. CASE Tick \/ Later
  BY <1>2 DEF Tick, Later
<1>3. CASE Clicks
  BY <1>3 DEF Clicks, ClickTurbo, ClickCommunity, ClickWifi, ClickIface, ClickDisable, ClickOnion,
    RunAnond, Click
<1>4. CASE Serve
  BY <1>4 DEF Serve, UpdatesList, PerfStatus, NetStatus, WifiState, NetPorts, CommunityStatus,
    ArxonionStatus, AnondStatus, AnondExitLocation, PerfSetTurbo, NetIfaceSet, NetWifiRadio,
    NetDisableService, CommunitySet, ArxonionToggle, Answers, Elevated
<1>5. CASE PaintUpdateCounts \/ PaintPerf \/ PaintCommunity \/ PaintNet
  BY <1>5 DEF PaintUpdateCounts, PaintPerf, PaintCommunity, PaintNet, Paints, Loaded
<1>6. CASE PaintWifi \/ PaintPorts \/ PaintOnion
  BY <1>6 DEF PaintWifi, PaintPorts, PaintOnion, PaintsPart, Loaded
<1>7. CASE PaintAnon \/ PaintLocation
  BY <1>7 DEF PaintAnon, PaintLocation, Loaded
<1>8. CASE TurboDone \/ IfaceDone \/ WifiDone \/ PortsDone \/ CommunityDone \/ OnionDone
  BY <1>8 DEF TurboDone, IfaceDone, WifiDone, PortsDone, CommunityDone, OnionDone, ToggleDone
<1>9. CASE Changes \/ LinkChanges \/ Rest \/ UNCHANGED vars
  BY <1>9 DEF Changes, LinkChanges, Rest, vars
<1>10. QED
  BY <1>1, <1>2, <1>3, <1>4, <1>5, <1>6, <1>7, <1>8, <1>9 DEF Next, Receive

(* A panel that is opened, clicked and left in any order, while its first     *)
(* paints are awaited, never has two intervals (app.js:133, 276, 347, 522).   *)
THEOREM OneIntervalHolds == Spec => []OneInterval
<1>1. Init => Held
  BY DEF Init, Held
<1>2. Held /\ [Next]_vars => Held'
  BY StepsOfTimer, TimerKeepsHeld
<1>3. Held => OneInterval
  BY DEF Held, OneInterval
<1>4. QED
  BY <1>1, <1>2, <1>3, PTL DEF Spec

-----------------------------------------------------------------------------
(* What may be asked of the backend for a panel, and what it may be told.     *)
Asks(p) ==
  [kind : {"read", "load"}, arg : {""}] \cup [kind : {"set"}, arg : Values[p]]
    \cup [kind : {"locate"}, arg : Ips]
Tells(p) ==
  [kind : {"read", "load", "done", "refused"}, arg : Values[p]]
    \cup [kind : {"locate"}, arg : Ips \cup {"unknown"}]

Shown(p) == Values[p] \cup {"-"} \cup (IF p = "network" THEN {"turning"} ELSE {})

(* A change is on its way, or its answer is.                                  *)
InFlight ==
  \/ \E i \in 1 .. Len(calls) : calls[i].kind = "set"
  \/ \E i \in 1 .. Len(replies) : replies[i].kind \in {"done", "refused"}

WorldOK ==
  /\ panel \in Followed /\ actual \in Values[panel]
  /\ {online, resting, outside, open, ticking, busy} \subseteq BOOLEAN
QueuesOK == calls \in Seq(Asks(panel)) /\ replies \in Seq(Tells(panel))
Bounded == later \in 0 .. MaxLater /\ Len(calls) + Len(replies) + later <= MaxCalls + MaxLater
PaintedOK ==
  /\ shown \in Shown(panel)
  /\ lastExitIp \in Ips \cup {""} /\ location \in Ips \cup {"-", "locating", "unknown"}

(* Whatever is asked for the turbo is asked after the first paint: a refusal  *)
(* has a box to invert.                                                       *)
TurboPainted == panel = "performance" /\ InFlight => shown # "-"

PanelInv == WorldOK /\ Held /\ QueuesOK /\ Bounded /\ PaintedOK /\ TurboPainted

LEMMA BoundFacts ==
  ASSUME PanelInv
  PROVE  /\ MaxCalls \in Nat /\ MaxLater \in Nat /\ later \in Nat /\ later <= MaxLater
         /\ Len(calls) \in Nat /\ Len(replies) \in Nat
         /\ Len(calls) + Len(replies) + later <= MaxCalls + MaxLater
<1>1. Len(calls) \in Nat /\ Len(replies) \in Nat
  BY LenProperties DEF PanelInv, QueuesOK
<1>2. MaxCalls \in Nat /\ MaxLater \in Nat
  BY BoundsAssumption
<1> QED BY <1>1, <1>2 DEF PanelInv, Bounded

LEMMA PanelInvIsTyped == PanelInv => TypeOK
<1> SUFFICES ASSUME PanelInv PROVE TypeOK
  OBVIOUS
<1>2. Len(calls) + Len(replies) <= MaxCalls + MaxLater /\ alive \in Nat
  <2>2. alive = 0 \/ alive = 1
    BY DEF PanelInv, Held
  <2> QED BY <2>2, BoundFacts
<1>3. \A i \in DOMAIN calls : calls[i].kind \in Kinds
  <2>1. \A i \in DOMAIN calls : calls[i] \in Asks(panel)
    BY ElementOfSeq, LenProperties DEF PanelInv, QueuesOK
  <2> QED BY <2>1 DEF Asks, Kinds
<1>4. \A i \in DOMAIN replies : replies[i].kind \in Results
  <2>1. \A i \in DOMAIN replies : replies[i] \in Tells(panel)
    BY ElementOfSeq, LenProperties DEF PanelInv, QueuesOK
  <2> QED BY <2>1 DEF Tells, Results
<1> QED BY <1>2, <1>3, <1>4 DEF PanelInv, WorldOK, Bounded, PaintedOK, TypeOK, Shown

LEMMA PanelFacts ==
  /\ \A p \in Followed : Read \in Asks(p) /\ Call("load", "") \in Asks(p)
  /\ \A p \in Followed : \A v \in Values[p] : Call("set", v) \in Asks(p)
  /\ \A p \in Followed : \A v \in Ips : Call("locate", v) \in Asks(p)
  /\ \A v \in {"on", "off"} : Opposite(v) \in {"on", "off"}
  /\ \A p \in {"performance", "network", "community", "wifi", "ports"} : Values[p] = {"on", "off"}
  /\ Values["isolation"] = {"up", "ready", "blocked"} /\ Values["update"] = {"none", "some"}
  /\ Values["privacy"] = {"Down", "Busy"} \cup Ips
BY DEF Asks, Read, Call, Followed, Polled, Values, Opposite

(* A call that is added to the queue.                                         *)
LEMMA InvokeStep ==
  ASSUME PanelInv, NEW call \in Asks(panel), Invoke(call)
  PROVE  /\ calls' \in Seq(Asks(panel)) /\ Len(calls') = Len(calls) + 1
         /\ Len(calls) \in Nat /\ Len(replies) \in Nat
         /\ call.kind # "set" =>
              ((\E i \in 1 .. Len(calls') : calls'[i].kind = "set")
                => (\E i \in 1 .. Len(calls) : calls[i].kind = "set"))
<1>1. calls \in Seq(Asks(panel))
  BY DEF PanelInv, QueuesOK
<1>2. /\ calls' \in Seq(Asks(panel)) /\ Len(calls') = Len(calls) + 1
      /\ \A i \in 1 .. Len(calls) : calls'[i] = calls[i]
      /\ calls'[Len(calls) + 1] = call
  BY <1>1, AppendProperties DEF Invoke
<1>3. Len(calls) \in Nat /\ Len(replies) \in Nat
  BY LenProperties DEF PanelInv, QueuesOK
<1> QED BY <1>2, <1>3

(* A reply that is taken from the other.                                      *)
LEMMA TakesStep ==
  ASSUME PanelInv, NEW kinds, Takes(kinds)
  PROVE  /\ replies' \in Seq(Tells(panel)) /\ Len(replies') = Len(replies) - 1
         /\ Len(calls) \in Nat /\ Len(replies) \in Nat \ {0}
         /\ Head(replies) \in Tells(panel) /\ Head(replies).kind \in kinds
         /\ Head(replies) = replies[1]
         /\ (\E i \in 1 .. Len(replies') : replies'[i].kind \in {"done", "refused"})
              => \E i \in 1 .. Len(replies) : replies[i].kind \in {"done", "refused"}
<1>1. replies \in Seq(Tells(panel)) /\ replies # <<>>
  BY DEF PanelInv, QueuesOK, Takes
<1>2. /\ replies' \in Seq(Tells(panel)) /\ Len(replies') = Len(replies) - 1
      /\ \A i \in 1 .. Len(replies') : replies'[i] = replies[i + 1]
      /\ Head(replies) \in Tells(panel) /\ Head(replies) = replies[1]
  BY <1>1, HeadTailProperties DEF Takes
<1>3. Len(calls) \in Nat /\ Len(replies) \in Nat \ {0}
  BY <1>1, LenProperties, EmptySeq DEF PanelInv, QueuesOK
<1> QED BY <1>2, <1>3 DEF Takes

(* A call that is answered.                                                   *)
LEMMA ReplyStep ==
  ASSUME PanelInv, calls # <<>>, NEW kind, NEW arg, Call(kind, arg) \in Tells(panel), Reply(kind, arg)
  PROVE  /\ calls' \in Seq(Asks(panel)) /\ replies' \in Seq(Tells(panel))
         /\ Len(calls') + Len(replies') = Len(calls) + Len(replies)
         /\ Len(calls) \in Nat /\ Len(replies) \in Nat
         /\ Head(calls).kind = "set" => InFlight
         /\ InFlight' => InFlight \/ kind \in {"done", "refused"}
<1>1. calls \in Seq(Asks(panel)) /\ replies \in Seq(Tells(panel))
  BY DEF PanelInv, QueuesOK
<1>2. /\ calls' \in Seq(Asks(panel)) /\ Len(calls') = Len(calls) - 1
      /\ \A i \in 1 .. Len(calls') : calls'[i] = calls[i + 1]
      /\ Head(calls) = calls[1]
  BY <1>1, HeadTailProperties DEF Reply
<1>3. /\ replies' \in Seq(Tells(panel)) /\ Len(replies') = Len(replies) + 1
      /\ \A i \in 1 .. Len(replies) : replies'[i] = replies[i]
      /\ replies'[Len(replies) + 1] = Call(kind, arg)
  BY <1>1, AppendProperties DEF Reply
<1>4. Len(calls) \in Nat \ {0} /\ Len(replies) \in Nat
  BY <1>1, LenProperties, EmptySeq
<1>5. Head(calls).kind = "set" => InFlight
  BY <1>2, <1>4 DEF InFlight
<1>6. ASSUME NEW i \in 1 .. Len(calls'), calls'[i].kind = "set" PROVE InFlight
  BY <1>2, <1>4, <1>6 DEF InFlight
<1>7. ASSUME NEW i \in 1 .. Len(replies'), replies'[i].kind \in {"done", "refused"}
      PROVE  InFlight \/ kind \in {"done", "refused"}
  <2>1. CASE i = Len(replies) + 1
    BY <1>3, <1>7, <2>1 DEF Call
  <2>2. CASE i # Len(replies) + 1
    BY <1>3, <1>4, <1>7, <2>2 DEF InFlight
  <2> QED BY <2>1, <2>2
<1>8. InFlight' => InFlight \/ kind \in {"done", "refused"}
  BY <1>6, <1>7 DEF InFlight
<1> QED BY <1>2, <1>3, <1>4, <1>5, <1>8

(* A step that keeps the parts keeps the invariant.                           *)
LEMMA KeepsInv ==
  ASSUME PanelInv, WorldOK', Held', QueuesOK', Bounded', PaintedOK', panel' = panel,
         InFlight' => InFlight \/ shown' # "-",
         panel = "performance" => shown' # "-" \/ shown' = shown
  PROVE  PanelInv'
BY DEF PanelInv, TurboPainted

(* Adding one more call where there is room, or in place of something else.   *)
LEMMA CallsOnce ==
  ASSUME PanelInv, NEW call \in Asks(panel), Invoke(call), panel' = panel, replies' = replies,
         \/ Len(calls) + Len(replies) < MaxCalls /\ later' = later
         \/ later > 0 /\ later' = later - 1
  PROVE  QueuesOK' /\ Bounded'
<1>1. /\ calls' \in Seq(Asks(panel)) /\ Len(calls') = Len(calls) + 1
  BY InvokeStep
<1>2. Bounded'
  BY <1>1, BoundFacts DEF Bounded
<1> QED BY <1>1, <1>2 DEF QueuesOK, PanelInv

(* Opening, leaving, the interval and the timeouts.                           *)
LEMMA TurnSteps ==
  ASSUME PanelInv, Open \/ Leave \/ Tick \/ Later \/ RunAnond, Held'
  PROVE  PanelInv'
<1>t. /\ Read \in Asks(panel) /\ Call("load", "") \in Asks(panel)
      /\ Read.kind = "read" /\ Call("load", "").kind = "load"
  BY PanelFacts DEF PanelInv, WorldOK, Read, Call
<1>h. ticking' \in BOOLEAN
  BY DEF Held
<1>1. CASE Open
  <2>1. PICK call \in {Read, Call("load", "")} : Invoke(call)
    BY <1>1 DEF Open, OpenUpdate, OpenCommunity, OpenAwaiting
  <2>2. /\ Len(calls) + Len(replies) < MaxCalls
        /\ UNCHANGED <<panel, actual, online, resting, replies, later, shown, busy, anonVars>>
        /\ open' \in BOOLEAN /\ outside' \in BOOLEAN
    BY <1>1 DEF Open, OpenUpdate, OpenCommunity, OpenAwaiting, UserActs, Room
  <2>3. QueuesOK' /\ Bounded'
    BY <1>t, <2>1, <2>2, CallsOnce
  <2>4. InFlight' => InFlight
    BY <1>t, <2>1, <2>2, InvokeStep DEF InFlight
  <2>5. WorldOK' /\ PaintedOK'
    BY <1>h, <2>2 DEF PanelInv, WorldOK, PaintedOK, anonVars
  <2> QED BY <2>2, <2>3, <2>4, <2>5, KeepsInv
<1>2. CASE Leave
  <2>1. UNCHANGED <<worldVars, calls, replies, later, shown, busy, anonVars>> /\ open' \in BOOLEAN
    BY <1>2 DEF Leave
  <2>2. WorldOK' /\ PaintedOK' /\ QueuesOK' /\ Bounded'
    BY <1>h, <2>1 DEF PanelInv, WorldOK, PaintedOK, QueuesOK, Bounded, worldVars, anonVars
  <2> QED BY <2>1, <2>2, KeepsInv DEF InFlight, worldVars
<1>3. CASE Tick
  <2>1. UNCHANGED <<worldVars, open, replies, later, shown, busy, anonVars>>
    BY <1>3 DEF Tick
  <2>2. WorldOK' /\ PaintedOK'
    BY <1>h, <2>1 DEF PanelInv, WorldOK, PaintedOK, worldVars, anonVars
  <2>3. CASE Invoke(Read)
    <3>1. Len(calls) + Len(replies) < MaxCalls
      BY <1>3 DEF Tick, Room
    <3>2. QueuesOK' /\ Bounded'
      BY <1>t, <2>1, <2>3, <3>1, CallsOnce DEF worldVars
    <3>3. InFlight' => InFlight
      BY <1>t, <2>1, <2>3, InvokeStep DEF InFlight
    <3> QED BY <2>1, <2>2, <3>2, <3>3, KeepsInv DEF worldVars
  <2>4. CASE UNCHANGED calls
    <3>1. QueuesOK' /\ Bounded' /\ InFlight' = InFlight
      BY <2>1, <2>4 DEF PanelInv, QueuesOK, Bounded, InFlight, worldVars
    <3> QED BY <2>1, <2>2, <3>1, KeepsInv DEF worldVars
  <2> QED BY <1>3, <2>3, <2>4 DEF Tick
<1>4. CASE Later
  <2>1. Invoke(Read) /\ later > 0 /\ later' = later - 1
        /\ UNCHANGED <<worldVars, timerVars, replies, shown, busy, anonVars>>
    BY <1>4 DEF Later
  <2>2. QueuesOK' /\ Bounded'
    BY <1>t, <2>1, CallsOnce DEF worldVars
  <2>3. InFlight' => InFlight
    BY <1>t, <2>1, InvokeStep DEF InFlight
  <2>4. WorldOK' /\ PaintedOK'
    BY <1>h, <2>1 DEF PanelInv, WorldOK, PaintedOK, worldVars, timerVars, anonVars
  <2> QED BY <2>1, <2>2, <2>3, <2>4, KeepsInv DEF worldVars
<1>5. CASE RunAnond
  <2>1. /\ Len(calls) + Len(replies) < MaxCalls /\ later < MaxLater /\ later' = later + 1
        /\ UNCHANGED <<worldVars, timerVars, calls, replies, shown, busy, anonVars>>
    BY <1>5 DEF RunAnond, UserActs, Room
  <2>2. Bounded'
    BY <2>1, BoundFacts DEF Bounded
  <2>3. WorldOK' /\ PaintedOK' /\ QueuesOK' /\ InFlight' = InFlight
    BY <2>1 DEF PanelInv, WorldOK, PaintedOK, QueuesOK, InFlight, worldVars, timerVars, anonVars
  <2> QED BY <2>1, <2>2, <2>3, KeepsInv DEF worldVars
<1> QED BY <1>1, <1>2, <1>3, <1>4, <1>5

(* The controls ask only for what their panel can be.                         *)
LEMMA ClickStep ==
  ASSUME PanelInv, Held', NEW painted \in Shown(panel), NEW asked \in Values[panel],
         NEW disables \in BOOLEAN, panel = "performance" => painted # "-",
         Click(painted, asked, disables)
  PROVE  PanelInv'
<1>1. Call("set", asked) \in Asks(panel) /\ Invoke(Call("set", asked))
  BY PanelFacts DEF PanelInv, WorldOK, Click
<1>2. Len(calls) + Len(replies) < MaxCalls
  BY DEF Click, UserActs, Room
<1>3. /\ shown' = painted /\ busy' = disables
      /\ UNCHANGED <<worldVars, timerVars, replies, later, anonVars>>
  BY DEF Click
<1>4. QueuesOK' /\ Bounded'
  BY <1>1, <1>2, <1>3, CallsOnce DEF worldVars
<1>5. WorldOK' /\ PaintedOK'
  BY <1>3 DEF PanelInv, WorldOK, PaintedOK, worldVars, timerVars, anonVars
<1>6. TurboPainted'
  BY <1>3 DEF TurboPainted, worldVars
<1> QED BY <1>4, <1>5, <1>6 DEF PanelInv

LEMMA ClickSteps ==
  ASSUME PanelInv, Held', Clicks
  PROVE  PanelInv'
<1> USE PanelFacts DEF Shown
<1>s. shown \in Shown(panel) /\ panel \in Followed
  BY DEF PanelInv, WorldOK, PaintedOK
<1>1. CASE ClickTurbo \/ ClickCommunity
  <2>1. Opposite(shown) \in {"on", "off"} /\ Values[panel] = {"on", "off"}
    BY <1>1, <1>s DEF ClickTurbo, ClickCommunity
  <2>2. Click(Opposite(shown), Opposite(shown), FALSE)
    BY <1>1 DEF ClickTurbo, ClickCommunity
  <2> QED BY <2>1, <2>2, ClickStep
<1>2. CASE ClickWifi
  <2>1. Opposite(shown) \in Values[panel] /\ panel = "wifi" /\ Click(shown, Opposite(shown), FALSE)
    BY <1>2, <1>s DEF ClickWifi
  <2> QED BY <1>s, <2>1, ClickStep
<1>3. CASE ClickIface
  <2>1. PICK asked \in {"on", "off"} : Click("turning", asked, TRUE)
    BY <1>3 DEF ClickIface
  <2>2. panel = "network"
    BY <1>3 DEF ClickIface
  <2> QED BY <2>1, <2>2, ClickStep
<1>4. CASE ClickDisable
  <2>1. panel = "ports" /\ Click(shown, "off", TRUE)
    BY <1>4 DEF ClickDisable
  <2> QED BY <1>s, <2>1, ClickStep
<1>5. CASE ClickOnion
  <2>1. PICK asked \in {"up", "ready"} : Click(asked, asked, FALSE)
    BY <1>5 DEF ClickOnion
  <2>2. panel = "isolation"
    BY <1>5 DEF ClickOnion
  <2> QED BY <2>1, <2>2, ClickStep
<1>6. CASE RunAnond
  BY <1>6, TurnSteps
<1> QED BY <1>1, <1>2, <1>3, <1>4, <1>5, <1>6 DEF Clicks

(* The main thread answers what it was asked.                                 *)
LEMMA ServeStep ==
  ASSUME PanelInv, Held', calls # <<>>, NEW kind, NEW arg, Reply(kind, arg),
         Call(kind, arg) \in Tells(panel), kind \in {"done", "refused"} => Head(calls).kind = "set",
         actual' \in Values[panel],
         UNCHANGED <<panel, online, resting, outside, timerVars, later, shown, busy, anonVars>>
  PROVE  PanelInv'
<1>1. InFlight' => InFlight
  BY ReplyStep
<1>2. QueuesOK' /\ Len(calls') + Len(replies') = Len(calls) + Len(replies)
  BY ReplyStep DEF QueuesOK
<1>3. Bounded'
  BY <1>2, BoundFacts DEF Bounded
<1>4. WorldOK' /\ PaintedOK'
  BY DEF PanelInv, WorldOK, PaintedOK, timerVars, anonVars
<1> QED BY <1>1, <1>2, <1>3, <1>4, KeepsInv

LEMMA AskedFacts ==
  ASSUME PanelInv, calls # <<>>
  PROVE  /\ Head(calls).kind = "set" => Head(calls).arg \in Values[panel]
         /\ Head(calls).kind = "locate" => Head(calls).arg \in Ips
<1>1. Head(calls) \in Asks(panel)
  BY HeadTailProperties DEF PanelInv, QueuesOK
<1> QED BY <1>1 DEF Asks

LEMMA ServeSteps ==
  ASSUME PanelInv, Held', Serve
  PROVE  PanelInv'
<1>v. actual \in Values[panel] /\ panel \in Followed
  BY DEF PanelInv, WorldOK
<1>1. ASSUME NEW p, NEW v, v \in Values[panel], Answers(p, v) PROVE PanelInv'
  <2>1. /\ calls # <<>> /\ Head(calls).kind \in {"read", "load"} /\ Reply(Head(calls).kind, v)
        /\ UNCHANGED <<worldVars, timerVars, later, shown, busy, anonVars>>
    BY <1>1 DEF Answers
  <2>2. Call(Head(calls).kind, v) \in Tells(panel)
    BY <1>1, <2>1 DEF Call, Tells
  <2> QED BY <1>v, <2>1, <2>2, ServeStep DEF worldVars
<1>2. CASE UpdatesList
  <2>1. panel = "update" /\ (IF online THEN actual ELSE "none") \in Values[panel]
    BY <1>2, <1>v, PanelFacts DEF UpdatesList, Answers
  <2> QED BY <1>1, <1>2, <2>1 DEF UpdatesList
<1>3. CASE PerfStatus \/ NetStatus \/ WifiState \/ NetPorts \/ CommunityStatus \/ ArxonionStatus \/ AnondStatus
  BY <1>1, <1>3, <1>v DEF PerfStatus, NetStatus, WifiState, NetPorts, CommunityStatus, ArxonionStatus, AnondStatus
<1>4. ASSUME NEW p, Elevated(p) PROVE PanelInv'
  <2>1. /\ calls # <<>> /\ Head(calls).kind = "set"
        /\ UNCHANGED <<panel, online, resting, outside, timerVars, later, shown, busy, anonVars>>
    BY <1>4 DEF Elevated
  <2>2. Head(calls).arg \in Values[panel]
    BY <2>1, AskedFacts
  <2>3. PICK kind \in {"done", "refused"} : Reply(kind, Head(calls).arg) /\ actual' \in Values[panel]
    BY <1>4, <1>v, <2>2 DEF Elevated
  <2>4. Call(kind, Head(calls).arg) \in Tells(panel)
    BY <2>2 DEF Call, Tells
  <2> QED BY <2>1, <2>3, <2>4, ServeStep
<1>5. CASE ArxonionToggle
  <2>1. /\ calls # <<>> /\ Head(calls).kind = "set" /\ Reply("done", Head(calls).arg)
        /\ UNCHANGED <<worldVars, timerVars, later, shown, busy, anonVars>>
    BY <1>5 DEF ArxonionToggle
  <2>2. Call("done", Head(calls).arg) \in Tells(panel)
    BY <2>1, AskedFacts DEF Call, Tells
  <2> QED BY <1>v, <2>1, <2>2, ServeStep DEF worldVars
<1>6. CASE AnondExitLocation
  <2>1. /\ calls # <<>> /\ Head(calls).kind = "locate"
        /\ UNCHANGED <<worldVars, timerVars, later, shown, busy, anonVars>>
    BY <1>6 DEF AnondExitLocation
  <2>2. PICK where \in Ips \cup {"unknown"} : Reply("locate", where)
    BY <1>6, <2>1, AskedFacts DEF AnondExitLocation
  <2>3. Call("locate", where) \in Tells(panel)
    BY DEF Call, Tells
  <2> QED BY <1>v, <2>1, <2>2, <2>3, ServeStep DEF worldVars
<1> QED
  BY <1>2, <1>3, <1>4, <1>5, <1>6 DEF Serve, PerfSetTurbo, NetIfaceSet, NetWifiRadio, NetDisableService,
    CommunitySet

(* Taking a reply makes room for a call or a timeout.                         *)
LEMMA RoomAfter ==
  ASSUME PanelInv, Len(replies') = Len(replies) - 1,
         \/ Len(calls') = Len(calls) /\ later' = later
         \/ Len(calls') = Len(calls) /\ later < MaxLater /\ later' = later + 1
         \/ Len(calls') = Len(calls) + 1 /\ later' = later
  PROVE  Bounded'
BY BoundFacts DEF Bounded

(* The page takes a reply, and calls once more, leaves it, or sets a timeout. *)
LEMMA TakeOnly ==
  ASSUME PanelInv, Held', NEW kinds, Takes(kinds), UNCHANGED <<worldVars, open, calls>>,
         \/ later' = later
         \/ later < MaxLater /\ later' = later + 1,
         busy' \in BOOLEAN, shown' \in Shown(panel), panel = "performance" => shown' # "-" \/ shown' = shown,
         lastExitIp' \in Ips \cup {""}, location' \in Ips \cup {"-", "locating", "unknown"}
  PROVE  PanelInv'
<1>1. InFlight' => InFlight
  BY TakesStep DEF InFlight
<1>2. QueuesOK' /\ Len(replies') = Len(replies) - 1 /\ Len(calls') = Len(calls)
  BY TakesStep DEF QueuesOK, PanelInv, worldVars
<1>3. Bounded'
  BY <1>2, RoomAfter
<1>4. WorldOK' /\ PaintedOK'
  BY DEF PanelInv, WorldOK, PaintedOK, worldVars, Held
<1> QED BY <1>1, <1>2, <1>3, <1>4, KeepsInv DEF worldVars

LEMMA TakeAndCall ==
  ASSUME PanelInv, Held', NEW kinds, Takes(kinds), UNCHANGED <<worldVars, open, later>>,
         NEW call \in Asks(panel), Invoke(call), call.kind # "set",
         busy' \in BOOLEAN, shown' \in Shown(panel), panel = "performance" => shown' # "-" \/ shown' = shown,
         lastExitIp' \in Ips \cup {""}, location' \in Ips \cup {"-", "locating", "unknown"}
  PROVE  PanelInv'
<1>1. InFlight' => InFlight
  BY TakesStep, InvokeStep DEF InFlight
<1>2. QueuesOK' /\ Len(replies') = Len(replies) - 1 /\ Len(calls') = Len(calls) + 1
  BY TakesStep, InvokeStep DEF QueuesOK, PanelInv, worldVars
<1>3. Bounded'
  BY <1>2, RoomAfter
<1>4. WorldOK' /\ PaintedOK'
  BY DEF PanelInv, WorldOK, PaintedOK, worldVars, Held
<1> QED BY <1>1, <1>2, <1>3, <1>4, KeepsInv DEF worldVars

LEMMA TakenFacts ==
  ASSUME PanelInv, NEW kinds, Takes(kinds)
  PROVE  /\ Head(replies).kind \in {"read", "load", "done", "refused"} => Value \in Values[panel]
         /\ Head(replies).kind = "locate" => Value \in Ips \cup {"unknown"}
         /\ Head(replies).kind \in {"done", "refused"} => InFlight
<1>1. Head(replies) \in Tells(panel) /\ Head(replies) = replies[1] /\ Len(replies) \in Nat \ {0}
  BY TakesStep
<1> QED BY <1>1 DEF Tells, Value, InFlight

LEMMA PaintSteps ==
  ASSUME PanelInv, Held',
         PaintUpdateCounts \/ PaintPerf \/ PaintNet \/ PaintWifi \/ PaintPorts \/ PaintCommunity
           \/ PaintOnion \/ PaintAnon \/ PaintLocation
  PROVE  PanelInv'
<1>p. /\ busy \in BOOLEAN /\ shown \in Shown(panel) /\ panel \in Followed /\ lastExitIp \in Ips \cup {""}
      /\ location \in Ips \cup {"-", "locating", "unknown"} /\ Values[panel] \subseteq Shown(panel)
      /\ Read \in Asks(panel) /\ Read.kind = "read"
  BY PanelFacts DEF PanelInv, WorldOK, PaintedOK, Shown, Read, Call
<1>n. panel = "performance" => "-" \notin Values[panel]
  <2>1. Values["performance"] = {"on", "off"}
    BY PanelFacts
  <2> QED BY <2>1
<1>v. ASSUME Takes({"read", "load"}) PROVE Value \in Values[panel]
  BY <1>v, TakesStep, TakenFacts
<1>1. ASSUME NEW p, Paints(p) PROVE PanelInv'
  <2>1. Takes({"read", "load"}) /\ shown' = Value
        /\ UNCHANGED <<worldVars, open, calls, later, busy, anonVars>>
    BY <1>1 DEF Paints
  <2> QED BY <1>p, <1>n, <1>v, <2>1, TakeOnly DEF anonVars
<1>2. CASE PaintNet
  <2>1. Takes({"read", "load"}) /\ shown' \in {Value, shown} /\ panel = "network"
        /\ UNCHANGED <<worldVars, open, calls, later, busy, anonVars>>
    BY <1>2 DEF PaintNet
  <2> QED BY <1>p, <1>n, <1>v, <2>1, TakeOnly DEF anonVars
<1>3. ASSUME NEW p, PaintsPart(p) PROVE PanelInv'
  <2>1. Takes({"read", "load"}) /\ UNCHANGED <<worldVars, open, later, anonVars>>
    BY <1>3 DEF PaintsPart
  <2>2. CASE Invoke(Read) /\ UNCHANGED <<shown, busy>>
    BY <1>p, <1>n, <2>1, <2>2, TakeAndCall DEF anonVars
  <2>3. CASE shown' = Value /\ busy' = (busy /\ p # "ports") /\ UNCHANGED calls
    BY <1>p, <1>n, <1>v, <2>1, <2>3, TakeOnly DEF anonVars
  <2> QED BY <1>3, <2>2, <2>3 DEF PaintsPart
<1>4. CASE PaintAnon
  <2>1. Takes({"read", "load"}) /\ shown' = Value /\ UNCHANGED <<worldVars, open, later, busy>> /\ panel = "privacy"
    BY <1>4 DEF PaintAnon
  <2>2. CASE /\ Value \in Ips \ {lastExitIp}
             /\ lastExitIp' = Value /\ location' = "locating" /\ Invoke(Call("locate", Value))
    <3>1. Call("locate", Value) \in Asks(panel) /\ Call("locate", Value).kind # "set"
      BY <1>p, <2>2, PanelFacts DEF Call
    <3> QED BY <1>p, <1>n, <1>v, <2>1, <2>2, <3>1, TakeAndCall
  <2>3. CASE UNCHANGED <<anonVars, calls>>
    BY <1>p, <1>n, <1>v, <2>1, <2>3, TakeOnly DEF anonVars
  <2>4. CASE lastExitIp' = "" /\ location' = "-" /\ UNCHANGED calls
    BY <1>p, <1>n, <1>v, <2>1, <2>4, TakeOnly
  <2> QED BY <1>4, <2>2, <2>3, <2>4 DEF PaintAnon
<1>5. CASE PaintLocation
  <2>1. /\ Takes({"locate"}) /\ location' = Value
        /\ UNCHANGED <<worldVars, timerVars, calls, later, shown, busy, lastExitIp>>
    BY <1>5 DEF PaintLocation
  <2>2. Value \in Ips \cup {"unknown"}
    BY <2>1, TakesStep, TakenFacts
  <2> QED BY <1>p, <1>n, <2>1, <2>2, TakeOnly DEF timerVars
<1> QED
  BY <1>1, <1>2, <1>3, <1>4, <1>5 DEF PaintUpdateCounts, PaintPerf, PaintCommunity, PaintWifi, PaintPorts,
    PaintOnion

(* A refused change inverts a box that shows on or off.                       *)
LEMMA DoneSteps ==
  ASSUME PanelInv, Held',
         TurboDone \/ IfaceDone \/ WifiDone \/ PortsDone \/ CommunityDone \/ OnionDone
  PROVE  PanelInv'
<1>p. /\ busy \in BOOLEAN /\ shown \in Shown(panel) /\ panel \in Followed /\ lastExitIp \in Ips \cup {""}
      /\ location \in Ips \cup {"-", "locating", "unknown"} /\ Values[panel] \subseteq Shown(panel)
      /\ Read \in Asks(panel) /\ Read.kind = "read"
  BY PanelFacts DEF PanelInv, WorldOK, PaintedOK, Shown, Read, Call
<1>v. ASSUME Takes({"done", "refused"}) PROVE Value \in Values[panel] /\ InFlight
  BY <1>v, TakesStep, TakenFacts
<1>1. CASE TurboDone
  <2>1. /\ Takes({"done", "refused"}) /\ panel = "performance"
        /\ UNCHANGED <<worldVars, timerVars, later, busy, anonVars>>
    BY <1>1 DEF TurboDone
  <2>2. CASE Invoke(Read) /\ UNCHANGED shown
    BY <1>p, <2>1, <2>2, TakeAndCall DEF timerVars, anonVars
  <2>3. CASE shown' = Opposite(shown) /\ UNCHANGED calls
    <3>1. shown \in {"on", "off"}
      BY <1>p, <1>v, <2>1, PanelFacts DEF PanelInv, TurboPainted, Shown
    <3>2. shown' \in Shown(panel) /\ shown' # "-"
      BY <1>p, <2>1, <2>3, <3>1, PanelFacts
    <3> QED BY <1>p, <2>1, <2>3, <3>2, TakeOnly DEF timerVars, anonVars
  <2> QED BY <1>1, <2>2, <2>3 DEF TurboDone
<1>2. CASE IfaceDone
  <2>1. /\ Takes({"done", "refused"}) /\ panel = "network" /\ later < MaxLater /\ later' = later + 1
        /\ busy' = FALSE /\ UNCHANGED <<worldVars, timerVars, calls, shown, anonVars>>
    BY <1>2 DEF IfaceDone
  <2> QED BY <1>p, <2>1, TakeOnly DEF timerVars, anonVars
<1>3. CASE WifiDone \/ OnionDone
  <2>1. /\ Takes({"done", "refused"}) /\ later < MaxLater /\ later' = later + 1
        /\ UNCHANGED <<worldVars, timerVars, calls, shown, busy, anonVars>>
    BY <1>3 DEF WifiDone, OnionDone, ToggleDone
  <2> QED BY <1>p, <2>1, TakeOnly DEF timerVars, anonVars
<1>4. CASE PortsDone
  <2>1. /\ Takes({"done", "refused"}) /\ UNCHANGED <<worldVars, timerVars, later, shown, anonVars>>
    BY <1>4 DEF PortsDone
  <2>2. CASE Invoke(Read) /\ UNCHANGED busy
    BY <1>p, <2>1, <2>2, TakeAndCall DEF timerVars, anonVars
  <2>3. CASE busy' = (busy /\ AnotherAsked) /\ UNCHANGED calls
    <3>1. busy' \in BOOLEAN
      BY <2>3
    <3> QED BY <1>p, <2>1, <2>3, <3>1, TakeOnly DEF timerVars, anonVars
  <2> QED BY <1>4, <2>2, <2>3 DEF PortsDone
<1>5. CASE CommunityDone
  <2>1. /\ Takes({"done", "refused"}) /\ panel = "community" /\ shown' \in {Value, Opposite(Value)}
        /\ Invoke(Read) /\ UNCHANGED <<worldVars, timerVars, later, busy, anonVars>>
    BY <1>5 DEF CommunityDone
  <2>2. shown' \in Shown(panel)
    BY <1>p, <1>v, <2>1, PanelFacts
  <2> QED BY <1>p, <2>1, <2>2, TakeAndCall DEF timerVars, anonVars
<1> QED BY <1>1, <1>2, <1>3, <1>4, <1>5

LEMMA PanelInductive == PanelInv /\ [Next]_vars => PanelInv'
<1> SUFFICES ASSUME PanelInv, [Next]_vars PROVE PanelInv'
  OBVIOUS
<1>h. Held'
  BY StepsOfTimer, TimerKeepsHeld DEF PanelInv
<1>1. CASE Changes \/ LinkChanges \/ Rest \/ UNCHANGED vars
  <2>1. /\ UNCHANGED <<panel, timerVars, calls, replies, later, shown, busy, anonVars>>
        /\ actual' \in Values[panel]
        /\ online' \in BOOLEAN /\ resting' \in BOOLEAN /\ outside' \in BOOLEAN
    BY <1>1 DEF Changes, LinkChanges, Rest, vars, timerVars, anonVars, PanelInv, WorldOK
  <2>2. WorldOK' /\ QueuesOK' /\ Bounded' /\ PaintedOK' /\ InFlight' = InFlight
    BY <2>1 DEF PanelInv, WorldOK, QueuesOK, Bounded, PaintedOK, InFlight, timerVars, anonVars
  <2> QED BY <1>h, <2>1, <2>2, KeepsInv
<1> QED
  BY <1>h, <1>1, TurnSteps, ClickSteps, ServeSteps, PaintSteps, DoneSteps DEF Next, Receive

(* Whatever is opened, clicked, refused and answered in any order, the page   *)
(* shows a state its panel has, a box is only inverted after its first paint, *)
(* and the queues and timeouts stay within their bounds (app.js:184-202,      *)
(* 602-640).                                                                  *)
THEOREM PanelTypeCorrect == Spec => []TypeOK
<1>1. Init => PanelInv
  <2> SUFFICES ASSUME Init PROVE PanelInv
    OBVIOUS
  <2>1. calls = <<>> /\ replies = <<>> /\ later = 0
    BY DEF Init
  <2>2. QueuesOK /\ ~InFlight
    BY <2>1 DEF QueuesOK, InFlight
  <2>3. Bounded
    BY <2>1, BoundsAssumption DEF Bounded
  <2>4. WorldOK /\ Held
    BY DEF Init, WorldOK, Held
  <2>5. PaintedOK
    BY DEF Init, PaintedOK, Shown
  <2> QED BY <2>2, <2>3, <2>4, <2>5 DEF PanelInv, TurboPainted
<1> QED BY <1>1, PanelInductive, PanelInvIsTyped, PTL DEF Spec
=============================================================================
