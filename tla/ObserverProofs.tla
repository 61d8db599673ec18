--------------------------- MODULE ObserverProofs ---------------------------
(* Proofs about Anond with an observer beside it. First the connection of     *)
(* Packets: no clear connection under a claim, and the refinement of          *)
(* Protection, when at most one `up` or `down` runs at a time. Then the       *)
(* history of MCAnondRace: for writers and readers that overlap and fail in   *)
(* every way, one `down` that runs alone releases the host, and one bring-up  *)
(* that runs alone blocks it.                                                 *)
EXTENDS Packets, MCAnondRace, AnondProofs

(* A step of Packets is one of Anond, or one of the connection alone.         *)
LEMMA Base == [PacketNext]_packetVars => [Next]_vars
  BY DEF PacketNext, packetVars, Next, Connect, Disconnect, Resume, Revive, Restart, Flush

(* Where a connection may be opened in the clear, nothing is claimed and no   *)
(* bring-up is past its flush.                                                *)
LEMMA OpenIsUnclaimed ==
  ASSUME IInv, ~armed
  PROVE  Effective # "Active" /\ \A p \in Writers : pc[p] \notin Sealed
  BY DEF IInv, NoFalseGreen, Coherent, ArmedAt, Sealed

(* What a step of Anond may do to what is blocked and what is claimed.        *)
Holds == UNCHANGED <<Blocked, Claimed>>
Blocks == ~Blocked /\ Blocked' /\ Claimed' = Claimed
Unblocks == Blocked /\ ~Claimed /\ ~Blocked' /\ ~Claimed'
Withdraws == Claimed /\ ~Claimed' /\ Blocked' = Blocked
Claims == Blocked /\ ~Claimed /\ Claimed' /\ Blocked' /\ \E p \in Writers : pc[p] = "write"
Moves == Holds \/ Blocks \/ Unblocks \/ Withdraws \/ Claims

LEMMA ApartMoves == SingleWriter /\ IInv /\ Apart => Moves
<1> SUFFICES ASSUME SingleWriter, IInv, Apart PROVE Moves
  OBVIOUS
<1> USE ProcsAssumption DEF IInv, TypeOK, Session, NoFalseGreen, Effective, Running, Coherent,
      ArmedAt, ClaimAt, WriteAt, DrainAt, ArmSteps, BringUp, Published, AfterTor, AttachSteps,
      netVars, torVars, hostVars, cmdVars, NoSession, At, Goto, Claim, Procs, SingleWriter,
      Moves, Holds, Blocks, Unblocks, Withdraws, Claims, Blocked, Claimed
<1>1. ASSUME NEW p \in Writers, DownStart(p) PROVE Moves
  BY <1>1 DEF DownStart
<1>2. ASSUME NEW p \in Writers, NEW i2p \in BOOLEAN, UpStart(p, i2p) PROVE Moves
  BY <1>2 DEF UpStart
<1>3. ASSUME NEW p \in Writers, ArmDelete(p) \/ ArmDelete6(p) PROVE Moves
  BY <1>3 DEF ArmDelete, ArmDelete6, DeleteInet, DeleteIp6
<1>4. ASSUME NEW p \in Writers, ArmLoad(p) PROVE Moves
  BY <1>4 DEF ArmLoad, Load, Return
<1>5. ASSUME NEW p \in Writers, Locked(p) \/ Harden(p) \/ Boot(p) PROVE Moves
  BY <1>5 DEF Locked, Harden, Boot, Truncate
<1>6. ASSUME NEW p \in Writers, Pin(p) PROVE Moves
  <2>1. CASE Truncate(p, sess[p], "boot")
    BY <1>6, <2>1 DEF Pin, Truncate
  <2>2. CASE UNCHANGED file
    BY <1>6, <2>2 DEF Pin
  <2>3. QED
    BY <1>6, <2>1, <2>2 DEF Pin
<1>7. ASSUME NEW p \in Writers, Launch(p) PROVE Moves
  BY <1>7 DEF Launch
<1>8. ASSUME NEW p \in Writers, PollDone(p) \/ PollRestart(p) \/ PollFail(p) \/ PollAgain(p) PROVE Moves
  BY <1>8 DEF PollDone, PollRestart, StopTor, PollFail, PollAgain
<1>9. ASSUME NEW p \in Writers, Overlay(p) \/ Probe(p) PROVE Moves
  BY <1>9 DEF Overlay, Probe
<1>10. ASSUME NEW p \in Writers, ExitCheck(p) \/ Fail(p) PROVE Moves
  BY <1>10 DEF ExitCheck, Fail, Truncate
<1>11. ASSUME NEW p \in Writers, PubActive(p) \/ PubLocked(p) \/ AttachPub(p) PROVE Moves
  BY <1>11 DEF PubActive, PubLocked, AttachPub
<1>12. ASSUME NEW p \in Writers, WriteSession(p) PROVE Moves
  BY <1>12 DEF WriteSession
<1>13. ASSUME NEW p \in Writers, NoUser(p) PROVE Moves
  BY <1>13 DEF NoUser
<1>14. ASSUME NEW p \in Writers, AttachRearm(p) \/ AttachUndo(p) PROVE Moves
  BY <1>14 DEF AttachRearm, AttachUndo, Replace
<1>15. ASSUME NEW p \in Writers, AttachStart(p) \/ AttachLoad(p) \/ AttachSave(p) PROVE Moves
  BY <1>15 DEF AttachStart, AttachLoad, AttachSave, Truncate
<1>16. ASSUME NEW p \in Writers, DownTor(p) \/ DownDns(p) PROVE Moves
  BY <1>16 DEF DownTor, DownDns, StopTor
<1>17. ASSUME NEW p \in Writers, DownKillswitch(p) \/ DownKillswitch6(p) PROVE Moves
  BY <1>17 DEF DownKillswitch, DownKillswitch6, DeleteInet, DeleteIp6
<1>18. ASSUME NEW p \in Writers, DownClear(p) \/ DownPub(p) PROVE Moves
  BY <1>18 DEF DownClear, DownPub
<1>19. ASSUME NEW p \in Readers, StatusStart(p) \/ StatusPub(p) PROVE Moves
  BY <1>19 DEF StatusStart, StatusPub
<1>20. ASSUME NEW p \in Procs, Kill(p) PROVE Moves
  BY <1>20 DEF Kill
<1>21. CASE Environment
  BY <1>21 DEF Environment, TorReady, TorDies, TorGone, I2pdDies
<1> HIDE DEF IInv, TypeOK, Coherent, Procs, Moves
<1>22. QED
  BY <1>1, <1>2, <1>3, <1>4, <1>5, <1>6, <1>7, <1>8, <1>9, <1>10, <1>11, <1>12, <1>13, <1>14, <1>15, <1>16, <1>17, <1>18, <1>19, <1>20, <1>21 DEF Apart, Work, UpStep, AttachStep, DownStep

(* A command is past its flush only by the flush, or on a claimed session.    *)
LEMMA SealedBefore ==
  ASSUME SingleWriter, IInv, Apart, NEW p \in Writers, pc'[p] \in Sealed
  PROVE  pc[p] \in Sealed \/ Claimed
<1> USE ProcsAssumption DEF IInv, TypeOK, Sealed, BringUp, Published, AttachSteps, At, Goto, Procs,
      SingleWriter, Claimed, cmdVars
<1>1. ASSUME NEW q \in Writers, DownStart(q) \/ DownStep(q) PROVE pc[p] \in Sealed
  <2>1. pc' = [pc EXCEPT ![q] = pc'[q]] /\ pc'[q] \in {"idle"} \cup DownSteps
    BY <1>1 DEF DownStart, DownStep, DownTor, DownDns, DownKillswitch, DownKillswitch6, DownClear,
      DownPub, DownSteps
  <2>2. QED
    BY <2>1 DEF DownSteps
<1>2. ASSUME NEW q \in Writers, NEW i2p \in BOOLEAN, UpStart(q, i2p) PROVE Claimed \/ pc[p] \in Sealed
  BY <1>2 DEF UpStart
<1>3. ASSUME NEW q \in Writers, UpStep(q), pc[p] \notin Sealed PROVE FALSE
  <2>1. CASE ArmDelete(q) \/ ArmDelete6(q) \/ ArmLoad(q)
    BY <1>3, <2>1 DEF ArmDelete, ArmDelete6, ArmLoad, Return
  <2>2. CASE ~(ArmDelete(q) \/ ArmDelete6(q) \/ ArmLoad(q))
    BY <1>3, <2>2 DEF UpStep, Locked, Harden, Pin, Boot, Launch, PollDone, PollRestart, PollFail,
      Overlay, Probe, ExitCheck, Fail, PubActive, PubLocked, WriteSession
  <2>3. QED
    BY <2>1, <2>2
<1>4. ASSUME NEW q \in Writers, AttachStep(q) \/ PollAgain(q) \/ NoUser(q) PROVE pc[p] \in Sealed
  BY <1>4 DEF AttachStep, AttachRearm, AttachStart, AttachUndo, AttachLoad, AttachSave, AttachPub, PollAgain,
    NoUser, Return
<1>5. ASSUME NEW q \in Readers, StatusStart(q) \/ StatusPub(q) PROVE pc[p] \in Sealed
  BY <1>5 DEF StatusStart, StatusPub
<1>6. ASSUME NEW q \in Procs, Kill(q) PROVE pc[p] \in Sealed
  BY <1>6 DEF Kill
<1>7. CASE Environment
  BY <1>7 DEF Environment, TorReady, TorDies, TorGone, I2pdDies
<1> HIDE DEF IInv, TypeOK, Sealed, Procs, Claimed
<1>8. QED
  BY <1>1, <1>2, <1>3, <1>4, <1>5, <1>6, <1>7 DEF Apart, Work

FlowInv == IInv /\ NoClearFlow

LEMMA FlowInductive ==
  ASSUME SingleWriter
  PROVE  FlowInv /\ [PacketNext]_packetVars => FlowInv'
<1> SUFFICES ASSUME IInv, NoClearFlow, [PacketNext]_packetVars PROVE NoClearFlow'
  BY Base, Inductive DEF FlowInv
<1>1. CASE UNCHANGED vars
  <2>1. CASE ~armed
    BY <1>1, <2>1, OpenIsUnclaimed DEF NoClearFlow, vars, netVars, hostVars, Effective, Running
  <2>2. CASE conn' = "direct" => conn = "direct"
    BY <1>1, <2>2 DEF NoClearFlow, vars, netVars, hostVars, Effective, Running
  <2>3. CASE armed /\ conn' = "direct" /\ conn # "direct"
    <3>1. CASE Connect \/ Disconnect \/ Resume \/ Revive \/ Restart \/ UNCHANGED packetVars
      BY <2>3, <3>1 DEF Connect, Disconnect, Resume, Revive, Restart, packetVars
    <3>2. ASSUME NEW p \in Writers, Flush(p) PROVE FALSE
      BY <2>3, <3>2 DEF Flush
    <3>3. CASE Apart /\ UNCHANGED conn
      BY <2>3, <3>3
    <3>4. QED
      BY <3>1, <3>2, <3>3 DEF PacketNext
  <2>4. QED
    BY <2>1, <2>2, <2>3
<1>2. CASE Restart
  BY <1>2 DEF Restart, NoClearFlow
<1>3. ASSUME NEW p \in Writers, Flush(p) PROVE NoClearFlow'
  BY <1>3 DEF Flush, NoClearFlow
<1>4. CASE Apart /\ UNCHANGED conn
  <2>1. Claimed' => Claimed \/ \E p \in Writers : pc[p] \in Sealed
    BY <1>4, ApartMoves DEF Moves, Holds, Blocks, Unblocks, Withdraws, Claims, Sealed
  <2>2. \A p \in Writers : pc'[p] \in Sealed => pc[p] \in Sealed \/ Claimed
    BY <1>4, SealedBefore
  <2>3. QED
    BY <1>4, <2>1, <2>2 DEF NoClearFlow, Claimed, Sealed
<1>5. QED
  BY <1>1, <1>2, <1>3, <1>4 DEF PacketNext, packetVars, Connect, Disconnect, Resume, Revive

LEMMA FlowInvariance ==
  ASSUME SingleWriter
  PROVE  PacketSpec => []FlowInv
<1>1. PacketInit => FlowInv
  BY InitIInv DEF PacketInit, FlowInv, NoClearFlow
<1>2. QED
  BY <1>1, FlowInductive, PTL DEF PacketSpec

(* Under a claim a connection of an ordinary user leaves in the clear only if *)
(* the user was told to close it or its peer has spoken since the flush, for  *)
(* every failure and every number of readers, as long as writers do not       *)
(* overlap.                                                                   *)
THEOREM NoClearFlowHolds ==
  ASSUME SingleWriter
  PROVE  PacketSpec => []NoClearFlow
<1>1. FlowInv => NoClearFlow
  BY DEF FlowInv
<1>2. QED
  BY <1>1, FlowInvariance, PTL

LEMMA StepImplements ==
  ASSUME SingleWriter
  PROVE  FlowInv /\ [PacketNext]_packetVars => [Abstract!Next]_(Abstract!vars)
<1> SUFFICES ASSUME FlowInv, [PacketNext]_packetVars PROVE [Abstract!Next]_(Abstract!vars)
  OBVIOUS
<1> USE DEF Abstract!Next, Abstract!vars, Abstract!Block, Abstract!Unblock, Abstract!Claim,
      Abstract!Withdraw, Abstract!Connect, Abstract!Answer, Abstract!Disconnect, Abstract!Restart
<1>1. UNCHANGED vars => UNCHANGED <<Blocked, Claimed>>
  BY DEF vars, netVars, hostVars, Blocked, Claimed, Effective, Running
<1>2. CASE Connect \/ Resume \/ Revive
  BY <1>1, <1>2 DEF Connect, Resume, Revive, Blocked, Flow
<1>3. CASE Disconnect \/ UNCHANGED packetVars
  BY <1>1, <1>3 DEF Disconnect, packetVars, Flow
<1>4. CASE Restart
  BY <1>4 DEF Restart, Reboot, Blocked, Claimed, Effective, Running, Flow
<1>5. ASSUME NEW p \in Writers, Flush(p) PROVE [Abstract!Next]_(Abstract!vars)
  <2>1. UNCHANGED <<Blocked, Claimed>>
    BY <1>5 DEF Flush, ArmFlush, netVars, hostVars, Blocked, Claimed, Effective, Running
  <2>2. QED
    BY <1>5, <2>1 DEF Flush, Flow
<1>6. CASE Apart /\ UNCHANGED conn
  <2>0. UNCHANGED Flow
    BY <1>6 DEF Flow
  <2> USE <2>0
  <2>1. Moves
    BY <1>6, ApartMoves DEF FlowInv
  <2>2. CASE Claims
    <3>1. Flow # "clear"
      BY <2>2 DEF Claims, FlowInv, NoClearFlow, Sealed, Flow
    <3>2. QED
      BY <1>6, <2>2, <3>1 DEF Claims
  <2>3. CASE Holds
    BY <1>6, <2>3 DEF Holds
  <2>4. CASE Blocks
    BY <1>6, <2>4 DEF Blocks
  <2>5. CASE Unblocks
    <3>1. Blocked' = FALSE /\ Claimed' = Claimed
      BY <2>5 DEF Unblocks, Blocked, Claimed
    <3>2. QED
      BY <1>6, <2>5, <3>1 DEF Unblocks
  <2>6. CASE Withdraws
    <3>1. Claimed' = FALSE
      BY <2>6 DEF Withdraws, Claimed
    <3>2. QED
      BY <1>6, <2>6, <3>1 DEF Withdraws
  <2>7. QED
    BY <2>1, <2>2, <2>3, <2>4, <2>5, <2>6 DEF Moves
<1>7. QED
  BY <1>2, <1>3, <1>4, <1>5, <1>6 DEF PacketNext

(* Anond with its rules implements Protection: what is claimed was blocked    *)
(* and flushed before, the block is lifted only after the claim, and what     *)
(* still leaves in the clear was cut and answers its peer.                    *)
THEOREM KeepsPromiseHolds ==
  ASSUME SingleWriter
  PROVE  PacketSpec => KeepsPromise
<1>1. PacketInit => Abstract!Init
  BY DEF PacketInit, Init, Abstract!Init, Blocked, Claimed, Effective, NoSession, Running,
    Flow
<1>2. QED
  BY <1>1, StepImplements, FlowInvariance, PTL DEF PacketSpec, KeepsPromise, Abstract!Spec

-----------------------------------------------------------------------------
(* Where a bring-up is when both tables stand with the rules it loaded.       *)
Blocking(p) ==
  \/ pc[p] \in {"flush", "locked"} \cup BringUp \cup Published
  \/ pc[p] = "write" /\ ret[p] # "att_pub"

UpAt(p) ==
  /\ pc[p] \in {"arm6", "load"} /\ armed => "inet" \in kept[p]
  /\ Blocking(p) => armed /\ armed6 /\ Exempted(p) \subseteq exempt
  /\ Blocking(p) => exempt = Exempted(p) \/ "inet" \in kept[p]
  /\ pc[p] = "exit" /\ gates[p] => pinned
  /\ pc[p] = "write" /\ ret[p] = "pub_active" => sess[p].state = "Active" /\ pinned
  /\ pc[p] = "pub_active" => file.state = "Active" /\ pinned

(* What the steps of `down` have released, but for what was refused.          *)
ReleasedAt(p) ==
  /\ pc[p] \in {"d_ks", "d_ks6", "d_clear", "d_pub"} /\ pinned => "pin" \in kept[p]
  /\ pc[p] \in {"d_ks6", "d_clear", "d_pub"} /\ (armed \/ exempt # {}) => "inet" \in kept[p]
  /\ pc[p] \in {"d_clear", "d_pub"} /\ armed6 => "ip6" \in kept[p]

(* A `down` that has been alone so far has undone what its steps undo, and a  *)
(* bring-up has done what its steps do.                                       *)
LoneAt(p) == DrainAt(p) /\ ReleasedAt(p) /\ UpAt(p)
RaceInv == TypeOK /\ \A p \in Writers : alone[p] => LoneAt(p)

(* What the history of a command that is alone keeps and adds in a step.      *)
Notes(p) ==
  /\ kept[p] \subseteq kept'[p]
  /\ Leaves(p, {"arm", "d_ks"}) /\ (armed' \/ exempt' # {}) => "inet" \in kept'[p]
  /\ Leaves(p, {"arm6", "d_ks6"}) /\ armed6' => "ip6" \in kept'[p]
  /\ Leaves(p, {"d_dns"}) /\ pinned' => "pin" \in kept'[p]

LEMMA AloneNotes ==
  ASSUME RaceNext, NEW p \in Writers, Alone(p)
  PROVE  Notes(p)
<1>1. kept'[p] = kept[p] \cup Refused(p)
  BY DEF RaceNext
<1>2. QED
  BY <1>1 DEF Notes, Refused

(* Tor does not come up by itself, and what dies does not disturb `down`.     *)
LEMMA EnvironmentDrains ==
  ASSUME TypeOK, NEW p \in Writers, DrainAt(p), Environment, pc[p] \in AfterTor \cup {"d_tor"}
  PROVE  DrainAt(p)'
BY DEF Environment, TorReady, TorDies, TorGone, I2pdDies, DrainAt, AfterTor, Running, netVars, torVars

(* The steps of `down` undo one thing after the other.                        *)
LEMMA DownDrains ==
  ASSUME TypeOK, NEW p \in Writers, DrainAt(p), DownStep(p)
  PROVE  DrainAt(p)'
<1>p. p \in Procs
  BY DEF Procs
<1> USE <1>p DEF TypeOK, DrainAt, AfterTor, Running, At, Goto, netVars, torVars, hostVars
<1>1. CASE DownTor(p) \/ DownDns(p)
  BY <1>1 DEF DownTor, DownDns, StopTor
<1>2. CASE DownKillswitch(p) \/ DownKillswitch6(p)
  BY <1>2 DEF DownKillswitch, DownKillswitch6, DeleteInet, DeleteIp6
<1>3. CASE DownClear(p)
  BY <1>3 DEF DownClear
<1>4. CASE DownPub(p)
  BY <1>4 DEF DownPub
<1>5. QED
  BY <1>1, <1>2, <1>3, <1>4 DEF DownStep

(* What they do not undo has been refused, and is noted.                      *)
LEMMA DownReleases ==
  ASSUME TypeOK, NEW p \in Writers, ReleasedAt(p), DownStep(p), Notes(p)
  PROVE  ReleasedAt(p)'
<1>p. p \in Procs
  BY DEF Procs
<1> USE <1>p DEF TypeOK, ReleasedAt, Notes, Leaves, Labels, DownSteps, At, Goto, netVars, hostVars
<1>1. CASE DownTor(p)
  BY <1>1 DEF DownTor
<1>2. CASE DownDns(p)
  BY <1>2 DEF DownDns
<1>3. CASE DownKillswitch(p)
  BY <1>3 DEF DownKillswitch
<1>4. CASE DownKillswitch6(p)
  BY <1>4 DEF DownKillswitch6
<1>5. CASE DownClear(p)
  BY <1>5 DEF DownClear
<1>6. CASE DownPub(p)
  BY <1>6 DEF DownPub
<1>7. QED
  BY <1>1, <1>2, <1>3, <1>4, <1>5, <1>6 DEF DownStep

(* No other step of a writer leads into the middle of `down`.                 *)
LEMMA ElsewhereDrains ==
  ASSUME TypeOK, NEW p \in Writers,
         UpStep(p) \/ AttachStep(p) \/ PollAgain(p) \/ NoUser(p) \/ ArmFlush(p) \/ Kill(p)
           \/ \E i2p \in BOOLEAN : UpStart(p, i2p)
  PROVE  pc'[p] \notin DownSteps
<1>p. p \in Procs
  BY DEF Procs
<1>r. ret[p] \in Resumes
  BY <1>p DEF TypeOK
<1> USE <1>p DEF TypeOK, At, Goto, DownSteps, Return, Truncate
<1>1. CASE ArmDelete(p) \/ ArmDelete6(p) \/ ArmLoad(p) \/ ArmFlush(p) \/ Locked(p)
  BY <1>1 DEF ArmDelete, ArmDelete6, ArmLoad, ArmFlush, Locked
<1>2. CASE Harden(p) \/ Pin(p) \/ Boot(p) \/ Launch(p)
  BY <1>2 DEF Harden, Pin, Boot, Launch
<1>3. CASE PollDone(p) \/ PollRestart(p) \/ PollFail(p) \/ PollAgain(p)
  BY <1>3 DEF PollDone, PollRestart, PollFail, PollAgain
<1>4. CASE Overlay(p) \/ Probe(p) \/ ExitCheck(p) \/ Fail(p)
  BY <1>4 DEF Overlay, Probe, ExitCheck, Fail
<1>5. CASE PubActive(p) \/ PubLocked(p) \/ NoUser(p) \/ Kill(p)
  BY <1>5 DEF PubActive, PubLocked, NoUser, Kill
<1>6. CASE WriteSession(p)
  BY <1>6, <1>r DEF WriteSession, SaveError, Resumes
<1>7. CASE AttachStep(p)
  BY <1>7 DEF AttachStep, AttachRearm, AttachStart, AttachUndo, AttachLoad, AttachSave, AttachPub
<1>8. ASSUME NEW i2p \in BOOLEAN, UpStart(p, i2p) PROVE pc'[p] \notin DownSteps
  BY <1>8 DEF UpStart
<1>9. QED
  BY <1>1, <1>2, <1>3, <1>4, <1>5, <1>6, <1>7, <1>8 DEF UpStep

(* What starts or goes on is not idle before or after.                        *)
LEMMA WriterIsBusy ==
  ASSUME TypeOK, NEW q \in Writers,
         DownStart(q) \/ DownStep(q) \/ UpStep(q) \/ AttachStep(q) \/ PollAgain(q) \/ NoUser(q)
           \/ ArmFlush(q) \/ Kill(q) \/ \E i2p \in BOOLEAN : UpStart(q, i2p)
  PROVE  ~(pc[q] = "idle" /\ pc'[q] = "idle")
<1>p. q \in Procs
  BY DEF Procs
<1> USE <1>p DEF TypeOK, At, Goto
<1>1. CASE DownStart(q) \/ \E i2p \in BOOLEAN : UpStart(q, i2p)
  BY <1>1 DEF DownStart, UpStart
<1>2. CASE DownStep(q)
  BY <1>2 DEF DownStep, DownTor, DownDns, DownKillswitch, DownKillswitch6, DownClear, DownPub
<1>3. CASE UpStep(q)
  BY <1>3 DEF UpStep, ArmDelete, ArmDelete6, ArmLoad, Locked, Harden, Pin, Boot, Launch, PollDone,
    PollRestart, PollFail, Overlay, Probe, ExitCheck, Fail, PubActive, PubLocked, WriteSession
<1>4. CASE AttachStep(q)
  BY <1>4 DEF AttachStep, AttachRearm, AttachStart, AttachUndo, AttachLoad, AttachSave, AttachPub
<1>5. CASE PollAgain(q) \/ NoUser(q) \/ ArmFlush(q) \/ Kill(q)
  BY <1>5 DEF PollAgain, NoUser, ArmFlush, Kill
<1>6. QED
  BY <1>1, <1>2, <1>3, <1>4, <1>5

(* A bring-up does one thing after the other, and nothing else writes its     *)
(* tables or its pin.                                                         *)
LEMMA UpStepBuilds ==
  ASSUME TypeOK, NEW p \in Writers, UpAt(p), UpStep(p) \/ ArmFlush(p), Notes(p)
  PROVE  UpAt(p)'
<1>p. p \in Procs
  BY DEF Procs
<1>r. sess[p] \in Session /\ ret[p] \in Resumes
  BY <1>p DEF TypeOK
<1>n. kept[p] \subseteq kept'[p]
  BY DEF Notes
<1> USE <1>p, <1>r, <1>n DEF TypeOK, UpAt, Blocking, BringUp, Published, Exempted, Claim, At, Goto, Session,
      Users, netVars, torVars, hostVars, cmdVars
<1>0. CASE ArmFlush(p)
  BY <1>0 DEF ArmFlush
<1>1. CASE ArmDelete(p) \/ ArmDelete6(p)
  <2>1. CASE ArmDelete(p)
    <3>1. pc[p] = "arm" /\ pc'[p] = "arm6" /\ UNCHANGED sess
      BY <2>1 DEF ArmDelete
    <3>2. armed' => "inet" \in kept'[p]
      BY <3>1 DEF Notes, Leaves, Labels, UpSteps
    <3>3. QED
      BY <3>1, <3>2
  <2>2. CASE ArmDelete6(p)
    <3>1. pc[p] = "arm6" /\ pc'[p] = "load" /\ armed' = armed
      BY <2>2 DEF ArmDelete6
    <3>2. QED
      BY <3>1
  <2>3. QED
    BY <1>1, <2>1, <2>2
<1>2. CASE ArmLoad(p)
  BY <1>2 DEF ArmLoad, Load, Return
<1>3. CASE Locked(p) \/ Harden(p) \/ Boot(p)
  <2>1. UNCHANGED <<netVars, pinned>> /\ pc'[p] = "write" /\ ret'[p] # "pub_active" /\ Blocking(p)
    BY <1>3 DEF Locked, Harden, Boot, Truncate
  <2>2. sess'[p].i2p = sess[p].i2p
    BY <1>3 DEF Locked, Harden, Boot, Truncate
  <2>3. QED
    BY <2>1, <2>2
<1>4. CASE Pin(p)
  <2>1. CASE Truncate(p, sess[p], "boot")
    <3>1. UNCHANGED netVars /\ pc'[p] = "write" /\ ret'[p] = "boot" /\ Blocking(p)
      BY <1>4, <2>1 DEF Pin, Truncate
    <3>2. sess'[p] = sess[p]
      BY <2>1 DEF Truncate
    <3>3. QED
      BY <3>1, <3>2
  <2>2. CASE UNCHANGED <<file, sess, ret>> /\ Goto(p, "fail")
    BY <1>4, <2>2 DEF Pin
  <2>3. QED
    BY <1>4, <2>1, <2>2 DEF Pin
<1>5. CASE Launch(p)
  BY <1>5 DEF Launch
<1>6. CASE PollDone(p) \/ PollRestart(p) \/ PollFail(p)
  BY <1>6 DEF PollDone, PollRestart, PollFail
<1>7. CASE Overlay(p) \/ Probe(p)
  BY <1>7 DEF Overlay, Probe
<1>8. CASE ExitCheck(p) \/ Fail(p)
  <2>1. UNCHANGED <<netVars, pinned>> /\ pc'[p] = "write" /\ Blocking(p)
    BY <1>8 DEF ExitCheck, Fail, Truncate
  <2>2. sess'[p].i2p = sess[p].i2p
    BY <1>8 DEF ExitCheck, Fail, Truncate
  <2>3. ret'[p] = "pub_active" => sess'[p].state = "Active" /\ pinned
    BY <1>8 DEF ExitCheck, Fail, Truncate
  <2>4. QED
    BY <2>1, <2>2, <2>3
<1>9. CASE PubActive(p) \/ PubLocked(p)
  BY <1>9 DEF PubActive, PubLocked, Return
<1>10. CASE WriteSession(p)
  BY <1>10 DEF WriteSession, SaveError, Resumes
<1>11. QED
  BY <1>0, <1>1, <1>2, <1>3, <1>4, <1>5, <1>6, <1>7, <1>8, <1>9, <1>10 DEF UpStep

(* Every other step of a writer leads out of the bring-up or waits in it.     *)
LEMMA ElsewhereBuilds ==
  ASSUME TypeOK, NEW p \in Writers, UpAt(p),
         DownStart(p) \/ DownStep(p) \/ AttachStep(p) \/ PollAgain(p) \/ NoUser(p) \/ Kill(p)
           \/ \E i2p \in BOOLEAN : UpStart(p, i2p),
         Notes(p)
  PROVE  UpAt(p)'
<1>p. p \in Procs
  BY DEF Procs
<1>n. kept[p] \subseteq kept'[p]
  BY DEF Notes
<1> USE <1>p, <1>n DEF TypeOK, UpAt, Blocking, BringUp, Published, At, Goto
<1>1. CASE DownStart(p) \/ DownStep(p)
  BY <1>1 DEF DownStart, DownStep, DownTor, DownDns, DownKillswitch, DownKillswitch6, DownClear, DownPub
<1>2. CASE AttachStep(p)
  BY <1>2 DEF AttachStep, AttachRearm, AttachStart, AttachUndo, AttachLoad, AttachSave, AttachPub, Truncate, Return
<1>3. CASE PollAgain(p)
  BY <1>3 DEF PollAgain, netVars, hostVars, cmdVars, Exempted
<1>4. CASE NoUser(p) \/ Kill(p) \/ \E i2p \in BOOLEAN : UpStart(p, i2p)
  BY <1>4 DEF NoUser, Kill, UpStart, Return
<1>5. QED
  BY <1>1, <1>2, <1>3, <1>4

(* What readers, the environment and idle writers leave alone.                *)
LEMMA OthersBuild ==
  ASSUME TypeOK, NEW p \in Writers, UpAt(p), ReleasedAt(p), kept[p] \subseteq kept'[p],
         UNCHANGED <<netVars, pinned, file, pc[p], sess[p], ret[p], gates[p]>>
  PROVE  UpAt(p)' /\ ReleasedAt(p)'
<1>1. UpAt(p)'
  BY DEF UpAt, Blocking, Exempted, netVars
<1>2. ReleasedAt(p)'
  BY DEF ReleasedAt, netVars
<1>3. QED
  BY <1>1, <1>2

LEMMA RaceInductive == RaceInv /\ [RaceNext]_RaceVars => RaceInv'
<1> SUFFICES ASSUME RaceInv, [RaceNext]_RaceVars PROVE RaceInv'
  OBVIOUS
<1>t. TypeOK /\ TypeOK' /\ [Next]_vars
  BY TypeStep DEF RaceInv, RaceNext, RaceVars
<1>p. Writers \subseteq Procs
  BY DEF Procs
<1>1. ASSUME NEW p \in Writers, alone'[p], UNCHANGED RaceVars PROVE LoneAt(p)'
  <2>1. alone[p] /\ UNCHANGED vars /\ UNCHANGED kept
    BY <1>1 DEF RaceVars
  <2>2. DrainAt(p) /\ UpAt(p) /\ ReleasedAt(p)
    BY <2>1 DEF RaceInv, LoneAt
  <2>3. UpAt(p)' /\ ReleasedAt(p)'
    BY <1>t, <2>1, <2>2, OthersBuild DEF vars, hostVars, cmdVars
  <2>4. DrainAt(p)'
    BY <2>1, <2>2 DEF vars, netVars, hostVars, DrainAt, Running
  <2>5. QED
    BY <2>3, <2>4 DEF LoneAt
<1>2. ASSUME NEW p \in Writers, alone'[p], Next, Alone(p), Notes(p) PROVE LoneAt(p)'
  <2>1. pc'[p] # "idle" /\ \A q \in Writers \ {p} : pc[q] = "idle" /\ pc'[q] = "idle"
    BY <1>2 DEF Alone, OthersIdle
  <2>2. DrainAt(p) /\ UpAt(p) /\ ReleasedAt(p)
    <3>1. CASE pc[p] = "idle"
      BY <3>1 DEF DrainAt, AfterTor, UpAt, Blocking, BringUp, Published, ReleasedAt
    <3>2. CASE alone[p]
      BY <3>2 DEF RaceInv, LoneAt
    <3>3. QED
      BY <1>2, <3>1, <3>2 DEF Alone
  <2>k. kept[p] \subseteq kept'[p]
    BY <1>2 DEF Notes
  <2>3. ASSUME pc'[p] \notin DownSteps PROVE DrainAt(p)' /\ ReleasedAt(p)'
    BY <2>3 DEF DrainAt, ReleasedAt, AfterTor, DownSteps
  <2>4. ASSUME NEW q \in Readers, StatusStart(q) \/ StatusPub(q) \/ Kill(q) PROVE LoneAt(p)'
    <3>1. q # p /\ p \in Procs /\ q \in Procs
      BY ProcsAssumption DEF Procs
    <3>2. UNCHANGED <<netVars, hostVars, file, pc[p], sess[p], ret[p], gates[p]>>
      BY <1>t, <2>4, <3>1 DEF StatusStart, StatusPub, Kill, Goto, TypeOK
    <3>3. UpAt(p)' /\ ReleasedAt(p)'
      BY <1>t, <2>2, <2>k, <3>2, OthersBuild DEF hostVars
    <3>4. DrainAt(p)'
      BY <2>2, <3>2 DEF DrainAt, netVars, hostVars, Running
    <3>5. QED
      BY <3>3, <3>4 DEF LoneAt
  <2>5. CASE Environment
    <3>1. UNCHANGED <<netVars, pinned, file, pc, cmdVars>>
      BY <2>5 DEF Environment, TorReady, TorDies, TorGone, I2pdDies
    <3>2. UpAt(p)' /\ ReleasedAt(p)'
      BY <1>t, <2>2, <2>k, <3>1, OthersBuild DEF cmdVars
    <3>3. CASE pc[p] \in AfterTor \cup {"d_tor"}
      BY <1>t, <2>2, <2>5, <3>2, <3>3, EnvironmentDrains DEF LoneAt
    <3>4. CASE pc[p] \notin AfterTor \cup {"d_tor"}
      BY <2>3, <3>1, <3>2, <3>4 DEF AfterTor, DownSteps, LoneAt
    <3>5. QED
      BY <3>3, <3>4
  <2>6. ~Reboot
    BY <1>p, <2>1 DEF Reboot
  <2>7. ASSUME NEW q \in Writers,
               DownStart(q) \/ DownStep(q) \/ UpStep(q) \/ AttachStep(q) \/ PollAgain(q)
                 \/ NoUser(q) \/ ArmFlush(q) \/ Kill(q) \/ \E i2p \in BOOLEAN : UpStart(q, i2p)
        PROVE  LoneAt(p)'
    <3>1. q = p
      BY <1>t, <2>1, <2>7, WriterIsBusy
    <3>2. UpAt(p)'
      BY <1>t, <1>2, <2>2, <2>7, <3>1, UpStepBuilds, ElsewhereBuilds
    <3>3. CASE DownStep(p)
      BY <1>t, <1>2, <2>2, <3>2, <3>3, DownDrains, DownReleases DEF LoneAt
    <3>4. CASE DownStart(p)
      <4>1. pc'[p] = "d_tor" /\ ~i2pd'
        BY <1>t, <1>p, <3>4 DEF DownStart, TypeOK, Goto
      <4>2. DrainAt(p)' /\ ReleasedAt(p)'
        BY <4>1 DEF DrainAt, AfterTor, ReleasedAt
      <4>3. QED
        BY <3>2, <4>2 DEF LoneAt
    <3>5. CASE ~DownStep(p) /\ ~DownStart(p)
      BY <1>t, <2>3, <2>7, <3>1, <3>2, <3>5, ElsewhereDrains DEF LoneAt
    <3>6. QED
      BY <3>3, <3>4, <3>5
  <2>8. QED
    BY <1>2, <2>4, <2>5, <2>6, <2>7 DEF Next, Apart, Work, Procs
<1>3. ASSUME NEW p \in Writers, alone'[p] PROVE LoneAt(p)'
  <2>1. CASE UNCHANGED RaceVars
    BY <1>1, <1>3, <2>1
  <2>2. CASE RaceNext
    <3>1. Alone(p)
      BY <1>3, <2>2 DEF RaceNext
    <3>2. QED
      BY <1>2, <1>3, <2>2, <3>1, AloneNotes DEF RaceNext
  <2>3. QED
    BY <2>1, <2>2
<1>4. QED
  BY <1>t, <1>3 DEF RaceInv

LEMMA RaceInvariance == RaceSpec => []RaceInv
<1>1. RaceInit => RaceInv
  BY TypeInit DEF RaceInit, RaceInv
<1>2. QED
  BY <1>1, RaceInductive, PTL DEF RaceSpec

(* Whatever races, crashes and torn files have left behind, one `down` that   *)
(* runs by itself to its end releases the host, but for what nft or the       *)
(* resolver file refused while it ran (main.rs:230-247).                      *)
THEOREM LoneDownIsCompleteHolds == RaceSpec => []LoneDownIsComplete
<1>1. RaceInv => LoneDownIsComplete
  <2> SUFFICES ASSUME RaceInv, NEW p \in Writers, alone[p], pc[p] = "d_pub"
               PROVE  /\ file = NoSession /\ ~i2pd /\ tor \in {"off", "ending"}
                      /\ armed \/ exempt # {} => "inet" \in kept[p]
                      /\ armed6 => "ip6" \in kept[p]
                      /\ pinned => "pin" \in kept[p]
    BY DEF LoneDownIsComplete
  <2>1. DrainAt(p) /\ ReleasedAt(p) /\ TypeOK
    BY DEF RaceInv, LoneAt
  <2>2. file = NoSession /\ ~i2pd /\ tor \in {"off", "ending"}
    BY <2>1 DEF DrainAt, AfterTor, Running, TypeOK
  <2>3. QED
    BY <2>1, <2>2 DEF ReleasedAt
<1>2. QED
  BY <1>1, RaceInvariance, PTL

(* And one `up` that runs by itself blocks it again, with the exemptions of   *)
(* its own session only (but for a table nft refused to delete), and reports  *)
(* Active only with the pin in place and the session recorded                 *)
(* (main.rs:140-222).                                                         *)
THEOREM LoneUpIsProtectedHolds == RaceSpec => []LoneUpIsProtected
<1>1. RaceInv => LoneUpIsProtected
  BY DEF RaceInv, LoneAt, UpAt, Blocking, BringUp, Published, LoneUpIsProtected
<1>2. QED
  BY <1>1, RaceInvariance, PTL
=============================================================================
