---------------------------- MODULE AnondProofs ----------------------------
(* Proofs about Anond, for every number of readers, every restart bound and   *)
(* every set of failures; those below SingleWriter assume that at most one    *)
(* `up` or `down` runs at a time, which the code itself does not enforce.     *)
EXTENDS Anond, TLAPS

(* What the labels, sessions, snapshots and healths of a step are made of.     *)
LEMMA LabelFacts ==
  /\ UpSteps \subseteq Labels /\ AttachSteps \subseteq Labels /\ DownSteps \subseteq Labels
  /\ "idle" \in Labels /\ "write" \in Labels /\ "s_pub" \in Labels
  /\ Resumes \subseteq Labels
  BY DEF Labels, Resumes, UpSteps, AttachSteps

LEMMA RecordFacts ==
  /\ NoSession \in Session /\ NoView \in Health /\ NoPub \in Snapshot
  /\ \A s \in States, b \in BOOLEAN :
       [state |-> s, i2p |-> b] \in Session /\ [state |-> s, leaking |-> b] \in Health
  /\ \A s \in Session : s.state \in States /\ s.i2p \in BOOLEAN
  /\ \A h \in Health : h.state \in States /\ h.leaking \in BOOLEAN
  /\ \A s \in States, a, b, c \in BOOLEAN :
       [state |-> s, tor |-> a, killswitch |-> b, leaking |-> c] \in Snapshot
  BY DEF Session, Health, Snapshot, NoSession, NoView, NoPub, States

(* The operators the actions are built from keep the types of what they set.  *)
LEMMA GotoType ==
  ASSUME NEW p \in Procs, NEW l \in Labels, TypeOK, Goto(p, l)
  PROVE  pc' \in [Procs -> Labels]
  BY DEF TypeOK, Goto

LEMMA ReturnType ==
  ASSUME NEW p \in Procs, TypeOK, Return(p)
  PROVE  pc' \in [Procs -> Labels] /\ sess' \in [Procs -> Session]
  BY GotoType, LabelFacts, RecordFacts DEF TypeOK, Return

LEMMA TruncateType ==
  ASSUME NEW p \in Procs, NEW s \in Session, NEW l \in Resumes, TypeOK, Truncate(p, s, l)
  PROVE  /\ file' \in Session /\ sess' \in [Procs -> Session]
         /\ ret' \in [Procs -> Resumes] /\ pc' \in [Procs -> Labels]
  BY GotoType, LabelFacts, RecordFacts DEF TypeOK, Truncate

LEMMA WritePubType ==
  ASSUME NEW s \in States, NEW b \in BOOLEAN, TypeOK, WritePub(s, b)
  PROVE  pub' \in Snapshot
<1>1. Running \in BOOLEAN
  BY DEF Running
<1>2. armed \in BOOLEAN
  BY DEF TypeOK
<1>3. QED
  BY <1>1, <1>2, RecordFacts DEF WritePub

LEMMA ClaimType ==
  ASSUME NEW p \in Procs, NEW s \in States, TypeOK
  PROVE  Claim(p, s) \in Session
  BY RecordFacts DEF TypeOK, Claim

LEMMA HealthType ==
  TypeOK => Effective \in States /\ Leaking \in BOOLEAN
  BY RecordFacts DEF TypeOK, Effective, Leaking, States

LEMMA RestartsRange ==
  /\ 0 \in 0..MaxRestarts
  /\ \A n \in 0..MaxRestarts : n < MaxRestarts => n + 1 \in 0..MaxRestarts
  BY RestartsAssumption

(* Every variable keeps its type under every step.                            *)
LEMMA TypeStep == TypeOK /\ [Next]_vars => TypeOK'
<1> SUFFICES ASSUME TypeOK, [Next]_vars PROVE TypeOK'
  OBVIOUS
<1>p. Writers \subseteq Procs /\ Readers \subseteq Procs
  BY DEF Procs
<1>f. /\ {"Down", "Locked", "Bootstrapping", "Active"} \subseteq States
      /\ {"tor"} \in SUBSET Users /\ Users \in SUBSET Users /\ {} \in SUBSET Users
      /\ {"harden", "pin", "boot", "launch", "pub_active", "pub_locked", "att_pub"} \subseteq Resumes
  BY DEF States, Users, Resumes
<1> USE LabelFacts, GotoType, <1>p, <1>f DEF netVars, torVars, hostVars, cmdVars
<1>1. ASSUME NEW p \in Writers, NEW i2p \in BOOLEAN, UpStart(p, i2p) PROVE TypeOK'
  <2>1. [state |-> "Down", i2p |-> i2p] \in Session
    BY <1>1, RecordFacts
  <2>2. sess' \in [Procs -> Session]
    BY <1>1, <2>1 DEF TypeOK, UpStart
  <2>3. pc' \in [Procs -> Labels]
    BY <1>1 DEF UpStart, AttachSteps, UpSteps
  <2>4. QED
    BY <1>1, <2>2, <2>3 DEF TypeOK, UpStart
<1>2. ASSUME NEW p \in Writers, DownStart(p) PROVE TypeOK'
  BY <1>2 DEF TypeOK, DownStart, DownSteps
<1>3. ASSUME NEW p \in Writers, ArmDelete(p) \/ ArmDelete6(p) PROVE TypeOK'
  BY <1>3 DEF TypeOK, ArmDelete, ArmDelete6, DeleteInet, DeleteIp6, UpSteps
<1>4. ASSUME NEW p \in Writers, ArmLoad(p) \/ ArmFlush(p) PROVE TypeOK'
  BY <1>4, ReturnType DEF TypeOK, ArmLoad, ArmFlush, Load, Exempted, UpSteps
<1>5. ASSUME NEW p \in Writers, Locked(p) \/ Harden(p) \/ Boot(p) PROVE TypeOK'
  BY <1>5, TruncateType, ClaimType DEF TypeOK, Locked, Harden, Boot
<1>6. ASSUME NEW p \in Writers, Pin(p) PROVE TypeOK'
  BY <1>6, TruncateType DEF TypeOK, Pin, UpSteps
<1>7. ASSUME NEW p \in Writers, Launch(p) PROVE TypeOK'
  <2>1. pc' \in [Procs -> Labels] /\ tor' \in {"off", "booting", "ready", "ending"}
    BY <1>7 DEF TypeOK, Launch, UpSteps
  <2>2. restarts' \in [Procs -> 0..MaxRestarts]
    BY <1>7, RestartsRange DEF TypeOK, Launch
  <2>3. QED
    BY <1>7, <2>1, <2>2 DEF TypeOK, Launch
<1>8. ASSUME NEW p \in Writers, PollDone(p) PROVE TypeOK'
  <2>1. pub' \in Snapshot
    BY <1>8, WritePubType DEF PollDone
  <2>2. pc' \in [Procs -> Labels]
    BY <1>8 DEF PollDone, UpSteps
  <2>3. restarts' \in [Procs -> 0..MaxRestarts]
    BY <1>8, RestartsRange DEF TypeOK, PollDone
  <2>4. QED
    BY <1>8, <2>1, <2>2, <2>3 DEF TypeOK, PollDone
<1>9. ASSUME NEW p \in Writers, PollRestart(p) PROVE TypeOK'
  <2>1. pub' \in Snapshot
    BY <1>9, WritePubType DEF TypeOK, PollRestart, ShowPct
  <2>2. pc' \in [Procs -> Labels]
    BY <1>9 DEF PollRestart, UpSteps
  <2>3. restarts' \in [Procs -> 0..MaxRestarts]
    BY <1>9, RestartsRange DEF TypeOK, PollRestart
  <2>4. QED
    BY <1>9, <2>1, <2>2, <2>3 DEF TypeOK, PollRestart, StopTor
<1>10. ASSUME NEW p \in Writers, PollFail(p) PROVE TypeOK'
  <2>1. pub' \in Snapshot
    BY <1>10, WritePubType DEF TypeOK, PollFail, ShowPct
  <2>2. pc' \in [Procs -> Labels]
    BY <1>10 DEF PollFail, UpSteps
  <2>3. restarts' \in [Procs -> 0..MaxRestarts]
    BY <1>10, RestartsRange DEF TypeOK, PollFail
  <2>4. QED
    BY <1>10, <2>1, <2>2, <2>3 DEF TypeOK, PollFail
<1>11. ASSUME NEW p \in Writers, PollAgain(p) PROVE TypeOK'
  BY <1>11, WritePubType DEF TypeOK, PollAgain
<1>12. ASSUME NEW p \in Writers, Overlay(p) \/ Probe(p) PROVE TypeOK'
  BY <1>12 DEF TypeOK, Overlay, Probe, UpSteps
<1>13. ASSUME NEW p \in Writers, ExitCheck(p) PROVE TypeOK'
  BY <1>13, TruncateType, ClaimType DEF TypeOK, ExitCheck
<1>14. ASSUME NEW p \in Writers, Fail(p) PROVE TypeOK'
  BY <1>14, TruncateType, ClaimType DEF TypeOK, Fail
<1>15. ASSUME NEW p \in Writers, PubActive(p) \/ PubLocked(p) \/ AttachPub(p) PROVE TypeOK'
  BY <1>15, ReturnType, WritePubType DEF TypeOK, PubActive, PubLocked, AttachPub
<1>16. ASSUME NEW p \in Writers, WriteSession(p) PROVE TypeOK'
  BY <1>16, RecordFacts DEF TypeOK, WriteSession, SaveError, UpSteps, AttachSteps, Resumes
<1>17. ASSUME NEW p \in Writers, NoUser(p) PROVE TypeOK'
  BY <1>17, ReturnType DEF TypeOK, NoUser
<1>18. ASSUME NEW p \in Writers, AttachRearm(p) PROVE TypeOK'
  BY <1>18, ReturnType DEF TypeOK, AttachRearm, Replace, AttachSteps
<1>19. ASSUME NEW p \in Writers, AttachStart(p) \/ AttachUndo(p) PROVE TypeOK'
  BY <1>19 DEF TypeOK, AttachStart, AttachUndo, Replace, AttachSteps
<1>20. ASSUME NEW p \in Writers, AttachLoad(p) \/ AttachSave(p) PROVE TypeOK'
  <2>1. CASE AttachLoad(p)
    <3>1. pc' \in [Procs -> Labels]
      BY <2>1 DEF AttachLoad, AttachSteps
    <3>2. [state |-> file.state, i2p |-> i2pd] \in Session
      BY RecordFacts DEF TypeOK
    <3>3. sess' \in [Procs -> Session]
      BY <2>1, <3>2 DEF TypeOK, AttachLoad
    <3>4. QED
      BY <2>1, <3>1, <3>3 DEF TypeOK, AttachLoad
  <2>2. CASE AttachSave(p)
    BY <2>2, TruncateType DEF TypeOK, AttachSave
  <2>3. QED
    BY <1>20, <2>1, <2>2
<1>21. ASSUME NEW p \in Writers, DownTor(p) \/ DownDns(p) PROVE TypeOK'
  BY <1>21 DEF TypeOK, DownTor, DownDns, StopTor, DownSteps
<1>22. ASSUME NEW p \in Writers, DownKillswitch(p) \/ DownKillswitch6(p) PROVE TypeOK'
  BY <1>22 DEF TypeOK, DownKillswitch, DownKillswitch6, DeleteInet, DeleteIp6, DownSteps
<1>23. ASSUME NEW p \in Writers, DownClear(p) PROVE TypeOK'
  BY <1>23, RecordFacts DEF TypeOK, DownClear, DownSteps
<1>24. ASSUME NEW p \in Writers, DownPub(p) PROVE TypeOK'
  BY <1>24, WritePubType DEF TypeOK, DownPub
<1>25. ASSUME NEW p \in Readers, StatusStart(p) PROVE TypeOK'
  BY <1>25, HealthType, RecordFacts DEF TypeOK, StatusStart
<1>26. ASSUME NEW p \in Readers, StatusPub(p) PROVE TypeOK'
  BY <1>26, WritePubType, RecordFacts DEF TypeOK, StatusPub
<1>27. ASSUME NEW p \in Procs, Kill(p) PROVE TypeOK'
  <2>1. /\ pc' \in [Procs -> Labels] /\ ret' \in [Procs -> Resumes]
        /\ gates' \in [Procs -> BOOLEAN]
    BY <1>27 DEF TypeOK, Kill, Resumes
  <2>2. sess' \in [Procs -> Session] /\ view' \in [Procs -> Health]
    BY <1>27, RecordFacts DEF TypeOK, Kill
  <2>3. restarts' \in [Procs -> 0..MaxRestarts]
    BY <1>27, RestartsRange DEF TypeOK, Kill
  <2>4. QED
    BY <1>27, <2>1, <2>2, <2>3 DEF TypeOK, Kill
<1>28. CASE Environment
  BY <1>28 DEF TypeOK, Environment, TorReady, TorDies, TorGone, I2pdDies
<1>29. CASE Reboot
  <2>1. /\ pc' \in [Procs -> Labels] /\ ret' \in [Procs -> Resumes]
        /\ gates' \in [Procs -> BOOLEAN]
    BY <1>29 DEF Reboot, Resumes
  <2>2. sess' \in [Procs -> Session] /\ view' \in [Procs -> Health] /\ pub' \in Snapshot
    BY <1>29, RecordFacts DEF Reboot
  <2>3. restarts' \in [Procs -> 0..MaxRestarts]
    BY <1>29, RestartsRange DEF Reboot
  <2>4. QED
    BY <1>29, <2>1, <2>2, <2>3 DEF TypeOK, Reboot
<1>30. CASE UNCHANGED vars
  BY <1>30 DEF TypeOK, vars
<1>31. QED
  BY <1>1, <1>2, <1>3, <1>4, <1>5, <1>6, <1>7, <1>8, <1>9, <1>10, <1>11, <1>12, <1>13, <1>14, <1>15, <1>16, <1>17, <1>18, <1>19, <1>20, <1>21, <1>22, <1>23, <1>24, <1>25, <1>26, <1>27, <1>28, <1>29, <1>30 DEF Next, Apart, Work, UpStep, AttachStep, DownStep

LEMMA TypeInit == Init => TypeOK
<1> SUFFICES ASSUME Init PROVE TypeOK
  OBVIOUS
<1>1. pc \in [Procs -> Labels] /\ ret \in [Procs -> Resumes] /\ gates \in [Procs -> BOOLEAN]
  BY LabelFacts DEF Init, Resumes
<1>2. sess \in [Procs -> Session] /\ view \in [Procs -> Health]
  BY RecordFacts DEF Init
<1>3. restarts \in [Procs -> 0..MaxRestarts]
  BY RestartsRange DEF Init
<1>4. QED
  BY RecordFacts, <1>1, <1>2, <1>3 DEF Init, TypeOK

(* The type invariant of the daemon, with any number of concurrent writers.   *)
THEOREM TypeCorrect == Spec => []TypeOK
  BY TypeInit, TypeStep, PTL DEF Spec

-----------------------------------------------------------------------------
(* The two facts about the state that IInv adds to its type.                  *)
Safe == NoFalseGreen /\ \A p \in Writers : Coherent(p)

(* IInv is inductive when at most one writer runs.                            *)
LEMMA Inductive == SingleWriter /\ IInv /\ [Next]_vars => IInv'
<1> SUFFICES ASSUME SingleWriter, TypeOK, Safe, [Next]_vars PROVE Safe'
  BY TypeStep DEF IInv, Safe
<1> USE ProcsAssumption DEF Safe, TypeOK, Session, NoFalseGreen, Effective, Running, Coherent, ArmedAt,
      ClaimAt, PinnedAt, WriteAt, DrainAt, ArmSteps, BringUp, Published, AfterTor, AttachSteps,
      netVars, torVars, hostVars, cmdVars, NoSession, At, Goto, Claim, Procs, SingleWriter
<1>1. ASSUME NEW p \in Writers, DownStart(p) PROVE Safe'
  BY <1>1 DEF DownStart
<1>2. ASSUME NEW p \in Writers, NEW i2p \in BOOLEAN, UpStart(p, i2p) PROVE Safe'
  BY <1>2 DEF UpStart
<1>3. ASSUME NEW p \in Writers, ArmDelete(p) \/ ArmDelete6(p) PROVE Safe'
  BY <1>3 DEF ArmDelete, ArmDelete6, DeleteInet, DeleteIp6
<1>4. ASSUME NEW p \in Writers, ArmLoad(p) \/ ArmFlush(p) PROVE Safe'
  BY <1>4 DEF ArmLoad, ArmFlush, Load, Exempted, Return
<1>5. ASSUME NEW p \in Writers, Locked(p) \/ Harden(p) \/ Boot(p) PROVE Safe'
  <2>1. CASE Locked(p)
    BY <2>1 DEF Locked, Truncate
  <2>2. CASE Harden(p)
    BY <2>2 DEF Harden, Truncate
  <2>3. CASE Boot(p)
    BY <2>3 DEF Boot, Truncate
  <2>4. QED
    BY <1>5, <2>1, <2>2, <2>3
<1>6. ASSUME NEW p \in Writers, Pin(p) PROVE Safe'
  <2>1. CASE Truncate(p, sess[p], "boot") /\ pinned'
    BY <1>6, <2>1 DEF Pin, Truncate
  <2>2. CASE Goto(p, "fail") /\ UNCHANGED <<file, sess, ret>>
    BY <1>6, <2>2 DEF Pin
  <2>3. QED
    BY <1>6, <2>1, <2>2 DEF Pin
<1>7. ASSUME NEW p \in Writers, Launch(p) PROVE Safe'
  BY <1>7 DEF Launch
<1>8. ASSUME NEW p \in Writers, PollDone(p) PROVE Safe'
  BY <1>8 DEF PollDone
<1>9. ASSUME NEW p \in Writers, PollRestart(p) \/ PollFail(p) \/ PollAgain(p) PROVE Safe'
  <2>1. CASE PollRestart(p)
    BY <2>1 DEF PollRestart, StopTor
  <2>2. CASE PollFail(p)
    BY <2>2 DEF PollFail
  <2>3. CASE PollAgain(p)
    BY <2>3 DEF PollAgain
  <2>4. QED
    BY <1>9, <2>1, <2>2, <2>3
<1>10. ASSUME NEW p \in Writers, Overlay(p) \/ Probe(p) PROVE Safe'
  <2>1. CASE Overlay(p)
    BY <2>1 DEF Overlay
  <2>2. CASE Probe(p)
    BY <2>2 DEF Probe
  <2>3. QED
    BY <1>10, <2>1, <2>2
<1>11. ASSUME NEW p \in Writers, ExitCheck(p) PROVE Safe'
  BY <1>11 DEF ExitCheck, Truncate
<1>12. ASSUME NEW p \in Writers, Fail(p) PROVE Safe'
  BY <1>12 DEF Fail, Truncate
<1>13. ASSUME NEW p \in Writers, PubActive(p) \/ PubLocked(p) \/ AttachPub(p) PROVE Safe'
  <2>1. CASE PubActive(p)
    BY <2>1 DEF PubActive, Return
  <2>2. CASE PubLocked(p)
    BY <2>2 DEF PubLocked, Return
  <2>3. CASE AttachPub(p)
    BY <2>3 DEF AttachPub, Return
  <2>4. QED
    BY <1>13, <2>1, <2>2, <2>3
<1>14. ASSUME NEW p \in Writers, WriteSession(p) PROVE Safe'
  <2>1. CASE file' = sess[p] /\ Goto(p, ret[p])
    BY <1>14, <2>1 DEF WriteSession, Resumes
  <2>2. CASE Goto(p, SaveError(ret[p])) /\ UNCHANGED file
    BY <1>14, <2>2 DEF WriteSession, SaveError
  <2>3. QED
    BY <1>14, <2>1, <2>2 DEF WriteSession
<1>15. ASSUME NEW p \in Writers, NoUser(p) PROVE Safe'
  BY <1>15 DEF NoUser, Return
<1>16. ASSUME NEW p \in Writers, AttachRearm(p) \/ AttachUndo(p) PROVE Safe'
  BY <1>16 DEF AttachRearm, AttachUndo, Replace
<1>17. ASSUME NEW p \in Writers, AttachStart(p) PROVE Safe'
  BY <1>17 DEF AttachStart
<1>18. ASSUME NEW p \in Writers, AttachLoad(p) \/ AttachSave(p) PROVE Safe'
  BY <1>18 DEF AttachLoad, AttachSave, Truncate
<1>19. ASSUME NEW p \in Writers, DownTor(p) \/ DownDns(p) PROVE Safe'
  BY <1>19 DEF DownTor, DownDns, StopTor
<1>20. ASSUME NEW p \in Writers, DownKillswitch(p) \/ DownKillswitch6(p) PROVE Safe'
  BY <1>20 DEF DownKillswitch, DownKillswitch6, DeleteInet, DeleteIp6
<1>21. ASSUME NEW p \in Writers, DownClear(p) \/ DownPub(p) PROVE Safe'
  <2>1. CASE DownClear(p)
    BY <2>1 DEF DownClear
  <2>2. CASE DownPub(p)
    BY <2>2 DEF DownPub
  <2>3. QED
    BY <1>21, <2>1, <2>2
<1>22. ASSUME NEW p \in Readers, StatusStart(p) \/ StatusPub(p) PROVE Safe'
  BY <1>22 DEF StatusStart, StatusPub
<1>23. ASSUME NEW p \in Procs, Kill(p) PROVE Safe'
  BY <1>23 DEF Kill
<1>24. CASE Environment \/ Reboot
  BY <1>24 DEF Environment, TorReady, TorDies, TorGone, I2pdDies, Reboot
<1>25. CASE UNCHANGED vars
  BY <1>25 DEF vars
<1> HIDE DEF Safe, TypeOK, Coherent, Procs
<1>26. QED
  BY <1>1, <1>2, <1>3, <1>4, <1>5, <1>6, <1>7, <1>8, <1>9, <1>10, <1>11, <1>12, <1>13, <1>14, <1>15, <1>16, <1>17, <1>18, <1>19, <1>20, <1>21, <1>22, <1>23, <1>24, <1>25
  DEF Next, Apart, Work, UpStep, AttachStep, DownStep

LEMMA InitIInv == Init => IInv
<1> SUFFICES ASSUME Init PROVE IInv
  OBVIOUS
<1>1. TypeOK
  BY TypeInit
<1>2. \A p \in Writers : pc[p] = "idle"
  BY DEF Init, Procs
<1>3. NoFalseGreen
  BY DEF Init, NoFalseGreen, Effective, NoSession, Running
<1>4. \A p \in Writers : Coherent(p)
  BY <1>2 DEF Coherent, ArmedAt, ClaimAt, PinnedAt, WriteAt, DrainAt, ArmSteps, BringUp,
    Published, AfterTor, AttachSteps
<1>5. QED
  BY <1>1, <1>3, <1>4 DEF IInv

(* Where the one writer is decides what is loaded, what runs and what may be  *)
(* claimed, in every reachable state.                                         *)
THEOREM Invariance ==
  ASSUME SingleWriter
  PROVE  Spec => []IInv
  BY InitIInv, Inductive, PTL DEF Spec

(* What the program reports as Active is protected, for any number of status  *)
(* readers, any restart bound and any combination of failures, as long as     *)
(* writers do not overlap.                                                    *)
THEOREM NoFalseGreenHolds ==
  ASSUME SingleWriter
  PROVE  Spec => []NoFalseGreen
<1>1. IInv => NoFalseGreen
  BY DEF IInv
<1>2. QED
  BY <1>1, Invariance, PTL

(* The kill-switch is removed last: after i2pd is dead, Tor has been told to  *)
(* stop and nothing is claimed any more, from whatever state `down` starts.   *)
THEOREM SwitchRemovedLastHolds ==
  ASSUME SingleWriter
  PROVE  Spec => []SwitchRemovedLast
<1>1. IInv => SwitchRemovedLast
  BY DEF IInv, TypeOK, Coherent, DrainAt, AfterTor, Running, Effective, SwitchRemovedLast
<1>2. QED
  BY <1>1, Invariance, PTL

(* A bring-up that fails after arming leaves both tables loaded.              *)
THEOREM FailureStaysBlockedHolds ==
  ASSUME SingleWriter
  PROVE  Spec => []FailureStaysBlocked
<1>1. IInv => FailureStaysBlocked
  BY DEF IInv, Coherent, ArmedAt, BringUp, Published, FailureStaysBlocked
<1>2. QED
  BY <1>1, Invariance, PTL

-----------------------------------------------------------------------------
(* What holds between commands when none is killed and every save succeeds:   *)
(* a session that is not recorded has nothing left (but a table nft refused   *)
(* to delete), and what the panel shows as Active is recorded. In between,    *)
(* where the one writer is decides.                                           *)
NotKilled == Writers # {} /\ Readers = {} /\ "kill" \notin Faults /\ "save" \notin Faults

Settled ==
  file = NoSession =>
    /\ ~Running /\ ~i2pd
    /\ "delete" \notin Faults => ~armed /\ ~armed6
Quiet == pub.state = "Active" => file.state = "Active"

RestAt(p) ==
  /\ pc[p] \in {"idle", "arm", "arm6", "load"} => Settled /\ Quiet
  /\ pc[p] \in AttachSteps \cup {"pub_active"} => file.state = "Active"
  /\ pc[p] \in BringUp \cup {"pub_locked"} => file.state # "Down"
  /\ pc[p] \in BringUp \cup {"write"} => sess[p].state # "Down"
  /\ pc[p] = "att_save" => sess[p].state = "Active"
  /\ pc[p] = "write" /\ ret[p] \in {"pub_active", "att_pub"} => sess[p].state = "Active"

Rest == \A p \in Writers : RestAt(p)

(* Rest is inductive beside IInv.                                             *)
LEMMA RestInductive ==
  SingleWriter /\ NotKilled /\ IInv /\ Rest /\ [Next]_vars => Rest'
<1> SUFFICES ASSUME SingleWriter, NotKilled, TypeOK, Rest, [Next]_vars,
                    \A p \in Writers : WriteAt(p) /\ DrainAt(p)
             PROVE  Rest'
  BY DEF IInv, Coherent
<1> USE DEF NotKilled, Rest, RestAt, Settled, Quiet, TypeOK, Session, WriteAt, DrainAt, Running,
      BringUp, Published, AfterTor, AttachSteps, netVars, torVars, hostVars, cmdVars, NoSession,
      At, Goto, Claim, Procs, SingleWriter
<1>1. ASSUME NEW p \in Writers, DownStart(p) PROVE Rest'
  BY <1>1 DEF DownStart
<1>2. ASSUME NEW p \in Writers, NEW i2p \in BOOLEAN, UpStart(p, i2p) PROVE Rest'
  <2>1. file.state = "Active" \/ Effective # "Active"
    BY DEF Effective
  <2>2. QED
    BY <1>2, <2>1 DEF UpStart
<1>3. ASSUME NEW p \in Writers, ArmDelete(p) \/ ArmDelete6(p) PROVE Rest'
  BY <1>3 DEF ArmDelete, ArmDelete6, DeleteInet, DeleteIp6
<1>4. ASSUME NEW p \in Writers, ArmLoad(p) \/ ArmFlush(p) PROVE Rest'
  BY <1>4 DEF ArmLoad, ArmFlush, Load, Return
<1>5. ASSUME NEW p \in Writers, Locked(p) \/ Harden(p) \/ Boot(p) PROVE Rest'
  <2>1. CASE Locked(p)
    BY <2>1 DEF Locked, Truncate
  <2>2. CASE Harden(p)
    BY <2>2 DEF Harden, Truncate
  <2>3. CASE Boot(p)
    BY <2>3 DEF Boot, Truncate
  <2>4. QED
    BY <1>5, <2>1, <2>2, <2>3
<1>6. ASSUME NEW p \in Writers, Pin(p) PROVE Rest'
  <2>1. CASE Truncate(p, sess[p], "boot")
    BY <1>6, <2>1 DEF Pin, Truncate
  <2>2. CASE Goto(p, "fail") /\ UNCHANGED <<file, sess, ret>>
    BY <1>6, <2>2 DEF Pin
  <2>3. QED
    BY <1>6, <2>1, <2>2 DEF Pin
<1>7. ASSUME NEW p \in Writers, Launch(p) PROVE Rest'
  BY <1>7 DEF Launch
<1>8. ASSUME NEW p \in Writers, PollDone(p) \/ PollRestart(p) \/ PollFail(p) PROVE Rest'
  <2>1. CASE PollDone(p)
    BY <2>1 DEF PollDone
  <2>2. CASE PollRestart(p)
    BY <2>2 DEF PollRestart, StopTor
  <2>3. CASE PollFail(p)
    BY <2>3 DEF PollFail
  <2>4. QED
    BY <1>8, <2>1, <2>2, <2>3
<1>9. ASSUME NEW p \in Writers, PollAgain(p) PROVE Rest'
  BY <1>9 DEF PollAgain
<1>10. ASSUME NEW p \in Writers, Overlay(p) \/ Probe(p) PROVE Rest'
  <2>1. CASE Overlay(p)
    BY <2>1 DEF Overlay
  <2>2. CASE Probe(p)
    BY <2>2 DEF Probe
  <2>3. QED
    BY <1>10, <2>1, <2>2
<1>11. ASSUME NEW p \in Writers, ExitCheck(p) \/ Fail(p) PROVE Rest'
  <2>1. CASE ExitCheck(p)
    BY <2>1 DEF ExitCheck, Truncate
  <2>2. CASE Fail(p)
    BY <2>2 DEF Fail, Truncate
  <2>3. QED
    BY <1>11, <2>1, <2>2
<1>12. ASSUME NEW p \in Writers, PubActive(p) \/ PubLocked(p) \/ AttachPub(p) PROVE Rest'
  <2>1. CASE PubActive(p)
    BY <2>1 DEF PubActive, Return, WritePub
  <2>2. CASE PubLocked(p)
    BY <2>2 DEF PubLocked, Return, WritePub
  <2>3. CASE AttachPub(p)
    BY <2>3 DEF AttachPub, Return, WritePub
  <2>4. QED
    BY <1>12, <2>1, <2>2, <2>3
<1>13. ASSUME NEW p \in Writers, WriteSession(p) PROVE Rest'
  BY <1>13 DEF WriteSession, Resumes
<1>14. ASSUME NEW p \in Writers, NoUser(p) PROVE Rest'
  BY <1>14 DEF NoUser, Return
<1>15. ASSUME NEW p \in Writers, AttachRearm(p) \/ AttachUndo(p) \/ AttachStart(p) PROVE Rest'
  BY <1>15 DEF AttachRearm, AttachUndo, AttachStart, Replace
<1>16. ASSUME NEW p \in Writers, AttachLoad(p) \/ AttachSave(p) PROVE Rest'
  BY <1>16 DEF AttachLoad, AttachSave, Truncate
<1>17. ASSUME NEW p \in Writers, DownTor(p) \/ DownDns(p) PROVE Rest'
  BY <1>17 DEF DownTor, DownDns, StopTor
<1>18. ASSUME NEW p \in Writers, DownKillswitch(p) \/ DownKillswitch6(p) PROVE Rest'
  BY <1>18 DEF DownKillswitch, DownKillswitch6, DeleteInet, DeleteIp6
<1>19. ASSUME NEW p \in Writers, DownClear(p) PROVE Rest'
  BY <1>19 DEF DownClear
<1>20. ASSUME NEW p \in Writers, DownPub(p) PROVE Rest'
  BY <1>20 DEF DownPub, WritePub
<1>21. CASE Environment
  BY <1>21 DEF Environment, TorReady, TorDies, TorGone, I2pdDies
<1>22. CASE Reboot
  BY <1>22 DEF Reboot, NoPub
<1>23. CASE UNCHANGED vars
  BY <1>23 DEF vars
<1>24. \A p \in Procs : ~Kill(p)
  BY DEF Kill
<1>25. Readers = {}
  OBVIOUS
<1> HIDE DEF Rest, TypeOK, Procs, NotKilled
<1>26. QED
  BY <1>1, <1>2, <1>3, <1>4, <1>5, <1>6, <1>7, <1>8, <1>9, <1>10, <1>11, <1>12, <1>13, <1>14, <1>15, <1>16, <1>17, <1>18, <1>19, <1>20, <1>21, <1>22, <1>23, <1>24, <1>25
  DEF Next, Apart, Work, UpStep, AttachStep, DownStep

LEMMA RestInvariance ==
  ASSUME SingleWriter, NotKilled
  PROVE  Spec => []Rest
<1>1. Init => Rest
  BY DEF Init, Rest, RestAt, Settled, Quiet, Running, NoSession, NoPub, Procs, BringUp,
         AttachSteps
<1>2. QED
  BY <1>1, RestInductive, Invariance, PTL DEF Spec

(* Between commands, what the panel shows as Active is recorded as Active,    *)
(* for any restart bound and every failure but a kill and a failed save, with *)
(* no status reader beside the commands.                                      *)
THEOREM QuietSnapshotHolds ==
  ASSUME SingleWriter, NotKilled
  PROVE  Spec => []QuietSnapshot
<1>1. Rest => QuietSnapshot
  BY DEF Rest, RestAt, Quiet, QuietSnapshot, Idle, Procs, NotKilled
<1>2. QED
  BY <1>1, RestInvariance, PTL

(* Between commands, where no session is recorded nothing of one is left, as  *)
(* long as nft deletes what it is told to.                                    *)
THEOREM NoOrphanHolds ==
  ASSUME SingleWriter, NotKilled, "delete" \notin Faults
  PROVE  Spec => []NoOrphan
<1>1. Rest => NoOrphan
  BY DEF Rest, RestAt, Settled, NoOrphan, Idle, Procs, NotKilled
<1>2. QED
  BY <1>1, RestInvariance, PTL
=============================================================================
