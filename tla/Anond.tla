------------------------------- MODULE Anond -------------------------------
(* The anond command-line daemon: `up [--i2p]`, `down` and `status` as        *)
(* processes that run concurrently (nothing in the code takes a lock), over   *)
(* the host state they share: the two nftables tables, Tor, i2pd, the pin in  *)
(* /etc/resolv.conf, session.json and the public snapshot pub.json.           *)
(*                                                                            *)
(* One action per external command or file write that another process could  *)
(* see the effect of; reads with nothing in between are one action.           *)
(* Hardening (harden.rs) and the exact resolver contents are in HostSession.  *)
EXTENDS Naturals

CONSTANTS
  Writers,      \* slots in which `up` and `down` run, one command at a time
  Readers,      \* slots in which `status` runs
  MaxRestarts,  \* MAX_RESTARTS of wait_bootstrap_with (4 in the code)
  Faults        \* the kinds of failure the environment may inject

FaultKinds == {"kill", "reboot", "tor", "i2pd", "nft", "delete", "flush", "save", "dns", "launch", "uid"}
Procs == Writers \cup Readers

ASSUME RestartsAssumption == MaxRestarts \in Nat
ASSUME FaultsAssumption == Faults \subseteq FaultKinds
ASSUME ProcsAssumption == Writers \cap Readers = {}

VARIABLES
  armed,     \* table `inet anond` is loaded
  armed6,    \* table `ip6 anond6` is loaded
  exempt,    \* users the loaded tables let out directly
  tor,       \* the Tor process; ending: told to stop, still there
  log100,    \* tor.log contains "Bootstrapped 100%"
  i2pd,      \* the i2pd process is alive
  pinned,    \* /etc/resolv.conf is anond's pin
  file,      \* what state::load() returns
  pub,       \* /run/anond/pub.json
  pc,        \* the next step of each process
  sess,      \* its Session in memory
  ret,       \* where it continues after Session::save
  restarts,  \* how often its wait for the bootstrap has restarted Tor
  gates,     \* the kill-switch, DNS and IPv6 probes of its verify::run
  view       \* the Health its `status` computed

netVars  == <<armed, armed6, exempt>>
torVars  == <<tor, log100>>
hostVars == <<tor, log100, i2pd, pinned>>
cmdVars  == <<sess, ret, restarts, gates, view>>
vars     == <<netVars, hostVars, file, pub, pc, cmdVars>>

Users  == {"tor", "i2pd"}
States == {"Down", "Locked", "Bootstrapping", "Active"}   \* Draining is never stored
Session  == [state : States, i2p : BOOLEAN]
Health   == [state : States, leaking : BOOLEAN]
Snapshot == [state : States \cup {"none"}, tor : BOOLEAN, killswitch : BOOLEAN, leaking : BOOLEAN]

(* load() = None: the file is absent, truncated or unparsable. Callers read   *)
(* that as State::Down and i2p = false.                                       *)
NoSession == [state |-> "Down", i2p |-> FALSE]
NoView    == [state |-> "Down", leaking |-> FALSE]
NoPub     == [state |-> "none", tor |-> FALSE, killswitch |-> FALSE, leaking |-> FALSE]

UpSteps     == {"arm", "arm6", "load", "flush", "locked", "harden", "pin", "boot", "launch", "wait",
                "overlay", "probe", "exit", "fail", "pub_active", "pub_locked"}
AttachSteps == {"att_rearm", "att_start", "att_undo", "att_load", "att_save", "att_pub"}
DownSteps   == {"d_tor", "d_dns", "d_ks", "d_ks6", "d_clear", "d_pub"}
Resumes     == {"idle", "harden", "pin", "boot", "launch", "pub_active", "pub_locked", "att_pub"}
Labels      == {"idle", "write", "s_pub"} \cup UpSteps \cup AttachSteps \cup DownSteps

TypeOK ==
  /\ armed \in BOOLEAN /\ armed6 \in BOOLEAN /\ exempt \in SUBSET Users
  /\ tor \in {"off", "booting", "ready", "ending"} /\ log100 \in BOOLEAN
  /\ i2pd \in BOOLEAN /\ pinned \in BOOLEAN
  /\ file \in Session
  /\ pub \in Snapshot
  /\ pc \in [Procs -> Labels] /\ sess \in [Procs -> Session]
  /\ ret \in [Procs -> Resumes]
  /\ restarts \in [Procs -> 0..MaxRestarts] /\ gates \in [Procs -> BOOLEAN]
  /\ view \in [Procs -> Health]

Init ==
  /\ armed = FALSE /\ armed6 = FALSE /\ exempt = {}
  /\ tor = "off" /\ log100 = FALSE /\ i2pd = FALSE /\ pinned = FALSE
  /\ file = NoSession /\ pub = NoPub
  /\ pc = [p \in Procs |-> "idle"] /\ sess = [p \in Procs |-> NoSession]
  /\ ret = [p \in Procs |-> "idle"] /\ restarts = [p \in Procs |-> 0]
  /\ gates = [p \in Procs |-> FALSE] /\ view = [p \in Procs |-> NoView]

-----------------------------------------------------------------------------
(* health(): the persisted claim reconciled with the live Tor process. A Tor  *)
(* that was told to stop has no pid file any more and does not count.         *)
Running == tor \in {"booting", "ready"}
EffectiveRaw == file.state   \* mutant: the persisted claim, unreconciled
Effective ==
  IF file.state = "Active" /\ ~Running
  THEN IF armed THEN "Locked" ELSE "Down"
  ELSE file.state
Leaking == file.state = "Active" /\ ~Running /\ ~armed

(* write_pub: the state it is told, the layers as they are now.               *)
WritePub(state, leaking) ==
  pub' = [state |-> state, tor |-> Running, killswitch |-> armed, leaking |-> leaking]

At(p, l)   == pc[p] = l
Goto(p, l) == pc' = [pc EXCEPT ![p] = l]

(* Session::save opens with truncate, then writes: in between load() is None. *)
Truncate(p, s, next) ==
  /\ file' = NoSession
  /\ sess' = [sess EXCEPT ![p] = s]
  /\ ret' = [ret EXCEPT ![p] = next]
  /\ Goto(p, "write")

(* down_quiet ignores what `nft delete` returns: a table may stay.            *)
DeleteInet ==
  \/ armed' = FALSE /\ exempt' = {}
  \/ "delete" \in Faults /\ UNCHANGED <<armed, exempt>>

DeleteIp6 ==
  \/ armed6' = FALSE
  \/ "delete" \in Faults /\ UNCHANGED armed6

(* tor::stop signals Tor and removes its pid file, without waiting.           *)
StopTor == tor' = IF tor = "off" THEN "off" ELSE "ending"

(* Mutant: the ip6 table is left out of the ruleset.                          *)
LoadInetOnly(users) ==
  /\ armed' = TRUE /\ UNCHANGED armed6
  /\ exempt' = IF armed THEN exempt \cup users ELSE users

(* rules(users): the ruleset loads both tables in one nft transaction. Loading *)
(* over a table that is still there appends, so its exemptions stay.          *)
Load(users) ==
  /\ armed' = TRUE /\ armed6' = TRUE
  /\ exempt' = IF armed THEN exempt \cup users ELSE users

(* rearm(users): deletes and reloads both tables in one nft transaction.      *)
Replace(users) == armed' = TRUE /\ armed6' = TRUE /\ exempt' = users

(* The process exits; its memory is gone.                                     *)
Return(p) == Goto(p, "idle") /\ sess' = [sess EXCEPT ![p] = NoSession]

Claim(p, state) == [state |-> state, i2p |-> sess[p].i2p]
Exempted(p) == IF sess[p].i2p THEN Users ELSE {"tor"}

-----------------------------------------------------------------------------
(* `anond up`: attach the overlay to a live session, or establish one. On a   *)
(* live session with nothing to attach it returns at once, changing nothing.  *)
UpStart(p, i2p) ==
  /\ At(p, "idle")
  /\ \/ /\ Effective # "Active"
        /\ Goto(p, "arm")
        /\ sess' = [sess EXCEPT ![p] = [state |-> "Down", i2p |-> i2p]]
     \/ /\ Effective = "Active" /\ i2p /\ ~i2pd
        /\ Goto(p, "att_rearm")
        /\ UNCHANGED sess
  /\ UNCHANGED <<netVars, hostVars, file, pub, ret, restarts, gates, view>>

(* killswitch::up: both deletes of down_quiet, then the load.                 *)
ArmDelete(p) ==
  /\ At(p, "arm") /\ Goto(p, "arm6")
  /\ DeleteInet
  /\ UNCHANGED <<armed6, hostVars, file, pub, cmdVars>>

ArmDelete6(p) ==
  /\ At(p, "arm6") /\ Goto(p, "load")
  /\ DeleteIp6
  /\ UNCHANGED <<armed, exempt, hostVars, file, pub, cmdVars>>

(* Mutant: connections from before the switch are kept.                       *)
ArmLoadUnflushed(p) ==
  /\ At(p, "load")
  /\ \/ Load(Exempted(p)) /\ Goto(p, "locked") /\ UNCHANGED sess
     \/ "nft" \in Faults /\ Return(p) /\ UNCHANGED netVars
  /\ UNCHANGED <<hostVars, file, pub, ret, restarts, gates, view>>

ArmLoad(p) ==
  /\ At(p, "load")
  /\ \/ Load(Exempted(p)) /\ Goto(p, "flush") /\ UNCHANGED sess
     \/ "nft" \in Faults /\ Return(p) /\ UNCHANGED netVars
  /\ UNCHANGED <<hostVars, file, pub, ret, restarts, gates, view>>

(* flush_conntrack: what it does to connections is in Packets.                *)
ArmFlush(p) ==
  /\ At(p, "flush") /\ Goto(p, "locked")
  /\ UNCHANGED <<netVars, hostVars, file, pub, cmdVars>>

Locked(p) ==
  /\ At(p, "locked")
  /\ Truncate(p, Claim(p, "Locked"), "harden")
  /\ UNCHANGED <<netVars, hostVars, pub, restarts, gates, view>>

(* harden::apply never fails; only its save is visible at this level.         *)
Harden(p) ==
  /\ At(p, "harden") /\ Truncate(p, sess[p], "pin")
  /\ UNCHANGED <<netVars, hostVars, pub, restarts, gates, view>>

(* dns::pin: may fail before the pin is written or after (chattr +i).         *)
Pin(p) ==
  /\ At(p, "pin")
  /\ \/ /\ pinned' = TRUE
        /\ Truncate(p, sess[p], "boot")
     \/ /\ "dns" \in Faults
        /\ pinned' \in {pinned, TRUE}
        /\ Goto(p, "fail")
        /\ UNCHANGED <<file, sess, ret>>
  /\ UNCHANGED <<netVars, tor, log100, i2pd, pub, restarts, gates, view>>

Boot(p) ==
  /\ At(p, "boot")
  /\ Truncate(p, Claim(p, "Bootstrapping"), "launch")
  /\ UNCHANGED <<netVars, hostVars, pub, restarts, gates, view>>

(* tor::start and start_inner: truncate the log, run `tor -f`. A second Tor   *)
(* cannot bind the ports of one that is still there. The next wait counts its *)
(* restarts from 0.                                                           *)
Launch(p) ==
  /\ At(p, "launch")
  /\ log100' = FALSE
  /\ \/ tor = "off" /\ tor' = "booting" /\ Goto(p, "wait") /\ UNCHANGED restarts
     \/ /\ tor # "off" \/ "launch" \in Faults
        /\ Goto(p, "fail") /\ restarts' = [restarts EXCEPT ![p] = 0]
        /\ UNCHANGED tor
  /\ UNCHANGED <<netVars, i2pd, pinned, file, pub, sess, ret, gates, view>>

(* One poll of wait_bootstrap_with. Every poll shows the percentage if it     *)
(* changed; at 100% it always has.                                            *)
ShowPct == WritePub("Bootstrapping", FALSE) \/ UNCHANGED pub

PollDone(p) ==
  /\ At(p, "wait") /\ log100
  /\ WritePub("Bootstrapping", FALSE)
  /\ Goto(p, IF sess[p].i2p THEN "overlay" ELSE "probe")
  /\ restarts' = [restarts EXCEPT ![p] = 0]
  /\ UNCHANGED <<netVars, hostVars, file, sess, ret, gates, view>>

(* Mutant: restarts without a bound.                                          *)
PollRestartUnbounded(p) ==
  /\ At(p, "wait") /\ ~log100 /\ ~Running
  /\ restarts' = [restarts EXCEPT ![p] = @ + 1]
  /\ ShowPct /\ Goto(p, "launch")
  /\ UNCHANGED <<netVars, hostVars, file, sess, ret, gates, view>>

(* Mutant: restarts without counting them.                                    *)
PollRestartUncounted(p) ==
  /\ At(p, "wait") /\ ~log100 /\ ~Running
  /\ restarts[p] < MaxRestarts
  /\ ShowPct /\ Goto(p, "launch")
  /\ UNCHANGED <<netVars, hostVars, file, cmdVars>>

(* Tor is dead, or its log tells of the signal that is killing it: stop what  *)
(* is left of it, then launch again.                                          *)
PollRestart(p) ==
  /\ At(p, "wait") /\ ~log100 /\ ~Running
  /\ restarts[p] < MaxRestarts
  /\ restarts' = [restarts EXCEPT ![p] = @ + 1]
  /\ StopTor /\ ShowPct /\ Goto(p, "launch")
  /\ UNCHANGED <<netVars, log100, i2pd, pinned, file, sess, ret, gates, view>>

(* Out of restarts or an [err] line when Tor is dead, the timeout when not.   *)
PollFail(p) ==
  /\ At(p, "wait") /\ ~log100
  /\ ShowPct /\ Goto(p, "fail")
  /\ restarts' = [restarts EXCEPT ![p] = 0]
  /\ UNCHANGED <<netVars, hostVars, file, sess, ret, gates, view>>

PollAgain(p) ==
  /\ At(p, "wait") /\ ~log100 /\ Running
  /\ WritePub("Bootstrapping", FALSE)
  /\ UNCHANGED <<netVars, hostVars, file, pc, cmdVars>>

(* i2p::start in bring-up; a failure only prints a note.                      *)
Overlay(p) ==
  /\ At(p, "overlay") /\ Goto(p, "probe")
  /\ i2pd' \in {i2pd, TRUE}
  /\ UNCHANGED <<netVars, torVars, pinned, file, pub, cmdVars>>

(* verify::run: three local probes, then the exit check over SOCKS (30 s).    *)
Probe(p) ==
  /\ At(p, "probe") /\ Goto(p, "exit")
  /\ gates' = [gates EXCEPT ![p] = armed /\ pinned /\ armed6]
  /\ UNCHANGED <<netVars, hostVars, file, pub, sess, ret, restarts, view>>

ExitCheck(p) ==
  /\ At(p, "exit")
  /\ \/ /\ gates[p] /\ tor = "ready"
        /\ Truncate(p, Claim(p, "Active"), "pub_active")
     \/ Truncate(p, Claim(p, "Locked"), "pub_locked")
  /\ gates' = [gates EXCEPT ![p] = FALSE]
  /\ UNCHANGED <<netVars, hostVars, pub, restarts, view>>

Fail(p) ==
  /\ At(p, "fail")
  /\ Truncate(p, Claim(p, "Locked"), "pub_locked")
  /\ UNCHANGED <<netVars, hostVars, pub, restarts, gates, view>>

PubActive(p) ==
  /\ At(p, "pub_active") /\ Return(p)
  /\ WritePub("Active", FALSE)
  /\ UNCHANGED <<netVars, hostVars, file, ret, restarts, gates, view>>

PubLocked(p) ==
  /\ At(p, "pub_locked") /\ Return(p)
  /\ WritePub("Locked", FALSE)
  /\ UNCHANGED <<netVars, hostVars, file, ret, restarts, gates, view>>

(* The write half of Session::save. Its error ends `up`, sends the bring-up   *)
(* closure to its failure path, or is ignored when an overlay is attached.    *)
SaveErrorIgnored(next) == next   \* mutant: `up` goes on after a failed save
SaveError(next) ==
  IF next \in {"pin", "boot", "launch"} THEN "fail"
  ELSE IF next = "att_pub" THEN "att_pub" ELSE "idle"

WriteSession(p) ==
  /\ At(p, "write")
  /\ \/ file' = sess[p] /\ Goto(p, ret[p])
     \/ "save" \in Faults /\ Goto(p, SaveError(ret[p])) /\ UNCHANGED file
  /\ ret' = [ret EXCEPT ![p] = "idle"]
  /\ UNCHANGED <<netVars, hostVars, pub, sess, restarts, gates, view>>

(* uid_of("i2pd") or uid_of("tor") fails: the command returns unchanged.      *)
NoUser(p) ==
  /\ "uid" \in Faults
  /\ pc[p] \in {"arm", "att_rearm"} /\ Return(p)
  /\ UNCHANGED <<netVars, hostVars, file, pub, ret, restarts, gates, view>>

-----------------------------------------------------------------------------
(* `anond up --i2p` on a live session.                                        *)
AttachRearm(p) ==
  /\ At(p, "att_rearm")
  /\ \/ Replace(Users) /\ Goto(p, "att_start")
     \/ "nft" \in Faults /\ Goto(p, "idle") /\ UNCHANGED netVars
  /\ UNCHANGED <<hostVars, file, pub, cmdVars>>

AttachStart(p) ==
  /\ At(p, "att_start")
  /\ \/ i2pd' = TRUE /\ Goto(p, "att_load")
     \/ UNCHANGED i2pd /\ Goto(p, "att_undo")
  /\ UNCHANGED <<netVars, torVars, pinned, file, pub, cmdVars>>

AttachUndo(p) ==
  /\ At(p, "att_undo") /\ Goto(p, "att_load")
  /\ \/ Replace({"tor"})
     \/ "nft" \in Faults /\ UNCHANGED netVars
  /\ UNCHANGED <<hostVars, file, pub, cmdVars>>

(* Load the session and set its i2p; what is saved is what was loaded.        *)
AttachLoad(p) ==
  /\ At(p, "att_load")
  /\ \/ /\ file.state # "Down" /\ Goto(p, "att_save")
        /\ sess' = [sess EXCEPT ![p] = [state |-> file.state, i2p |-> i2pd]]
     \/ file.state = "Down" /\ Goto(p, "att_pub") /\ UNCHANGED sess
  /\ UNCHANGED <<netVars, hostVars, file, pub, ret, restarts, gates, view>>

AttachSave(p) ==
  /\ At(p, "att_save")
  /\ Truncate(p, sess[p], "att_pub")
  /\ UNCHANGED <<netVars, hostVars, pub, restarts, gates, view>>

AttachPub(p) ==
  /\ At(p, "att_pub") /\ Return(p)
  /\ WritePub("Active", FALSE)
  /\ UNCHANGED <<netVars, hostVars, file, ret, restarts, gates, view>>

-----------------------------------------------------------------------------
(* `anond down`: drain in reverse, the kill-switch last.                      *)
(* Mutant: trusts the recorded session instead of also asking for the process. *)
DownStartRecorded(p) ==
  /\ At(p, "idle") /\ Goto(p, "d_tor")
  /\ i2pd' = (i2pd /\ ~file.i2p)
  /\ UNCHANGED <<netVars, torVars, pinned, file, pub, cmdVars>>

DownStart(p) ==
  /\ At(p, "idle") /\ Goto(p, "d_tor")
  /\ i2pd' = FALSE
  /\ UNCHANGED <<netVars, torVars, pinned, file, pub, cmdVars>>

DownTor(p) ==
  /\ At(p, "d_tor") /\ Goto(p, "d_dns")
  /\ StopTor
  /\ UNCHANGED <<netVars, log100, i2pd, pinned, file, pub, cmdVars>>

DownDns(p) ==
  /\ At(p, "d_dns") /\ Goto(p, "d_ks")
  /\ \/ pinned' = FALSE
     \/ "dns" \in Faults /\ UNCHANGED pinned
  /\ UNCHANGED <<netVars, torVars, i2pd, file, pub, cmdVars>>

(* Mutant: the table of IPv4 is left loaded.                                  *)
DownKillswitchKept(p) ==
  /\ At(p, "d_ks") /\ Goto(p, "d_ks6")
  /\ UNCHANGED <<netVars, hostVars, file, pub, cmdVars>>

DownKillswitch(p) ==
  /\ At(p, "d_ks") /\ Goto(p, "d_ks6")
  /\ DeleteInet
  /\ UNCHANGED <<armed6, hostVars, file, pub, cmdVars>>

DownKillswitch6(p) ==
  /\ At(p, "d_ks6") /\ Goto(p, "d_clear")
  /\ DeleteIp6
  /\ UNCHANGED <<armed, exempt, hostVars, file, pub, cmdVars>>

DownClear(p) ==
  /\ At(p, "d_clear") /\ Goto(p, "d_pub")
  /\ file' = NoSession
  /\ UNCHANGED <<netVars, hostVars, pub, cmdVars>>

(* Mutant: pub.json is not refreshed.                                         *)
DownPubForgotten(p) ==
  /\ At(p, "d_pub") /\ Goto(p, "idle")
  /\ UNCHANGED <<netVars, hostVars, file, pub, cmdVars>>

DownPub(p) ==
  /\ At(p, "d_pub") /\ Goto(p, "idle")
  /\ WritePub("Down", FALSE)
  /\ UNCHANGED <<netVars, hostVars, file, cmdVars>>

-----------------------------------------------------------------------------
(* `anond status`: health, then (when Active) the exit lookup, then pub.json. *)
StatusStart(p) ==
  /\ At(p, "idle") /\ Goto(p, "s_pub")
  /\ view' = [view EXCEPT ![p] = [state |-> Effective, leaking |-> Leaking]]
  /\ UNCHANGED <<netVars, hostVars, file, pub, sess, ret, restarts, gates>>

StatusPub(p) ==
  /\ At(p, "s_pub") /\ Goto(p, "idle")
  /\ WritePub(view[p].state, view[p].leaking)
  /\ view' = [view EXCEPT ![p] = NoView]
  /\ UNCHANGED <<netVars, hostVars, file, sess, ret, restarts, gates>>

-----------------------------------------------------------------------------
(* The environment.                                                           *)
TorReady ==
  /\ tor = "booting" /\ tor' = "ready" /\ log100' = TRUE
  /\ UNCHANGED <<netVars, i2pd, pinned, file, pub, pc, cmdVars>>

TorDies ==
  /\ "tor" \in Faults /\ Running /\ tor' = "off"
  /\ UNCHANGED <<netVars, log100, i2pd, pinned, file, pub, pc, cmdVars>>

(* A Tor that was told to stop has closed its circuits and ends.              *)
TorGone ==
  /\ tor = "ending" /\ tor' = "off"
  /\ UNCHANGED <<netVars, log100, i2pd, pinned, file, pub, pc, cmdVars>>

I2pdDies ==
  /\ "i2pd" \in Faults /\ i2pd /\ i2pd' = FALSE
  /\ UNCHANGED <<netVars, torVars, pinned, file, pub, pc, cmdVars>>

(* Ctrl-C or a kill between any two steps of a command.                       *)
Kill(p) ==
  /\ "kill" \in Faults /\ ~At(p, "idle") /\ Goto(p, "idle")
  /\ sess' = [sess EXCEPT ![p] = NoSession]
  /\ ret' = [ret EXCEPT ![p] = "idle"]
  /\ restarts' = [restarts EXCEPT ![p] = 0]
  /\ gates' = [gates EXCEPT ![p] = FALSE]
  /\ view' = [view EXCEPT ![p] = NoView]
  /\ UNCHANGED <<netVars, hostVars, file, pub>>

(* A reboot keeps /var/lib/anond and /etc, loses tables, processes and /run.  *)
Reboot ==
  /\ "reboot" \in Faults
  /\ armed' = FALSE /\ armed6' = FALSE /\ exempt' = {}
  /\ tor' = "off" /\ i2pd' = FALSE /\ pub' = NoPub
  /\ pc' = [p \in Procs |-> "idle"] /\ sess' = [p \in Procs |-> NoSession]
  /\ ret' = [p \in Procs |-> "idle"] /\ restarts' = [p \in Procs |-> 0]
  /\ gates' = [p \in Procs |-> FALSE] /\ view' = [p \in Procs |-> NoView]
  /\ UNCHANGED <<log100, pinned, file>>

-----------------------------------------------------------------------------
UpStep(p) ==
  \/ ArmDelete(p) \/ ArmDelete6(p) \/ ArmLoad(p) \/ Locked(p) \/ Harden(p) \/ Pin(p)
  \/ Boot(p) \/ Launch(p) \/ PollDone(p) \/ PollRestart(p) \/ PollFail(p) \/ Overlay(p)
  \/ Probe(p) \/ ExitCheck(p) \/ Fail(p) \/ PubActive(p) \/ PubLocked(p) \/ WriteSession(p)

AttachStep(p) ==
  \/ AttachRearm(p) \/ AttachStart(p) \/ AttachUndo(p)
  \/ AttachLoad(p) \/ AttachSave(p) \/ AttachPub(p)

DownStep(p) ==
  \/ DownTor(p) \/ DownDns(p) \/ DownKillswitch(p) \/ DownKillswitch6(p)
  \/ DownClear(p) \/ DownPub(p)

(* What a started command does next, once the scheduler runs it.              *)
Step(p) == ArmFlush(p) \/ UpStep(p) \/ AttachStep(p) \/ DownStep(p) \/ StatusPub(p)

Environment == TorReady \/ TorDies \/ TorGone \/ I2pdDies

(* Commands that nobody ends, beside Tor and i2pd.                            *)
Work ==
  \/ \E p \in Writers : DownStart(p) \/ \E i2p \in BOOLEAN : UpStart(p, i2p)
  \/ \E p \in Writers : UpStep(p) \/ AttachStep(p) \/ DownStep(p) \/ PollAgain(p) \/ NoUser(p)
  \/ \E p \in Readers : StatusStart(p) \/ StatusPub(p)
  \/ Environment

(* What does nothing to the connections of users.                             *)
Apart == Work \/ \E p \in Procs : Kill(p)

Next == Apart \/ Reboot \/ \E p \in Writers : ArmFlush(p)

Spec == Init /\ [][Next]_vars

(* A command that was started keeps running: its steps are bounded system     *)
(* calls, and the bootstrap wait has a restart bound and a timeout. It is not *)
(* killed; the machine may restart under it.                                  *)
Unkilled == Work \/ Reboot \/ \E p \in Writers : ArmFlush(p)
FairSpec == Init /\ [][Unkilled]_vars /\ \A p \in Procs : WF_vars(Step(p))

-----------------------------------------------------------------------------
(* Properties.                                                                *)
Idle == \A p \in Procs : pc[p] = "idle"

(* What the program reports as Active is protected: both tables are loaded,   *)
(* DNS is pinned, at every moment, also in the middle of `up` and `down`,     *)
(* after a kill, a Tor crash, a rejected ruleset or a reboot (health).        *)
NoFalseGreen == Effective = "Active" => Running /\ armed /\ armed6 /\ pinned

(* `down` removes the kill-switch last: from then on i2pd is dead, Tor was    *)
(* told to stop (tor::stop does not wait until it has) and nothing is claimed *)
(* any more, whatever died or was left half-built before (down).              *)
SwitchRemovedLast ==
  \A p \in Writers : pc[p] \in {"d_ks", "d_ks6", "d_clear", "d_pub"} =>
    tor \in {"off", "ending"} /\ ~i2pd /\ Effective # "Active"

(* Once the switch is armed, every failure of bring-up (a save, the pin, Tor, *)
(* the probes) ends with both tables loaded (main.rs: ANY failure must leave  *)
(* the kill-switch up).                                                       *)
FailureStaysBlocked ==
  \A p \in Writers :
    pc[p] \in {"harden", "pin", "boot", "launch", "wait", "overlay", "probe", "exit",
               "fail", "pub_active", "pub_locked"} => armed /\ armed6

(* With no command running, a green panel and a green session agree: the      *)
(* public snapshot says Active only while session.json does (write_pub is the *)
(* last step of up, down and attach).                                         *)
QuietSnapshot == Idle /\ pub.state = "Active" => file.state = "Active"

(* With no command running and no session recorded, egress is not blocked by  *)
(* a forgotten switch, and no Tor of ours is left running, as long as what    *)
(* nft is told to delete is deleted.                                          *)
NoOrphan == Idle /\ file = NoSession => ~armed /\ ~armed6 /\ ~Running /\ ~i2pd

(* Every command returns, whatever Tor does (the bootstrap wait restarts a    *)
(* dying Tor a bounded number of times, then gives up).                       *)
CommandsReturn == \A p \in Procs : pc[p] # "idle" ~> pc[p] = "idle"

-----------------------------------------------------------------------------
(* The inductive invariant behind NoFalseGreen, SwitchRemovedLast and         *)
(* FailureStaysBlocked: where the one writer is decides what is loaded, what  *)
(* runs and what session.json may claim.                                      *)
SingleWriter == \A p, q \in Writers : p = q

ArmSteps   == {"arm", "arm6", "load", "flush", "locked"}
BringUp    == {"harden", "pin", "boot", "launch", "wait", "overlay", "probe", "exit", "fail"}
Published  == {"pub_active", "pub_locked"}
AfterTor   == {"d_dns", "d_ks", "d_ks6", "d_clear", "d_pub"}

ArmedAt(p) ==
  pc[p] \in {"flush", "locked", "write"} \cup BringUp \cup Published \cup AttachSteps => armed /\ armed6
ClaimAt(p) ==
  /\ pc[p] \in ArmSteps => ~(file.state = "Active" /\ Running)
  /\ pc[p] \in BringUp \cup {"write"} => file.state # "Active"
  /\ pc[p] \in BringUp => sess[p].state # "Active"
PinnedAt(p) ==
  /\ pc[p] = "exit" /\ gates[p] => pinned
  /\ pc[p] \in {"att_rearm", "att_start", "att_undo", "att_load", "att_save"} => pinned
WriteAt(p) ==
  pc[p] = "write" =>
    /\ ret[p] \in BringUp \cup Published \cup {"att_pub"}
    /\ sess[p].state = "Active" => pinned /\ ret[p] \in {"pub_active", "att_pub"}
DrainAt(p) ==
  /\ pc[p] \in AfterTor => ~Running
  /\ pc[p] \in AfterTor \cup {"d_tor"} => ~i2pd
  /\ "delete" \notin Faults =>
       /\ pc[p] \in {"d_ks6", "d_clear", "d_pub"} => ~armed /\ exempt = {}
       /\ pc[p] \in {"d_clear", "d_pub"} => ~armed6
  /\ pc[p] = "d_pub" => file = NoSession

Coherent(p) == ArmedAt(p) /\ ClaimAt(p) /\ PinnedAt(p) /\ WriteAt(p) /\ DrainAt(p)

IInv == TypeOK /\ NoFalseGreen /\ \A p \in Writers : Coherent(p)
=============================================================================
