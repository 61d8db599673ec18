------------------------------- MODULE Packets -------------------------------
(* The kill-switch seen by a packet: Anond together with one connection of an *)
(* ordinary user to a public address. A chain of type nat sees only the first *)
(* packet of a connection; what it decided is kept by conntrack, and packets  *)
(* of a tracked connection pass the filter as established. This is why arming *)
(* ends with a flush, in a step of its own.                                   *)
EXTENDS Anond

VARIABLE conn  \* the connection

packetVars == <<vars, conn>>

(* direct: opened while no table was loaded. warned: the same, but `up` could *)
(* not flush and has told the user to close it. proxied: its SYN was          *)
(* redirected into Tor. cut: conntrack has forgotten it. revived: its peer    *)
(* has spoken since, so that conntrack knows it again.                        *)
Conns == {"none", "direct", "warned", "proxied", "cut", "revived"}

PacketInit == Init /\ conn = "none"

(* A SYN: redirected to the TransPort, where a Tor may or may not listen.     *)
Connect ==
  /\ conn = "none"
  /\ conn' = IF ~armed THEN "direct" ELSE IF Running THEN "proxied" ELSE "none"
  /\ UNCHANGED vars

Disconnect == conn # "none" /\ conn' = "none" /\ UNCHANGED vars

(* A packet of ours on a forgotten connection. The filter drops it: it is not *)
(* a SYN and not established. Without the filter conntrack takes it up again. *)
Resume == conn \in {"cut", "revived"} /\ ~armed /\ conn' = "direct" /\ UNCHANGED vars

(* A packet of the peer on a forgotten connection. The tables have no input   *)
(* chain, so conntrack takes it up (nf_conntrack_tcp_loose is 1 by default),  *)
(* and what we answer is established: it leaves in the clear, also when armed. *)
Revive == conn = "cut" /\ armed /\ conn' = "revived" /\ UNCHANGED vars

(* Mutant: a connection that conntrack has a redirect for is the only one cut. *)
FlushProxied(p) ==
  /\ ArmFlush(p)
  /\ conn' = IF conn = "proxied" THEN "none" ELSE conn

(* flush_conntrack, or the warning that it failed. One that was redirected    *)
(* has no peer that knows it: it ends.                                        *)
Flush(p) ==
  /\ ArmFlush(p)
  /\ \/ conn' = IF conn \in {"none", "proxied"} THEN "none" ELSE "cut"
     \/ "flush" \in Faults /\ conn' = IF conn \in {"direct", "revived"} THEN "warned" ELSE conn

Restart == Reboot /\ conn' = "none"

PacketNext ==
  \/ Connect \/ Disconnect \/ Resume \/ Revive \/ Restart
  \/ \E p \in Writers : Flush(p)
  \/ Apart /\ UNCHANGED conn

PacketSpec == PacketInit /\ [][PacketNext]_packetVars

-----------------------------------------------------------------------------
(* While a session is reported Active, and from the flush of a bring-up until *)
(* it has ended, a connection leaves in the clear only if the user was told   *)
(* to close it or if its peer has spoken since the flush, although tables are *)
(* deleted and loaded again and connections are opened between any two steps  *)
(* (killswitch.rs:80-88 promises it of every connection).                     *)
Sealed == {"locked", "write"} \cup BringUp \cup Published \cup AttachSteps
NoClearFlow ==
  Effective = "Active" \/ (\E p \in Writers : pc[p] \in Sealed) => conn # "direct"

(* anond keeps the promise of Protection (main.rs:2-3, state.rs:3-7): what is *)
(* claimed is blocked and flushed first, and released only when withdrawn;    *)
(* and what leaves in the clear under a claim was cut and answers its peer.   *)
Blocked == armed /\ armed6
Claimed == Effective = "Active"
Flow == IF conn = "direct" THEN "clear" ELSE IF conn = "revived" THEN "answer" ELSE "none"
Abstract == INSTANCE Protection WITH blocked <- Blocked, claimed <- Claimed, flow <- Flow
KeepsPromise == Abstract!Spec
=============================================================================
