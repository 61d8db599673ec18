---------------------------- MODULE HostSession ----------------------------
(* What `anond up` changes on the host besides the network, and how `down`    *)
(* puts it back: harden::apply and restore, dns::pin and restore, and the     *)
(* backups they keep in the session, which live in memory until the next      *)
(* save. One command runs at a time (Anond models the overlaps); it may be    *)
(* killed between two steps. Tor and the tables are reduced to `live`.        *)
EXTENDS Naturals

CONSTANTS
  Ifaces,     \* physical network interfaces
  Originals,  \* the hosts a first session may find
  ReUp,       \* the user may run `up` again without a `down` in between
  BareDown,   \* the user may run `down` when no session is recorded
  Faults      \* "kill", "reboot", "tor", and what may fail: "cmd" (a command of
              \* the hardening), "pin" (writing or locking the pin), "save", "undo"
              \* (a command or a write of `down`)

GENERIC_HOSTNAME == "localhost"
Names     == {"own", GENERIC_HOSTNAME}
Resolvers == {"own", "blank", "pin", "rebuilt"}
MARKER    == {"pin", "rebuilt"}          \* contents with an "# anond:" line
Macs      == {"own", "random"}
Fstab     == {"fstab"}                   \* the swap that /etc/fstab lists
Swaps     == Fstab \cup {"zram"}         \* and that a service sets up at boot
OriginalHosts == [swap : SUBSET Swaps, timestamps : BOOLEAN, icmp : BOOLEAN, name : Names,
                  resolv : {"own", "blank"}]

ASSUME OriginalsAssumption == Originals \subseteq OriginalHosts
ASSUME SwitchesAssumption == {ReUp, BareDown} \subseteq BOOLEAN

VARIABLES
  swap,                    \* the swap in use
  timestamps, icmp,        \* the two sysctls are 1
  name,                    \* the transient hostname
  nameMounts, idMounts,    \* bind mounts stacked on /etc/hostname, /etc/machine-id
  mac,                     \* hardware address of each interface
  resolv, locked,          \* /etc/resolv.conf and its immutable bit
  live,                    \* the session last saved is Active and its Tor runs
  orig,                    \* the host before the first session
  file, mem,               \* the session on disk and in the running command
  pc, ret,
  cleaned,                 \* the last command that reached its end was `down`
  answered                 \* and its restoring of the resolver did not fail

hostVars == <<swap, timestamps, icmp, name, nameMounts, idMounts, mac, resolv, locked>>
vars == <<hostVars, live, orig, file, mem, pc, ret, cleaned, answered>>

None == "none"
NoMacs == [i \in Ifaces |-> None]
(* Session::new; `kept` is FALSE for a load() that finds no session.          *)
NoSession == [kept |-> FALSE, swap |-> FALSE, name |-> None, nameMount |-> FALSE,
              id |-> FALSE, macs |-> NoMacs, resolv |-> None]
Session == [kept : BOOLEAN, swap : BOOLEAN, name : Names \cup {None}, nameMount : BOOLEAN,
            id : BOOLEAN, macs : [Ifaces -> Macs \cup {None}], resolv : Resolvers \cup {None}]
Labels == {"idle", "write", "swap", "sysctl", "name", "mount", "id", "mac", "hardened", "pin",
           "bringup", "fail", "d_dns", "d_restore", "d_clear"}
Resumes == {"idle", "swap", "pin", "bringup"}   \* the steps that follow a save

TypeOK ==
  /\ swap \in SUBSET Swaps /\ timestamps \in BOOLEAN /\ icmp \in BOOLEAN /\ name \in Names
  /\ nameMounts \in Nat /\ idMounts \in Nat /\ mac \in [Ifaces -> Macs]
  /\ resolv \in Resolvers /\ locked \in BOOLEAN /\ live \in BOOLEAN
  /\ orig \in OriginalHosts /\ file \in Session /\ mem \in Session
  /\ pc \in Labels /\ ret \in Resumes /\ cleaned \in BOOLEAN /\ answered \in BOOLEAN

Init ==
  /\ orig \in Originals
  /\ swap = orig.swap /\ timestamps = orig.timestamps /\ icmp = orig.icmp
  /\ name = orig.name /\ nameMounts = 0 /\ idMounts = 0
  /\ mac = [i \in Ifaces |-> "own"] /\ resolv = orig.resolv /\ locked = FALSE
  /\ live = FALSE /\ file = NoSession /\ mem = NoSession
  /\ pc = "idle" /\ ret = "idle" /\ cleaned = TRUE /\ answered = FALSE

-----------------------------------------------------------------------------
(* Session::save: truncate, then write what is in memory.                     *)
Truncate(next) == file' = NoSession /\ ret' = next /\ pc' = "write"

WriteSession ==
  /\ pc = "write"
  /\ \/ file' = mem /\ pc' = ret
     \/ /\ "save" \in Faults
        /\ pc' = IF ret \in {"pin", "bringup"} THEN "fail" ELSE "idle"
        /\ UNCHANGED file
  /\ ret' = "idle"
  /\ UNCHANGED <<hostVars, live, orig, mem, cleaned, answered>>

(* `up` on anything but a live session starts from Session::new and saves it  *)
(* as Locked, over whatever an earlier session had recorded.                  *)
UpStart ==
  /\ pc = "idle" /\ ~(live /\ file.kept) /\ (ReUp \/ cleaned)
  /\ mem' = [NoSession EXCEPT !.kept = TRUE]
  /\ live' = FALSE /\ cleaned' = FALSE
  /\ Truncate("swap")
  /\ UNCHANGED <<hostVars, orig, answered>>

(* A helper command that may fail: the new value, or the old one kept.        *)
Try(new, old)  == {new} \cup (IF "cmd" \in Faults THEN {old} ELSE {})
Undo(new, old) == {new} \cup (IF "undo" \in Faults THEN {old} ELSE {})

(* swapoff -a: all of it, or when it fails what it did not reach is left.     *)
SwapOff == IF "cmd" \in Faults THEN SUBSET swap ELSE {{}}

(* Mutant: swap is read after it was turned off.                              *)
ApplySwapLate ==
  /\ pc = "swap" /\ pc' = "sysctl"
  /\ swap' \in SwapOff
  /\ mem' = [mem EXCEPT !.swap = swap' # {}]
  /\ UNCHANGED <<timestamps, icmp, name, nameMounts, idMounts, mac, resolv, locked,
                 live, orig, file, ret, cleaned, answered>>

ApplySwap ==
  /\ pc = "swap" /\ pc' = "sysctl"
  /\ mem' = [mem EXCEPT !.swap = swap # {}]
  /\ swap' \in SwapOff
  /\ UNCHANGED <<timestamps, icmp, name, nameMounts, idMounts, mac, resolv, locked,
                 live, orig, file, ret, cleaned, answered>>

ApplySysctl ==
  /\ pc = "sysctl" /\ pc' = "name"
  /\ timestamps' \in Try(FALSE, timestamps)
  /\ icmp' \in Try(TRUE, icmp)
  /\ UNCHANGED <<swap, name, nameMounts, idMounts, mac, resolv, locked,
                 live, orig, file, mem, ret, cleaned, answered>>

(* The transient name first, then the mount that makes it durable. The backup *)
(* is taken when either worked.                                               *)
ApplyName ==
  /\ pc = "name"
  /\ \/ /\ name # GENERIC_HOSTNAME
        /\ name' \in Try(GENERIC_HOSTNAME, name)
        /\ mem' = [mem EXCEPT !.name = IF name' = name THEN None ELSE name]
        /\ pc' = "mount"
     \/ /\ name = GENERIC_HOSTNAME
        /\ pc' = "id"
        /\ UNCHANGED <<name, mem>>
  /\ UNCHANGED <<swap, timestamps, icmp, nameMounts, idMounts, mac, resolv, locked,
                 live, orig, file, ret, cleaned, answered>>

(* Mutant: a failed mount is recorded like one that worked.                   *)
ApplyMountAssumed ==
  /\ pc = "mount" /\ pc' = "id"
  /\ nameMounts' \in IF nameMounts = 0 THEN Try(1, 0) ELSE {nameMounts}
  /\ mem' = [mem EXCEPT !.nameMount = TRUE, !.name = IF @ = None THEN name ELSE @]
  /\ UNCHANGED <<swap, timestamps, icmp, name, idMounts, mac, resolv, locked,
                 live, orig, file, ret, cleaned, answered>>

ApplyMount ==
  /\ pc = "mount" /\ pc' = "id"
  /\ nameMounts' \in IF nameMounts = 0 THEN Try(1, 0) ELSE {nameMounts}
  /\ mem' = IF nameMounts' = nameMounts THEN mem
            ELSE [mem EXCEPT !.nameMount = TRUE, !.name = IF @ = None THEN name ELSE @]
  /\ UNCHANGED <<swap, timestamps, icmp, name, idMounts, mac, resolv, locked,
                 live, orig, file, ret, cleaned, answered>>

(* Mutant: only the session is asked, not the mount table.                    *)
ApplyMachineIdAgain ==
  /\ pc = "id" /\ pc' = "mac"
  /\ idMounts' \in IF ~mem.id THEN Try(idMounts + 1, idMounts) ELSE {idMounts}
  /\ mem' = [mem EXCEPT !.id = idMounts' # idMounts]
  /\ UNCHANGED <<swap, timestamps, icmp, name, nameMounts, mac, resolv, locked,
                 live, orig, file, ret, cleaned, answered>>

ApplyMachineId ==
  /\ pc = "id" /\ pc' = "mac"
  /\ idMounts' \in IF idMounts = 0 THEN Try(1, 0) ELSE {idMounts}
  /\ mem' = [mem EXCEPT !.id = idMounts' # idMounts]
  /\ UNCHANGED <<swap, timestamps, icmp, name, nameMounts, mac, resolv, locked,
                 live, orig, file, ret, cleaned, answered>>

(* --mac: every interface whose address could be set is recorded.             *)
ApplyMac ==
  /\ pc = "mac" /\ pc' = "hardened"
  /\ \E set \in IF "cmd" \in Faults THEN SUBSET Ifaces ELSE {{}, Ifaces} :
       /\ mac' = [i \in Ifaces |-> IF i \in set THEN "random" ELSE mac[i]]
       /\ mem' = [mem EXCEPT !.macs = [i \in Ifaces |-> IF i \in set THEN mac[i] ELSE None]]
  /\ UNCHANGED <<swap, timestamps, icmp, name, nameMounts, idMounts, resolv, locked,
                 live, orig, file, ret, cleaned, answered>>

Hardened ==
  /\ pc = "hardened" /\ Truncate("pin")
  /\ UNCHANGED <<hostVars, live, orig, mem, cleaned, answered>>

(* Mutant: whatever resolv.conf holds is backed up.                           *)
PinSelf ==
  /\ pc = "pin"
  /\ mem' = IF resolv = "blank" THEN mem ELSE [mem EXCEPT !.resolv = resolv]
  /\ resolv' = "pin" /\ locked' = TRUE /\ Truncate("bringup")
  /\ UNCHANGED <<swap, timestamps, icmp, name, nameMounts, idMounts, mac, live, orig, cleaned, answered>>

(* dns::pin: a real resolver is backed up, the immutable bit cleared, the pin *)
(* written and made immutable. The write fails on a file that stayed          *)
(* immutable, or halfway, which leaves it empty; so may the locking.          *)
Pin ==
  /\ pc = "pin"
  /\ mem' = IF resolv \in MARKER \cup {"blank"} THEN mem ELSE [mem EXCEPT !.resolv = resolv]
  /\ \/ resolv' = "pin" /\ locked' = TRUE /\ Truncate("bringup")
     \/ /\ "pin" \in Faults
        /\ \/ locked' = FALSE /\ resolv' \in {resolv, "blank", "pin"}
           \/ locked /\ UNCHANGED <<resolv, locked>>
        /\ pc' = "fail"
        /\ UNCHANGED <<file, ret>>
  /\ UNCHANGED <<swap, timestamps, icmp, name, nameMounts, idMounts, mac, live, orig, cleaned,
                 answered>>

(* Tor, the overlay and the probes, with the last save: Active or Locked.     *)
BringUp ==
  /\ pc = "bringup" /\ Truncate("idle")
  /\ live' \in BOOLEAN
  /\ UNCHANGED <<hostVars, orig, mem, cleaned, answered>>

Fail ==
  /\ pc = "fail" /\ Truncate("idle")
  /\ UNCHANGED <<hostVars, live, orig, mem, cleaned, answered>>

-----------------------------------------------------------------------------
(* `down`: load, stop Tor, then dns::restore, harden::restore, clear.         *)
DownStart ==
  /\ pc = "idle" /\ (BareDown \/ file.kept)
  /\ pc' = "d_dns"
  /\ mem' = file /\ live' = FALSE /\ cleaned' = FALSE
  /\ UNCHANGED <<hostVars, orig, file, ret, answered>>

(* What dns::restore leaves in resolv.conf when it writes r. A failure, which *)
(* `down` ignores, leaves an immutable file as it is, or one that was written *)
(* halfway empty.                                                             *)
Answer(r) ==
  \/ locked' = FALSE /\ resolv' = r /\ answered' = TRUE
  \/ /\ "undo" \in Faults /\ answered' = FALSE
     /\ \/ locked' = FALSE /\ resolv' \in {resolv, "blank"}
        \/ locked /\ UNCHANGED <<resolv, locked>>

(* Mutant: the backup is written whether or not there is one.                 *)
RestoreDnsBlindly ==
  /\ pc = "d_dns" /\ pc' = "d_restore"
  /\ Answer(mem.resolv)
  /\ UNCHANGED <<swap, timestamps, icmp, name, nameMounts, idMounts, mac,
                 live, orig, file, mem, ret, cleaned>>

(* Mutant: without a backup the resolver is left alone.                       *)
RestoreDnsExactly ==
  /\ pc = "d_dns" /\ pc' = "d_restore"
  /\ Answer(IF mem.resolv = None THEN resolv ELSE mem.resolv)
  /\ UNCHANGED <<swap, timestamps, icmp, name, nameMounts, idMounts, mac,
                 live, orig, file, mem, ret, cleaned>>

(* Without a usable backup the resolver is reconstructed, with a marker line. *)
RestoreDns ==
  /\ pc = "d_dns" /\ pc' = "d_restore"
  /\ Answer(IF mem.resolv \in MARKER \cup {"blank", None} THEN "rebuilt" ELSE mem.resolv)
  /\ UNCHANGED <<swap, timestamps, icmp, name, nameMounts, idMounts, mac,
                 live, orig, file, mem, ret, cleaned>>

(* Every failure is ignored. swapon -a turns on the swap of /etc/fstab.       *)
Restore ==
  /\ pc = "d_restore" /\ pc' = "d_clear"
  /\ \/ /\ ~mem.kept
        /\ UNCHANGED <<swap, timestamps, name, nameMounts, idMounts, mac>>
     \/ /\ mem.kept
        /\ idMounts' \in IF mem.id /\ idMounts > 0 THEN Undo(idMounts - 1, idMounts)
                        ELSE {idMounts}
        /\ nameMounts' \in IF mem.nameMount /\ nameMounts > 0
                          THEN Undo(nameMounts - 1, nameMounts) ELSE {nameMounts}
        /\ name' \in IF mem.name = None THEN {name} ELSE Undo(mem.name, name)
        /\ mac' \in Undo([i \in Ifaces |-> IF mem.macs[i] = None THEN mac[i] ELSE mem.macs[i]],
                        mac)
        /\ timestamps' \in Undo(TRUE, timestamps)
        /\ swap' \in IF mem.swap THEN Undo(swap \cup (orig.swap \cap Fstab), swap) ELSE {swap}
  /\ UNCHANGED <<icmp, resolv, locked, live, orig, file, mem, ret, cleaned, answered>>

DownClear ==
  /\ pc = "d_clear" /\ pc' = "idle"
  /\ file' \in Undo(NoSession, file) /\ mem' = NoSession /\ cleaned' = TRUE
  /\ UNCHANGED <<hostVars, live, orig, ret, answered>>

-----------------------------------------------------------------------------
(* A network event makes the hostname manager re-read /etc/hostname.          *)
Reassert ==
  /\ name' = IF nameMounts > 0 THEN GENERIC_HOSTNAME ELSE orig.name
  /\ UNCHANGED <<swap, timestamps, icmp, nameMounts, idMounts, mac, resolv, locked,
                 live, orig, file, mem, pc, ret, cleaned, answered>>

TorDies ==
  /\ "tor" \in Faults /\ live /\ live' = FALSE
  /\ UNCHANGED <<hostVars, orig, file, mem, pc, ret, cleaned, answered>>

Kill ==
  /\ "kill" \in Faults /\ pc # "idle" /\ pc' = "idle"
  /\ mem' = NoSession /\ ret' = "idle"
  /\ UNCHANGED <<hostVars, live, orig, file, cleaned, answered>>

(* A reboot undoes everything but files; mid-command it is a kill before it.  *)
Reboot ==
  /\ "reboot" \in Faults /\ pc = "idle"
  /\ swap' = orig.swap /\ timestamps' = orig.timestamps /\ icmp' = orig.icmp
  /\ name' = orig.name /\ nameMounts' = 0 /\ idMounts' = 0
  /\ mac' = [i \in Ifaces |-> "own"] /\ live' = FALSE
  /\ UNCHANGED <<resolv, locked, orig, file, mem, pc, ret, cleaned, answered>>

Next ==
  \/ UpStart \/ WriteSession \/ ApplySwap \/ ApplySysctl \/ ApplyName \/ ApplyMount
  \/ ApplyMachineId \/ ApplyMac \/ Hardened \/ Pin \/ BringUp \/ Fail
  \/ DownStart \/ RestoreDns \/ Restore \/ DownClear
  \/ Reassert \/ TorDies \/ Kill \/ Reboot

Spec == Init /\ [][Next]_vars

-----------------------------------------------------------------------------
AfterDown == pc = "idle" /\ cleaned

(* harden.rs:95, the reversibility invariant: after `down` the host is what   *)
(* it was before the session, sysctls, swap, names, mounts, addresses and     *)
(* resolver alike.                                                            *)
Reversible ==
  AfterDown =>
    /\ swap = orig.swap /\ timestamps = orig.timestamps /\ icmp = orig.icmp
    /\ name = orig.name /\ nameMounts = 0 /\ idMounts = 0
    /\ mac = [i \in Ifaces |-> "own"]
    /\ resolv = orig.resolv /\ ~locked

(* After a `down` that could write resolv.conf the resolver is neither the    *)
(* dead pin nor empty, and not immutable, whatever sessions were killed or    *)
(* lost, and whatever other `down` failed, before it (dns.rs:41-44).          *)
NoDeadPin == AfterDown /\ answered => resolv \notin {"pin", "blank"} /\ ~locked

(* Bind mounts never pile up, however often `up` runs or is killed: one       *)
(* umount would otherwise leave the spoofed file in place (harden.rs:59).     *)
MountsNeverStack == nameMounts <= 1 /\ idMounts <= 1

(* No session ever records a spoofed resolver or hostname as the original     *)
(* (dns.rs:14-18): restoring it would make the spoof permanent.               *)
NoSelfBackup ==
  \A s \in {file, mem} : s.resolv \notin MARKER /\ s.name # GENERIC_HOSTNAME

(* In a live session that recorded the mount, a generic hostname stays        *)
(* generic: a manager that re-reads /etc/hostname does not bring the own name *)
(* back, whatever failed or was killed before (harden.rs:25-33).              *)
SpoofIsDurable ==
  [][live /\ live' /\ file.nameMount /\ name = GENERIC_HOSTNAME => name' = GENERIC_HOSTNAME]_vars
=============================================================================
