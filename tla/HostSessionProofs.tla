------------------------- MODULE HostSessionProofs -------------------------
(* TLAPS proofs about HostSession: for any interfaces, any hosts a session    *)
(* may find, any failures and any sequence of commands.                       *)
EXTENDS HostSession, TLAPS

(* What the invariants of the runs need to be inductive: a clean host stays   *)
(* so until the next `up`; on a host whose own name is the generic one the    *)
(* name is never touched; the name about to be backed up is not the spoof.    *)
Answering    == answered => resolv \notin {"pin", "blank"} /\ ~locked
CleanIsIdle  == cleaned => pc = "idle" /\ Answering
DnsRestored  == pc \in {"d_restore", "d_clear"} => Answering
GenericHost  == orig.name = GENERIC_HOSTNAME =>
                  name = GENERIC_HOSTNAME /\ mem.name = None /\ file.name = None
OwnName      == pc = "mount" =>
                  /\ orig.name # GENERIC_HOSTNAME
                  /\ mem.name = None /\ nameMounts = 0 => name # GENERIC_HOSTNAME
IInv == TypeOK /\ MountsNeverStack /\ NoSelfBackup
        /\ CleanIsIdle /\ DnsRestored /\ GenericHost /\ OwnName

-----------------------------------------------------------------------------
(* What writing one field of a session does to its type and to the fields     *)
(* the invariant speaks of.                                                   *)
LEMMA SetSwap ==
  ASSUME NEW s \in Session, NEW b \in BOOLEAN
  PROVE  LET t == [s EXCEPT !.swap = b]
         IN  t \in Session /\ t.name = s.name /\ t.resolv = s.resolv
BY DEF Session

LEMMA SetName ==
  ASSUME NEW s \in Session, NEW n \in Names \cup {None}
  PROVE  LET t == [s EXCEPT !.name = n]
         IN  t \in Session /\ t.name = n /\ t.resolv = s.resolv
BY DEF Session

LEMMA SetMount ==
  ASSUME NEW s \in Session, NEW n \in Names \cup {None}
  PROVE  LET t == [s EXCEPT !.nameMount = TRUE, !.name = IF @ = None THEN n ELSE @]
         IN  /\ t \in Session /\ t.resolv = s.resolv
             /\ t.name = IF s.name = None THEN n ELSE s.name
BY DEF Session

LEMMA SetId ==
  ASSUME NEW s \in Session, NEW b \in BOOLEAN
  PROVE  LET t == [s EXCEPT !.id = b]
         IN  t \in Session /\ t.name = s.name /\ t.resolv = s.resolv
BY DEF Session

LEMMA SetMacs ==
  ASSUME NEW s \in Session, NEW f \in [Ifaces -> Macs \cup {None}]
  PROVE  LET t == [s EXCEPT !.macs = f]
         IN  t \in Session /\ t.name = s.name /\ t.resolv = s.resolv
BY DEF Session

LEMMA SetResolv ==
  ASSUME NEW s \in Session, NEW r \in Resolvers
  PROVE  LET t == [s EXCEPT !.resolv = r]
         IN  t \in Session /\ t.name = s.name /\ t.resolv = r
BY DEF Session

LEMMA Fresh ==
  /\ NoSession \in Session /\ NoSession.name = None /\ NoSession.resolv = None
  /\ LET t == [NoSession EXCEPT !.kept = TRUE]
     IN  t \in Session /\ t.name = None /\ t.resolv = None
BY DEF Session, NoSession, NoMacs

LEMMA MacStep ==
  ASSUME TypeOK, ApplyMac
  PROVE  /\ mac' \in [Ifaces -> Macs] /\ mem' \in Session
         /\ mem'.name = mem.name /\ mem'.resolv = mem.resolv
<1>1. PICK set \in SUBSET Ifaces :
        /\ mac' = [i \in Ifaces |-> IF i \in set THEN "random" ELSE mac[i]]
        /\ mem' = [mem EXCEPT !.macs = [i \in Ifaces |-> IF i \in set THEN mac[i] ELSE None]]
  BY DEF ApplyMac
<1>2. mac' \in [Ifaces -> Macs]
  BY <1>1 DEF TypeOK, Macs
<1>3. [i \in Ifaces |-> IF i \in set THEN mac[i] ELSE None] \in [Ifaces -> Macs \cup {None}]
  BY DEF TypeOK
<1>4. QED
  BY <1>1, <1>2, <1>3, SetMacs DEF TypeOK

LEMMA Inits == Init => IInv
<1> SUFFICES ASSUME Init PROVE IInv
  OBVIOUS
<1>1. TypeOK
  BY OriginalsAssumption, Fresh DEF Init, TypeOK, OriginalHosts, Names, Resolvers, Macs, Labels, Resumes
<1>2. MountsNeverStack /\ NoSelfBackup
  BY Fresh DEF Init, MountsNeverStack, NoSelfBackup, MARKER, None, GENERIC_HOSTNAME
<1>3. CleanIsIdle /\ DnsRestored /\ GenericHost /\ OwnName
  BY OriginalsAssumption, Fresh
     DEF Init, CleanIsIdle, DnsRestored, Answering, GenericHost, OwnName, OriginalHosts
<1>4. QED
  BY <1>1, <1>2, <1>3 DEF IInv

-----------------------------------------------------------------------------
LEMMA TypeStep == TypeOK /\ [Next]_vars => TypeOK'
<1> SUFFICES ASSUME TypeOK, [Next]_vars PROVE TypeOK'
  OBVIOUS
<1> USE Fresh DEF hostVars, Truncate, Try, Undo, Resumes
<1>1. CASE UpStart
  BY <1>1 DEF TypeOK, UpStart, Labels
<1>2. CASE WriteSession
  BY <1>2 DEF TypeOK, WriteSession, Labels
<1>3. CASE ApplySwap
  <2>1. (swap # {}) \in BOOLEAN
    OBVIOUS
  <2>2. mem' \in Session
    BY <1>3, <2>1, SetSwap, Zenon DEF TypeOK, ApplySwap
  <2>3. swap' \in SUBSET Swaps
    BY <1>3 DEF TypeOK, ApplySwap, SwapOff
  <2>4. QED
    BY <1>3, <2>2, <2>3 DEF TypeOK, ApplySwap, Labels
<1>4. CASE ApplySysctl
  BY <1>4 DEF TypeOK, ApplySysctl, Labels
<1>5. CASE ApplyName
  <2>1. CASE name = GENERIC_HOSTNAME
    BY <1>5, <2>1 DEF TypeOK, ApplyName, Labels
  <2>2. CASE name # GENERIC_HOSTNAME
    <3>1. name' \in Names
      BY <1>5, <2>2 DEF TypeOK, ApplyName, Names
    <3>2. (IF name' = name THEN None ELSE name) \in Names \cup {None}
      BY DEF TypeOK
    <3>3. mem' \in Session
      BY <1>5, <2>2, <3>2, SetName DEF TypeOK, ApplyName
    <3>4. QED
      BY <1>5, <3>1, <3>3 DEF TypeOK, ApplyName, Labels
  <2>3. QED
    BY <2>1, <2>2
<1>6. CASE ApplyMount
  <2>1. nameMounts' \in Nat
    BY <1>6 DEF TypeOK, ApplyMount
  <2>2. mem' \in Session
    BY <1>6, SetMount DEF TypeOK, ApplyMount
  <2>3. QED
    BY <1>6, <2>1, <2>2 DEF TypeOK, ApplyMount, Labels
<1>7. CASE ApplyMachineId
  <2>1. idMounts' \in Nat
    BY <1>7 DEF TypeOK, ApplyMachineId
  <2>2. (idMounts' # idMounts) \in BOOLEAN
    OBVIOUS
  <2>3. mem' \in Session
    BY <1>7, <2>2, SetId, Zenon DEF TypeOK, ApplyMachineId
  <2>4. QED
    BY <1>7, <2>1, <2>3 DEF TypeOK, ApplyMachineId, Labels
<1>8. CASE ApplyMac
  BY <1>8, MacStep DEF TypeOK, ApplyMac, Labels
<1>9. CASE Hardened \/ BringUp \/ Fail
  BY <1>9 DEF TypeOK, Hardened, BringUp, Fail, Labels
<1>10. CASE Pin
  <2>1. mem' \in Session
    BY <1>10, SetResolv DEF TypeOK, Pin
  <2>2. QED
    BY <1>10, <2>1 DEF TypeOK, Pin, Labels, Resolvers
<1>11. CASE DownStart \/ DownClear
  BY <1>11 DEF TypeOK, DownStart, DownClear, Labels
<1>12. CASE RestoreDns
  <2>1. resolv' \in Resolvers /\ locked' \in BOOLEAN /\ answered' \in BOOLEAN
    BY <1>12 DEF TypeOK, RestoreDns, Answer, Resolvers, Session, MARKER
  <2>2. QED
    BY <1>12, <2>1 DEF TypeOK, RestoreDns, Labels
<1>13. CASE Restore
  <2>1. CASE ~mem.kept
    BY <1>13, <2>1 DEF TypeOK, Restore, Labels
  <2>2. CASE mem.kept
    <3>1. idMounts' \in Nat /\ nameMounts' \in Nat
      BY <1>13, <2>2 DEF TypeOK, Restore
    <3>2. name' \in Names
      BY <1>13, <2>2 DEF TypeOK, Restore, Session
    <3>3. [i \in Ifaces |-> IF mem.macs[i] = None THEN mac[i] ELSE mem.macs[i]] \in [Ifaces -> Macs]
      BY DEF TypeOK, Session
    <3>4. mac' \in [Ifaces -> Macs]
      BY <1>13, <2>2, <3>3 DEF TypeOK, Restore
    <3>5. mem.swap \in BOOLEAN
      BY DEF TypeOK, Session
    <3>6. swap' \in SUBSET Swaps /\ timestamps' \in BOOLEAN
      BY <1>13, <2>2, <3>5 DEF TypeOK, Restore, Fstab, Swaps
    <3>7. QED
      BY <1>13, <3>1, <3>2, <3>4, <3>6 DEF TypeOK, Restore, Labels
  <2>3. QED
    BY <2>1, <2>2
<1>14. CASE Reassert
  BY <1>14 DEF TypeOK, Reassert, OriginalHosts, Names, GENERIC_HOSTNAME
<1>15. CASE TorDies \/ Kill
  <2>1. CASE TorDies
    BY <2>1 DEF TypeOK, TorDies
  <2>2. CASE Kill
    BY <2>2 DEF TypeOK, Kill, Labels
  <2>3. QED
    BY <1>15, <2>1, <2>2
<1>16. CASE Reboot
  BY <1>16 DEF TypeOK, Reboot, OriginalHosts, Macs
<1>17. CASE UNCHANGED vars
  BY <1>17 DEF TypeOK, vars
<1>18. QED
  BY <1>1, <1>2, <1>3, <1>4, <1>5, <1>6, <1>7, <1>8, <1>9, <1>10, <1>11, <1>12, <1>13,
     <1>14, <1>15, <1>16, <1>17 DEF Next

(* One step per action; only the parts of the invariant an action can disturb *)
(* are argued.                                                                *)
LEMMA Inductive == IInv /\ [Next]_vars => IInv'
<1> SUFFICES ASSUME IInv, [Next]_vars PROVE IInv'
  OBVIOUS
<1>t. TypeOK /\ TypeOK'
  BY TypeStep DEF IInv
<1> DEFINE Kept == /\ MountsNeverStack' /\ NoSelfBackup' /\ CleanIsIdle' /\ DnsRestored'
                   /\ GenericHost' /\ OwnName'
<1> SUFFICES Kept
  BY <1>t DEF IInv
<1> USE Fresh DEF hostVars, Truncate, Try, Undo, IInv, MountsNeverStack, NoSelfBackup,
                  CleanIsIdle, DnsRestored, Answering, GenericHost, OwnName
<1>1. CASE UpStart
  BY <1>1 DEF UpStart, MARKER, None, GENERIC_HOSTNAME
<1>2. CASE WriteSession
  BY <1>2, <1>t DEF WriteSession, TypeOK, Resumes
<1>3. CASE ApplySwap
  <2>1. (swap # {}) \in BOOLEAN
    OBVIOUS
  <2>2. mem'.name = mem.name /\ mem'.resolv = mem.resolv
    BY <1>3, <1>t, <2>1, SetSwap, Zenon DEF TypeOK, ApplySwap
  <2>3. QED
    BY <1>3, <2>2 DEF ApplySwap
<1>4. CASE ApplySysctl
  BY <1>4 DEF ApplySysctl
<1>5. CASE ApplyName
  <2>1. CASE name = GENERIC_HOSTNAME
    BY <1>5, <2>1 DEF ApplyName
  <2>2. CASE name # GENERIC_HOSTNAME
    <3>1. (IF name' = name THEN None ELSE name) \in Names \cup {None}
      BY <1>t DEF TypeOK
    <3>2. mem' = [mem EXCEPT !.name = IF name' = name THEN None ELSE name]
      BY <1>5, <2>2 DEF ApplyName
    <3>3. /\ mem'.name = IF name' = name THEN None ELSE name
          /\ mem'.resolv = mem.resolv
      BY <1>t, <3>1, <3>2, SetName DEF TypeOK
    <3>4. pc' = "mount" /\ nameMounts' = nameMounts /\ orig' = orig /\ orig.name # GENERIC_HOSTNAME
      BY <1>5, <2>2 DEF ApplyName
    <3>5. mem'.name # GENERIC_HOSTNAME /\ (mem'.name = None => name' # GENERIC_HOSTNAME)
      BY <1>t, <2>2, <3>3 DEF TypeOK, Names, None, GENERIC_HOSTNAME
    <3>6. QED
      BY <1>5, <2>2, <3>3, <3>4, <3>5 DEF ApplyName
  <2>3. QED
    BY <2>1, <2>2
<1>6. CASE ApplyMount
  <2>1. CASE nameMounts' = nameMounts
    BY <1>6, <2>1 DEF ApplyMount
  <2>2. CASE nameMounts' # nameMounts
    <3>1. nameMounts = 0 /\ nameMounts' = 1
      BY <1>6, <2>2 DEF ApplyMount
    <3>2. /\ mem'.name = IF mem.name = None THEN name ELSE mem.name
          /\ mem'.resolv = mem.resolv
      BY <1>6, <1>t, <2>2, SetMount DEF TypeOK, ApplyMount
    <3>3. QED
      BY <1>6, <3>1, <3>2 DEF ApplyMount
  <2>3. QED
    BY <2>1, <2>2
<1>7. CASE ApplyMachineId
  <2>1. idMounts' <= 1
    BY <1>7, <1>t DEF ApplyMachineId, TypeOK
  <2>2. (idMounts' # idMounts) \in BOOLEAN
    OBVIOUS
  <2>3. mem'.name = mem.name /\ mem'.resolv = mem.resolv
    BY <1>7, <1>t, <2>2, SetId, Zenon DEF TypeOK, ApplyMachineId
  <2>4. QED
    BY <1>7, <2>1, <2>3 DEF ApplyMachineId
<1>8. CASE ApplyMac
  BY <1>8, <1>t, MacStep DEF ApplyMac
<1>9. CASE Hardened \/ BringUp \/ Fail
  BY <1>9, <1>t DEF Hardened, BringUp, Fail, TypeOK, None, GENERIC_HOSTNAME, MARKER
<1>10. CASE Pin
  <2>1. /\ mem'.name = mem.name
        /\ mem'.resolv \in {mem.resolv, resolv} \ MARKER
    BY <1>10, <1>t, SetResolv DEF Pin, TypeOK
  <2>2. QED
    BY <1>10, <2>1 DEF Pin, None, GENERIC_HOSTNAME, MARKER
<1>11. CASE DownStart
  BY <1>11 DEF DownStart
<1>12. CASE RestoreDns
  BY <1>12, <1>t DEF RestoreDns, Answer, MARKER, TypeOK, Session, Resolvers, None
<1>13. CASE Restore
  <2>1. CASE ~mem.kept
    BY <1>13, <2>1 DEF Restore
  <2>2. CASE mem.kept
    <3>1. idMounts' <= 1 /\ nameMounts' <= 1
      BY <1>13, <1>t, <2>2 DEF Restore, TypeOK
    <3>2. mem.name = None => name' = name
      BY <1>13, <2>2 DEF Restore
    <3>3. QED
      BY <1>13, <3>1, <3>2 DEF Restore
  <2>3. QED
    BY <2>1, <2>2
<1>14. CASE DownClear
  BY <1>14 DEF DownClear, MARKER, None, GENERIC_HOSTNAME
<1>15. CASE Reassert
  BY <1>15, <1>t DEF Reassert, TypeOK
<1>16. CASE TorDies
  BY <1>16 DEF TorDies
<1>17. CASE Kill
  BY <1>17 DEF Kill, MARKER, None, GENERIC_HOSTNAME
<1>18. CASE Reboot
  BY <1>18, <1>t DEF Reboot, TypeOK
<1>19. CASE UNCHANGED vars
  BY <1>19 DEF vars
<1>20. QED
  BY <1>1, <1>2, <1>3, <1>4, <1>5, <1>6, <1>7, <1>8, <1>9, <1>10, <1>11, <1>12, <1>13,
     <1>14, <1>15, <1>16, <1>17, <1>18, <1>19 DEF Next

-----------------------------------------------------------------------------
THEOREM Invariance == Spec => []IInv
BY Inits, Inductive, PTL DEF Spec

(* The variables keep their types and every session its shape.                *)
THEOREM TypeCorrect == Spec => []TypeOK
<1>1. IInv => TypeOK
  BY DEF IInv
<1>2. QED
  BY <1>1, Invariance, PTL

(* After a `down` that could write resolv.conf the resolver is neither the    *)
(* dead pin nor empty nor immutable, whatever was killed, lost, rebooted or   *)
(* failed before it (dns.rs:41-44).                                           *)
THEOREM NoDeadPinHolds == Spec => []NoDeadPin
<1>1. IInv => NoDeadPin
  BY DEF IInv, NoDeadPin, CleanIsIdle, Answering, AfterDown
<1>2. QED
  BY <1>1, Invariance, PTL

(* At most one bind mount lies on /etc/hostname and on /etc/machine-id        *)
(* (harden.rs:39 and 60).                                                     *)
THEOREM MountsNeverStackHolds == Spec => []MountsNeverStack
<1>1. IInv => MountsNeverStack
  BY DEF IInv
<1>2. QED
  BY <1>1, Invariance, PTL

(* No session, in memory or on disk, holds the spoofed hostname or our own    *)
(* resolv.conf as the original (harden.rs:35, dns.rs:20).                     *)
THEOREM NoSelfBackupHolds == Spec => []NoSelfBackup
<1>1. IInv => NoSelfBackup
  BY DEF IInv
<1>2. QED
  BY <1>1, Invariance, PTL

-----------------------------------------------------------------------------
(* What is recorded as mounted is mounted: in the session of an `up` that     *)
(* runs, and in the stored one while its Tor lives. `down` ends that first.   *)
Durable ==
  /\ live /\ file.nameMount => nameMounts > 0
  /\ pc \notin {"idle", "d_dns", "d_restore", "d_clear"} /\ mem.nameMount => nameMounts > 0
  /\ pc \in {"d_dns", "d_restore", "d_clear"} => ~live

LEMMA MountField ==
  ASSUME NEW s \in Session
  PROVE  /\ \A b : [s EXCEPT !.swap = b].nameMount = s.nameMount
         /\ \A n : [s EXCEPT !.name = n].nameMount = s.nameMount
         /\ \A b : [s EXCEPT !.id = b].nameMount = s.nameMount
         /\ \A f : [s EXCEPT !.macs = f].nameMount = s.nameMount
         /\ \A r : [s EXCEPT !.resolv = r].nameMount = s.nameMount
         /\ NoSession.nameMount = FALSE /\ [NoSession EXCEPT !.kept = TRUE].nameMount = FALSE
BY DEF Session, NoSession

LEMMA DurableStep == TypeOK /\ Durable /\ [Next]_vars => Durable'
<1> SUFFICES ASSUME TypeOK, Durable, [Next]_vars PROVE Durable'
  OBVIOUS
<1> USE DEF hostVars, Truncate, Durable, Resumes
<1>t. /\ nameMounts \in Nat /\ mem \in Session /\ ret \in Resumes
      /\ NoSession.nameMount = FALSE
  BY MountField DEF TypeOK
<1>1. CASE UpStart
  BY <1>1, <1>t, MountField DEF UpStart
<1>2. CASE WriteSession
  BY <1>2, <1>t DEF WriteSession
<1>3. CASE ApplySwap \/ ApplySysctl \/ ApplyName
  <2>1. CASE ApplySwap
    BY <2>1, <1>t, MountField DEF ApplySwap
  <2>2. CASE ApplySysctl
    BY <2>2, <1>t DEF ApplySysctl
  <2>3. CASE ApplyName
    <3>1. mem'.nameMount = mem.nameMount /\ UNCHANGED <<nameMounts, live, file>>
      <4> DEFINE n == IF name' = name THEN None ELSE name
      <4>1. mem' \in {mem, [mem EXCEPT !.name = n]} /\ UNCHANGED <<nameMounts, live, file>>
        BY <2>3 DEF ApplyName
      <4> HIDE DEF n
      <4>2. [mem EXCEPT !.name = n].nameMount = mem.nameMount
        BY <1>t, MountField
      <4>3. QED
        BY <4>1, <4>2
    <3>2. QED
      BY <2>3, <3>1 DEF ApplyName
  <2>4. QED
    BY <1>3, <2>1, <2>2, <2>3
<1>4. CASE ApplyMount
  BY <1>4, <1>t DEF ApplyMount, Try
<1>5. CASE ApplyMachineId
  BY <1>5, <1>t, MountField DEF ApplyMachineId
<1>6. CASE ApplyMac
  BY <1>6, <1>t, MountField DEF ApplyMac
<1>7. CASE Hardened \/ BringUp \/ Fail
  BY <1>7, <1>t DEF Hardened, BringUp, Fail
<1>8. CASE Pin
  BY <1>8, <1>t, MountField DEF Pin
<1>9. CASE DownStart \/ RestoreDns \/ Restore \/ DownClear
  <2>1. CASE DownStart
    BY <2>1 DEF DownStart
  <2>2. CASE RestoreDns
    BY <2>2 DEF RestoreDns
  <2>3. CASE Restore
    BY <2>3 DEF Restore
  <2>4. CASE DownClear
    BY <2>4, <1>t DEF DownClear
  <2>5. QED
    BY <1>9, <2>1, <2>2, <2>3, <2>4
<1>10. CASE Reassert \/ TorDies
  BY <1>10 DEF Reassert, TorDies
<1>11. CASE Kill \/ Reboot
  BY <1>11 DEF Kill, Reboot
<1>12. CASE UNCHANGED vars
  BY <1>12 DEF vars
<1>13. QED
  BY <1>1, <1>2, <1>3, <1>4, <1>5, <1>6, <1>7, <1>8, <1>9, <1>10, <1>11, <1>12 DEF Next

(* In a live session that recorded the mount a generic hostname stays so,     *)
(* whatever commands failed or were killed before it (harden.rs:25-33).       *)
THEOREM SpoofIsDurableHolds == Spec => SpoofIsDurable
<1> DEFINE Held == live /\ live' /\ file.nameMount /\ name = GENERIC_HOSTNAME
                     => name' = GENERIC_HOSTNAME
<1>1. Init => Durable
  BY DEF Init, Durable
<1>2. Durable /\ [Next]_vars => [Held]_vars
  <2> SUFFICES ASSUME Durable, Next, live, live', file.nameMount, name = GENERIC_HOSTNAME
               PROVE  name' = GENERIC_HOSTNAME
    OBVIOUS
  <2>1. CASE ApplyName
    BY <2>1 DEF ApplyName
  <2>2. CASE Restore
    BY <2>2 DEF Restore, Durable
  <2>3. CASE Reassert
    BY <2>3 DEF Reassert, Durable
  <2>4. CASE Reboot
    BY <2>4 DEF Reboot
  <2>5. CASE name' = name
    BY <2>5
  <2>6. QED
    BY <2>1, <2>2, <2>3, <2>4, <2>5
       DEF Next, UpStart, WriteSession, ApplySwap, ApplySysctl, ApplyMount, ApplyMachineId,
           ApplyMac, Hardened, Pin, BringUp, Fail, DownStart, RestoreDns, DownClear, TorDies,
           Kill, hostVars
<1> HIDE DEF Held
<1>3. Spec => [][Held]_vars
  BY <1>1, <1>2, DurableStep, TypeCorrect, PTL DEF Spec
<1>4. QED
  BY <1>3 DEF SpoofIsDurable, Held

-----------------------------------------------------------------------------
(* One `up` per `down` on a usual host, where no command is killed and no     *)
(* save and no undo fails: the conditions of HostOnce.                        *)
OneUpPerDown ==
  /\ ReUp = FALSE /\ BareDown = FALSE /\ "kill" \notin Faults /\ "save" \notin Faults
  /\ "undo" \notin Faults
  /\ \A h \in Originals : /\ h.timestamps = TRUE /\ h.icmp = TRUE /\ h.resolv = "own"
                          /\ h.swap \subseteq Fstab

Untouched ==
  /\ swap = orig.swap /\ timestamps = TRUE /\ name = orig.name
  /\ nameMounts = 0 /\ idMounts = 0 /\ \A i \in Ifaces : mac[i] = "own"
  /\ resolv = "own" /\ locked = FALSE

(* Session s knows how to put names, mounts and addresses back; and swap.     *)
Backed(s) ==
  /\ s.kept = TRUE
  /\ s.name \in {None, orig.name} /\ (s.name = None => name = orig.name)
  /\ nameMounts = 0 \/ (nameMounts = 1 /\ s.nameMount = TRUE /\ s.name # None)
  /\ idMounts = 0 \/ (idMounts = 1 /\ s.id = TRUE)
  /\ \A i \in Ifaces : s.macs[i] = "own" \/ (s.macs[i] = None /\ mac[i] = "own")
SwapBacked(s) == (s.swap = TRUE <=> orig.swap # {}) /\ swap \subseteq orig.swap

(* Before each step of the hardening, and before the pin.                     *)
BeforeSwap == pc = "swap" \/ (pc = "write" /\ ret = "swap")
BeforeName == BeforeSwap \/ pc \in {"sysctl", "name"}
BeforeId   == BeforeName \/ pc \in {"mount", "id"}
BeforeMac  == BeforeId \/ pc = "mac"
BeforePin  == BeforeMac \/ pc \in {"hardened", "pin"} \/ (pc = "write" /\ ret = "pin")

(* What a step has not touched yet is recorded nowhere.                       *)
Unrecorded ==
  /\ BeforeName => mem.name = None
  /\ BeforeId => mem.id = FALSE
  /\ BeforeMac => \A i \in Ifaces : mem.macs[i] = None

(* What the command in hand can restore from its session.                     *)
InHand ==
  /\ Backed(mem) /\ Unrecorded
  /\ BeforeSwap => swap = orig.swap
  /\ ~BeforeSwap => SwapBacked(mem)
  /\ BeforePin => mem.resolv = None /\ resolv = "own" /\ locked = FALSE
  /\ ~BeforePin => mem.resolv = "own"

Undoable ==
  /\ orig.timestamps = TRUE /\ orig.icmp = TRUE /\ orig.resolv = "own" /\ icmp = TRUE
  /\ orig.swap \subseteq Fstab
  /\ cleaned => pc = "idle" /\ Untouched /\ file.kept = FALSE
  /\ pc = "idle" /\ ~cleaned => Backed(file) /\ SwapBacked(file) /\ file.resolv = "own"
  /\ pc \notin {"idle", "d_restore", "d_clear"} => InHand
  /\ pc = "d_restore" => Backed(mem) /\ SwapBacked(mem) /\ resolv = "own" /\ locked = FALSE
  /\ pc = "d_clear" => Untouched

LEMMA UndoableStep ==
  OneUpPerDown /\ TypeOK /\ Undoable /\ [Next]_vars => Undoable'
<1> SUFFICES ASSUME OneUpPerDown, TypeOK, Undoable, [Next]_vars PROVE Undoable'
  OBVIOUS
<1> USE DEF Undoable, hostVars, Truncate
<1>t. /\ mem \in Session /\ file \in Session /\ mac \in [Ifaces -> Macs] /\ ret \in Resumes
      /\ name \in Names /\ orig.name \in Names /\ orig.swap \subseteq Swaps /\ swap \subseteq Swaps
  BY DEF TypeOK, OriginalHosts
<1>n. None \notin Names /\ None # "own" /\ "own" \notin MARKER \cup {"blank", None}
  BY DEF Names, None, GENERIC_HOSTNAME, MARKER
<1>1. CASE UpStart
  <2>1. /\ cleaned /\ mem' = [NoSession EXCEPT !.kept = TRUE] /\ pc' = "write" /\ ret' = "swap"
        /\ cleaned' = FALSE /\ UNCHANGED <<hostVars, orig>>
    BY <1>1 DEF UpStart, OneUpPerDown
  <2>2. /\ mem'.kept = TRUE /\ mem'.name = None /\ mem'.resolv = None /\ mem'.id = FALSE
        /\ \A i \in Ifaces : mem'.macs[i] = None
    BY <2>1 DEF NoSession, NoMacs
  <2>3. Backed(mem)'
    BY <2>1, <2>2 DEF Backed, Untouched
  <2>4. InHand'
    BY <2>1, <2>2, <2>3
       DEF InHand, Unrecorded, BeforeSwap, BeforeName, BeforeId, BeforeMac, BeforePin, Untouched
  <2> QED BY <2>1, <2>4
<1>2. CASE WriteSession
  <2>1. /\ pc = "write" /\ file' = mem /\ pc' = ret /\ ret' = "idle"
        /\ UNCHANGED <<hostVars, orig, mem, cleaned>> /\ cleaned = FALSE
    BY <1>2 DEF WriteSession, OneUpPerDown, TypeOK
  <2>2. InHand /\ Backed(mem)' = Backed(mem) /\ SwapBacked(mem)' = SwapBacked(mem)
    BY <2>1 DEF InHand, Backed, SwapBacked
  <2>3. /\ BeforeSwap' = BeforeSwap /\ BeforeName' = BeforeName /\ BeforeId' = BeforeId
        /\ BeforeMac' = BeforeMac /\ BeforePin' = BeforePin
    BY <2>1, <1>t DEF BeforeSwap, BeforeName, BeforeId, BeforeMac, BeforePin, Resumes
  <2>4. CASE ret = "idle"
    <3>1. ~BeforeSwap /\ ~BeforePin
      BY <2>1, <2>4 DEF BeforeSwap, BeforeName, BeforeId, BeforeMac, BeforePin
    <3>2. Backed(file)' /\ SwapBacked(file)' /\ file'.resolv = "own"
      BY <2>1, <2>2, <3>1 DEF InHand, Backed, SwapBacked
    <3> QED BY <2>1, <2>4, <3>2
  <2>5. CASE ret # "idle"
    <3>1. InHand'
      BY <2>1, <2>2, <2>3 DEF InHand, Unrecorded
    <3> QED BY <2>1, <2>5, <3>1, <1>t DEF Resumes
  <2> QED BY <2>4, <2>5
<1>3. CASE ApplySwap
  <2>1. /\ mem'.swap = (swap # {}) /\ mem'.kept = mem.kept /\ mem'.name = mem.name
        /\ mem'.nameMount = mem.nameMount /\ mem'.id = mem.id /\ mem'.macs = mem.macs
        /\ mem'.resolv = mem.resolv
    BY <1>3, <1>t DEF ApplySwap, Session
  <2>2. swap' \subseteq swap /\ pc = "swap" /\ pc' = "sysctl" /\ cleaned' = FALSE
    <3>1. swap' \subseteq swap
      BY <1>3 DEF ApplySwap, SwapOff
    <3>2. pc = "swap" /\ pc' = "sysctl" /\ cleaned' = cleaned
      BY <1>3 DEF ApplySwap
    <3>3. cleaned = FALSE
      BY <3>2 DEF TypeOK
    <3> QED BY <3>1, <3>2, <3>3
  <2>3. InHand /\ Backed(mem)'
    BY <1>3, <2>1, <2>2 DEF ApplySwap, InHand, Backed
  <2>4. InHand'
    BY <1>3, <2>1, <2>2, <2>3
       DEF ApplySwap, InHand, Unrecorded, SwapBacked, BeforeSwap, BeforeName, BeforeId, BeforeMac, BeforePin
  <2> QED BY <1>3, <2>2, <2>4 DEF ApplySwap
<1>4. CASE ApplySysctl
  <2>1. icmp' = TRUE /\ pc = "sysctl" /\ pc' = "name" /\ cleaned' = FALSE
    <3>1. icmp' = TRUE \/ icmp' = icmp
      BY <1>4 DEF ApplySysctl, Try
    <3>2. pc = "sysctl" /\ pc' = "name" /\ cleaned' = cleaned
      BY <1>4 DEF ApplySysctl
    <3>3. cleaned = FALSE
      BY <3>2 DEF TypeOK
    <3> QED BY <3>1, <3>2, <3>3
  <2>2. InHand'
    BY <1>4, <2>1
       DEF ApplySysctl, InHand, Backed, SwapBacked, Unrecorded, BeforeSwap, BeforeName, BeforeId, BeforeMac, BeforePin
  <2> QED BY <1>4, <2>1, <2>2 DEF ApplySysctl
<1>5. CASE ApplyName
  <2>0. /\ pc = "name" /\ pc' \in {"mount", "id"} /\ cleaned' = FALSE /\ InHand
        /\ name = orig.name /\ nameMounts = 0 /\ mem.name = None
    BY <1>5 DEF ApplyName, InHand, Unrecorded, Backed, BeforeName
  <2> DEFINE n == IF name' = name THEN None ELSE name
  <2>1. mem' \in {mem, [mem EXCEPT !.name = n]} /\ n \in {None, orig.name}
        /\ (name' # name => mem' = [mem EXCEPT !.name = n] /\ n # None)
    BY <1>5, <2>0, <1>n, <1>t DEF ApplyName
  <2> HIDE DEF n
  <2>2. /\ mem'.swap = mem.swap /\ mem'.kept = mem.kept /\ mem'.name \in {None, orig.name}
        /\ mem'.nameMount = mem.nameMount /\ mem'.id = mem.id /\ mem'.macs = mem.macs
        /\ mem'.resolv = mem.resolv /\ (mem'.name = None => name' = name)
    BY <2>0, <2>1, <1>t DEF Session
  <2>3. UNCHANGED <<swap, icmp, nameMounts, idMounts, mac, resolv, locked, orig, file>>
    BY <1>5 DEF ApplyName
  <2>4. Backed(mem)'
    BY <2>0, <2>2, <2>3 DEF InHand, Backed
  <2>5. InHand'
    BY <2>0, <2>2, <2>3, <2>4
       DEF InHand, SwapBacked, Unrecorded, BeforeSwap, BeforeName, BeforeId, BeforeMac, BeforePin
  <2> QED BY <2>0, <2>3, <2>5
<1>6. CASE ApplyMount
  <2>0. /\ pc = "mount" /\ pc' = "id" /\ cleaned' = FALSE /\ InHand
        /\ UNCHANGED <<swap, icmp, name, idMounts, mac, resolv, locked, orig, file>>
    BY <1>6 DEF ApplyMount
  <2>1. \/ nameMounts' = nameMounts /\ mem' = mem
        \/ /\ nameMounts = 0 /\ nameMounts' = 1
           /\ mem' = [mem EXCEPT !.nameMount = TRUE, !.name = IF @ = None THEN name ELSE @]
    BY <1>6, <1>t DEF ApplyMount, Try
  <2>2. CASE mem' = mem /\ nameMounts' = nameMounts
    BY <2>0, <2>2
       DEF InHand, Backed, SwapBacked, Unrecorded, BeforeSwap, BeforeName, BeforeId, BeforeMac, BeforePin
  <2>3. CASE /\ nameMounts = 0 /\ nameMounts' = 1
             /\ mem' = [mem EXCEPT !.nameMount = TRUE, !.name = IF @ = None THEN name ELSE @]
    <3>1. /\ mem'.swap = mem.swap /\ mem'.kept = mem.kept /\ mem'.nameMount = TRUE
          /\ mem'.name = (IF mem.name = None THEN name ELSE mem.name)
          /\ mem'.id = mem.id /\ mem'.macs = mem.macs /\ mem'.resolv = mem.resolv
      BY <2>3, <1>t DEF Session
    <3>2. mem'.name = orig.name /\ mem'.name # None
      BY <2>0, <3>1, <1>n, <1>t DEF InHand, Backed
    <3>3. Backed(mem)'
      BY <2>0, <2>3, <3>1, <3>2 DEF InHand, Backed
    <3>4. InHand'
      BY <2>0, <3>1, <3>3
         DEF InHand, SwapBacked, Unrecorded, BeforeSwap, BeforeName, BeforeId, BeforeMac, BeforePin
    <3> QED BY <2>0, <3>4
  <2> QED BY <2>1, <2>2, <2>3
<1>7. CASE ApplyMachineId
  <2>0. /\ pc = "id" /\ pc' = "mac" /\ cleaned' = FALSE /\ InHand /\ idMounts = 0
        /\ UNCHANGED <<swap, icmp, name, nameMounts, mac, resolv, locked, orig, file>>
    BY <1>7 DEF ApplyMachineId, InHand, Unrecorded, Backed, BeforeId
  <2>1. idMounts' \in {0, 1} /\ mem' = [mem EXCEPT !.id = idMounts' # 0]
    BY <1>7, <2>0 DEF ApplyMachineId, Try
  <2>2. /\ mem'.swap = mem.swap /\ mem'.kept = mem.kept /\ mem'.nameMount = mem.nameMount
        /\ mem'.name = mem.name /\ mem'.macs = mem.macs /\ mem'.resolv = mem.resolv
    BY <2>1, <1>t DEF Session
  <2>3. idMounts' = 1 => mem'.id = TRUE
    <3> SUFFICES ASSUME idMounts' = 1 PROVE mem'.id = TRUE
      OBVIOUS
    <3>1. (idMounts' # 0) = TRUE
      OBVIOUS
    <3>2. mem' = [mem EXCEPT !.id = TRUE]
      BY <2>1, <3>1
    <3> QED BY <3>2, <1>t DEF Session
  <2>4. Backed(mem)'
    BY <2>0, <2>1, <2>2, <2>3 DEF InHand, Backed
  <2>5. InHand'
    BY <2>0, <2>2, <2>4
       DEF InHand, SwapBacked, Unrecorded, BeforeSwap, BeforeName, BeforeId, BeforeMac, BeforePin
  <2> QED BY <2>0, <2>5
<1>8. CASE ApplyMac
  <2>0. /\ pc = "mac" /\ pc' = "hardened" /\ cleaned' = FALSE /\ InHand
        /\ \A i \in Ifaces : mac[i] = "own"
        /\ UNCHANGED <<swap, icmp, name, nameMounts, idMounts, resolv, locked, orig, file>>
    BY <1>8, <1>n DEF ApplyMac, InHand, Unrecorded, Backed, BeforeMac
  <2>1. PICK set \in SUBSET Ifaces :
          /\ mac' = [i \in Ifaces |-> IF i \in set THEN "random" ELSE mac[i]]
          /\ mem' = [mem EXCEPT !.macs = [i \in Ifaces |-> IF i \in set THEN mac[i] ELSE None]]
    BY <1>8 DEF ApplyMac
  <2>2. /\ mem'.swap = mem.swap /\ mem'.kept = mem.kept /\ mem'.nameMount = mem.nameMount
        /\ mem'.name = mem.name /\ mem'.id = mem.id /\ mem'.resolv = mem.resolv
        /\ mem'.macs = [i \in Ifaces |-> IF i \in set THEN mac[i] ELSE None]
    BY <2>1, <1>t DEF Session
  <2>3. \A i \in Ifaces : mem'.macs[i] = "own" \/ (mem'.macs[i] = None /\ mac'[i] = "own")
    BY <2>0, <2>1, <2>2
  <2>4. Backed(mem)'
    BY <2>0, <2>2, <2>3 DEF InHand, Backed
  <2>5. InHand'
    BY <2>0, <2>2, <2>4
       DEF InHand, SwapBacked, Unrecorded, BeforeSwap, BeforeName, BeforeId, BeforeMac, BeforePin
  <2> QED BY <2>0, <2>5
<1>9. CASE Hardened \/ BringUp \/ Fail
  <2>1. /\ pc \in {"hardened", "bringup", "fail"} /\ pc' = "write" /\ cleaned' = FALSE /\ InHand
        /\ ret' = IF pc = "hardened" THEN "pin" ELSE "idle"
        /\ UNCHANGED <<hostVars, orig, mem>>
    <3>1. /\ pc \in {"hardened", "bringup", "fail"} /\ pc' = "write" /\ cleaned' = cleaned
          /\ UNCHANGED <<hostVars, orig, mem>>
      BY <1>9 DEF Hardened, BringUp, Fail
    <3>2. ret' = IF pc = "hardened" THEN "pin" ELSE "idle"
      BY <1>9 DEF Hardened, BringUp, Fail
    <3>3. cleaned = FALSE
      BY <3>1 DEF TypeOK
    <3>4. InHand
      BY <3>1
    <3> QED BY <3>1, <3>2, <3>3, <3>4
  <2>2. InHand'
    BY <2>1
       DEF InHand, Backed, SwapBacked, Unrecorded, BeforeSwap, BeforeName, BeforeId, BeforeMac, BeforePin
  <2> QED BY <2>1, <2>2
<1>10. CASE Pin
  <2>1. /\ pc = "pin" /\ pc' \in {"write", "fail"} /\ cleaned' = FALSE /\ InHand
        /\ (pc' = "write" => ret' = "bringup") /\ resolv = "own"
        /\ UNCHANGED <<swap, icmp, name, nameMounts, idMounts, mac, orig>>
    BY <1>10 DEF Pin, InHand, BeforePin
  <2>2. mem' = [mem EXCEPT !.resolv = resolv]
    BY <1>10, <2>1, <1>n DEF Pin
  <2>3. /\ mem'.swap = mem.swap /\ mem'.kept = mem.kept /\ mem'.nameMount = mem.nameMount
        /\ mem'.name = mem.name /\ mem'.id = mem.id /\ mem'.resolv = "own" /\ mem'.macs = mem.macs
    BY <2>1, <2>2, <1>t DEF Session
  <2>4. Backed(mem)'
    BY <2>1, <2>3 DEF InHand, Backed
  <2>5. InHand'
    BY <2>1, <2>3, <2>4
       DEF InHand, SwapBacked, Unrecorded, BeforeSwap, BeforeName, BeforeId, BeforeMac, BeforePin
  <2> QED BY <2>1, <2>5
<1>11. CASE DownStart
  <2>1. /\ pc = "idle" /\ pc' = "d_dns" /\ mem' = file /\ cleaned' = FALSE /\ cleaned = FALSE
        /\ UNCHANGED <<hostVars, orig>>
    BY <1>11 DEF DownStart, OneUpPerDown, TypeOK
  <2>2. Backed(mem)' /\ SwapBacked(mem)' /\ mem'.resolv = "own"
    BY <2>1 DEF Backed, SwapBacked
  <2>3. InHand'
    BY <2>1, <2>2
       DEF InHand, Unrecorded, BeforeSwap, BeforeName, BeforeId, BeforeMac, BeforePin
  <2> QED BY <2>1, <2>3
<1>12. CASE RestoreDns
  <2>1. /\ pc = "d_dns" /\ pc' = "d_restore" /\ cleaned' = FALSE /\ InHand
        /\ UNCHANGED <<swap, icmp, name, nameMounts, idMounts, mac, orig, mem>> /\ locked' = FALSE
    BY <1>12 DEF RestoreDns, Answer, OneUpPerDown
  <2>2. mem.resolv = "own" /\ Backed(mem) /\ SwapBacked(mem)
    BY <2>1 DEF InHand, BeforeSwap, BeforeName, BeforeId, BeforeMac, BeforePin
  <2>3. resolv' = "own"
    BY <1>12, <2>2, <1>n DEF RestoreDns, Answer, OneUpPerDown
  <2> QED BY <2>1, <2>2, <2>3 DEF Backed, SwapBacked
<1>13. CASE Restore
  <2>1. /\ pc = "d_restore" /\ pc' = "d_clear" /\ cleaned' = FALSE
        /\ Backed(mem) /\ SwapBacked(mem) /\ resolv' = "own" /\ locked' = FALSE
        /\ UNCHANGED <<icmp, orig>>
    BY <1>13 DEF Restore
  <2>2. /\ idMounts' = (IF mem.id /\ idMounts > 0 THEN idMounts - 1 ELSE idMounts)
        /\ nameMounts' = (IF mem.nameMount /\ nameMounts > 0 THEN nameMounts - 1 ELSE nameMounts)
        /\ name' = (IF mem.name = None THEN name ELSE mem.name)
        /\ mac' = [i \in Ifaces |-> IF mem.macs[i] = None THEN mac[i] ELSE mem.macs[i]]
        /\ timestamps' = TRUE /\ swap' = (IF mem.swap THEN swap \cup (orig.swap \cap Fstab) ELSE swap)
    BY <1>13, <2>1 DEF Restore, Undo, OneUpPerDown, Backed
  <2>3. idMounts' = 0 /\ nameMounts' = 0 /\ name' = orig.name
    BY <2>1, <2>2 DEF Backed
  <2>4. \A i \in Ifaces : mac'[i] = "own"
    BY <2>1, <2>2, <1>n DEF Backed
  <2>5. swap' = orig.swap
    BY <2>1, <2>2, <1>t DEF SwapBacked
  <2> QED BY <2>1, <2>2, <2>3, <2>4, <2>5 DEF Untouched
<1>14. CASE DownClear
  <2>1. NoSession.kept = FALSE
    BY DEF NoSession
  <2> QED BY <1>14, <2>1 DEF DownClear, Undo, OneUpPerDown, Untouched
<1>15. CASE Reassert
  <2>1. /\ name' = (IF nameMounts > 0 THEN GENERIC_HOSTNAME ELSE orig.name)
        /\ UNCHANGED <<swap, timestamps, icmp, nameMounts, idMounts, mac, resolv, locked,
                       orig, file, mem, pc, ret, cleaned>>
    BY <1>15 DEF Reassert
  <2>2. (Untouched => Untouched') /\ (Backed(mem) => Backed(mem)') /\ (Backed(file) => Backed(file)')
    BY <2>1 DEF Untouched, Backed
  <2>3. InHand => InHand'
    BY <2>1, <2>2 DEF InHand, SwapBacked, Unrecorded, BeforeSwap, BeforeName, BeforeId, BeforeMac, BeforePin
  <2> QED BY <2>1, <2>2, <2>3 DEF SwapBacked
<1>16. CASE Reboot
  <2>1. /\ pc = "idle" /\ pc' = "idle" /\ swap' = orig.swap /\ timestamps' = TRUE /\ icmp' = TRUE
        /\ name' = orig.name /\ nameMounts' = 0 /\ idMounts' = 0
        /\ \A i \in Ifaces : mac'[i] = "own"
        /\ UNCHANGED <<resolv, locked, orig, file, cleaned>>
    BY <1>16 DEF Reboot
  <2>2. CASE cleaned
    BY <2>1, <2>2 DEF Untouched
  <2>3. CASE ~cleaned
    <3>1. Backed(file)' /\ SwapBacked(file)' /\ file'.resolv = "own"
      BY <2>1, <2>3, <1>n DEF Backed, SwapBacked
    <3> QED BY <2>1, <2>3, <3>1
  <2> QED BY <2>2, <2>3
<1>17. CASE TorDies \/ UNCHANGED vars
  <2>1. UNCHANGED <<hostVars, orig, file, mem, pc, ret, cleaned>>
    BY <1>17 DEF TorDies, vars
  <2>2. (Untouched' <=> Untouched) /\ (Backed(mem)' <=> Backed(mem)) /\ (Backed(file)' <=> Backed(file))
        /\ (SwapBacked(mem)' <=> SwapBacked(mem)) /\ (SwapBacked(file)' <=> SwapBacked(file))
    BY <2>1 DEF Untouched, Backed, SwapBacked
  <2>3. InHand' <=> InHand
    BY <2>1, <2>2 DEF InHand, Unrecorded, BeforeSwap, BeforeName, BeforeId, BeforeMac, BeforePin
  <2> QED BY <2>1, <2>2, <2>3
<1>18. CASE Kill
  BY <1>18 DEF Kill, OneUpPerDown
<1> QED
  BY <1>1, <1>2, <1>3, <1>4, <1>5, <1>6, <1>7, <1>8, <1>9, <1>10, <1>11, <1>12, <1>13,
     <1>14, <1>15, <1>16, <1>17, <1>18 DEF Next

(* With one `up` per `down` on a usual host (the usual sysctls, a resolver,   *)
(* no swap but that of /etc/fstab), `down` restores all of it, although       *)
(* commands of the hardening and the pin fail, Tor dies and the machine       *)
(* reboots (harden.rs:95). No kill, failed save or failed undo is in it.      *)
THEOREM ReversibleHolds == OneUpPerDown => (Spec => []Reversible)
<1> SUFFICES ASSUME OneUpPerDown PROVE Spec => []Reversible
  OBVIOUS
<1>1. Init => Undoable
  <2> SUFFICES ASSUME Init PROVE Undoable
    OBVIOUS
  <2>1. orig.timestamps = TRUE /\ orig.icmp = TRUE /\ orig.resolv = "own" /\ orig.swap \subseteq Fstab
    BY DEF Init, OneUpPerDown
  <2>2. NoSession.kept = FALSE
    BY DEF NoSession
  <2> QED BY <2>1, <2>2 DEF Init, Undoable, Untouched
<1>2. TypeOK /\ Undoable => Reversible
  <2> SUFFICES ASSUME TypeOK, Undoable, AfterDown PROVE Reversible
    BY DEF Reversible
  <2>1. mac = [i \in Ifaces |-> "own"]
    BY DEF TypeOK, Undoable, Untouched, AfterDown
  <2> QED BY <2>1 DEF Undoable, Untouched, AfterDown, Reversible
<1>3. TypeOK /\ Undoable /\ [Next]_vars => Undoable'
  BY UndoableStep
<1>4. QED
  BY <1>1, <1>2, <1>3, TypeCorrect, PTL DEF Spec
=============================================================================
