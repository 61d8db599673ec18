------------------------------ MODULE Desktop -------------------------------
(* The programs of the desktop around anond and arxonion, side by side. They  *)
(* keep no state in common (the file update-count, which arxos-notify and the *)
(* Control Center both write, is in Notify and in Badge, with both writers),  *)
(* so a behaviour runs one of them and leaves the others as they start.       *)
EXTENDS Notify, Badge, Stream, VmSetup, Kernels, News, Listings

VARIABLE program  \* the one that runs

Programs == {"notify", "badge", "stream", "vm", "kernel", "news", "listings"}

AtRest ==
  /\ program # "notify" => pending = {}
  /\ program # "vm" => engine = "qemu"
  /\ program # "kernel" => kernels = Flavors /\ booted = CHOOSE f \in Flavors : TRUE
  /\ program # "news" => registry = {}

DesktopInit ==
  /\ program \in Programs
  /\ Init /\ BadgeInit /\ StreamInit /\ VmInit /\ KernelInit /\ NewsInit /\ ListInit
  /\ AtRest

NotifyRuns ==
  /\ program = "notify" /\ Next
  /\ UNCHANGED <<badgeVars, streamVars, vmVars, kernelVars, newsVars, listVars>>
BadgeRuns ==
  /\ program = "badge" /\ BadgeNext
  /\ UNCHANGED <<vars, streamVars, vmVars, kernelVars, newsVars, listVars>>
StreamRuns ==
  /\ program = "stream" /\ StreamNext
  /\ UNCHANGED <<vars, badgeVars, vmVars, kernelVars, newsVars, listVars>>
VmRuns ==
  /\ program = "vm" /\ VmNext
  /\ UNCHANGED <<vars, badgeVars, streamVars, kernelVars, newsVars, listVars>>
KernelRuns ==
  /\ program = "kernel" /\ KernelNext
  /\ UNCHANGED <<vars, badgeVars, streamVars, vmVars, newsVars, listVars>>
NewsRuns ==
  /\ program = "news" /\ NewsNext
  /\ UNCHANGED <<vars, badgeVars, streamVars, vmVars, kernelVars, listVars>>
ListingsRun ==
  /\ program = "listings" /\ ListNext
  /\ UNCHANGED <<vars, badgeVars, streamVars, vmVars, kernelVars, newsVars>>

DesktopNext ==
  /\ \/ NotifyRuns \/ BadgeRuns \/ StreamRuns \/ VmRuns \/ KernelRuns \/ NewsRuns \/ ListingsRun
  /\ UNCHANGED program

desktopVars ==
  <<program, vars, badgeVars, streamVars, vmVars, kernelVars, newsVars, listVars>>

(* The fairness of Spec and StreamSpec, for the program that runs.            *)
DesktopSpec ==
  /\ DesktopInit /\ [][DesktopNext]_desktopVars
  /\ WF_vars(program = "notify" /\ Pass)
  /\ StreamFairness

(* Every program keeps its types.                                             *)
DesktopTypeOK ==
  /\ program \in Programs
  /\ TypeOK /\ BadgeTypeOK /\ StreamTypeOK /\ VmTypeOK /\ KernelTypeOK /\ NewsTypeOK
=============================================================================
