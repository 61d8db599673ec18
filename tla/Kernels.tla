------------------------------ MODULE Kernels ------------------------------
(* arxos-kernel where arx is absent: `install` and `remove` of kernels, of    *)
(* which several may run at once, beside upgrades by pacman itself. `remove`  *)
(* asks which kernel runs, then how many there are, and removes one after     *)
(* that. What runs is read from the module directory of the running kernel,   *)
(* which an upgrade of that kernel in place takes away.                       *)
EXTENDS FiniteSets, Naturals

CONSTANTS
  Flavors,  \* the kernel packages the tool knows
  Runs      \* slots in which the tool runs

ASSUME FlavorsAssumption == IsFiniteSet(Flavors) /\ "none" \notin Flavors

VARIABLES
  kernels,    \* installed kernels
  booted,     \* the one that runs
  upgraded,   \* since boot, it was upgraded in place
  job,        \* what each run does: its next step and its flavor
  overlapped  \* history: since boot, a removal ended between the checks and the end of another

kernelVars == <<kernels, booted, upgraded, job, overlapped>>

NoJob == [step |-> "idle", flavor |-> "none"]
Jobs == {NoJob} \cup [step : {"fetch", "put", "running", "count", "remove"}, flavor : Flavors]

KernelTypeOK ==
  /\ kernels \subseteq Flavors /\ booted \in Flavors /\ upgraded \in BOOLEAN
  /\ job \in [Runs -> Jobs] /\ overlapped \in BOOLEAN

KernelInit ==
  /\ kernels \in SUBSET Flavors /\ booted \in kernels /\ upgraded = FALSE
  /\ job = [r \in Runs |-> NoJob] /\ overlapped = FALSE

Does(r, step) == job[r].step = step
Proceed(r, step) == job' = [job EXCEPT ![r].step = step]
GiveUp(r) == job' = [job EXCEPT ![r] = NoJob]

-----------------------------------------------------------------------------
Begin(r, step, f) ==
  /\ Does(r, "idle") /\ job' = [job EXCEPT ![r] = [step |-> step, flavor |-> f]]
  /\ UNCHANGED <<kernels, booted, upgraded, overlapped>>

(* _resolve, curl and the two checksums: both files are good, or the end.     *)
FetchVerified(r) ==
  /\ Does(r, "fetch") /\ (Proceed(r, "put") \/ GiveUp(r))
  /\ UNCHANGED <<kernels, booted, upgraded, overlapped>>

(* pacman -U. Another version of the running kernel replaces its directory.   *)
Put(r) ==
  /\ Does(r, "put") /\ GiveUp(r)
  /\ \/ /\ kernels' = kernels \cup {job[r].flavor}
        /\ upgraded' = (upgraded \/ job[r].flavor = booted)
     \/ UNCHANGED <<kernels, upgraded>>
  /\ UNCHANGED <<booted, overlapped>>

(* The file pkgbase in the module directory of the running kernel.            *)
Named == booted \in kernels /\ ~upgraded

(* Mutant: the running kernel is not asked for.                               *)
CheckRunningNot(r) ==
  /\ Does(r, "running") /\ Proceed(r, "count")
  /\ UNCHANGED <<kernels, booted, upgraded, overlapped>>

(* The kernel that runs stays, when its name can be read.                     *)
CheckRunning(r) ==
  /\ Does(r, "running")
  /\ IF Named /\ booted = job[r].flavor THEN GiveUp(r) ELSE Proceed(r, "count")
  /\ UNCHANGED <<kernels, booted, upgraded, overlapped>>

(* The last kernel stays, by a count of what is installed now.                *)
CheckCount(r) ==
  /\ Does(r, "count")
  /\ IF Cardinality(kernels) > 1 /\ job[r].flavor \in kernels THEN Proceed(r, "remove") ELSE GiveUp(r)
  /\ UNCHANGED <<kernels, booted, upgraded, overlapped>>

(* pacman -Rns, which may fail.                                               *)
Uninstall(r) ==
  /\ Does(r, "remove") /\ GiveUp(r)
  /\ \/ /\ job[r].flavor \in kernels /\ kernels' = kernels \ {job[r].flavor}
        /\ overlapped' = (overlapped \/ \E q \in Runs \ {r} : Does(q, "remove"))
     \/ UNCHANGED <<kernels, overlapped>>
  /\ UNCHANGED <<booted, upgraded>>

(* pacman -Syu upgrades the running kernel in place.                          *)
Upgrade ==
  /\ booted \in kernels /\ upgraded' = TRUE
  /\ UNCHANGED <<kernels, booted, job, overlapped>>

Boot ==
  /\ booted' \in kernels /\ upgraded' = FALSE
  /\ job' = [r \in Runs |-> NoJob] /\ overlapped' = FALSE
  /\ UNCHANGED kernels

Interrupted(r) ==
  /\ ~Does(r, "idle") /\ GiveUp(r)
  /\ UNCHANGED <<kernels, booted, upgraded, overlapped>>

Command(r) ==
  \/ \E f \in Flavors : Begin(r, "fetch", f) \/ Begin(r, "running", f)
  \/ FetchVerified(r) \/ Put(r) \/ CheckRunning(r) \/ CheckCount(r) \/ Uninstall(r) \/ Interrupted(r)

KernelNext == (\E r \in Runs : Command(r)) \/ Upgrade \/ Boot

KernelSpec == KernelInit /\ [][KernelNext]_kernelVars

-----------------------------------------------------------------------------
(* There is always a kernel to boot: removals that overlap cannot take the    *)
(* running one, and removals one after the other cannot take the last one.    *)
(* Only both at once could, overlapping removals after an upgrade in place    *)
(* (arxos-kernel:98-102).                                                     *)
KernelRemains == ~upgraded \/ ~overlapped => kernels # {}
=============================================================================
