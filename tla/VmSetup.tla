------------------------------ MODULE VmSetup ------------------------------
(* The VM Tools panel: a click opens a terminal with a script that sets one   *)
(* engine up, in steps of which each may fail, and several terminals may be   *)
(* open. A terminal whose script is done says so and closes itself.           *)

CONSTANT Windows  \* terminals that may be open at once

VARIABLES
  engine,   \* the engine of this behaviour
  machine,  \* installed, member of the group (usermod), service or module active
  session,  \* the login session is in the group (id -nG)
  lock,     \* the terminal whose pacman holds the database, or "free"
  at        \* the step of each script, or how it ended

vmVars == <<engine, machine, session, lock, at>>

Engines == {"qemu", "virtualbox", "vmware"}
Steps == {"install", "join", "start"}

VmTypeOK ==
  /\ engine \in Engines /\ session \in BOOLEAN /\ lock \in Windows \cup {"free"}
  /\ machine \in [{"installed", "member", "active"} -> BOOLEAN]
  /\ at \in [Windows -> Steps \cup {"closed", "done"}]

VmInit ==
  /\ engine \in Engines /\ session = FALSE /\ lock = "free"
  /\ machine = [f \in {"installed", "member", "active"} |-> FALSE]
  /\ at = [w \in Windows |-> "closed"]

(* vm_status: service and group are asked for, the group of this session.     *)
Ready ==
  /\ machine.installed
  /\ engine # "vmware" => machine.active /\ session

-----------------------------------------------------------------------------
(* spawn_terminal with the script of the engine.                              *)
Open(w) ==
  /\ at[w] = "closed" /\ at' = [at EXCEPT ![w] = "install"]
  /\ UNCHANGED <<engine, machine, session, lock>>

After(step) ==
  CASE step = "install" -> IF engine = "vmware" THEN "done" ELSE "join"
    [] step = "join"    -> "start"
    [] step = "start"   -> "done"

Succeeds(w, part) ==
  /\ machine' = [machine EXCEPT ![part] = TRUE]
  /\ at' = [at EXCEPT ![w] = After(@)]

(* Mutant: the script goes on.                                                *)
FailsButGoesOn(w) == at' = [at EXCEPT ![w] = After(@)] /\ UNCHANGED machine

(* set -e: the first command that fails ends the shell, and so its terminal:  *)
(* the prompt that wrap_close has for errors is never reached.                *)
Fails(w) == at' = [at EXCEPT ![w] = "closed"] /\ UNCHANGED machine

(* pacman (or arx aur) takes the lock of the package database, or fails.      *)
LockPackages(w) ==
  /\ at[w] = "install" /\ lock # w
  /\ \/ lock = "free" /\ lock' = w /\ UNCHANGED <<machine, at>>
     \/ lock # "free" /\ Fails(w) /\ UNCHANGED lock
  /\ UNCHANGED <<engine, session>>

Install(w) ==
  /\ at[w] = "install" /\ lock = w /\ lock' = "free"
  /\ Succeeds(w, "installed") \/ Fails(w)
  /\ UNCHANGED <<engine, session>>

Join(w) ==
  /\ at[w] = "join"
  /\ Succeeds(w, "member") \/ Fails(w)
  /\ UNCHANGED <<engine, session, lock>>

(* systemctl enable --now, or modprobe.                                       *)
Activate(w) ==
  /\ at[w] = "start"
  /\ Succeeds(w, "active") \/ Fails(w)
  /\ UNCHANGED <<engine, session, lock>>

(* wrap_close: three seconds after it is done.                                *)
Close(w) ==
  /\ at[w] = "done" /\ at' = [at EXCEPT ![w] = "closed"]
  /\ UNCHANGED <<engine, machine, session, lock>>

(* The user closes the window of a script that runs.                          *)
CloseWindow(w) ==
  /\ at[w] \in Steps /\ at' = [at EXCEPT ![w] = "closed"]
  /\ lock' = IF lock = w THEN "free" ELSE lock
  /\ UNCHANGED <<engine, machine, session>>

(* The session ends, with its terminals, and the user logs in again.          *)
Login ==
  /\ session' = machine.member /\ lock' = "free" /\ at' = [w \in Windows |-> "closed"]
  /\ UNCHANGED <<engine, machine>>

(* So does a reboot, after which the module of VirtualBox need not be loaded.  *)
Restart ==
  /\ session' = machine.member /\ lock' = "free" /\ at' = [w \in Windows |-> "closed"]
  /\ engine = "virtualbox" /\ machine' = [machine EXCEPT !.active = FALSE]
  /\ UNCHANGED engine

Script(w) == LockPackages(w) \/ Install(w) \/ Join(w) \/ Activate(w) \/ Close(w)

VmNext == (\E w \in Windows : Open(w) \/ Script(w) \/ CloseWindow(w)) \/ Login \/ Restart

VmSpec == VmInit /\ [][VmNext]_vmVars

-----------------------------------------------------------------------------
(* When a terminal says that it is done and that the user has to log in again *)
(* (vm_tools.rs:105, 114), the panel shows the engine as ready after that,    *)
(* although each command may fail and a second terminal runs the same script. *)
DoneIsReady == [][Login /\ (\E w \in Windows : at[w] = "done") => Ready']_vmVars
=============================================================================
