------------------------------ MODULE Arxonion ------------------------------
(* arxonion: commands that build, share and remove one network namespace      *)
(* whose only way out is Tor. A process is a slot that runs one command at a  *)
(* time; a step is one external command, as the shared kernel state sees it.  *)
EXTENDS FiniteSets

CONSTANTS
  Procs,    \* slots in which commands run
  Nets,     \* namespace objects (bound: how many may be alive at once)
  None,
  Overlap,  \* commands may overlap; nothing in the code prevents it
  Faults    \* "fail" a setup command fails, "kill" a command dies anywhere,
            \* "ctrlc" it dies under its app, "orphan" the app survives that,
            \* "tor" Tor starts and stops

ASSUME ProcsAssumption == Procs # {}
ASSUME NetsAssumption == None \notin Nets /\ "host" \notin Nets /\ None # "host"
ASSUME OverlapAssumption == Overlap \in BOOLEAN

VARIABLES
  name,        \* the namespace that /run/netns/arxonion refers to
  veth,        \* where the veth's far end is: a namespace, the host, or no veth
  routed,      \* both ends have addresses, the far one the default route
  forwarding,  \* ip_forward, route_localnet and rp_filter were set
  table,       \* the nft table `ip arxonion`
  etc,         \* /etc/netns/arxonion/resolv.conf
  tor,         \* Tor's SOCKS port answers
  app,         \* the namespace each slot's app runs in
  pc, job,     \* the next step of each slot and the command it runs
  own,         \* a run or shell that found no namespace: it removes its own
  kept         \* `up` has returned and no `down` was asked for since

netVars == <<name, veth, routed, forwarding, table, etc>>
vars == <<netVars, tor, app, pc, job, own, kept>>

Jobs   == {"run", "shell", "up", "down"}
Setup  == {"s_ns", "s_veth", "s_move", "s_route", "s_sysctl", "s_nft"}
Ending == {"t_nft", "t_ns", "t_link"}
Labels == {"idle", "check", "etc", "exec", "app"} \cup Setup \cup Ending

TypeOK ==
  /\ name \in Nets \cup {None} /\ veth \in Nets \cup {None, "host"}
  /\ routed \in BOOLEAN /\ (routed => veth \in Nets) /\ forwarding \in BOOLEAN /\ table \in BOOLEAN
  /\ etc \in BOOLEAN /\ tor \in BOOLEAN /\ kept \in BOOLEAN
  /\ app \in [Procs -> Nets \cup {None}]
  /\ pc \in [Procs -> Labels] /\ job \in [Procs -> Jobs] /\ own \in [Procs -> BOOLEAN]

Init ==
  /\ name = None /\ veth = None /\ routed = FALSE /\ forwarding = FALSE
  /\ table = FALSE /\ etc = FALSE /\ tor \in BOOLEAN
  /\ app = [p \in Procs |-> None] /\ pc = [p \in Procs |-> "idle"]
  /\ job = [p \in Procs |-> "down"] /\ own = [p \in Procs |-> FALSE]
  /\ kept = FALSE

-----------------------------------------------------------------------------
Goto(p, l) == pc' = [pc EXCEPT ![p] = l]

(* A namespace lives as long as its name or a process inside; its veth goes   *)
(* with it. `n` and `a` are the name and the apps after the step.             *)
Reap(n, a) ==
  LET dead == veth \in Nets /\ veth # n /\ \A q \in Procs : a[q] # veth
  IN  /\ veth' = IF dead THEN None ELSE veth
      /\ routed' = (routed /\ ~dead)

MayStart(p) ==
  /\ pc[p] = "idle" /\ app[p] = None
  /\ Overlap \/ \A q \in Procs : pc[q] = "idle"

(* Mutant: every run removes the namespace when its command ends.             *)
RunOwnsAll(p) ==
  /\ MayStart(p) /\ tor
  /\ job' = [job EXCEPT ![p] = "run"]
  /\ own' = [own EXCEPT ![p] = TRUE]
  /\ Goto(p, IF name = None THEN "t_nft" ELSE "etc")
  /\ UNCHANGED <<netVars, tor, app, kept>>

(* run: Tor is asked first, then whether a namespace is there to be reused;   *)
(* setup() begins with teardown_quiet().                                      *)
Run(p) ==
  /\ MayStart(p) /\ tor
  /\ job' = [job EXCEPT ![p] = "run"]
  /\ own' = [own EXCEPT ![p] = name = None]
  /\ Goto(p, IF name = None THEN "t_nft" ELSE "etc")
  /\ UNCHANGED <<netVars, tor, app, kept>>

(* shell: up() only when no namespace is there.                               *)
Shell(p) ==
  /\ MayStart(p)
  /\ job' = [job EXCEPT ![p] = "shell"]
  /\ own' = [own EXCEPT ![p] = name = None]
  /\ Goto(p, IF name = None THEN "check" ELSE "etc")
  /\ UNCHANGED <<netVars, tor, app, kept>>

Up(p) ==
  /\ MayStart(p)
  /\ job' = [job EXCEPT ![p] = "up"]
  /\ Goto(p, "check")
  /\ UNCHANGED <<netVars, tor, app, own, kept>>

Down(p) ==
  /\ MayStart(p)
  /\ job' = [job EXCEPT ![p] = "down"]
  /\ kept' = FALSE
  /\ Goto(p, "t_nft")
  /\ UNCHANGED <<netVars, tor, app, own>>

(* up(): without Tor an error; "already up" when a namespace is there.        *)
Check(p) ==
  /\ pc[p] = "check"
  /\ \/ ~tor /\ Goto(p, "idle") /\ UNCHANGED kept
     \/ /\ tor /\ name # None
        /\ Goto(p, IF job[p] = "shell" THEN "etc" ELSE "idle")
        /\ kept' = (kept \/ job[p] = "up")
     \/ tor /\ name = None /\ Goto(p, "t_nft") /\ UNCHANGED kept
  /\ UNCHANGED <<netVars, tor, app, job, own>>

-----------------------------------------------------------------------------
(* teardown_quiet(): every command ignores its failure.                       *)
DeleteTable(p) ==
  /\ pc[p] = "t_nft" /\ Goto(p, "t_ns")
  /\ table' = FALSE
  /\ UNCHANGED <<name, veth, routed, forwarding, etc, tor, app, job, own, kept>>

DeleteNs(p) ==
  /\ pc[p] = "t_ns" /\ Goto(p, "t_link")
  /\ name' = None /\ Reap(None, app)
  /\ UNCHANGED <<forwarding, table, etc, tor, app, job, own, kept>>

DeleteLink(p) ==
  /\ pc[p] = "t_link" /\ Goto(p, IF job[p] = "down" THEN "idle" ELSE "s_ns")
  /\ veth' = None /\ routed' = FALSE
  /\ UNCHANGED <<name, forwarding, table, etc, tor, app, job, own, kept>>

-----------------------------------------------------------------------------
(* setup(): the first command that fails returns and leaves what is built.    *)
Bail(p) == Goto(p, "idle") /\ UNCHANGED netVars
Step(p, l, next, can, effect) ==
  /\ pc[p] = l
  /\ \/ can /\ effect /\ Goto(p, next)
     \/ (~can \/ "fail" \in Faults) /\ Bail(p)
  /\ UNCHANGED <<tor, app, job, own, kept>>

Free == {n \in Nets : n # name /\ \A p \in Procs : app[p] # n}

AddNs(p) == Step(p, "s_ns", "s_veth", name = None /\ Free # {},
                 name' \in Free /\ UNCHANGED <<veth, routed, forwarding, table, etc>>)
(* Mutant: addresses and route are set before the far end is moved.           *)
AddVethRouted(p) == Step(p, "s_veth", "s_move", name # None /\ veth = None,
                   veth' = "host" /\ routed' = TRUE /\ UNCHANGED <<name, forwarding, table, etc>>)
AddVeth(p) == Step(p, "s_veth", "s_move", name # None /\ veth = None,
                   veth' = "host" /\ UNCHANGED <<name, routed, forwarding, table, etc>>)
MoveVeth(p) == Step(p, "s_move", "s_route", name # None /\ veth = "host",
                    veth' = name /\ UNCHANGED <<name, routed, forwarding, table, etc>>)
AddRoute(p) == Step(p, "s_route", "s_sysctl", name # None /\ veth = name /\ ~routed,
                    routed' = TRUE /\ UNCHANGED <<name, veth, forwarding, table, etc>>)
Sysctls(p) == Step(p, "s_sysctl", "s_nft", veth # None,
                   forwarding' = TRUE /\ UNCHANGED <<name, veth, routed, table, etc>>)
(* Mutant: a rejected ruleset is not an error.                                *)
ApplyNftQuietly(p) ==
  /\ pc[p] = "s_nft" /\ Goto(p, "etc")
  /\ UNCHANGED <<netVars, tor, app, job, own, kept>>

ApplyNft(p) == Step(p, "s_nft", "etc", TRUE,
                    table' = TRUE /\ UNCHANGED <<name, veth, routed, forwarding, etc>>)

WriteNsResolv(p) ==
  /\ pc[p] = "etc" /\ Goto(p, IF job[p] = "up" THEN "idle" ELSE "exec")
  /\ etc' = TRUE /\ kept' = (kept \/ job[p] = "up")
  /\ UNCHANGED <<name, veth, routed, forwarding, table, tor, app, job, own>>

(* `ip netns exec` opens the namespace by its name, or fails.                 *)
ExecInNs(p) ==
  /\ pc[p] = "exec" /\ Goto(p, "app")
  /\ app' = [app EXCEPT ![p] = name]
  /\ UNCHANGED <<netVars, tor, job, own, kept>>

(* Mutant: the namespace is left to the next run.                             *)
ExitOnly(p) ==
  /\ pc[p] = "app" /\ Goto(p, "idle")
  /\ app' = [app EXCEPT ![p] = None] /\ Reap(name, app')
  /\ UNCHANGED <<name, forwarding, table, etc, tor, job, own, kept>>

(* The command ends: the guard tears down what this run or shell has built.   *)
Exit(p) ==
  /\ pc[p] = "app"
  /\ app' = [app EXCEPT ![p] = None] /\ Reap(name, app')
  /\ IF own[p] THEN Goto(p, "t_nft") /\ job' = [job EXCEPT ![p] = "down"]
               ELSE Goto(p, "idle") /\ UNCHANGED job
  /\ UNCHANGED <<name, forwarding, table, etc, tor, own, kept>>

-----------------------------------------------------------------------------
(* A signal ends arxonion: no destructor runs. Its app ends too, or survives. *)
Mortal == (IF "ctrlc" \in Faults THEN {"app"} ELSE {})
          \cup (IF "kill" \in Faults THEN Labels \ {"idle"} ELSE {})

Killed(p) ==
  /\ pc[p] \in Mortal
  /\ Goto(p, "idle")
  /\ \/ app' = [app EXCEPT ![p] = None] /\ Reap(name, app')
     \/ "orphan" \in Faults /\ UNCHANGED <<app, veth, routed>>
  /\ UNCHANGED <<name, forwarding, table, etc, tor, job, own, kept>>

OrphanExits(p) ==
  /\ pc[p] = "idle" /\ app[p] # None
  /\ app' = [app EXCEPT ![p] = None] /\ Reap(name, app')
  /\ UNCHANGED <<name, forwarding, table, etc, tor, pc, job, own, kept>>

TorChanges == "tor" \in Faults /\ tor' = ~tor /\ UNCHANGED <<netVars, app, pc, job, own, kept>>

Next ==
  \/ \E p \in Procs :
       \/ Run(p) \/ Shell(p) \/ Up(p) \/ Down(p) \/ Check(p)
       \/ DeleteTable(p) \/ DeleteNs(p) \/ DeleteLink(p)
       \/ AddNs(p) \/ AddVeth(p) \/ MoveVeth(p) \/ AddRoute(p) \/ Sysctls(p) \/ ApplyNft(p)
       \/ WriteNsResolv(p) \/ ExecInNs(p) \/ Exit(p) \/ Killed(p) \/ OrphanExits(p)
  \/ TorChanges

Spec == Init /\ [][Next]_vars

-----------------------------------------------------------------------------
(* An app's packets reach the host and, forwarded, the real interface.        *)
ClearPath(p) == app[p] # None /\ veth = app[p] /\ routed /\ forwarding /\ ~table

(* main.rs:12-14: there is no path to a clear-net leak: whoever runs inside   *)
(* the namespace has the table between it and the host.                       *)
FailClosed == \A p \in Procs : ~ClearPath(p)

AtRest == \A p \in Procs : pc[p] \in {"idle", "app"}

(* However many commands build, reuse and remove the namespace at once, once  *)
(* they all came to rest no app is left with a clear path.                    *)
ClosedAtRest == AtRest => FailClosed

(* main.rs:16-17: with no command left and isolation not kept up, namespace,  *)
(* veth and table are gone.                                                   *)
AllIdle == \A p \in Procs : pc[p] = "idle" /\ app[p] = None
NothingLeft == AllIdle /\ ~kept => name = None /\ veth = None /\ ~table

(* main.rs:315-317: a session that `up` has confirmed outlives every command. *)
KeptOutlives == AtRest /\ kept => name # None /\ table

(* One command after the other keeps the promise of Isolation (main.rs:3-17): *)
(* an app enters a namespace that is whole, with the table in front of it,    *)
(* and neither a command nor its end takes it apart under an app or after     *)
(* `up` has confirmed it.                                                     *)
Sealed == name # None /\ veth = name /\ routed /\ table
Isolated == INSTANCE Isolation WITH
  Slots <- Procs, sealed <- Sealed, inside <- {p \in Procs : app[p] # None}
KeepsIsolation == Isolated!Spec
=============================================================================
