--------------------------- MODULE ArxonionProofs ---------------------------
(* TLAPS proofs about Arxonion, for any number of slots and namespaces: when  *)
(* commands do not overlap and only a signal under its app can end one early, *)
(* isolation is closed, kept and, without signals, cleaned up.                *)
EXTENDS Arxonion, TLAPS

(* One command at a time, of which no setup fails, none is killed in its      *)
(* setup or teardown, and no app survives the command it was started by.      *)
Sequential == ~Overlap /\ Faults \cap {"fail", "kill", "orphan"} = {}

(* The namespace is whole between commands, and each step of a command leaves *)
(* it in one shape.                                                           *)
Built == name \in Nets /\ veth = name /\ routed /\ table
Gone  == name = None /\ veth = None /\ ~routed /\ ~table
Whole == Built \/ Gone

Phase(p) ==
  /\ pc[p] \in {"check", "t_nft"} => Whole
  /\ pc[p] = "check" /\ job[p] = "shell" => Gone
  /\ pc[p] \in {"etc", "exec", "app"} => Built /\ job[p] # "down"
  /\ pc[p] \in {"exec", "app"} => job[p] # "up"
  /\ pc[p] = "t_ns" => ~table
  /\ pc[p] = "t_link" => ~table /\ name = None
  /\ pc[p] \in Setup => job[p] # "down"
  /\ pc[p] = "s_ns" => Gone
  /\ pc[p] \in Setup \ {"s_ns"} => name \in Nets /\ ~table
  /\ pc[p] = "s_veth" => veth = None
  /\ pc[p] = "s_move" => veth = "host"
  /\ pc[p] = "s_route" => veth = name /\ ~routed
  /\ pc[p] \in {"s_sysctl", "s_nft"} => veth = name /\ routed

Alone == \A p, q \in Procs : pc[p] # "idle" /\ pc[q] # "idle" => p = q
NoOrphans == \A p \in Procs : app[p] # None => pc[p] = "app"

(* What `up` has confirmed stands and no command in flight means to remove it.*)
KeptAt(p) ==
  kept =>
    /\ Built
    /\ pc[p] \in {"idle", "check", "etc", "exec", "app"}
    /\ pc[p] \in {"etc", "exec", "app"} /\ job[p] # "up" => ~own[p]

(* Without signals a namespace that nobody keeps has an owner that removes it.*)
OwnedAt(p) ==
  "ctrlc" \notin Faults /\ ~kept =>
    /\ pc[p] \in {"idle", "check"} => Gone
    /\ pc[p] # "idle" /\ job[p] \in {"run", "shell"} => own[p]

Local(p) == Phase(p) /\ KeptAt(p) /\ OwnedAt(p) /\ (pc[p] = "idle" => Whole)
Turn(p) == pc[p] # "idle" \/ \A q \in Procs : pc[q] = "idle"

(* What holds of the slot whose turn it is.                                   *)
IInv == TypeOK /\ Alone /\ NoOrphans /\ \A p \in Procs : Turn(p) => Local(p)

-----------------------------------------------------------------------------
(* With one command at a time every other slot is idle, before and after.     *)
LEMMA Others ==
  ASSUME NEW p \in Procs, NEW l \in Labels, TypeOK, Alone, Goto(p, l),
         Turn(p)
  PROVE  /\ pc' \in [Procs -> Labels] /\ pc'[p] = l
         /\ \A q \in Procs : q # p => pc[q] = "idle" /\ pc'[q] = "idle"
         /\ Alone'
BY DEF TypeOK, Alone, Goto, Turn

LEMMA Starts ==
  ASSUME Sequential, NEW p \in Procs, MayStart(p)
  PROVE  pc[p] = "idle" /\ app[p] = None /\ Turn(p)
BY DEF Sequential, MayStart, Turn

LEMMA Inits == Init => IInv
<1> SUFFICES ASSUME Init PROVE IInv
  OBVIOUS
<1>1. TypeOK
  BY DEF Init, TypeOK, Labels, Jobs
<1>2. Alone /\ NoOrphans
  BY DEF Init, Alone, NoOrphans
<1>3. ASSUME NEW p \in Procs PROVE Local(p)
  BY DEF Init, Local, Phase, KeptAt, OwnedAt, Whole, Gone, Setup
<1>4. QED
  BY <1>1, <1>2, <1>3 DEF IInv

(* A step of p that keeps the types, leaves no orphan and brings p into a     *)
(* good place keeps the whole invariant, since every other slot is idle.      *)
LEMMA StepOf ==
  ASSUME IInv, NEW p \in Procs, NEW l \in Labels, Turn(p), Goto(p, l),
         TypeOK', NoOrphans', Local(p)'
  PROVE  IInv'
<1>1. /\ pc'[p] = l /\ Alone'
      /\ \A q \in Procs : q # p => pc[q] = "idle" /\ pc'[q] = "idle"
  BY Others DEF IInv
<1>2. ASSUME NEW q \in Procs, q # p, Turn(q)' PROVE Local(q)'
  <2>1. pc'[q] = "idle" /\ pc'[p] = "idle"
    BY <1>1, <1>2 DEF Turn
  <2>2. QED
    BY <2>1 DEF Local, Phase, KeptAt, OwnedAt, Setup
<1>3. QED
  BY <1>1, <1>2 DEF IInv

-----------------------------------------------------------------------------
(* The commands start, alone.                                                 *)
LEMMA StartSteps ==
  ASSUME IInv, Sequential, NEW p \in Procs, Run(p) \/ Shell(p) \/ Up(p) \/ Down(p)
  PROVE  IInv'
<1>1. pc[p] = "idle" /\ Turn(p)
  BY Starts DEF Run, Shell, Up, Down
<1>2. Local(p)
  BY <1>1 DEF IInv
<1>3. PICK l \in {"t_nft", "etc", "check"} : Goto(p, l)
  BY DEF Run, Shell, Up, Down
<1>4. pc' \in [Procs -> Labels] /\ pc'[p] = l
  BY <1>1, <1>3, Others DEF IInv, Labels, Ending
<1>5. NoOrphans'
  BY <1>1, <1>3 DEF IInv, NoOrphans, TypeOK, Goto, Run, Shell, Up, Down
<1>6. CASE Run(p)
  <2>0. own'[p] = (name = None)
    BY <1>6, Zenon DEF Run, IInv, TypeOK
  <2>1. TypeOK'
    BY <1>4, <1>6 DEF IInv, TypeOK, Run, netVars, Jobs
  <2>2. Local(p)'
    BY <1>1, <1>2, <1>4, <1>6, <2>0, NetsAssumption
       DEF IInv, TypeOK, Run, netVars, Goto, Local, Phase, KeptAt, OwnedAt, Whole, Built, Gone, Setup
  <2>3. QED
    BY <1>1, <1>3, <1>5, <2>1, <2>2, StepOf DEF Labels, Ending
<1>7. CASE Shell(p)
  <2>0. own'[p] = (name = None)
    BY <1>7, Zenon DEF Shell, IInv, TypeOK
  <2>1. TypeOK'
    BY <1>4, <1>7 DEF IInv, TypeOK, Shell, netVars, Jobs
  <2>2. Local(p)'
    BY <1>1, <1>2, <1>4, <1>7, <2>0, NetsAssumption
       DEF IInv, TypeOK, Shell, netVars, Goto, Local, Phase, KeptAt, OwnedAt, Whole, Built, Gone, Setup
  <2>3. QED
    BY <1>1, <1>3, <1>5, <2>1, <2>2, StepOf DEF Labels, Ending
<1>8. CASE Up(p)
  <2>1. TypeOK'
    BY <1>4, <1>8 DEF IInv, TypeOK, Up, netVars, Jobs
  <2>2. Local(p)'
    BY <1>1, <1>2, <1>4, <1>8
       DEF IInv, TypeOK, Up, netVars, Goto, Local, Phase, KeptAt, OwnedAt, Whole, Built, Gone, Setup
  <2>3. QED
    BY <1>1, <1>3, <1>5, <2>1, <2>2, StepOf DEF Labels, Ending
<1>9. CASE Down(p)
  <2>1. TypeOK'
    BY <1>4, <1>9 DEF IInv, TypeOK, Down, netVars, Jobs
  <2>2. Local(p)'
    BY <1>1, <1>2, <1>4, <1>9
       DEF IInv, TypeOK, Down, netVars, Goto, Local, Phase, KeptAt, OwnedAt, Whole, Built, Gone, Setup
  <2>3. QED
    BY <1>1, <1>3, <1>5, <2>1, <2>2, StepOf DEF Labels, Ending
<1>10. QED
  BY <1>6, <1>7, <1>8, <1>9
(* No app runs while a command is anywhere but in its app.                    *)
LEMMA NoApps ==
  ASSUME IInv, NEW p \in Procs, pc[p] \notin {"idle", "app"}
  PROVE  /\ \A q \in Procs : app[q] = None
         /\ app' = app => NoOrphans'
BY DEF IInv, NoOrphans, Alone

LEMMA CheckStep ==
  ASSUME IInv, NEW p \in Procs, Check(p)
  PROVE  IInv'
<1>1. pc[p] = "check" /\ Turn(p) /\ Local(p)
  BY DEF Check, Turn, IInv
<1>2. PICK l \in {"idle", "etc", "t_nft"} : Goto(p, l)
  BY DEF Check
<1>3. pc' \in [Procs -> Labels] /\ pc'[p] = l
  BY <1>1, <1>2, Others DEF IInv, Labels, Ending
<1>4. TypeOK'
  BY <1>3 DEF Check, IInv, TypeOK, netVars
<1>5. NoOrphans'
  BY <1>1, NoApps DEF Check
<1>6. Local(p)'
  BY <1>1, <1>3, NetsAssumption
     DEF Check, IInv, TypeOK, netVars, Goto, Local, Phase, KeptAt, OwnedAt, Whole, Built, Gone,
         Setup, Jobs
<1>7. QED
  BY <1>1, <1>2, <1>4, <1>5, <1>6, StepOf DEF Labels, Ending

LEMMA TeardownSteps ==
  ASSUME IInv, NEW p \in Procs, DeleteTable(p) \/ DeleteNs(p) \/ DeleteLink(p)
  PROVE  IInv'
<1>1. pc[p] \in Ending /\ Turn(p) /\ Local(p)
  BY DEF DeleteTable, DeleteNs, DeleteLink, Ending, Turn, IInv
<1>2. PICK l \in {"t_ns", "t_link", "idle", "s_ns"} : Goto(p, l)
  BY DEF DeleteTable, DeleteNs, DeleteLink
<1>3. pc' \in [Procs -> Labels] /\ pc'[p] = l
  BY <1>1, <1>2, Others DEF IInv, Labels, Ending, Setup
<1>4. NoOrphans'
  BY <1>1, NoApps DEF DeleteTable, DeleteNs, DeleteLink, Ending
<1>5. CASE DeleteTable(p)
  <2>1. TypeOK'
    BY <1>3, <1>5 DEF DeleteTable, IInv, TypeOK
  <2>2. Local(p)'
    BY <1>1, <1>3, <1>5
       DEF DeleteTable, Goto, Local, Phase, KeptAt, OwnedAt, Setup, Jobs, IInv, TypeOK
  <2>3. QED
    BY <1>1, <1>2, <1>4, <2>1, <2>2, StepOf DEF Labels, Ending, Setup
<1>6. CASE DeleteNs(p)
  <2>1. TypeOK'
    BY <1>3, <1>6 DEF DeleteNs, Reap, IInv, TypeOK
  <2>2. Local(p)'
    BY <1>1, <1>3, <1>6
       DEF DeleteNs, Goto, Local, Phase, KeptAt, OwnedAt, Setup, Jobs, IInv, TypeOK
  <2>3. QED
    BY <1>1, <1>2, <1>4, <2>1, <2>2, StepOf DEF Labels, Ending, Setup
<1>7. CASE DeleteLink(p)
  <2>1. TypeOK'
    BY <1>3, <1>7 DEF DeleteLink, IInv, TypeOK
  <2>2. Local(p)'
    BY <1>1, <1>3, <1>7
       DEF DeleteLink, Goto, Local, Phase, KeptAt, OwnedAt, Whole, Gone, Setup, Jobs, IInv, TypeOK
  <2>3. QED
    BY <1>1, <1>2, <1>4, <2>1, <2>2, StepOf DEF Labels, Ending, Setup
<1>8. QED
  BY <1>5, <1>6, <1>7

-----------------------------------------------------------------------------
(* setup(): run alone, a step finds what the step before it built; only the   *)
(* first one can fail, when no namespace object is free.                      *)
LEMMA SetupSteps ==
  ASSUME IInv, Sequential, NEW p \in Procs,
         \/ AddNs(p) \/ AddVeth(p) \/ MoveVeth(p) \/ AddRoute(p) \/ Sysctls(p) \/ ApplyNft(p)
  PROVE  IInv'
<1>1. pc[p] \in Setup /\ Turn(p) /\ Local(p)
  BY DEF AddNs, AddVeth, MoveVeth, AddRoute, Sysctls, ApplyNft, Step, Setup, Turn, IInv
<1>2. PICK l \in Setup \cup {"idle", "etc"} : Goto(p, l)
  BY DEF AddNs, AddVeth, MoveVeth, AddRoute, Sysctls, ApplyNft, Step, Bail, Setup
<1>3. pc' \in [Procs -> Labels] /\ pc'[p] = l
  BY <1>1, <1>2, Others DEF IInv, Labels
<1>4. /\ tor' = tor /\ app' = app /\ job' = job /\ own' = own /\ kept' = kept
      /\ NoOrphans'
  BY <1>1, NoApps DEF AddNs, AddVeth, MoveVeth, AddRoute, Sysctls, ApplyNft, Step, Setup
<1>5. CASE AddNs(p)
  <2>1. TypeOK'
    BY <1>3, <1>4, <1>5 DEF AddNs, Step, Bail, netVars, Free, IInv, TypeOK
  <2>2. Local(p)'
    BY <1>1, <1>3, <1>4, <1>5, NetsAssumption
       DEF AddNs, Step, Bail, netVars, Free, Goto, Local, Phase, KeptAt, OwnedAt, Whole, Gone,
           Setup, IInv, TypeOK
  <2>3. QED
    BY <1>1, <1>2, <1>4, <2>1, <2>2, StepOf DEF Labels
<1>6. CASE AddVeth(p)
  <2>1. TypeOK'
    BY <1>3, <1>4, <1>6, NetsAssumption DEF AddVeth, Step, Bail, netVars, IInv, TypeOK
  <2>2. Local(p)'
    BY <1>1, <1>3, <1>4, <1>6, NetsAssumption
       DEF AddVeth, Step, Goto, Local, Phase, KeptAt, OwnedAt, Setup, IInv, TypeOK, Sequential
  <2>3. QED
    BY <1>1, <1>2, <1>4, <2>1, <2>2, StepOf DEF Labels
<1>7. CASE MoveVeth(p)
  <2>1. TypeOK'
    BY <1>3, <1>4, <1>7 DEF MoveVeth, Step, Bail, netVars, IInv, TypeOK
  <2>2. Local(p)'
    BY <1>1, <1>3, <1>4, <1>7, NetsAssumption
       DEF MoveVeth, Step, Goto, Local, Phase, KeptAt, OwnedAt, Setup, IInv, TypeOK, Sequential
  <2>3. QED
    BY <1>1, <1>2, <1>4, <2>1, <2>2, StepOf DEF Labels
<1>8. CASE AddRoute(p)
  <2>1. TypeOK'
    BY <1>1, <1>3, <1>4, <1>8
       DEF AddRoute, Step, Bail, netVars, IInv, TypeOK, Local, Phase, Setup
  <2>2. Local(p)'
    BY <1>1, <1>3, <1>4, <1>8, NetsAssumption
       DEF AddRoute, Step, Goto, Local, Phase, KeptAt, OwnedAt, Setup, IInv, TypeOK, Sequential
  <2>3. QED
    BY <1>1, <1>2, <1>4, <2>1, <2>2, StepOf DEF Labels
<1>9. CASE Sysctls(p)
  <2>0. /\ pc[p] = "s_sysctl" /\ name' = name /\ veth' = veth /\ routed' = routed
        /\ table' = table /\ etc' = etc
        /\ \/ Goto(p, "s_nft") /\ forwarding' = TRUE
           \/ Goto(p, "idle") /\ forwarding' = forwarding /\ (veth = None \/ "fail" \in Faults)
    BY <1>9, Zenon DEF Sysctls, Step, Bail, netVars
  <2>1. TypeOK'
    BY <1>3, <1>4, <2>0 DEF IInv, TypeOK
  <2>2. Local(p)'
    BY <1>1, <1>3, <1>4, <2>0, NetsAssumption
       DEF Goto, Local, Phase, KeptAt, OwnedAt, Setup, IInv, TypeOK, Sequential
  <2>3. QED
    BY <1>1, <1>2, <1>4, <2>1, <2>2, StepOf DEF Labels
<1>10. CASE ApplyNft(p)
  <2>0. /\ pc[p] = "s_nft" /\ name' = name /\ veth' = veth /\ routed' = routed
        /\ forwarding' = forwarding /\ etc' = etc
        /\ \/ Goto(p, "etc") /\ table' = TRUE
           \/ Goto(p, "idle") /\ table' = table /\ "fail" \in Faults
    BY <1>10, Zenon DEF ApplyNft, Step, Bail, netVars
  <2>1. TypeOK'
    BY <1>3, <1>4, <2>0 DEF IInv, TypeOK
  <2>2. Local(p)'
    BY <1>1, <1>3, <1>4, <2>0
       DEF Goto, Local, Phase, KeptAt, OwnedAt, Built, Setup, IInv, TypeOK, Sequential
  <2>3. QED
    BY <1>1, <1>2, <1>4, <2>1, <2>2, StepOf DEF Labels
<1>11. QED
  BY <1>5, <1>6, <1>7, <1>8, <1>9, <1>10
-----------------------------------------------------------------------------
LEMMA UseSteps ==
  ASSUME IInv, NEW p \in Procs, WriteNsResolv(p) \/ ExecInNs(p)
  PROVE  IInv'
<1>1. pc[p] \in {"etc", "exec"} /\ Turn(p) /\ Local(p)
  BY DEF WriteNsResolv, ExecInNs, Turn, IInv
<1>2. PICK l \in {"idle", "exec", "app"} : Goto(p, l)
  BY DEF WriteNsResolv, ExecInNs
<1>3. pc' \in [Procs -> Labels] /\ pc'[p] = l
  BY <1>1, <1>2, Others DEF IInv, Labels
<1>4. CASE WriteNsResolv(p)
  <2>1. TypeOK'
    BY <1>3, <1>4 DEF WriteNsResolv, IInv, TypeOK
  <2>2. NoOrphans'
    BY <1>1, <1>4, NoApps DEF WriteNsResolv
  <2>3. Local(p)'
    BY <1>1, <1>3, <1>4
       DEF WriteNsResolv, Goto, Local, Phase, KeptAt, OwnedAt, Whole, Built, Setup, Jobs, IInv, TypeOK
  <2>4. QED
    BY <1>1, <1>2, <2>1, <2>2, <2>3, StepOf DEF Labels
<1>5. CASE ExecInNs(p)
  <2>1. TypeOK'
    BY <1>3, <1>5 DEF ExecInNs, netVars, IInv, TypeOK
  <2>2. NoOrphans'
    BY <1>1, <1>3, <1>5, NoApps DEF ExecInNs, Goto, NoOrphans, IInv, TypeOK
  <2>3. Local(p)'
    BY <1>1, <1>3, <1>5
       DEF ExecInNs, netVars, Goto, Local, Phase, KeptAt, OwnedAt, Built, Setup, IInv, TypeOK
  <2>4. QED
    BY <1>1, <1>2, <2>1, <2>2, <2>3, StepOf DEF Labels
<1>6. QED
  BY <1>4, <1>5

(* The app ends, by itself or by a signal that ends its launcher as well: its *)
(* namespace still has its name, so nothing is reaped.                        *)
LEMMA EndSteps ==
  ASSUME IInv, Sequential, NEW p \in Procs, Exit(p) \/ Killed(p)
  PROVE  IInv'
<1>1. pc[p] = "app" /\ Turn(p) /\ Local(p)
  BY DEF Exit, Killed, Mortal, Sequential, Turn, IInv
<1>2. PICK l \in {"idle", "t_nft"} : Goto(p, l)
  BY DEF Exit, Killed
<1>3. pc' \in [Procs -> Labels] /\ pc'[p] = l
  BY <1>1, <1>2, Others DEF IInv, Labels, Ending
<1>4. Built
  BY <1>1 DEF Local, Phase
<1>5. /\ app' = [app EXCEPT ![p] = None] /\ Reap(name, app')
      /\ name' = name /\ forwarding' = forwarding /\ table' = table /\ etc' = etc
      /\ tor' = tor /\ own' = own /\ kept' = kept
  BY DEF Exit, Killed, Sequential
<1>6. veth' = veth /\ routed' = routed
  BY <1>4, <1>5 DEF Reap, Built, IInv, TypeOK
<1>7. NoOrphans'
  BY <1>1, <1>5, <1>2 DEF NoOrphans, Alone, Goto, IInv, TypeOK
<1>8. job' \in [Procs -> Jobs]
  BY DEF Exit, Killed, IInv, TypeOK, Jobs
<1>9. TypeOK'
  BY <1>3, <1>5, <1>6, <1>8 DEF IInv, TypeOK
<1>10. CASE Exit(p)
  <2>1. /\ own[p] => pc'[p] = "t_nft" /\ job'[p] = "down"
        /\ ~own[p] => pc'[p] = "idle"
    BY <1>10, <1>2 DEF Exit, Goto, IInv, TypeOK
  <2>2. job[p] \in {"run", "shell"}
    BY <1>1 DEF Local, Phase, IInv, TypeOK, Jobs
  <2>3. Local(p)'
    BY <1>1, <1>4, <1>5, <1>6, <2>1, <2>2
       DEF Local, Phase, KeptAt, OwnedAt, Whole, Built, Setup, IInv, TypeOK
  <2>4. QED
    BY <1>1, <1>2, <1>7, <1>9, <2>3, StepOf DEF Labels, Ending
<1>11. CASE Killed(p)
  <2>1. pc'[p] = "idle" /\ "ctrlc" \in Faults
    BY <1>3, <1>11, <1>1 DEF Killed, Mortal, Goto, Sequential, IInv, TypeOK
  <2>2. Local(p)'
    BY <1>1, <1>4, <1>5, <1>6, <2>1
       DEF Local, Phase, KeptAt, OwnedAt, Whole, Built, Setup
  <2>3. QED
    BY <1>1, <1>2, <1>7, <1>9, <2>2, StepOf DEF Labels, Ending
<1>12. QED
  BY <1>10, <1>11

LEMMA Inductive == Sequential /\ IInv /\ [Next]_vars => IInv'
<1> SUFFICES ASSUME Sequential, IInv, [Next]_vars PROVE IInv'
  OBVIOUS
<1>1. ASSUME NEW p \in Procs,
             \/ Run(p) \/ Shell(p) \/ Up(p) \/ Down(p) \/ Check(p)
             \/ DeleteTable(p) \/ DeleteNs(p) \/ DeleteLink(p)
             \/ AddNs(p) \/ AddVeth(p) \/ MoveVeth(p) \/ AddRoute(p) \/ Sysctls(p) \/ ApplyNft(p)
             \/ WriteNsResolv(p) \/ ExecInNs(p) \/ Exit(p) \/ Killed(p) \/ OrphanExits(p)
      PROVE  IInv'
  <2>1. ~OrphanExits(p)
    BY DEF OrphanExits, IInv, NoOrphans
  <2>2. QED
    BY <1>1, <2>1, StartSteps, CheckStep, TeardownSteps, SetupSteps, UseSteps, EndSteps
<1>2. CASE TorChanges \/ UNCHANGED vars
  <2>1. /\ UNCHANGED <<netVars, app, pc, job, own, kept>> /\ tor' \in BOOLEAN
    BY <1>2 DEF TorChanges, vars, IInv, TypeOK
  <2>2. QED
    BY <2>1 DEF netVars, IInv, TypeOK, Alone, NoOrphans, Turn, Local, Phase, KeptAt, OwnedAt,
                Whole, Built, Gone
<1>3. QED
  BY <1>1, <1>2 DEF Next

THEOREM Invariance == ASSUME Sequential PROVE Spec => []IInv
<1>1. IInv /\ [Next]_vars => IInv'
  BY Inductive
<1>2. QED
  BY <1>1, Inits, PTL DEF Spec

LEMMA TypeInductive == TypeOK /\ [Next]_vars => TypeOK'
<1> SUFFICES ASSUME TypeOK, [Next]_vars PROVE TypeOK'
  OBVIOUS
<1> USE DEF TypeOK
<1>1. ASSUME NEW p \in Procs, Run(p) \/ Shell(p) \/ Up(p) \/ Down(p) PROVE TypeOK'
  <2>1. \E l \in Labels : Goto(p, l)
    BY <1>1 DEF Run, Shell, Up, Down, Labels, Ending
  <2>2. pc' \in [Procs -> Labels]
    BY <2>1 DEF Goto
  <2>3. job' \in [Procs -> Jobs] /\ own' \in [Procs -> BOOLEAN] /\ kept' \in BOOLEAN
    BY <1>1 DEF Run, Shell, Up, Down, Jobs
  <2>4. QED
    BY <1>1, <2>2, <2>3 DEF Run, Shell, Up, Down, netVars
<1>2. ASSUME NEW p \in Procs, Check(p) PROVE TypeOK'
  BY <1>2 DEF Check, Goto, Labels, Ending, netVars
<1>3. ASSUME NEW p \in Procs, DeleteTable(p) \/ DeleteNs(p) \/ DeleteLink(p) PROVE TypeOK'
  <2>1. CASE DeleteTable(p)
    BY <2>1 DEF DeleteTable, Goto, Labels, Ending
  <2>2. CASE DeleteNs(p)
    BY <2>2, NetsAssumption DEF DeleteNs, Reap, Goto, Labels, Ending
  <2>3. CASE DeleteLink(p)
    BY <2>3 DEF DeleteLink, Goto, Labels, Setup
  <2>4. QED
    BY <1>3, <2>1, <2>2, <2>3
<1>4. ASSUME NEW p \in Procs, AddNs(p) \/ AddVeth(p) \/ MoveVeth(p) PROVE TypeOK'
  BY <1>4, NetsAssumption
     DEF AddNs, AddVeth, MoveVeth, Step, Bail, Free, Goto, Labels, Setup, netVars
<1>5. ASSUME NEW p \in Procs, AddRoute(p) \/ Sysctls(p) PROVE TypeOK'
  <2>1. Goto(p, "s_sysctl") \/ Goto(p, "s_nft") \/ Goto(p, "idle")
    BY <1>5 DEF AddRoute, Sysctls, Step, Bail
  <2>2. pc' \in [Procs -> Labels]
    BY <2>1 DEF Goto, Labels, Setup
  <2>3. UNCHANGED <<name, veth, table, etc>> /\ routed' \in BOOLEAN /\ forwarding' \in BOOLEAN
    BY <1>5 DEF AddRoute, Sysctls, Step, Bail, netVars
  <2>4. routed' => veth \in Nets
    BY <1>5 DEF AddRoute, Sysctls, Step, Bail, netVars
  <2>5. QED
    BY <1>5, <2>2, <2>3, <2>4 DEF AddRoute, Sysctls, Step
<1>6. ASSUME NEW p \in Procs, ApplyNft(p) PROVE TypeOK'
  <2>1. Goto(p, "etc") \/ Goto(p, "idle")
    BY <1>6 DEF ApplyNft, Step, Bail
  <2>2. pc' \in [Procs -> Labels]
    BY <2>1 DEF Goto, Labels
  <2>3. table' \in BOOLEAN /\ UNCHANGED <<name, veth, routed, forwarding, etc>>
    BY <1>6 DEF ApplyNft, Step, Bail, netVars
  <2>4. QED
    BY <1>6, <2>2, <2>3 DEF ApplyNft, Step
<1>7. ASSUME NEW p \in Procs, WriteNsResolv(p) \/ ExecInNs(p) PROVE TypeOK'
  <2>1. CASE WriteNsResolv(p)
    <3>1. kept' \in BOOLEAN /\ pc' \in [Procs -> Labels]
      BY <2>1 DEF WriteNsResolv, Goto, Labels
    <3>2. QED
      BY <2>1, <3>1 DEF WriteNsResolv
  <2>2. CASE ExecInNs(p)
    BY <2>2 DEF ExecInNs, Goto, Labels, netVars
  <2>3. QED
    BY <1>7, <2>1, <2>2
<1>8. ASSUME NEW p \in Procs, Exit(p) \/ Killed(p) \/ OrphanExits(p) PROVE TypeOK'
  <2>1. CASE Exit(p)
    BY <2>1 DEF Exit, Reap, Goto, Labels, Ending, Jobs
  <2>2. CASE Killed(p)
    <3>1. pc' \in [Procs -> Labels] /\ app' \in [Procs -> Nets \cup {None}]
      BY <2>2 DEF Killed, Goto, Labels
    <3>2. veth' \in Nets \cup {None, "host"} /\ routed' \in BOOLEAN /\ (routed' => veth' \in Nets)
      <4>1. CASE Reap(name, app')
        BY <4>1 DEF Reap
      <4>2. CASE UNCHANGED <<veth, routed>>
        BY <4>2
      <4>3. QED
        BY <2>2, <4>1, <4>2 DEF Killed
    <3>3. QED
      BY <2>2, <3>1, <3>2 DEF Killed
  <2>3. CASE OrphanExits(p)
    BY <2>3 DEF OrphanExits, Reap
  <2>4. QED
    BY <1>8, <2>1, <2>2, <2>3
<1>9. CASE TorChanges
  <2>1. tor' \in BOOLEAN
    BY <1>9 DEF TorChanges
  <2>2. QED
    BY <1>9, <2>1 DEF TorChanges, netVars
<1>10. CASE UNCHANGED vars
  BY <1>10 DEF vars, netVars
<1>11. QED
  BY <1>1, <1>2, <1>3, <1>4, <1>5, <1>6, <1>7, <1>8, <1>9, <1>10 DEF Next

(* Every step keeps the types, and a route has a namespace that its veth      *)
(* leads into, for any number of slots and namespaces, although commands      *)
(* overlap, fail and are killed.                                              *)
THEOREM TypeCorrect == Spec => []TypeOK
<1>1. Init => TypeOK
  BY NetsAssumption DEF Init, TypeOK, Jobs, Labels
<1>2. QED
  BY <1>1, TypeInductive, PTL DEF Spec

-----------------------------------------------------------------------------
(* With one command at a time, no failed setup, no kill and no surviving app, *)
(* no app ever has a path past Tor (main.rs:12-14).                           *)
THEOREM FailClosedHolds == ASSUME Sequential PROVE Spec => []FailClosed
<1>1. IInv => FailClosed
  BY DEF IInv, NoOrphans, Turn, Local, Phase, Built, FailClosed, ClearPath
<1>2. QED
  BY <1>1, Invariance, PTL

(* Under the same four conditions the isolation that `up` has confirmed       *)
(* stands until `down` (main.rs:315-317): the next run adopts a namespace by  *)
(* its name, so a failed setup alone would refute it.                         *)
THEOREM KeptOutlivesHolds == ASSUME Sequential PROVE Spec => []KeptOutlives
<1>1. IInv => KeptOutlives
  <2> SUFFICES ASSUME IInv, AtRest, kept PROVE name # None /\ table
    BY DEF KeptOutlives
  <2>1. PICK p \in Procs : Turn(p)
    BY ProcsAssumption DEF Turn
  <2>2. QED
    BY <2>1, NetsAssumption DEF IInv, Local, KeptAt, Built
<1>2. QED
  BY <1>1, Invariance, PTL

(* And if no signal ends a command under its app either, the last one leaves  *)
(* no namespace, veth or table (main.rs:16-17).                               *)
THEOREM NothingLeftHolds ==
  ASSUME Sequential, "ctrlc" \notin Faults
  PROVE  Spec => []NothingLeft
<1>1. IInv => NothingLeft
  <2> SUFFICES ASSUME IInv, AllIdle, ~kept PROVE name = None /\ veth = None /\ ~table
    BY DEF NothingLeft
  <2>1. PICK p \in Procs : Turn(p) /\ pc[p] = "idle"
    BY ProcsAssumption DEF AllIdle, Turn
  <2>2. QED
    BY <2>1 DEF IInv, Local, OwnedAt, Gone
<1>2. QED
  BY <1>1, Invariance, PTL

-----------------------------------------------------------------------------
(* Apps are in the namespace of the step before, and nobody has left it.      *)
LEMMA InsideStep ==
  ASSUME TypeOK, NEW p \in Procs, NEW n, app' = [app EXCEPT ![p] = n]
  PROVE  {q \in Procs : app'[q] # None} =
           IF n # None THEN {q \in Procs : app[q] # None} \cup {p}
                       ELSE {q \in Procs : app[q] # None} \ {p}
BY DEF TypeOK

(* What a step does, as Isolation sees it.                                    *)
LEMMA StepImplements ==
  ASSUME Sequential, IInv, [Next]_vars
  PROVE  [Isolated!Next]_(Isolated!vars)
<1> DEFINE Inside == {p \in Procs : app[p] # None}
<1> USE DEF Isolated!Next, Isolated!vars, Isolated!Seal, Isolated!Unseal, Isolated!Enter,
      Isolated!Leave, Isolated!Keep, Isolated!Release
<1>t. TypeOK /\ \A p \in Procs : Turn(p) => Phase(p) /\ KeptAt(p)
  BY DEF IInv, Local
<1>1. ASSUME NEW p \in Procs, Run(p) \/ Shell(p) \/ Up(p) PROVE UNCHANGED <<Sealed, app, kept>>
  BY <1>1 DEF Run, Shell, Up, netVars, Sealed
<1>2. ASSUME NEW p \in Procs, Down(p) PROVE Isolated!Release
  BY <1>2 DEF Down, netVars, Sealed
<1>3. ASSUME NEW p \in Procs, Check(p) PROVE [Isolated!Next]_(Isolated!vars)
  <2>1. UNCHANGED <<Sealed, app>>
    BY <1>3 DEF Check, netVars, Sealed
  <2>2. CASE tor /\ name # None /\ kept' = (kept \/ job[p] = "up")
    <3>1. Turn(p) /\ pc[p] = "check"
      BY <1>3 DEF Check, Turn
    <3>2. Sealed
      BY <1>t, <2>2, <3>1 DEF Phase, Whole, Built, Gone, Sealed
    <3>3. kept' = TRUE \/ kept' = kept
      BY <1>t, <2>2 DEF TypeOK
    <3> QED BY <2>1, <3>2, <3>3
  <2>3. CASE UNCHANGED kept
    BY <2>1, <2>3
  <2> QED BY <1>3, <2>2, <2>3 DEF Check
<1>4. ASSUME NEW p \in Procs, DeleteTable(p) PROVE [Isolated!Next]_(Isolated!vars)
  <2>1. Turn(p) /\ pc[p] = "t_nft"
    BY <1>4 DEF DeleteTable, Turn
  <2>2. ~kept
    BY <1>t, <2>1 DEF KeptAt
  <2>3. Inside = {}
    <3>1. \A q \in Procs : pc[q] # "idle" => q = p
      BY <2>1 DEF IInv, Alone
    <3> QED BY <2>1, <3>1 DEF IInv, NoOrphans
  <2>4. Sealed' = FALSE /\ UNCHANGED <<app, kept>>
    BY <1>4 DEF DeleteTable, Sealed
  <2> QED BY <2>2, <2>3, <2>4 DEF Sealed
<1>5. ASSUME NEW p \in Procs, \/ DeleteNs(p) \/ DeleteLink(p) \/ AddNs(p) \/ AddVeth(p)
                              \/ MoveVeth(p) \/ AddRoute(p) \/ Sysctls(p)
      PROVE  UNCHANGED <<Sealed, app, kept>>
  <2>1. Turn(p) /\ ~table /\ table' = table /\ UNCHANGED <<app, kept>>
    BY <1>5, <1>t DEF DeleteNs, DeleteLink, AddNs, AddVeth, MoveVeth, AddRoute, Sysctls, Step, Bail,
      netVars, Turn, Phase, Setup, Gone
  <2> QED BY <2>1 DEF Sealed
<1>6. ASSUME NEW p \in Procs, ApplyNft(p) PROVE [Isolated!Next]_(Isolated!vars)
  <2>1. Turn(p) /\ pc[p] = "s_nft" /\ UNCHANGED <<app, kept>>
    BY <1>6 DEF ApplyNft, Step, Turn
  <2>2. ~Sealed
    BY <1>t, <2>1 DEF Phase, Setup, Sealed
  <2>3. Sealed' \in BOOLEAN
    BY DEF Sealed
  <2> QED BY <2>1, <2>2, <2>3 DEF Sealed
<1>7. ASSUME NEW p \in Procs, WriteNsResolv(p) PROVE [Isolated!Next]_(Isolated!vars)
  <2>1. Turn(p) /\ pc[p] = "etc" /\ UNCHANGED <<Sealed, app>> /\ kept' = (kept \/ job[p] = "up")
    BY <1>7 DEF WriteNsResolv, Turn, Sealed
  <2>2. Sealed
    BY <1>t, <2>1, NetsAssumption DEF Phase, Built, Sealed
  <2>3. kept' = TRUE \/ kept' = kept
    BY <1>t, <2>1 DEF TypeOK
  <2> QED BY <2>1, <2>2, <2>3
<1>8. ASSUME NEW p \in Procs, ExecInNs(p) PROVE Isolated!Enter(p)
  <2>1. Turn(p) /\ pc[p] = "exec" /\ UNCHANGED <<Sealed, kept>> /\ app' = [app EXCEPT ![p] = name]
    BY <1>8 DEF ExecInNs, netVars, Turn, Sealed
  <2>2. Sealed /\ name # None
    BY <1>t, <2>1, NetsAssumption DEF Phase, Built, Sealed
  <2> QED BY <1>t, <2>1, <2>2, InsideStep
<1>9. ASSUME NEW p \in Procs, Exit(p) \/ Killed(p) PROVE Isolated!Leave(p)
  <2>1. Turn(p) /\ pc[p] = "app" /\ UNCHANGED <<name, table, kept>>
    BY <1>9 DEF Exit, Killed, Mortal, Sequential, Turn
  <2>2. app' = [app EXCEPT ![p] = None] /\ Reap(name, app')
    BY <1>9 DEF Exit, Killed, Sequential
  <2>3. veth = name
    BY <1>t, <2>1 DEF Phase, Built
  <2>4. UNCHANGED <<veth, routed>>
    BY <1>t, <2>2, <2>3 DEF Reap, TypeOK
  <2> QED BY <1>t, <2>1, <2>2, <2>4, InsideStep DEF Sealed
<1>10. ASSUME NEW p \in Procs PROVE ~OrphanExits(p)
  BY DEF OrphanExits, IInv, NoOrphans
<1>11. CASE TorChanges \/ UNCHANGED vars
  BY <1>11 DEF TorChanges, vars, netVars, Sealed
<1> QED
  BY <1>1, <1>2, <1>3, <1>4, <1>5, <1>6, <1>7, <1>8, <1>9, <1>10, <1>11 DEF Next

(* With one command at a time, no failed setup, no kill and no surviving app, *)
(* also when a signal ends a command under its app, arxonion implements       *)
(* Isolation, for any number of slots and namespaces.                         *)
THEOREM KeepsIsolationHolds == ASSUME Sequential PROVE Spec => KeepsIsolation
<1>1. Init => Isolated!Init
  BY DEF Init, Isolated!Init, Sealed
<1>2. IInv /\ [Next]_vars => [Isolated!Next]_(Isolated!vars)
  BY StepImplements
<1> QED BY <1>1, <1>2, Invariance, PTL DEF Spec, KeepsIsolation, Isolated!Spec

-----------------------------------------------------------------------------
(* A route without the table has somebody who is about to remove the one or   *)
(* to load the other, whoever else runs.                                      *)
Closers == {"t_ns", "t_link", "s_sysctl", "s_nft"}
Attended == ~table /\ routed => \E q \in Procs : pc[q] \in Closers

(* A step that leaves table and route alone, by who closes nothing before it. *)
LEMMA StaysAttended ==
  ASSUME TypeOK, Attended, NEW p \in Procs, NEW l \in Labels, Goto(p, l),
         table' = table, routed' => routed, pc[p] \in Closers => l \in Closers \/ ~routed'
  PROVE  Attended'
BY DEF TypeOK, Attended, Goto

LEMMA AttendedInductive ==
  ASSUME TypeOK, Attended, [Next]_vars, Faults \cap {"fail", "kill"} = {}
  PROVE  Attended'
<1> USE DEF Closers, Labels, Setup, Ending
<1>1. ASSUME NEW p \in Procs, Run(p) \/ Shell(p) \/ Up(p) \/ Down(p) \/ Check(p)
      PROVE  Attended'
  BY <1>1, StaysAttended DEF Run, Shell, Up, Down, Check, MayStart, Goto, netVars, TypeOK, Attended
<1>2. ASSUME NEW p \in Procs, DeleteTable(p) \/ DeleteNs(p) PROVE Attended'
  <2>1. pc'[p] \in Closers
    BY <1>2 DEF DeleteTable, DeleteNs, Goto, TypeOK
  <2>2. QED
    BY <2>1 DEF Attended
<1>3. ASSUME NEW p \in Procs, DeleteLink(p) PROVE Attended'
  BY <1>3 DEF DeleteLink, Attended
<1>4. ASSUME NEW p \in Procs, AddNs(p) \/ AddVeth(p) \/ MoveVeth(p) PROVE Attended'
  <2>1. /\ pc[p] \notin Closers /\ UNCHANGED <<table, routed>>
        /\ \E l \in Labels : Goto(p, l)
    BY <1>4 DEF AddNs, AddVeth, MoveVeth, Step, Bail, netVars
  <2>2. QED
    BY <2>1, StaysAttended
<1>5. ASSUME NEW p \in Procs, AddRoute(p) PROVE Attended'
  <2>1. CASE Goto(p, "s_sysctl")
    BY <2>1 DEF Goto, TypeOK, Attended
  <2>2. CASE Bail(p) /\ pc[p] = "s_route"
    BY <2>2, StaysAttended DEF Bail, netVars
  <2>3. QED
    BY <1>5, <2>1, <2>2 DEF AddRoute, Step
(* Without a veth there is no route, so a script that stops there leaves none.*)
<1>6. ASSUME NEW p \in Procs, Sysctls(p) PROVE Attended'
  <2>1. CASE Goto(p, "s_nft")
    BY <2>1 DEF Goto, TypeOK, Attended
  <2>2. CASE Bail(p) /\ veth = None
    BY <2>2, NetsAssumption DEF Bail, netVars, TypeOK, Attended
  <2>3. QED
    BY <1>6, <2>1, <2>2 DEF Sysctls, Step
<1>7. ASSUME NEW p \in Procs, ApplyNft(p) PROVE Attended'
  BY <1>7 DEF ApplyNft, Step, Attended
<1>8. ASSUME NEW p \in Procs, WriteNsResolv(p) \/ ExecInNs(p) PROVE Attended'
  <2>1. /\ pc[p] \notin Closers /\ UNCHANGED <<table, routed>>
        /\ \E l \in Labels : Goto(p, l)
    BY <1>8 DEF WriteNsResolv, ExecInNs, netVars
  <2>2. QED
    BY <2>1, StaysAttended
<1>9. ASSUME NEW p \in Procs, Exit(p) \/ Killed(p) PROVE Attended'
  <2>1. pc[p] = "app" /\ table' = table
    BY <1>9 DEF Exit, Killed, Mortal
  <2>2. routed' => routed
    BY <1>9 DEF Exit, Killed, Reap
  <2>3. Goto(p, "idle") \/ Goto(p, "t_nft")
    BY <1>9 DEF Exit, Killed
  <2>4. QED
    BY <2>1, <2>2, <2>3, StaysAttended
<1>10. ASSUME NEW p \in Procs, OrphanExits(p) PROVE Attended'
  BY <1>10 DEF OrphanExits, Reap, Attended
<1>11. CASE TorChanges \/ UNCHANGED vars
  BY <1>11 DEF TorChanges, vars, netVars, Attended
<1>12. QED
  BY <1>1, <1>2, <1>3, <1>4, <1>5, <1>6, <1>7, <1>8, <1>9, <1>10, <1>11 DEF Next

(* main.rs:12-14: unless a setup is cut short, any number of commands may     *)
(* overlap, be interrupted under their apps and leave those behind: once all  *)
(* have come to rest no app has a clear path.                                 *)
THEOREM ClosedAtRestHolds ==
  ASSUME Faults \cap {"fail", "kill"} = {} PROVE Spec => []ClosedAtRest
<1>1. Init => Attended
  BY DEF Init, Attended
<1>2. TypeOK /\ Attended /\ [Next]_vars => Attended'
  BY AttendedInductive
<1>3. Attended => ClosedAtRest
  BY DEF Attended, ClosedAtRest, AtRest, FailClosed, ClearPath, Closers
<1>4. QED
  BY <1>1, <1>2, <1>3, TypeCorrect, PTL DEF Spec
=============================================================================
