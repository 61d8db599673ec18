--------------------------- MODULE DesktopProofs ----------------------------
(* TLAPS proofs about the desktop as a whole: side by side, each program does *)
(* what it does alone, so that what is proved of it holds in Desktop.         *)
EXTENDS Desktop, ToolProofs, ControlCenterProofs

(* A step of the desktop is, for each program, a step of it or none.          *)
LEMMA EachProgram ==
  ASSUME [DesktopNext]_desktopVars
  PROVE  /\ [Next]_vars /\ [BadgeNext]_badgeVars /\ [StreamNext]_streamVars
         /\ [VmNext]_vmVars /\ [KernelNext]_kernelVars /\ [NewsNext]_newsVars
         /\ [ListNext]_listVars /\ UNCHANGED program
<1>1. CASE UNCHANGED desktopVars
  BY <1>1 DEF desktopVars
<1>2. CASE DesktopNext
  <2>1. CASE NotifyRuns
    BY <1>2, <2>1 DEF NotifyRuns, DesktopNext
  <2>2. CASE BadgeRuns
    BY <1>2, <2>2 DEF BadgeRuns, DesktopNext
  <2>3. CASE StreamRuns
    BY <1>2, <2>3 DEF StreamRuns, DesktopNext
  <2>4. CASE VmRuns
    BY <1>2, <2>4 DEF VmRuns, DesktopNext
  <2>5. CASE KernelRuns
    BY <1>2, <2>5 DEF KernelRuns, DesktopNext
  <2>6. CASE NewsRuns
    BY <1>2, <2>6 DEF NewsRuns, DesktopNext
  <2>7. CASE ListingsRun
    BY <1>2, <2>7 DEF ListingsRun, DesktopNext
  <2> QED BY <1>2, <2>1, <2>2, <2>3, <2>4, <2>5, <2>6, <2>7 DEF DesktopNext
<1> QED BY <1>1, <1>2

LEMMA EachStart ==
  ASSUME DesktopInit
  PROVE  /\ Init /\ BadgeInit /\ StreamInit /\ VmInit /\ KernelInit /\ NewsInit /\ ListInit
         /\ program \in Programs
BY DEF DesktopInit

-----------------------------------------------------------------------------
(* Beside the others each program but Notify keeps its own specification, the *)
(* fairness of its threads included.                                          *)
THEOREM EachKeepsItsSpec ==
  DesktopSpec => BadgeSpec /\ StreamSpec /\ VmSpec /\ KernelSpec /\ NewsSpec /\ ListSpec
BY EachStart, EachProgram, PTL
   DEF DesktopSpec, BadgeSpec, StreamSpec, VmSpec, KernelSpec, NewsSpec, ListSpec

(* The inductive invariant is the conjunction of those of the programs.       *)
DesktopInv ==
  /\ program \in Programs
  /\ TypeOK /\ CountIsKnown /\ ShownIsRemembered
  /\ BadgeInv /\ StreamInv /\ VmInv /\ KernelInv /\ NewsInv

LEMMA InitDesktop == DesktopInit => DesktopInv
BY EachStart, InitType, InitCountIsKnown, InitShownIsRemembered, InitBadge, InitStream,
   InitVm, InitKernel, InitNews DEF DesktopInv

LEMMA NextDesktop == DesktopInv /\ [DesktopNext]_desktopVars => DesktopInv'
BY EachProgram, NextType, NextCountIsKnown, NextShownIsRemembered, NextBadge, NextStream,
   NextVm, NextKernel, NextNews DEF DesktopInv

(* Every program keeps its types, whichever of them runs.                     *)
THEOREM DesktopTypeCorrect == DesktopSpec => []DesktopTypeOK
<1>1. DesktopInv => DesktopTypeOK
  BY DEF DesktopInv, BadgeInv, StreamInv, VmInv, KernelInv, NewsInv, DesktopTypeOK
<1> QED BY <1>1, InitDesktop, NextDesktop, PTL DEF DesktopSpec

(* What the runs check of the desktop holds for any packages, kernels,        *)
(* repositories and terminals, and for any number of calls and lines: nobody  *)
(* is nagged, a message is told once, tile and badge agree, a kernel is left, *)
(* news is told, the tables say what the tools printed, what is done is ready *)
(* and every line is shown.                                                   *)
THEOREM DesktopKeepsPromises ==
  DesktopSpec => /\ [](NoNag /\ ToldOnce)
                 /\ [](TileIsBadge /\ KernelRemains /\ NewsIsTold /\ ListingsMatch)
                 /\ DoneIsReady /\ Relays
<1>1. TypeOK /\ CountIsKnown => NoNag
  BY NoNagFollows
<1>2. TypeOK /\ ShownIsRemembered => ToldOnce
  BY ToldOnceFollows
<1>3. DesktopInv => TypeOK /\ CountIsKnown /\ ShownIsRemembered
  BY DEF DesktopInv
<1> QED
  BY <1>1, <1>2, <1>3, InitDesktop, NextDesktop, EachKeepsItsSpec, TileIsBadgeHolds,
     KernelRemainsHolds, NewsIsToldHolds, DoneIsReadyHolds, RelaysHolds,
     ListingsMatchHolds, PTL DEF DesktopSpec
=============================================================================
