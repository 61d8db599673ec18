----------------------------- MODULE ToolProofs -----------------------------
(* TLAPS proofs about the three tools that keep a memory: Notify, for any     *)
(* packages and any number of messages and killed passes; Kernels, for any    *)
(* kernels and runs; News, for any repositories and commits.                  *)
EXTENDS Notify, Kernels, News, FiniteSetTheorems, TLAPS

LEMMA WaitingIsCount ==
  ASSUME TypeOK
  PROVE  Cardinality(Packages) \in Nat /\ Waiting \in Counts /\ 0 \in Counts
<1>1. IsFiniteSet(Packages) /\ pending \subseteq Packages
  BY PackagesAssumption DEF TypeOK
<1>2. Cardinality(Packages) \in Nat
  BY <1>1, FS_CardinalityType
<1>3. IsFiniteSet(pending) /\ Cardinality(pending) <= Cardinality(Packages)
  BY <1>1, FS_Subset
<1>4. Cardinality(pending) \in Nat
  BY <1>3, FS_CardinalityType
<1> QED BY <1>2, <1>3, <1>4 DEF Waiting, Counts

LEMMA InitType == Init => TypeOK
<1> SUFFICES ASSUME Init PROVE TypeOK
  OBVIOUS
<1>1. Cardinality(Packages) \in Nat
  BY PackagesAssumption, FS_CardinalityType
<1>2. 0 \in Counts /\ 0 \in Ids
  BY <1>1, BoundsAssumption DEF Counts, Ids
<1>3. Unsaved \in [count : Counts, broadcast : Ids]
  BY <1>2 DEF Unsaved
<1>4. told \in [Messages -> Nat] /\ kills \in 0 .. MaxKills
  BY BoundsAssumption DEF Init
<1>5. count \in Nat /\ steady \in 0 .. 2
  BY DEF Init
<1>6. online \in BOOLEAN
  BY DEF Init
<1>7. {state, last} \subseteq [count : Counts, broadcast : Ids]
  BY <1>3 DEF Init
<1>8. pending \subseteq Packages /\ channel \in Ids /\ updates \in Counts /\ fetched \in Ids
  BY <1>2 DEF Init
<1>9. pc = "idle"
  BY DEF Init
<1> QED BY <1>4, <1>5, <1>6, <1>7, <1>8, <1>9 DEF TypeOK

(* Every step keeps the types.                                                *)
LEMMA NextType == TypeOK /\ [Next]_vars => TypeOK'
<1> SUFFICES ASSUME TypeOK, [Next]_vars PROVE TypeOK'
  OBVIOUS
<1>1. Waiting \in Counts /\ 0 \in Counts /\ 0 \in Ids
  BY WaitingIsCount, BoundsAssumption DEF Ids
<1>2. CASE Start
  BY <1>2 DEF Start, TypeOK, envVars
<1>3. CASE Count
  <2>1. updates' \in Counts /\ updates' \in Nat
    BY <1>3, <1>1, WaitingIsCount DEF Count, Counts
  <2>2. count' \in Nat /\ steady' \in 0 .. 2
    BY <1>3, <2>1 DEF Count, TypeOK
  <2> QED BY <2>1, <2>2, <1>3 DEF Count, TypeOK, envVars
<1>4. CASE Fetch
  BY <1>4, <1>1 DEF Fetch, TypeOK, envVars
<1>5. CASE Show
  <2>1. TellsBroadcast => fetched \in Messages
    BY DEF TypeOK, TellsBroadcast, Messages, Ids
  <2>2. told' \in [Messages -> Nat]
    BY <2>1, <1>5 DEF Show, TypeOK
  <2> QED BY <2>2, <1>5 DEF Show, TypeOK, envVars
<1>6. CASE Truncate
  BY <1>6, <1>1 DEF Truncate, TypeOK, Unsaved, envVars
<1>7. CASE Save
  <2>1. Remembered \in Ids
    BY DEF TypeOK, Remembered
  <2> QED BY <2>1, <1>7 DEF Save, TypeOK, envVars
<1>8. CASE PendingChanges
  BY <1>8 DEF PendingChanges, TypeOK, passVars
<1>9. CASE Publish
  BY <1>9, BoundsAssumption DEF Publish, TypeOK, Ids, passVars
<1>10. CASE LinkChanges
  BY <1>10 DEF LinkChanges, TypeOK, passVars
<1>11. CASE Kill
  BY <1>11, BoundsAssumption DEF Kill, TypeOK, envVars
<1>12. CASE ControlCenterCounts
  BY <1>12, BoundsAssumption DEF ControlCenterCounts, TypeOK, envVars, passVars
<1>13. CASE UNCHANGED vars
  BY <1>13 DEF TypeOK, vars, envVars, passVars
<1> QED
  BY <1>2, <1>3, <1>4, <1>5, <1>6, <1>7, <1>8, <1>9, <1>10, <1>11, <1>12, <1>13 DEF Next, Pass

(* Files, history and what a pass holds keep their types, whatever fails and  *)
(* whenever a pass is killed.                                                 *)
THEOREM TypeCorrect == Spec => []TypeOK
BY InitType, NextType, PTL DEF Spec

-----------------------------------------------------------------------------
(* After a right count of an unchanged set, the next pass compares with it.   *)
LEMMA NextCountIsKnown == TypeOK /\ CountIsKnown /\ [Next]_vars => CountIsKnown'
<1> SUFFICES ASSUME TypeOK, CountIsKnown, [Next]_vars PROVE CountIsKnown'
  OBVIOUS
<1> USE DEF CountIsKnown, Compared, Waiting
<1>1. steady \in 0 .. 2 /\ pc \in {"idle", "count", "fetch", "notify", "truncate", "save"}
  BY DEF TypeOK
<1>2. CASE Start
  BY <1>1, <1>2 DEF Start, envVars
<1>3. CASE Count
  <2>1. steady' >= 1 => updates' = Cardinality(pending)
    BY <1>3 DEF Count
  <2>2. steady' = 2 => steady >= 1
    BY <1>1, <1>3 DEF Count
  <2> QED BY <1>1, <1>3, <2>1, <2>2 DEF Count, envVars
<1>4. CASE Fetch
  BY <1>1, <1>4 DEF Fetch, envVars
<1>5. CASE Show
  BY <1>1, <1>5 DEF Show, envVars
<1>6. CASE Truncate
  BY <1>1, <1>6 DEF Truncate, envVars
<1>7. CASE Save
  BY <1>1, <1>7 DEF Save, envVars
<1>8. CASE PendingChanges
  BY <1>8 DEF PendingChanges
<1>9. CASE Publish
  BY <1>9 DEF Publish, passVars
<1>10. CASE LinkChanges
  BY <1>10 DEF LinkChanges, passVars
<1>11. CASE Kill
  BY <1>11 DEF Kill
<1>12. CASE ControlCenterCounts
  BY <1>12 DEF ControlCenterCounts, envVars, passVars
<1>13. CASE UNCHANGED vars
  BY <1>13 DEF vars, envVars, passVars
<1> QED
  BY <1>2, <1>3, <1>4, <1>5, <1>6, <1>7, <1>8, <1>9, <1>10, <1>11, <1>12, <1>13 DEF Next, Pass

LEMMA InitCountIsKnown == Init => CountIsKnown
BY DEF Init, CountIsKnown

LEMMA NoNagFollows == TypeOK /\ CountIsKnown => NoNag
BY DEF TypeOK, CountIsKnown, Compared, NoNag, TellsUpdates

(* No pass notifies about updates while the set stays what it was and every   *)
(* count succeeds.                                                            *)
THEOREM NoNagHolds == Spec => []NoNag
BY NoNagFollows, InitType, NextType, InitCountIsKnown, NextCountIsKnown, PTL DEF Spec

-----------------------------------------------------------------------------
(* A pass tells only a message newer than the one remembered, so one that was *)
(* shown as often as it may be is not told again; a kill allows one more.     *)
LEMMA NextShownIsRemembered ==
  TypeOK /\ ShownIsRemembered /\ [Next]_vars => ShownIsRemembered'
<1> SUFFICES ASSUME TypeOK, ShownIsRemembered, [Next]_vars PROVE ShownIsRemembered'
  OBVIOUS
<1>1. /\ told \in [Messages -> Nat] /\ kills \in Nat /\ channel \in Nat /\ fetched \in Nat
      /\ state.broadcast \in Nat /\ last.broadcast \in Nat
      /\ pc \in {"idle", "count", "fetch", "notify", "truncate", "save"}
  BY BoundsAssumption DEF TypeOK, Ids
<1>2. CASE Start
  BY <1>1, <1>2 DEF ShownIsRemembered, Memory, Start, envVars
<1>3. CASE Count
  BY <1>1, <1>3 DEF ShownIsRemembered, Memory, Count, envVars
<1>4. CASE Fetch
  <2>1. fetched' \in {0, channel} /\ pc' = "notify" /\ pc = "fetch"
        /\ UNCHANGED <<told, kills, state, last, channel>>
    BY <1>4 DEF Fetch, envVars
  <2> QED BY <1>1, <2>1 DEF ShownIsRemembered, Memory
<1>5. CASE Show
  <2>1. /\ pc = "notify" /\ pc' = "truncate"
        /\ UNCHANGED <<kills, state, last, channel, fetched>>
        /\ Remembered' = Remembered
    BY <1>5 DEF Show, envVars, Remembered, TellsBroadcast
  <2>2. CASE TellsBroadcast
    <3>1. fetched \in Messages /\ last.broadcast < fetched /\ Remembered = fetched
      BY <1>1, <2>1, <2>2 DEF TellsBroadcast, Remembered, ShownIsRemembered, TypeOK, Messages, Ids
    <3>2. \A m \in Messages : told'[m] = IF m = fetched THEN told[m] + 1 ELSE told[m]
      BY <1>1, <1>5, <2>2 DEF Show
    <3>3. \A m \in Messages :
             told[m] <= kills \/ (told[m] = kills + 1 /\ m <= last.broadcast)
      BY <2>1 DEF ShownIsRemembered, Memory
    <3>4. \A m \in Messages : m \in Nat
      BY DEF Messages
    <3>5. \A m \in Messages :
             told'[m] <= kills \/ (told'[m] = kills + 1 /\ m <= fetched)
      <4> TAKE m \in Messages
      <4>1. told[m] \in Nat /\ m \in Nat
        BY <1>1, <3>4
      <4>2. CASE m = fetched
        BY <4>1, <4>2, <1>1, <3>1, <3>2, <3>3
      <4>3. CASE m # fetched
        BY <4>1, <4>3, <1>1, <3>1, <3>2, <3>3
      <4> QED BY <4>2, <4>3
    <3> QED BY <2>1, <3>1, <3>5 DEF ShownIsRemembered, Memory
  <2>3. CASE ~TellsBroadcast
    BY <2>1, <2>3, <1>5 DEF Show, ShownIsRemembered, Memory, Remembered
  <2> QED BY <2>2, <2>3
<1>6. CASE Truncate
  BY <1>1, <1>6 DEF ShownIsRemembered, Memory, Remembered, TellsBroadcast, Truncate, Unsaved,
                    envVars
<1>7. CASE Save
  <2>1. state'.broadcast = Remembered /\ pc = "save" /\ pc' = "idle"
        /\ UNCHANGED <<kills, told, last, channel, fetched>>
    BY <1>7 DEF Save, envVars
  <2>2. Remembered <= channel
    BY DEF ShownIsRemembered, Remembered
  <2> QED BY <1>1, <2>1, <2>2 DEF ShownIsRemembered, Memory
<1>8. CASE PendingChanges
  BY <1>8 DEF PendingChanges, ShownIsRemembered, Memory, Remembered, TellsBroadcast, passVars
<1>9. CASE Publish
  <2>1. channel' = channel + 1 /\ UNCHANGED <<told, kills, state, last, fetched, pc>>
    BY <1>9 DEF Publish, passVars
  <2> QED BY <1>1, <2>1 DEF ShownIsRemembered, Memory, Remembered, TellsBroadcast
<1>10. CASE LinkChanges
  BY <1>10 DEF LinkChanges, ShownIsRemembered, Memory, Remembered, TellsBroadcast, passVars
<1>11. CASE Kill
  <2>1. kills' = kills + 1 /\ pc' = "idle"
        /\ UNCHANGED <<told, state, last, channel, fetched>>
    BY <1>11 DEF Kill, envVars
  <2>2. \A m \in Messages : told[m] \in Nat /\ told[m] <= kills + 1
    BY <1>1 DEF ShownIsRemembered
  <2> QED BY <1>1, <2>1, <2>2 DEF ShownIsRemembered
<1>12. CASE ControlCenterCounts
  BY <1>12 DEF ControlCenterCounts, envVars, passVars, ShownIsRemembered, Memory, Remembered,
               TellsBroadcast
<1>13. CASE UNCHANGED vars
  BY <1>13 DEF vars, envVars, passVars, ShownIsRemembered, Memory, Remembered, TellsBroadcast
<1> QED
  BY <1>2, <1>3, <1>4, <1>5, <1>6, <1>7, <1>8, <1>9, <1>10, <1>11, <1>12, <1>13 DEF Next, Pass

LEMMA InitShownIsRemembered == Init => ShownIsRemembered
BY BoundsAssumption DEF Init, ShownIsRemembered, Memory, Unsaved

LEMMA ToldOnceFollows == TypeOK /\ ShownIsRemembered => ToldOnce
<1> SUFFICES ASSUME TypeOK, ShownIsRemembered, NEW m \in Messages PROVE told[m] <= 1 + kills
  BY DEF ToldOnce
<1>1. told[m] \in Nat /\ kills \in Nat
  BY BoundsAssumption DEF TypeOK
<1> QED BY <1>1 DEF ShownIsRemembered

(* No message is shown more than once for each pass that was killed and once  *)
(* besides.                                                                   *)
THEOREM ToldOnceHolds == Spec => []ToldOnce
BY ToldOnceFollows, InitType, NextType, InitShownIsRemembered, NextShownIsRemembered,
   PTL DEF Spec

-----------------------------------------------------------------------------
(* While the running kernel can be read by its name, it is installed and no   *)
(* removal of it has passed the check.                                        *)
RunningStays ==
  ~upgraded => /\ booted \in kernels
               /\ \A r \in Runs : job[r].step \in {"count", "remove"} => job[r].flavor # booted

(* While removals did not overlap, a kernel is left beside the one that a run *)
(* is about to remove.                                                        *)
OneIsLeft ==
  ~overlapped => /\ kernels # {}
                 /\ \A r \in Runs : Does(r, "remove") => kernels \ {job[r].flavor} # {}

KernelInv == KernelTypeOK /\ RunningStays /\ OneIsLeft

LEMMA JobFields ==
  ASSUME KernelTypeOK, NEW r \in Runs
  PROVE  /\ job[r] = NoJob \/ job[r].flavor \in Flavors
         /\ job[r].step \in {"idle", "fetch", "put", "running", "count", "remove"}
BY DEF KernelTypeOK, Jobs, NoJob

(* A step of a job leaves the other jobs and this job's flavor alone.         *)
LEMMA ProceedFields ==
  ASSUME KernelTypeOK, NEW r \in Runs, NEW s \in {"put", "count", "remove"},
         ~Does(r, "idle"), Proceed(r, s)
  PROVE  /\ job' \in [Runs -> Jobs]
         /\ job'[r].step = s /\ job'[r].flavor = job[r].flavor
         /\ \A q \in Runs \ {r} : job'[q] = job[q]
<1>1. job[r] \in Jobs /\ job[r] # NoJob
  BY DEF KernelTypeOK, Does, NoJob
<1>2. [job[r] EXCEPT !.step = s] \in Jobs
  BY <1>1 DEF Jobs
<1> QED BY <1>1, <1>2 DEF KernelTypeOK, Proceed, Jobs, NoJob

LEMMA GiveUpFields ==
  ASSUME KernelTypeOK, NEW r \in Runs, GiveUp(r)
  PROVE  /\ job' \in [Runs -> Jobs] /\ job'[r] = NoJob
         /\ \A q \in Runs \ {r} : job'[q] = job[q]
BY DEF KernelTypeOK, GiveUp, Jobs

(* A step that keeps the kernels, and after which a job is at a later step    *)
(* only if it was there before, keeps both parts.                             *)
LEMMA QuietStep ==
  ASSUME KernelInv, UNCHANGED <<kernels, booted, upgraded, overlapped>>,
         \A q \in Runs : \/ job'[q] = job[q]
                         \/ job'[q].step \notin {"count", "remove"}
  PROVE  RunningStays' /\ OneIsLeft'
BY DEF KernelInv, RunningStays, OneIsLeft, Does

LEMMA CountIsMore ==
  ASSUME KernelTypeOK, NEW f, f \in kernels, Cardinality(kernels) > 1
  PROVE  kernels \ {f} # {}
<1>1. IsFiniteSet(kernels)
  BY FlavorsAssumption, FS_Subset DEF KernelTypeOK
<1>2. SUFFICES ASSUME kernels = {f} PROVE FALSE
  OBVIOUS
<1>3. Cardinality({f}) = 1
  BY FS_Singleton
<1> QED BY <1>2, <1>3

-----------------------------------------------------------------------------
LEMMA InitKernel == KernelInit => KernelInv
<1> SUFFICES ASSUME KernelInit PROVE KernelInv
  OBVIOUS
<1>1. job \in [Runs -> Jobs] /\ \A r \in Runs : job[r].step = "idle"
  BY DEF KernelInit, Jobs, NoJob
<1>2. KernelTypeOK
  BY <1>1 DEF KernelInit, KernelTypeOK
<1>3. RunningStays /\ OneIsLeft
  BY <1>1 DEF KernelInit, RunningStays, OneIsLeft, Does
<1> QED BY <1>2, <1>3 DEF KernelInv

LEMMA NextKernel == KernelInv /\ [KernelNext]_kernelVars => KernelInv'
<1> SUFFICES ASSUME KernelInv, [KernelNext]_kernelVars PROVE KernelInv'
  OBVIOUS
<1>t. KernelTypeOK
  BY DEF KernelInv
<1>1. ASSUME NEW r \in Runs, NEW f \in Flavors, NEW s \in {"fetch", "running"}, Begin(r, s, f)
      PROVE  KernelInv'
  <2>1. job' \in [Runs -> Jobs] /\ job'[r].step = s /\ \A q \in Runs \ {r} : job'[q] = job[q]
    BY <1>1, <1>t DEF Begin, KernelTypeOK, Jobs
  <2>2. KernelTypeOK'
    BY <1>1, <1>t, <2>1 DEF Begin, KernelTypeOK
  <2>3. RunningStays' /\ OneIsLeft'
    BY <1>1, <2>1, QuietStep DEF Begin
  <2> QED BY <2>2, <2>3 DEF KernelInv
<1>2. ASSUME NEW r \in Runs, FetchVerified(r) PROVE KernelInv'
  <2>1. job' \in [Runs -> Jobs]
    BY <1>2, <1>t, ProceedFields, GiveUpFields DEF FetchVerified, Does
  <2>2. KernelTypeOK'
    BY <1>2, <1>t, <2>1 DEF FetchVerified, KernelTypeOK
  <2>3. \A q \in Runs : job'[q] = job[q] \/ job'[q].step \notin {"count", "remove"}
    BY <1>2, <1>t, ProceedFields, GiveUpFields DEF FetchVerified, Does, NoJob
  <2> QED BY <1>2, <2>2, <2>3, QuietStep DEF FetchVerified, KernelInv
<1>3. ASSUME NEW r \in Runs, Put(r) PROVE KernelInv'
  <2>1. /\ job' \in [Runs -> Jobs] /\ job'[r] = NoJob
        /\ \A q \in Runs \ {r} : job'[q] = job[q]
    BY <1>3, <1>t, GiveUpFields DEF Put
  <2>2. job[r].flavor \in Flavors
    BY <1>3, <1>t, JobFields DEF Put, Does, NoJob
  <2>3. /\ kernels' \subseteq Flavors /\ upgraded' \in BOOLEAN /\ kernels \subseteq kernels'
        /\ (upgraded => upgraded') /\ UNCHANGED <<booted, overlapped>>
    BY <1>3, <1>t, <2>2 DEF Put, KernelTypeOK
  <2>4. KernelTypeOK'
    BY <1>t, <2>1, <2>3 DEF KernelTypeOK
  <2>5. RunningStays' /\ OneIsLeft'
    BY <2>1, <2>3 DEF KernelInv, RunningStays, OneIsLeft, Does, NoJob
  <2> QED BY <2>4, <2>5 DEF KernelInv
<1>4. ASSUME NEW r \in Runs, CheckRunning(r) PROVE KernelInv'
  <2>1. CASE GiveUp(r)
    <3>1. /\ job' \in [Runs -> Jobs] /\ job'[r] = NoJob
          /\ \A q \in Runs \ {r} : job'[q] = job[q]
      BY <2>1, <1>t, GiveUpFields
    <3>2. KernelTypeOK'
      BY <1>4, <1>t, <3>1 DEF CheckRunning, KernelTypeOK
    <3> QED BY <1>4, <3>1, <3>2, QuietStep DEF CheckRunning, KernelInv, NoJob
  <2>2. CASE Proceed(r, "count") /\ ~(Named /\ booted = job[r].flavor)
    <3>1. /\ job' \in [Runs -> Jobs] /\ job'[r].step = "count" /\ job'[r].flavor = job[r].flavor
          /\ \A q \in Runs \ {r} : job'[q] = job[q]
      BY <1>4, <2>2, <1>t, ProceedFields DEF CheckRunning, Does
    <3>2. KernelTypeOK' /\ OneIsLeft'
      BY <1>4, <1>t, <3>1 DEF CheckRunning, KernelTypeOK, KernelInv, OneIsLeft, Does
    <3>3. RunningStays'
      BY <1>4, <2>2, <3>1 DEF CheckRunning, KernelInv, RunningStays, Named
    <3> QED BY <3>2, <3>3 DEF KernelInv
  <2> QED BY <1>4, <2>1, <2>2 DEF CheckRunning
<1>5. ASSUME NEW r \in Runs, CheckCount(r) PROVE KernelInv'
  <2>1. CASE GiveUp(r)
    <3>1. /\ job' \in [Runs -> Jobs] /\ job'[r] = NoJob
          /\ \A q \in Runs \ {r} : job'[q] = job[q]
      BY <2>1, <1>t, GiveUpFields
    <3>2. KernelTypeOK'
      BY <1>5, <1>t, <3>1 DEF CheckCount, KernelTypeOK
    <3> QED BY <1>5, <3>1, <3>2, QuietStep DEF CheckCount, KernelInv, NoJob
  <2>2. CASE Proceed(r, "remove") /\ Cardinality(kernels) > 1 /\ job[r].flavor \in kernels
    <3>1. /\ job' \in [Runs -> Jobs] /\ job'[r].step = "remove" /\ job'[r].flavor = job[r].flavor
          /\ \A q \in Runs \ {r} : job'[q] = job[q]
      BY <1>5, <2>2, <1>t, ProceedFields DEF CheckCount, Does
    <3>2. kernels \ {job[r].flavor} # {}
      BY <2>2, <1>t, CountIsMore
    <3>3. KernelTypeOK' /\ RunningStays'
      BY <1>5, <1>t, <3>1 DEF CheckCount, KernelTypeOK, KernelInv, RunningStays, Does
    <3>4. OneIsLeft'
      BY <1>5, <3>1, <3>2 DEF CheckCount, KernelInv, OneIsLeft, Does
    <3> QED BY <3>3, <3>4 DEF KernelInv
  <2> QED BY <1>5, <2>1, <2>2 DEF CheckCount
<1>6. ASSUME NEW r \in Runs, Uninstall(r) PROVE KernelInv'
  <2>1. /\ job' \in [Runs -> Jobs] /\ job'[r] = NoJob
        /\ \A q \in Runs \ {r} : job'[q] = job[q]
    BY <1>6, <1>t, GiveUpFields DEF Uninstall
  <2>2. CASE UNCHANGED <<kernels, overlapped>>
    <3>1. KernelTypeOK'
      BY <1>6, <1>t, <2>1, <2>2 DEF Uninstall, KernelTypeOK
    <3> QED BY <1>6, <2>1, <2>2, <3>1, QuietStep DEF Uninstall, KernelInv, NoJob
  <2>3. CASE /\ job[r].flavor \in kernels /\ kernels' = kernels \ {job[r].flavor}
             /\ overlapped' = (overlapped \/ \E q \in Runs \ {r} : Does(q, "remove"))
    <3>1. KernelTypeOK'
      BY <1>6, <1>t, <2>1, <2>3 DEF Uninstall, KernelTypeOK
    <3>2. RunningStays'
      BY <1>6, <2>1, <2>3 DEF Uninstall, KernelInv, RunningStays, Does, NoJob
    <3>3. OneIsLeft'
      <4> SUFFICES ASSUME ~overlapped' PROVE OneIsLeft'
        BY DEF OneIsLeft
      <4>1. ~overlapped /\ \A q \in Runs \ {r} : ~Does(q, "remove")
        BY <2>3
      <4>2. kernels' # {}
        BY <1>6, <2>3, <4>1 DEF Uninstall, KernelInv, OneIsLeft
      <4>3. \A q \in Runs : ~Does(q, "remove")'
        BY <2>1, <4>1 DEF Does, NoJob
      <4> QED BY <4>2, <4>3 DEF OneIsLeft
    <3> QED BY <3>1, <3>2, <3>3 DEF KernelInv
  <2> QED BY <1>6, <2>2, <2>3 DEF Uninstall
<1>7. ASSUME NEW r \in Runs, Interrupted(r) PROVE KernelInv'
  <2>1. /\ job' \in [Runs -> Jobs] /\ job'[r] = NoJob
        /\ \A q \in Runs \ {r} : job'[q] = job[q]
    BY <1>7, <1>t, GiveUpFields DEF Interrupted
  <2>2. KernelTypeOK'
    BY <1>7, <1>t, <2>1 DEF Interrupted, KernelTypeOK
  <2> QED BY <1>7, <2>1, <2>2, QuietStep DEF Interrupted, KernelInv, NoJob
<1>8. CASE Upgrade
  BY <1>8, <1>t DEF Upgrade, KernelInv, KernelTypeOK, RunningStays, OneIsLeft, Does
<1>9. CASE Boot
  BY <1>9, <1>t DEF Boot, KernelInv, KernelTypeOK, RunningStays, OneIsLeft, Does, NoJob, Jobs
<1>10. CASE UNCHANGED kernelVars
  BY <1>10, <1>t DEF kernelVars, KernelInv, KernelTypeOK, RunningStays, OneIsLeft, Does
<1> QED
  BY <1>1, <1>2, <1>3, <1>4, <1>5, <1>6, <1>7, <1>8, <1>9, <1>10 DEF KernelNext, Command

(* Kernels, jobs and history keep their types.                                *)
THEOREM KernelTypeCorrect == KernelSpec => []KernelTypeOK
<1>1. KernelInv => KernelTypeOK
  BY DEF KernelInv
<1> QED BY <1>1, InitKernel, NextKernel, PTL DEF KernelSpec

(* A kernel is left to boot, for any kernels and however many runs install    *)
(* and remove them, unless removals overlapped after an upgrade in place.     *)
THEOREM KernelRemainsHolds == KernelSpec => []KernelRemains
<1>1. KernelInv => KernelRemains
  BY DEF KernelInv, RunningStays, OneIsLeft, KernelRemains
<1> QED BY <1>1, InitKernel, NextKernel, PTL DEF KernelSpec

-----------------------------------------------------------------------------
(* What was there from the start and never failed to answer.                  *)
Steady(r) == r \in registry /\ r \notin late \cup missed

(* A pass has seen the steady repositories it has asked, and a stored file    *)
(* holds them all.                                                            *)
SteadyIsSeen ==
  /\ todo \subseteq registry /\ (phase = "dump" => todo = {})
  /\ \A r \in Repos : tip[r] # 0
  /\ \A r \in Repos : Steady(r) /\ stored.any => stored.sha[r] # 0
  /\ \A r \in Repos : Steady(r) /\ phase # "idle" /\ (~first \/ r \notin todo) => seen.sha[r] # 0

(* The file is there once a repository was stored, until a dump is torn.      *)
FileStays ==
  ~torn /\ known # {} => /\ phase # "dump" => stored.any
                         /\ phase = "ask" => ~first

NewsInv == NewsTypeOK /\ SteadyIsSeen /\ FileStays /\ NewsIsTold

LEMMA InitNews == NewsInit => NewsInv
<1> SUFFICES ASSUME NewsInit PROVE NewsInv
  OBVIOUS
<1>1. Empty \in [any : BOOLEAN, sha : Commits] /\ tip \in Commits
  BY MaxCommitsAssumption DEF NewsInit, Empty, Commits
<1>2. NewsTypeOK
  BY <1>1 DEF NewsInit, NewsTypeOK
<1> QED BY <1>2 DEF NewsInit, NewsInv, SteadyIsSeen, FileStays, NewsIsTold, Empty

LEMMA NextNews == NewsInv /\ [NewsNext]_newsVars => NewsInv'
<1> SUFFICES ASSUME NewsInv, [NewsNext]_newsVars PROVE NewsInv'
  OBVIOUS
<1>t. /\ NewsTypeOK
      /\ \A r \in Repos : /\ tip[r] \in 1 .. MaxCommits
                          /\ stored.sha[r] \in Nat /\ seen.sha[r] \in Nat
  BY MaxCommitsAssumption DEF NewsInv, NewsTypeOK, SteadyIsSeen, Commits
<1>1. CASE Load
  <2>1. NewsTypeOK'
    BY <1>1, <1>t DEF Load, NewsTypeOK, historyVars
  <2>2. SteadyIsSeen' /\ FileStays' /\ NewsIsTold'
    BY <1>1, <1>t DEF Load, NewsInv, SteadyIsSeen, FileStays, NewsIsTold, Steady, NewsTypeOK,
                      historyVars
  <2> QED BY <2>1, <2>2 DEF NewsInv
<1>2. ASSUME NEW r \in Repos, Ask(r) PROVE NewsInv'
  <2>1. CASE missed' = missed \cup {r} /\ UNCHANGED <<seen, announced, swallowed>>
    <3>1. NewsTypeOK'
      BY <1>2, <1>t, <2>1 DEF Ask, NewsTypeOK
    <3>2. SteadyIsSeen'
      BY <1>2, <2>1 DEF Ask, NewsInv, SteadyIsSeen, Steady
    <3>3. FileStays' /\ NewsIsTold'
      BY <1>2, <2>1 DEF Ask, NewsInv, FileStays, NewsIsTold
    <3> QED BY <3>1, <3>2, <3>3 DEF NewsInv
  <2>2. CASE /\ seen' = [seen EXCEPT !.sha[r] = tip[r]] /\ UNCHANGED missed
             /\ announced' \in {announced, IF Announces(r) THEN announced \cup {r} ELSE announced}
             /\ swallowed' = IF r \in known /\ seen.sha[r] # tip[r] /\ ~Tells(r)
                             THEN swallowed \cup {r} ELSE swallowed
    <3>1. seen'.sha \in Commits /\ seen'.any = seen.any /\ seen' \in [any : BOOLEAN, sha : Commits]
      BY <1>t, <2>2 DEF NewsTypeOK, Commits
    <3>2. \A q \in Repos : seen'.sha[q] = IF q = r THEN tip[r] ELSE seen.sha[q]
      BY <1>t, <2>2 DEF NewsTypeOK, Commits
    <3>3. NewsTypeOK'
      BY <1>2, <1>t, <2>2, <3>1 DEF Ask, NewsTypeOK
    <3>4. SteadyIsSeen'
      <4>1. \A q \in Repos : q \notin todo' => q \notin todo \/ q = r
        BY <1>2 DEF Ask
      <4>2. \A q \in Repos : Steady(q)' = Steady(q)
        BY <1>2, <2>2 DEF Ask, Steady
      <4> QED BY <1>2, <1>t, <3>2, <4>1, <4>2 DEF Ask, NewsInv, SteadyIsSeen
    <3>5. FileStays'
      BY <1>2 DEF Ask, NewsInv, FileStays
    <3>6. announced' \subseteq late' \cup missed'
      BY <1>2, <2>2 DEF Ask, NewsInv, NewsIsTold, SteadyIsSeen, Steady, Announces
    <3>7. r \in known /\ seen.sha[r] # tip[r] /\ ~torn => Tells(r)
      BY <1>2 DEF Ask, Tells, Announces, NewsInv, FileStays
    <3>8. NewsIsTold'
      BY <1>2, <2>2, <3>6, <3>7 DEF Ask, NewsInv, NewsIsTold
    <3> QED BY <3>3, <3>4, <3>5, <3>8 DEF NewsInv
  <2> QED BY <1>2, <2>1, <2>2 DEF Ask
<1>3. CASE Rewrite
  <2>1. Empty \in [any : BOOLEAN, sha : Commits] /\ Empty.any = FALSE
    BY MaxCommitsAssumption DEF Empty, Commits
  <2>2. NewsTypeOK'
    BY <1>3, <1>t, <2>1 DEF Rewrite, NewsTypeOK, historyVars
  <2>3. SteadyIsSeen' /\ FileStays' /\ NewsIsTold'
    BY <1>3, <2>1 DEF Rewrite, NewsInv, SteadyIsSeen, FileStays, NewsIsTold, Steady, historyVars
  <2> QED BY <2>2, <2>3 DEF NewsInv
<1>4. CASE Dump
  <2>1. stored' \in [any : BOOLEAN, sha : Commits] /\ stored'.any /\ stored'.sha = seen.sha
    BY <1>4, <1>t DEF Dump, NewsTypeOK
  <2>2. NewsTypeOK'
    BY <1>4, <1>t, <2>1 DEF Dump, NewsTypeOK
  <2>3. SteadyIsSeen'
    BY <1>4, <2>1 DEF Dump, NewsInv, SteadyIsSeen, Steady
  <2>4. FileStays' /\ NewsIsTold'
    BY <1>4, <2>1 DEF Dump, NewsInv, FileStays, NewsIsTold
  <2> QED BY <2>2, <2>3, <2>4 DEF NewsInv
<1>5. CASE Killed
  <2>1. NewsTypeOK'
    BY <1>5, <1>t DEF Killed, NewsTypeOK
  <2>2. SteadyIsSeen' /\ FileStays' /\ NewsIsTold'
    BY <1>5, <1>t DEF Killed, NewsInv, SteadyIsSeen, FileStays, NewsIsTold, Steady, NewsTypeOK
  <2> QED BY <2>1, <2>2 DEF NewsInv
<1>6. ASSUME NEW r \in Repos, Commit(r) PROVE NewsInv'
  <2>1. tip' \in Commits /\ \A q \in Repos : tip'[q] # 0
    BY <1>6, <1>t, MaxCommitsAssumption DEF Commit, NewsTypeOK, Commits
  <2>2. NewsTypeOK'
    BY <1>6, <1>t, <2>1 DEF Commit, NewsTypeOK, runVars, historyVars
  <2>3. SteadyIsSeen' /\ FileStays' /\ NewsIsTold'
    BY <1>6, <2>1 DEF Commit, NewsInv, SteadyIsSeen, FileStays, NewsIsTold, Steady, runVars,
                      historyVars
  <2> QED BY <2>2, <2>3 DEF NewsInv
<1>7. ASSUME NEW r \in Repos, Ship(r) PROVE NewsInv'
  <2>1. NewsTypeOK'
    BY <1>7, <1>t DEF Ship, NewsTypeOK, runVars
  <2>2. \A q \in Repos : Steady(q)' => Steady(q)
    BY <1>7 DEF Ship, Steady
  <2>3. SteadyIsSeen' /\ FileStays' /\ NewsIsTold'
    BY <1>7, <2>2 DEF Ship, NewsInv, SteadyIsSeen, FileStays, NewsIsTold, runVars
  <2> QED BY <2>1, <2>3 DEF NewsInv
<1>8. CASE UNCHANGED newsVars
  BY <1>8 DEF newsVars, runVars, historyVars, NewsInv, NewsTypeOK, SteadyIsSeen, FileStays,
              NewsIsTold, Steady
<1> QED BY <1>1, <1>2, <1>3, <1>4, <1>5, <1>6, <1>7, <1>8 DEF NewsNext

(* Files, passes and histories keep their types.                              *)
THEOREM NewsTypeCorrect == NewsSpec => []NewsTypeOK
<1>1. NewsInv => NewsTypeOK
  BY DEF NewsInv
<1> QED BY <1>1, InitNews, NextNews, PTL DEF NewsSpec

(* Only what was added later or did not answer is told as a new tool, and the *)
(* news of a stored repository is passed over only after a torn dump, for any *)
(* repositories.                                                              *)
THEOREM NewsIsToldHolds == NewsSpec => []NewsIsTold
<1>1. NewsInv => NewsIsTold
  BY DEF NewsInv
<1> QED BY <1>1, InitNews, NextNews, PTL DEF NewsSpec
=============================================================================
