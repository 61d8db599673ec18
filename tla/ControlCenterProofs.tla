------------------------ MODULE ControlCenterProofs -------------------------
(* TLAPS proofs about Badge, VmSetup, Stream and Listings: four parts of the  *)
(* Control Center, for any number of updates, calls and lines, for any        *)
(* terminals, and for anything ss and nmcli print.                            *)
EXTENDS Badge, VmSetup, Stream, Listings,
        SequenceTheorems, FiniteSetTheorems, FunctionTheorems, WellFoundedInduction, TLAPS

Results == [of : Kinds, n : Numbers]
LiveCall(i) == i \in 1 .. Len(calls) /\ calls[i] = "live"
LiveResult(i) == i \in 1 .. Len(results) /\ results[i].of = "live"

(* A page asks for the live count once.                                       *)
OneLive ==
  /\ \A i, j \in Nat : LiveCall(i) /\ LiveCall(j) => i = j
  /\ \A i, j \in Nat : LiveResult(i) /\ LiveResult(j) => i = j
  /\ \A i, j \in Nat : ~(LiveCall(i) /\ LiveResult(j))
  /\ page.live => \A i \in Nat : ~LiveCall(i) /\ ~LiveResult(i)
  /\ measured # Unknown => LiveCall(1)

(* From the live count on, everything on its way to the page is the file.     *)
AllAreCache ==
  healed =>
    /\ cache # Unknown
    /\ page.live => /\ page.tile = cache /\ page.badge = cache
                    /\ \A j \in 1 .. Len(results) : results[j].n = cache
    /\ \A i \in Nat : LiveResult(i) => \A j \in i .. Len(results) : results[j].n = cache

BadgeInv == BadgeTypeOK /\ OneLive /\ AllAreCache

LEMMA NumbersFacts ==
  /\ Unknown \in Numbers /\ 0 \in Numbers /\ 0 .. MaxWaiting \subseteq Numbers
  /\ BadgeTypeOK => Total \in Numbers /\ Total # Unknown /\ waiting["pacman"] \in Numbers
BY BadgeAssumption DEF Numbers, Unknown, Total, BadgeTypeOK, Sources

(* What Return does to the two queues.                                        *)
LEMMA ReturnFields ==
  ASSUME BadgeTypeOK, calls # <<>>, NEW n \in Numbers, Return(n)
  PROVE  /\ calls' \in Seq(Kinds) /\ results' \in Seq(Results)
         /\ Len(calls) \in Nat \ {0} /\ Len(results) \in Nat
         /\ Len(calls') = Len(calls) - 1 /\ Len(results') = Len(results) + 1
         /\ \A i \in 1 .. Len(calls') : calls'[i] = calls[i + 1]
         /\ \A i \in 1 .. Len(results) : results'[i] = results[i]
         /\ results'[Len(results) + 1] = [of |-> calls[1], n |-> n]
<1>1. calls \in Seq(Kinds) /\ results \in Seq(Results)
  BY DEF BadgeTypeOK, Results
<1>2. Head(calls) \in Kinds /\ Head(calls) = calls[1]
  BY <1>1, HeadTailProperties
<1>3. [of |-> Head(calls), n |-> n] \in Results
  BY <1>2 DEF Results
<1>4. /\ calls' \in Seq(Kinds) /\ Len(calls') = Len(calls) - 1
      /\ \A i \in 1 .. Len(calls') : calls'[i] = calls[i + 1]
  BY <1>1, HeadTailProperties DEF Return
<1>5. /\ results' \in Seq(Results) /\ Len(results') = Len(results) + 1
      /\ \A i \in 1 .. Len(results) : results'[i] = results[i]
      /\ results'[Len(results) + 1] = [of |-> Head(calls), n |-> n]
  BY <1>1, <1>3, AppendProperties DEF Return
<1>6. Len(calls) \in Nat \ {0} /\ Len(results) \in Nat
  BY <1>1, EmptySeq, LenProperties
<1> QED BY <1>2, <1>4, <1>5, <1>6

(* After Return, the first call is gone and is the last result.               *)
LEMMA ReturnLive ==
  ASSUME BadgeTypeOK, calls # <<>>, NEW n \in Numbers, Return(n)
  PROVE  /\ \A i \in Nat : LiveCall(i)' => LiveCall(i + 1)
         /\ \A i \in Nat : LiveResult(i)' => LiveResult(i) \/ (i = Len(results) + 1 /\ LiveCall(1))
         /\ \A j \in 1 .. Len(results') : \/ j \in 1 .. Len(results) /\ results'[j] = results[j]
                                          \/ j = Len(results) + 1 /\ results'[j].n = n
<1>f. /\ Len(calls) \in Nat \ {0} /\ Len(results) \in Nat
      /\ Len(calls') = Len(calls) - 1 /\ Len(results') = Len(results) + 1
      /\ \A i \in 1 .. Len(calls') : calls'[i] = calls[i + 1]
      /\ \A i \in 1 .. Len(results) : results'[i] = results[i]
      /\ results'[Len(results) + 1] = [of |-> calls[1], n |-> n]
  BY ReturnFields
<1>1. \A i \in Nat : LiveCall(i)' => LiveCall(i + 1)
  BY <1>f DEF LiveCall
<1>2. \A j \in 1 .. Len(results') : j \in 1 .. Len(results) \/ j = Len(results) + 1
  BY <1>f
<1>3. results'[Len(results) + 1].of = calls[1] /\ results'[Len(results) + 1].n = n
  BY <1>f
<1>4. \A i \in Nat : LiveResult(i)' => LiveResult(i) \/ (i = Len(results) + 1 /\ LiveCall(1))
  BY <1>f, <1>2, <1>3 DEF LiveCall, LiveResult
<1> QED BY <1>f, <1>1, <1>2, <1>3, <1>4

LEMMA InitBadge == BadgeInit => BadgeInv
<1> SUFFICES ASSUME BadgeInit PROVE BadgeInv
  OBVIOUS
<1>0. calls \in Seq(Kinds) /\ results \in Seq([of : Kinds, n : Numbers])
  BY DEF BadgeInit, BootCalls, Kinds
<1>1. BadgeTypeOK
  <2>1. 0 \in 0 .. MaxWaiting
    BY BadgeAssumption
  <2>2. waiting \in [Sources -> 0 .. MaxWaiting]
    BY <2>1 DEF BadgeInit
  <2>3. page \in [tile : Numbers, badge : Numbers, live : BOOLEAN]
    BY NumbersFacts DEF BadgeInit, EmptyPage
  <2> QED BY <1>0, <2>2, <2>3, NumbersFacts DEF BadgeInit, BadgeTypeOK
<1>2. OneLive
  BY DEF BadgeInit, OneLive, LiveCall, LiveResult, BootCalls, EmptyPage
<1>3. AllAreCache
  BY DEF BadgeInit, AllAreCache
<1> QED BY <1>1, <1>2, <1>3 DEF BadgeInv

(* Every step keeps the types.                                                *)
LEMMA NextBadgeType == BadgeTypeOK /\ OneLive /\ [BadgeNext]_badgeVars => BadgeTypeOK'
<1> SUFFICES ASSUME BadgeTypeOK, OneLive, [BadgeNext]_badgeVars PROVE BadgeTypeOK'
  OBVIOUS
<1> USE DEF BadgeTypeOK
<1>1. CASE Revisit
  BY <1>1 DEF Revisit, fileVars, Kinds
<1>2. CASE Reopen
  <2>1. /\ calls' \in Seq(Kinds) /\ page' \in [tile : Numbers, badge : Numbers, live : BOOLEAN]
        /\ measured' \in Numbers
    BY <1>2, NumbersFacts DEF Reopen, BootCalls, EmptyPage, Kinds
  <2>2. healing' \in BOOLEAN /\ results' = <<>> /\ UNCHANGED <<waiting, cache, healed, notifier>>
    BY <1>2 DEF Reopen
  <2> QED BY <2>1, <2>2
<1>3. CASE UpdatesCountCached
  BY <1>3, ReturnFields DEF UpdatesCountCached, Asked, fileVars, Results
<1>4. CASE UpdatesCount
  BY <1>4, NumbersFacts DEF UpdatesCount, fileVars
<1>5. CASE Heal
  <2>1. calls # <<>>
    BY <1>5 DEF Heal, OneLive, LiveCall
  <2> QED BY <1>5, <2>1, NumbersFacts, ReturnFields DEF Heal, Results
<1>6. CASE CountFails
  <2>1. (IF cache = Unknown THEN 0 ELSE cache) \in Numbers
    BY NumbersFacts
  <2> QED BY <1>6, <2>1, ReturnFields DEF CountFails, Asked, fileVars, Results
<1>7. CASE Take
  <2>1. Head(results) \in Results /\ Tail(results) \in Seq(Results)
    BY <1>7, HeadTailProperties DEF Take, Results
  <2>2. Painted(Head(results)) \in [tile : Numbers, badge : Numbers, live : BOOLEAN]
    BY <2>1 DEF Painted, Results, Kinds
  <2> QED BY <1>7, <2>1, <2>2 DEF Take, fileVars, Results
<1>8. CASE NotifyTruncates
  BY <1>8, NumbersFacts DEF NotifyTruncates, callVars
<1>9. CASE NotifyWrites
  BY <1>9, NumbersFacts DEF NotifyWrites, callVars
<1>10. CASE UpdatesChange
  BY <1>10 DEF UpdatesChange, fileVars, callVars
<1>11. CASE UNCHANGED badgeVars
  BY <1>11 DEF badgeVars, fileVars, callVars
<1>12. CASE HealTruncates
  BY <1>12, NumbersFacts DEF HealTruncates, callVars
<1>13. CASE HealFails
  <2>1. calls # <<>>
    BY <1>13 DEF HealFails, OneLive, LiveCall
  <2> QED BY <1>13, <2>1, NumbersFacts, ReturnFields DEF HealFails, Results
<1> QED
  BY <1>1, <1>2, <1>3, <1>4, <1>5, <1>6, <1>7, <1>8, <1>9, <1>10, <1>11, <1>12, <1>13
     DEF BadgeNext

LEMMA NextBadge == BadgeInv /\ [BadgeNext]_badgeVars => BadgeInv'
<1> SUFFICES ASSUME BadgeInv, [BadgeNext]_badgeVars PROVE BadgeInv'
  OBVIOUS
<1>t. /\ BadgeTypeOK /\ OneLive /\ AllAreCache /\ BadgeTypeOK'
      /\ calls \in Seq(Kinds) /\ Len(calls) \in Nat
      /\ results \in Seq(Results) /\ Len(results) \in Nat
  BY NextBadgeType, LenProperties DEF BadgeInv, BadgeTypeOK, Results
<1>1. CASE Revisit
  <2>1. /\ Len(calls') = Len(calls) + 1 /\ calls'[Len(calls) + 1] = "tile"
        /\ \A i \in 1 .. Len(calls) : calls'[i] = calls[i]
        /\ UNCHANGED <<fileVars, measured, results, page>>
    BY <1>1, <1>t, AppendProperties DEF Revisit, Kinds
  <2>2. \A i \in Nat : LiveCall(i)' <=> LiveCall(i)
    BY <2>1, <1>t DEF LiveCall
  <2>3. OneLive' /\ AllAreCache'
    BY <2>1, <2>2, <1>t DEF OneLive, AllAreCache, LiveResult, fileVars
  <2> QED BY <1>t, <2>3 DEF BadgeInv
<1>2. CASE Reopen
  <2>1. /\ Len(calls') = 3 /\ calls'[1] = "tile" /\ calls'[2] = "badge" /\ calls'[3] = "live"
        /\ Len(results') = 0 /\ page'.live = FALSE /\ measured' = Unknown
        /\ UNCHANGED <<cache, healed>>
    BY <1>2 DEF Reopen, BootCalls, EmptyPage
  <2>2. \A i \in Nat : (LiveCall(i)' => i = 3) /\ ~LiveResult(i)'
    BY <2>1 DEF LiveCall, LiveResult
  <2>3. OneLive'
    BY <2>1, <2>2 DEF OneLive
  <2>4. AllAreCache'
    BY <2>1, <2>2, <1>t DEF AllAreCache
  <2> QED BY <1>t, <2>3, <2>4 DEF BadgeInv
<1>3. CASE UpdatesCountCached
  <2>1. calls # <<>> /\ Return(cache) /\ cache \in Numbers /\ ~LiveCall(1)
        /\ UNCHANGED <<fileVars, measured, page>>
    BY <1>3, <1>t, HeadTailProperties DEF UpdatesCountCached, Asked, BadgeTypeOK, LiveCall
  <2>2. /\ \A i \in Nat : LiveCall(i)' => LiveCall(i + 1)
        /\ \A i \in Nat : LiveResult(i)' => LiveResult(i)
        /\ \A j \in 1 .. Len(results') : \/ j \in 1 .. Len(results) /\ results'[j] = results[j]
                                         \/ results'[j].n = cache
    BY <2>1, <1>t, ReturnLive
  <2>3. measured = Unknown
    BY <2>1, <1>t DEF OneLive
  <2>4. OneLive'
    BY <2>1, <2>2, <2>3, <1>t DEF OneLive
  <2>5. AllAreCache'
    <3> SUFFICES ASSUME healed' PROVE AllAreCache'
      BY DEF AllAreCache
    <3>1. healed /\ cache' = cache /\ cache # Unknown /\ page' = page
      BY <2>1, <1>t DEF AllAreCache, fileVars
    <3>2. page.live => /\ page.tile = cache /\ page.badge = cache
                       /\ \A j \in 1 .. Len(results') : results'[j].n = cache
      BY <2>2, <3>1, <1>t DEF AllAreCache
    <3>3. ASSUME NEW i \in Nat, LiveResult(i)', NEW j \in i .. Len(results')
          PROVE  results'[j].n = cache
      <4>1. LiveResult(i) /\ i >= 1
        BY <2>2, <3>3 DEF LiveResult
      <4>2. j \in 1 .. Len(results') /\ j >= i
        BY <4>1, <1>t, LenProperties
      <4> QED BY <2>2, <3>1, <4>1, <4>2, <1>t DEF AllAreCache
    <3> QED BY <3>1, <3>2, <3>3 DEF AllAreCache
  <2> QED BY <1>t, <2>4, <2>5 DEF BadgeInv
<1>4. CASE UpdatesCount
  <2>1. LiveCall(1) /\ UNCHANGED <<fileVars, calls, results, page>>
    BY <1>4, <1>t, HeadTailProperties, EmptySeq DEF UpdatesCount, Asked, LiveCall
  <2>2. OneLive'
    BY <2>1, <1>t DEF OneLive, LiveCall, LiveResult
  <2>3. AllAreCache'
    BY <2>1, <1>t DEF AllAreCache, LiveResult, fileVars
  <2> QED BY <1>t, <2>2, <2>3 DEF BadgeInv
<1>5. ASSUME NEW n \in Numbers, calls # <<>>, Return(n), LiveCall(1), measured' = Unknown,
             UNCHANGED page, healed' => n # Unknown /\ cache' = n
      PROVE  BadgeInv'
  <2>1. ~page.live /\ \A i \in Nat : ~LiveResult(i)
    BY <1>5, <1>t DEF OneLive
  <2>2. /\ \A i \in Nat : ~LiveCall(i)'
        /\ \A i \in Nat : LiveResult(i)' => i = Len(results) + 1
        /\ results'[Len(results) + 1].n = n /\ Len(results') = Len(results) + 1
    <3>1. \A i \in Nat : LiveCall(i)' => LiveCall(i + 1)
      BY <1>5, <1>t, ReturnLive
    <3>2. \A i \in Nat : LiveCall(i + 1) => i + 1 = 1
      BY <1>5, <1>t DEF OneLive
    <3>3. \A i \in Nat : LiveCall(i)' => i # 0
      BY DEF LiveCall
    <3>4. \A i \in Nat : ~LiveCall(i)'
      BY <3>1, <3>2, <3>3
    <3>5. \A i \in Nat : LiveResult(i)' => i = Len(results) + 1
      BY <1>5, <1>t, <2>1, ReturnLive
    <3>6. /\ results'[Len(results) + 1] = [of |-> calls[1], n |-> n]
          /\ Len(results') = Len(results) + 1
      BY <1>5, <1>t, ReturnFields
    <3> QED BY <3>4, <3>5, <3>6
  <2>3. OneLive'
    BY <1>5, <2>1, <2>2 DEF OneLive
  <2>4. AllAreCache'
    BY <1>5, <1>t, <2>1, <2>2 DEF AllAreCache
  <2> QED BY <1>t, <2>3, <2>4 DEF BadgeInv
<1>6. CASE Heal \/ HealFails
  <2>1. LiveCall(1) /\ calls # <<>>
    BY <1>6, <1>t DEF Heal, HealFails, OneLive, LiveCall
  <2>2. measured \in Numbers /\ measured # Unknown /\ Return(measured) /\ UNCHANGED page
        /\ measured' = Unknown /\ (healed' => cache' = measured)
    BY <1>6, <1>t DEF Heal, HealFails, BadgeTypeOK
  <2> QED BY <1>5, <2>1, <2>2
<1>7. CASE CountFails
  <2>1. LiveCall(1) /\ calls # <<>>
    BY <1>7, <1>t, HeadTailProperties, EmptySeq DEF CountFails, Asked, LiveCall
  <2>2. (IF cache = Unknown THEN 0 ELSE cache) \in Numbers
    BY <1>t, NumbersFacts DEF BadgeTypeOK
  <2>3. healed => cache # Unknown
    BY <1>t DEF AllAreCache
  <2> QED BY <1>5, <1>7, <2>1, <2>2, <2>3 DEF CountFails, fileVars
<1>8. CASE Take
  <2>1. /\ results # <<>> /\ results[1] \in Results /\ Head(results) = results[1]
        /\ Len(results') = Len(results) - 1 /\ Len(results) >= 1
        /\ \A i \in 1 .. Len(results') : results'[i] = results[i + 1]
        /\ page' = Painted(results[1]) /\ UNCHANGED <<fileVars, calls, measured>>
    BY <1>8, <1>t, HeadTailProperties, EmptySeq DEF Take
  <2>2. \A i \in Nat : LiveResult(i)' => LiveResult(i + 1)
    BY <2>1, <1>t DEF LiveResult
  <2>3. \A i \in Nat : LiveCall(i)' <=> LiveCall(i)
    BY <2>1 DEF LiveCall
  <2>4. CASE results[1].of = "live"
    <3>1. LiveResult(1) /\ page' = [tile |-> results[1].n, badge |-> results[1].n, live |-> TRUE]
      BY <2>1, <2>4 DEF LiveResult, Painted
    <3>2. \A i \in Nat : LiveResult(i)' => FALSE
      <4> SUFFICES ASSUME NEW i \in Nat, LiveResult(i)' PROVE FALSE
        OBVIOUS
      <4>1. i + 1 = 1
        BY <2>2, <3>1, <1>t DEF OneLive
      <4> QED BY <4>1 DEF LiveResult
    <3>3. \A i \in Nat : ~LiveCall(i)
      BY <3>1, <1>t DEF OneLive
    <3>4. OneLive'
      BY <2>1, <2>3, <3>2, <3>3, <1>t DEF OneLive
    <3>5. AllAreCache'
      BY <2>1, <3>1, <3>2, <1>t DEF AllAreCache, fileVars
    <3> QED BY <1>t, <3>4, <3>5 DEF BadgeInv
  <2>5. CASE results[1].of # "live"
    <3>1. page'.live = page.live
      BY <2>1, <2>5, <1>t DEF Painted, Results, Kinds, BadgeTypeOK
    <3>2. OneLive'
      <4>1. \A i, j \in Nat : LiveResult(i)' /\ LiveResult(j)' => i = j
        <5> SUFFICES ASSUME NEW i \in Nat, NEW j \in Nat, LiveResult(i)', LiveResult(j)'
                     PROVE  i = j
          OBVIOUS
        <5>1. i + 1 \in Nat /\ j + 1 \in Nat /\ LiveResult(i + 1) /\ LiveResult(j + 1)
          BY <2>2
        <5>2. i + 1 = j + 1
          BY <5>1, <1>t DEF OneLive
        <5> QED BY <5>2
      <4>2. \A i, j \in Nat : ~(LiveCall(i)' /\ LiveResult(j)')
        BY <2>2, <2>3, <1>t DEF OneLive
      <4>3. page.live => \A i \in Nat : ~LiveCall(i)' /\ ~LiveResult(i)'
        BY <2>2, <2>3, <1>t DEF OneLive
      <4>4. \A i, j \in Nat : LiveCall(i)' /\ LiveCall(j)' => i = j
        BY <2>3, <1>t DEF OneLive
      <4>5. measured' # Unknown => LiveCall(1)'
        BY <2>1, <2>3, <1>t DEF OneLive
      <4> QED BY <3>1, <4>1, <4>2, <4>3, <4>4, <4>5 DEF OneLive
    <3>3. page.live /\ page.tile = cache /\ page.badge = cache /\ results[1].n = cache
            => page'.tile = cache /\ page'.badge = cache
      BY <2>1, <2>5, <1>t DEF Painted, Results, Kinds, BadgeTypeOK
    <3>4. AllAreCache'
      <4> SUFFICES ASSUME healed' PROVE AllAreCache'
        BY DEF AllAreCache
      <4>1. healed /\ cache' = cache /\ cache # Unknown
        BY <2>1, <1>t DEF AllAreCache, fileVars
      <4>2. page.live => \A j \in 1 .. Len(results) : results[j].n = cache
        BY <4>1, <1>t DEF AllAreCache
      <4>3. \A j \in 1 .. Len(results') : j + 1 \in 1 .. Len(results) /\ results'[j] = results[j + 1]
        BY <2>1, <1>t
      <4>4. page'.live => /\ page'.tile = cache /\ page'.badge = cache
                          /\ \A j \in 1 .. Len(results') : results'[j].n = cache
        BY <2>1, <3>1, <3>3, <4>1, <4>2, <4>3, <1>t DEF AllAreCache
      <4>5. ASSUME NEW i \in Nat, LiveResult(i)', NEW j \in i .. Len(results')
            PROVE  results'[j].n = cache
        <5>1. LiveResult(i + 1) /\ i >= 1 /\ j \in 1 .. Len(results') /\ i + 1 \in Nat
          BY <2>1, <2>2, <4>5, <1>t DEF LiveResult
        <5>2. j + 1 \in (i + 1) .. Len(results)
          BY <2>1, <4>5, <5>1, <1>t
        <5>3. results[j + 1].n = cache
          BY <4>1, <5>1, <5>2, <1>t DEF AllAreCache
        <5> QED BY <4>3, <5>1, <5>3
      <4> QED BY <4>1, <4>4, <4>5 DEF AllAreCache
    <3> QED BY <1>t, <3>2, <3>4 DEF BadgeInv
  <2> QED BY <2>4, <2>5
<1>9. CASE NotifyTruncates \/ NotifyWrites \/ HealTruncates
  <2>1. ~healed' /\ UNCHANGED <<callVars, page>>
    BY <1>9 DEF NotifyTruncates, NotifyWrites, HealTruncates
  <2> QED BY <1>t, <2>1 DEF BadgeInv, OneLive, AllAreCache, LiveCall, LiveResult, callVars
<1>10. CASE UpdatesChange \/ UNCHANGED badgeVars
  <2>1. UNCHANGED <<fileVars, callVars, page>>
    BY <1>10 DEF UpdatesChange, badgeVars
  <2> QED
    BY <1>t, <2>1 DEF BadgeInv, OneLive, AllAreCache, LiveCall, LiveResult, callVars, fileVars
<1> QED BY <1>1, <1>2, <1>3, <1>4, <1>6, <1>7, <1>8, <1>9, <1>10 DEF BadgeNext

(* Once the live count is painted and stored, the tile and the badge agree    *)
(* until arxos-notify writes the file, for any counts and number of visits.   *)
THEOREM TileIsBadgeHolds == BadgeSpec => []TileIsBadge
<1>1. BadgeInv => TileIsBadge
  BY DEF BadgeInv, AllAreCache, TileIsBadge
<1> QED BY <1>1, InitBadge, NextBadge, PTL DEF BadgeSpec

-----------------------------------------------------------------------------
(* What a script has reached is done on the machine.                          *)
Reached ==
  \A w \in Windows :
    /\ at[w] \in {"join", "start"} => machine.installed /\ engine # "vmware"
    /\ at[w] = "start" => machine.member
    /\ at[w] = "done" => /\ machine.installed
                         /\ engine # "vmware" => machine.member /\ machine.active

VmInv == VmTypeOK /\ Reached

LEMMA AfterStep ==
  ASSUME VmTypeOK
  PROVE  /\ After("install") = (IF engine = "vmware" THEN "done" ELSE "join")
         /\ After("join") = "start" /\ After("start") = "done"
BY DEF After

LEMMA NextVm == VmInv /\ [VmNext]_vmVars => VmInv'
<1> SUFFICES ASSUME VmInv, [VmNext]_vmVars PROVE VmInv'
  OBVIOUS
<1>t. VmTypeOK /\ Reached
  BY DEF VmInv
<1> USE DEF VmTypeOK, Reached, Steps
<1>1. ASSUME NEW w \in Windows, Open(w) \/ Close(w) \/ CloseWindow(w) PROVE VmInv'
  <2>1. /\ at' \in [Windows -> Steps \cup {"closed", "done"}]
        /\ \A v \in Windows : at'[v] \in {"install", "closed"} \/ at'[v] = at[v]
        /\ lock' \in Windows \cup {"free"} /\ UNCHANGED <<engine, machine, session>>
    BY <1>1, <1>t DEF Open, Close, CloseWindow
  <2> QED BY <1>t, <2>1 DEF VmInv
<1>2. ASSUME NEW w \in Windows, LockPackages(w) PROVE VmInv'
  <2>1. /\ at' \in [Windows -> Steps \cup {"closed", "done"}]
        /\ \A v \in Windows : at'[v] = "closed" \/ at'[v] = at[v]
        /\ lock' \in Windows \cup {"free"} /\ UNCHANGED <<engine, machine, session>>
    BY <1>2, <1>t DEF LockPackages, Fails
  <2> QED BY <1>t, <2>1 DEF VmInv
<1>3. ASSUME NEW w \in Windows, NEW part \in {"installed", "member", "active"},
             at[w] \in Steps, Succeeds(w, part), UNCHANGED <<engine, session>>,
             lock' \in Windows \cup {"free"},
             at[w] = "install" => part = "installed", at[w] = "join" => part = "member",
             at[w] = "start" => part = "active"
      PROVE  VmInv'
  <2>1. /\ machine' \in [{"installed", "member", "active"} -> BOOLEAN] /\ machine'[part]
        /\ machine.installed => machine'.installed
        /\ machine.member => machine'.member
        /\ machine.active => machine'.active
    BY <1>3, <1>t DEF Succeeds
  <2>2. /\ at'[w] = After(at[w]) /\ \A v \in Windows \ {w} : at'[v] = at[v]
        /\ at' \in [Windows -> Steps \cup {"closed", "done"}]
    BY <1>3, <1>t, AfterStep DEF Succeeds
  <2>3. CASE at[w] = "install"
    BY <1>3, <1>t, <2>1, <2>2, <2>3, AfterStep DEF VmInv
  <2>4. CASE at[w] = "join"
    BY <1>3, <1>t, <2>1, <2>2, <2>4, AfterStep DEF VmInv
  <2>5. CASE at[w] = "start"
    BY <1>3, <1>t, <2>1, <2>2, <2>5, AfterStep DEF VmInv
  <2> QED BY <1>3, <2>3, <2>4, <2>5
<1>4. ASSUME NEW w \in Windows, Fails(w), UNCHANGED <<engine, session>>,
             lock' \in Windows \cup {"free"}
      PROVE  VmInv'
  <2>1. /\ at' \in [Windows -> Steps \cup {"closed", "done"}]
        /\ \A v \in Windows : at'[v] = "closed" \/ at'[v] = at[v]
        /\ UNCHANGED machine
    BY <1>4, <1>t DEF Fails
  <2> QED BY <1>4, <1>t, <2>1 DEF VmInv
<1>5. ASSUME NEW w \in Windows, Install(w) \/ Join(w) \/ Activate(w) PROVE VmInv'
  BY <1>3, <1>4, <1>5, <1>t DEF Install, Join, Activate
<1>6. CASE Login \/ Restart
  <2>1. /\ machine' \in [{"installed", "member", "active"} -> BOOLEAN]
        /\ UNCHANGED engine /\ session' \in BOOLEAN /\ lock' = "free"
        /\ at' = [w \in Windows |-> "closed"]
    BY <1>6, <1>t DEF Login, Restart
  <2> QED BY <1>t, <2>1 DEF VmInv
<1>7. CASE UNCHANGED vmVars
  BY <1>7, <1>t DEF vmVars, VmInv
<1> QED BY <1>1, <1>2, <1>5, <1>6, <1>7 DEF VmNext, Script

LEMMA InitVm == VmInit => VmInv
BY DEF VmInit, VmInv, VmTypeOK, Reached, Steps

(* After a terminal that said it is done, a login shows the engine as ready,  *)
(* for any number of terminals and wherever their commands fail.              *)
THEOREM DoneIsReadyHolds == VmSpec => DoneIsReady
<1>1. VmInv /\ [VmNext]_vmVars => [Login /\ (\E w \in Windows : at[w] = "done") => Ready']_vmVars
  BY DEF VmInv, Reached, Login, Ready, vmVars
<1> QED BY <1>1, InitVm, NextVm, PTL DEF VmSpec, DoneIsReady

-----------------------------------------------------------------------------
(* Where the lines of a pipe stand in a queue, and how many there are.        *)
Places(s, p) == {i \in 1 .. Len(s) : s[i] = p}
LinesIn(s, p) == Cardinality(Places(s, p))

LEMMA LinesInType ==
  ASSUME NEW s \in Seq(Pipes), NEW p \in Pipes
  PROVE  LinesIn(s, p) \in Nat /\ IsFiniteSet(Places(s, p))
<1>1. IsFiniteSet(1 .. Len(s))
  BY FS_Interval, LenProperties
<1>2. Places(s, p) \in SUBSET (1 .. Len(s))
  BY DEF Places
<1>3. IsFiniteSet(Places(s, p))
  BY <1>1, <1>2, FS_Subset
<1> QED BY <1>3, FS_CardinalityType DEF LinesIn

LEMMA LinesInEmpty == \A p \in Pipes : LinesIn(<<>>, p) = 0
<1>1. \A p \in Pipes : Places(<<>>, p) = {}
  BY DEF Places
<1> QED BY <1>1, FS_EmptySet DEF LinesIn

LEMMA LinesInAppend ==
  ASSUME NEW s \in Seq(Pipes), NEW q \in Pipes, NEW p \in Pipes
  PROVE  LinesIn(Append(s, q), p) = LinesIn(s, p) + (IF p = q THEN 1 ELSE 0)
<1>1. /\ Len(s) \in Nat /\ Len(Append(s, q)) = Len(s) + 1
      /\ \A i \in 1 .. Len(s) : Append(s, q)[i] = s[i]
      /\ Append(s, q)[Len(s) + 1] = q
  BY AppendProperties, LenProperties
<1>2. CASE p = q
  <2>1. Places(Append(s, q), p) = Places(s, p) \cup {Len(s) + 1}
    BY <1>1, <1>2 DEF Places
  <2>2. Len(s) + 1 \notin Places(s, p)
    BY <1>1 DEF Places
  <2> QED BY <1>2, <2>1, <2>2, LinesInType, FS_AddElement DEF LinesIn
<1>3. CASE p # q
  <2>1. Places(Append(s, q), p) = Places(s, p)
    BY <1>1, <1>3 DEF Places
  <2> QED BY <1>3, <2>1, LinesInType DEF LinesIn
<1> QED BY <1>2, <1>3

LEMMA LinesInTail ==
  ASSUME NEW s \in Seq(Pipes), s # <<>>, NEW p \in Pipes
  PROVE  LinesIn(s, p) = LinesIn(Tail(s), p) + (IF p = Head(s) THEN 1 ELSE 0)
<1>1. /\ Len(s) \in Nat \ {0} /\ Tail(s) \in Seq(Pipes) /\ Len(Tail(s)) = Len(s) - 1
      /\ \A i \in 1 .. Len(Tail(s)) : Tail(s)[i] = s[i + 1]
      /\ Head(s) = s[1]
  BY HeadTailProperties, LenProperties, EmptySeq
<1> DEFINE Rest == Places(s, p) \ {1}
           shift == [i \in Places(Tail(s), p) |-> i + 1]
<1>2. IsFiniteSet(Rest) /\ Cardinality(Rest) \in Nat
  BY LinesInType, FS_RemoveElement, FS_CardinalityType
<1>3. Cardinality(Rest) = LinesIn(Tail(s), p)
  <2>1. shift \in [Places(Tail(s), p) -> Rest]
    BY <1>1 DEF Places
  <2>2. \A i, j \in Places(Tail(s), p) : shift[i] = shift[j] => i = j
    BY <1>1 DEF Places
  <2>3. \A j \in Rest : j - 1 \in Places(Tail(s), p) /\ shift[j - 1] = j
    BY <1>1 DEF Places
  <2>4. \A j \in Rest : \E i \in Places(Tail(s), p) : shift[i] = j
    BY <2>3
  <2>5. shift \in Bijection(Places(Tail(s), p), Rest)
    BY <2>1, <2>2, <2>4, Fun_IsBij
  <2>6. ExistsBijection(Places(Tail(s), p), Rest)
    BY <2>5 DEF ExistsBijection
  <2> QED BY <1>1, <2>6, LinesInType, FS_Bijection DEF LinesIn
<1>4. Cardinality(Rest) = IF p = s[1] THEN LinesIn(s, p) - 1 ELSE LinesIn(s, p)
  <2>1. 1 \in Places(s, p) <=> p = s[1]
    BY <1>1 DEF Places
  <2> QED BY <2>1, LinesInType, FS_RemoveElement DEF LinesIn
<1> QED BY <1>1, <1>2, <1>3, <1>4, LinesInType

-----------------------------------------------------------------------------
(* Every line a command printed is in its pipe, in its channel or in the      *)
(* panel, or was in the panel until it was emptied.                           *)
Conserved(c, inPanel, gone) ==
  \A p \in Pipes : c.printed[p] = c.piped[p] + LinesIn(c.sent, p) + inPanel[p] + gone[p]

(* What the worker has behind it when it leaves a pipe.                       *)
WorkerAt(c) ==
  /\ c.worker = "err" => c.child = "ended" /\ c.piped["out"] = 0
  /\ c.worker \in {"idle", "wait", "closed"} => c.child # "running" /\ c.piped = Nothing
  /\ c.worker = "idle" => c.sent = <<>>

StreamInv ==
  /\ StreamTypeOK
  /\ \A a \in Actions : Conserved(cmd[a], console[a], wiped[a]) /\ WorkerAt(cmd[a])

LEMMA StreamFacts ==
  ASSUME StreamInv, NEW a \in Actions
  PROVE  /\ cmd[a] \in Streaming /\ cmd[a].sent \in Seq(Pipes) /\ Capacity \in Nat \ {0}
         /\ console \in [Actions -> [Pipes -> Nat]] /\ wiped \in [Actions -> [Pipes -> Nat]]
         /\ \A p \in Pipes : /\ LinesIn(cmd[a].sent, p) \in Nat /\ cmd[a].piped[p] \in 0 .. Capacity
                             /\ cmd[a].printed[p] \in Nat
                             /\ console[a][p] \in Nat /\ wiped[a][p] \in Nat
         /\ Conserved(cmd[a], console[a], wiped[a]) /\ WorkerAt(cmd[a])
<1>1. cmd[a] \in Streaming /\ console[a] \in [Pipes -> Nat] /\ wiped[a] \in [Pipes -> Nat]
  BY DEF StreamInv, StreamTypeOK
<1>2. cmd[a].sent \in Seq(Pipes)
  BY <1>1 DEF Streaming
<1> QED BY <1>1, <1>2, LinesInType, CapacityAssumption DEF StreamInv, StreamTypeOK, Streaming

(* A step of one command keeps what holds of the others.                      *)
LEMMA OneCommand ==
  ASSUME StreamInv, NEW a \in Actions, NEW c \in Streaming, NEW s \in [Pipes -> Nat],
         cmd' = [cmd EXCEPT ![a] = c], console' = [console EXCEPT ![a] = s], wiped' = wiped,
         Conserved(c, s, wiped[a]), WorkerAt(c)
  PROVE  StreamInv'
<1>1. StreamTypeOK'
  BY DEF StreamInv, StreamTypeOK
<1>2. ASSUME NEW b \in Actions
      PROVE  Conserved(cmd'[b], console'[b], wiped'[b]) /\ WorkerAt(cmd'[b])
  <2>1. CASE b = a
    BY <2>1 DEF StreamInv, StreamTypeOK
  <2>2. CASE b # a
    BY <2>2 DEF StreamInv, StreamTypeOK
  <2> QED BY <2>1, <2>2
<1> QED BY <1>1, <1>2 DEF StreamInv

LEMMA QuietCommand ==
  ASSUME StreamInv, NEW a \in Actions, NEW c \in Streaming,
         cmd' = [cmd EXCEPT ![a] = c], UNCHANGED panelVars,
         Conserved(c, console[a], wiped[a]), WorkerAt(c)
  PROVE  StreamInv'
<1>1. console' = [console EXCEPT ![a] = console[a]] /\ wiped' = wiped /\ console[a] \in [Pipes -> Nat]
  BY StreamFacts DEF panelVars
<1> QED BY <1>1, OneCommand

LEMMA NewCommand ==
  /\ {NotStreaming, Started, NotStarted} \subseteq Streaming
  /\ \A c \in {NotStreaming, Started, NotStarted} : Conserved(c, Nothing, Nothing) /\ WorkerAt(c)
<1>1. "out" \in Pipes /\ Order[1] = "out" /\ Nothing \in [Pipes -> 0 .. Capacity]
      /\ Nothing \in [Pipes -> Nat]
  BY CapacityAssumption DEF Pipes, Order, Nothing
<1>2. <<>> \in Seq(Pipes) /\ <<"out">> = Append(<<>>, "out") /\ <<"out">> \in Seq(Pipes)
  BY <1>1
<1>3. NotStreaming \in Streaming
  BY <1>1, <1>2 DEF NotStreaming, Streaming
<1>4. Started \in Streaming /\ Started = [NotStreaming EXCEPT !.child = "running", !.worker = "out"]
  BY <1>1, <1>3 DEF Started, NotStreaming, Streaming
<1>5. NotStarted \in Streaming
  BY <1>1, <1>2, <1>3 DEF NotStarted, NotStreaming, Streaming, Nothing
<1>6. \A p \in Pipes : LinesIn(<<"out">>, p) = IF p = "out" THEN 1 ELSE 0
  <2>1. ASSUME NEW p \in Pipes
        PROVE  LinesIn(Append(<<>>, "out"), p) = LinesIn(<<>>, p) + (IF p = "out" THEN 1 ELSE 0)
    BY <1>1, <1>2, LinesInAppend
  <2> QED BY <1>2, <2>1, LinesInEmpty
<1>7. Conserved(NotStreaming, Nothing, Nothing) /\ Conserved(Started, Nothing, Nothing)
  BY LinesInEmpty DEF Conserved, NotStreaming, Started, Nothing
<1>8. Conserved(NotStarted, Nothing, Nothing)
  BY <1>1, <1>6 DEF Conserved, NotStarted, NotStreaming, Nothing
<1>9. WorkerAt(NotStreaming) /\ WorkerAt(Started) /\ WorkerAt(NotStarted)
  BY <1>1 DEF WorkerAt, NotStreaming, Started, NotStarted
<1> QED BY <1>3, <1>4, <1>5, <1>7, <1>8, <1>9

LEMMA InitStream == StreamInit => StreamInv
<1> SUFFICES ASSUME StreamInit PROVE StreamInv
  OBVIOUS
<1>1. Nothing \in [Pipes -> Nat]
  BY DEF Nothing
<1>2. StreamTypeOK
  BY <1>1, NewCommand DEF StreamInit, StreamTypeOK
<1>3. \A a \in Actions : cmd[a] = NotStreaming /\ console[a] = Nothing /\ wiped[a] = Nothing
  BY DEF StreamInit
<1> QED BY <1>2, <1>3, NewCommand DEF StreamInv

(* A click takes what the others show from the panel, and forgets nothing.    *)
LEMMA StartStep ==
  ASSUME StreamInv, NEW a \in Actions, StartAnond(a) PROVE StreamInv'
<1>1. PICK c \in {Started, NotStarted} : cmd' = [cmd EXCEPT ![a] = c]
  BY DEF StartAnond
<1>2. Nothing \in [Pipes -> Nat] /\ \A p \in Pipes : Nothing[p] = 0
  BY DEF Nothing
<1>3. c \in Streaming /\ Conserved(c, Nothing, Nothing) /\ WorkerAt(c)
  BY NewCommand
<1>4. /\ console' = [b \in Actions |-> Nothing]
      /\ wiped' = [b \in Actions |-> IF b = a THEN Nothing
                                     ELSE [p \in Pipes |-> wiped[b][p] + console[b][p]]]
  BY DEF StartAnond
<1>5. StreamTypeOK'
  <2>1. cmd' \in [Actions -> Streaming]
    BY <1>1, <1>3 DEF StreamInv, StreamTypeOK
  <2>2. ASSUME NEW b \in Actions PROVE [p \in Pipes |-> wiped[b][p] + console[b][p]] \in [Pipes -> Nat]
    BY StreamFacts
  <2>3. wiped' \in [Actions -> [Pipes -> Nat]] /\ console' \in [Actions -> [Pipes -> Nat]]
    BY <1>2, <1>4, <2>2
  <2> QED BY <2>1, <2>3 DEF StreamTypeOK
<1>6. ASSUME NEW b \in Actions PROVE Conserved(cmd'[b], console'[b], wiped'[b]) /\ WorkerAt(cmd'[b])
  <2>1. CASE b = a
    <3>1. cmd'[b] = c /\ console'[b] = Nothing /\ wiped'[b] = Nothing
      BY <1>1, <1>4, <2>1 DEF StreamInv, StreamTypeOK
    <3> QED BY <1>3, <3>1
  <2>2. CASE b # a
    <3>1. cmd'[b] = cmd[b] /\ console'[b] = Nothing
          /\ \A p \in Pipes : wiped'[b][p] = wiped[b][p] + console[b][p]
      BY <1>1, <1>4, <2>2 DEF StreamInv, StreamTypeOK
    <3>2. Conserved(cmd[b], Nothing, wiped'[b])
      <4> SUFFICES ASSUME NEW p \in Pipes
                   PROVE  cmd[b].printed[p] = cmd[b].piped[p] + LinesIn(cmd[b].sent, p) + 0 + wiped'[b][p]
        BY <1>2 DEF Conserved
      <4>1. /\ LinesIn(cmd[b].sent, p) \in Nat /\ cmd[b].piped[p] \in Int
            /\ console[b][p] \in Nat /\ wiped[b][p] \in Nat
            /\ cmd[b].printed[p] = cmd[b].piped[p] + LinesIn(cmd[b].sent, p) + console[b][p] + wiped[b][p]
        BY StreamFacts DEF Conserved
      <4> QED BY <3>1, <4>1
    <3> QED BY <3>1, <3>2 DEF StreamInv
  <2> QED BY <2>1, <2>2
<1> QED BY <1>5, <1>6 DEF StreamInv

LEMMA DrainStep ==
  ASSUME StreamInv, NEW a \in Actions, NEW p \in Pipes, NEW next, Drain(a, p, next),
         \/ p = "out" /\ next = "err"
         \/ p = "err" /\ next = "wait"
  PROVE  StreamInv'
<1> DEFINE c == cmd[a]
<1>t. /\ c \in Streaming /\ c.sent \in Seq(Pipes) /\ Conserved(c, console[a], wiped[a]) /\ WorkerAt(c)
      /\ \A q \in Pipes : /\ LinesIn(c.sent, q) \in Nat /\ c.piped[q] \in 0 .. Capacity
                          /\ c.printed[q] \in Nat /\ console[a][q] \in Nat /\ wiped[a][q] \in Nat
      /\ Capacity \in Nat \ {0} /\ c.worker = p /\ UNCHANGED panelVars
      /\ c.piped \in [Pipes -> 0 .. Capacity]
  BY StreamFacts DEF Drain, Streaming
<1> HIDE DEF c
<1>1. CASE c.piped[p] > 0 /\ cmd' = [cmd EXCEPT ![a].piped[p] = @ - 1, ![a].sent = Append(@, p)]
  <2> DEFINE d == [c EXCEPT !.piped[p] = @ - 1, !.sent = Append(@, p)]
  <2>1. cmd' = [cmd EXCEPT ![a] = d]
    BY <1>1 DEF c
  <2>2. /\ d.piped = [c.piped EXCEPT ![p] = @ - 1] /\ d.sent = Append(c.sent, p)
        /\ d.printed = c.printed /\ d.child = c.child /\ d.worker = p
    BY <1>t DEF Streaming
  <2>3. d.piped \in [Pipes -> 0 .. Capacity] /\ d.sent \in Seq(Pipes)
    BY <1>1, <1>t, <2>2
  <2>4. d \in Streaming
    BY <1>t, <2>2, <2>3 DEF Streaming
  <2> HIDE DEF d
  <2>5. Conserved(d, console[a], wiped[a])
    <3> SUFFICES ASSUME NEW q \in Pipes
                 PROVE  d.printed[q] = d.piped[q] + LinesIn(d.sent, q) + console[a][q] + wiped[a][q]
      BY DEF Conserved
    <3>1. LinesIn(d.sent, q) = LinesIn(c.sent, q) + (IF q = p THEN 1 ELSE 0)
      BY <1>t, <2>2, LinesInAppend
    <3>2. d.piped[q] = (IF q = p THEN c.piped[q] - 1 ELSE c.piped[q])
      BY <1>t, <2>2
    <3>3. c.printed[q] = c.piped[q] + LinesIn(c.sent, q) + console[a][q] + wiped[a][q]
      BY <1>t DEF Conserved
    <3>4. /\ c.piped[q] \in Int /\ LinesIn(c.sent, q) \in Int
          /\ console[a][q] \in Int /\ wiped[a][q] \in Int
      BY <1>t
    <3>5. d.printed[q] = c.printed[q]
      BY <2>2
    <3> QED BY <3>1, <3>2, <3>3, <3>4, <3>5
  <2>6. WorkerAt(d)
    BY <1>1, <1>t, <2>2 DEF WorkerAt
  <2> QED BY <1>t, <2>1, <2>4, <2>5, <2>6, QuietCommand
<1>2. CASE c.piped[p] = 0 /\ c.child = "ended" /\ cmd' = [cmd EXCEPT ![a].worker = next]
  <2> DEFINE d == [c EXCEPT !.worker = next]
  <2>1. cmd' = [cmd EXCEPT ![a] = d]
    BY <1>2 DEF c
  <2>2. d \in Streaming /\ d.piped = c.piped /\ d.sent = c.sent /\ d.printed = c.printed
        /\ d.child = c.child /\ d.worker = next
    BY <1>t DEF Streaming
  <2>3. Conserved(d, console[a], wiped[a])
    BY <1>t, <2>2 DEF Conserved
  <2>4. WorkerAt(d)
    BY <1>2, <1>t, <2>2 DEF WorkerAt, Nothing, Pipes
  <2> HIDE DEF d
  <2> QED BY <1>t, <2>1, <2>2, <2>3, <2>4, QuietCommand
<1> QED BY <1>1, <1>2 DEF Drain, c

(* A step that moves no line of the command.                                  *)
LEMMA StillStep ==
  ASSUME StreamInv, NEW a \in Actions,
         Ends(a) \/ Signalled(a) \/ Reap(a) \/ Answer(a) \/ \E p \in Pipes : Writes(a, p)
  PROVE  /\ StreamInv' /\ UNCHANGED panelVars
         /\ cmd' = [cmd EXCEPT ![a] = cmd'[a]] /\ cmd'[a].printed = cmd[a].printed
<1> DEFINE c == cmd[a]
<1>t. c \in Streaming /\ Conserved(c, console[a], wiped[a]) /\ WorkerAt(c)
  BY StreamFacts
<1>1. PICK d \in Streaming :
        /\ cmd' = [cmd EXCEPT ![a] = d] /\ WorkerAt(d)
        /\ d.piped = c.piped /\ d.sent = c.sent /\ d.printed = c.printed
  <2>1. CASE Ends(a)
    <3> DEFINE d == [c EXCEPT !.child = "ended"]
    <3>1. d \in Streaming /\ WorkerAt(d) /\ cmd' = [cmd EXCEPT ![a] = d]
      BY <2>1, <1>t DEF Ends, WorkerAt, Streaming
    <3> QED BY <3>1, <1>t DEF Streaming
  <2>2. CASE Signalled(a)
    <3> DEFINE d == [c EXCEPT !.child = "ended", !.writing = "none"]
    <3>1. d \in Streaming /\ WorkerAt(d) /\ cmd' = [cmd EXCEPT ![a] = d]
      BY <2>2, <1>t DEF Signalled, WorkerAt, Streaming
    <3> QED BY <3>1, <1>t DEF Streaming
  <2>3. CASE Reap(a)
    <3> DEFINE d == [c EXCEPT !.worker = "closed"]
    <3>1. d \in Streaming /\ WorkerAt(d) /\ cmd' = [cmd EXCEPT ![a] = d]
      BY <2>3, <1>t DEF Reap, WorkerAt, Streaming
    <3> QED BY <3>1, <1>t DEF Streaming
  <2>4. CASE Answer(a)
    <3> DEFINE d == [c EXCEPT !.worker = "idle"]
    <3>1. d \in Streaming /\ WorkerAt(d) /\ cmd' = [cmd EXCEPT ![a] = d]
      BY <2>4, <1>t DEF Answer, Finished, WorkerAt, Streaming
    <3> QED BY <3>1, <1>t DEF Streaming
  <2>5. ASSUME NEW p \in Pipes, Writes(a, p)
        PROVE  \E d \in Streaming :
                 /\ cmd' = [cmd EXCEPT ![a] = d] /\ WorkerAt(d)
                 /\ d.piped = c.piped /\ d.sent = c.sent /\ d.printed = c.printed
    <3> DEFINE d == [c EXCEPT !.writing = p]
    <3>1. d \in Streaming /\ WorkerAt(d) /\ cmd' = [cmd EXCEPT ![a] = d]
      BY <2>5, <1>t DEF Writes, WorkerAt, Streaming
    <3> QED BY <3>1, <1>t DEF Streaming
  <2> QED BY <2>1, <2>2, <2>3, <2>4, <2>5
<1>2. Conserved(d, console[a], wiped[a]) /\ UNCHANGED panelVars
  BY <1>t, <1>1 DEF Conserved, Ends, Signalled, Reap, Answer, Writes
<1>3. cmd'[a] = d
  BY <1>1 DEF StreamInv, StreamTypeOK
<1> QED BY <1>1, <1>2, <1>3, QuietCommand

LEMMA WrittenStep ==
  ASSUME StreamInv, NEW a \in Actions, NEW p \in Pipes,
         cmd[a].child = "running", cmd[a].writing = p, cmd[a].piped[p] < Capacity,
         cmd' = [cmd EXCEPT ![a].writing = "none", ![a].piped[p] = @ + 1, ![a].printed[p] = @ + 1],
         UNCHANGED panelVars
  PROVE  StreamInv'
<1> DEFINE c == cmd[a]
           d == [c EXCEPT !.writing = "none", !.piped[p] = @ + 1, !.printed[p] = @ + 1]
<1>t. /\ c \in Streaming /\ Conserved(c, console[a], wiped[a]) /\ WorkerAt(c)
      /\ \A q \in Pipes : /\ LinesIn(c.sent, q) \in Nat /\ c.piped[q] \in 0 .. Capacity
                          /\ c.printed[q] \in Nat /\ console[a][q] \in Nat /\ wiped[a][q] \in Nat
      /\ Capacity \in Nat \ {0}
  BY StreamFacts
<1>1. cmd' = [cmd EXCEPT ![a] = d]
  OBVIOUS
<1> HIDE DEF c
<1>2. /\ d.piped = [c.piped EXCEPT ![p] = @ + 1] /\ d.printed = [c.printed EXCEPT ![p] = @ + 1]
      /\ d.sent = c.sent /\ d.child = c.child /\ d.worker = c.worker
  BY <1>t DEF Streaming
<1>3. d.piped \in [Pipes -> 0 .. Capacity] /\ d.printed \in [Pipes -> Nat]
  BY <1>t, <1>2 DEF Streaming, c
<1>4. d \in Streaming
  BY <1>t, <1>3 DEF Streaming
<1> HIDE DEF d
<1>5. Conserved(d, console[a], wiped[a])
  <2> SUFFICES ASSUME NEW q \in Pipes
               PROVE  d.printed[q] = d.piped[q] + LinesIn(d.sent, q) + console[a][q] + wiped[a][q]
    BY DEF Conserved
  <2>1. /\ c.piped[q] \in Int /\ LinesIn(c.sent, q) \in Int /\ c.printed[q] \in Int
        /\ console[a][q] \in Int /\ wiped[a][q] \in Int
        /\ c.piped \in [Pipes -> 0 .. Capacity] /\ c.printed \in [Pipes -> Nat]
    BY <1>t DEF Streaming
  <2>2. c.printed[q] = c.piped[q] + LinesIn(c.sent, q) + console[a][q] + wiped[a][q]
    BY <1>t DEF Conserved
  <2>3. /\ d.piped[q] = (IF q = p THEN c.piped[q] + 1 ELSE c.piped[q])
        /\ d.printed[q] = (IF q = p THEN c.printed[q] + 1 ELSE c.printed[q])
        /\ d.sent = c.sent
    BY <1>2, <2>1
  <2> QED BY <2>1, <2>2, <2>3
<1>6. WorkerAt(d)
  BY <1>t, <1>2 DEF WorkerAt, c
<1> QED BY <1>1, <1>4, <1>5, <1>6, QuietCommand

LEMMA EmitStep ==
  ASSUME StreamInv, NEW a \in Actions, Emit(a)
  PROVE  /\ StreamInv' /\ Head(cmd[a].sent) \in Pipes /\ cmd[a].worker # "idle"
         /\ LET p == Head(cmd[a].sent) IN console[a][p] + wiped[a][p] < cmd[a].printed[p]
<1> DEFINE c == cmd[a]
           p == Head(c.sent)
           d == [c EXCEPT !.sent = Tail(@)]
           s == [console[a] EXCEPT ![p] = @ + 1]
<1>t. /\ c \in Streaming /\ c.sent \in Seq(Pipes) /\ Conserved(c, console[a], wiped[a]) /\ WorkerAt(c)
      /\ console \in [Actions -> [Pipes -> Nat]]
      /\ \A q \in Pipes : /\ LinesIn(c.sent, q) \in Nat /\ c.piped[q] \in 0 .. Capacity
                          /\ c.printed[q] \in Nat /\ console[a][q] \in Nat /\ wiped[a][q] \in Nat
      /\ Capacity \in Nat \ {0}
  BY StreamFacts
<1>1. /\ c.sent # <<>> /\ wiped' = wiped
      /\ cmd' = [cmd EXCEPT ![a] = d] /\ console' = [console EXCEPT ![a] = s]
  BY DEF Emit
<1> HIDE DEF c
<1>2. p \in Pipes /\ Tail(c.sent) \in Seq(Pipes)
  BY <1>1, <1>t, HeadTailProperties
<1>3. d \in Streaming /\ d.sent = Tail(c.sent) /\ d.piped = c.piped /\ d.printed = c.printed
      /\ d.child = c.child /\ d.worker = c.worker
  BY <1>t, <1>2 DEF Streaming
<1>4. s \in [Pipes -> Nat] /\ \A q \in Pipes : s[q] = IF q = p THEN console[a][q] + 1 ELSE console[a][q]
  <2>1. console[a] \in [Pipes -> Nat]
    BY <1>t
  <2> DEFINE f == console[a]
  <2> HIDE DEF p, f
  <2>2. f \in [Pipes -> Nat] /\ s = [f EXCEPT ![p] = @ + 1]
    BY <2>1 DEF f
  <2> HIDE DEF s
  <2>3. \A q \in Pipes : s[q] = IF q = p THEN f[q] + 1 ELSE f[q]
    BY <2>2
  <2>4. s \in [Pipes -> Nat]
    BY <1>2, <2>2
  <2> QED BY <2>3, <2>4 DEF f
<1> HIDE DEF d, s
<1>5. \A q \in Pipes : /\ LinesIn(c.sent, q) = LinesIn(Tail(c.sent), q) + (IF q = p THEN 1 ELSE 0)
                       /\ LinesIn(Tail(c.sent), q) \in Nat
  BY <1>1, <1>t, <1>2, LinesInTail, LinesInType
<1>6. ASSUME NEW q \in Pipes
      PROVE  c.printed[q] = c.piped[q] + LinesIn(c.sent, q) + console[a][q] + wiped[a][q]
  BY <1>t DEF Conserved
<1>7. Conserved(d, s, wiped[a])
  <2> SUFFICES ASSUME NEW q \in Pipes
               PROVE  d.printed[q] = d.piped[q] + LinesIn(d.sent, q) + s[q] + wiped[a][q]
    BY DEF Conserved
  <2> HIDE DEF p
  <2>1. /\ c.piped[q] \in Int /\ console[a][q] \in Int /\ wiped[a][q] \in Int
        /\ LinesIn(Tail(c.sent), q) \in Int
        /\ LinesIn(c.sent, q) = LinesIn(Tail(c.sent), q) + (IF q = p THEN 1 ELSE 0)
        /\ s[q] = IF q = p THEN console[a][q] + 1 ELSE console[a][q]
    BY <1>t, <1>4, <1>5
  <2> QED BY <1>3, <1>6, <2>1
<1>8. WorkerAt(d) /\ c.worker # "idle"
  BY <1>1, <1>t, <1>3 DEF WorkerAt
<1>9. StreamInv'
  BY <1>1, <1>3, <1>4, <1>7, <1>8, OneCommand
<1>10. console[a][p] + wiped[a][p] < c.printed[p]
  <2> HIDE DEF p
  <2>1. /\ c.piped[p] \in Nat /\ console[a][p] \in Nat /\ wiped[a][p] \in Nat
        /\ LinesIn(Tail(c.sent), p) \in Nat /\ LinesIn(c.sent, p) = LinesIn(Tail(c.sent), p) + 1
    BY <1>t, <1>2, <1>5
  <2> QED BY <1>2, <1>6, <2>1
<1> QED BY <1>2, <1>8, <1>9, <1>10 DEF c

LEMMA NextStream == StreamInv /\ [StreamNext]_streamVars => StreamInv'
<1> SUFFICES ASSUME StreamInv, [StreamNext]_streamVars PROVE StreamInv'
  OBVIOUS
<1>1. ASSUME NEW a \in Actions, DrainPipes(a) PROVE StreamInv'
  <2>1. Drain(a, "out", "err") \/ Drain(a, "err", "wait")
    BY <1>1 DEF DrainPipes, Order
  <2> QED BY <2>1, DrainStep DEF Pipes
<1>2. ASSUME NEW a \in Actions, Written(a) PROVE StreamInv'
  BY <1>2, WrittenStep DEF Written
<1>3. CASE UNCHANGED streamVars
  BY <1>3 DEF streamVars, panelVars, StreamInv, StreamTypeOK
<1> QED
  BY <1>1, <1>2, <1>3, StartStep, StillStep, EmitStep DEF StreamNext, ChildGoesOn, PanelGoesOn

(* What anond printed has been in the panel when the worker is done and the   *)
(* channel is empty.                                                          *)
LEMMA NothingLost ==
  ASSUME StreamInv, NEW a \in Actions, Finished(a) PROVE AllShown(a)
<1> SUFFICES ASSUME NEW p \in Pipes PROVE console[a][p] + wiped[a][p] = cmd[a].printed[p]
  BY DEF AllShown
<1>1. cmd[a].piped[p] = 0 /\ LinesIn(cmd[a].sent, p) = 0
  BY LinesInEmpty DEF StreamInv, WorkerAt, Finished, Nothing
<1> QED BY <1>1, StreamFacts DEF Conserved

(* Each step of the stream is a step of the promise, or invisible to it.      *)
LEMMA StreamImplements ==
  StreamInv /\ [StreamNext]_streamVars => [Promise!Next]_(Promise!vars)
<1> SUFFICES ASSUME StreamInv, [StreamNext]_streamVars PROVE [Promise!Next]_(Promise!vars)
  OBVIOUS
<1> DEFINE Busy == {b \in Actions : cmd[b].worker # "idle"}
           Printed1 == [b \in Actions |-> cmd[b].printed]
<1>t. cmd \in [Actions -> Streaming] /\ console \in [Actions -> [Pipes -> Nat]]
  BY DEF StreamInv, StreamTypeOK
<1>1. ASSUME NEW a \in Actions, StartAnond(a) PROVE Promise!Open(a)
  <2>1. PICK c \in {Started, NotStarted} : cmd' = [cmd EXCEPT ![a] = c]
    BY <1>1 DEF StartAnond
  <2>2. /\ c.worker # "idle" /\ "out" \in Pipes
        /\ c.printed = Nothing \/ c.printed = [Nothing EXCEPT !["out"] = 1]
    BY DEF Started, NotStarted, NotStreaming, Order, Pipes
  <2>3. a \notin Busy /\ Busy' = Busy \cup {a} /\ Printed1' = [Printed1 EXCEPT ![a] = c.printed]
    BY <1>1, <1>t, <2>1, <2>2 DEF StartAnond
  <2>4. c.printed \in {Nothing} \cup {[Nothing EXCEPT ![p] = 1] : p \in Pipes}
    BY <2>2
  <2> QED BY <1>1, <2>3, <2>4 DEF StartAnond, Promise!Open, Promise!Blank, Promise!AllBlank, Nothing
<1>2. ASSUME NEW a \in Actions, Written(a) PROVE \E p \in Pipes : Promise!Say(a, p)
  <2>1. PICK p \in Pipes :
          /\ cmd[a].child = "running" /\ UNCHANGED panelVars
          /\ cmd' = [cmd EXCEPT ![a].writing = "none", ![a].piped[p] = @ + 1, ![a].printed[p] = @ + 1]
    BY <1>2 DEF Written
  <2>2. a \in Busy
    BY <2>1 DEF StreamInv, WorkerAt
  <2>3. Busy' = Busy
    BY <1>t, <2>1 DEF Streaming
  <2>4. Printed1' = [Printed1 EXCEPT ![a][p] = @ + 1]
    BY <1>t, <2>1 DEF Streaming
  <2>5. Promise!Say(a, p)
    BY <2>1, <2>2, <2>3, <2>4 DEF Promise!Say, panelVars
  <2> QED BY <2>5
<1>3. ASSUME NEW a \in Actions, Emit(a) PROVE \E p \in Pipes : Promise!Show(a, p)
  <2> DEFINE p == Head(cmd[a].sent)
  <2>1. p \in Pipes /\ a \in Busy /\ console[a][p] + wiped[a][p] < cmd[a].printed[p]
    BY <1>3, EmitStep
  <2>2. /\ cmd' = [cmd EXCEPT ![a].sent = Tail(@)] /\ UNCHANGED wiped
        /\ console' = [console EXCEPT ![a][p] = @ + 1]
    BY <1>3 DEF Emit
  <2> HIDE DEF p
  <2>3. Busy' = Busy /\ Printed1' = Printed1
    BY <1>t, <2>2 DEF Streaming
  <2>4. Promise!Show(a, p)
    BY <2>1, <2>2, <2>3 DEF Promise!Show
  <2> QED BY <2>1, <2>4
<1>4. ASSUME NEW a \in Actions, Answer(a) PROVE Promise!Close(a)
  <2>1. Finished(a) /\ cmd' = [cmd EXCEPT ![a].worker = "idle"] /\ UNCHANGED panelVars
    BY <1>4 DEF Answer
  <2>2. a \in Busy /\ Busy' = Busy \ {a} /\ Printed1' = Printed1
    BY <1>t, <2>1 DEF Streaming, Finished
  <2>3. \A p \in Pipes : console[a][p] + wiped[a][p] = Printed1[a][p]
    BY <2>1, NothingLost DEF AllShown
  <2> QED BY <2>1, <2>2, <2>3 DEF Promise!Close, panelVars
<1>5. ASSUME NEW a \in Actions,
             Ends(a) \/ Signalled(a) \/ Reap(a) \/ DrainPipes(a) \/ \E p \in Pipes : Writes(a, p)
      PROVE  UNCHANGED Promise!vars
  <2> DEFINE Same == \A b \in Actions : /\ cmd'[b].printed = cmd[b].printed
                                        /\ cmd'[b].worker = "idle" <=> cmd[b].worker = "idle"
  <2>0. ASSUME Same, UNCHANGED panelVars PROVE UNCHANGED Promise!vars
    <3>1. Busy' = Busy /\ Printed1' = Printed1
      BY <2>0
    <3> QED BY <2>0, <3>1 DEF Promise!vars, panelVars
  <2>1. CASE Ends(a) \/ Signalled(a) \/ Reap(a) \/ \E p \in Pipes : Writes(a, p)
    <3>1. CASE Ends(a)
      BY <1>t, <2>0, <3>1 DEF Ends, Streaming
    <3>2. CASE Signalled(a)
      BY <1>t, <2>0, <3>2 DEF Signalled, Streaming
    <3>3. CASE Reap(a)
      BY <1>t, <2>0, <3>3 DEF Reap, Streaming
    <3>4. CASE \E p \in Pipes : Writes(a, p)
      BY <1>t, <2>0, <3>4 DEF Writes, Streaming
    <3> QED BY <2>1, <3>1, <3>2, <3>3, <3>4
  <2>2. ASSUME NEW p \in Pipes, NEW next \in {"err", "wait"}, Drain(a, p, next)
        PROVE  UNCHANGED Promise!vars
    <3>1. UNCHANGED panelVars /\ cmd[a].worker # "idle"
      BY <2>2 DEF Drain, Pipes
    <3>2. CASE cmd' = [cmd EXCEPT ![a].piped[p] = @ - 1, ![a].sent = Append(@, p)]
      BY <1>t, <2>0, <3>1, <3>2 DEF Streaming
    <3>3. CASE cmd' = [cmd EXCEPT ![a].worker = next]
      BY <1>t, <2>0, <3>1, <3>3 DEF Streaming
    <3> QED BY <2>2, <3>2, <3>3 DEF Drain
  <2>3. DrainPipes(a) => Drain(a, "out", "err") \/ Drain(a, "err", "wait")
    BY DEF DrainPipes, Order
  <2> QED BY <1>5, <2>1, <2>2, <2>3 DEF Pipes
<1>6. CASE UNCHANGED streamVars
  BY <1>6 DEF streamVars, panelVars, Promise!vars
<1> QED
  BY <1>1, <1>2, <1>3, <1>4, <1>5, <1>6
     DEF StreamNext, ChildGoesOn, PanelGoesOn, Promise!Next

(* Every line anond prints reaches the panel once, and the action returns     *)
(* only after the last of them, whatever the capacity of a pipe, however much *)
(* anond prints, wherever it is killed and however many actions stream at     *)
(* once; a later click may remove lines from the panel.                       *)
THEOREM RelaysHolds == StreamSpec => Relays
<1>1. StreamInit => Promise!Init
  BY DEF StreamInit, NotStreaming, Promise!Init, Promise!Blank, Promise!AllBlank, Nothing
<1>2. StreamInit => StreamInv
  BY InitStream
<1> QED BY <1>1, <1>2, NextStream, StreamImplements, PTL DEF StreamSpec, Relays, Promise!Spec

-----------------------------------------------------------------------------
(* Listings: the tables are folds and sorts, so what the model defines by a   *)
(* CHOOSE has to be shown to exist before anything can be said of it.         *)

(* The least number of a set, and induction over a set of numbers.            *)
LEMMA LeastNat ==
  ASSUME NEW T \in SUBSET Nat, T # {}
  PROVE  \E m \in T : \A k \in T : m <= k
<1>1. PICK m \in T : \A k \in T : <<k, m>> \notin OpToRel(<, Nat)
  BY WFMin, NatLessThanWellFounded
<1>2. \A k \in T : ~(k < m)
  BY <1>1, Zenon DEF OpToRel
<1> QED BY <1>2

LEMMA Induct ==
  ASSUME NEW N \in Nat, NEW S, 0 \in S, \A n \in 0 .. N : n \in S /\ n < N => n + 1 \in S
  PROVE  \A n \in 0 .. N : n \in S
<1> SUFFICES ASSUME NEW n \in 0 .. N, n \notin S PROVE FALSE
  OBVIOUS
<1> DEFINE T == {k \in 0 .. N : k \notin S}
<1>1. T \in SUBSET Nat /\ n \in T
  OBVIOUS
<1>2. PICK m \in T : \A k \in T : m <= k
  BY <1>1, LeastNat
<1>3. m # 0 /\ m - 1 \in 0 .. N /\ m - 1 \notin T
  BY <1>2
<1>4. m - 1 \in S /\ m - 1 < N
  BY <1>3
<1> QED BY <1>2, <1>4

-----------------------------------------------------------------------------
(* The greatest of a set of numbers: Max is defined by a CHOOSE.              *)
LEMMA MaxIsLast ==
  ASSUME NEW n \in Nat, NEW s \in SUBSET (1 .. n), n \in s
  PROVE  Max(s) = n
<1>1. \A y \in s : n >= y
  OBVIOUS
<1>2. \E x \in s : \A y \in s : x >= y
  BY <1>1
<1>3. Max(s) \in s /\ \A y \in s : Max(s) >= y
  BY <1>2, Zenon DEF Max
<1>4. Max(s) \in 1 .. n
  BY <1>3
<1>5. Max(s) >= n
  BY <1>3
<1> QED BY <1>4, <1>5

LEMMA MaxIsIn ==
  ASSUME NEW N \in Nat, NEW s \in SUBSET (1 .. N), s # {}
  PROVE  Max(s) \in 1 .. N
<1> DEFINE T == {k \in 0 .. N : N - k \in s}
<1>1. PICK e \in s : TRUE
  OBVIOUS
<1>2. N - e \in T
  BY <1>1
<1>3. PICK m \in T : \A k \in T : m <= k
  <2>1. T \in SUBSET Nat
    OBVIOUS
  <2> HIDE DEF T
  <2> QED BY <1>2, <2>1, LeastNat
<1>4. m \in 0 .. N /\ N - m \in s
  BY <1>3
<1>5. ASSUME NEW y \in s PROVE N - m >= y
  <2>1. y \in 1 .. N /\ N - (N - y) = y
    OBVIOUS
  <2>2. N - y \in T
    BY <2>1
  <2>3. m <= N - y
    BY <1>3, <2>2
  <2> QED BY <1>4, <2>1, <2>3
<1>6. \E x \in s : \A y \in s : x >= y
  BY <1>4, <1>5
<1>7. Max(s) \in s
  BY <1>6, Zenon DEF Max
<1> QED BY <1>7

(* A fold over the subsets of 1 .. N, the last element last, exists.          *)
IsFold(g, n, base, step) ==
  \A s \in SUBSET (1 .. n) :
    g[s] = IF s = {} THEN base ELSE step[<<g[s \ {Max(s)}], Max(s)>>]

LEMMA FoldExists ==
  ASSUME NEW N \in Nat, NEW V, NEW base \in V, NEW step \in [V \X (1 .. N) -> V]
  PROVE  \E g \in [SUBSET (1 .. N) -> V] : IsFold(g, N, base, step)
<1> DEFINE Folds(n, g) == IsFold(g, n, base, step)
           T == {n \in 0 .. N : \E g \in [SUBSET (1 .. n) -> V] : Folds(n, g)}
<1>1. 0 \in T
  <2> DEFINE g == [s \in SUBSET (1 .. 0) |-> base]
  <2>1. g \in [SUBSET (1 .. 0) -> V] /\ \A s \in SUBSET (1 .. 0) : s = {}
    OBVIOUS
  <2>2. ASSUME NEW s \in SUBSET (1 .. 0)
        PROVE  g[s] = IF s = {} THEN base ELSE step[<<g[s \ {Max(s)}], Max(s)>>]
    <3>1. s = {} /\ g[s] = base
      BY <2>1
    <3> QED BY <3>1
  <2>3. Folds(0, g)
    BY <2>2 DEF IsFold
  <2>4. 0 \in 0 .. N
    OBVIOUS
  <2> HIDE DEF g, Folds
  <2>5. \E f \in [SUBSET (1 .. 0) -> V] : Folds(0, f)
    BY <2>1, <2>3, Zenon
  <2> QED BY <2>4, <2>5, Zenon
<1>2. ASSUME NEW n \in 0 .. N, n \in T, n < N PROVE n + 1 \in T
  <2>1. PICK g \in [SUBSET (1 .. n) -> V] : Folds(n, g)
    BY <1>2
  <2> DEFINE h == [s \in SUBSET (1 .. n + 1) |->
                     IF n + 1 \in s THEN step[<<g[s \ {n + 1}], n + 1>>] ELSE g[s]]
  <2>2. \A s \in SUBSET (1 .. n + 1) : s \ {n + 1} \in SUBSET (1 .. n)
    OBVIOUS
  <2>3. \A s \in SUBSET (1 .. n + 1) : n + 1 \notin s => s \in SUBSET (1 .. n)
    OBVIOUS
  <2>4. n + 1 \in 1 .. N
    BY <1>2
  <2>5. h \in [SUBSET (1 .. n + 1) -> V]
    <3> SUFFICES ASSUME NEW s \in SUBSET (1 .. n + 1) PROVE h[s] \in V
      OBVIOUS
    <3>1. CASE n + 1 \in s
      <4>1. g[s \ {n + 1}] \in V
        BY <2>2
      <4>2. <<g[s \ {n + 1}], n + 1>> \in V \X (1 .. N)
        BY <2>4, <4>1
      <4> QED BY <3>1, <4>2
    <3>2. CASE n + 1 \notin s
      BY <2>3, <3>2
    <3> QED BY <3>1, <3>2
  <2>6. ASSUME NEW s \in SUBSET (1 .. n) PROVE h[s] = g[s]
    <3>1. n + 1 \notin s /\ s \in SUBSET (1 .. n + 1)
      BY <1>2
    <3> QED BY <3>1
  <2>7. ASSUME NEW s \in SUBSET (1 .. n + 1)
        PROVE  h[s] = IF s = {} THEN base ELSE step[<<h[s \ {Max(s)}], Max(s)>>]
    <3>1. CASE n + 1 \in s
      <4>1. Max(s) = n + 1
        BY <1>2, <3>1, MaxIsLast
      <4>2. h[s \ {n + 1}] = g[s \ {n + 1}]
        BY <2>2, <2>6
      <4> QED BY <3>1, <4>1, <4>2
    <3>2. CASE n + 1 \notin s
      <4>1. s \in SUBSET (1 .. n) /\ s \ {Max(s)} \in SUBSET (1 .. n)
        BY <2>3, <3>2
      <4>2. h[s] = g[s] /\ h[s \ {Max(s)}] = g[s \ {Max(s)}]
        BY <2>6, <4>1
      <4> QED BY <2>1, <4>1, <4>2 DEF IsFold
    <3> QED BY <3>1, <3>2
  <2> HIDE DEF h
  <2>8. Folds(n + 1, h)
    BY <2>7 DEF IsFold
  <2> HIDE DEF Folds
  <2> QED BY <1>2, <2>5, <2>8
<1> HIDE DEF T
<1>3. N \in T
  BY <1>1, <1>2, Induct
<1> QED BY <1>3 DEF T

-----------------------------------------------------------------------------
Kept(kept, r) == IF kept # <<>> /\ SameService(Last(kept), r) THEN kept ELSE Append(kept, r)

DedupFold(rows) ==
  LET iter[s \in SUBSET DOMAIN rows] ==
        IF s = {} THEN <<>>
        ELSE LET x == Max(s)
             IN  IF iter[s \ {x}] # <<>> /\ SameService(Last(iter[s \ {x}]), rows[x])
                 THEN iter[s \ {x}] ELSE Append(iter[s \ {x}], rows[x])
  IN  iter

(* FoldLeft is a function on the sets of places; it is the one its equation   *)
(* describes, because one such function exists.                               *)
LEMMA DedupIsFold ==
  ASSUME NEW rows PROVE Dedup(rows) = DedupFold(rows)[DOMAIN rows]
BY DEF Dedup, FoldLeft, MapThenFoldSet, DedupFold

LEMMA DedupFolds ==
  ASSUME NEW N \in Nat, NEW rows \in [1 .. N -> Socket], NEW s \in SUBSET (1 .. N)
  PROVE  DedupFold(rows)[s] = IF s = {} THEN <<>>
                              ELSE Kept(DedupFold(rows)[s \ {Max(s)}], rows[Max(s)])
<1> DEFINE V == Seq(Socket)
           step == [c \in V \X (1 .. N) |-> Kept(c[1], rows[c[2]])]
           Eq(h) == h = [t \in SUBSET DOMAIN rows |-> IF t = {} THEN <<>> ELSE Kept(h[t \ {Max(t)}], rows[Max(t)])]
<1>1. step \in [V \X (1 .. N) -> V]
  <2>1. ASSUME NEW K \in V, NEW n \in 1 .. N PROVE Kept(K, rows[n]) \in V
    <3>1. rows[n] \in Socket
      OBVIOUS
    <3> QED BY <3>1 DEF Kept
  <2> HIDE DEF V
  <2> QED BY <2>1
<1>2. <<>> \in V
  OBVIOUS
<1> HIDE DEF V
<1>3. PICK g \in [SUBSET (1 .. N) -> V] : IsFold(g, N, <<>>, step)
  <2> HIDE DEF step
  <2> QED BY <1>1, <1>2, FoldExists
<1>4. ASSUME NEW t \in SUBSET (1 .. N)
      PROVE  g[t] = IF t = {} THEN <<>> ELSE Kept(g[t \ {Max(t)}], rows[Max(t)])
  <2>1. CASE t = {}
    BY <1>3, <2>1 DEF IsFold
  <2>2. CASE t # {}
    <3>1. Max(t) \in 1 .. N
      BY <2>2, MaxIsIn
    <3>2. g[t \ {Max(t)}] \in V
      OBVIOUS
    <3>3. step[<<g[t \ {Max(t)}], Max(t)>>] = Kept(g[t \ {Max(t)}], rows[Max(t)])
      BY <3>1, <3>2
    <3> QED BY <1>3, <2>2, <3>3 DEF IsFold
  <2> QED BY <2>1, <2>2
<1>5. DOMAIN rows = 1 .. N
  OBVIOUS
<1>6. Eq(g)
  <2> HIDE DEF Kept
  <2> QED BY <1>4, <1>5
<1>7. DedupFold(rows) = CHOOSE h : Eq(h)
  BY DEF DedupFold, Kept
<1>8. Eq(DedupFold(rows))
  <2> HIDE DEF Eq
  <2> QED BY <1>6, <1>7
<1> QED BY <1>5, <1>8

(* What is kept of the first n rows: some of them, in their order, the first  *)
(* of each service among them, and no service twice in a row.                 *)
Keeps(K, rows, n, f) ==
  /\ K \in Seq(Socket) /\ f \in [1 .. Len(K) -> 1 .. n]
  /\ \A k \in 1 .. Len(K) : K[k] = rows[f[k]]
  /\ \A k, l \in 1 .. Len(K) : k < l => f[k] < f[l]
  /\ \A k, l \in 1 .. Len(K) : l = k + 1 => ~SameService(K[k], K[l])
  /\ \A i \in 1 .. n : \/ \E k \in 1 .. Len(K) : f[k] = i
                       \/ \E j \in 1 .. n : j < i /\ SameService(rows[j], rows[i])

LEMMA KeptOfNone ==
  ASSUME NEW rows PROVE Keeps(<<>>, rows, 0, <<>>)
BY DEF Keeps

(* One more row keeps what is said of the rows before it.                     *)
LEMMA KeptAnother ==
  ASSUME NEW N \in Nat, NEW rows \in [1 .. N -> Socket], NEW n \in 0 .. N, n < N,
         NEW K, NEW f, Keeps(K, rows, n, f)
  PROVE  \E g : Keeps(Kept(K, rows[n + 1]), rows, n + 1, g)
<1> DEFINE r == rows[n + 1]
<1>0. r \in Socket /\ n \in Nat /\ n + 1 \in 1 .. N
  OBVIOUS
<1>1. CASE K # <<>> /\ SameService(Last(K), r)
  <2>1. Len(K) \in 1 .. Len(K) /\ Last(K) = rows[f[Len(K)]] /\ f[Len(K)] \in 1 .. n
    BY <1>1 DEF Keeps, Last
  <2>2. f[Len(K)] < n + 1 /\ f[Len(K)] \in 1 .. n + 1 /\ SameService(rows[f[Len(K)]], rows[n + 1])
    BY <1>0, <1>1, <2>1
  <2>3. Kept(K, r) = K
    BY <1>1 DEF Kept
  <2>4. f \in [1 .. Len(K) -> 1 .. n + 1]
    BY <1>0 DEF Keeps
  <2>5. \A i \in 1 .. n + 1 : i \in 1 .. n \/ i = n + 1
    BY <1>0
  <2>6. \A j \in 1 .. n : j \in 1 .. n + 1
    BY <1>0
  <2>7. Keeps(K, rows, n + 1, f)
    BY <2>2, <2>4, <2>5, <2>6 DEF Keeps
  <2> QED BY <2>3, <2>7
<1>2. CASE ~(K # <<>> /\ SameService(Last(K), r))
  <2> DEFINE L == Append(K, r)
             g == [k \in 1 .. Len(L) |-> IF k = Len(L) THEN n + 1 ELSE f[k]]
  <2>1. Kept(K, r) = L
    BY <1>2 DEF Kept
  <2>2. /\ L \in Seq(Socket) /\ Len(K) \in Nat /\ Len(L) = Len(K) + 1 /\ L[Len(L)] = r
        /\ \A k \in 1 .. Len(L) : k = Len(L) \/ (k \in 1 .. Len(K) /\ L[k] = K[k])
        /\ \A k \in 1 .. Len(K) : k \in 1 .. Len(L) /\ k # Len(L)
    BY <1>0 DEF Keeps
  <2> HIDE DEF L, r
  <2>3. \A k \in 1 .. Len(K) : f[k] \in 1 .. n
    BY DEF Keeps
  <2>4. /\ Len(L) \in 1 .. Len(L) /\ g[Len(L)] = n + 1
        /\ \A k \in 1 .. Len(K) : g[k] = f[k]
    BY <2>2
  <2>5. g \in [1 .. Len(L) -> 1 .. n + 1]
    BY <1>0, <2>2, <2>3
  <2> HIDE DEF g
  <2>6. \A k \in 1 .. Len(L) : L[k] = rows[g[k]]
    BY <2>2, <2>4 DEF Keeps, r
  <2>7. ASSUME NEW k \in 1 .. Len(L), NEW l \in 1 .. Len(L), k < l PROVE g[k] < g[l]
    <3>1. k \in 1 .. Len(K) /\ g[k] = f[k] /\ f[k] \in 1 .. n
      BY <2>2, <2>3, <2>4, <2>7
    <3>2. CASE l = Len(L)
      BY <1>0, <2>4, <3>1, <3>2
    <3>3. CASE l # Len(L)
      BY <2>2, <2>4, <2>7, <3>1, <3>3 DEF Keeps
    <3> QED BY <3>2, <3>3
  <2>8. ASSUME NEW i \in 1 .. n + 1
        PROVE  \/ \E k \in 1 .. Len(L) : g[k] = i
               \/ \E j \in 1 .. n + 1 : j < i /\ SameService(rows[j], rows[i])
    <3>1. CASE i = n + 1
      BY <2>4, <3>1
    <3>2. CASE i # n + 1
      <4>1. i \in 1 .. n
        BY <1>0, <3>2
      <4>2. CASE \E k \in 1 .. Len(K) : f[k] = i
        BY <2>2, <2>4, <4>2
      <4>3. CASE \E j \in 1 .. n : j < i /\ SameService(rows[j], rows[i])
        <5>1. \A j \in 1 .. n : j \in 1 .. n + 1
          BY <1>0
        <5> QED BY <4>3, <5>1
      <4> QED BY <4>1, <4>2, <4>3 DEF Keeps
    <3> QED BY <3>1, <3>2
  <2>9. ASSUME NEW k \in 1 .. Len(L), NEW l \in 1 .. Len(L), l = k + 1
        PROVE  ~SameService(L[k], L[l])
    <3>1. k \in 1 .. Len(K) /\ L[k] = K[k]
      BY <2>2, <2>9
    <3>2. CASE l = Len(L)
      <4>1. k = Len(K) /\ K # <<>> /\ L[k] = Last(K) /\ L[l] = r
        BY <2>2, <2>9, <3>1, <3>2 DEF Last
      <4> QED BY <1>2, <4>1
    <3>3. CASE l # Len(L)
      BY <2>2, <2>9, <3>1, <3>3 DEF Keeps
    <3> QED BY <3>2, <3>3
  <2>10. Keeps(L, rows, n + 1, g)
    BY <2>2, <2>5, <2>6, <2>7, <2>8, <2>9 DEF Keeps
  <2> QED BY <2>1, <2>10 DEF r
<1> QED BY <1>1, <1>2

LEMMA DedupKeeps ==
  ASSUME NEW N \in Nat, NEW rows \in [1 .. N -> Socket]
  PROVE  \E f : Keeps(Dedup(rows), rows, N, f)
<1> DEFINE K(n) == DedupFold(rows)[1 .. n]
           S == {n \in 0 .. N : \E f : Keeps(K(n), rows, n, f)}
<1>1. 0 \in S
  <2>1. {} \in SUBSET (1 .. N) /\ 1 .. 0 = {} /\ 0 \in 0 .. N
    OBVIOUS
  <2>2. K(0) = <<>>
    BY <2>1, DedupFolds
  <2> HIDE DEF K
  <2> QED BY <2>1, <2>2, KeptOfNone
<1>2. ASSUME NEW n \in 0 .. N, n \in S, n < N PROVE n + 1 \in S
  <2> DEFINE s == 1 .. n + 1
  <2>1. s \in SUBSET (1 .. N) /\ n + 1 \in s /\ s # {} /\ s \ {n + 1} = 1 .. n /\ n + 1 \in Nat /\ n + 1 \in 0 .. N
    BY <1>2
  <2>2. Max(s) = n + 1
    <3> HIDE DEF s
    <3>1. s \in SUBSET (1 .. n + 1)
      BY DEF s
    <3> QED BY <2>1, <3>1, MaxIsLast
  <2>3. K(n + 1) = Kept(K(n), rows[n + 1])
    <3> HIDE DEF s
    <3>1. DedupFold(rows)[s] = Kept(DedupFold(rows)[s \ {Max(s)}], rows[Max(s)])
      BY <2>1, DedupFolds
    <3> QED BY <2>1, <2>2, <3>1 DEF s
  <2> HIDE DEF K
  <2>4. PICK f : Keeps(K(n), rows, n, f)
    BY <1>2
  <2>5. \E g : Keeps(K(n + 1), rows, n + 1, g)
    BY <1>2, <2>3, <2>4, KeptAnother
  <2> QED BY <2>1, <2>5
<1> HIDE DEF S
<1>3. N \in S
  <2>1. \A n \in 0 .. N : n \in S /\ n < N => n + 1 \in S
    BY <1>2
  <2>2. N \in 0 .. N
    OBVIOUS
  <2> QED BY <1>1, <2>1, <2>2, Induct, Zenon
<1>4. DOMAIN rows = 1 .. N
  OBVIOUS
<1> QED BY <1>3, <1>4, DedupIsFold DEF S

-----------------------------------------------------------------------------
(* What a relation must be to sort by it.                                     *)
StrictWeak(R, D) ==
  /\ \A i, j \in D : <<i, j>> \in R => <<j, i>> \notin R
  /\ \A i, j, k \in D : <<i, j>> \in R /\ <<j, k>> \in R => <<i, k>> \in R
  /\ \A i, j, k \in D : <<i, j>> \notin R /\ <<j, k>> \notin R => <<i, k>> \notin R

(* A total order has its sequence: a place is the number of those before it.  *)
LEMMA RankedPermutation ==
  ASSUME NEW N \in Nat, NEW R,
         \A i, j \in 1 .. N : i # j => (<<i, j>> \in R <=> <<j, i>> \notin R),
         \A i \in 1 .. N : <<i, i>> \notin R,
         \A i, j, k \in 1 .. N : <<i, j>> \in R /\ <<j, k>> \in R => <<i, k>> \in R
  PROVE  \E p \in SetToSeqs(1 .. N) : \A k, l \in 1 .. N : k < l => <<p[k], p[l]>> \in R
<1> DEFINE D == 1 .. N
           Before(i) == {j \in D : <<j, i>> \in R}
           rank == [i \in D |-> Cardinality(Before(i)) + 1]
<1>0. IsFiniteSet(D) /\ Cardinality(D) = N
  BY FS_Interval
<1>1. ASSUME NEW i \in D
      PROVE  IsFiniteSet(Before(i)) /\ Cardinality(Before(i)) \in Nat /\ Cardinality(Before(i)) < N
  <2>1. Before(i) \in SUBSET D /\ i \notin Before(i)
    OBVIOUS
  <2>2. Before(i) # D
    BY <2>1
  <2> HIDE DEF Before
  <2>3. IsFiniteSet(Before(i)) /\ Cardinality(Before(i)) <= Cardinality(D)
        /\ Cardinality(Before(i)) # Cardinality(D)
    BY <1>0, <2>1, <2>2, FS_Subset
  <2>4. Cardinality(Before(i)) \in Nat
    BY <2>3, FS_CardinalityType
  <2> QED BY <1>0, <2>3, <2>4
<1>2. ASSUME NEW i \in D, NEW j \in D, <<i, j>> \in R
      PROVE  Cardinality(Before(i)) < Cardinality(Before(j))
  <2>1. Before(i) \in SUBSET Before(j) /\ i \in Before(j) /\ i \notin Before(i)
    BY <1>2
  <2>2. Before(i) # Before(j)
    BY <2>1
  <2> HIDE DEF Before
  <2>3. Cardinality(Before(i)) <= Cardinality(Before(j)) /\ Cardinality(Before(i)) # Cardinality(Before(j))
    BY <1>1, <2>1, <2>2, FS_Subset
  <2> QED BY <1>1, <2>3
<1> HIDE DEF Before
<1>3. /\ rank \in [D -> D]
      /\ \A i, j \in D : <<i, j>> \in R => rank[i] < rank[j]
  <2>1. \A i \in D : rank[i] = Cardinality(Before(i)) + 1
    OBVIOUS
  <2>2. \A i \in D : rank[i] \in D
    BY <1>1, <2>1
  <2>3. \A i, j \in D : <<i, j>> \in R => rank[i] < rank[j]
    BY <1>1, <1>2, <2>1
  <2> QED BY <2>2, <2>3
<1> HIDE DEF rank
<1>4. ASSUME NEW i \in D, NEW j \in D, rank[i] = rank[j] PROVE i = j
  <2>1. rank[i] \in Nat /\ rank[j] \in Nat
    BY <1>3
  <2>2. <<i, j>> \notin R /\ <<j, i>> \notin R
    BY <1>3, <1>4, <2>1
  <2> QED BY <2>2
<1>5. rank \in Surjection(D, D)
  <2>1. rank \in Injection(D, D)
    BY <1>3, <1>4 DEF Injection, IsInjective
  <2> QED BY <1>0, <2>1, FS_Injection
<1>6. \A k \in D : \E i \in D : rank[i] = k
  BY <1>5 DEF Surjection
<1> DEFINE p == [k \in D |-> CHOOSE i \in D : rank[i] = k]
<1>7. \A k \in D : p[k] \in D /\ rank[p[k]] = k
  BY <1>6
<1>8. p \in SetToSeqs(D)
  <2>1. p \in [D -> D] /\ \A k, l \in D : k # l => p[k] # p[l]
    BY <1>7
  <2> QED BY <1>0, <2>1 DEF SetToSeqs
<1>9. ASSUME NEW k \in D, NEW l \in D, k < l PROVE <<p[k], p[l]>> \in R
  <2>1. p[k] \in D /\ p[l] \in D /\ rank[p[k]] = k /\ rank[p[l]] = l
    BY <1>7
  <2>2. p[k] # p[l] /\ <<p[l], p[k]>> \notin R
    BY <1>3, <1>9, <2>1
  <2> QED BY <2>1, <2>2
<1> QED BY <1>8, <1>9

(* A sequence as SetToSeqs gives it has every element at one place.           *)
LEMMA SeqsAreBijective ==
  ASSUME NEW S, IsFiniteSet(S), NEW f \in SetToSeqs(S)
  PROVE  /\ Cardinality(S) \in Nat /\ f \in [1 .. Cardinality(S) -> S]
         /\ \A i, j \in 1 .. Cardinality(S) : f[i] = f[j] => i = j
         /\ \A x \in S : \E i \in 1 .. Cardinality(S) : f[i] = x
<1> DEFINE n == Cardinality(S)
<1>1. n \in Nat
  BY FS_CardinalityType
<1>2. f \in [1 .. n -> S] /\ \A i, j \in 1 .. n : f[i] = f[j] => i = j
  BY DEF SetToSeqs
<1>3. Cardinality(1 .. n) = n
  BY <1>1, FS_Interval
<1>4. f \in Injection(1 .. n, S)
  BY <1>2 DEF Injection, IsInjective
<1>5. f \in Surjection(1 .. n, S)
  BY <1>3, <1>4, FS_Injection
<1> QED BY <1>1, <1>2, <1>5 DEF Surjection

(* SortBy keeps the elements and puts them in order.                          *)
SortedBy(t, s, N, before, p) ==
  /\ p \in [1 .. N -> 1 .. N]
  /\ t = [k \in 1 .. N |-> s[p[k]]]
  /\ \A k, l \in 1 .. N : k < l => <<p[l], p[k]>> \notin before
  /\ \A k, l \in 1 .. N : p[k] = p[l] => k = l
  /\ \A i \in 1 .. N : \E k \in 1 .. N : p[k] = i

LEMMA SortByOrders ==
  ASSUME NEW N \in Nat, NEW s, DOMAIN s = 1 .. N, NEW before, StrictWeak(before, 1 .. N)
  PROVE  \E p : SortedBy(SortBy(s, before), s, N, before, p)
<1> DEFINE D == 1 .. N
           Ahead(i, j) == <<i, j>> \in before \/ (<<j, i>> \notin before /\ i < j)
           R == {ij \in D \X D : Ahead(ij[1], ij[2])}
           Sorts(p) == \A k, l \in D : k < l => Ahead(p[k], p[l])
           order == CHOOSE p \in SetToSeqs(D) : Sorts(p)
<1>1. \A i, j \in D : <<i, j>> \in R <=> Ahead(i, j)
  OBVIOUS
<1>2. ASSUME NEW i \in D, NEW j \in D, i # j PROVE Ahead(i, j) <=> ~Ahead(j, i)
  <2>1. <<i, j>> \notin before \/ <<j, i>> \notin before
    BY DEF StrictWeak
  <2>2. i < j <=> ~(j < i)
    BY <1>2
  <2> QED BY <2>1, <2>2
<1>3. \A i \in D : ~Ahead(i, i)
  BY DEF StrictWeak
<1>4. ASSUME NEW i \in D, NEW j \in D, NEW k \in D, Ahead(i, j), Ahead(j, k) PROVE Ahead(i, k)
  BY <1>4 DEF StrictWeak
<1> HIDE DEF R, Ahead
<1>5. PICK q \in SetToSeqs(D) : \A k, l \in D : k < l => <<q[k], q[l]>> \in R
  BY <1>1, <1>2, <1>3, <1>4, RankedPermutation
<1>6. IsFiniteSet(D) /\ Cardinality(D) = N
  BY FS_Interval
<1>7. q \in [D -> D]
  BY <1>5, <1>6, SeqsAreBijective
<1>8. Sorts(q)
  BY <1>1, <1>5, <1>7
<1>9. order \in SetToSeqs(D) /\ Sorts(order)
  BY <1>5, <1>8
<1> HIDE DEF order
<1>10. /\ order \in [D -> D] /\ \A k, l \in D : order[k] = order[l] => k = l
       /\ \A i \in D : \E k \in D : order[k] = i
  <2>1. /\ order \in [1 .. Cardinality(D) -> D]
        /\ \A i, j \in 1 .. Cardinality(D) : order[i] = order[j] => i = j
        /\ \A x \in D : \E i \in 1 .. Cardinality(D) : order[i] = x
    <3> HIDE DEF D
    <3> QED BY <1>6, <1>9, SeqsAreBijective
  <2> QED BY <1>6, <2>1
<1>11. SortBy(s, before) = [k \in D |-> s[order[k]]]
  BY DEF SortBy, Ahead, order
<1>12. ASSUME NEW k \in D, NEW l \in D, k < l PROVE <<order[l], order[k]>> \notin before
  <2>1. Ahead(order[k], order[l]) /\ order[k] \in D /\ order[l] \in D
    BY <1>9, <1>10, <1>12
  <2> QED BY <2>1 DEF Ahead, StrictWeak
<1> QED BY <1>10, <1>11, <1>12 DEF SortedBy

(* The two orders are such relations.                                         *)
LEMMA PortOrderIsWeak ==
  ASSUME NEW N \in Nat, NEW s \in [1 .. N -> Socket]
  PROVE  StrictWeak(PortOrder(s), 1 .. N)
<1> DEFINE D == 1 .. N
<1>1. \A i, j \in D : <<i, j>> \in PortOrder(s) <=> PortBefore(s[i], s[j])
  <2>1. DOMAIN s = D
    OBVIOUS
  <2> QED BY <2>1 DEF PortOrder, Pairs
<1>2. \A i \in D : s[i].exposed \in BOOLEAN /\ s[i].port \in Nat /\ s[i].proto \in {"tcp", "udp"}
  BY ListingAssumption DEF Socket, Protos
<1>3. \A i, j \in D : PortBefore(s[i], s[j]) => ~PortBefore(s[j], s[i])
  BY <1>2 DEF PortBefore
<1>4. \A i, j, k \in D : PortBefore(s[i], s[j]) /\ PortBefore(s[j], s[k]) => PortBefore(s[i], s[k])
  BY <1>2 DEF PortBefore
<1>5. \A i, j, k \in D : ~PortBefore(s[i], s[j]) /\ ~PortBefore(s[j], s[k]) => ~PortBefore(s[i], s[k])
  BY <1>2 DEF PortBefore
<1> QED BY <1>1, <1>3, <1>4, <1>5 DEF StrictWeak

(* The first socket of a service, in the order of the table, is kept, and it is *)
(* an exposed one when there is one: sorting first is what makes it so.       *)
LEMMA PortsAreMatched ==
  ASSUME NEW N \in Nat, NEW lines \in [1 .. N -> Socket],
         panel.lines = lines, panel.rows = net_ports(lines)
  PROVE  PortsMatch
<1> DEFINE before == PortOrder(lines)
           R == SortBy(lines, before)
           K == Dedup(R)
<1>1. PICK p : SortedBy(R, lines, N, before, p)
  <2>1. DOMAIN lines = 1 .. N /\ StrictWeak(before, 1 .. N)
    BY PortOrderIsWeak
  <2> HIDE DEF before
  <2> QED BY <2>1, SortByOrders
<1>2. R \in [1 .. N -> Socket] /\ \A k \in 1 .. N : R[k] = lines[p[k]] /\ p[k] \in 1 .. N
  <2> HIDE DEF before, R
  <2>1. \A k \in 1 .. N : R[k] = lines[p[k]] /\ p[k] \in 1 .. N /\ lines[p[k]] \in Socket
    BY <1>1 DEF SortedBy
  <2>2. R = [k \in 1 .. N |-> lines[p[k]]]
    BY <1>1 DEF SortedBy
  <2> QED BY <2>1, <2>2
<1>3. \A k, l \in 1 .. N : k < l => ~PortBefore(R[l], R[k])
  <2>1. \A i, j \in 1 .. N : <<i, j>> \in before <=> PortBefore(lines[i], lines[j])
    BY DEF PortOrder, Pairs
  <2> HIDE DEF before, R
  <2> QED BY <1>1, <1>2, <2>1 DEF SortedBy
<1> HIDE DEF before, R
<1>4. PICK f : Keeps(K, R, N, f)
  BY <1>2, DedupKeeps
<1>5. panel.rows = K
  BY DEF net_ports, R, before
<1> HIDE DEF K
<1>6. K \in Seq(Socket) /\ Len(K) \in Nat /\ DOMAIN K = 1 .. Len(K)
  BY <1>4 DEF Keeps
<1>7. \A k \in 1 .. Len(K) : f[k] \in 1 .. N /\ K[k] = R[f[k]]
  BY <1>4 DEF Keeps
<1>8. ToSet(lines) = {lines[i] : i \in 1 .. N}
  BY DEF ToSet
<1>9. ToSet(K) = {K[k] : k \in 1 .. Len(K)}
  BY <1>6 DEF ToSet
<1>10. \A i \in 1 .. N : R[i] \in ToSet(lines) /\ R[i] \in Socket
  BY <1>2, <1>8
<1>11. \A l \in ToSet(lines) : \E i \in 1 .. N : R[i] = l
  BY <1>1, <1>2, <1>8 DEF SortedBy
<1>12. ASSUME NEW s \in ToSet(lines)
       PROVE  \E k \in 1 .. Len(K) :
                /\ SameService(K[k], s)
                /\ \A h \in 1 .. Len(K) : h < k => ~SameService(K[h], s)
                /\ K[k].exposed = \E l \in ToSet(lines) : SameService(l, s) /\ l.exposed
  <2> DEFINE Of == {i \in 1 .. N : SameService(R[i], s)}
  <2>1. Of \in SUBSET Nat /\ \E i \in Of : TRUE
    <3>1. PICK i \in 1 .. N : R[i] = s
      BY <1>11
    <3>2. i \in Of
      BY <3>1 DEF SameService
    <3> QED BY <3>2
  <2>2. PICK m \in Of : \A i \in Of : m <= i
    <3> HIDE DEF Of
    <3> QED BY <2>1, LeastNat
  <2>3. m \in 1 .. N /\ SameService(R[m], s)
    OBVIOUS
  <2>4. \A j \in 1 .. N : j < m => ~SameService(R[j], s)
    BY <2>2, <2>3
  <2>5. \A j \in 1 .. N : j < m => ~SameService(R[j], R[m])
    BY <2>3, <2>4 DEF SameService
  <2>6. PICK k \in 1 .. Len(K) : f[k] = m
    BY <1>4, <2>3, <2>5 DEF Keeps
  <2>7. \A h \in 1 .. Len(K) : h < k => f[h] < f[k]
    BY <1>4 DEF Keeps
  <2>8. \A h \in 1 .. Len(K) : h < k => ~SameService(K[h], s)
    BY <1>7, <2>4, <2>6, <2>7
  <2>9. SameService(K[k], s) /\ K[k] = R[m]
    BY <1>7, <2>3, <2>6
  <2>10. ASSUME NEW l \in ToSet(lines), SameService(l, s), l.exposed PROVE R[m].exposed
    <3>1. PICK j \in 1 .. N : R[j] = l
      BY <1>11
    <3>2. j = m \/ m < j
      <4>1. ~(j < m)
        BY <2>4, <2>10, <3>1
      <4> QED BY <2>3, <4>1
    <3>3. CASE m < j
      BY <1>3, <2>3, <2>10, <3>1, <3>3 DEF PortBefore
    <3> QED BY <2>10, <3>1, <3>2, <3>3
  <2>11. R[m].exposed \in BOOLEAN /\ R[m] \in ToSet(lines)
    BY <1>10, <2>3 DEF Socket
  <2>12. R[m].exposed = \E l \in ToSet(lines) : SameService(l, s) /\ l.exposed
    BY <2>3, <2>10, <2>11
  <2> QED BY <2>8, <2>9, <2>12
<1>13. ToSet(K) \subseteq ToSet(lines)
  <2>1. \A k \in 1 .. Len(K) : K[k] \in ToSet(lines)
    BY <1>7, <1>10
  <2> QED BY <1>9, <2>1
<1>14. ASSUME NEW i \in 1 .. Len(K), NEW j \in 1 .. Len(K), i < j
       PROVE  /\ K[i].exposed \/ ~K[j].exposed
              /\ K[i].exposed = K[j].exposed => K[i].port <= K[j].port
              /\ j = i + 1 => ~SameService(K[i], K[j])
  <2>1. f[i] < f[j] /\ (j = i + 1 => ~SameService(K[i], K[j]))
    BY <1>4, <1>14 DEF Keeps
  <2>2. ~PortBefore(K[j], K[i])
    BY <1>3, <1>7, <2>1
  <2>3. \A r \in Socket : r.port \in Nat
    BY ListingAssumption DEF Socket
  <2>4. K[i].port \in Nat /\ K[j].port \in Nat
    BY <1>6, <2>3
  <2> QED BY <2>1, <2>2, <2>4 DEF PortBefore
<1>15. DOMAIN panel.rows = 1 .. Len(K) /\ panel.lines = lines
  BY <1>5, <1>6
<1>16. \A s \in ToSet(panel.lines) : \E k \in DOMAIN panel.rows :
         /\ SameService(panel.rows[k], s)
         /\ \A h \in DOMAIN panel.rows : h < k => ~SameService(panel.rows[h], s)
         /\ panel.rows[k].exposed = \E l \in ToSet(panel.lines) : SameService(l, s) /\ l.exposed
  BY ONLY <1>5, <1>12, <1>15, Zenon
<1>17. \A i, j \in DOMAIN panel.rows : i < j =>
         /\ panel.rows[i].exposed \/ ~panel.rows[j].exposed
         /\ panel.rows[i].exposed = panel.rows[j].exposed => panel.rows[i].port <= panel.rows[j].port
         /\ j = i + 1 => ~SameService(panel.rows[i], panel.rows[j])
  BY ONLY <1>5, <1>14, <1>15, Zenon
<1>18. ToSet(panel.rows) \subseteq ToSet(panel.lines)
  BY ONLY <1>5, <1>13, <1>15, Zenon
<1> QED BY ONLY <1>16, <1>17, <1>18, Zenon DEF PortsMatch

-----------------------------------------------------------------------------
MergeFold(rows) ==
  LET iter[s \in SUBSET DOMAIN rows] ==
        IF s = {} THEN <<>> ELSE LET x == Max(s) IN Merge(iter[s \ {x}], rows[x])
  IN  iter

Maps == UNION {[D -> WifiNet] : D \in SUBSET Ssids}

LEMMA EmptyMap ==
  <<>> \in Maps /\ DOMAIN <<>> = {}
<1>1. <<>> \in [{} -> WifiNet]
  OBVIOUS
<1> QED BY <1>1 DEF Maps

LEMMA MergeIsMap ==
  ASSUME NEW B \in Maps, NEW l \in WifiNet
  PROVE  Merge(B, l) \in Maps
<1> DEFINE e == IF l.ssid \in DOMAIN B THEN B[l.ssid] ELSE l
           s == IF l.signal > e.signal THEN l ELSE e
           m == [s EXCEPT !.active = e.active \/ l.active]
<1>1. PICK D \in SUBSET Ssids : B \in [D -> WifiNet]
  BY DEF Maps
<1>2. e \in WifiNet
  BY <1>1
<1>3. s \in WifiNet
  BY <1>2
<1>4. m \in WifiNet
  BY <1>2, <1>3 DEF WifiNet
<1>5. D \cup {l.ssid} \in SUBSET Ssids
  BY DEF WifiNet
<1>6. Merge(B, l) = [n \in D \cup {l.ssid} |-> IF n = l.ssid THEN m ELSE B[n]]
  BY <1>1 DEF Merge
<1> HIDE DEF m
<1>7. Merge(B, l) \in [D \cup {l.ssid} -> WifiNet]
  BY <1>1, <1>4, <1>6
<1> QED BY <1>5, <1>7 DEF Maps

(* The map of the networks is a fold over the lines in the same way.          *)
LEMMA MergeIsFold ==
  ASSUME NEW lines PROVE FoldLeft(Merge, <<>>, lines) = MergeFold(lines)[DOMAIN lines]
BY DEF FoldLeft, MapThenFoldSet, MergeFold

LEMMA MergeFolds ==
  ASSUME NEW N \in Nat, NEW lines \in [1 .. N -> WifiNet], NEW s \in SUBSET (1 .. N)
  PROVE  MergeFold(lines)[s] = IF s = {} THEN <<>>
                               ELSE Merge(MergeFold(lines)[s \ {Max(s)}], lines[Max(s)])
<1> DEFINE step == [c \in Maps \X (1 .. N) |-> Merge(c[1], lines[c[2]])]
           Eq(h) == h = [t \in SUBSET DOMAIN lines |-> IF t = {} THEN <<>> ELSE Merge(h[t \ {Max(t)}], lines[Max(t)])]
<1>1. step \in [Maps \X (1 .. N) -> Maps]
  <2>1. ASSUME NEW B \in Maps, NEW n \in 1 .. N PROVE Merge(B, lines[n]) \in Maps
    BY MergeIsMap
  <2> QED BY <2>1
<1>2. <<>> \in Maps
  BY EmptyMap
<1>3. PICK g \in [SUBSET (1 .. N) -> Maps] : IsFold(g, N, <<>>, step)
  <2> HIDE DEF step
  <2> QED BY <1>1, <1>2, FoldExists
<1>4. ASSUME NEW t \in SUBSET (1 .. N)
      PROVE  g[t] = IF t = {} THEN <<>> ELSE Merge(g[t \ {Max(t)}], lines[Max(t)])
  <2>1. CASE t = {}
    BY <1>3, <2>1 DEF IsFold
  <2>2. CASE t # {}
    <3>1. Max(t) \in 1 .. N
      BY <2>2, MaxIsIn
    <3>2. g[t \ {Max(t)}] \in Maps
      OBVIOUS
    <3>3. step[<<g[t \ {Max(t)}], Max(t)>>] = Merge(g[t \ {Max(t)}], lines[Max(t)])
      BY <3>1, <3>2
    <3> QED BY <1>3, <2>2, <3>3 DEF IsFold
  <2> QED BY <2>1, <2>2
<1>5. DOMAIN lines = 1 .. N
  OBVIOUS
<1>6. Eq(g)
  BY <1>4, <1>5
<1>7. MergeFold(lines) = CHOOSE h : Eq(h)
  BY DEF MergeFold
<1>8. Eq(MergeFold(lines))
  <2> HIDE DEF Eq
  <2> QED BY <1>6, <1>7
<1> QED BY <1>5, <1>8

(* What is known of a name after the first n lines.                           *)
Best(e, x, lines, n) ==
  /\ e \in WifiNet /\ e.ssid = x
  /\ \E i \in 1 .. n : lines[i].ssid = x /\ lines[i].signal = e.signal /\ lines[i].security = e.security
  /\ \A i \in 1 .. n : lines[i].ssid = x => lines[i].signal <= e.signal
  /\ e.active = \E i \in 1 .. n : lines[i].ssid = x /\ lines[i].active

Merged(B, lines, n) ==
  /\ B \in Maps
  /\ DOMAIN B = {lines[i].ssid : i \in 1 .. n}
  /\ \A x \in DOMAIN B : Best(B[x], x, lines, n)

LEMMA MergedNone ==
  ASSUME NEW lines PROVE Merged(<<>>, lines, 0)
BY EmptyMap DEF Merged

(* One more line: its name is merged, the others are as they were.            *)
LEMMA MergedAnother ==
  ASSUME NEW N \in Nat, NEW lines \in [1 .. N -> WifiNet], NEW n \in 0 .. N, n < N,
         NEW B, Merged(B, lines, n)
  PROVE  Merged(Merge(B, lines[n + 1]), lines, n + 1)
<1> DEFINE l == lines[n + 1]
           e == IF l.ssid \in DOMAIN B THEN B[l.ssid] ELSE l
           s == IF l.signal > e.signal THEN l ELSE e
           m == [s EXCEPT !.active = e.active \/ l.active]
           C == Merge(B, l)
<1>0. l \in WifiNet /\ n \in Nat /\ n + 1 \in 1 .. N /\ n + 1 \in 1 .. n + 1
  OBVIOUS
<1>1. /\ \A i \in 1 .. n + 1 : i \in 1 .. n \/ i = n + 1
      /\ \A i \in 1 .. n : i \in 1 .. n + 1 /\ lines[i] \in WifiNet
  BY <1>0
<1>2. l = lines[n + 1]
  OBVIOUS
<1>3. C = [x \in DOMAIN B \cup {l.ssid} |-> IF x = l.ssid THEN m ELSE B[x]]
  BY DEF Merge
<1>4. C \in Maps
  BY <1>0, MergeIsMap DEF Merged
<1> HIDE DEF l, C
<1>5. DOMAIN C = {lines[i].ssid : i \in 1 .. n + 1}
  BY <1>1, <1>0, <1>2, <1>3 DEF Merged
<1>6. Best(m, l.ssid, lines, n + 1)
  <2>1. CASE l.ssid \in DOMAIN B
    <3>1. e = B[l.ssid] /\ Best(e, l.ssid, lines, n)
      BY <2>1 DEF Merged
    <3> HIDE DEF e
    <3>2. /\ e \in WifiNet /\ e.ssid = l.ssid /\ e.signal \in Nat /\ l.signal \in Nat
          /\ e.active \in BOOLEAN /\ l.active \in BOOLEAN
      BY <1>0, <3>1, ListingAssumption DEF Best, WifiNet
    <3>3. s \in WifiNet /\ s.ssid = l.ssid /\ s.signal >= e.signal /\ s.signal >= l.signal /\ s.signal \in Nat
      BY <1>0, <3>2
    <3>4. \E i \in 1 .. n + 1 : /\ lines[i].ssid = l.ssid /\ lines[i].signal = s.signal
                                /\ lines[i].security = s.security
      <4>1. CASE s = l
        BY <1>0, <1>2, <4>1
      <4>2. CASE s = e
        BY <1>1, <3>1, <4>2 DEF Best
      <4> QED BY <4>1, <4>2
    <3> HIDE DEF s
    <3>5. /\ m \in WifiNet /\ m.ssid = l.ssid /\ m.signal = s.signal /\ m.security = s.security
          /\ m.active = (e.active \/ l.active)
      BY <3>2, <3>3 DEF WifiNet
    <3> HIDE DEF m
    <3>6. ASSUME NEW i \in 1 .. n + 1, lines[i].ssid = l.ssid PROVE lines[i].signal <= m.signal
      <4>1. CASE i = n + 1
        BY <1>2, <3>2, <3>3, <3>5, <4>1
      <4>2. CASE i \in 1 .. n
        <5>1. lines[i].signal <= e.signal /\ lines[i].signal \in Nat
          BY <1>1, <3>1, <3>6, <4>2, ListingAssumption DEF Best, WifiNet
        <5> QED BY <3>2, <3>3, <3>5, <5>1
      <4> QED BY <1>1, <4>1, <4>2
    <3>7. m.active = \E i \in 1 .. n + 1 : lines[i].ssid = l.ssid /\ lines[i].active
      <4>1. e.active = \E i \in 1 .. n : lines[i].ssid = l.ssid /\ lines[i].active
        BY <3>1 DEF Best
      <4>2. (\E i \in 1 .. n + 1 : lines[i].ssid = l.ssid /\ lines[i].active) <=> (e.active \/ l.active)
        BY <1>0, <1>1, <1>2, <4>1
      <4> QED BY <3>2, <3>5, <4>2
    <3> QED BY <3>4, <3>5, <3>6, <3>7 DEF Best
  <2>2. CASE l.ssid \notin DOMAIN B
    <3>1. e = l /\ s = l
      BY <2>2
    <3>2. l.signal \in Nat /\ l.active \in BOOLEAN
      BY <1>0, ListingAssumption DEF WifiNet
    <3> HIDE DEF e, s
    <3>3. m = l
      BY <1>0, <3>1, <3>2 DEF WifiNet
    <3>4. \A i \in 1 .. n : lines[i].ssid # l.ssid
      BY <2>2 DEF Merged
    <3> HIDE DEF m
    <3>5. \A i \in 1 .. n + 1 : lines[i].ssid = l.ssid => lines[i] = l
      BY <1>1, <1>2, <3>4
    <3>6. \E i \in 1 .. n + 1 : lines[i] = l
      BY <1>0, <1>2
    <3>7. l.active = \E i \in 1 .. n + 1 : lines[i].ssid = l.ssid /\ lines[i].active
      BY <3>2, <3>5, <3>6
    <3>8. \A i \in 1 .. n + 1 : lines[i].ssid = l.ssid => lines[i].signal <= l.signal
      BY <3>2, <3>5
    <3> QED BY <1>0, <3>3, <3>6, <3>7, <3>8 DEF Best
  <2> QED BY <2>1, <2>2
<1> HIDE DEF m
<1>7. ASSUME NEW x \in DOMAIN B, x # l.ssid PROVE Best(B[x], x, lines, n + 1)
  <2>1. Best(B[x], x, lines, n)
    BY DEF Merged
  <2>2. \A i \in 1 .. n + 1 : lines[i].ssid = x => i \in 1 .. n
    BY <1>1, <1>2, <1>7
  <2> QED BY <1>1, <2>1, <2>2 DEF Best
<1>8. ASSUME NEW x \in DOMAIN C PROVE Best(C[x], x, lines, n + 1)
  BY <1>3, <1>6, <1>7
<1> QED BY <1>4, <1>5, <1>8 DEF Merged, l, C

LEMMA MergeMerges ==
  ASSUME NEW N \in Nat, NEW lines \in [1 .. N -> WifiNet]
  PROVE  Merged(FoldLeft(Merge, <<>>, lines), lines, N)
<1> DEFINE B(n) == MergeFold(lines)[1 .. n]
           S == {n \in 0 .. N : Merged(B(n), lines, n)}
<1>1. 0 \in S
  <2>1. {} \in SUBSET (1 .. N) /\ 1 .. 0 = {} /\ 0 \in 0 .. N
    OBVIOUS
  <2>2. B(0) = <<>>
    BY <2>1, MergeFolds
  <2> HIDE DEF B
  <2> QED BY <2>1, <2>2, MergedNone
<1>2. ASSUME NEW n \in 0 .. N, n \in S, n < N PROVE n + 1 \in S
  <2> DEFINE s == 1 .. n + 1
  <2>1. s \in SUBSET (1 .. N) /\ n + 1 \in s /\ s # {} /\ s \ {n + 1} = 1 .. n /\ n + 1 \in Nat /\ n + 1 \in 0 .. N
    BY <1>2
  <2>2. Max(s) = n + 1
    <3> HIDE DEF s
    <3>1. s \in SUBSET (1 .. n + 1)
      BY DEF s
    <3> QED BY <2>1, <3>1, MaxIsLast
  <2>3. B(n + 1) = Merge(B(n), lines[n + 1])
    <3> HIDE DEF s
    <3>1. MergeFold(lines)[s] = Merge(MergeFold(lines)[s \ {Max(s)}], lines[Max(s)])
      BY <2>1, MergeFolds
    <3> QED BY <2>1, <2>2, <3>1 DEF s
  <2> HIDE DEF B
  <2>4. Merged(B(n + 1), lines, n + 1)
    BY <1>2, <2>3, MergedAnother
  <2> QED BY <2>1, <2>4
<1> HIDE DEF S
<1>3. N \in S
  <2>1. \A n \in 0 .. N : n \in S /\ n < N => n + 1 \in S
    BY <1>2
  <2>2. N \in 0 .. N
    OBVIOUS
  <2> QED BY <1>1, <2>1, <2>2, Induct, Zenon
<1>4. DOMAIN lines = 1 .. N
  OBVIOUS
<1> QED BY <1>3, <1>4, MergeIsFold DEF S

LEMMA WifiOrderIsWeak ==
  ASSUME NEW N \in Nat, NEW s \in [1 .. N -> WifiNet]
  PROVE  StrictWeak(WifiOrder(s), 1 .. N)
<1> DEFINE D == 1 .. N
<1>1. \A i, j \in D : <<i, j>> \in WifiOrder(s) <=> WifiBefore(s[i], s[j])
  <2>1. DOMAIN s = D
    OBVIOUS
  <2> QED BY <2>1 DEF WifiOrder, Pairs
<1>2. \A i \in D : s[i].active \in BOOLEAN /\ s[i].signal \in Nat
  BY ListingAssumption DEF WifiNet
<1>3. \A i, j \in D : WifiBefore(s[i], s[j]) => ~WifiBefore(s[j], s[i])
  BY <1>2 DEF WifiBefore
<1>4. \A i, j, k \in D : WifiBefore(s[i], s[j]) /\ WifiBefore(s[j], s[k]) => WifiBefore(s[i], s[k])
  BY <1>2 DEF WifiBefore
<1>5. \A i, j, k \in D : ~WifiBefore(s[i], s[j]) /\ ~WifiBefore(s[j], s[k]) => ~WifiBefore(s[i], s[k])
  BY <1>2 DEF WifiBefore
<1> QED BY <1>1, <1>3, <1>4, <1>5 DEF StrictWeak

(* The rows are the values of the map, one for each name, in some order that  *)
(* the sort then makes theirs.                                                *)
LEMMA WifiIsMatched ==
  ASSUME NEW N \in Nat, NEW lines \in [1 .. N -> WifiNet], NEW rows \in net_wifi_scan(lines),
         panel.lines = lines, panel.rows = rows
  PROVE  WifiMatches
<1> DEFINE best == FoldLeft(Merge, <<>>, lines)
           names == {l.ssid : l \in ToSet(lines)}
           M == Cardinality(names)
<1>1. Merged(best, lines, N)
  BY MergeMerges
<1>2. ToSet(lines) = {lines[i] : i \in 1 .. N}
  BY DEF ToSet
<1>3. PICK s \in SetToSeqs(DOMAIN best) :
           rows = SortBy([k \in DOMAIN s |-> best[s[k]]], WifiOrder([k \in DOMAIN s |-> best[s[k]]]))
  BY DEF net_wifi_scan
<1> DEFINE v == [k \in DOMAIN s |-> best[s[k]]]
           before == WifiOrder(v)
<1>4. rows = SortBy(v, before)
  BY <1>3
<1> HIDE DEF best
<1>5. DOMAIN best = names
  BY <1>1, <1>2 DEF Merged
<1>6. IsFiniteSet(names)
  <2> DEFINE f == [i \in 1 .. N |-> lines[i].ssid]
  <2>1. f \in Surjection(1 .. N, names)
    BY <1>2 DEF Surjection
  <2>2. IsFiniteSet(1 .. N)
    BY FS_Interval
  <2> HIDE DEF f, names
  <2> QED BY <2>1, <2>2, FS_Surjection
<1>7. /\ M \in Nat /\ s \in [1 .. M -> names]
      /\ \A x \in names : \E i \in 1 .. M : s[i] = x
  <2> HIDE DEF names
  <2> QED BY <1>5, <1>6, SeqsAreBijective
<1> HIDE DEF M, names
<1>8. ASSUME NEW x \in names PROVE Best(best[x], x, lines, N)
  BY <1>1, <1>5 DEF Merged
<1>9. v \in [1 .. M -> WifiNet] /\ \A k \in 1 .. M : v[k] = best[s[k]]
  BY <1>7, <1>8 DEF Best
<1> HIDE DEF v
<1>10. PICK p : SortedBy(rows, v, M, before, p)
  <2>1. StrictWeak(before, 1 .. M) /\ DOMAIN v = 1 .. M
    BY <1>7, <1>9, WifiOrderIsWeak
  <2> HIDE DEF before
  <2> QED BY <1>4, <1>7, <2>1, SortByOrders
<1>11. /\ rows = [k \in 1 .. M |-> v[p[k]]]
       /\ \A k \in 1 .. M : p[k] \in 1 .. M /\ rows[k] = v[p[k]]
       /\ \A i \in 1 .. M : \E k \in 1 .. M : p[k] = i
  BY <1>10 DEF SortedBy
<1>12. DOMAIN rows = 1 .. M /\ Len(rows) = M
  <2>1. \A k \in 1 .. M : v[p[k]] \in WifiNet
    BY <1>9, <1>11
  <2>2. rows \in [1 .. M -> WifiNet]
    BY <1>11, <2>1
  <2> QED BY <1>7, <2>2
<1>13. ToSet(rows) = {best[x] : x \in names}
  <2>1. \A k \in 1 .. M : rows[k] = best[s[p[k]]] /\ s[p[k]] \in names
    BY <1>7, <1>9, <1>11
  <2>2. ASSUME NEW x \in names PROVE \E k \in 1 .. M : rows[k] = best[x]
    <3>1. PICK i \in 1 .. M : s[i] = x
      BY <1>7
    <3>2. PICK k \in 1 .. M : p[k] = i
      BY <1>11
    <3> QED BY <2>1, <3>1, <3>2
  <2>3. ToSet(rows) = {rows[k] : k \in 1 .. M}
    BY <1>12 DEF ToSet
  <2> HIDE DEF before
  <2> QED BY <2>1, <2>2, <2>3
<1>14. ASSUME NEW i \in 1 .. M, NEW j \in 1 .. M, i < j
       PROVE  /\ rows[i].active \/ ~rows[j].active
              /\ rows[i].active = rows[j].active => rows[i].signal >= rows[j].signal
  <2>1. \A k, l \in 1 .. M : <<k, l>> \in before <=> WifiBefore(v[k], v[l])
    BY <1>9 DEF WifiOrder, Pairs
  <2> HIDE DEF before
  <2>2. <<p[j], p[i]>> \notin before
    BY <1>10, <1>14 DEF SortedBy
  <2>3. ~WifiBefore(rows[j], rows[i])
    BY <1>11, <2>1, <2>2
  <2>4. \A r \in WifiNet : r.signal \in Nat
    BY ListingAssumption DEF WifiNet
  <2>5. \A k \in 1 .. M : v[k] \in WifiNet
    BY ONLY <1>9
  <2>6. rows[i] = v[p[i]] /\ p[i] \in 1 .. M /\ rows[j] = v[p[j]] /\ p[j] \in 1 .. M
    BY ONLY <1>11, <1>14, Zenon
  <2>7. rows[i] \in WifiNet /\ rows[j] \in WifiNet
    BY ONLY <2>5, <2>6
  <2>8. rows[i].signal \in Nat /\ rows[j].signal \in Nat
    BY ONLY <2>4, <2>7
  <2> QED BY <2>3, <2>8 DEF WifiBefore
<1>15. ASSUME NEW r \in ToSet(rows)
       PROVE  /\ \E l \in {k \in ToSet(lines) : k.ssid = r.ssid} : l.signal = r.signal /\ l.security = r.security
              /\ \A l \in {k \in ToSet(lines) : k.ssid = r.ssid} : l.signal <= r.signal
              /\ r.active = \E l \in {k \in ToSet(lines) : k.ssid = r.ssid} : l.active
  <2>1. PICK x \in names : r = best[x]
    BY <1>13
  <2>2. Best(r, x, lines, N)
    BY <1>8, <2>1
  <2>3. Best(r, r.ssid, lines, N)
    BY <2>2 DEF Best
  <2> QED BY <1>2, <2>3 DEF Best
<1>16. {r.ssid : r \in ToSet(rows)} = names
  <2>1. \A x \in names : best[x].ssid = x
    BY <1>8 DEF Best
  <2> QED BY <1>13, <2>1
<1>17. \A i, j \in DOMAIN rows : i < j =>
          /\ rows[i].active \/ ~rows[j].active
          /\ rows[i].active = rows[j].active => rows[i].signal >= rows[j].signal
  BY <1>12, <1>14
<1>18. Len(rows) = Cardinality(names)
  BY <1>12 DEF M
<1> QED BY <1>15, <1>16, <1>17, <1>18 DEF WifiMatches, names

-----------------------------------------------------------------------------
(* The rows on the page are those of its lines.                               *)
ListInv ==
  \/ panel = EmptyPanel
  \/ \E n \in 0 .. MaxPrinted : \E sockets \in [1 .. n -> Socket] :
       panel = [of |-> "ports", lines |-> sockets, rows |-> net_ports(sockets)]
  \/ \E n \in 0 .. MaxPrinted : \E lines \in [1 .. n -> WifiNet] : \E rows \in net_wifi_scan(lines) :
       panel = [of |-> "wifi", lines |-> lines, rows |-> rows]

LEMMA ListInvMatches ==
  ListInv => ListingsMatch
<1> SUFFICES ASSUME ListInv PROVE ListingsMatch
  OBVIOUS
<1>0. \A n \in 0 .. MaxPrinted : n \in Nat
  BY ListingAssumption
<1>1. CASE panel = EmptyPanel
  BY <1>1 DEF ListingsMatch, EmptyPanel
<1>2. ASSUME NEW n \in 0 .. MaxPrinted, NEW sockets \in [1 .. n -> Socket],
             panel = [of |-> "ports", lines |-> sockets, rows |-> net_ports(sockets)]
      PROVE  ListingsMatch
  <2>1. panel.of = "ports" /\ panel.lines = sockets /\ panel.rows = net_ports(sockets)
    BY <1>2
  <2>2. PortsMatch
    BY <1>0, <2>1, PortsAreMatched
  <2> QED BY <2>1, <2>2 DEF ListingsMatch
<1>3. ASSUME NEW n \in 0 .. MaxPrinted, NEW lines \in [1 .. n -> WifiNet], NEW rows \in net_wifi_scan(lines),
             panel = [of |-> "wifi", lines |-> lines, rows |-> rows]
      PROVE  ListingsMatch
  <2>1. panel.of = "wifi" /\ panel.lines = lines /\ panel.rows = rows
    BY <1>3
  <2>2. WifiMatches
    BY <1>0, <2>1, WifiIsMatched
  <2> QED BY <2>1, <2>2 DEF ListingsMatch
<1> QED BY <1>1, <1>2, <1>3 DEF ListInv

LEMMA InitList ==
  ListInit => ListInv
BY DEF ListInit, ListInv

LEMMA NextList ==
  ASSUME ListInv, ListNext \/ UNCHANGED listVars PROVE ListInv'
<1>1. CASE ShowPorts
  BY <1>1, Zenon DEF ShowPorts, Printed, ListInv
<1>2. CASE ShowWifi
  BY <1>2, Zenon DEF ShowWifi, Printed, ListInv
<1>3. CASE Leave
  BY <1>3 DEF Leave, ListInv
<1>4. CASE UNCHANGED listVars
  BY <1>4 DEF listVars, ListInv
<1> QED BY <1>1, <1>2, <1>3, <1>4 DEF ListNext

(* Each row of the two tables is what the tool's lines say of it, every line  *)
(* is in a row, and the rows are in order (net.rs:168-173, 264-297).          *)
THEOREM ListingsMatchHolds == ListSpec => []ListingsMatch
<1>1. ListInv /\ [ListNext]_listVars => ListInv'
  BY NextList
<1> QED BY <1>1, InitList, ListInvMatches, PTL DEF ListSpec
=============================================================================
