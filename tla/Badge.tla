------------------------------- MODULE Badge -------------------------------
(* The number of waiting updates as the Control Center shows it: the tile of  *)
(* the dashboard and the badge of the Update tab. Both are painted from the   *)
(* file update-count, then from arx, which takes seconds. The file has two    *)
(* writers that count different things: arx's total here, and the packages of *)
(* pacman in arxos-notify.                                                    *)
EXTENDS Integers, Sequences

CONSTANTS
  MaxWaiting,  \* bound: updates that wait in each source
  MaxCalls     \* bound: calls and results on their way

ASSUME BadgeAssumption == MaxWaiting \in Nat /\ MaxCalls \in Nat

VARIABLES
  waiting,   \* what waits: in pacman, and in the AUR and the tools
  cache,     \* the file update-count, Unknown when it does not parse
  healed,    \* history: nobody wrote the file since a live count was stored
  healing,   \* the Control Center is between truncating the file and writing it
  notifier,  \* arxos-notify is between truncating the file and writing it
  calls,     \* commands the main thread has not run yet, in order
  measured,  \* what arx has answered to a live count that is not stored yet
  results,   \* results the page has not taken yet, in order
  page       \* the tile, the badge, and the flag `live` of refreshBadges

fileVars == <<cache, healed, healing, notifier>>
callVars == <<calls, measured, results>>
badgeVars == <<waiting, fileVars, callVars, page>>

Unknown == -1
Sources == {"pacman", "others"}
Numbers == Unknown .. 2 * MaxWaiting
Kinds == {"tile", "badge", "live"}
Total == waiting["pacman"] + waiting["others"]

BadgeTypeOK ==
  /\ waiting \in [Sources -> 0 .. MaxWaiting]
  /\ cache \in Numbers /\ healed \in BOOLEAN /\ healing \in BOOLEAN /\ notifier \in BOOLEAN
  /\ calls \in Seq(Kinds) /\ measured \in Numbers /\ results \in Seq([of : Kinds, n : Numbers])
  /\ page \in [tile : Numbers, badge : Numbers, live : BOOLEAN]

(* Boot: loaders.dashboard, then refreshBadges when the page is idle.         *)
BootCalls == <<"tile", "badge", "live">>
EmptyPage == [tile |-> Unknown, badge |-> Unknown, live |-> FALSE]

BadgeInit ==
  /\ waiting = [s \in Sources |-> 0]
  /\ cache = Unknown /\ healed = FALSE /\ healing = FALSE /\ notifier = FALSE
  /\ calls = BootCalls /\ measured = Unknown /\ results = <<>> /\ page = EmptyPage

-----------------------------------------------------------------------------
(* The dashboard is opened again.                                             *)
Revisit ==
  /\ Len(calls) + Len(results) < MaxCalls
  /\ calls' = Append(calls, "tile")
  /\ UNCHANGED <<waiting, fileVars, measured, results, page>>

(* The window is closed and started again.                                    *)
Reopen ==
  /\ calls' = BootCalls /\ measured' = Unknown /\ results' = <<>> /\ page' = EmptyPage
  /\ healing' = FALSE
  /\ UNCHANGED <<waiting, cache, healed, notifier>>

Asked(kinds) == calls # <<>> /\ Head(calls) \in kinds
Return(n) ==
  /\ calls' = Tail(calls)
  /\ results' = Append(results, [of |-> Head(calls), n |-> n])

UpdatesCountCached ==
  /\ Asked({"tile", "badge"}) /\ Return(cache)
  /\ UNCHANGED <<waiting, fileVars, measured, page>>

(* updates_count: arx counts, then the file is healed.                        *)
UpdatesCount ==
  /\ Asked({"live"}) /\ measured = Unknown /\ measured' = Total
  /\ UNCHANGED <<waiting, fileVars, calls, results, page>>

HealTruncates ==
  /\ measured # Unknown /\ ~healing /\ healing' = TRUE
  /\ cache' = Unknown /\ healed' = FALSE
  /\ UNCHANGED <<waiting, notifier, callVars, page>>

(* Mutant: the file gets the count of pacman alone.                           *)
HealPacman ==
  /\ measured # Unknown /\ measured' = Unknown /\ Return(measured)
  /\ healing /\ healing' = FALSE
  /\ cache' = waiting["pacman"] /\ healed' = ~notifier
  /\ UNCHANGED <<waiting, notifier, page>>

Heal ==
  /\ measured # Unknown /\ measured' = Unknown /\ Return(measured)
  /\ healing /\ healing' = FALSE
  /\ cache' = measured /\ healed' = ~notifier
  /\ UNCHANGED <<waiting, notifier, page>>

(* The file cannot be opened, or not be written, and nobody asks.             *)
HealFails ==
  /\ measured # Unknown /\ measured' = Unknown /\ Return(measured)
  /\ healing' = FALSE /\ healed' = FALSE
  /\ UNCHANGED <<waiting, cache, notifier, page>>

(* arx fails: the file, or zero, stands in for the live count.                *)
CountFails ==
  /\ Asked({"live"}) /\ measured = Unknown
  /\ Return(IF cache = Unknown THEN 0 ELSE cache)
  /\ UNCHANGED <<waiting, fileVars, measured, page>>

(* The three .then of app.js: a cached count never replaces a live badge.     *)
Painted(r) ==
  CASE r.of = "live"  -> [tile |-> r.n, badge |-> r.n, live |-> TRUE]
    [] r.of = "tile"  -> IF r.n = Unknown THEN page ELSE [page EXCEPT !.tile = r.n]
    [] r.of = "badge" -> IF page.live \/ r.n = Unknown THEN page ELSE [page EXCEPT !.badge = r.n]

Take ==
  /\ results # <<>> /\ results' = Tail(results) /\ page' = Painted(Head(results))
  /\ UNCHANGED <<waiting, fileVars, calls, measured>>

(* fs::write in arxos-notify: empty the file, then write the count of pacman, *)
(* which is zero when it could not be taken.                                  *)
NotifyTruncates ==
  /\ ~notifier /\ notifier' = TRUE /\ cache' = Unknown /\ healed' = FALSE
  /\ UNCHANGED <<waiting, healing, callVars, page>>

NotifyWrites ==
  /\ notifier /\ notifier' = FALSE /\ cache' \in {waiting["pacman"], 0} /\ healed' = FALSE
  /\ UNCHANGED <<waiting, healing, callVars, page>>

UpdatesChange ==
  /\ waiting' \in [Sources -> 0 .. MaxWaiting] \ {waiting}
  /\ UNCHANGED <<fileVars, callVars, page>>

BadgeNext ==
  \/ Revisit \/ Reopen \/ UpdatesCountCached \/ UpdatesCount \/ CountFails \/ Take
  \/ HealTruncates \/ Heal \/ HealFails \/ NotifyTruncates \/ NotifyWrites \/ UpdatesChange

BadgeSpec == BadgeInit /\ [][BadgeNext]_badgeVars

-----------------------------------------------------------------------------
(* Once the live count is painted, the tile and the badge stay the same       *)
(* however often the dashboard is opened again, as long as the count was      *)
(* stored and arxos-notify has not written its own over it                    *)
(* (src-tauri/src/main.rs:131-148).                                           *)
TileIsBadge == page.live /\ healed => page.tile = page.badge
=============================================================================
