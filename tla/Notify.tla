------------------------------- MODULE Notify -------------------------------
(* arxos-notify: one pass of a timer that counts the waiting updates, fetches *)
(* the broadcast channel, shows one notification and remembers what it told.  *)
(* What it remembers is a count and the last message; a pass can be killed    *)
(* between any two of its steps, and both its sources may fail. The Control   *)
(* Center writes its own count into the same file, at any time.               *)
EXTENDS Naturals, FiniteSets

CONSTANTS
  Packages,     \* the packages that may have an update
  MaxMessages,  \* bound: broadcasts published
  MaxKills,     \* bound: passes that are killed
  MaxTotal      \* bound: what the Control Center counts

ASSUME PackagesAssumption == IsFiniteSet(Packages)
ASSUME BoundsAssumption == MaxMessages \in Nat /\ MaxKills \in Nat /\ MaxTotal \in Nat

VARIABLES
  pending,  \* the packages with an update
  channel,  \* the id of the broadcast on the CDN, 0 before the first
  online,   \* the mirrors and the CDN answer
  count,    \* the file update-count, which the Control Center reads and writes
  state,    \* the file notify-state.json
  pc,       \* the next step of the pass
  last,     \* `state` as this pass has read it
  updates,  \* the count of this pass
  fetched,  \* the id this pass has fetched, 0 for none
  told,     \* history: how often each message was given to notify-send
  kills,    \* history: how many passes were killed
  steady    \* history: counts since the pending set or a failure last changed them

envVars == <<pending, channel, online>>
passVars == <<pc, last, updates, fetched>>
vars == <<envVars, count, state, passVars, told, kills, steady>>

Messages == 1 .. MaxMessages
Waiting == Cardinality(pending)
Unsaved == [count |-> 0, broadcast |-> 0]

(* Mutant: whatever waits is news.                                             *)
TellsWaiting == updates > 0

(* A count that differs from the last one is news, and so is a new message.   *)
TellsUpdates == updates > 0 /\ updates # last.count
TellsBroadcast == fetched # 0 /\ fetched # last.broadcast

Remembered == IF TellsBroadcast THEN fetched ELSE last.broadcast

Counts == 0 .. Cardinality(Packages)
Ids == 0 .. MaxMessages

TypeOK ==
  /\ pending \subseteq Packages /\ channel \in Ids /\ online \in BOOLEAN
  /\ count \in Nat /\ updates \in Counts /\ fetched \in Ids
  /\ {state, last} \subseteq [count : Counts, broadcast : Ids]
  /\ pc \in {"idle", "count", "fetch", "notify", "truncate", "save"}
  /\ told \in [Messages -> Nat] /\ kills \in 0 .. MaxKills /\ steady \in 0 .. 2

Init ==
  /\ pending \in SUBSET Packages /\ channel = 0 /\ online = TRUE
  /\ count = 0 /\ state = Unsaved /\ last = Unsaved
  /\ pc = "idle" /\ updates = 0 /\ fetched = 0
  /\ told = [m \in Messages |-> 0] /\ kills = 0 /\ steady = 0

-----------------------------------------------------------------------------
Start ==
  /\ pc = "idle" /\ pc' = "count" /\ last' = state
  /\ UNCHANGED <<envVars, count, state, updates, fetched, told, kills, steady>>

(* Mutant: the heading of the list is counted.                                 *)
CountHeader ==
  /\ pc = "count" /\ pc' = "fetch"
  /\ updates' \in IF online THEN {Waiting + 1} ELSE {Waiting + 1, 0}
  /\ count' = updates'
  /\ steady' = IF updates' # Waiting THEN 0 ELSE IF steady = 2 THEN 2 ELSE steady + 1
  /\ UNCHANGED <<envVars, state, last, fetched, told, kills>>

(* Mutant: a pass without updates ends here.                                   *)
CountOrQuit ==
  /\ pc = "count"
  /\ updates' \in IF online THEN {Waiting} ELSE {Waiting, 0}
  /\ pc' = (IF updates' = 0 THEN "idle" ELSE "fetch") /\ count' = updates'
  /\ steady' = IF updates' # Waiting THEN 0 ELSE IF steady = 2 THEN 2 ELSE steady + 1
  /\ UNCHANGED <<envVars, state, last, fetched, told, kills>>

(* Mutant: the file is written only when something waits.                      *)
CountSome ==
  /\ pc = "count" /\ pc' = "fetch"
  /\ updates' \in IF online THEN {Waiting} ELSE {Waiting, 0}
  /\ count' = (IF updates' > 0 THEN updates' ELSE count)
  /\ steady' = IF updates' # Waiting THEN 0 ELSE IF steady = 2 THEN 2 ELSE steady + 1
  /\ UNCHANGED <<envVars, state, last, fetched, told, kills>>

(* A failed count prints nothing, and nothing has no lines: it reads as zero. *)
Count ==
  /\ pc = "count" /\ pc' = "fetch"
  /\ updates' \in IF online THEN {Waiting} ELSE {Waiting, 0}
  /\ count' = updates'
  /\ steady' = IF updates' # Waiting THEN 0 ELSE IF steady = 2 THEN 2 ELSE steady + 1
  /\ UNCHANGED <<envVars, state, last, fetched, told, kills>>

Fetch ==
  /\ pc = "fetch" /\ pc' = "notify"
  /\ fetched' = IF online THEN channel ELSE 0
  /\ UNCHANGED <<envVars, count, state, last, updates, told, kills, steady>>

Show ==
  /\ pc = "notify" /\ pc' = "truncate"
  /\ told' = IF TellsBroadcast THEN [told EXCEPT ![fetched] = @ + 1] ELSE told
  /\ UNCHANGED <<envVars, count, state, last, updates, fetched, kills, steady>>

(* fs::write empties the file first; an empty file reads as nothing told.     *)
Truncate ==
  /\ pc = "truncate" /\ pc' = "save" /\ state' = Unsaved
  /\ UNCHANGED <<envVars, count, last, updates, fetched, told, kills, steady>>

(* Mutant: a pass that fetched nothing forgets the last message.               *)
SaveFetched ==
  /\ pc = "save" /\ pc' = "idle"
  /\ state' = [count |-> updates, broadcast |-> fetched]
  /\ UNCHANGED <<envVars, count, last, updates, fetched, told, kills, steady>>

Save ==
  /\ pc = "save" /\ pc' = "idle"
  /\ state' = [count |-> updates, broadcast |-> Remembered]
  /\ UNCHANGED <<envVars, count, last, updates, fetched, told, kills, steady>>

-----------------------------------------------------------------------------
PendingChanges ==
  /\ pending' \in SUBSET Packages \ {pending} /\ steady' = 0
  /\ UNCHANGED <<channel, online, count, state, passVars, told, kills>>

Publish ==
  /\ channel < MaxMessages /\ channel' = channel + 1
  /\ UNCHANGED <<pending, online, count, state, passVars, told, kills, steady>>

LinkChanges ==
  /\ online' = ~online
  /\ UNCHANGED <<pending, channel, count, state, passVars, told, kills, steady>>

(* The Control Center counts with arx, the AUR and the tools included.        *)
ControlCenterCounts ==
  /\ count' \in 0 .. MaxTotal
  /\ UNCHANGED <<envVars, state, passVars, told, kills, steady>>

(* The session ends or the machine goes down in the middle of a pass.         *)
Kill ==
  /\ pc # "idle" /\ kills < MaxKills
  /\ pc' = "idle" /\ kills' = kills + 1 /\ steady' = 0
  /\ UNCHANGED <<envVars, count, state, last, updates, fetched, told>>

Pass == Start \/ Count \/ Fetch \/ Show \/ Truncate \/ Save
Next == Pass \/ PendingChanges \/ Publish \/ LinkChanges \/ ControlCenterCounts \/ Kill

(* The timer fires again and again, and a pass that runs goes on.             *)
Spec == Init /\ [][Next]_vars /\ WF_vars(Pass)

-----------------------------------------------------------------------------
(* After a right count of a set that has not changed since, what the next     *)
(* pass compares with is that count.                                          *)
Compared == IF pc = "idle" THEN state.count
            ELSE IF pc = "count" THEN last.count ELSE updates
CountIsKnown ==
  /\ steady >= 1 => Compared = Waiting
  /\ steady = 2 /\ pc \notin {"idle", "count"} => last.count = Waiting

(* What was shown as often as it may be is not newer than what is remembered. *)
Memory == IF pc = "idle" THEN state.broadcast
          ELSE IF pc \in {"truncate", "save"} THEN Remembered ELSE last.broadcast
ShownIsRemembered ==
  /\ \A m \in Messages : told[m] <= kills \/ (told[m] = kills + 1 /\ m <= Memory)
  /\ state.broadcast <= channel /\ last.broadcast <= channel /\ fetched <= channel
  /\ pc \in {"notify", "truncate", "save"} /\ fetched # 0 => last.broadcast <= fetched

IInv == TypeOK /\ CountIsKnown /\ ShownIsRemembered

(* The notification about updates does not come back while the pending set    *)
(* stays what it was and every count succeeds (main.rs:8-10, 67).             *)
NoNag == pc = "notify" /\ TellsUpdates => steady < 2

(* No message is given to notify-send twice, but for a pass that was killed   *)
(* between that and saving that it did (main.rs:10, 72).                      *)
ToldOnce == \A m \in Messages : told[m] <= 1 + kills

(* A message that stays on the channel of a machine that comes online is      *)
(* given to notify-send, whatever passes were killed before it (main.rs:5-8). *)
BroadcastArrives ==
  \A m \in Messages : <>[](channel = m /\ online) => <>(told[m] > 0)

(* The count the Control Center paints first catches up with the pending      *)
(* set, also after an update has emptied it: again and again, and in the end  *)
(* nobody but the Control Center itself writes another (main.rs:60-61).       *)
CountCatchesUp ==
  \A p \in SUBSET Packages :
    <>[](pending = p /\ online) =>
      /\ []<>(count = Cardinality(p))
      /\ <>[][count' \in {count, Cardinality(p)} \/ ControlCenterCounts]_vars
=============================================================================
