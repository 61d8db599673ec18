-------------------------------- MODULE News --------------------------------
(* arxos-news: a pass asks every repository of the registry for its latest    *)
(* commit, announces what differs from the commits it has seen, and dumps     *)
(* those into the file it has read them from. Any lookup may fail, and so may *)
(* starting notify-send, which is ignored; a pass can be killed anywhere.     *)
EXTENDS Naturals

CONSTANTS
  Repos,      \* the repositories there may be
  MaxCommits  \* bound: commits of each, numbered from 1; 0 is none

ASSUME MaxCommitsAssumption == MaxCommits \in Nat \ {0}

VARIABLES
  registry,  \* the repositories of repos.list
  tip,       \* the latest commit of each
  stored,    \* news-seen.json
  seen,      \* the same in the pass that runs
  first,     \* this pass has found nothing stored
  todo,      \* the repositories it has not asked yet
  phase,     \* its next step
  known,     \* history: repositories that were stored once
  missed,    \* history: repositories a lookup has failed for
  late,      \* history: repositories added to the registry later
  torn,      \* history: a pass was killed while it dumped
  swallowed, \* history: repositories whose news a pass has passed over
  announced  \* history: repositories announced as a new tool

runVars == <<seen, first, todo, phase>>
historyVars == <<known, missed, late, torn, swallowed, announced>>
newsVars == <<registry, tip, stored, runVars, historyVars>>

(* The file holds a count of packages beside the commits: one that was dumped *)
(* is not empty. One that does not parse is.                                  *)
Commits == [Repos -> 0 .. MaxCommits]
Empty == [any |-> FALSE, sha |-> [r \in Repos |-> 0]]

NewsTypeOK ==
  /\ registry \subseteq Repos /\ tip \in Commits
  /\ {stored, seen} \subseteq [any : BOOLEAN, sha : Commits]
  /\ first \in BOOLEAN /\ todo \subseteq Repos /\ phase \in {"idle", "ask", "dump"}
  /\ {known, missed, late, swallowed, announced} \subseteq SUBSET Repos /\ torn \in BOOLEAN

NewsInit ==
  /\ registry \in SUBSET Repos /\ tip = [r \in Repos |-> 1]
  /\ stored = Empty /\ seen = Empty /\ first = FALSE /\ todo = {} /\ phase = "idle"
  /\ known = {} /\ missed = {} /\ late = {} /\ torn = FALSE
  /\ swallowed = {} /\ announced = {}

-----------------------------------------------------------------------------
Load ==
  /\ phase = "idle" /\ phase' = "ask"
  /\ seen' = stored /\ first' = ~stored.any /\ todo' = registry
  /\ UNCHANGED <<registry, tip, stored, historyVars>>

(* Mutant: a repository that is not known is announced on a first pass too.   *)
AnnouncesAlways(r) == seen.sha[r] = 0

(* A repository that was not seen is a new tool, unless nothing was.          *)
Announces(r) == seen.sha[r] = 0 /\ ~first
Tells(r) == Announces(r) \/ (seen.sha[r] # 0 /\ seen.sha[r] # tip[r])

(* A commit is seen whether or not notify-send could be started for it: news  *)
(* that is to be told may reach nobody.                                       *)
Ask(r) ==
  /\ phase = "ask" /\ r \in todo /\ todo' = todo \ {r}
  /\ \/ /\ seen' = [seen EXCEPT !.sha[r] = tip[r]]
        /\ announced' \in {announced, IF Announces(r) THEN announced \cup {r} ELSE announced}
        /\ swallowed' = IF r \in known /\ seen.sha[r] # tip[r] /\ ~Tells(r)
                        THEN swallowed \cup {r} ELSE swallowed
        /\ UNCHANGED missed
     \/ missed' = missed \cup {r} /\ UNCHANGED <<seen, announced, swallowed>>
  /\ UNCHANGED <<registry, tip, stored, first, phase, known, late, torn>>

(* json.dump into a file that was opened for writing: it is empty first.      *)
Rewrite ==
  /\ phase = "ask" /\ todo = {} /\ phase' = "dump" /\ stored' = Empty
  /\ UNCHANGED <<registry, tip, seen, first, todo, historyVars>>

Dump ==
  /\ phase = "dump" /\ phase' = "idle"
  /\ stored' = [seen EXCEPT !.any = TRUE]
  /\ known' = known \cup {r \in Repos : seen.sha[r] # 0}
  /\ UNCHANGED <<registry, tip, seen, first, todo, missed, late, torn, swallowed, announced>>

Killed ==
  /\ phase # "idle" /\ phase' = "idle" /\ torn' = (torn \/ phase = "dump")
  /\ UNCHANGED <<registry, tip, stored, seen, first, todo, known, missed, late, swallowed,
                 announced>>

Commit(r) ==
  /\ tip[r] < MaxCommits /\ tip' = [tip EXCEPT ![r] = @ + 1]
  /\ UNCHANGED <<registry, stored, runVars, historyVars>>

Ship(r) ==
  /\ r \notin registry /\ registry' = registry \cup {r} /\ late' = late \cup {r}
  /\ UNCHANGED <<tip, stored, runVars, known, missed, torn, swallowed, announced>>

NewsNext ==
  \/ Load \/ Rewrite \/ Dump \/ Killed
  \/ \E r \in Repos : Ask(r) \/ Commit(r) \/ Ship(r)

NewsSpec == NewsInit /\ [][NewsNext]_newsVars

-----------------------------------------------------------------------------
(* What is announced as a new tool was added since, or could not be asked for *)
(* when it was there (arxos-news:92-93); and a pass tries to tell the news of *)
(* every repository that was stored before, unless a dump was torn            *)
(* (arxos-news:97-101). Whether notify-send starts is not asked.              *)
NewsIsTold ==
  /\ announced \subseteq late \cup missed
  /\ swallowed # {} => torn
=============================================================================
