# Verification of arxctl

TLA+ models, TLC runs and TLAPS proofs for the programs of this repository, with
`anond` (the anonymity daemon) and `arxonion` (the Tor namespace launcher) first,
because they keep state in the kernel and on disk that several processes change.
Every definition is translated from the code; `PROJECT.json` gives the source lines
of each one under `map`, the runs, the mutants that show that each checked property
can fail, the findings and the hazards.

## Inventory

| component | state | operations | what is hard |
|---|---|---|---|
| `anond` commands (`anond/src/main.rs`, `state.rs`, `util.rs`) | `session.json`, `pub.json`, the tables, Tor, i2pd, resolv.conf | `up [--i2p] [--mac]`, `down`, `status`, `verify`, `new-identity` | no lock between commands; the session is saved by truncate and write; a kill between any two steps; health read before a long wait and used after it |
| kill-switch (`killswitch.rs`) | tables `inet anond` and `ip6 anond6`, conntrack | `up`, `rearm`, `down`, `is_up` | delete before load; deletes whose failure is ignored; NAT sees only a flow's first packet |
| Tor supervision (`tor.rs`) | torrc, log, pid file, process | `start`, `wait_bootstrap_with`, `stop`, `running`, `new_identity` | crash, restart bound, grace period, timeout, stale log; `stop` signals and does not wait |
| i2p overlay (`i2p.rs`) | i2pd process and pid file | `start`, `wait_ready`, `stop` | additive: a failure may not disturb Tor; its uid in the exempt set |
| DNS pin (`dns.rs`) | `/etc/resolv.conf` and its immutable bit, backup in the session | `pin`, `restore`, `reconstruct_resolver`, `is_pinned` | a lost or self-captured backup; reconstruct; a failed restore is ignored |
| hardening (`harden.rs`) | swap, sysctls, hostname and its mount, machine-id mount, MACs, backups in the session | `apply`, `restore` | a second `up` captures the spoofed values; a crash before the save |
| probes (`verify.rs`) | none | `run`, `exit_check` | gates read before a 30 s exit check |
| `arxonion` (`arxonion/src/main.rs`) | namespace `arxonion`, veth, nft table, sysctls, `/etc/netns` | `up`, `down`, `run`, `shell`, `status` | half-built setup, Ctrl-C against `Drop`, two concurrent runs |
| `arxos-notify` | `update-count`, `notify-state` files | one timer-driven pass | counts instead of sets, failure read as zero, two writers of the count |
| GUI backend (`src-tauri/src`) | the update-count cache; otherwise reads the system | Tauri commands | cached read against live read, a streamed child's two pipes |
| GUI (`ui/app.js`) | panel state in the page | loaders, polls, action handlers | late answers painted over newer ones; two readers of one count |
| `arxos-kernel` | installed kernels, boot entries | `install`, `remove`, `list` | check then act on the last kernel, in-place upgrade of the running one |
| `arxos-news` | `news-seen.json`, `news-count` | one timer-driven pass over the repositories | the file is dumped in place; what a first pass is; a failed source |
| VM tools (`src-tauri/src/vm_tools.rs`) | packages, group, service or module, login session | one script per engine in a terminal, `vm_status` | two terminals and one package lock; a script that stops half-way |
| wallpaper (`src-tauri/src/wallpaper.rs`) | one file | sets plasma's wallpaper | not modelled: it keeps no state |
| `arxctl` TUI, `arxctl-gui`, `install.sh`, hwinfo, units, workflows | none of their own | drivers of the above | not modelled: pure input/output |

`anond` and `arxonion` share no code but share the host: `arxonion` needs a Tor that
listens, and both load nft tables. The GUI starts `anond` and `arxonion` as child
processes, reads `pub.json`, and never takes part in their state changes.

What makes each correct: a session that is *reported* Active is protected (tables, pin, live Tor);
the switch is armed first and removed last, when Tor has been told to stop; every failure after
arming stays blocked; `down` returns the host to what it was before `up`, from every state a crash
can leave; every command returns; a namespace exists only as long as something uses it; a
notification is given out once per change and no news is passed over; a panel shows the newest
answer; a kernel to boot stays; a script that says it is done is.

## Modules

| module | models |
|---|---|
| `Anond` | the commands `up`, `down`, `status` as concurrent processes over the host state |
| `Packets` | `Anond` composed with one connection of a user: NAT, conntrack and the flush |
| `Protection` | the abstract specification of `anond`: what it promises, without how |
| `MCAnond`, `MCAnondRace` | TLC instances of `Packets` and `Anond`; the second adds the history variables `alone` and `kept` |
| `AnondProofs`, `ObserverProofs` | TLAPS proofs about `Anond`; and about what is observed beside it: the connection of `Packets`, its refinement of `Protection`, and the commands that are alone in `MCAnondRace` |
| `HostSession` | hardening and the DNS pin: what `up` changes on the host and the backups `down` restores |
| `MCHostSession`, `HostSessionProofs` | the hosts TLC starts from; proofs |
| `Arxonion` | concurrent `run`, `shell`, `up`, `down` over one namespace, its veth and its table |
| `Isolation` | the abstract specification of `arxonion`: nobody inside unless sealed |
| `MCArxonion`, `ArxonionProofs` | symmetry for TLC; proofs, the refinement of `Isolation` among them |
| `Notify` | one pass of the update ping, beside packages, broadcasts and a network that change |
| `Badge` | the file `update-count` with its two writers, and the two places that show it |
| `Stream` | streamed `anond` actions, several at once: child, two pipes, worker and channel of each, and the one console |
| `Relay` | the abstract specification of `Stream`: every line once, the answer last, lines removed only by a later click |
| `VmSetup` | the setup scripts of the three VM engines in several terminals, and `vm_status` |
| `Kernels` | `arxos-kernel install` and `remove`, several at once, beside upgrades by pacman |
| `News` | passes of `arxos-news` over a registry that grows |
| `Listings` | the two tables of the network panel, as functions of what `ss` and `nmcli` print |
| `Desktop`, `MCDesktop` | the seven programs from `Notify` on side by side; their instance for TLC |
| `ToolProofs`, `ControlCenterProofs` | proofs about `Notify`, `Kernels` and `News`, and about `Badge`, `VmSetup`, `Stream` and `Listings` |
| `DesktopProofs` | proofs about the composition |
| `PanelProofs` | proofs about `Panels` |
| `Panels` | a panel of the Control Center with its interval, its clicks, and the calls to the backend |

Where two programs meet, one stands for the other by what it can observe: `Arxonion` sees Tor
start and stop, `HostSession` sees `live`, `Panels` sees the public snapshot change, `Badge` has
the writes of `arxos-notify` and `Notify` those of the Control Center. `Packets` is a composition
in the other sense: its steps are the steps of `Anond`, with the connection changing beside them,
and the flush, which both share, is one step. `Desktop` puts programs in one run that do not
interact: a behaviour picks one of them and the rest stay as they start.

### Anond

A process is a slot in which one command runs at a time: `up` and `down` in
`Writers`, `status` in `Readers`. `pc` is the next step; a step is one external
command or file write. `Session::save` is two steps, `Truncate` and `WriteSession`,
since every other command reads a truncated file as no session. `health()` is
`Effective` and `Leaking`.

`Faults` names the failures that may happen: a kill of a command between two steps, a reboot, the
death of Tor or i2pd, a ruleset rejected by nft, a delete nft refuses (which the code ignores: the
table stays, and a load appends to it), a failed save, pin, launch, uid lookup or conntrack flush.
`StopTor` is `tor::stop`: it signals Tor and removes the pid file, so that Tor no longer counts as
running (`ending`) but is there until `TorGone`. Bootstrap timeouts and failed exit checks are
always possible.

Left out: exit IP and percentage values, printed text, `verify` and `new-identity`
(they change nothing that is modelled), a `pub.json` write that fails. `Next` is `Apart`
and the flush, so that `Packets` can give the flush an effect on the connection. In `MCAnondRace`
`alone` marks the commands that nobody ran beside, `kept` what nft or the resolver file
refused such a command.

### Protection and Packets

`Protection` has two bits, new traffic is blocked and protection is claimed, and what a connection
does: nothing, leave in the clear from before the block (`clear`), or answer its peer in the clear
on a connection that was cut (`answer`). A claim may be made only under the block and while
nothing is `clear`, and the block lifted only after the claim was withdrawn. `answer` is allowed,
since the code does not prevent it.

`Packets` follows one connection of an ordinary user to a public address. It is opened `direct`
while no table is loaded, redirected (`proxied`) when Tor listens behind the table, and refused
otherwise. Deleting and loading tables does not touch it; only the flush makes conntrack forget it
(`cut`), after which the filter drops its own packets until the tables are gone. A packet of its
peer makes conntrack take it up again (`Revive`, as `nf_conntrack_tcp_loose` is by default): the
rules have no input chain, and what is answered is established (`revived`). A flush that fails
leaves it, with the warning of `killswitch.rs:100` (`warned`). `NoClearFlow` is therefore about
what the user can be told nothing of and no peer has revived. Left out: the exempt users, local
and DNS destinations, IPv6 packets (the second table is in `Anond`).

### HostSession

One command at a time; the overlaps are `Anond`'s subject. The two sysctls, swap, the
transient hostname, the mounts stacked on `/etc/hostname` and `/etc/machine-id`, the
address of each interface and `resolv.conf` with its immutable bit are the host; `mem`
is the session in the running command and `file` the one on disk, so that the gap
between changing the host and saving what was changed is there to be killed in. Values
are reduced to what decides a branch: own, generic, random, pinned, rebuilt. `orig` is
what the host was before the first session. `Reassert` is the hostname manager that
re-reads the static name.

Every helper may fail: those of the hardening (`cmd`), the pin (`pin`: also halfway, which leaves
an empty file), a save, and those of `down` (`undo`: a file that stayed immutable keeps the pin, a
write that stopped halfway leaves it empty). `swapoff -a` turns off all swap and `swapon -a` turns
on what `/etc/fstab` lists, so the swap in use is a set. `answered` is history: the last `down`
could write resolv.conf.

### Arxonion

A step is one `ip`, `nft` or sysctl call. `Nets` are namespace objects, so that a
namespace that was deleted by name but still holds a process is a different one from
the namespace that is built next; `Reap` is the kernel's rule for when the veth goes.
`ClearPath` reads the chains of `apply_nft`: an app has one when it is routed,
forwarding is on and the table is not there. `Overlap` lets commands run at once,
which nothing in the code prevents.

`Isolation` says what the header of `main.rs` promises and no more: an app enters only what
is sealed, and what is sealed stays so while somebody is inside or `up` has confirmed it.
`sealed` is a namespace with its veth, its route and the table in front, `inside` the
slots with an app. Only commands that do not overlap keep it; that is what `Sequential` is for.

### Notify

A pass is six steps: read the state, count and write `update-count`, fetch the channel, show,
truncate, save. `kills` counts the passes that ended early, and `steady` the counts in a row that
read the present pending set; both are history variables that exist for the properties.
`ControlCenterCounts` is the other writer of `update-count`, with any number at any time. `told`
counts what was given to `notify-send`: whether that starts and shows it, the code does not ask.
An id of a broadcast is its position in the order of publication.

### Badge

`calls` and `results` are the two queues between page and main thread; a live count is
three steps, since `arx` counts for seconds before `update-count` is emptied and written
(`HealTruncates`, `Heal`); either write may fail, which nobody asks (`HealFails`).
The notifier truncates and then writes. `healed` is history: nothing but the page's own
live count has been written to the file since. Values count what waits in two sources,
since the two writers count different ones.

### Stream

The child blocks on a full pipe; the worker reads stdout to its end, then stderr, then waits for
the child. A line is a unit: `anond` prints UTF-8, so no read of a line fails. A click may come at
any time: it empties the console and starts another worker beside those that stream (`Actions` is
how many at once), and each goes on to write to it. `wiped` is history: what of a command a later
click has removed. Assumed: what `anond` prints on stderr fits one pipe (`MaxLines["err"] <=
Capacity` in the run; with more the two wait for each other, which is a divergence below), and a
daemon that `anond` leaves behind does not keep its pipe open.

`Relay` forgets the pipes, the workers and the channels: per command and pipe it counts lines
printed, shown and removed by a later click, and a command may be answered only when the first is
the sum of the others. Neither assumption is needed for it, since a child and a worker that wait
for each other show nothing wrong.

### VmSetup

`at` is the step of each terminal's script, `machine` what it has set up, `session` the groups of
the login session, which only `Login` refreshes. `lock` is pacman's database lock: an install that
finds it taken fails. `set -e` ends the shell at the first failing command, and the terminal with
it, before the prompt of `wrap_close`. Assumed: nobody uninstalls an engine meanwhile. The package
with the kernel headers is left out.

### Kernels

`remove` reads which kernel runs, then counts, then calls pacman: three steps, as `Put` and
`FetchVerified` are two of `install`. `Named` is whether the name of the running kernel can
be read, which an upgrade in place prevents. `overlapped` is history: since boot two
removals were past their checks together. Left out: `arx`, to which the tool hands over
where it exists, versions, headers.

### News

`stored` and `seen` are the file and the dictionary of a pass; both are "any" plus a commit per
repository, since an empty file and one without a repository mean different things. `known`,
`missed`, `late`, `torn`, `swallowed` and `announced` are history variables for the property. The
code ignores a `notify-send` that cannot be started and counts the commit as seen: news is "told"
when a pass tries to tell it, and `announced` may miss what it tried. Left out: the count of
packages that is announced beside.

### Listings

`net_ports` and `net_wifi_scan` are operators; the actions show their value for every output of up
to `MaxPrinted` lines. The property is a reference definition from the lines alone. `SortBy` is a
stable sort by a relation between places, as `sort_by` is by a comparison. The order the property
states is the code's: what the network reaches, then by port; the active network, then by signal;
no service twice in a row (`net.rs:168` and `265` say less, see below). The values of a `HashMap`
come in any order, so `net_wifi_scan` is a set.

### Panels

A behaviour follows one of eight panels, chosen at the start, since panels share
nothing with each other: each has its own timer variable, elements and commands. Tauri
runs commands that are not `async` one after the other on the main thread; `calls` and
`replies` are its two queues. `shown` is what the page shows, reduced to what it tells
apart; `actual` is the state of the machine. A loader that awaits its first paint
sends `load`, everything else that reads sends `read`; a click sends `set`, which pkexec
may refuse; the isolation toggle only opens a terminal, so the change comes from
`Changes` or never. A paint of the ports replaces the rows, so a button that waits
for its call may be replaced by one that does not. `alive` counts the live intervals and
`ticking` says whether the timer variable holds one of them: they differ when one is lost.

`Rest` is not a step of the program: it marks the point from which neither the user nor
anything outside acts, after which the page has to settle. Left out: the parts of a paint
that do not decide anything, alerts, the `confirm` before a default route is cut or a
service disabled, and a snapshot that is Active without an exit address.

## Runs

| run | instance | what it shows |
|---|---|---|
| `AnondSingle` | one writer, one status reader, one connection, all eleven faults, one restart | `TypeOK`, `NoFalseGreen`, `SwitchRemovedLast`, `FailureStaysBlocked`; `NoClearFlow`; and that all of it implements `Protection` (`KeepsPromise`) |
| `AnondLive` | one writer that is not killed, Tor and i2pd that may die for ever, every other fault but a failed save and a refused delete, the code's four restarts, fairness | `CommandsReturn`, `QuietSnapshot`, `NoOrphan` |
| `AnondRace` | two writers, killed anywhere, with failed saves, loads, deletes and pins | whatever a race has left, one undisturbed `down` releases the host but for what was refused to it (`LoneDownIsComplete`), and one undisturbed `up` protects it before it publishes (`LoneUpIsProtected`) |
| `AnondTwoUps` (violation) | two writers, nothing fails | `NoFalseGreen` fails: a second `up` deletes the tables of a session the first reports Active |
| `HostAll` | all 64 original hosts, one interface, every fault, `up` again and bare `down` at any time | `NoDeadPin`, `MountsNeverStack`, `NoSelfBackup`, `SpoofIsDurable` |
| `HostOnce` | hosts with the usual sysctls, a resolver and no swap but that of `/etc/fstab`, two interfaces, one `up` per `down`, a failing hardening or pin, dying Tor, reboots | `Reversible` |
| `HostReUp` (violation) | as above with `up` again and no faults | `Reversible` fails: the backups are overwritten by an empty session |
| `ArxSingle` | two slots, one command at a time, no failed setup, no signal; Tor comes and goes | `FailClosed`, `NothingLeft`; and that it implements `Isolation` (`KeepsIsolation`) |
| `ArxOverlap` | three slots at once, interrupted under their apps, apps that survive | `ClosedAtRest` |
| `ArxHalfBuilt` (violation) | one command at a time, a setup step fails | `FailClosed` fails: the next `run` takes the half-built namespace for a persistent one |
| `Desktop` | the seven programs of `Desktop`, one per behaviour | `Notify`: `NoNag`, `ToldOnce`, `BroadcastArrives`, `CountCatchesUp`; `Badge`: `TileIsBadge`; `Stream`: `StreamEnds`, and that it implements `Relay` (`Relays`); `VmSetup`: `DoneIsReady`; `Kernels`: `KernelRemains`; `News`: `NewsIsTold`; `Listings`: `ListingsMatch` |
| `Panels` | two exit addresses, two calls in flight, one streamed action or timeout | `OneInterval`, `QuietWhenClosed`, `ShowsWhatIs`, `LocationOfExit` |

Why the bounds are enough. In `Anond` a race needs two writers; a third only adds another of the
same kind, and the state is one copy of each thing, so there is nothing to multiply. `MaxRestarts`
is 4 in the code and in `AnondLive`, whose subject it is; one restart shows what a restart does to
the rest, and where Tor's death during the wait is not the subject it is 0. `AnondSingle` and
`AnondRace` have a VIEW that leaves out what no guard and no property of the run but the type
invariant can read (the exemptions, and the log while nobody waits for it; `pub.json`). One
interface suffices for every property of `HostSession` but `Reversible`, where two let one address
be changed and the other not. `Nets` needs one object per slot that can hold an app, since an app
keeps its namespace alive. Two packages give two sets with the same count, two broadcasts a newer
and an older one, and one kill is what separates "once" from "once more"; the proofs cover the
rest. A call beside the one that is answered is what makes answers late: with `MaxCalls` 2 a poll
is in flight when a click is made, and with `MaxLater` 1 a timeout is pending meanwhile.

In `Desktop`: `MaxCalls` 3 is what a page asks for at boot; one update in each of two sources
makes the two writers disagree; two lines on stdout are more than the pipe of one holds and one on
stderr fills it exactly; two actions let one be started while the other streams; a second terminal
is the one that finds the lock taken; three kernels and two runs let two removals both pass a
count of more than one; two repositories let one be known and the other not, and two commits let
one be news; three lines let a duplicate be separated by another line.

`Kill`, `Publish` and the counters `kills` and `told` are bounded by `MaxKills` and `MaxMessages`,
`ControlCenterCounts` by `MaxTotal` (2: a right count, a wrong one and none), `Revisit` by
`MaxCalls`, `Commit` by `MaxCommits`, `Writes` by `MaxLines`, `StartAnond` by `Actions`; every
other variable is finite by itself.

`CHECK_DEADLOCK FALSE` is set in `Panels` alone: a closed panel without an interval
after `Rest` has nothing to do. Everywhere else a command can always be started.

## Fairness

- `AnondLive`: weak fairness of each process. Its steps are system calls and waits with
  timeouts; nothing makes them wait for another command. Nothing is assumed of Tor, which may
  die each time it is started. Nobody kills the command: `FairSpec` is over `Unkilled`, the steps
  but `Kill`. A reboot ends it, which counts as a return.
- `Desktop`, for `Notify`: weak fairness of the pass, for the systemd timer and a process that
  goes on once it was started. Nothing is assumed of the network, of the mirrors or of the
  publisher: a liveness property says "if it stays so".
- `Desktop`, for `Stream`: weak fairness of each child, each worker and each loop that emits,
  which are threads of two programs that only a pipe can hold up; a child may end by a signal.
  None is assumed of the user or of the answers.
- `Panels`: weak fairness of the main thread, of the event loop that takes replies, of
  intervals and of timeouts. Nothing is assumed of the user. The conclusions speak of
  behaviours in which the user and everything outside have come to rest, since a page that
  polls can only trail a machine that keeps changing.

## Proofs

| theorem | under | says |
|---|---|---|
| `AnondProofs!TypeCorrect` | nothing | types, for any number of concurrent commands |
| `Invariance` (`IInv`), `NoFalseGreenHolds`, `SwitchRemovedLastHolds`, `FailureStaysBlockedHolds` | `SingleWriter` | the invariant and the safety properties under every fault, for any restart bound and any readers |
| `QuietSnapshotHolds` | `SingleWriter`, `NotKilled` | between commands a green snapshot goes with a green session file |
| `NoOrphanHolds` | `SingleWriter`, `NotKilled`, no refused delete | between commands no table, running Tor or i2pd is left without a session |
| `ObserverProofs!LoneDownIsCompleteHolds`, `LoneUpIsProtectedHolds` | nothing | for any number of writers and readers that race, fail and are killed anywhere; but for what nft or the resolver file refuses the one command |
| `ObserverProofs!NoClearFlowHolds` | `SingleWriter` | under every fault, while Active is reported a connection leaves in the clear only if the user was warned of it or its peer revived it |
| `ObserverProofs!KeepsPromiseHolds` | `SingleWriter` | `PacketSpec => Protection`: every step maps to a step of `Protection` or a stutter |
| `HostSessionProofs!TypeCorrect`, `NoDeadPinHolds`, `MountsNeverStackHolds`, `NoSelfBackupHolds`, `SpoofIsDurableHolds` | nothing | for any interfaces, original hosts, faults and sequences of commands |
| `HostSessionProofs!ReversibleHolds` | `OneUpPerDown` | `down` restores everything, for any number of interfaces, although commands of the hardening and the pin fail, Tor dies and the machine reboots |
| `ArxonionProofs!TypeCorrect` | nothing | types, for any number of slots that overlap, fail and are killed |
| `ClosedAtRestHolds` | no setup fails or is killed | for any number of overlapping commands, interrupted under their apps, which may survive |
| `FailClosedHolds`, `KeptOutlivesHolds` | `Sequential` | for any number of slots and namespaces |
| `NothingLeftHolds` | `Sequential`, no signal | the last command cleans up |
| `KeepsIsolationHolds` | `Sequential` | `Spec => Isolation`: every step maps to a step of `Isolation` or a stutter |
| `ToolProofs!TypeCorrect`, `NoNagHolds`, `ToldOnceHolds` | nothing | for any finite set of packages and any bounds |
| `ToolProofs!KernelTypeCorrect`, `KernelRemainsHolds` | nothing | for any finite set of kernels and any number of runs |
| `ToolProofs!NewsTypeCorrect`, `NewsIsToldHolds` | nothing | for any repositories and commits |
| `PanelProofs!OneIntervalHolds`, `PanelTypeCorrect` | nothing | for any exit addresses and any bounds on the calls in flight |
| `ControlCenterProofs!TileIsBadgeHolds` | nothing | for any counts and any number of calls on their way |
| `ControlCenterProofs!DoneIsReadyHolds` | nothing | for any number of terminals |
| `ControlCenterProofs!RelaysHolds` | nothing | `StreamSpec => Relay`, for any number of streams at once, any pipe, any output and a signal at any moment |
| `ControlCenterProofs!ListingsMatchHolds` | nothing | both tables, for output of any length, any ports and names |
| `DesktopProofs!EachKeepsItsSpec` | nothing | `DesktopSpec` implies the specification of each program but `Notify`, fairness included |
| `DesktopProofs!DesktopTypeCorrect`, `DesktopKeepsPromises` | nothing | every safety property of `Desktop`'s run, in the composition |

A few are theorems only, since what they say is part of a stronger statement that a run checks or
of an invariant below: `Invariance`, `KeptOutlivesHolds`, `EachKeepsItsSpec`.

The assumptions are where the code is known to need them: without `SingleWriter` `AnondTwoUps` is
a counterexample, without `Sequential`'s "no failed setup" `ArxHalfBuilt` is, without
`OneUpPerDown`'s "no second `up`" `HostReUp` is. They are hypotheses of the theorems and not
`ASSUME`s of the modules. In full: `SingleWriter` is at most one writer; `NotKilled` no kill, no
failed save and no concurrent `status`; `Sequential` one command at a time, no failed setup, no
kill (an interrupt under the app is allowed) and no app that survives its command; `OneUpPerDown`
a `down` after each `up` and only then, no kill, no failed save, no failing helper of `down`, and
the usual sysctls, a resolver of one's own and no swap outside `/etc/fstab` before.

*Anond.* `NoFalseGreen` is not inductive: a step may only publish Active if the tables are
loaded, and that they are follows from where the writer is. `Coherent(p)` ties the
writer's `pc` to the host: what is loaded (`ArmedAt`), what the session may claim
(`ClaimAt`), that the pin stands between its gate and its use (`PinnedAt`), what
a half-done save will write (`WriteAt`) and what `down` has undone so far (`DrainAt`).
Each step is one case; a step of another
process than the writer is a reader's and touches none of it. `QuietSnapshot` and `NoOrphan`
are about commands at rest, and `Rest` says for each `pc` which of session, snapshot and
host already agree (`RestAt`, `Settled`); it builds on `IInv`.

*Packets and Protection.* Nothing in `Anond` mentions the connection, so the packet invariant only
has to say at which `pc` it cannot be `direct`: from the flush on, and whenever Active is
reported; `revived` it may be there. That the tables are loaded there is `IInv`. For the
refinement `blocked` is both tables, `claimed` is `Effective = "Active"` and `clear` a `direct`
connection. Most steps of `Anond` stutter; the ones that do not are the load and the two deletes
(Block, Unblock: by `IInv` the session does not claim Active there), the write of an Active
session (Claim), Tor's death and the signal `down` sends it (Withdraw), the flush (Disconnect), a
packet of the peer (Answer) and a reboot (Restart).

*Races.* For several writers nothing like `Coherent` holds. What does hold is about a command that
has been alone since it started: `ReleasedAt(p)`, what a `down` has undone by each `pc`, and
`UpAt(p)`, what a bring-up has loaded and exempted by each `pc`, both up to what was refused
(`kept`), are kept by its own steps, by readers, and by a Tor that dies or comes up; a step of
another writer ends the claim.

*HostSession.* The invariants need that a clean host stays clean until the next `up`
(`CleanIsIdle`), that `restore` of the resolver has happened before `down` can end (`DnsRestored`,
if it did not fail), and that a name is backed up only if it is not the generic one
(`GenericHost`, `OwnName`): the last is what excludes that a second session takes the first one's
spoof for the original. `Durable` adds that the mount which a session has recorded is only taken
away by `down`. `Reversible` needs more than the backups: `Backed` ties each field of a session to
the part of the host it saves, and `Unrecorded` says that what is not in the session yet was not
touched yet. `InHand` is both for the session in memory; `Undoable` goes over the steps of `up`,
in the order of `apply`, and of `down`, and ends in `Untouched`.

*Arxonion.* Between two commands the namespace is whole or gone, and each step of the one that
runs leaves it in one shape (`Phase`). `KeptAt` and `OwnedAt` say who will remove it. The
induction is over "the slot whose turn it is": `Others` shows that the rest are idle before and
after, so only one slot's shape has to be proved. Overlapping commands have no such shape, and
`ClosedAtRest` rests on less: if there is a route and no table, some slot is about to remove the
one or load the other (`Attended`). A setup that fails in between takes that slot away, which is
why the theorem excludes it and `ArxHalfBuilt` refutes `FailClosed`. For the refinement most steps
stutter: the load of the table seals, its removal unseals, an app's start enters, its end leaves,
the confirmation of `up` keeps and the start of `down` releases. That a teardown finds nobody
inside is `Alone` and `NoOrphans`: only one slot is busy, and an idle one has no app.

*Notify.* `NoNag` needs to know with which number the next pass will compare, wherever
the present one is: `Compared` is that number and `CountIsKnown` says it is the size of
the set. `ToldOnce` needs that a message which has used up its showings is not newer
than what is remembered or about to be (`Memory`, `ShownIsRemembered`).

*Kernels.* Two reasons keep a kernel, and each has its invariant: as long as the running one can be
named nobody is about to remove it (`RunningStays`), and as long as removals have not overlapped
the one that passed the count leaves another (`OneIsLeft`). Only when both fail is none left.

*News.* A repository that was there from the start and always answered is in every file that was
stored and in every pass that has asked it (`SteadyIsSeen`), so it is never announced as new; and
the file is there from the first dump that knew a repository until one is torn (`FileStays`), so
only then a pass takes itself for the first one.

*Panels.* The interval that is alive is the one in the timer variable (`Held`): every step sets
it, clears it or leaves it alone. The types need three more facts: the queues hold only what this
panel asks and is told (`QueuesOK`); calls, replies and pending timeouts have one bound together
(`Bounded`), since a timeout that fires makes a call; and while a call about turbo is in flight
the box has been painted (`TurboPainted`), without which a refusal would invert nothing.

*Badge and VmSetup.* A page asks for the live count once (`OneLive`), so after it everything that
is on its way to the page was read from the file it wrote (`AllAreCache`). A script that has come
to a step has left behind what the steps before it set up (`Reached`).

*Stream.* Lines are conserved: what a command printed on a pipe is in the pipe, on the channel, on
the page or was removed from it (`Conserved`), and where the worker is says which of these are
empty (`WorkerAt`). When the worker waits for the child both pipes are drained and the child is
gone, so the answer is the last thing sent.

*Listings.* The tables are a `CHOOSE` in two places, and each has to be shown to exist. A sort is
a permutation without inversions: any strict weak order, with the place to break ties, is total,
and the number of places before a place is its rank (`RankedPermutation`). A fold is a function on
sets of places that satisfies an equation: `FoldExists` builds it up to each length. `Induct`,
from the least element of a set of numbers, then carries an invariant along the lines. For `Dedup`
it is a strictly increasing map from kept rows to rows which meets the first row of each service
(`Keeps`); with the exposed rows sorted first, the first row of a service is an exposed one if
there is one. For `Merge` it is the reference definition itself, for the lines read so far
(`Merged`).

*Desktop.* A step is a step of the program that runs, or leaves a program's variables as they are,
and the variables of a program that does not run are as they start; so a behaviour of `Desktop` is
one of each program (`EachProgram`, `EachStart`), and its invariant is the conjunction of theirs.
A pass of `Notify` is fair only where `Notify` is the program that runs, so its specification is
not implied; what is proved of it are invariants, which do not need the fairness.

Only model-checked: every liveness property (`CommandsReturn`, `BroadcastArrives`,
`CountCatchesUp`, `StreamEnds`, and those of `Panels`: `QuietWhenClosed`,
`ShowsWhatIs`, `LocationOfExit`), which needs ENABLED. Every invariant of a passing run, and every
refinement, is a theorem. No module with a proof reaches a RECURSIVE operator, and none needs one.

## Findings and divergences

Three runs end in a counterexample, and `PROJECT.json` has the line each contradicts:
`AnondTwoUps`, `HostReUp`, `ArxHalfBuilt`. The following were met while translating; they are
contained in the models as the code has them, and no run is spent on them unless noted.

`anond`
- `killswitch::up()` deletes both tables before it loads the new ones (`killswitch.rs:73`): a
  second `up` from Locked opens egress until `nft` returns, against "egress stays BLOCKED
  from Locked through Draining" (`state.rs:7`).
- `status` publishes what it computed before an exit lookup of up to 30 s (`main.rs:274`), so it
  can overwrite the snapshot of a `down` that finished meanwhile, against `main.rs:273`.
- The failing end of `up` reports Locked after a concurrent `down` has released the host
  (`main.rs:225`); `pub.json` stays Active when Tor dies and nobody asks (`main.rs:214`).
- `restore` sets `tcp_timestamps` to 1 whatever it was, and never restores the icmp sysctl
  (`harden.rs:114`); hence the "usual hosts" of `HostOnce`.
- A bare or second `down` without a backup rewrites a resolver that was never ours
  (`main.rs:236`). `is_pinned` takes any loopback stub for the pin (`dns.rs:72`).
- A conntrack flush that fails is reported and ignored (`killswitch.rs:95`), as `warned` in
  `Packets`. i2pd's uid stays exempt after i2pd failed to start (`main.rs:157`, `203`).
- A flushed connection is taken up again by conntrack when its peer speaks, and `ct state
  established` lets the answer out in the clear (`killswitch.rs:52-60`), against "a mid-stream
  packet is not a SYN, so it is neither redirected nor established, and hits policy-drop"
  (`84-86`). `revived` in `Packets`.
- `tor::stop` signals Tor and does not wait (`tor.rs:117-126`; `i2p.rs:47-60` does): the tables
  may go while Tor still closes its circuits, against "Tor stopped" (`main.rs:246`). `ending` in
  `Anond`. An `up` right after may find the ports taken (`Launch`).
- A delete that nft refuses is ignored (`killswitch.rs:133-134`): `down` then reports Down with
  the table loaded, and an `up` appends to it, so that exemptions of an earlier session stay.
  `delete` in `Anond`, `kept` in `MCAnondRace`.
- `down` ignores what restoring the resolver returns (`main.rs:236`): a file that stays immutable
  keeps the dead pin, a write that stops halfway leaves it empty, and the session with the backup
  is cleared all the same. `NoDeadPin` is stated for a `down` that could write it. `swapon -a`
  (`harden.rs:115`) turns on what `/etc/fstab` lists, so that zram and swap turned on by hand stay
  off, against the reversibility of `harden.rs:95`.
- `up --mac` over an unfinished session records the random address as the original one
  (`harden.rs:80-92`); `NoSelfBackup` is about the resolver and the hostname only.

`arxonion`
- Teardown deletes the table before the namespace (`main.rs:158`), under another command's app.
- A signal ends `run` without its guard (`main.rs:321`, against `16-17`); the sysctls and
  `/etc/netns` are never put back (`main.rs:84`).
- `up` adopts the namespace of a running command, which removes it when it ends
  (`main.rs:274` against `315-317`).

`arxos-notify`
- A failed count reads as zero and is remembered, so the set is news again although it did not
  change (`main.rs:31-34`, `67`, against `8-10`); an update that replaces another leaves the
  count and is not told (`main.rs:68`). Without `notify-send`, or with `--silent`, a broadcast
  is remembered as shown (`main.rs:86-92`). An edge cache that serves an older channel makes
  both messages be told again (`main.rs:76`).
- `update-count` has a second writer with another unit: arx's total (`src-tauri/src/main.rs:147`),
  which leaves the file off the pending set until the next pass. `CountCatchesUp` says that each
  pass sets it right.

Control Center
- The badge is refreshed at boot only (`app.js:875` against `831-832`); a live count that
  fails is a number, not an error (`src-tauri/src/main.rs:151` against `app.js:863` and
  `main.rs:122-123`); a list that fails reads "Everything is up to date" (`main.rs:168`).
- After a pass of `arxos-notify` the next visit of the dashboard shows pacman's count while the
  badge keeps arx's total (`src-tauri/src/main.rs:125`), and `TileIsBadge` is stated until then.
- Commands of 7 to 10 s run on the main thread and hold every other paint up; stdout of `anond` is
  drained before stderr (`main.rs:510-515`), so that a child with more than a pipe of stderr and
  the worker would wait for each other; `runAnond` has no guard against a second click
  (`app.js:646`), which is how `AnondTwoUps` is reached from the page: it clears the console (647)
  under the first command, and the lines of both follow, unmarked (`wiped` in `Stream`).
- A failed write of `update-count` is ignored (`src-tauri/src/main.rs:147`), and may leave it empty.
- The button of an interface is enabled 900 ms before it gets its text; a click in between
  asks for off (`app.js:446`, `453`). A refused turbo inverts whatever is shown (`app.js:318`),
  and a location lookup that failed is not repeated for that address (`app.js:625`); the next
  poll repairs the first, `ShowsWhatIs` says so, and `LocationOfExit` allows the second.
- A failed VM script closes its terminal at once, since `set -e` (`vm_tools.rs:93-123`) ends the
  shell before `wrap_close` can ask (`main.rs:301-304`: "on failure it waits for the user so the
  error can be read").
- Ports: without `ss` the page says "Nothing is listening. Nice and locked down." (`net.rs:151`,
  `app.js:354`). A service's IPv4 and IPv6 rows both stay when another process listens on the same
  port and sorts between them, since `dedup_by` looks at neighbours (`net.rs:170`, against `168`);
  the property says "not twice in a row". Wi-Fi: the active network comes first and only the rest
  by signal (`net.rs:293`, against "strongest first", `265`); the row of the connected network
  shows signal and security of its strongest access point, which need not be the connected one
  (`net.rs:288-290`).

`arxos-kernel`
- Two removals that overlap after the running kernel was upgraded in place both pass the count
  and leave none (lines 98-102). `KernelRemains` says that nothing less does it.

`arxos-news`
- A first pass without a network leaves a file that is not empty, so the next pass announces
  every repository as a new tool (lines 83, 93, 112); a kill during the dump leaves a file
  that does not parse, and the pass after it passes over its news (line 113). `NewsIsTold` allows
  both and nothing else.
- A `notify-send` that cannot be started is ignored and its commit counts as seen (lines 100-101),
  so that the news reaches nobody. `NewsIsTold` is about a pass that tries; `arxos-notify` ignores
  it likewise (above).

## Plan

Done, in this order: `Anond`, `HostSession`, `Arxonion`, `Notify`, each with its proofs, and
`Panels`; then `Protection` and `Packets` with the refinement, `News`, `Badge`, `Stream`,
`VmSetup`, `Kernels`, `Listings`; the proofs of `QuietSnapshot`, `NoOrphan`,
`SpoofIsDurable` and `Reversible`, and of what holds when commands race
(`LoneDownIsComplete`, `LoneUpIsProtected`, `ClosedAtRest`); `Isolation` and `Relay` with their
refinements, and the proofs about `Listings`, the types of `Panels` and the composition. To come:

1. `Bootstrap`: the wait of `tor.rs` with grace period, stale log and timeout as an
   algorithm, refined by the four `Poll` actions of `Anond`.
2. The clicks of the network panel that `Panels` has not: block a port, scan and connect to
   a network.
3. The count of packages in `News`.

The runs are kept few: a component that stands alone joins `Desktop`, and a disagreement
that only restates a step of the code is described above instead of run.

## Not modelled

| part | why |
|---|---|
| `verify`, `new-identity`, printed output | change no state that is modelled |
| torrc, nft syntax, log parsing | formats; the models have what the rules do and when Tor is ready |
| wallpaper, arsenal and kernel panels, `arxonion_run_app`, sshd | one query or one program per click, no state between clicks |
| tuning, performance profile, network rates | the value shown is the value read; `Panels` has the toggles that can be refused |
| `arxctl`, `arxctl-gui`, `install.sh`, units, workflows | start other programs or copy files once |
| Wi-Fi scan as a click, `net_wifi_connect`, `net_block_port` | the page keeps nothing of them that another step reads; the scan's table is in `Listings` |
| i2p readiness | ends either way and leaves nothing behind that another step reads |
| package count of `arxos-news`, kernel headers | a number in a sentence; a second package handled like the first |
