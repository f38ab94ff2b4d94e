# CannonadeCommand: a TLA+ model of the daemon and its web UI

CannonadeCommand is an Unraid plugin: a Go daemon beside the Docker daemon that starts
containers in dependency order and automates them (schedules, watchdogs, bandwidth caps,
idle-stop), a PHP bridge, and a web UI that edits all this and restyles Unraid's pages. This
directory holds TLA+ modules that model the daemon and the UI's scripts from their code, TLC configurations that check them on small instances, and theorems
about them with TLAPS proofs. Paths below are relative to the repository.

    tlc -workers 2 -config orchestrator.cfg MCOrchestrator    # check one run
    tlapm OrchestratorProofs.tla                              # check one module's proofs

`PROJECT.json` lists components, runs, mutants (plausible bugs each property must catch),
the source lines every definition stands for, findings, hazards and theorems.

## 1. Inventory

| Part | Code | State it keeps | Operations |
|---|---|---|---|
| Orchestrator | `internal/orchestrator` | one run: results, blocked names | `Run`: layer the plan (`TopoStages`), start each stage in parallel, join, next stage; `runNode`: delay, Start, WaitReady, policy |
| Readiness | `internal/readiness` | `runningSince` of one wait | `WaitReady`: poll one of six probes until ready, deadline or cancellation |
| Store | `internal/store` | `plan.json`, `config.json` | `Save`/`SaveConfig` (`writeJSON`), `Load`/`LoadConfig` (`readJSON`) |
| Monitor loop, schedules | `internal/monitor` | `kickCh`, `firedAt` | `Run`, `Kick`, `Tick`, `tickSchedules` |
| Monitor watchdogs | `internal/monitor` | `restarts` | `tickWatchdogs`, `allowRestart`, `recordRestart` |
| Monitor bandwidth | `internal/monitor` | `shaped`, `bwLast` | `tickBandwidths` |
| netshape | `internal/netshape` | none; rules in the kernel | `Apply` (tc, iptables inside a container's network namespace), `DetectIface`, `Show` |
| Monitor idle-stop | `internal/monitor` | `idle` (clock and last counter) | `tickIdleStop` |
| Alerts | `internal/monitor` | `notifiedAt` | `throttle`, `notify` |
| API | `internal/api` | `lastRun`, ring of 20 limit operations | plan, config, apply, action, limits, stats, status |
| Docker client | `internal/dockercli` | none | list, inspect, start/stop/restart/pause, update, exec, logs, stats |
| Templates | `internal/unraidtmpl` | Unraid's XML templates | `SetExtraParams`, `StripFlags` |
| Host CPUs | `internal/hostcpu` | none | parse `/sys` |
| Daemon, supervisor | `cmd/cannonadecommand`, `scripts/rc.cannonadecommand` | the socket, the pid | serve, apply, start, stop |
| PHP bridge | `server/*.php` | none | forward a request to the socket |
| UI: Docker page | `scripts/docker.js` | plan, limits and configuration as last read; settings in `localStorage`; timers, observer | show badges, buttons, cards; act on containers; edit plan, limits, automation; mirror the settings |
| UI: Settings page | `scripts/settings.js` | its settings and cards | save cards, import, export, reset |
| UI: other pages | `vms.js`, `plugins.js`, `settingsgrid.js`, `header.js`, `shares.js`, `favorites.js` | marks on Unraid's nodes | restyle VMs, plugins, tiles, top bar, menu order, storage pages |

**How they interact.** The UI calls the API through the PHP bridge. `PUT /plan` and
`PUT /config` go to the Store; `PUT /config` then kicks the Monitor. `POST /apply` loads
the plan and runs the Orchestrator in the request's own context (closing the page cancels
it); each node's goroutine calls the Docker client and the Readiness checker. The Monitor is
one goroutine with a 30 s ticker and a kick channel of one place; a tick loads the
configuration and runs schedules, watchdogs, bandwidth and idle-stop in turn, each from its
own `docker list`. API handlers run concurrently with all of that. Nothing but the Store's two
files survives the daemon; the kernel's shaping rules survive it too, unremembered. In the
browser every page runs scripts of its own. They share `localStorage` within an origin, hear of
each other's writes as storage events, and across origins meet in the engine's configuration,
which every writer reads, changes and puts back whole. Unraid renders its lists again at any
time; mutation observers, debounced, put the plugin's marks back.

**What is hard, and what makes each part correct.**

- *Orchestrator*: goroutines of a stage end in any order, nodes fail under three policies,
  the context dies at any moment. No container may be started before everything it waits for
  is settled; an abort must stop exactly its transitive dependents; the report must say what
  was done; a run must return; the layering must be right for every graph, with repeated
  mentions, outside names and cycles.
- *Store*: several handlers save at once, writes fail half way, the daemon is killed, power
  goes. The file must always hold one whole flushed document.
- *Watchdogs*: the decision uses an old list, restarts fail or time out although they work,
  the user stops containers and edits caps in between. An hour must never hold more attempts
  than the cap, and a deliberate stop must be respected.
- *Bandwidth*: the map of shaped devices must agree with kernel state it cannot read, while
  commands, PID lookups and device detection fail, containers restart, pause or change their
  network, the user changes cap and device, and the daemon restarts.
- *Idle-stop*: a clock and one counter must stand for the whole history of samples.
- *Loop and schedules*: a schedule must fire in its minute, once; a save must not be lost
  between tick and kick.
- *Readiness*: an answer is about the moment it was given, a poll asks twice, the container
  restarts in between, calls hang, the request is cancelled. "Ready" must have been earned by the
  container itself, the grace period must be the history's, and the wait must be bounded.
- *Settings mirror, configuration*: reads and writes of several tabs overlap, fail and outlive
  their page. Cards of one page must not undo each other; in the end all origins must agree.
- *Pages*: settings change in any order, nodes are replaced while passes are pending, answers
  come late and out of order, a pass wakes the observer that started it, other scripts undo what
  this one did. At rest a page must look as its settings say, and nothing of Unraid's may be lost.
- *Limits, templates, alerts, supervisor*: see section 7.

Every hazard, with its line, kind and the properties aimed at it, is in `PROJECT.json`.

## 2. Modules

| Module | Models | Correspondence |
|---|---|---|
| `StartPlan` | what a run promises, without stages or goroutines | abstract: pending, starting, then a final outcome |
| `Orchestrator` | `orchestrator.go` | `pc` is where `Run` is; `indeg`, `placed`, `stages` are `TopoStages`' locals; `proc[n]` is a goroutine; `result`, `blocked` as in the code; `started` what Docker was asked for |
| `AtomicFile` | what a saved file promises | abstract: a register whose last values may come back after a power loss |
| `Store` | `store.go` | `pc[w]` is a writer in `writeJSON`, one action per system call, error paths included; the file system is external: two entries, inodes, what is not flushed |
| `Watchdog` | `tickWatchdogs` | `tcfg`, `list`, `tnow` are the tick's snapshots; each Docker call is a pair of steps; `attempts` is a history variable |
| `NetShape` | `netshape.Apply` | operators: the set of (rules, ok) that a sequence of tc and iptables commands can leave, each command failing with or without its effect |
| `Bandwidth` | `tickBandwidths` | list, clear loop, apply loop over `netns`, the map `shaped`, and `lapsed` (see below) |
| `IdleStop` | `tickIdleStop` | prune, parallel samples, decide, stop; `log` is a history variable with every sample of the watch |
| `Readiness` | `readiness.go`; `Inspect`, `Exec`, `Logs` of `dockercli.go` | `pc` is where one `WaitReady` is, a poll's calls steps of their own; `runningSince`, `began`, `wake` are its locals; `app`, `logged`, `health`, `up` the container's true state; `polls`, `goodSince`, `lastGood` are history variables |
| `ConfigSync` | the mirror of the settings and every read-modify-write of the configuration (`docker.js`, `settings.js`) | a document of fields, one `localStorage` per origin; `request` holds the calls in flight, the engine's read, the tab's answer and the engine's write steps of their own; `pending`, `timer`, `started` are `uiPending`, `uiSyncT`, `uiSeeded`; `chosen`, `lastCard` are history variables |
| `DockerTab` | `docker.js`: theming, row badges, cards, observer, timers, storage events, teardown and rearm | `set` is `localStorage`, `dom` the marks on rows, table and page, `js` the script's variables; each pass is an operator from (page, settings) to page, named as in the code |
| `RowState` | `docker.js`: loads, state badges, buttons, actions; `handleState`, `handleAction` of `api.go` | the container, what the page knows of it, loads and actions in flight |
| `VmsPage` | `vms.js` | `apply` and its parts are operators; observers, polls, events actions |
| `PluginsPage` | `plugins.js` | the same, with the probe of a logo and the update check |
| `NavOrder` | `header.js`: the menu's order, its drag, Unraid Connect's rebuild | a tile is its order: the set of the pairs of items of which the first is the second or stands before it; gesture, hold timer, truce |
| `HeaderBar` | `header.js`: colours, island, brand, profile, bubbles, search | as `VmsPage` |
| `MainPage` | `shares.js` on `/Main` | as `VmsPage`: one row a table; a refill and the observer's answer to it are one action, as no frame lies between them; the drag of a column; the page's own reload |
| `SettingsGrid` | `settingsgrid.js` | as `VmsPage`: one tile, one heading |
| `Browser` | one window with one of these eight | `page` says which; fairness and properties of all of them |
| `MonitorLoop` | `Run`, `Kick`, `Tick`, `tickSchedules` | `ticker` and `kick` are the two channels; `phase` is where the loop is, `current` and `looked` a tick's configuration and clock; `firedAt` as in the code; `tried`, `done` are history variables |

`MC*` modules give the constants their values; a module named `*Proofs` holds the theorems about its component (section 4). `Orchestrator` composes with `StartPlan`,
`Store` with `AtomicFile`, by refinement (`INSTANCE ... WITH`, the abstract specification as
a PROPERTY); `Bandwidth` instantiates `NetShape`, `Browser` the eight page modules. The four parts of a tick share no variable
of the monitor, only Docker's containers, which every module lets change at every step; that
is why they are modules of their own, and why `MonitorLoop` can treat the other three as time.

The pages follow one pattern. `set` holds the settings, which other tabs and the page itself change;
`dom` the marks that the script puts on Unraid's nodes, as sets of names rather than styles; `js` its
flags and timers; `world` what Unraid, other scripts and the bounds need. A pass over the page is a
pure operator, composed as its function calls the others; an action is what the browser runs without
interruption: a timer, an observer's callback, an event, an answer. Another tab's write to
`localStorage` and its storage event are two steps. What a script does to every row, item or tile
alike is modelled on one. Scripts of different pages touch different nodes, so `Browser` follows
one script at a time and needs no product of them.

Modelled as environment: Docker answers every call with success or failure, and a failed call
may have had its effect (the client gives up after 30 s); containers start, stop, crash,
pause, come back in another network; the user saves anything the API accepts; the daemon
restarts at any step where the module has memory to lose.

### The lapses of `Bandwidth`

The monitor can lose sight of a rule in a fixed number of ways. The model marks each with
`Lapse(...)` at the statement where it happens, and `CapsAreRemembered` says there is no other:

1. the clear's error is ignored and the container forgotten (`monitor.go:375`);
2. a paused container counts as one without a namespace (`:373`);
3. the clear's PID lookup fails and the apply's works, so the new device overwrites the one
   kept for a retry (`:413`);
4. a blank `shape_iface` counts as the same device, whatever it was (`:364`) - this one
   needs no failure: going from a named device to blank leaves a stale cap;
5. device detection fails and falls back to eth0 (`:404`);
6. the daemon restarts while something is shaped (`:72`);
7. a container comes back in a shared network while a tick goes by its old list (`:408`),
   which is also the only way the host's own device is touched.

## 3. Runs

| Run | Instance | Shows |
|---|---|---|
| `orchestrator` | every graph on 3 containers incl. cycles x 2 policies; 2 containers with outside names x 3 policies; fans, diamonds and chains on 4 with every policy and delays; odd plans (empty, duplicate, empty name, repeated mention). A cancellation at any step | all safety properties, the refinement of `StartPlan`, and termination |
| `orchestrator_outside` | the same graphs | violation: a dependency outside the plan is neither started nor awaited |
| `store_one` | one writer, 4 inodes, documents of 1 and 2 blocks | whole documents through errors, kills and power losses; refines `AtomicFile` |
| `store_two` | two writers | violation: the shared temporary file exposes half a document |
| `watchdog` | one container, caps 0..2 and all triggers, window 3, clock 7 | the cap holds over any hour, the history is exact |
| `bandwidth` | one container, two devices, three caps, setting named or blank, every fault | no cap is forgotten and the host not touched but by a lapse; convergence, re-assertion |
| `idlestop_clock` | windows 0, 2, 3, clock 4, counter 0..2 | a container is stopped exactly when its whole history says idle |
| `readiness` | all six kinds of probe, set and unset, three networks; deadline 4, interval 1, grace 2, polls of up to 2 | ready is earned, the grace period exact, the wait bounded, a steadily ready container seen, one poll at most after a cancellation, every wait returns |
| `loop` | 2 days of 2 minutes, 2 clients, 2 saves, every fault | no save lost, minutes served, no action repeated |
| `config_sync` | a Docker and a Settings tab on two origins, one setting, one container, two cards, two calls at once, two changes, one failure or reload | cards keep each other's fields; all origins end up with the mirror |
| `config_choice` | one Docker tab, one setting, one call, no failure | violation: a choice made while a load is in flight is lost |
| `browser` | every script from every setting its page tells apart, two changes (Start page: four; menu and top bar: one), for a row one action and one failure | at rest pages look as set, Unraid's content is whole, scripts come to rest, what was taken away comes back |

**Why the bounds are enough.** Two goroutines of a stage and a third behind them are what an
ordering error needs, and three containers hold every cycle and every diamond edge; the
four-container shapes add a second barrier. In `Store` each failure is one step and a document
of two blocks is the smallest that can be torn; four inodes let two writers, the file and
its predecessor differ. The watchdog's window of 3 with a clock of 7 holds two full windows,
the boundary instant, and a cap changed inside. In `Bandwidth` and `IdleStop` the loops
treat names independently (keys of maps), so one container stands for each; what another
container does to the tick is delay, which every action already allows, and in `IdleStop` the
constant `Others` says whether others are configured, on which pruning depends. Two devices
and two download rates are the least that can be confused. In `Readiness` a container can be missed by
one poll, hit by the next and lost in between, the grace period spans two polls, and the last poll
may begin before the deadline and end after it; what a probe does not look at is held still.
A lost update needs two calls in flight and
two writers. On a page two changes reach every pair of settings one after the other, with rendering
and every timer in between, and what a pass does depends on the settings and marks of now alone; the
menu and the top bar interleave more, and there every setting the page starts with is followed by one
change. The Start page has four, so that a drag meets renders, a change of settings and another tab. A menu needs two items a side to be out of order, one of them late; `MaxTries` is the code's
own. `loop` needs two equal times of day on two dates, two half minutes in a minute, and two saves in one tick. For
every invariant and action property the proofs of section 4 do without these bounds; the runs are what shows liveness, and
that the properties can fail (each has a mutant).

Bounds named in the modules: `MaxTime` and `MaxHalfMinutes` (clocks), `MaxSaves`, `MaxNet`, `MaxWrites`, `MaxFaults`,
`MaxChanges` (with `NavChanges`, `HeaderChanges`, `MainChanges` for three pages), `MaxActions`, `Requests` (calls at
once), the finite `Plans`,
`Entries`, `Caps`, `Configs`. `CHECK_DEADLOCK FALSE` stands where a run ends (a plan done) or a
bounded clock stops, and in `browser`, where a page may be at rest for good. `store_one` and `store_two` check deadlock.

**Fairness.** `Orchestrator`: weak fairness of the run's own steps (goroutines are scheduled,
Start and WaitReady return because both have deadlines, for WaitReady see `BoundedWait`; a
cancellation is never forced). `Readiness`: weak fairness of the loop's steps and of time (every
call has a client timeout).
`Bandwidth`: the ticker keeps ticking (WF of the tick's next step) and no call fails for ever
(SF of the list, of the clear, and of an apply whose commands all work); the world is under no
fairness, and the liveness properties speak of histories in which it finally leaves things
alone. `ConfigSync`: calls are answered or fail (WF); a tab's timers and polls go on (SF, because a
taken slot of `Requests` is a limit of the model alone). `Browser`: observers' timers, storage
events, polls and answers (WF); nobody has to close an editor, to finish a gesture or to act. All
other properties are safety and assume none.

Each property has a mutant in `PROJECT.json`: an operator beside the original (`X_Variant`)
that is a plausible bug and breaks it.

## 4. Proofs

Everything below holds for all values of the constants, from the named ASSUMEs of the modules.

- `OrchestratorProofs`: `TypeCorrect`, `DependencyGateHolds`, `StageBarrierHolds`,
  `ResultsAreFinalHolds` and the refinement `ImplementsStartPlan`. The inductive invariant
  `IInv` is a conjunction: `TypeOK`; `Checked` (a run past the checks has no duplicate and no
  empty dependency); `Untouched` (before the stages nothing was started); `Counters` (each
  in-degree counter is the number of mentions not yet placed - without it a placed layer says
  nothing about dependencies); `Layering` (every dependency of a placed name lies in an earlier
  layer); `Reported` (all earlier stages have results, later ones have none unless cancelled);
  `Ledger` (what a goroutine's position says about `started`, `result`, `blocked`); `Gates` (a
  node that is at work or was started has only dependencies that came through). `DependencyGate` alone is not
  inductive: it needs the barrier, the barrier needs the layering, the layering the counters.
  `ReportIsTruthfulHolds` follows from the same invariant.
  `AbortHaltsItsChainHolds` adds `Chain`: whoever is blocked waits, at some remove, for a failed
  "abort" node. The converse is
  `DependencyGate`: a node that was started has only ancestors that came through.
  `LayeringIsRightHolds` adds `Kahn`: no set of which each member depends on a member ever loses
  one to a layer, so an accepted plan has no cycle; what is left when no counter is zero is such
  a set, so a rejected one has; and whoever is not placed has a dependency that was not placed
  before the last layer, which is why no node could have come earlier.
- `StoreProofs`: `TypeCorrect` for any number of writers; `WholeDocumentHolds` and the refinement
  `ImplementsAtomicFile` for behaviours in which saves do not overlap (`[]Serial`; without it both are false, as
  the run `store_two` shows), and `SoleWriterIsSafe`: for one writer without that condition. The invariant is
  `Typed` (`TypeOK`, and each writer has the document and the file its step needs), `InHand` (how
  far the temporary file has got: truncated, written, flushed) and `WholeDocument`. `Rename` and
  `PowerLoss` are the steps of the register, every other one stutters.
- `MonitorProofs`, the watchdogs: `TypeCorrect`; `HistoryIsExactHolds` and `CapHoldsAlways`, from `TypeOK`, exactness and
  `NotFuture` (no attempt lies after the tick's clock): pruning at one tick's clock keeps all a
  later one can ask for, because clocks do not go back.
  The loop (its variables and operators have names of their own, so that both modules can be extended):
  `LoopTypeCorrect`; `NoSaveIsLost` (through `OnItsWay`: an
  unread save is kicked, being kicked, or the loop is about to load); `OncePerMinuteHolds` (through
  `Marked`: what was done in the minute of the tick is marked, nothing was done in a later one);
  `EveryMinuteIsServedHolds` (`MarkedIsTried`: a schedule that is skipped as fired was tried; `Serving`: in a
  half minute left alone, its tick is to come, or under way on the saved configuration, or over).
- `BandwidthProofs`: `TypeCorrect`; `CapsAreRememberedHolds`. Lemmas say what each sequence of tc
  and iptables commands of `NetShape` can leave, whichever of them fail. The invariant:
  `OwnRules` (only a namespace of a container's own holds rules); `Clearing` (what is still
  to be looked at is remembered as listed); and, until a lapse, `Sound` (every rule is on the
  remembered device, none in the host's namespace, and what is yet to be applied to has rules on
  the target alone). The property speaks of caps in force; the invariant of every trace of one,
  a jump to a chain without a rule included, because a later cap would bring it to life.
- `IdleStopProofs`: `TypeCorrect`; `StopsExactlyTheIdleHolds`. The property compares a decision
  with the whole log of samples; `Exact` says what the record kept in `idle` means of that log
  (its clock is the first sample of the current run of idle ones, its counter that of the last
  readable one), and `Watched` that it is so for every container at every step.
- `ReadinessProofs`: `TypeCorrect`; `BoundedWaitHolds` (through `InBound`: how late it can be at each point of the
  loop); `CancelEndsHolds` (`LateOnce`: the sleep behind a late poll has not run out when the
  cancellation is looked at); `GraceIsExactHolds` (`ClockIsHistory`: the clock is the first poll
  of the current run of polls that did not see the container down); `ReadyIsEarnedHolds`
  (`EarnedInv`: an answer in hand that makes the container ready was true during this poll);
  `SteadyReadinessIsSeenHolds` (`SeenInv`: once the container is ready, either a poll that began
  before is still out, or the clock of the grace period runs and started in time, or the next
  poll is near; each with its own bound at each point of the loop).
- `ConfigSyncProofs`: `TypesHold`; `CardsKeepEachOther` (`OneAtATime`: one locked call of a page is under
  way; `ReadIsFresh`: what a locked call has read is still so for every field a card of its page
  wrote last. `LockHolds` is not inductive without them: it speaks of the write, the lock of the read).
- `BrowserProofs`: `TypeCorrect`, `PagesLookAsSet`, `NativeStaysWhole`, for any number of changes, any
  subsets of colours and accents, any columns, readings and widths, and a menu of any items. A page is
  followed alone, so its invariant is proved alone (`...Init`, `...Step`, `...Safe`) and `IInv` says
  that the page which is followed has its own. Each rests on lemmas about the painting operators: what
  a pass says afterwards whatever it found (`GridPainted`, `DockRetheme`, `MainPassed`), and what each
  of its parts leaves alone. `LooksAsSet` speaks of a page at rest; what makes it inductive is what is
  right on a page that is not:
  - `GridInv`: a heading that no pass has indexed is not painted; a calm page looks as set.
  - `RowInv`: while the page waits for an action, one is in flight; otherwise badge and bar say what the
    page knows, or a load is under way, or one has failed.
  - `VmsInv`: heads and rows have the same columns unless a pass or a poll is due, none after a teardown;
    there is always an observer, a poll or a teardown; a calm page looks as set.
  - `PlugInv`: before the boot nothing is painted and nothing due; a calm page looks as set, a cropped logo
    included.
  - `DockInv`: rows, table and page each have their own condition, because different events mend them:
    an untagged row carries nothing but what no script takes off (`DockBare`), a tagged one fits the
    settings unless an event is pending or it was tagged behind the cards (`DockFits`), and native list and
    cards take turns whatever is pending (`DockCards`).
  - `MainInv`: what a table, the sections and the array's panel show, while an observer that is due, an
    event or a drag may still differ; without tabs nothing of the disk table is touched.
  - `HeadInv`: the mirrored island, the subscription, the docked profile and the bubbles, each tied to
    the timer or the event that brings it up to date.
  - `NavInv`: no item is lost or doubled by a reordering, a drag, a rebuild or a late icon; what is dragged
    is held down and on the page; and unless a pass is due or somebody drags, the saved order is there,
    or was given up. Its lemmas (`Tile...`) say that restricting, joining, reversing and inserting keep
    a tile a linear order, that nothing else is in it, and that what was put at the end is found there.

Two models were changed for these proofs. `NavOrder` had tiles as sequences, and what `SelectSeq` makes of
a sequence takes an induction to say; as sets of pairs they need none, and the run gives the same answers.
In `DockerTab` the attempt to strengthen `LooksAsSet` did not go through, for a good reason: it is false
after three changes, one more than the run has (section 6, "Docker page"). It now leaves out rows tagged
behind the cards, which the history mark `behind` names.

Only model-checked: `Terminates`, `Converges`, `Reasserts`, `Quiesces`, `ComesBack`:
liveness is beyond the prover. Every invariant and action property of the passing runs is proved.

## 5. Assumptions and what is left out

- `Store`: rename and fsync as POSIX has them on a journalling file system; Unraid's flash
  drive is FAT, whose rename promises less. `store_one` is one save at a time, which the code
  does not enforce: `store_two` is what happens otherwise.
- `Orchestrator`: a cancellation while Start or WaitReady is under way becomes that node's policy
  outcome (failed or degraded), although the code calls a cancellation a clean stop
  (`orchestrator.go:127`, `:185`); the model follows the code.
- `Watchdog`: one entry per container (the API accepts more, the UI writes one). A container
  stopped after the tick's list was taken may still be restarted against that stop
  (`monitor.go:538`).
- `Readiness`: one wait of one container, so that its answers to the orchestrator are what
  `Orchestrator` lets `WaitReady` return. What a probe looks for is one property of the container; a
  host named in a probe is the container. `ReadyIsEarned` has two exceptions, both the code's own: the
  fallback to 127.0.0.1, and an exec whose start Docker refuses, which leaves no exit code and is
  read as 0 because the start's status is not looked at (`dockercli.go:595`). A marker in the log's
  tail may be an earlier start's: the probe cannot tell, and the model does not call it unready.
- `NetShape`: an iptables check fails only when what it checks is absent; rates and bursts are
  plain numbers; a PID stands for its container.
- `IdleStop`: the CPU threshold is part of a sample; at most six samples run at a time in the
  code, all at once in the model; samples are independent.
- `MonitorLoop`: all schedules name one container and one action; the clock is not set back. An
  action whose call timed out may be done again in its minute: the code cannot tell, so
  `OncePerMinute` speaks of what the daemon was told is done. Marks, histories, clocks and the
  map of shaped devices are lost when the daemon restarts, which the modules model.
- `ConfigSync`: fields are independent values; the engine's validation refuses nothing the UI sends.
  A tab's memory of the configuration matters only between read and write, so it is the request's.
- `RowState`: one container, whose actions Docker answers as its state demands; at most one poll is
  under way beside the loads that follow the actions. `DockerTab` has the rows as one row and the
  answers of loads as same or changed; `RowState` says what they say.
- `NavOrder`: `Quiesces` needs a Connect that answers before the plugin's 120 ms are over, or is not
  there; against one that answers late the code's window of attempts is never full (section 6).
- `Browser` assumes of its constants what the scripts' own names give: `None` and `Raw` are no colour,
  width, reading or state, no column is called like another mark, the pages' colours are those their code
  compares with; and of the menu that an item is in one tile, with late items on the right.
- Alerts are left out everywhere: they feed back into nothing.
- Not modelled at all, with the reason, in `PROJECT.json` "components": parsing and formatting
  (`hostcpu`, `dockercli`'s framing), the PHP bridge, packaging. In the UI: the popups for plan, limits and bandwidth, the
  container form, the rest of the Settings page, `shares.js` beyond the Start page, and `favorites.js`.

## 6. Known differences

What the models showed of the code beside its own comments, or what a reader may trip over. The
first three are runs of section 3 with findings in `PROJECT.json`; the others are in the models as
the code is, and the properties are stated around them.

- *Orchestrator* (`orchestrator_outside`), *Store* (`store_two`), *ConfigSync* (`config_choice`).
- *ConfigSync*: `uiPending` is emptied at the push's read, so a failed PUT is not tried again;
  `removeItem` is not mirrored, so the next load brings the value back; after "reset all" another open
  Docker tab seeds the empty mirror with its own settings; the push and the Docker page's saves do
  not take the lock, so they and the cards can lose each other's fields.
- *Idle-stop*: a container restarted between two ticks keeps its clock (`monitor.go:287`), although
  `:167` promises a fresh window. *Readiness*: an HTTP probe without a host asks 127.0.0.1 when
  Docker gives no address (`readiness.go:178`), although `:94` wants the container's own status.
- *Docker page*: rows that are tagged while the cards hide them (a late repaint of the view switch, `docker.js:1044`; a load
  after an adoption has switched theming off) keep the badges and looks of then when the list comes back, since
  `injectRowBadges` skips what is tagged (`:671`), until Unraid renders them again or a setting changes. A list rebuilt after teardown lacks the accent that boot gave it; `moPending` stays set
  after a teardown, so a rearmed page is repainted by its loads alone. Two overlapping actions on one
  container: the first answer releases the badge for both. A render during an action shows the
  old state until the load that follows it.
- *Editors* (not modelled): a load under way when the plan's editor opens replaces `workingPlan`, and
  Save then stores the plan without the edits (`docker.js:2107`, `:2062`).
- *Plugins page*: badges keep the colour of their first paint although `plugins.js:638` announces a
  live change; the ink of a logo is one paint late; theming switched off live takes nothing off.
- *Menu*: against a Connect that answers late the fight does not end; items without a saved place come
  first (`header.js:257` says after); Escape leaves a dragged item where it is, unsaved; an item that is
  absent during a save loses its place.
- *Top bar*: some styles and variables, and titles turned into bubbles by a hover with the area off,
  stay until the page is loaded again. *Tiles*: variables and one class stay, without effect.

- *Start page*: with theming on and both areas switched off, the observer sees the teardown and its
  pass paints the tabs again (`paintTabs` asks for no area), although `shares.js:2109` clears just
  those inline colours; with Start off and Shares on, teardown is not reached, the page stays as it was
  and rows rendered later lack the head's column, although `:2096` promises a clean page "without a reload";
  on an untabbed page Start alone never asks for tabs, because `apply` has returned before (`:2093`),
  although `:195` wants it on "ANY theming-on install"; a reset of widths does not reach other tabs; a release right
  after a render that took the dragged widths back stores them but shows them one render late. Head cells
  that are widened for the new column are widened again at each switch off and on (`:805`; not
  modelled: static, so no render heals them).

## 7. Plan

Done, in this order: `Orchestrator` with `StartPlan`, `Store` with `AtomicFile`, the four parts of
the monitor, `Readiness`, their first proofs; `ConfigSync` with its proofs; the pages, with `Browser`
and the proofs of every page.
What is left:

1. `Limits`: `handleSetLimits`, `UpdateResources` with Docker's stored caps and its validation, the
   template mirror (`SetExtraParams`, `StripFlags` as pure functions checked against a reference).
   Properties: live and stored caps agree after a success, a removal survives a recreate although
   the live update fails.
2. `Apply`: two runs of the orchestrator over the same containers, `lastRun`.
3. `Editors`: the popups of the Docker page beside loads and each other.
4. `Supervisor`: start, stop, socket; two daemons. `Alerts`: throttle slots against settings.

Runs, bounds and theorems follow the pattern of sections 3 and 4: one passing run per
component, a run per disagreement between the code and its own comments.
