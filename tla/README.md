# A TLA+ model of seatmesh's daemon

seatmesh runs a team of coding agents in tmux panes.  Each pane is a *seat*
(`manager`, `secretary`, `slot-N`, `mini-N`), and the seats talk by mail: one
agent posts a message to the daemon over HTTP, the daemon queues it in a file
and types it into the receiver's pane when that pane is idle.  The pane is a
terminal program that may be generating, hold a human's draft, stand behind a
rate limit or be gone; the daemon only sees a capture of its screen.  Most of what
can go wrong lies between those looks.

## Inventory

| Part | State | Operations | Hard part | Correct when |
|---|---|---|---|---|
| Peer mail (`daemon/src/peer`, `inject`, `inbox/delivery-hold.ts`) | `PEER.jsonl`, `PEER-BACKLOG.jsonl`, delivery holds and overload cooldowns in memory | POST `/to-peer`, `/room-fanout`; tick: reconcile, promote, re-bind, skip, gate, paste or park, stamp | two files written one after the other, paste before stamp, panes replaced at any time | pasted at most once, nothing lost, settled rows stay settled |
| Compose gate (`inject/compose-gate.ts`) | per coordinator pane: last busy, idle since, draft and its age | consulted by the delivery and by the border paint | sampled clocks, two callers, early returns before the clock is updated | never into a generating pane, never into a fresh draft |
| Inbox lanes (`orchestrator/mesh-orchestrator.ts`) | `INBOX.jsonl` | POST `/to-master`, `/inbox/resolve`; one lane per coordinator | a digest of many rows is pasted, then the rows are written | every substantial message reaches the manager once |
| Check-backs (`checkback`, `fireDueCheckbacks`) | `CHECKBACK.jsonl` | arm, cancel, close, fire, renew, defer, reconcile | the tick fires from a snapshot and writes the whole snapshot back | fired once per period, a cancelled one never again |
| Pane operations (`inbox/pane-ops-drain.ts`) | `PANE_OPS.jsonl`, `busy` flag | enqueue, drain one, reclaim stale, clear | an operation takes minutes; stale rows are reclaimed by age | one at a time, each one run once, none stuck |
| ACK ledger (`ack`) | `ACK.jsonl`, what border paint last saw of each composer | open, match, close, sweep; reminders exist in the code but never fire, since `remindableAcks` returns no row | asks opened by three ways, closed by answers that name no ask | one open row per ask, none lost, the right one closed |
| Targets (`target`, `store/target-jsonl.ts`) | `TARGET.jsonl` | add, fire when due, remind, triage, close | requests that read, await and write back; a budget per tick | each deadline announced once, none starved |
| Rate limits, connectivity (`connectivity`) | limited panes, proxy state; stamp, in-flight mark and pending list shared by the daemons of a host | arm, clear, reboot the modem, wait for an address, kill and revive the seats, resume after a restart | scripts and timers that outlive their episode, daemons that die in one | seats killed once per episode, each episode ends |
| Terminal pool (`inbox/terminal-pool-*`) | jobs, child processes | enqueue, start, exit, time out | exit racing the time-out | one result per job |
| Notifications and acts (`notify`) | acts and answers | post, answer, expire | an answer twice or after a restart | answered once |
| Chat rooms (`core/src/chatroom`) | ledger file per room, cursors, file of calls | post, read, fan out; call, accept, decline | commands that overwrite one file | one pending call for two seats; unseen counts agree with cursors |
| Store (`store/create-queue-store.ts`, `sqlite-store.ts`) | the queue files, or tables and the mark of their import | choose, import, fall back, reconcile | an import in several transactions, a driver that comes and goes | no row lost or pasted twice on the way |
| Supervision (`mesh-inbox-*supervisor.ts`, `mesh-inbox-watcher.ts`, `inbox-bridge.ts`) | child process, missed checks, timers, stop file, `mesh-inbox.json` | spawn, check, kill, restart, reload, shut down; start and stop by commands | two supervisors, commands that kill, a step awaiting while its child dies | one server per mesh, and one that comes back |
| Recovery steps (`recovery`) | panes and their age | revive, scale, restart secretary | | |
| tmux, providers, profiles, CLI, web | | I/O, parsing, configuration, user interface | | not modelled |

They interact in one place.  A *drain tick* (`orchestratorDrainTickAsync`) runs
the steps recover, pane-ops, inbox, peer, check-backs, targets, ack-sweep and
border-paint in this order; `runStep` keeps an exception inside its step.  HTTP
handlers run between steps only, since node runs one callback at a time and the
steps await nothing but each other.  The tick is started by a poll timer and by each
enqueue; the starts are coalesced.

Every row of the table is a component of `PROJECT.json`, with the source files it
stands for and its status.  The behaviours that are hard to test are the hazards
of `PROJECT.json`, each at its line, with the properties that watch it.

## Modules

| Module | What it is |
|---|---|
| `MailContract` | what peer mail promises, with no word on how |
| `JobContract` | what a queue of jobs promises, kept by `PaneOps` and by `TermPool` |
| `PeerQueue` | the two files of peer mail and the drain step over them; implements `MailContract` |
| `RowOrder` | rows in a line and the first few of them, for `PeerQueue` and `Targets` |
| `Checkback` | the check-backs and the step that fires them |
| `PaneOps` | the queue of pane operations, the commands that post to it, daemons that die and start |
| `Supervision` | watchers, server processes, commands that start and stop them |
| `AckLedger` | the ledger of unanswered asks and the watch of the operator's prompts |
| `NotifyActs` | the one-shot links of notifications |
| `RoomCalls` | calls between workers, as commands over one file |
| `TermPool` | terminal jobs, their workers and sockets |
| `QueueStore` | the choice of JSONL or SQLite and the import |
| `OcLimit` | recovery from the carrier's rate limit |
| `Targets` | the operator's deadlines |
| `Connectivity` | the watch over the proxy: what panes show, the PROXY-DOWN episode, resume waves |
| `MC...` | named constants for TLC |
| `...Proofs` | theorems, for every value of the constants |

`PeerQueue` and `MailContract` are the center.  The eight modules of the second half are services
of the same daemon that share no variable with each other in the code, so they are checked side by side in `MCServices`
and not multiplied with each other.

Each model is a process structure over files.  A handler or a step of the tick is cut into
actions where the code writes a file, pastes, awaits or starts a process, because a
death or an exception can fall there and other processes can come in there.  What the daemon reads
off a screen is a constant set of classes, chosen by the environment at any time.

### PeerQueue

`st`, `target` and `at` are the rows of `PEER.jsonl`; `backlog` and `earlier` those of
`PEER-BACKLOG.jsonl`.  `pc` is the place in the drain tick, `kept`, `grouped` and
`batch` the arrays the step holds in memory, `hold` the delivery holds, `cooling` the
cooldowns of overloaded panes, `mark` the
`@mesh_status` that promotion reads back from the pane's border.  `composer`, `limited`, `home`
and `fresh` are the panes.

| Actions | Code |
|---|---|
| `Enqueue` | POST `/to-peer`, `/room-fanout` |
| `Reconcile` | `reconcileBacklogOrphans` |
| `PromoteWritePeer`, `PromoteWriteBacklog` | `promotePeerBacklog`, one action per file |
| `RefreshAndGroup` | `pendingPeerRows`, `refreshAndGroupPeers`, `applySkips` |
| `PaneOnHold`, `PaneGated`, `PastePane`, `DropOnCaptureRace`, `HoldPane` | `drainPeerPaneBulk` for one pane, by the way it ends |
| `MarkDelivered` | `markDelivered`, one row of the batch |
| `SkipThinRow`, `ParkWritePeer`, `ParkWriteBacklog` | `holdOrParkInjectFail`, `parkPeerToBacklog`, one action per file |
| `Paint` | the border-paint step |
| `OtherGate`, `CoolingEnds` | the same gate passed by the inbox lanes and the check-backs; the end of a cooldown |
| `Crash`, `StepThrows` | a death; an exception that `runStep` swallows |

`gateDelivery` is `Gated`: a limited pane or a pending summons (`Held`), a cooldown, or as many live rows for the pane as
start one (`Crowded`, `Threshold`).  A body is reduced to the classes the code tests (ACK class, progress, ask, override,
thin, cold start, skippable).  The order of a drain is its sort: cold start, kind, arrival.
Left out: the flag `delivered` of the cold-start state (`tmux/src/seats/cold-start-state.ts:84`), so that here a summons is dropped as a repetition only
when the row of another says it was delivered, while the code also drops one for a pane whose flag was set when no summons waited any more (`:165`); `notBefore` and scheduled rows, POSTs answered from the
duplicate window (they change nothing), the SQLite store, sticky border statuses.

### Checkback

`disk` is the store, `snap` the copy the tick works on, `todo` the rows it has still to
fire.  A check-back id stands for one pane and one expectation; `KeyOf`
says which ids share both.  `pane` is what becomes of mail to the owner's pane, and `echo` the
POSTs the daemon sent to its own port in the middle of a step: it cannot answer them until the step is over,
curl gives up after some seconds, and the request is served after that or never.

| Actions | Code |
|---|---|
| `Arm`, `ArmRefused`, `Cancel`, `Reset` | POST `/patience` and its sub-paths |
| `ArmAfterPeer` | `armRecipientCheckbackAfterPeer` |
| `BeginFire`, `EndFire` | `fireDueCheckbacks`: read and choose, write back |
| `Unreachable`, `Orphaned`, `FireRetired`, `FireWatch`, `FireNudge`, `FireTick`, `FireRetry`, `FireCoord`, `FirePlain` | one row of its loop, by kind and outcome |
| `Restart`, `Crash` | `reconcileCheckbacksFromJsonl` at start and in POST `/repair` |
| `Expire` | the passing of `dueAt` |

The loop saves the copy in its middle where a row follows its owner to another pane; `Saved`
lets each firing do so.  The fire count of kinds that renew for ever is not kept.

### PaneOps

`row` is `PANE_OPS.jsonl`; `daemon`, `cur`, `left`, `serving` and `blocked` the process that owns
the port; `client` the command that posts an operation; `inbox` the POSTs
on the socket; `boot`, `stale` and `copy` a daemon that is starting.

| Actions | Code |
|---|---|
| `Ensure`, `Post`, `GiveUp`, `LocalRun` | `submitPaneOp`: `ensureMeshInbox`, `postPaneOp`, its time-out, the local run |
| `Enqueue`, `Tick` | POST `/pane-ops` with its chain of drains; the step of the tick |
| `Take`, `Finish`, `Rest` | `drainPaneOpsOnce` before, after and without an operation |
| `KillSelf` | an operation that calls `ensureMeshInbox`, which finds its own daemon deaf and kills it |
| `TakeFails`, `Throws` | a write that fails before the operation, of an old row or of the row to run, or after it; but for the first, `paneOpBusy` stays set |
| `Clear`, `Crash` | POST `/pane-ops/clear`; a death |
| `Start`, `BootRead`, `BootWrite`, `Bind` | a starting daemon: `reclaimStaleRunningPaneOps`, then the port |

Age is a choice: `Take` and `Rest` fail any set of the running rows.  The read-modify-write of
the live server is one step, because no handler runs inside it; that of a *starting* one is two, because it
happens before the port is bound and so beside a live server.  One daemon starts at a time.
What an operation does to the panes is left out.

### Supervision

For a watcher: `mode` (its process and `shuttingDown`), `pc` (where `spawnChild` awaits), `child`,
`retry`, `grace`, `misses`, `term`.  `server` is what each server process does.  `stop` and `meta` are the stop file
and `mesh-inbox.json`; `cli` and `seen` the commands.

| Actions | Code |
|---|---|
| `Probe`, `Spawn`, `NotQuiet`, `Healthy`, `Unhealthy` | `spawnChild`, one action between two awaits |
| `ChildExit`, `Restart`, `Recover`, `SeeStop`, `HealthOk`, `HealthMiss`, `Reload` | the exit event and the timers |
| `HandleTerm`, `KillChild`, `Exit` | SIGTERM, `shutdown` and its SIGKILL, `process.exit` |
| `HostUp`, `HostDown` | `host up`, `host down`, the host supervisor's registry |
| `Ensure`, `Found`, `StartMesh` | `ensureMeshInbox`, `startMeshInbox` |
| `StopFile`, `StopTerm`, `StopKill`, `StopDone` | `stopMeshInbox` |
| `Listen`, `Work`, `Done`, `Leave`, `Crash`, `Hang` | a server |

A server that starts takes less than the 45 seconds after which health checks begin.
`Ensure` probes and kills in one step.  A process id is used again when no file, watcher or
command remembers it.  One mesh; sessions taken off the host's registry are left out, and
`inbox restart` is a stop and a start.

### AckLedger

`ledger` is `ACK.jsonl`; `posted`, `shown`, `dropped` the mail of both lanes as far as asks are concerned;
`draft`, `quiet`, `arm`, `prompts`, `replied` the memory of `ack-watch.ts`; `painted` the panes border paint
has looked at in this tick.  `pastes`, `busyAt` and `asked` are history: how often a mail was pasted, when a pane was last seen at work and when
a prompt was last seen to go in.

| Actions | Code |
|---|---|
| `Post`, `Deliver`, `Drop` | POST `/to-peer`, `/to-master`; `markDelivered`, `drainInboxLaneOnce`; skips and POST `/inbox/resolve` |
| `Observe`, `QuietEnds` | `observePaneComposer`; the five seconds after a paste |
| `Sweep` | `ackSweepTick`: prompts become rows, replies in the pane close them, `matchFiledAcks` |
| `Clear`, `ClearSeat` | POST `/ack`, `/ack/clear` |
| `CrashInDelivery`, `CrashAck` | a death after a paste, or anywhere |

A death leaves a peer row stamped with its ask not opened, or an inbox row not stamped with its ask open, by the order of the writes.
`Filed` states the greedy loop of `matchFiledAcks` without recursion: a row closes when it and each older row
have as many later filings as there are rows to close from there on.  Digests, the compose gate and sticky notes are left out: one row is one paste.

### NotifyActs

`mem` is the registry, `disk` the file of act cards, `notes` the ledger of notifications, `handling` the link whose handler runs.

| Actions | Code |
|---|---|
| `Register` | POST `/act/register`: registry, `annotatePeerMsgsWithCard`, ledger, file |
| `Begin`, `End` | GET `/act/v1/<token>`: `take` and execute; `markNotificationActed` and the file |
| `Repair`, `Expire`, `CrashActs` | POST `/repair`, `pruneExpired`, a restart with `hydrate` |

The handler is cut where it executes, because a run link may keep the daemon for two minutes and it may die there.  No second handler
runs meanwhile, as the execution is synchronous.  Every write may fail (`Lost`), which the code logs.

### RoomCalls

`calls` is the file of calls, `log` the ledger of the room of each, `at` and `seen` the commands and the copy each has read.
`ReadForCall`, `WriteCall` are `createPendingCall`; `Find`, `CheckRoom`, `CreateRoom`, `SayConnected`, `Reread`, `WriteAnswer` are
`runRoomAccept` and the decline, one action for each read or write of a file; `Killed` ends a command between two of them.

### TermPool

`jobFile` and `jobOrder` are `TP_JOBS.jsonl`, `held` and `attached` the workers, `pty` the processes, `sock` the sockets; `timedOut`, `starts` and `reports` are
history.

| Actions | Code |
|---|---|
| `Enqueue`, `DrainPool` | POST `/tp/enqueue`, `runDrain`, both with `kickTerminalPool` |
| `ProcessEnds`, `OnExit`, `OnTimeout` | a process, its exit event, the timer: `finalizeJob` |
| `Cancel`, `Attach`, `OnSocketError`, `OnSocketClose` | POST `/tp/cancel`, `/ws/tp` |
| `CrashPool` | a restart, which leaves running rows as they are |

`Kick` states the result of the loop over pending rows and idle workers, spawn failures included.  `OnTimeout` only signals its process, which may live on, and frees
the worker; it comes before or after the end of the process and before its exit event, or not at all.

### QueueStore

`file`, `table` are the peer rows in each backend, `fileCb`, `tableCb` the check-backs; `backend` is the one in use or the step of an import.
`Start`, `ImportPeers`, `ImportChecks`, `SetMeta`, `ImportFails` are `createQueueStore` and `migrateJsonlDirToSqlite`; `PostRow`, `Drain`, `Arm`, `CancelCb`
the daemon at work; `NativeChanges` the native module that loads and opens the database or does not; `StoreDies` a death anywhere.  Files without a row count as something to import in the
code (`sqlite-store.ts:163`) and not here, which only sets the mark of the import earlier.  The other tables are imported the same way and left out.

### OcLimit

`stamp`, `mark`, `pending` are the three files the daemons share; `ep` to `own` the episode of each daemon; `scripts` what runs, with the number of its episode.

| Actions | Code |
|---|---|
| `Limit`, `LimitClears`, `Manual`, `Button`, `ProxyUp` | the rising edge and its gate, POST `/connectivity/oc-restart-v2`, the toast, PROXY-DOWN |
| `FirstEnds`, `AgainEnds`, `ChildExits`, `OrphanExits`, `ProxyEnds` | the callbacks of scripts |
| `TickNew`, `TickSame`, `TickWaits` | `tickWaitIp` |
| `DaemonDies`, `Resume` | a death; `resumeOcLimitV2AfterDaemonRestart` |
| `Ages`, `FiveMinutes` | the clock |

A callback acts on the episode of now, as in the code.  Dry mode, the inline fallback and the test hook are left out.

### Targets

`before` is the order of the rows in `TARGET.jsonl`, a set of pairs, and `entry` the rows; `turn` the rows a tick has still to fire; `request` what POST `/targets/<id>/remind`
and `/triage` have read before they await.

| Actions | Code |
|---|---|
| `AddTarget`, `CloseTarget` | POST `/targets`, `/done`, `/cancel` |
| `BeginTargets`, `FireNext` | `fireDueTargets` |
| `Ask`, `FireAsked` | the two requests before and after their awaits |
| `FireFails`, `AskedFails`, `AddFails`, `CrashTargets` | a write that fails, a death |

No handler runs inside a tick (`turn # {}`).  Whether a lead has a pane is a choice at each firing.  `toasts` counts the toasts that were tried: one the desktop
refuses is marked like any other.

### Connectivity

`screen` is what each pane shows; `cache`, `streak`, `scanFrom` what the watch keeps of its looks; `down`, `cleared` the PROXY-DOWN
episode and the 90 seconds after one; `waveDue`, `unconfirmed` the resume wave.  `owed` is history: an episode without a wave yet.

| Actions | Code |
|---|---|
| `Poll`, `PollLocked` | `pollConnectivityRecovery`, the second while a probe holds its lock |
| `PollAcks` | `pollResumeAcks` with `clearOcLimitBannerForPane`, queued by the same timer |
| `Wave`, `RemoteResume` | `resumeOpenCodePanes` at the end of an episode; POST `/connectivity/oc-resume` |
| `RearmEnds`, `ScreenChanges`, `CrashConn` | the clock, the panes, a death |

A poll looks at `ScanBatch` panes in turn.  Whether the carrier answers and which panes take the command are choices.  The limits of other
programs (Claude, Cursor, Kiro), which have lanes of their own, are left out; the router's credit gate is kept because it leaves the pane's entry in the cache as it was.
The proxy script of an episode is in `OcLimit`.

## Runs

Passing runs:

| Run | Question | Instance |
|---|---|---|
| `PeerQueue_core` | is mail pasted twice, do the files disagree, is the contract kept? | 2 messages, 1 seat, 2 panes, 1 failure anywhere |
| `PeerQueue_kinds` | do summons, pings, overrides and twins get what their class is promised, and does all mail settle? | 3 messages of 3 classes, 1 pane, 4 composers, 1 failure |
| `Checkback_core` | are reminders paid for by a POST, do cancellations last, is every bounded check-back closed? | 2 check-backs for one pane and expectation, one firing per tick, every pane state, 1 failure |
| `Checkback_kinds` | is the supervise tick starved? | 5 kinds (supervise, watch, nudge, retry, retired), one firing per tick, imports at restart |
| `PaneOps_core` | does an operation begin again or come back (`JobContract`), does a row hang? | 3 operations, one of each class, 1 failure, 1 race |
| `Supervision_core` | do two servers serve, does one come back? | both supervisors, 3 processes, 2 failures, 2 commands |
| `Services_core` | the safety and liveness of the eight services (below) | ten scenes, 1 to 3 failures each |

`Services_core` chooses one scene at the start (`part`); the other services stay as they began, which is
sound because they share no variable.

| Scene | Properties | Instance |
|---|---|---|
| `asks`, `prompts` | `OneOpenPerAsk`, `AskTracked`, `PastedOncePerDeath`, `ReplyIsLater`, `AnswersClear` | 2 seats, 4 mails (peer, inbox, acknowledgement, scheduled with a text that another has); 2 prompts |
| `acts` | `OneShot`, `LinksSurvive`, `AnswerOnRecord` | 3 notifications, 4 links |
| `calls` | `OnePendingCall`, `AcceptedHasRoom` | 2 workers that call each other, 2 answers to either |
| `pool` | `JobsOnce`, `JobsStart` | 3 jobs, 1 worker, 1 socket |
| `store` | `PostedKept`, `StorePastesOnce` | 2 rows, 1 check-back, 3 failures |
| `timers`, `files` | `EpisodeBounded`, `EpisodeEnds` | 1 daemon, 2 episodes; timers and buttons without deaths, deaths and ageing files without buttons |
| `targets` | `RemindedOncePerAsk`, `DeadlinesShow` | 2 scopes of one goal, 1 slice, one firing per tick |
| `proxy` | `HoldsEnd`, `ResumeFollows` | 2 panes, one looked at in each poll; a pane that loses its connection, and one that also meets its quota, its credit gate or another program |

The conjuncts on the next state in `AckAsks`, `AckPrompts`, `OcTimers`, `OcFiles`, `TargetScene` and `ProxyScene` keep the scenes small.  They exclude only steps of
the environment, on which no fairness is asked, so that no liveness property holds because of them.

Bounds and why they are enough.  The failure bounds (`MaxFaults`, `MaxDups`) are what the
properties are about: with one failure at every possible point the counts are already exceeded
by any step that loses or repeats one thing, and the theorems lift the counts to every bound.
`MaxPosts` 2 allows an arming after a cancellation; `MaxServed` 1 one late POST; `MaxFires` 2 (3 in the code) is
a renewal and a last firing; `Budget` 1 (6 in the code) is below the number of rows
due.  `BulkMax` 2 makes a digest and leaves a third row out of it.  `Chain` 2 (12 in the code) is
below the three operations.  `MissLimit` 2 (3 in the code) is a miss that does not kill and one that does.
`MaxCalls` 2 is a stop and a start, or two stops.  A pane is lost only while a fresh one is left
(`fresh # {}` in `PaneLost`): otherwise a seat could stay empty for ever, which is no
fault of the daemon.  `MaxBreaks` 0 in `QueueStore` is an assumption: a driver that loaded keeps loading (see the disagreements).
`Threshold` (25 in the code) is 2 in `PeerQueue_core`, where two live rows start a cooldown, and 4 in `PeerQueue_kinds`, above its three messages:
`MailSettles` is claimed for panes below the threshold, and `PeerQueue_overload` shows why.  `ScanBatch` 1 (4) is less than the panes, `ConnectNeed` 2 (15) an
error seen and not yet confirmed, `MaxLocks` 1 one poll under the lock.
No symmetry is used.  Deadlock is checked in `PeerQueue` and `Checkback`,
whose ticks never end; in `PaneOps` and `Supervision` every command may have returned and every process may have stopped, and
the scenes of `Services_core` come to an end when their bounded inputs are used up.

Fairness.
- `PeerQueue`: weak fairness of the daemon (the poll timer re-arms itself and no step of the tick
  waits) and of the ends of a hold and a cooldown, timers of 12 seconds and 10 minutes.  None for panes, limits or new panes.
- `Checkback`: weak fairness of the tick.  Strong fairness of `Expire`, since an expiry is an instant of the
  clock: it comes during a tick as well and is seen by the next one, while the model waits for a gap.
- `PaneOps`: weak fairness of the tick, of the end of an operation, of a starting daemon, and of a
  start when there is none (the supervisor's timer).  Strong fairness of failing all running rows: a row
  that is old stays old, so that the next drain, whenever it comes, finds it so.  None for commands.
- `Supervision`: weak fairness of every timer and of the ends of a server's steps.  A watcher is not assumed to be
  started, a server not to start working.  Weak fairness of `HealthMiss` suffices, since a hung
  server does not answer any check.
- `AckLedger`: weak fairness of the sweep, a step of every tick.
- `TermPool`: weak fairness of the drain, of exit events and of the time-out of a job.  A process need not end by itself.
- `OcLimit`: weak fairness of the end of reboot scripts, of the five minutes, and of a poll that sees the old address or, when none was known,
  any: a carrier that never gives an address at all is not covered.
- `Targets`: weak fairness of the tick and of its rows.
- `Connectivity`: weak fairness of a poll without the lock, which a probe gives back, and of what the poll queues.  None for panes: the two properties give up when a
  pane changes again.

Every property of a passing run is broken by a mutant of the code (`PROJECT.json`, `mutants`),
for example a promotion that does not ask whether the row is delivered, an expired row that goes back to the queue, a server that
does not give up on a used port.

## Where code and documentation disagree

Five runs end in a violation of what a comment or a document says:

| Run | Property | What happens |
|---|---|---|
| `PeerQueue_rebind` | `MailSettles` | a row parked for a pane that is replaced is never promoted: only live rows follow their seat |
| `PeerQueue_overload` | `MailSettles` | the overload threshold is looked at as a level: rows held by a cooldown are never parked, so the count that started it is still there at its end and starts the next |
| `PaneOps_local` | `NotBothAtOnce` | curl gives up after eight seconds, and the command runs the operation that the daemon is running |
| `Supervision_watcher` | `WatcherStays` | a server dies while its watcher waits for its first answer, and `child.pid` throws in the watcher |
| `Services_filings` | `OneFilingOneRow` | every sweep matches all filings since the oldest open row again, so that one reply closes one row per sweep until the backlog is clear |

Others were met while modelling and have no run.  Paths are under `packages/` unless they start with `docs/`.

- "Never paste substance mid-turn" (`daemon/src/peer/peer-backlog.ts:223`): one progress line makes a whole digest ACK class
  (`daemon/src/inject/inject-delivery.ts:176`), and the substance beside it is pasted into a generating pane.
- The supervise tick cancels the legacy rows in the store (`daemon/src/orchestrator/mesh-orchestrator.ts:310`, `:321`), and its own final
  write (`:716`) arms them again.
- "Normal FIFO from backlog + live queue" (`docs/PEER-BACKLOG-SPEC.md:55`): a promotion looks at the pane before the delivery does and asks
  more of it (`daemon/src/peer/peer-backlog.ts:219`), and a row that is parked again is dated anew (`:300`), so that a message is pasted
  in a tick in which an older one of its kind stays parked.
- A row scheduled for later is "held out of drain until this passes" (`daemon/src/store/jsonl-store.ts:81`), but the SQLite table has no
  column for the time (`daemon/src/store/sqlite-store.ts:76`): `KeptBack` holds on JSONL only.
- "Attach busy — disconnect the other client first" (`daemon/src/inbox/terminal-pool-pty.ts:328`), but the close event of a socket that failed
  earlier frees the worker from whoever is attached now (`:371`).
- `tp run` posts to `/tp/submit` (`tmux/src/ops/terminal-pool-client.ts:78`), a path the server does not have.
- After a fallback to JSONL (`daemon/src/store/create-queue-store.ts:28`) new rows go to files that later starts hold to be imported; `docs/STORAGE.md:143` says so.
- A hand-off at resume sets `recoveryRunning` (`daemon/src/connectivity/oc-limit-v2.ts:784`) and starts no episode whose end would clear
  it: that takes a manual restart (`daemon/src/mesh-inbox-server.ts:1405`).
- The shared stamp is read in one file (`daemon/src/connectivity/connectivity-recovery.ts:735`) and written later in another
  (`oc-limit-v2.ts:628`), so that the daemons of two meshes can both start.
- POST `/targets/<id>/triage` writes back the row it read before two awaits (`daemon/src/mesh-inbox-server.ts:721`): a scope cancelled meanwhile is
  active again beside the one that replaced it.  `Targets` has the behaviour.
- A target that is triaged by hand before its deadline gets both marks (`daemon/src/target/target-fire.ts:82`, `:88`), and nothing happens "when
  deadline passes" (`:100`).  POST `/remind` of a target also mails the leads, when they have not been mailed yet.
- "Keep at least one free if possible" (`daemon/src/recovery/layout-auto-scale.ts:80`): with one free shell above the minimum the condition
  scales down (`:81`), which leaves none, so that the next tick scales up again.
- The injected stamp "survives backlog park" (`daemon/src/store/jsonl-store.ts:78`), but a promotion
  interrupted between its two writes (`daemon/src/peer/peer-backlog.ts:265`) leaves a backlog row that comes back without it.
- A pane is blocked "until cold-start delivers" (`tmux/src/seats/cold-start-state.ts:137`), but a summons that was
  parked no longer counts as pending, and mail passes it (`:161`).
- With the SQLite store, an import at start arms again what has been cancelled or fired since the old file was
  written (`daemon/src/store/reconcile-checkbacks.ts:39`), so that a "one-shot verify"
  (`daemon/src/orchestrator/mesh-orchestrator.ts:690`) is shown once more after every restart.
- A parked row whose footer a settled row carries counts as delivered although it never was shown
  (`daemon/src/peer/peer-backlog.ts:132`).
- "Steer into Cursor follow-up is forbidden" (`docs/PEER-BACKLOG-SPEC.md:35`): `inject-delivery.ts:176` allows it for ACK-class text.
- "Only PRIORITY / STOP other work pastes" (`peer-backlog.ts:21`): such a row is kept live but pasted only if it is
  light (`inject-delivery.ts:206`).
- "After this many successful fires, stop renewing" (`daemon/src/checkback/checkback-fire.ts:4`): a reminder of kind coord-expect that was
  refused counts as a fire (`mesh-orchestrator.ts:571`), and each re-assignment arms a new check-back with a count of its
  own (`tmux/src/coord/coord-expect.ts:109`).
- "After generate ends, wait full COORD_IDLE_SETTLE_MS" (`daemon/src/inject/compose-gate.ts:115`): the busy clock moves only when
  the gate is consulted, and the delivery returns early on a held pane.
- `inbox stop` says "OK: mesh-inbox stopped" (`tmux/src/comms/inbox-bridge.ts:620`), but `waitPortQuiet` is true once
  the watcher shuts down (`mesh-inbox-watcher.ts:215`), so that `spawnChild` starts a server which outlives the stop.
- A watcher spawns beside a server that is busy and so does not answer (`mesh-inbox-watcher.ts:237`, `:251`); the duplicate
  exits on the used port after it has rewritten `PANE_OPS.jsonl` (the slips of `JobContract` count what that costs).
- A hung server that a watcher adopted, and did not start, is never killed by it (`Forsaken`); the next command does it.
- Of two watchers, the first to see the stop file removes it before the second looks.
- `inbox stop` sends SIGTERM to the supervisor named in `mesh-inbox.json`, which may be the host's, with all its meshes.
- The SIGKILL three seconds after SIGTERM (`mesh-inbox-watcher.ts:50`) never fires after a signal, since the supervisor exits before.
- A write that fails before or after an operation leaves `paneOpBusy` set for good (`daemon/src/inbox/pane-ops-drain.ts:48`, `:71`).
- A terminal job whose time is up gets SIGHUP, and a kill that fails is swallowed (`daemon/src/inbox/terminal-pool-pty.ts:249`); its result is mailed at once
  (`:254`).  A process that ignores the signal runs on beside the next job of its worker, so that more processes run than there are workers, and what it
  still prints goes to the screen of that job (`:261`).  `JobsOnce` says what is left: only the time-out reports a job that may still run.
- "Next busy→idle cycle means the agent answered in the pane" (`daemon/src/ack/ack-watch.ts:71`): the look that sees a prompt go in also sees the pane busy
  (`:80`), so that a prompt typed while the agent still answers the one before is closed by the end of that answer.  `ReplyIsLater` says what is left: work seen at that look or later,
  rest in a later one, and nothing pasted between.
- "One-shot: toast operator" (`daemon/src/target/target-fire.ts:100`): a toast that the desktop refuses is marked as shown (`:83`) and not tried again.

- "Stable draft ≥ COORD_STUCK_DRAFT_SEC → deliver with restore" (`daemon/src/inject/compose-gate.ts:115`) cannot happen while the provider reports
  the phase typing: the delivery holds such a pane before (`daemon/src/inject/inject-delivery.ts:180`).
- The profile that auto-scale reads is loaded once, at the start of the daemon (`daemon/src/recovery/layout-auto-scale.ts`).  After it has scaled down, the next step up counts from the old
  number, and a daemon started at the maximum never scales up again, against "Up when no free empty shells" (`core/src/schema/layout.ts:133`).
- The secretary's restart cancels a generation of more than 180 seconds, also one whose percentage moves (`daemon/src/recovery/secretary-auto-restart.ts:63`).
- "Wait for resume-sent then complete toasts" (`daemon/src/connectivity/connectivity-recovery.ts:695`): a poll that finds the probe's lock ends the
  episode without a wave (`:651`).  `PollLocked` has it, and `ResumeFollows` leaves it out.
- A pane that goes from a transport error to a credit gate keeps its entry (`connectivity-recovery.ts:590`), so that PROXY-DOWN lasts as long as the gate.
- "Running cpe-proxy-up.sh now" (`connectivity-recovery.ts:694`): the script is skipped within its cooldown or while another recovery runs, and is tried at the start
  of an episode only.
- The marks of a Cursor or Kiro limit (`connectivity-recovery.ts:552`) are not removed when the pane works again (`:588`), so that its second limit is not handled.

## Proofs

All theorems hold for any sets of messages, panes, check-backs, operations, watchers and servers and for
any bounds, under the named assumptions of the modules.  Every safety property of a passing run is stated by a theorem.

`RowOrderProofs`.  What a sort and `slice(0, n)` give, for any finite line: n rows or all of them (`FirstOfSize`), and nobody left out
who stands before one that was taken (`FirstOfIsAhead`).  The first is a counting argument: the places of the rows in the line, counted by who is ahead, are
a bijection onto 0..size - 1 (`OnePerPlace`).

`PeerQueueProofs`.  `TypeCorrect` comes first.  `AtMostOncePaste` is not inductive as it stands: a row
pasted once could be live.  `Debt` adds to the count of pastes what a row can still
cost, one for being live and not pasted by the batch at hand, one for standing in the backlog
file or being owed to it, and bounds the sum by one more than the failures.  It rests on `Shape`: what the
step holds in memory at each place (a batch consists of live rows, at the stamp all of
them were pasted, only one row of a batch is between its two files).  `FilesStayInAgreement`,
`SettledStaysSettled` and `DeliveredIsShown` follow from `Shape` in one step each, and `SummonsFirst` from it and `SummonsGoAlone`: a batch
with a summons is that summons, and any other batch waits for the summonses of its pane.  `MailKeepsContract`
maps the rows to the boxes of `MailContract` and shows each action to be a contract step or a stutter.

The order of mail has theorems of its own, over `InOrder` (`LinesNeverFork`): no two arrivals have one number, the backlog file is one line of the parked rows, and
at most one row stands between the two files, during a parking or since a failure in one until the next reconciliation, which appends it.  Were there two, it could not be said
which goes first.  From it and `RowOrderProofs` follow `TurnsAreUsed` (a pane or a promotion with rows takes some, at most `BulkMax`; two
rows that sort alike would leave nobody the first) and `DrainsInOrder` (no row is pasted over one that the same drain
ranks before it).  The order between drains, which a document promises, is not kept (see above).

`CheckbackProofs`.  `CheckbackShownOnce` uses `Accounts`: showings so far, plus one if the row is
armed, are at most armings plus failures; during a tick this holds of the copy, and of the store with one more,
which is what a failure costs.  `CheckbackCancelSticks` uses `CopyKnows`: whatever is cancelled in the store
is cancelled in the copy.  The first assumes that no file is imported (`Frozen = {}`), the second also that there are
no legacy rows (`Legacy = {}`); without these it fails, as the list above shows.

`PaneOpsProofs`.  `PaneOpsTyped` needs `RunsInDrain`, that a drain in an operation has a row left to count.
`PaneOpsRunOnce` uses `NoTrace` (an operation not yet in the file left no trace) and `Races`: runs plus one for a
row that waits are at most one plus the daemons started beside a live one; and while such a daemon has not written
its copy, either the sum is smaller, or there is no other daemon and its copy is what the file says.
`PaneOpsKeepContract` maps rows and commands to the stages of `JobContract`: an operation is not handed in until its POST is read, and what has no
row after that is over.  Besides these it needs `Alone`: short of a slip, a starting daemon overwrites the file with itself.
`JobContract` says more than the count of runs: what is over stays over, and a running row never waits again.

`SupervisionProofs`.  `SupervisionTyped` includes that no watcher counts more misses than it takes to kill.
`SupervisionOneServes` is inductive with the types: all steps but `Listen` only take
servers off the port (`OnlyListenServes`), and `Listen` finds it free.

`AckLedgerProofs`.  `OneOpenRowPerAsk` uses `PromptInv`: between two sweeps a pane is looked at once, so that at most one of
its prompts waits for the sweep that puts it on the ledger.
`PastesArePaidFor` uses `PasteInv`: a mail is pasted at most once more than the daemon died, and not even that while it is not marked as shown.
`RepliesComeLater` uses `ReplyInv`: a pane whose arm has gone busy, or whose reply waits for the sweep, was seen busy at or after every
prompt of it, on the ledger or waiting; and `ArmInv`: while a pane is armed nothing that disarms it was pasted there since its last prompt.  `ShownAsksAreTracked` and `ClosedRowsStay` take one step each.

`RecordProofs`, links.  `ShotInv`: a link that can be used again, because it is in memory, or in the file and not being handled, was acted on
at most as often as something failed.  `FileInv`: a saved link that is neither used nor expired is in memory and in the file.
`RecordInv`: as long as nothing has failed, the ledger has what was registered, and says acted of what was executed, the link
being handled excepted.  `CardInv`: the answers of a registration with a card carry that card, wherever they are kept, and its other links carry none.

`RecordProofs`, calls.  `PairInv`: each copy a command has read, and the file, have one pending call for a pair; a
command about to write a call has a copy without any.  `RoomInv`: an accepting command past its room has made it or found it.

`RecordProofs`, store.  Under `MaxBreaks = 0` the store is in one of two modes.  `FileMode`: the files own the rows, and the table, which has no
row that they have not, owns them too only once an import has copied the peer rows.  `TableMode`: the import is marked, or there was nothing to import, and the table owns them.

`RecordProofs`, pool.  `JobInv` ties the three copies of a job together: a pending job was never spawned, a job held by a worker has a process and no
report, no second worker holds it, and a live process has a worker until its time is up.  A kick gives each idle worker a job of its own, which rests on the order of the file being one-to-one
(`TpTypeOK`); that a new row gets a place of its own uses that the jobs are finitely many (`PoolAssumption`).
From the same invariant `PoolKeepsContract`: the pool keeps `JobContract` too, and no crash is a slip of it, since nothing repairs its file.

`ServicesProofs`, deadlines.  `DebtInv` counts what may still be shown: a row without its mark and a request that awaits owe one show each, and shown plus owed is at
most one more than the requests and the faults.  A request that writes back an older row erases a mark, and pays with itself.
`LineInv`: the file is one line of the rows added, and ticks and requests are about rows of it, however old; so that a tick cuts exactly its
budget out of the rows that are due (`TicksUseTheirBudget`).

`ServicesProofs`, rate limit.  `EpisodeInv`: an open episode has not killed the seats yet, and each reboot after the first is paid for by
a hit of the same address, of which an open episode has had one at most.  `OcTypes` adds `OwnsTimer`, that an episode which believes it has a timer has one: otherwise its end
would stop a timer twice and the count of timers fall below zero.

`ServicesProofs`, proxy.  `HoldIsConfirmed` and `WaveIsOwed` are inductive together with the types.  The first: a pane held for a transport error has a full streak,
because whatever resets the one resets the other.  The second is the safety half of `ResumeFollows`: short of the probe's lock, an episode without a wave is either still open or has its wave in the queue,
an open episode has a pane to show for it after each poll, and a queued wave stands beside neither.

`ServicesProofs`, together.  `ServicesBehave`: a behaviour of `MCServices` is, for each of the eight, one of its own specification; hence `ServicesTypes`, the invariant
`Services_core` checks, and `ServicesSafe`, the safety of all of them in one run.

Only model-checked: `MailSettles`, `ChecksSettle`, `SuperviseRuns`, `OpsSettle`, `Recovers`, `AnswersClear`, `JobsStart`, `EpisodeEnds`, `DeadlinesShow`, `HoldsEnd` and `ResumeFollows`,
which are liveness under fairness, out of the prover's reach like ENABLED and induction over data.  `InOrder`, `TurnsTakeRows`, `PastedInOrder`, `TurnsUseBudget`, `HoldIsConfirmed`,
`WaveIsOwed`, `RunsOncePerRace` and the contract of `TermPool` are proved and not listed in a run; they were checked on the instances of `PeerQueue_core`, `PeerQueue_kinds` and `Services_core` first.

## Not modelled

The models map a small share of the repository's lines, since most of its code keeps no state of the mesh: terminal captures and their
parsing (providers), keystrokes and layout (tmux), profiles and their schema, command-line parsing, notification
pages, the drivers of desktop toasts, the web console.  The models take their verdicts as inputs.  The
BullMQ queue is optional and off by default.

Within the modelled parts these are left out, each for want of a property that would tell it apart: room posts, cursors and fan-out; the digests
of the inbox lanes; redirect blocks; the wording of anything.

## Plan

What is left, in this order:

1. `ComposeGate`: the busy, idle and draft clocks with both callers, refining the composer class `settling` of `PeerQueue`; the promise of the settle window.
2. `InboxLanes`: digests of manager and secretary over the rows of `AckLedger`.
3. `Recovery`: auto-revive, auto-scale and the secretary's restart, with their cool-downs; does the layout settle?
4. `Redirects`; `Connectivity` composed with `PeerQueue`, whose set `limited` is the `cache` of the first.
5. Room posts, cursors and pings.
6. `Supervision` composed with `PaneOps`: the races that `MaxDups` bounds, produced by the watchers; `Ensure` split into probe and kill.
7. One abstract *timer store* for `Checkback` and `Targets`.
