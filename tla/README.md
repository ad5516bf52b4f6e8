# Verification of agent-orchestrator-mcp

TLA+ models of the daemon that runs coding agents on behalf of an MCP client,
with TLC runs on small instances and TLAPS proofs of the most important safety
properties for all instances. File and
line references are to the repository: `runStore.ts:374` is line 374 of
`src/src/runStore.ts`.

## 1. The system

An MCP server process per client forwards tool calls over a local socket to one
daemon. The daemon (`orchestratorService.ts`) creates *runs*, spawns a worker CLI
for each (`processManager.ts`) or drives the Cursor SDK (`backend/cursor/`),
records what the worker says, stops it on request or on a timeout, and tells
clients when a run ended. Everything durable is files under one root
(`runStore.ts`); CLI commands and launchers open the same files or the socket
from processes of their own.

| Component | State | Operations | What makes it correct | Model |
|---|---|---|---|---|
| Run store: runs (`runStore.ts`) | per run `meta.json`, `result.json`, `.lock` | `createRun`, `updateMeta`, `markTerminal`, `pruneTerminalRuns`, reconciliation at start | an outcome never changes; result and meta agree, also after a kill | `RunStore` |
| Run store: notifications | `notifications.jsonl`, `.seq`, acks, sentinels, `.notifications.lock` | `append...NotificationIfNew`, ack, prune, `ensureReady` | every end is announced once, truly, with rising numbers | `RunStore` |
| Run store: event log | `events.jsonl`, `.events.seq` | `appendEvent`, `readEvents...`, `readEventSummary` | consecutive numbers; a paging client misses nothing | `EventLog` |
| Worker supervision (`processManager.ts`) | child process, timers, closures of the attempt, event buffer | `start`, `executeAttempt`, `handleJsonLine`, interceptor and retry, `cancel`, `finalizeRun` | one worker at a time; every run ends; events survive; the record says what happened | `WorkerRun`, `WorkerResult` |
| Orchestrator service: runs in progress | `activeRuns`, run timers, `shuttingDown` | `startRun`, `cancelRun`, `shutdown` | an accepted stop takes effect; a stopped daemon leaves no worker | `WorkerRun` |
| Orchestrator service: follow-ups | metadata a run inherits | `sendFollowup`, `chainOriginatedFromProfileMode` | a chain of follow-ups keeps network, owner and session | `RunTree` |
| Account rotation (`orchestratorService.ts`, `claude/`) | claims per parent, picker locks, `claude_rotation_state` | pick an account, copy the session, retry afresh, rebuild claims | siblings get distinct accounts; no conversation is overwritten | `Rotation` |
| Account registry (`claude/accountRegistry.ts`) | `accounts.json`, in-process lock | mark a cooldown; login, set, remove from the CLI | no cooldown is lost | `Rotation` |
| Worker profiles | manifests, in-process lock | `upsertWorkerProfile`, resolution at start | no upsert is lost; no run starts with an unfit profile | `Profiles` |
| Waiting and progress (`wait_for_any_run`, push poller, `monitorCli.ts`) | cursors over the journal | wait, poll, ack | no notification is missed or told twice | `Notify` |
| Orchestrator status (`daemon/orchestrator*.ts`, `supervisorCli.ts`) | registry, slots with debounce and stale timers, sidecar | register, signal, recompute, emit | the last status shown is the current one | `StatusEngine` |
| Cursor runtime (`backend/cursor/`) | agent, stream, cancel state | `spawn`, `drainAndFinalize`, cancel, timeouts | as for worker supervision | `CursorRuntime` |
| git snapshots (`gitSnapshot.ts`) | snapshot in the record | capture, compare | the files that changed are named | `CursorResult` |
| Daemon boot and IPC (`daemon/`, `ipc/`) | pid file, socket | boot, ping, stop, restart, exit | one daemon serves a store and can be reached | `Daemons` |
| CLI backends, result derivation | none | pure functions | the status follows from exit code, result event and stop | in part: `WorkerResult`, `CursorResult`, `RunTree` |
| Session audit and snapshot (`observability.ts`) | none | audit, grouping into sessions | sessions are not mixed | in part: `RunTree` |
| Lock files between processes | `.lock`, `.notifications.lock` | judge stale, break | mutual exclusion of processes | not modelled |
| Status hooks, rendering, launchers, auth, CLIs, schemas | configuration files | one-shot, sequential | | section 8 |

How they interact: the service calls the process manager or the Cursor runtime;
both call the store; the store's reconciliation runs before the daemon listens;
the waiting tools read the journal that `markTerminal` writes; the status engine
listens to the store's lifecycle events; rotation reads the error that
finalization recorded; launchers, monitors and the frontends reach the daemon
over the socket.

What is hard:

- all calls of the daemon interleave at every `await`, and one logical change is
  several files;
- the process may be killed between any two of these writes, and its locks,
  sidecars, sockets and pid files stay behind;
- the worker writes, exits, hangs or ignores SIGTERM on its own schedule, while
  its pid is recorded, its lines are awaited, its stop is under way; an SDK may
  end its stream, its answer and a cancel in any order or never;
- the interceptor replaces a worker by another under the same run id, and
  rotation replaces a conversation's account;
- caches and copies (`.events.seq`, sentinels, claims in memory, the sidecar, the
  metadata that a follow-up inherits) lag behind what they summarise;
- locks that are chains of promises hold nobody outside their process.

`PROJECT.json` lists these hazards, each at its line, with the properties that
would notice it going wrong.

## 2. Modules

| Module | What it is |
|---|---|
| `RunLifecycle` | abstract promise of a run: created, finished once, announced at most once after that, pruned |
| `RunStore` | runs, locks, notifications, prune, kill, restart and reconciliation, one file operation per step; implements `RunLifecycle` |
| `RunStoreInv` | inductive invariant of `RunStore`, and a second one for the states before a kill or a failing call |
| `EventLog` | numbering of events, counter, unlocked repair, paging clients, kills |
| `WorkerRun` | supervision of workers, interceptor and retry, stops, shutdown, failing store calls |
| `WorkerResult` | operators: status and `latest_error` of a CLI worker's end |
| `Rotation` | accounts, claims, session copies, registry; uses `WorkerResult` |
| `RunTree` | what follow-ups inherit, and the dashboard's sessions |
| `Profiles` | manifests, upserts, profile starts |
| `Notify` | journal, monitors, push poller |
| `StatusEngine` | registry, status engine, sidecar, signals, restart |
| `CursorRuntime`, `CursorResult` | one SDK run with its two coroutines; operators: error classes, changed files, status |
| `Daemons` | pid file, socket, starting, stopping, version check |
| `RunStoreProofs`, `RunRecordProofs` (`EventLog` and `RunTree`), `WorkerRunProofs`, `RotationProofs`, `StatusEngineProofs`, `DaemonsProofs` (and `Notify`), `ProfilesProofs`, `CursorProofs` | theorems |
| `MC...` | values of the constants for TLC |

Each module models one component by itself; where components meet, the
neighbour appears as the few actions it takes on the shared state: `Notify` and
`StatusEngine` have the ends of runs in the order in which `RunStore` writes
them, `Rotation` judges the ends that `WorkerResult` can compute, `Daemons` has the
orphaning that `RunStore` does step by step.

### RunStore

`pc[a]` is the next file operation of call `a`. `markTerminal` (`mt_*`): take the run
lock, load meta, return if it is terminal already, write `result.json`, write
`meta.json`, append the terminal event, publish the fatal error and the end,
release; all inside the run lock and, nested in it, the notification lock
(`runStore.ts:345-400`). `updateMeta` (`um_*`): lock, load, write the whole file back,
release. `append...NotificationIfNew` (`nt_*`): lock, sentinel, next number, journal
line, counter, sentinel. Prune (`pr_*`): directories one by one, then truncate and
rewrite the journal, then the acks. Start (`bt_*`): `ensureReady` rewrites missing
sentinels or publishes missing notifications, `initialize` orphans running runs,
and only then the daemon listens.

`Crash` may come between any two steps: local state is lost, files stay, locks
become `Stale`. `Throw` is a failing operation: `finally` blocks release the locks; a
failure of the reconciliation stops the start. Only runs nobody works on are
pruned: `older_than_days` is a positive integer (`contract.ts:559`), so such a run
ended at least a day ago. Two prunes may choose the same runs: the second passes over
directories that are gone (`rm` with `force`) and then removes what the journal still
has of them. A notification is `Rewritten` while it is only in the memory of a prune that
has truncated the journal.

### EventLog

`appendEvent` under the run lock: read the counter (or, when it is torn, repair
it from the log), append, truncate and write the counter. `readEventSummary`
does the same comparison *without* the lock and may write the counter.
`ReadEventsPage` gives a client the first `Limit` lines above its cursor.

### WorkerRun and WorkerResult

`stage[r]` is where the run's asynchronous functions stand: `preparing` (startRun,
after createRun), `spawned` (child exists, pid being recorded, nobody listens),
`attached`, `settling` (after `close`), `finalizing`, `resolved`, `done`, `merged`;
`retrying`, `marked`, `respawning` lead to the second attempt. State of a closure
(`override`, `engaged`, `fired`, `gotResult`, ...) is a variable of its own, because a
stop may reach the closure of an attempt that is already given up. `parsing` and
`pending` hold lines and events whose `await` is under way, so their completion may
overtake each other. Failing store calls (`LoseEvent`, `LoseLine`, `FailAttach`,
`FailMarker`, `FailHook`, `FailFinalize`) follow the code's catch blocks one by one. A
failing append stands for each store call that a line's persistence makes and whose
rejection `Promise.allSettled` swallows (`processManager.ts:412-430`): that of an event
line, of its activity mark and meta update, and of a buffered event at the flush.

`WorkerResult` computes what `finalizeRun` records: `Override` from the first stop,
`OverrideError`, `TerminalError`, `LatestError` from the sequence of errors and stops
of the worker, its exit code and its result.

### Rotation

`call[r].pc` follows one `start_run` or `send_followup`: `evaluateRotation` under the
parent's picker lock (`queue[p]`, a chain of promises), the claim in memory
(`claimed`) and on disk (`meta`), the registry's cooldown marks (`writers`), the copy
of the session file from the parent's account, `createRun`, the spawn, the retry as
a fresh chat when the session is unknown. The copy is three steps, as it has no lock
but the parent's: `CheckTarget` looks for the target, `ReadSource` reads the source (to
compare it, or into a temporary file), `RenameCopy` replaces whatever is at the
target by then. `overtaken` notes where another follow-up, which had found no target
either, was still on its way to its own rename. `Crash` forgets what is in memory;
`rebuilt` says whose claims were read back. The CLI reads and writes the registry
in two steps and takes no lock.

### RunTree

A run is created by `StartRun`, or by a follow-up in two steps: `CheckFollowup`
(`sendFollowup` up to its checks) and `CreateFollowup`. `Observe`, `End` and `Prune` change what a
later follow-up finds. `ChainIsProfileMode`, `FollowupNetwork`, `Stamp`, `Effective` are the
functions of the code by name; `Audit`, `SessionKey` and `Sessions` those of
`observability.ts`.

### Profiles

An upsert is `Ask` (frontend check, daemon check, place in the manifest's chain),
`ReadManifest`, `Inspect` (validation, which asks for backends and accounts) and `Write`;
a start is `Load` and `BindAndCreate`. Users edit the manifest between any two steps,
backends and accounts disappear. `Efforts`, `Tiers`, `Fits`, `Valid` are the capability
catalog and the validation.

### Notify

A run's end is `meta.json` first, then the fatal error, then the terminal line. After a
kill (`DaemonCrashes`, `up` is false) a daemon starts: run after run it publishes what
is missing, the terminal line before the fatal error (`stage` "late" is between the
two), then it orphans what it finds running, one run after the other (`OrphanRun`),
and only then it listens (`DaemonListens`). It can be killed at each of these steps.
A monitor checks that its run exists and waits (`wait_for_any_run`, with the page size
and the kinds the code asks for); its supervisor starts it again from the last
id it printed. The poller's ticks may overlap: each lists, pushes one by one, and
moves `lastSeen`. Acks, prunes and failing requests come at any time. The lines of the
journal are a set: their numbers are their order.

### StatusEngine

`entries` are the state objects of the registry (a re-registration makes a new
one, a recompute in progress keeps the old), `slots` the engine's emission slots
with their debounce and stale timers, `job` the recomputations in progress, which
read the runs and then the notifications. The launcher writes the sidecar,
registers, and removes both at its end; each of these calls may fail, and the
launcher goes on (`launcher.ts:268-272`, `289-293`, `359-376`), or it is killed while its
supervisor lives or not. `unclean` notes an end that left something registered or on
disk. A signal command that the daemon does not know re-registers from the sidecar
and tries again; each of its calls may fail, and its event is then "lost". A restart
forgets registry and slots. A request that timed out was applied at once or is
dropped: one that the daemon takes up later is not there.

### CursorRuntime and CursorResult

`pc[r]` is where `spawn`, then `drainAndFinalize`, stands; `drain[r]` is the coroutine
that reads the stream. The SDK may end or fail the stream, answer or fail
`wait()`, and obey a cancel, in any order or not at all. `DrainRace`, `DrainGrace`,
`WaitRace`, `WaitGrace` are the two races with `cancelDrainMs`. `CursorResult` has the
error classes (an error is classified twice, the second time without its class),
the files found changed against the snapshot, and the status derived again from
exit code and result event.

### Daemons

A daemon opens the pid file (or reads, judges and replaces one that is there),
removes a stale socket, orphans the runs it finds and listens; or it is turned
away. It stops by request (`stop`, `restart`, with and without `--force`), by signal, or
is killed. Files are known by who created them,
so a write through an open descriptor does not reach a file that replaced it.
Clients ping, spawn a daemon when nobody answers, compare versions.

## 3. Runs

| Run | Instance | States | What it shows |
|---|---|---|---|
| `store_crash` | 1 run, 2 calls, outcomes completed/cancelled, fatal errors, 1 kill, 1 failing call | 630 k | result and outcome agree; every end is announced, once and truly; `RunStore` implements `RunLifecycle` |
| `store_prune` | 2 runs, 2 calls that may both prune | 1.6 M | pruning one run keeps the other's notifications; overlapping fatal errors are announced once |
| `events` | 2 appends, 2 summary readers, 1 client with pages of 2, 4 events, 2 kills | 157 k | numbers may repeat but never jump; while no reader repairs and nothing is killed they are consecutive and the client misses nothing |
| `worker` | 1 run with interceptor, 2 lines, early exit, 1 failing call | 841 k | never two workers, no trace of the killed one, no worker outlives its run, nothing lost, ends are told truly and come |
| `rotation` | a run, 2 follow-ups of it and 1 of theirs, 3 accounts of which the CLI touches one, 1 trouble | 582 k | siblings on distinct accounts; resumed workers find their conversation; conversations and cooldowns kept, but for overlapping copies; limits told apart; the picker's lock is released |
| `run_tree` | trees of 3 runs, a call with a pinned id and one with forged metadata, snapshots of 2, 1 prune | 849 k | network, owner and session are inherited as they should be |
| `profiles` | 2 manifests, 2 ids, 2 upserts, 1 start, 3 profiles (fits, needs an account, does not fit), 1 edit, 1 failing write | 291 k | accepted upserts stay; writes are guarded; no run starts unfit |
| `notify` | 2 runs, which fail or are orphaned, 1 monitor, 2 ticks, pages of 2, 1 ack, 1 kill or failing request | 242 k | delivery is complete, true and single; monitors exit; everything is pushed |
| `status` | 1 run, 1 signal command with 2 events, 2 recomputes at once, 1 restart, kill of the launcher or failure | 1.0 M | the status shown is right once at rest; what is left of ended sessions is explained, no event of others is lost for a restart; the engine rests |
| `cursor` | 1 run, 2 messages, 1 file, 1 edit, 1 failing call | 1.1 M | a Cursor run ends, as the first cancel wanted, with a complete record; changed files are named |
| `daemons` | 2 daemons, clients of 2 versions, 3 requests, 1 trouble | 463 k | one daemon serves, can be reached, owns the running runs; stale files block nobody |
| `worker_lost_stop` | as `worker`, 1 line | violation | section 5 |

Some of the properties are conjunctions whose parts are defined and commented
next to them:

- `AnnouncedOnceAndTruly`: `OneTerminalNotification`, `NotificationTellsOutcome`.
- `EndsAreToldTruly`: `AcceptedStopHolds`, `RetryIsNotShownAsResumed`;
  `SupervisionEnds`: `EveryRunEnds`, `StopEnds`.
- `RotationConsistent`: types, `ClaimsAreOnDisk`, `ResumedMarkerIsTrue`;
  `StoredFactsAreKept`: `ConversationsAreKept`, `CooldownsAreKept`.
- `InheritanceHolds`: types, `NetworkIsInherited`, `ProfileNetworkIsKept`, `OwnersAreNotForged`,
  `NoRunOverlapsItsAncestors`; `SessionsAreShownApart`: `FollowupsJoinTheirSession`,
  `SessionsDoNotMix`.
- `ManifestsKeepUpserts`: types, `AcceptedUpsertsStay`; `WritesAreGuarded`: `PinnedWritesStayInThePin`,
  `ManifestsStayWhole`, `UpsertsAreAnswered`.
- `DeliveryIsExact`: types, `MonitorsMissNothing`, `ExitCodeIsTheOutcome`, `PushedAtMostOnce`.
- `StatusIsRight`: types, `SettledStatusIsRight`; `SessionsAreFollowed`: `NoGhostOrchestrator`,
  `EventsSurviveRestart`.
- `EndsAreWhole`: types, `FailedRunsSayWhy`, `RateLimitsStayRetryable`, `ResultAgreesWithRun`,
  `WholeStreamIsLogged`, `TerminalRunsReleaseAgents`; `RunsEndAsAsked`: `StartedRunsEnd`,
  `FirstCancelDecides`.

### Why the bounds are enough

Two calls are what a lock conflict needs, and the start is a third actor. One
kill at any of the steps leaves every possible torn state; the second life of the
daemon then runs to its end, reconciliation included. Two kills matter where one
life leaves a state that only the next but one trips over: the counter of
`EventLog`. Four events and a page of two let a page be full, partly full and empty
while others are appended. Two lines give the interceptor one line to buffer and
one to decide on, or to have in flight when it decides.

In `Rotation` two follow-ups compete for one parent's accounts, and a third account
lets both succeed. A follow-up of the first copies the same session from another
account while the second is copying, which is what it takes for two copies to one
target to overlap; where there is a trouble, one call less is made (`MaxTroubled`).
Two signs (errors or stops) of a worker are every order of a limit and another
reason to end. `RunTree` needs three generations for a chain check that only looked at the parent to go wrong, and
two follow-ups of one run for sessions to mix. Two upserts and one edit are what
a lost update needs; the second manifest is where a relative path is resolved
differently. `Notify`'s page of two is smaller than what two runs with fatal errors
announce, so pages are full and have a rest; the interval fires while a tick is at work. `StatusEngine` needs
two recomputations, two registrations and two slots for an old one to be left
behind by a new one. It has one signal command: a stale timer that was armed before
a second event of the supervisor is left to the proof, which is for any number of them. Two messages let one be processed while another waits in the
Cursor stream. Two daemons and clients of two versions are a restart with a
start on top; a third daemon is covered by the proofs.

Three properties are about less than the hazard beside them suggests, because the
code does not handle it; what they leave out is a history variable and listed in
section 5. `OneDaemonServes` and its neighbours do not speak of two daemons that come
or go at once (`overlap`), `RunningRunsAreOwned` not of a run between `createRun` and
`activeRuns.set`, which is one step there, and `SettledStatusIsRight` not of
recomputations that overlapped (`missed`).

What does not depend on these bounds is proved (section 6).

`CHECK_DEADLOCK FALSE` is set wherever the system may really stop: the bounded log
is full, all runs are over, the daemon has exited, all requests were made. The
store runs check for deadlock.

### Fairness

- `store_crash` (`FairSpec`): weak fairness of the daemon's start and, per call, of the
  steps under the run lock; strong fairness of those under the notification
  lock, since calls poll a lock every 10 ms while others take it. Restart of a
  killed daemon is assumed: the client's next connection starts one.
- `worker` (`FairWorkerSpec`): weak fairness of `Continue` (the event loop goes on with
  whatever an await left), `KillTimer`, `RunTimer` (timers expire; a worker writes at
  most `MaxLine` lines, so the idle timeout is due in the end) and `Exit`. Nothing
  is assumed of the worker: it may ignore SIGTERM and never exit.
- `rotation`: some call in progress goes on (no call has a step that comes again, so
  each gets its turn), and so does a registry write under its lock; nothing is
  assumed of a worker that works or of the CLI.
- `profiles`: an upsert that was taken up goes on.
- `notify`: ends are announced after `meta.json`, a daemon that starts goes on, requests are answered, the poller's
  interval fires; nobody need start, acknowledge or prune anything.
- `status`: the reads of a recomputation return; not even its timers need fire.
- `cursor`: the program's own steps, the end of its grace periods and its timers;
  nothing is assumed of the SDK.
- `daemons`: a daemon that was spawned goes on booting or stopping, and its run
  comes to an end, which its timers see to.

In `worker`, `rotation` and `cursor` the subscripts of `WF_` are not all the variables
but one or a few of them that every step of the action in question changes, so that
nothing is left out by naming fewer.

## 4. Mutants

Every property of a passing run has a mutant: an operator next to the mapped one
(`AfterLoadAlways`, `LockIgnored`, `KillSchedulesNone`, `TargetUnread`, `DaemonTrusts`, ...) that
stands for a plausible slip in the code, such as a missing early return, a lock
not respected or not released, a stale copy used, a forced kill not scheduled, a
check made only in the frontend. With the mutant in place TLC finds the property
violated on the same instance.

## 5. Where the code differs from what the repository says

One difference has a run. In `worker_lost_stop` a stop reaches the attempt the
interceptor has just given up; `close` returns "retry" without looking at the
override (`processManager.ts:414`), the retry runs on without a timer, and a forced
daemon stop waits for it, although `src/README.md:545` says that it "cancels active
runs through the normal cancellation path, waits for terminal statuses, and
exits". `SupervisionEnds` excepts this state as `Unwatched`.

### Deviations without a run

These were met while modelling. Most are behaviours of the models, and they are
why a property carries a condition; a few are in parts that the models leave
out.

Run store and events:

- A prune rewrites the journal with `writeFile`; a kill in between loses the
  notifications of all other runs, and their sentinels keep the next start from
  writing them again (`runStore.ts:701`). Therefore `store_prune` has no kills.
- `readEventSummary` repairs the counter without the run lock (`runStore.ts:881`); when
  an append overlaps, the counter goes back and numbers repeat. A kill between an
  event and its counter has the same effect. Therefore `SequencesAreConsecutive` and
  `ReaderSkipsNothing` are about undisturbed logs, and with repairs and kills only
  `NumbersNeverJump` is claimed.
- A kill between the fatal line and its sentinel, then the orphaning of the run,
  writes the fatal error twice: `markTerminal` looks only at the sentinel.
- A kill right after the terminal `meta.json` (`runStore.ts:374`) leaves the event log
  without its terminal lifecycle event for ever, and until the next start the run
  without notification, although the comment at `runStore.ts:384-386` says that the
  run lock prevents it.
- A failing append that `handleJsonLine` awaits is dropped by `Promise.allSettled`:
  the run completes without the event (`processManager.ts:412`). Therefore
  `NoEventLost` asks for `faults = 0`.
- The interceptor's flush starts all appends at once; each takes the lock when it
  finds it free, so `events.jsonl` may swap events although the comments at
  `processManager.ts:226-228` and `318-319` promise arrival order.

Workers:

- A worker that exits while its pid is recorded is never seen to close, and the run
  stays running (`processManager.ts:209`, `400`). Excepted as `Unwatched`.
- When recording the pid fails, the run is marked failed "before the spawn" while
  its worker goes on (stage `abandoned`, excepted in `EndedRunHasNoWorker`).
- A start that has not reached `activeRuns.set` is not seen by `shutdown` and spawns
  its worker as the daemon exits (`orchestratorService.ts:1435`, `1505`).
- Neither the child nor its stdin has an 'error' listener (`processManager.ts:246`).
- A fatal error on stderr is announced although the interceptor then retries
  (`processManager.ts:289`).

Rotation:

- `copySessionJsonlForRotation` looks for the target (`sessionCopy.ts:169`) and renames
  onto it (`:234`) with awaits between, and the picker's lock is one parent's: where two
  follow-ups of different parents copy one session to one account, the later rename
  replaces what the first copy's worker has written, although
  `docs/development/claude-multi-account.md:145` says that the daemon refuses to
  overwrite. This is `overtaken` in `ConversationsAreKept` and
  `ResumeFindsTheConversation`; without it TLC finds
  both violated on the run's own instance, by a run and its three follow-ups.
- When `createRun` succeeds and the next `updateMeta` fails, the claim is on disk and
  not in memory, and the account is given twice; a failing `listRuns` while claims
  are rebuilt empties them for good. Both are `lost` in `SiblingsOnDistinctAccounts`.
- A prune before a restart forgets claims; `rotationTrackers` never shrinks.
- Plain follow-ups inherit `claude_rotation_state`, although the comment at
  `orchestratorService.ts:1199-1206` reads as if only rotated ones had it;
  `readRotationHistory` drops the truncation marker.
- A kill between the terminal record and the cooldown write loses the cooldown; the
  CLI's writes do not share the registry's lock and may undo one, which
  `CooldownsAreKept` excepts.
- A run that a user cancels and whose worker then reports a rate limit keeps
  `rate_limit` as its error, so its follow-up rotates. An "unknown" observed error
  hides `process_exit`, although `processManager.ts:684-689` speaks of a "structured
  classified error".

Waiting:

- A monitor whose `--since` is past the terminal notification, or whose run is
  pruned while it waits, waits for a notification that never comes (`EndIsToCome`
  is the condition of `MonitorsExit`).
- The poller moves its cursor before the push: a push that fails is not repeated
  (`EveryNotificationIsPushed` counts attempts).

Daemons:

- A daemon that the pid file turns away removes the socket of the running one in
  its exit handler (`daemonMain.ts:27-34`): `refused` in `ServingDaemonIsReachable`.
- `acquirePidFile` creates the file and writes the pid afterwards; two starters may
  take each other's file for stale and remove it: `overlap` in the properties.
- A `start_run` that arrives while the daemon stops is accepted, and the next
  daemon orphans it.

Status:

- Recomputations that overlap may show the older snapshot last (`missed`), and one
  in progress emits although its slot was forgotten (`stray`).
- A fatal error in the middle of a run, and a prune, change the status and raise no
  lifecycle event; the next recompute shows them.
- A re-registration that overlaps a signal clears `session_ended`; a signal that has
  read the sidecar before its removal leaves an orchestrator without launcher. So do
  a launcher that is killed and one whose `unregister_supervisor` fails: the sidecar is
  removed all the same (`launcher.ts:289-293`, `368-376`), and nothing removes the entry
  while the daemon lives. A sidecar whose removal fails lets a late signal register
  such an orchestrator. All are `unclean` in `GhostIsExplained`.
- A signal whose own calls fail loses its event, and so does one that comes after a
  restart when there is no sidecar, because writing it failed: `EventsSurviveRestart` is about
  one restart, or one failing call of the launcher, alone.

Cursor:

- A failure of the store before the `try` of `drainAndFinalize` rejects its promise and
  leaves the run running (`runtime.ts:277`): `pc = "broken"` in `StartedRunsEnd`.
- A failed import of the SDK is cached, and overlapping probes may leave "missing".
- A cancel between the settlement and `markTerminal` is lost; messages of a
  cancelled run may be logged after its terminal event (`WholeStreamIsLogged`).
- An SDK error in the middle of a run is classified again without its class
  (`docs/development/cursor-backend.md:86-94`, `runtime.ts:379`, `510-517`): a rate limit
  whose text speaks of authentication ends as `auth`, which is not retryable.
- With a `cwd` below the root of the repository, porcelain paths are relative to the
  root and `fingerprintPath` joins them to `cwd` (`gitSnapshot.ts:165`).

Profiles and follow-ups:

- An edit of the manifest by hand or by another process between an upsert's read
  and its write is lost (`accepted` only speaks of upserts). A frontend with another
  HOME resolves `~` differently from its daemon.
- Two follow-ups of one parent resume the same session at the same time.
- The chain check finds "not profile mode" when an ancestor was pruned: `whole` in
  `ProfileNetworkIsKept`.
- With a limited snapshot a session may be shown completed while a run of it runs; a
  rotated follow-up that is still pending is shown outside of its parent's session
  (`README.md:572-576`).
- `config.json` is replaced by defaults on any error of its read
  (`orchestratorService.ts:1744-1757`).

## 6. Theorems

Proved by TLAPS for every value of the constants that satisfies the named
assumptions (`...Assumption` in each module), which only say that the parameters
are of the right kind and distinct.

**RunStoreProofs.** `StoreInvariant` (module `RunStoreInv`) is inductive. The checked
properties alone are not: that a second `markTerminal` cannot overwrite the first
needs who holds the lock at which step (`CallsOwnLocks`), that the daemon starts
alone (`BootIsAlone`), that nobody prunes a run in use (`CallsOnReadableRuns`), and
what a half-finished call knows of the files (`CallsKnowTheirRun`). The journal's
properties need `LinesTellTheTruth` (a call that has still to append the terminal
line of its run finds none in the journal, nor in a copy that is about to be
written back) and `NumbersGoUp`. From it follow `TypeCorrect`,
`ResultsAreConsistent`, `AnnouncedOnce`, `AnnouncedTruly`, `EndsAreAnnouncedTruly`,
`CursorsAreSound`, `OutcomeIsFinal` (an action property) and
`StoreImplementsLifecycle` (refinement: every step is a step of `RunLifecycle` or a
stutter).

`SentinelInvariant` is a second invariant, about the states before the first kill and
the first failing operation (`Undisturbed`). The condition is the code's, not the
proof's: a line and its sentinel are two writes, and so are the truncation and the
rewriting of the journal, and a kill or a failure in between breaks both properties
(section 5). It says that what the call under the notification lock is about to do is
still right when it does it: whoever appends a line has found no sentinel and no line of
that kind (`OneLinePerKind`, `PublishersAreRight`), each line has its sentinel or a call that
writes it next (`LinesAreMarked`), each sentinel its line (`SentinelsAreBacked`), and a prune
removes directories first, lines second (`PruningIsOrdered`). From it
`SentinelsVouch` and `OneFatalErrorIsPublished`, for any number of overlapping prunes.

**RunRecordProofs, the event log.** `NoJump`, `CounterIsBacked`, `EventTypesHold` hold for any
number of appends, unlocked repairs and kills. `AppendsAreConsecutive` and
`PagingSkipsNothing` are about the states before the first repair and kill; they rest on
`Serial`, which says what the holder of the lock knows of log and counter at each step.

**RunRecordProofs, the tree of runs.** `TreeInvariant`, for any number of runs, overlapping
follow-ups and prunes. A follow-up is checked long before it is created, so its record
must be right for a state that has moved on (`Pending`): what it has from its parent
(`Follows`) stays true because a run is followed only after its end and does not change
afterwards, and what it has from the start of its line (`KeepsNetwork`) because networks never
change. `InheritanceIsKept` also speaks of ancestors at any distance. The chain of a
run's parents is a recursive function, which the prover does not unfold by itself;
`ChainsExist` shows that it is defined, by a shortest counterexample (a well-founded
order instead of induction), and `AncestorsAreParents` brings an ancestor back to the parent of
some run, for which `Follows` has the answer. `SessionsStayApart` needs of the invariant that a
follow-up asks for the session its parent ended in.

**WorkerRunProofs.** `WorkerInvariant` says in which stages a worker may live
(`OnlyTheLastWorker`), that the interceptor watches only the first attempt
(`FirstAttemptWatched`), that while it watches nothing of that attempt is on disk
or on its way (`WatchedIsBuffered`), and that a run ends only after its close
(`EndedIsSettled`). From it follow `WorkerTypes`, `OneWorker`, `NoTraceOfKilled`,
`NoWorkerOutlivesItsRun`, with any number of failing calls.

`WorkerHistory` adds where each event is between its line and the disk, in the
interceptor's buffer, in an append under way or written, and that a run can only end
when none is left on the way. From it `NoHandledEventIsLost`, while no call of the
store fails. `EndsAreTrue` needs with it that a stop which was accepted stays in the
closure that will judge the end, and that the retry is recorded before its worker
starts.

**RotationProofs.** `LimitAlwaysDecides`: for any finite sequence of errors and stops,
`latest_error` is a limit if a limit stopped the worker, and only if one was
reported. `RotationJudgesRightly` is the checked property for any bound on these
sequences.

`RotationInvariant`, in the same module, for any number of accounts, follow-ups, CLI
commands, kills and failing writes. `SiblingsOnDistinctAccounts` speaks of what is
on disk, so it needs the way there: a call between its choice of an account and the
record of its run is the first in its parent's queue (`QueuesAreRight`,
`CallIsRight`), claims once rebuilt hold every account on disk but the one that is
just being recorded (`ClaimsAreRemembered`), and what that call has chosen is free
(`ChoicesAreFree`). `RegistryIsRight`: what the first writer in the registry's lock has
read is not behind the file, so marks of the daemon only extend cooldowns; what the
CLI has read may be behind, which is the exception in `CooldownsAreKept`.
`MarkerIsRight` ties the terminal context to the session that was asked for. From it
`SiblingsStayApart` and `RecordsAgree`. `StoredFactsStay`, the action properties, needs
what a copy knows of its target while it holds no lock on it: a call that had found
none finds none at its rename either, unless the place is `overtaken` (`Lookups`, with
`TargetIsFree`: the only worker that makes a session's file is that of the run which
opened it, and that has ended before anyone copies). `Conversations` adds that, as long as nobody works with the CLI and the session was not overtaken, every
turn is in the session file of its own run's account, and that a call which is to resume has found
the file where its worker will look, with what its parent wrote. From it
`ResumedRunsFindTheirConversation`.

**StatusEngineProofs.** `StatusInvariance`, for any number of runs, signal commands,
recomputations and restarts of the daemon. `SettledStatusIsRight` speaks of an engine at rest, so
the invariant says what has still to come while it is not: each input that
changed since the last emission has a debounce timer, a stale timer or a
recomputation that has yet to read it, or one of the two exceptions of section 5 was
met (`missed`, `stray`). From it `StatusIsAlwaysRight`. `SessionsInvariant` counts: of a
supervisor that goes on, a missing registration or a missing sidecar tells of one
trouble and both missing of two (`EntryFollows`), and so does how far a signal has
come (`TroubleExplains`); what is left of one that ended tells of an unclean end
(`SidecarFollows`). From it `SessionsAreAlwaysFollowed`.

**DaemonsProofs.** `DaemonsInvariant`, for any number of daemons and clients: the daemon
that owns the pid file is the one that has passed the pid check
(`OwnersHoldThePidFile`), the others stand aside (`OthersStandAside`), who serves has
bound the socket (`ServingHoldsTheSocket`), and what was running before it listened
is orphaned (`RunsAreTakenOver`). From it `OneServes`, `ServingIsReachable`, `RunsAreOwned`.

`NotifyInvariant` (module `Notify`), for any number of runs, monitors, ticks and kills, and
pages of any length. `DeliveryIsExact` alone is not inductive: that nothing at or below a
cursor is news needs that cursors stay below the next number (`NothingMissed`), and that
a page begins with the oldest line that matches (`PageBegins`, from a well-founded order); that
an exit code is the outcome needs that a terminal line is only there for a run whose
status is final (`LineIsRight`, `ExitIsRight`); that nothing is pushed twice needs that one tick works at
a time and has only numbers above `lastSeen` left (`TickIsRight`). That each run takes two
numbers at most, over any kills, is `StoreIsRight`: no fatal error is announced that has its
sentinel, and no end that has been announced. From it `DeliveryIsAlwaysExact`.

**ProfilesProofs.** `ProfilesInvariant`, for any number of manifests and overlapping
upserts: an upsert in progress is in its manifest's chain, the one that has read
is the first there (`CallsAreQueued`), and what it has read is current in all that
was accepted since the last edit (`ReadsAreCurrent`). `AcceptedUpsertsStay` alone is not
inductive: the write replaces the whole manifest by what was read some steps
before. From it `UpsertsAreKept` and `RunsStartFitting`. `PinnedUpsertsStay` and
`UpsertsLeaveManifestsWhole` are the action properties of `WritesAreGuarded`; the first needs
that a call keeps the manifest it was admitted for (`PinnedCallsStay`).

**CursorProofs.** `CursorInvariant`, for any number of runs, messages, SDK errors, files and
failing calls. The fields of the record are right because of where the two coroutines
are: nobody can cancel a run before it is sent (`StartIsAlone`), a verdict is settled in
one step and then only written (`VerdictIsFinal`), and a stream is left unread
only by a cancel (`StreamIsAwaited`). `OutcomeAgrees` shows that mapping the SDK's answer
to a status and deriving it again from exit code and result event give the same.
From it `CursorEndsAreWhole`, and the action properties `FirstCancelStands` and
`ChangesAreNamed`.

Only model-checked: all liveness (`EveryEndAnnounced`, `SupervisionEnds`,
`PickerLockIsReleased`, `StaleFilesDoNotBlock`, `MonitorsExit`, `EveryNotificationIsPushed`,
`EngineComesToRest`, `StartedRunsEnd`, `UpsertsAreAnswered`), since fairness is out of the
prover's reach. Every invariant and every action property of a passing
run has a theorem, also where the run checks it together with a liveness property
(`WritesAreGuarded`, `RunsEndAsAsked`).

## 7. What could come next

1. `FileLock`: processes that stat, read, remove and create a lock file as separate
   steps, against the abstract specification of a mutex, which it implements only
   while no lock is stale.
2. `RunStore` and `WorkerRun` composed, for the fatal error that is announced before
   the interceptor retries.

## 8. Not modelled

- Breaking a stale lock file is one step of one process; two processes that
  break the same one are not there (`runStore.ts:844`).
- The status hooks (`daemon/orchestratorHooks.ts`): commands of the user, run once per
  payload, whose outcome nothing waits for.
- The content of prompts, events and results, the rendering of status, and the
  parsing of each CLI's JSON: data no property tells apart. The class of a line
  (text, result, fatal error, unknown session) is a nondeterministic choice.
- Launchers beyond their registration, authentication prompts, the secrets parser,
  diagnostics, argument parsing: sequential, without state that the daemon shares
  other than the files named above.
- IPC framing, timeouts of single requests beyond the ping, Windows pipes.
- Torn lines: a line is appended whole. Readers skip lines they cannot parse.
- Process ids and their reuse: a kill timer ends with its worker.
