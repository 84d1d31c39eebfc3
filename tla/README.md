# PocketDev in TLA+

Specifications of PocketDev (`src/`), a service that lets a phone run a shell
next to its project: in a container of an execution worker, or on the
developer's own desktop. They are written from the code and kept beside it.
Line numbers below are those of the sources; `PROJECT.json` maps every
definition to the lines it models.

## 1. The system

    phone ──HTTP──> API (server/) ──BullMQ queue──────────> execution worker
      │               │  ▲   └────kill signals (pub/sub)──>  │  │
      │            Postgres └────lifecycle events (pub/sub)──┘  Docker
      └──────PTY over WebSocket──────────────────────────────> PTY gateway
    CLI agent ──/sync WebSocket──> API ──> file store
    desktop agent ──heartbeats──> API;  phone ──PTY──> desktop agent's gateway

| Component | State it keeps | Operations | What makes it correct |
|---|---|---|---|
| execution worker (`services/execution-worker`) | registry of running sessions, two timers and a promise per job, containers | BullMQ handler, control messages, boot (`reapOrphans`), shutdown | a slot and a container are released exactly once on every path; every end is reported once; nothing outlives a crash |
| PTY gateway (`packages/pty-core`) | one `Conn` per socket: started, exited, handle, paused | start, input, resize, kill; PTY exit; socket close | the service learns of the end of a started connection, exactly once; nothing runs for a socket that is gone |
| PTY client (`scripts/pty-client.mjs`) | its socket, its exit code | login, job, start, interrupt | it ends as its session ended |
| jobs service (`server/src/jobs`) | Job rows, the quota counter | create: quota, routing, job, session, enqueue, link | no job past the quota; a job that cannot run does not look as if it could |
| sessions service (`server/src/sessions`) | Session rows | open, markStarted, markClosed, close | CLOSED is final; closing frees what the session holds |
| execution reconciler (`server/src/execution`) | none of its own: writes Job and Session rows | onEvent, onQueueFailed, killSession | the rows converge to what happened, in whatever order events are handled |
| desktop presence (`server/src/desktop`, `services/desktop-agent`) | `DesktopPresence` row, heartbeat timer | heartbeat, offline, status, resolveTarget | jobs are routed to a desktop only while it is there; its sessions end |
| sync gateway (`server/src/sync`) | manifest of a project, the pending manifest of each socket | manifest, file, removed, done | the stored manifest describes the stored files |
| file store and editor (`server/src/files`) | files on disk | list, read, save, delete over HTTP | no file where a directory is; a save is not half done |
| CLI agent (`services/cli-agent`) | `running`, `queued`, debounce timer | sync, watch | the last change of a burst is synced |
| billing (`server/src/billing`) | subscription: tier, quota | upgrade, downgrade | user row, subscription row and token agree on the tier |
| git service (`server/src/git`) | a repository in the project's directory: config, index, HEAD | init, remote, commit, push, pull, status, log, diff | a commit holds what was there; an initialised repository can commit |
| projects, auth, users, health | rows, one statement per request | HTTP handlers | - |
| mobile app | none that matters here | screens | - |

What is hard in it:

* **Interleaving.** Node runs each callback to its next `await`; the handlers
  of events, sync messages and control signals are started with `void` and so
  interleave at every `await`. In one session a BullMQ handler, two timers, a
  kill signal, any number of phones and their PTYs race.
* **Crashes.** The worker and the API die independently. BullMQ hands a stalled
  job out again; pub/sub repeats nothing; containers survive.
* **Partial failure.** Docker, the database and Redis may refuse one call of
  several; many errors are swallowed.
* **Liveness.** A slot must come free although the phone never comes, stays
  forever, or vanishes without a word.

## 2. Modules

| Module | Models | Kind |
|---|---|---|
| `Sessions` | identities: one session = one Job row, one Session row, one queue entry | constants |
| `ExecEvents` | `exec-events.ts`: events the worker publishes, exit codes | operators |
| `PtyGateway` | `pty-core/gateway.ts`: the life of each connection | component, variable `conn` |
| `ExecutionWorker` | the worker process, its handlers and Docker, over `PtyGateway` | component |
| `ExecutionReconciler` | the API: jobs service, sessions service, reconciler, control | component |
| `SessionLifecycle` | what the rows promise a client | abstract specification |
| `CloudExecution` | API and worker joined by Redis; implements `SessionLifecycle` | composition |
| `PtyFlow` | `pty-client.mjs` and one connection of the gateway: frames, backpressure, exit codes; over `PtyGateway` | composition |
| `DesktopExecution` | `desktop-agent`, desktop service, DESKTOP jobs and their rows; over `PtyGateway` | composition |
| `Quota` | `enforceQuota`, billing service, the tier in the token | component |
| `FileStore` | `file-store.service.ts`: a project's directory on the server | component, variable `disk` |
| `FilesController` | `files.controller.ts`: the editor's requests, over `FileStore` | component |
| `SyncGateway` | `sync.gateway.ts`: the message handlers of `/sync`, over `FilesController` | composition |
| `GitService` | `git.service.ts`: init, remote and commit while the editor writes, over `FilesController` | composition |
| `SyncAgent` | `cli-agent` in watch mode, joined to `SyncGateway` by sockets | composition |
| `ExecutionWorkerProofs` | theorems about `ExecutionWorker`: types, slots, reports, containers | proofs |
| `ExecutionReconcilerProofs` | theorems about `ExecutionReconciler` | proofs |
| `CloudExecutionProofs` | theorems about `CloudExecution`, from those about its two components | proofs |
| `SyncAgentProofs` | theorems about `FileStore`, `SyncGateway`, `SyncAgent` | proofs |
| `GitServiceProofs` | theorems about `FileStore`, `GitService` | proofs |
| `PtyFlowProofs` | theorems about `PtyFlow` | proofs |
| `QuotaProofs`, `DesktopExecutionProofs` | theorems about `Quota`, `DesktopExecution` | proofs |
| `MC*` | instances for TLC | model checking |

### How the actions correspond to the code

An action is the code between two awaits, with every call it makes. A BullMQ
handler (`index.ts` 38-107) is `Take`, `CreateContainer | CreateFails`,
`StartContainer | StartFails; Scrap`, the end of the wait (`ConnectTimeout`,
`MaxDuration`, `OnControl`, or an end of a connection, all through `Release`),
`DestroyContainer`, and BullMQ's recording of the result (`Complete`, `Fail`).
`pc[s]` is where the handler of `s` waits. `Release` settles the promise,
clears both timers and unregisters the session in one step, because the
continuation of the promise runs before any other callback can.

`PtyGateway` owns only `conn`. `ExecutionWorker` conjoins to each of its actions
what the worker's `resolveSpawn` and `onSessionExit` do: `Attach` is the turn in
which `waitFor` finds the entry, `attached()` cancels the connect timeout and
`spawnPty` runs; `AttachFails` the same with a `spawnPty` that throws.

`Boot`, `ReapList`, `ReapRemove`, `ReapDone` are `main()` and `reapOrphans()`:
BullMQ and the gateway take work from the moment the process is up, so these
interleave with handlers. `Shutdown` starts the four calls of `shutdown()`
together: from then on what handlers publish is lost (`events.close()` quits the
connection first), which the history variable `dropped` records. `Die` is a
kill at any point, `Stalled` BullMQ's check for entries whose handler is gone.

In `ExecutionReconciler` each database write is an action. `handler[e]` says
which of its two writes the handler of event `e` has made. `missed` records
sessions with a report that reached no row: published while the API was down,
unwritten when it died, a refused write, or a queue failure that found no row
because `queueJobId` was not written yet, if no run of the session had reported an
end either (`Unreported`). In its own runs and proofs the worker
is an arbitrary environment (`Environment`); in `CloudExecution` it is the
worker's specification.

In `SyncGateway` a frame is a member of `handlers` from the moment it is sent;
that only brings forward the handler's first, synchronous step. Each action is
one handler from an await to the next: `OnManifest` after `findOne`,
`OnFileMkdir` and `OnFileWrite` the two calls of `writeBase64`, `OnRemoved` the
`rm`, `OnDone` after `updateManifest`. A handler that throws closes the socket
(`HandlerThrows`) and leaves the others running, and so do the ends of rounds on
the agent's side. `FileStore` says when the file system refuses a call: a file
where a directory must be, a directory where a file must be, a directory that
went between `mkdir` and `writeFile`.

In `SyncAgent`, `Walk` is one step of `buildManifest`: the developer edits
between any two. `WalkOmits` is its two catch blocks and the size limit: a file that
cannot be read or is too large, or everything below a directory that cannot be
listed, is advertised as absent, and the server will remove it. `PushFile` is one turn
of `pushDiff`'s loop, which reads the file at that moment; `PushSkips` its catch
block, for a file that has gone or cannot be read; `PushRest` is what follows the
last read without an await.
`RoundEnds` is the promise of `syncOnce` settling and the `finally` block of
`makeSerializedSync`, which starts the round that is owed. `Schedule` and
`DebounceExpires` are the watcher's callbacks; `awaitWriteFinish` and the
debounce interval are times, so nothing but their order is kept.

Two history variables name what an acknowledged round does not promise.
`unsure` is set afresh when the server sends a diff (`OnManifest`) and holds, of the
latest round, the paths of which the stored manifest was wrong already, so that the
diff left them out; those an earlier round's handler is still to make something else
of; those that changed between being hashed and being read, or could not be read
then (`PushFile`, `PushSkips`); those whose handler failed or died (`HandlerThrows`,
`ServerDies`); those a recursive removal took along (`OnRemoved`); and those the
editor wrote or deleted since (`Edits`). A write that is merely late, still running
when `done` persists the manifest, is not among them: it must come out right.
`unnoticed` holds the paths that changed before the watcher was there, and files a
walk could not read; a walk that reads a path takes it out again.

`FilesController` keeps in `saving` the PUT requests between `mkdir` and
`writeFile`, the one await of `writeText` that matters; a DELETE is one step.
`Edits` of `SyncGateway` and of `GitService` are these requests, made while sync
handlers or git processes work in the same directory.

`PtyFlow` follows one terminal. `out` holds the frames from the gateway to the
script, of which `data` frames are what `bufferedAmount` counts. `SpawnPty` is
the turn after `await resolveSpawn`, `SpawnThrows` its catch block, `OnData` and
`Drain` are the two ends of `applyBackpressure`, `OnExit` the exit callback,
`Closes` and `CloseGivesUp` the close event of the gateway's socket. `Interrupt`
is the script's SIGINT handler: `kill` is sent and the script ends at once.
`EndsAgree` compares the two reports of one end: the code `onSessionExit` was
given and the code the script exits with.

In `DesktopExecution` every `fetch()` of the agent is in flight until it arrives
or is lost: `beats` are heartbeats by whether they carry a URL, `goodbye` is
the offline message, `reports` are close requests. `Shutdown`, `CloseGateway`
and `Exit` are the awaits of the agent's `shutdown()`; `ProcessEnds` lets any
part of what was in flight be lost. `Route`, `CreateJob`, `OpenSession` are the
three statements of `JobsService.create` on this path, `CloseSession` and
`FinishJob` the two writes of `markClosed`. `fresh` says for which reader the
last heartbeat is young enough: `status()` has a constant window, `POST /jobs`
a configured one. The history variable `lost` holds the sessions whose end could
not be recorded: a request that failed, a process that ended with it, a refused
write.

In `Quota` a request is `Read` and then `Reset` or `Increment`: one statement
each, no transaction. A change of tier is `SetUserTier`, then `SetSubscription`.
A login reads the row (`LoginReads`) and compares the password before it issues the
token or refuses (`LoginIssues`, `LoginRefused`). The history variables name the races the
code leaves open, so that the properties can bound them: `overtaken` are requests
whose counter was written between their read and their write; `reopened` those that
reset a counter which another one had reset already, `forgotten` the jobs this
made the counter forget; `tangled` says that the last change of tier failed halfway or
met another one, `outdated` that the tier was written after the login had read it.

In `GitService` a request is a row of git calls, `pc[r]` the one it waits for.
`AddPath` is `git add .` looking at one path, `AddEnds` the replacing of the index,
`Locked` git's own `index.lock`, the only thing that keeps two requests apart; a
dead git process leaves it behind (`stale`), and nothing in the code removes it.
Calls that write the config may be refused by `config.lock` (`ConfigLocked`) or fail
by themselves: `InitFails` answers an error and may leave a repository behind, and
`AddConfigSwallowed` goes on as if nothing had happened. `swallowed` holds the keys whose
`addConfig` came to nothing while a repository was there for later inits to find.

## 3. What the runs check

| Run | Instance | Properties | Shows |
|---|---|---|---|
| `worker_restarts` | 1 session, 2 phones, 2 restarts, 1 Docker failure | `TypeOK`, `SlotHeldForSomeone`, `OneVerdictPerRun`, `NoOrphanContainer`, `EveryEndIsReported` | the settle-once discipline under every race of timers, kills, phones and PTYs; crash recovery and reaping under live handlers |
| `worker_liveness` | FREE and PAID session, 1 slot, 1 phone, 1 restart | `EnqueuedIsSettled` | nobody waits forever |
| `reconciler_any_worker` | 1 session, any 3 events, 1 API fault | `TypeOK`, `RecordsNeverReopen`, `ClosedHasVerdict` | the order of the rows' writes, against any worker |
| `cloud_records` | composed, 1 worker restart, 1 API fault | `RecordsFollowLifecycle`, `QuietRecordsAreFinal` | refinement of `SessionLifecycle`; the rows end up final |
| `cloud_liveness` | composed, 1 worker restart, entries fail on the first stall, 1 API fault | `QuietRecordsAreFinal`, `EnqueuedJobsEnd` | a job gets its verdict, also from the BullMQ backstop, and then its rows are final |
| `pty_flow` | 1 connection, marks 2 and 1, 5 writes of the PTY | `TypeOK`, `EndsAgree`, `PtyNeedsSocket`, `PausedResumes`, `EndReachesClient` | a terminal is paused and resumed, and ends alike on both sides |
| `desktop` | 1 session, 2 phones, 2 starts of the agent, 1 fault | `TypeOK`, `EndIsUnderWay`, `SucceededIsClosed`, `StatusTellsTheRoute`, `FallsBackToCloud` | routing follows the desktop's presence; the end of a desktop shell reaches its rows but for named losses |
| `quota` | 5 requests, 2 changes of tier, quotas 1 and 2, 2 windows | `TypeOK`, `CounterCountsJobs`, `QuotaHolds`, `TiersAgree` | what the quota promises when requests, windows and tiers race |
| `sync_watch` | a file and one below a directory of the same name, 2 contents, 2 sockets, 2 edits, and 1 failure or 1 editor request | `TypeOK`, `QuietMeansSynced`, `ChangeStartsRound` | an acknowledged sync means what it says, but for named causes; no change is forgotten during a round |
| `git` | 3 requests, the same two paths, 2 contents, 2 editor requests, 1 fault, no identity on the host | `TypeOK`, `CommitIsCurrent`, `InitializedMeansReady` | what a commit holds while the editor writes and requests share one index |
| `worker_hang_up` | 1 session, 1 phone | `DisconnectFreesSlot` (violated) | finding 1 |
| `cloud_lost_kill` | composed, nothing fails | `ClosedSessionHoldsNoSlot` (violated) | finding 2 |

**Bounds.** `MaxRestarts`, `MaxBoots`, `MaxFaults`, `MaxApiFaults`, `MaxEvents`,
`MaxEdits`, `MaxSaves`, `MaxUpsets`, `MaxOutput` and `MaxWindows` are the only counters; all
other state is finite. Two phones are the fewest that can attach to one session
and be ended by each other; that two sessions are not confused with one another
is what the theorems about the worker say for any set of them, and
`worker_liveness` lets two compete. Two restarts with `MaxStalledCount = 1`,
BullMQ's default, let an entry be handed out again and then fail; composed, the two
are apart: in `cloud_records` it is handed out again, in `cloud_liveness` it fails. Three events
are the fewest with a start, an end and a contradicting end. Five writes of a PTY
against a high-water mark of two pause it, resume it and pause it again. Two
starts of the desktop agent let it come back without the URL it had advertised.
Five requests pass a limit of one by a race and run into the next window; two
changes of tier are the fewest that can cross, with a login anywhere
between them. A path and one below it are the
fewest on which `mkdir`, `writeFile` and the recursive `rm` can get in each other's
way; two edits the fewest that can undo one another around a round; with two
sockets a round runs while the one before it still has handlers on the server (a
third would have to wait for one of them). The runs are kept short enough to be
repeated on every change; larger instances passed too: `sync_watch` with a failure
and an editor request in one behaviour, or two failures (`MaxUpsets = 2`, 2.4
million states), `cloud_records` with two worker restarts, `cloud_liveness` with
`MaxStalledCount = 1`, two restarts and no API fault. The refinement is not checked
with `MaxStalledCount = 0`: the backstop's FAILED may then be revised by the report
of a worker that lived, which with BullMQ's default of one happens only to an entry
that was handed out again, as `SessionLifecycle` says. Of three git requests two can
race and the third find what they left. `Symmetry` permutes values only where no
liveness is checked. Every run lets the system stop (all entries settled, no phone
left), so deadlock is not checked.

**Fairness.** `ExecutionWorker!Fairness` is weak fairness of: a dead worker is
restarted (systemd); a process asked to stop is killed in the end (systemd's
stop timeout); a free slot takes a waiting entry; a handler's pending call
returns or its duration timer fires; a stalled entry is noticed. Phones, PTYs
and the API owe nothing: the duration cap alone bounds a session. Starvation of
FREE by PAID entries is not at stake since each session is enqueued once.
`CloudExecution` asks less: that each process with something to do that does not
wait for a user does something. `SyncAgent!FairSpec` asks that the agent's
process runs and that every handler on the server comes to an end, with success
or by throwing. It excludes a server that never answers on an open connection:
`syncOnce` has no timeout, so the code promises nothing then. `PtyFlow!FairSpec`
asks that the script reads, that timers fire, that a killed process exits, and
that a closed socket raises its event, as a dead one does once there is something
to send on it; an idle dead connection may never be noticed, since neither side
sends pings. `DesktopExecution!FairSpec` asks that requests arrive or fail and
that time passes; the agent, its users and its shells owe nothing.

**Known weak points that the properties carry as exceptions.**

* Worker: `SlotHeldForSomeone` excepts connections that closed before they
  attached (finding 1); `EveryEndIsReported` excepts sessions in `dropped` and those
  whose every run died (`StalledOut`).
* Rows: `QuietRecordsAreFinal` excepts sessions with a lost report and promises
  CLOSED only if some run reported an end: the BullMQ backstop
  (`execution-reconciler.service.ts:115`) fails the job and leaves the session row
  ACTIVE.
* Terminal: `EndsAgree` excepts a script whose frames were lost, by a dropped
  connection or a closing handshake that a slow reader let time out; `PtyNeedsSocket`
  excepts a PTY spawned late for a socket that had closed (finding 1 again).
* Desktop: the close request of an ended shell is sent once
  (`desktop-agent/src/index.ts:58`, where a comment leaves the rest to "TTL/heartbeat";
  no code takes that up), and `process.exit` in `shutdown()` may drop the last of
  them: such a job stays RUNNING. A job whose shell is never opened stays
  RUNNING too. A session is closed when one of its shells ends, though another one
  runs on, and its job SUCCEEDED whatever the exit code. An agent restarted without
  a URL keeps the old one in its row. `StatusTellsTheRoute` excepts a presence that
  never had a URL, and the gap between the two freshness windows.
* Quota: two requests that pass the check together both count (`overtaken`); each
  that opens the window again sets the counter back to one (`reopened`), and the window
  then lets in another limit's worth: `QuotaHolds` and `CounterCountsJobs` say by how
  much, with no case left out. An upgrade and a downgrade that cross, or one that fails
  halfway, leave user row and subscription apart until the next change (`tangled`), and
  the token keeps the tier of the last login (`outdated`): `TiersAgree` excepts both.
* Sync: the protocol acknowledges a round whose writes failed, or were undone by the
  editor, and the manifest it stored keeps the next round from asking again;
  `QuietMeansSynced` excepts those paths (`unsure`) until a round asks for them. It excepts
  `unnoticed`: the watcher starts when the initial sync is over and ignores what it
  finds, so that a file that changed in between raises no event; and a file or a
  directory that the agent cannot read, or a file over 10 MB, is advertised as absent.
  The server then removes its copy, `sync.gateway.ts:159` notwithstanding ("removed =
  gone from the client"), and keeps it removed until some later change lets a walk read
  the file again. A file that cannot be read at its turn is skipped while `done`
  persists its hash.
* Git: an `addConfig` that failed is swallowed and never tried again, nor is the
  identity set in a repository that a failing `git init` left behind (`swallowed`, per
  key); an `index.lock` left by a dead process refuses every later commit.

### Findings

1. **A hang-up in the queue strands the slot** (`gateway.ts:159`). A phone
   connects while its session waits, sends `start`, and closes the socket before
   the container is up. `finish()` runs at the close, finds no registered
   session, and sets `exited`. When the session registers, `resolveSpawn`
   resumes, cancels the connect timeout and spawns a PTY for the closed socket;
   when that exits, `finish()` returns early. The slot is held until the duration
   cap. `SlotHeldForSomeone` proves this is the only way.
2. **A kill is forgotten before registration** (`index.ts:26`). Closing a queued
   session sends a kill that finds no registry entry; the session takes a slot
   and a container later all the same.

## 4. What is proved

Every theorem is for any sets of sessions, phones, paths, contents and sockets
and any bounds that satisfy the named assumptions, which are all there is to
assume: `SessionAssumption` (`NoSession` is not a session), `StalledAssumption`,
`ApiAssumption`, `GatewayAssumption`, `AgentAssumption`, `FilesAssumption`,
`DesktopAssumption`, `GitAssumption` (the bounds are natural numbers),
`QuotaAssumption` (there are finitely many requests, and the quotas are at least
one), `WorkerAssumption` (also: there is a slot), `CloudAssumption` (the same of the
composition's constants), `FlowAssumption` (also: the low watermark is not above the
high one) and `StoreAssumption`
(*lies in a directory* is a strict partial order, and the marks for "nothing" and
"a directory" are not contents). The runs evaluate each of them.

| Theorem | Statement | Strengthening |
|---|---|---|
| `ExecutionWorkerProofs!TypeInvariant` | `Spec => []TypeOK` | none |
| `ExecutionWorkerProofs!SlotHeld` | `Spec => []SlotHeldForSomeone` | `SlotInv` |
| `ExecutionWorkerProofs!OneVerdict` | `Spec => []OneVerdictPerRun` | `VerdictInv` |
| `ExecutionWorkerProofs!EndsAreReported` | `Spec => []EveryEndIsReported` | `ReportInv`, over `VerdictInv` |
| `ExecutionWorkerProofs!NoOrphan` | `Spec => []NoOrphanContainer` | `OrphansAreDoomed`, over `VerdictInv` |
| `ExecutionReconcilerProofs!TypeInvariant` | `Spec => []TypeOK` | none |
| `ExecutionReconcilerProofs!VerdictBeforeClose` | `Spec => []ClosedHasVerdict` | `RowsInv` |
| `ExecutionReconcilerProofs!NeverReopen` | `Spec => RecordsNeverReopen` | `RowsInv` |
| `CloudExecutionProofs!ComponentsInContext` | `Spec => Worker!Spec /\ Api!Spec` | `TypesAndOrder` |
| `CloudExecutionProofs!QuietRecords` | `Spec => []QuietRecordsAreFinal` | `Known` |
| `CloudExecutionProofs!RecordsRefine` | `Spec => RecordsFollowLifecycle`, if `MaxStalledCount # 0` | `Known`, `OneSource` |
| `CloudExecutionProofs!PromisesInContext` | `Spec => []ComponentPromises /\ Api!RecordsNeverReopen`: the theorems about both components, of the composition | those above |
| `SyncAgentProofs!TypeInvariant` | `Spec => []TypeOK`, with `StoreOK` and `IsTree`, the editor's requests included | none |
| `SyncAgentProofs!SyncInvariant`, `!QuietTree` | `Spec => [](TypeOK /\ SyncInv)`, `Spec => []QuietMeansSynced` | `SyncInv` |
| `GitServiceProofs!TypeInvariant` | `Spec => []TypeOK`, with index and HEAD trees | `StagedTrees` |
| `GitServiceProofs!CommitsAreCurrent` | `Spec => CommitIsCurrent` | `GitInv` |
| `GitServiceProofs!InitMakesReady` | `Spec => []InitializedMeansReady` | `IdentityInv` |
| `DesktopExecutionProofs!TypeInvariant` | `Spec => []TypeOK` | `NamedOnceStarted` |
| `DesktopExecutionProofs!Ends`, `!Finished` | `Spec => []EndIsUnderWay`, `Spec => []SucceededIsClosed` | `EndInv` |
| `DesktopExecutionProofs!StatusIsRoute` | `Spec => []StatusTellsTheRoute` | `UrlIsKept` |
| `QuotaProofs!TypeInvariant`, `!CounterIsRight` | `Spec => []TypeOK`, `Spec => []CounterCountsJobs` | `CountInv` |
| `QuotaProofs!LimitHolds` | `Spec => []QuotaHolds` | `RoomInv`, over `CountInv` |
| `QuotaProofs!TiersHold` | `Spec => []TiersAgree` | `TierInv` |
| `PtyFlowProofs!Typing` | `Spec => []TypeOK` | `FlowInv` |
| `PtyFlowProofs!SameEnd`, `!NoOrphan` | `Spec => []EndsAgree`, `Spec => []PtyNeedsSocket` | `FlowInv` |

The argument, in each case, is an inductive invariant next to the property in
the component's module:

* **Slots.** `SlotHeldForSomeone` alone is not inductive: `finish()` returns
  early for a connection that is already `exited`, and only `LateMeansGone` (before
  a PTY is spawned, nothing but the close of the socket sets `exited`) tells that
  such a connection is the excepted one. The remaining work is that the end of one
  connection either was not the one that held the slot, or releases it.
* **Verdicts.** A run publishes its end in the step that moves its handler to
  `returned` or `threw`. `VerdictIsLast` says that an end of the current attempt is
  out only if the handler is past that step, so a second one cannot follow, and that
  no event carries an attempt yet to come; `HandlerOwnsEntry` ties handler, queue
  entry and registry together.
* **Reports.** `ThroughMeansReported` is the converse: past that step the end is
  out, or the session is in `dropped`. `StallsFollowStops` counts: an entry stalls
  once per stop of the worker at most, which is what "died on every run" rests on.
* **Containers.** `OrphansAreDoomed` says where every container nobody owns will be
  dealt with: listed, about to be listed, refused by Docker, or waiting for a
  restart. `NoOrphanContainer` is what is left of it when reaping is done.
* **Rows.** The reconciler is proved against an environment that publishes any
  event at any time. `CreationOrder` keeps the rows behind the request that writes
  them, `VerdictFirst` says that a handler about to close a session has seen the job's
  verdict written, and no later write takes that back.
* **API and worker together.** Each of the two was proved against an environment
  that may do whatever the other might. `ComponentsInContext` discharges that: a
  step of the worker changes the queue, the events and the kills only as the API's
  `Environment` does (`RedisStep`), and a step of the API as the worker's `Enqueue`
  and `SendKill` do. Every theorem about either then holds of the composition:
  `PromisesInContext` says so of each safety property the component runs check, and
  `Known` collects the four used below: types and orders, `RecordsInv`
  (`HandledIsWritten`: an ending event or a failure that was handled is in the rows,
  or its session is in `missed`), `EveryEndIsReported`, and `ErrorIsTheVerdict` (an
  entry that failed on its only run reported no exit).
* **Quiet records.** An entry that completed or failed was reported or is in
  `dropped`, or the queue-failed listener has seen it; all that was said is handled;
  what is handled is in the rows.
* **Lifecycle.** A row changes in few ways (`RowStep`). All but one are the abstract
  steps as they stand; the handler of an ending event may meet a job that has a
  verdict already. `OneSource` says where that came from: from another event of the
  session, which `OneVerdictPerRun` gives to another run, so the revision is allowed;
  or from the backstop, and then the entry failed and this event is an error, which
  writes FAILED over FAILED. That last step is where `MaxStalledCount # 0` is needed:
  an entry that never stalled before cannot then have failed by stalling. The code
  leaves BullMQ's default, 1 (`index.ts:38`, `new Worker` without `maxStalledCount`).
* **Terminal.** Neither invariant of `PtyFlow` is inductive: between the exit of the
  PTY and that of the script the code is a frame on its way. `EndIsTold` says that an
  ending frame carries what was reported, that a script still reading a closing
  socket has such a frame before it as the last one, and that a script which has
  exited ended with what the service was told, or nothing will ever be told
  (`NeverReported`: no session was started and no `start` is on its way).
  `EndsInStep` relates script, socket and connection; `OutboxBound` counts frames.
* **The store.** `StoreOK` is inductive as it stands: each path that is taken lies
  in directories, because `writeFile` is refused when its directory went and `rm`
  takes all that is below. The two facts about *lies in* it needs are transitivity
  and irreflexivity.
* **Sync.** `QuietMeansSynced` speaks of the end of a round, so its strengthening
  `SyncInv` says where each file is on the way there, a part per stage. `OneRound`: one
  round runs at a time. `SocketInUse`: the socket of a round is its own from the
  manifest on, so that a handler left over by an earlier round cannot answer it.
  `ClaimIsRecent`: what the walk saw is what the developer has, or a round is owed
  (`unseen`, `timer` or `queued`). `DiffIsCarried`: once the diff is out, a path that is
  not `unsure` is in the diff, in the hands of a handler that will make it what was
  advertised, or right in the store, unless the connection is lost. `AckIsKept`:
  when `done` is acknowledged such a path is right in the store, or every handler that
  still aims at it makes it so (`Kept`), until the next round begins. Each step of the
  server keeps a path so or makes it `unsure` (`FilesStep`);
  the exceptions are the death of the server, which cuts every socket, and the sending
  of a diff, which starts the argument afresh.
* **Identity.** `IdentityInv`: of each key of the identity, once there is a repository,
  either it is set, or its `addConfig` came to nothing, or some init has it still before
  it; a repository that a failing or dying `git init` left behind counts as the second.
* **Commits.** Between `git add` and `git commit` of one request another one may
  replace the index. `SeenInv` says why that does no harm: `OneAdds` (what `index.lock`
  is there for) makes the other's add start after this one's was through, so all it
  stages, it has found in the store while this request was under way. A path it
  drops because a file took the place of its directory is gone from the store too:
  that is `StoreOK` again.
* **Desktop.** `CreatedInOrder` keeps whatever may end or be closed behind the two
  writes that create it, so that no close is overwritten by a late creation;
  `ClosingIsClosed` says that a request about to finish a job has closed the session,
  or is accounted for in `lost`.
* **Quota.** `RoomInv` looks at the requests that have read the counter and not
  written it yet: one that nobody has overtaken still has room for its increment. It splits the
  window's jobs at the last opening: those since then (`Since`) keep to the limit, those
  before (`Before`) to the limit times the number of reopenings, and each reopening
  moves the first into the second. `CountInv` says that a request counts once and
  reopens once, and bounds the counter by the requests admitted. `TierInv` follows a change of tier that met no other: the
  second of its writes finds the user row as the first one left it.

Every invariant and every action property that a passing run checks is stated by
one of these theorems. Only model-checked are the liveness properties
(`EnqueuedIsSettled`, `EnqueuedJobsEnd`, `ChangeStartsRound`, `FallsBackToCloud`,
`PausedResumes`, `EndReachesClient`), which rest on fairness and are out of the proof
system's reach. The two runs that expect a violation refute what they state, so there
is nothing to prove of it.

## 5. What is not modelled

* False stalls: BullMQ handing out an entry whose worker is alive but whose
  event loop was blocked past the lock. Two handlers of one session would then
  run at once.
* A publish that Redis never received because the worker died right after
  queuing it locally: `Publish` is atomic with its step.
* Expiry of PTY tokens, sizes and contents of terminal data, the image pull.
* BullMQ's order among entries of equal rank: any is taken.
* Two CLI agents on one project: `SyncAgent` has one, and the editor as the second
  writer.
* Keystrokes, resizing and the contents of terminal data: they pass through the
  gateway and change no state it decides by.
* `git push` and `pull` (their other end is a remote), status, log and diff, which
  only read. Files of the editor: list and read.
* A terminal's input queue, and what the network holds beyond the sender's buffer.
* The mobile app, which is a shell of screens without protocol code; projects, users
  and health, whose operations are one statement each; of `auth` only the tier in the
  token plays a part.
* Torn writes: a server that dies inside `writeFile` or `rm` has done it or not.
* Ignored directories, empty projects, sizes (a file over `MAX_FILE_BYTES` is one that
  cannot be read): a tree is its files' contents, and a
  hash is as good as its content.
* Redis and Postgres do not lose what they acknowledged.

## 6. Plan

What is left, in this order:

1. Two agents on one project, once code or docs say what they may expect of the store.
2. `git push` and `pull`, with a remote repository as a component of its own.

