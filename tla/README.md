# A verification of the session core of OpenCMS

OpenCMS (`packages/opencode`) runs coding agents for many sessions in one daemon. A
session's work is done by an asynchronous run loop; prompts, timers, subagent
completions, cancels, kill switches and daemon restarts all act on the same few pieces
of state, between any two `await`s. Subagents run in processes of their own, and files
outlive the daemon. This directory models that part of the system in
TLA+, checks it with TLC and proves its safety properties with TLAPS. The modules are written from
the code under `packages/opencode/src`; `PROJECT.json` maps each definition to the lines
it stands for.

## 1. Inventory

| Component | State | Operations | Interacts with | What makes it correct |
|---|---|---|---|---|
| Session run slot (`session/prompt-runtime.ts`, entry of `runLoop` in `session/prompt.ts`) | per session: runID, abort controller, `slotWaiters`; the `SessionStatus` shown | `start`, `start(replace)`, `waitForSlot`, `cancel`, `finish`, disposal | status, run loop, subagent-busy subscriber, instance disposal | one live run, no lost waiter, no stale finish, idle in the end |
| Readers-writer lock (`util/lock.ts`) | map key → readers, writer, two queues | `read`, `write`, dispose | storage, supervisor | exclusion, no lost wake-up, writers served |
| Command lanes (`daemon/lanes.ts`, `daemon/drain.ts`) | per lane: queue, active ids, generation; drain state | `enqueue`, `pump`, completion, `resetAll`, (un)register | daemon, supervisor | cap, FIFO, no idle room, stale results rejected, everything settles |
| Daemon lifecycle (`daemon/index.ts`, `restart.ts`, `signals.ts`) | `daemonState`, handlers | start, shutdown, restart, signals | lanes, lock file | drains are graceful, shutdown and restart end |
| Gateway lock file (`daemon/gateway-lock.ts`) | pid file | `acquire`, `release` | other processes | one holder, stale locks broken |
| Run queue (`session/queue.ts`, `lane-policy.ts`) | files per lane and session, legacy key | `enqueue`, `remove`, `peek`, `drain` | supervisor, run loop | one entry per session, selection follows the policy |
| Subagent notices (`bus/subscribers/pending-notice-appender.ts`, drain in `prompt.ts`) | `pendingSubagentNotices`, `resumedSubagentJobIds` | append, claim, coalesce, wake, drain | queue, supervisor, run loop | nothing lost, one wake per job, the model sees it |
| Supervisor (`session/workflow-runner.ts`) | `resumeInFlight`, workflow state, failures, backoff | scan, pick, launch, `doResume` | queue, lanes, kill switch, run loop | one resume per session, everything settles, stops are respected |
| Kill switch (`server/killswitch/service.ts`) | state with scope and TTL, control sequence numbers | activate, clear, gate, control | supervisor, sessions | blocks exactly its scope |
| Permissions, questions (`permission/next.ts`, `question/index.ts`) | pending requests, approved rules in memory and on disk, abort listeners | ask, reply (once, always, reject), abort | tools, clients, storage | each request settled and announced once, no grant without a reason, approvals persist |
| Cron heartbeat (`cron/*`, `scheduler/index.ts`, `tool/cron.ts`, `server/routes/cron.ts`) | job store, dormant subsessions, ticks in flight | create, edit, run now, remove, tick, run, boot recovery | daemon start, sessions | no double fire, no early fire, no lost schedule, no subsession left behind |
| Account rotation (`account/rotation/*`) | in-flight map, decision cache, last rotation | coalesced rotation | stream processor | single flight, minimum interval |
| Subagent workers (`tool/task.ts`, `cli/cmd/session.ts`), process supervisor | worker pool, current requests, active child, two pipes per worker, `running-tasks.json` | call, assign, dispatch, answer, cancel, watchdogs, exit, orphan recovery | bus, notices, instance bootstrap | every dispatch ends once, answers reach their own request, orphans are reported |
| Storage, compaction, providers, MCP/LSP/tools, server, clients, C gateway | files, text, sockets | I/O | all | not modelled (section 8) |

Hard behaviours, each listed with its line under `hazards` in `PROJECT.json`: records
read before an `await` and used after it; three-way races of start, replace and finish;
completions from before a reset; a drain's timeout against the last completions;
repeated delivery of completion events; file operations without a lock; retries whose
first attempt has already run; crashes that leave a lock file, a due schedule or an entry
of a task; late lines from a worker that has a new task; watchdogs racing the answer.

## 2. Modules

| Module | Models | Used by |
|---|---|---|
| `SessionRuntime` | the slot of one session, its status, prompts, a shell, cancels, child events, disposal | `SessionRuntime_proofs` |
| `RWLock` | `util/lock.ts` for one key | `RWLock_proofs` |
| `ReadersWriters` | abstract: what a readers-writer lock promises | refined by `RWLock` |
| `Lanes` | one lane key with its successive `LaneState`s, and the drain flag | `Daemon`, `Daemon_proofs` |
| `Daemon` | start, shutdown, restart, signals; composes `Lanes` | `Daemon_proofs` |
| `GatewayLock` | `acquire`/`release` of several processes, read and write apart | `Daemon_proofs` |
| `RunQueue` | concurrent `enqueue`/`remove` of one session, one step per storage operation | `MCRunQueue`, `WorkflowRunner_proofs` |
| `NoticeResume` | completion subscriber, queue entry, supervisor and the parent's run loop | `NoticeResume_proofs` |
| `WorkflowRunner` | supervisor passes, launches, lane outcomes, failures, kill switch, cancel | `WorkflowRunner_proofs` |
| `Requests` | permission requests and questions of one workspace instance, their dialogs, the approvals | `MCRequests`, `Requests_proofs` |
| `Cron` | one scheduled task: store, ticks, runs, edits, subsession, crash and boot recovery | `Cron_proofs` |
| `TaskWorkers` | worker pool, worker processes and pipes, task calls, watchdogs, cancels | `TaskWorkers_proofs` |
| `TaskRegistry` | `running-tasks.json`, task reports, crashes, orphan recovery of every bootstrap | `NoticeResume_proofs` |

The proofs about a small component that works beside a larger one are at the end of the
larger one's proof module, which extends both: `GatewayLock` in `Daemon_proofs`, `RunQueue`
in `WorkflowRunner_proofs`, `TaskRegistry` in `NoticeResume_proofs`. The three name their
specifications `LockSpec`, `QueueSpec` and `RegistrySpec` for that reason.

How state and steps correspond to the code:

* **SessionRuntime.** `slot` is the session's entry in the runtime record (named by the
  run that owns it), `waiters` its `slotWaiters`, `aborted` the runs whose signal has
  fired, `pc` and `waits` the progress of each caller through `runLoop`, `status` the
  `SessionStatus`, `child` an attached subagent. Everything between two `await`s is one
  step. `MaxWaits` is the 3 of `attempt < 3`. Disposal is two steps, `DisposeAbort` and
  `DisposeClear`, because `State.dispose` awaits in between.
* **RWLock.** Lock objects are numbered, so that a disposer of a deleted object can be
  told from one of its successor. `pc` is mapped to `mode` of `ReadersWriters`.
* **Lanes.** `states` are all `LaneState`s that ever existed for the key, `cur` the
  registered one; `promise`, `home`, `gen` and `id` describe each task. A completion
  includes the pump in `executeEntry`'s `finally`.
* **Daemon.** `at` is the `await` at which start, shutdown or restart stands; `Work` is any
  lane step. `acquire()` and `release()` stop between their read of the lock file and the
  write or unlink; other processes change the file in `OutsideLockChange`, and `raced`
  records that one did so in between.
* **GatewayLock.** `overlapped` records that two `acquire` calls were under way together.
* **RunQueue.** `left` are the keys a `remove` still has to delete (in any order:
  `Promise.all`), `target` the lane a call writes. `alone` records that a call overlapped
  no other.
* **NoticeResume.** `snap` is the session record `runLoop` reads once before its loop,
  `run` the point inside an iteration, `handler` each delivery's progress through the
  subscriber; `Refired` are the jobs whose completion is announced again. A turn begins with
  the drain of the notices and goes on when its stream has started, or fails. A resume has
  every end the code has: the loop's, `doResume`'s catch (`ResumeFails`), the kill switch at
  the launch (`KilledResume`), a cancel. `rendered`, `dropped`, `parked` and `wakes` are
  history variables: notices a model was shown, those of a turn whose stream never started,
  those whose wake-up was dropped while they waited, continuations per job.
* **WorkflowRunner.** `cand` is what a pass found, `pref` the session a notice handler asked
  for; a `job` is one `executeResumeInLane`. Its lane is reduced to: starts, or is
  rejected by a drain or a reset; `Lanes` has the detail. `pending` tells the continuations
  of a subagent's end ("task"), which pass the gates of a blocked or stopped session, from
  the others; `users` are the sessions in which a run of a user's prompt is under way. `clean` records that no
  lane reset and no expired in-flight mark has happened yet, `revived` that a subagent's end
  or the user has called on a session that was given up.
* **Requests.** `state` is where the caller of `ask()` is, `dialog` what the published events
  tell a client. Rules are reduced to what they say of a pattern; `approved` is the live
  list, `stored` the file, `saving` the writes under way (each serialises the live list
  when it runs). `Others` and `Released` are the cascades of reject and always. `given`,
  `answered`, `unsaved` and `twice` are history variables.
* **Cron.** `job` is the record in `jobs.json`, `tick[k]` a heartbeat tick with the record and
  the time it read; two of them can be in flight. `ComputeNext` is `computeNextRunAtMs`: a
  timestamp in the future, or some time after now within the period. `payload` says what
  a run comes to: a turn in the session, a text without one, or nothing. `Create` to `Remove`
  are the tools and routes (a patch replaces the switch, schedule, wake mode or payload), `CreateDormant` and `LinkDormant` the two later awaits of
  `cron_create`; `Fire`, `RunEnds` and `RunUnsettled` split `evaluateJob` at its long
  await. `clean` ends with the first overlap of ticks, or of a tick and a call; `bypassed` records a run that came to no use of its session.
* **TaskWorkers.** `worker` joins the daemon's `TaskWorker` record (`listed`, `ready`, `busy`,
  `current`) with the process behind it (`proc`, `active`, `stop`); `stdin` and `stdout` are
  the pipes. A call stands at `task[t].at`, one value per await of `TaskTool.execute` and
  `getReadyWorker`. `session` is the child session of a call, fresh or one that exists
  already, `saved` what is on disk of it; `deaf` are the workers whose output the daemon no
  longer reads. The watchdogs of the detached completion are `DiskTerminal`,
  `WorkerDead` and `SilentKill`; `Reap` is what follows their await.
* **TaskRegistry.** The pool is reduced to `attended`, the tasks that are a worker's current
  request. `ops` are `registryAdd` and `registryRemove` calls between their read and write;
  `instance` is each directory's bootstrap with the entries it has yet to report. Writes,
  the deletion, a worker's stream and each orphan's report may fail; `amiss` are the tasks
  whose entry was therefore not written or not removed when it should have been, a removal
  cut short by a crash included, `skipped` the orphans whose report threw. Two
  modules rather than one, because a crash of the daemon ends everything in
  `TaskWorkers` except the file.

## 3. Runs that pass

| Run | Shows | Bounds |
|---|---|---|
| `slot` | `SingleLiveRun`, `NoStrandedWaiter`, `SlotHandover` until a disposal; `QuietMeansIdle` always; `PromptGetsRun` | 3 prompts, 1 shell, 1 disposal, `MaxWaits` = 2: the fewest calls with which a waiter is overtaken, waits again and finally forces a replace (with the code's 3 it takes one call more; the theorems hold for any value) |
| `rwlock` | no lost wake-up, refinement of `ReadersWriters` (exclusion, and the life of each request), writers served | 4 clients that mix reads and writes, 2 lock objects (at most one is in use while another is made) |
| `daemon` | lane cap, FIFO, stale results, graceful drains, foreign locks kept, tasks settle, shutdown ends | one start, two signals (shutdown, restart), 3 tasks and cap 1, so that one runs and two wait on both sides of a reset; one (un)registration, one change of the lock file from outside at any await, those inside `acquire` and `release` included |
| `gateway_lock` | `HolderNamed` | 3 processes with crashes |
| `run_queue` | `UncontendedCallExact` | 3 concurrent calls over all three lanes |
| `notice` | `NoticeNeverLost`, `OneWakePerJob`, `IdleParentSeesNotice` | 2 jobs, one announced twice, a ledger of 2, 2 resume failures; 3 events, prompts, cancels, failures, operator's drops or kill switches together: two completions and one mishap |
| `runner` | `OneResumePerSession`, `FailedSessionGivesUp`, `PendingSettles` | 2 sessions, 2 passes and 2 resumes at once, failures to a limit of 2; 3 enqueues, prompts, re-armings, cancels, kill switches, drains, resets or expired marks together |
| `requests` | `DialogIffPending`, `GrantJustified`, `NoAskForGranted`, `AbortLeavesNoQuestion`, `ApprovalsPersist` | 4 permission requests and a question in 2 sessions, one restart: a request partly covered by another's approval, one with a denied part, one in another session |
| `cron` | `FiresOncePerDue`, `OneShotNotEarly`, `RunReleasesSubsession`, `OneShotSettles` | 2 ticks at once, 2 calls, one crash, a clock of 5 with staleness after 1 and a period of 1, so that a due time can be in the future, due, stale and missed |
| `workers` | `AwaitedIsCurrent`, `SettledByOwnRun`, `DispatchedEnds`, `CallEnds` | 2 tasks, a pool of 1 so that the second waits at the cap, 2 worker processes (the second a standby or a replacement), one cancel, crash, lost stream, silence or reap |
| `registry` | `RegistryExact`, `OrphanAccountedFor`, `ReportedOnce`, `OrphansReported` | 2 tasks, 2 directories, 3 crashes or failures together, e.g. a write that fails, a crash, and a report of the recovery that throws |

`MaxWaits`, `LedgerCap`, `MaxFailures`, `MaxConcurrent`, `PoolMax`, `Stale` and `Period` are
small values of the code's own limits (`attempt < 3`, `MAX_RESUMED_JOBIDS`,
`MAX_RESUME_FAILURES`, `concurrencyCap`, `WORKER_POOL_MAX`, `STALE_THRESHOLD_MS`, the
schedule).
All other `Max...` constants only bound how often the surroundings act. Symmetry is used
only in runs without temporal properties, over sets whose members the modules never tell
apart. Some models end (all calls returned, all bounds spent); those say
`CHECK_DEADLOCK FALSE`.

The types of the state are given beside its declaration; that the steps keep them is part
of every inductive invariant of section 6. The runs are kept for what relates several
steps.

For every property of these runs `PROJECT.json` names a mutant, a plausible slip in the
code that makes TLC report that property.

## 4. Disagreements with the code's own comments

The run `daemon_restart` checks one sentence of the code's comments and ends in a
counterexample; `findings` quotes it. `acquire` refuses the daemon's own pid, and the
`shutdown` meant to follow returns early because the state is `restarting`.

Other places where a stronger property fails. The properties of section 3 are stated with
the condition under which they do hold:

* *Disposal* (`project/state.ts:87`) drops the entry of a run that began after the abort
  pass, and the waiters of a run that is ending: hence `Undisposed` in `SingleLiveRun`,
  `NoStrandedWaiter`, `SlotHandover` and `PromptGetsRun`.
* *Forced replace* (`session/prompt.ts:1970`): it stands behind the wait, so it does not
  help against a run that never ends (`PromptGetsRun` needs `WF(EndRun)`), and a waiter
  that was released and overtaken three times aborts a healthy run with it.
* *Busy indicator* (`bus/subscribers/subagent-busy-indicator.ts:59`): a failed stream
  sets idle and `finish` leaves it so while a subagent is attached; only `QuietMeansIdle`, the converse, holds.
* *Re-registered lane* (`daemon/lanes.ts:97`): tasks queued in the replaced `LaneState` are
  never started and its running ones are not invalidated by a reset: hence `home # cur` in
  `EveryTaskSettles` (of `Lanes`, which `Daemon` states for the whole daemon) and in the
  history variable of `StaleNeverResolves`.
* *Signals* that arrive while the daemon starts or restarts are dropped.
* *Gateway lock*: two overlapping `acquire` calls both succeed: hence `overlapped`. A file that
  changes hands between the read and the write or the unlink is overwritten or unlinked
  (`daemon/gateway-lock.ts:36-53`, `67-77`): hence `raced` in `ForeignLockKept`.
* *Run queue*: overlapping calls leave two entries, or the legacy key alone: hence `alone`.
* *Notices*: a run renders the notices of the record it read before its loop and consumes
  the wake-up of a later one, so that notice stays parked until the next run
  (`session/prompt.ts:2017`); a later turn of the same run renders the same snapshot
  again; the queue entry that marks a woken turn is consumed before the decision looks for
  it; a completion coalesces into a plain continuation that an unarmed session never
  resumes. A notice is off the list before the stream of its turn starts, and gone if that
  fails (`session/prompt.ts:4156`). A claimed notice stays parked when its wake-up is dropped:
  by `doResume`'s catch when the failure is fatal or the last (`session/workflow-runner.ts:1201`),
  by the kill switch at a launch (line 1175), by a cancel (`session/prompt.ts:1853`), by an
  operator or by an enqueue that throws. These are the exceptions of `NoticeNeverLost` and
  `IdleParentSeesNotice`.
* *Blocked sessions* (`session/workflow-runner.ts:327`): the end of a subagent passes the gates
  of a blocked or stopped session, so that one out of failures is resumed again: hence
  `revived` in `FailedSessionGivesUp`. A plain continuation of such a session stays queued.
* *Cancel against the supervisor* (`session/workflow-runner.ts:1133`): a cancel between the
  scan and the launch is overwritten by the launch's `running`; no property says that it
  stops the resume.
* *Lane fallback* (`session/workflow-runner.ts:1249`): a lane reset makes a finished resume
  run again, and a resume runs although the draining lane refused it: hence `clean` in
  `OneResumePerSession` and `FailedSessionGivesUp`.
* *Kill switch*: `doResume` asks only whether some switch is active, so a switch for one
  workspace blocks a launched resume of another. Its control channel
  (`server/killswitch/service.ts:214`) reads the last sequence number before an await and
  writes it after, and the rotation guard (`account/rotation/coalesce.ts:100`) reads the last
  rotation's time before a sleep; both are not modelled yet (section 7).
* *Permissions* (`permission/next.ts`): a pending request does not listen to the abort of its
  stream; the first pattern that asks decides, so a denied pattern behind it is never
  evaluated; instances of several directories of one project keep separate lists and write
  the same file, so that approvals of one overwrite the other's. `Requests` has one
  instance.
* *Cron*: overlapping ticks fire the same due time twice; a one-shot whose run is suppressed
  or whose delivery throws is fired again by each tick until it is stale, and one that is due
  without a time, which is never stale, until the next boot (`cron/heartbeat.ts:311`): hence
  `UnsettledForEver` in `OneShotSettles`; the final update
  of a run overwrites an edit made meanwhile; a tick between the creation of a job and
  the linking of its subsession leaves that scheduled: hence `clean` in `FiresOncePerDue`,
  `OneShotNotEarly` and `RunReleasesSubsession`. A one-shot missed while the daemon was
  down is disabled at boot without the release the tick makes in the same case
  (`cron/heartbeat.ts:163`, against the comment at line 256), and without a run on record, so
  that `RunReleasesSubsession` does not speak of it. A run whose payload is a system event,
  or empty, returns before it resolves the session (line 404) and releases nothing: hence
  `bypassed`.
* *Worker pool* (`tool/task.ts`): a worker may be handed out after it has left the pool,
  because `ready` outlives it (`stray` in `DispatchedEnds`); the pool can exceed its cap;
  two calls of one parent can both pass the active-child check. A run aborted by a signal
  answers "ok" like one that ended (`cli/cmd/session.ts:276`); the confirmation of a cancel is
  matched by session (line 1296), so that a late one rejects the worker's next request if
  that goes on with the same session: `SettledByOwnRun` says neither that an answered run
  was complete nor that only its own cancel rejects it.
* *Registry of running tasks* (`tool/task.ts:421`): overlapping read-modify-write calls lose
  entries, and an instance of a second directory recovers - reports as dead and deletes -
  the entries of live tasks (`project/bootstrap.ts:72`): hence `clean` in `RegistryExact`
  and `ReportedOnce`. Nobody awaits the removal of an entry (lines 1216, 2777): the event may
  be published first, and a crash or a failing write then repeats it, although the comment
  at line 600 says that a delivered notice would have removed the entry; so does a
  watchdog's report, which leaves the entry until the worker's exit is read, and a stream
  that cannot be read, which leaves it for good (line 1432): hence `gaveUp` and `amiss` in
  `ReportedOnce`. A crash between the removal of an entry and its event loses the
  completion, and so does a recovery whose report of an orphan throws after the file was
  deleted (line 636): hence `skipped` in `OrphanAccountedFor` and `OrphansReported`.

## 5. Fairness

* A caller that can take its next step in `runLoop` takes it (the event loop runs every
  ready continuation), and runs end (a `using` clause calls `finish` however they end).
  Nothing is assumed of when prompts arrive, of cancels or of disposals.
* A lock's holder disposes it (`using`), a lane's task completes. In `Daemon` the
  lifecycle steps and the drain's timeout happen; signals need not.
* In `NoticeResume` subscribers that have begun go on, the supervisor's interval timer
  ticks, the backoff and the kill switch's TTL end and the run loop moves; no event and no
  prompt has to come.
* In `WorkflowRunner` passes, jobs, the user's runs, the backoff and the kill switch's TTL
  proceed. The strong fairness of `StreamStart` says that a session tried again and again
  eventually gets its stream; without it a provider that is always down keeps a continuation queued
  as long as loops end without an error. That of `LoopEnds` says that not every run of a
  session fails or leaves a continuation behind: the choice prefers sessions with fewer
  failures, so that one whose every second resume fails would starve one that has failed more often.
* In `Cron` the timer ticks, a tick that has begun goes on, time passes and a stopped daemon
  is started again; no call has to be made, and nothing is assumed of how runs end.
* In `TaskWorkers` the daemon's continuations, its timers, the reader of each pipe and the
  worker processes proceed, and a process that got a signal ends. Nothing is assumed of
  cancels, silences or idle reaps; no worker has to crash.
* In `TaskRegistry` a bootstrap that has begun goes on, whatever fails in it; no directory
  has to be opened.

## 6. Proofs

Every invariant and every action property that a run checks, and the refinement, is also a
theorem: for all sets of sessions, calls, tasks, clients and jobs, and all bounds and limits.
The assumptions are those the modules name (`ASSUME`): limits are natural numbers, positive
where the code's are; a name for "nothing" is not also the name of something; the sessions
and the clients of a lock are finitely many. One theorem has a hypothesis that the code does not guarantee,
`OneWakePerJobCorrect` (below).

Hardly any of the properties is inductive as it stands. What had to be added says what the
code relies on without saying it:

* **`SessionRuntime_proofs`.** `StateInv` joins the types, that the slot's owner is active,
  and that a quiet session is idle or still has a live owner; it is inductive for any
  number of disposals and gives `TypeCorrect` and `QuietCorrect`. `QuietMeansIdle` alone is
  not inductive: a `finish` that skips the status relies on another run being there to
  reset it. `SlotInv` adds, for an instance not disposed yet, that an active run that
  is not the slot's is aborted and that waiters are exactly the callers that wait, behind
  a registered entry; it gives `SingleLiveRunCorrect`, `NoStrandedWaiterCorrect`
  (with `SlotHasOwner`: a registered entry has an owner that will still finish) and the
  action property `SlotHandoverCorrect`. `FreshHasNotWaited` is in `StateInv` because the
  bound on `waits` is not inductive without it.
* **`RWLock_proofs`.** `IInv` says that the map's object, if there is one, agrees with the
  clients, all of which refer to it unless they are idle: its reader count is the number of clients that read, its writer flag is theirs,
  its two queues hold each waiting client exactly once, and a queue is only non-empty while
  somebody holds the lock. The lemmas follow the halves of the methods (grant, queue,
  release, `process()`), and the actions are put together from them. It gives `Bookkeeping`,
  `NoLostWakeupAlways` and `LockImplements`: every step of `lock.ts`, a dispose that wakes
  many readers included, is a step of `ReadersWriters` or leaves it as it is.
* **`Daemon_proofs`.** `LaneInv` is about all `LaneState`s ever made for the key. `LaneOK`: the
  queue of the registered one is sorted by id and holds exactly its waiting tasks, all of its
  current generation, and of each generation at most `MaxConcurrent` run. `Full`: tasks wait
  only while the lane is at its limit, which is why a drain that asks for active tasks only
  also waits for the queued ones (`GracefulDrainAlways`). `Stale`: a running task is of an
  earlier generation iff a reset has met it (`StaleNeverResolvesAlways`). Each action ends
  with `pump()`: the lemmas show that what precedes it leaves the lane in order and that
  `pump()` fills it. Also `CapPerGenerationAlways`, `FifoAlways`, and from the lifecycle's
  steps `ForeignLockKeptAlways`: unless `raced`, what the read saw is still there at the write. `HolderNamedCorrect` (module `GatewayLock`): the
  strengthening says what a process between its read and its write of an uncontended
  `acquire` knows of the file.
* **`NoticeResume_proofs`.** `NoticeNeverLostCorrect`: the drain removes only what the prompt of
  its turn carries, until the stream starts or fails; the invariant is the property with the typing of the
  list, of the prompt and of the subscribers' progress. `OneWakePerJobCorrect`: `WakeInv` says that the
  ledger is a list of distinct jobs that names each job which has woken the parent or which
  one subscriber, and only one, is about to wake it for. Its hypothesis `LedgerHoldsAll` says
  that the jobs fit into the ledger (`LedgerCap`, `MAX_RESUMED_JOBIDS` = 64 in the code). It
  is needed: with a ledger of one entry and two jobs that are both announced again TLC finds
  a job that is evicted, announced again and wakes its parent a second time.
  Of `TaskRegistry` (`RegistryTypeCorrect`, `RegistryExactCorrect`,
  `OrphanAccountedForCorrect`, `ReportedOnceCorrect`): `RegistryExact` speaks of moments without accesses; `UpToOneOp`
  says what holds during one: the file differs from `attended` by that task, and those in
  `amiss`, only.
  `RecoveryAlone` and `OneOp` say what `clean` stands for, `LiveIsServed` that nothing is
  live before a bootstrap is through. `OrphansTraced` strengthens `OrphanAccountedFor`: the
  orphans are all in the file until a bootstrap takes them, and in hand, reported or skipped
  from then on. For `ReportedOnce`, `Answer` says that an answered task is no longer attended to,
  `OneRecovery` that a second bootstrap finds only entries in `amiss`, and `Unreported` that what a
  crash leaves in the file of other tasks has not been reported.
* **`WorkflowRunner_proofs`.** `RInv`: only the holder of `RESUME_LOCK` has candidates
  (`OnePass`); while `clean`, in-flight marks and resumes are paired one to one and no
  candidate has a mark (`Paired`), so that what a pass found at its scan still holds at its
  launch; a session without failures left is parked and no candidate (`GivesUp`). It gives
  `OneResumePerSessionCorrect` and `FailedSessionGivesUpCorrect`. The lemmas on `recent` show
  that the order of sessions by their last run always lists all of them, so that the choice
  among the candidates never fails.
  `UncontendedCallExactCorrect` and `QueueTypeCorrect` (module `RunQueue`): for a call that
  has been alone since it began, the keys it has not yet to remove are empty, and after its
  writes they hold its entry.
* **`Requests_proofs`.** `Inv` joins `DialogOnce` (a request not yet evaluated has no dialog,
  so that closing it is never a second time), `InForce` (the approvals in force are given
  ones, and all of them until a write is lost; the file agrees once no write is under way)
  and the properties `GrantJustified`, `NoAskForGranted` and `AbortLeavesNoQuestion`, which
  are inductive given `InForce`: an "always" leaves pending only what it does not cover.
  Five theorems and the types (`TypeCorrect`), for any requests, sessions, patterns, rules and restarts.
* **`Cron_proofs`.** `CInv`: while `clean`, one tick at most is in flight, and what it read of
  the job is still so (`InStep`); a due time already fired is never the next one of an
  enabled job, except during its run; the next run of an enabled one-shot is not before
  its timestamp, unless the user pushed it (`Timely`); a linked job that has run has its
  subsession released (`Told`). It gives `FiresOncePerDueCorrect`, `OneShotNotEarlyCorrect`
  and `RunReleasesSubsessionCorrect`.
* **`TaskWorkers_proofs`.** `TInv`, which is `PoolInOrder`: `busy` and `current` go together, a
  current request is unsettled and has one worker, and its call has been dispatched
  (`Slots`); a call that waits for a worker holds the lock and that worker is free
  (`Places`), which is what makes it safe to take it after the await; whatever is unsettled
  and mentioned in a worker's pipes or process is that worker's current request (`Traced`);
  cancels are for aborted tasks and messages tell the truth (`CancelsAborted`, `Truthful`).
  `Traced` is why a late line of an earlier run cannot settle the next request, although the
  reader compares ids only. It gives `AwaitedIsCurrentCorrect` and `SettledByOwnRunCorrect`.

Only model-checked: all liveness (TLAPS does not reason about fairness or ENABLED here) -
`PromptGetsRun`, `WriterServed`, `EveryTaskSettles`, `ShutdownEnds`, `IdleParentSeesNotice`,
`PendingSettles`, `OneShotSettles`, `DispatchedEnds`, `CallEnds`, `OrphansReported` - and the
counterexample of `daemon_restart`. The inductive invariants were checked by TLC on the
instances of section 3, or smaller ones, before they were proved.

## 7. Plan

Done: the session slot, locks, lanes, daemon, queue, notices and supervisor; permissions and
questions; cron; subagent workers with their registry; proofs of all their safety
properties. Left, in this order:

1. Proofs that tie modules together: what `TaskRegistry` takes for granted of the pool
   (`attended`) as a refinement of `TaskWorkers`; the reduced lane of `WorkflowRunner` from
   `Lanes`; action properties of the pool (a settled request stays settled) and of the queue.
2. `KillSwitchControl`: sequence numbers, acknowledgements, cancel against `SessionRuntime`.
3. `Rotation`: single flight, decision cache, minimum interval per provider.
4. Composition of `TaskRegistry`'s repeated reports with `NoticeResume`.

## 8. Not modelled

Storage internals (each operation is an atomic read or write), the text and token work
of compaction and context, provider wire protocols, MCP, LSP, tools and skills, the HTTP
server, the web, desktop and terminal clients, and the C gateway: these make up most of the
repository's lines, and are formatting, I/O and generated code with little state of their
own. In the modelled parts:
`RunQueue.drain`, which has no caller; approval gates, freerun, dormant scheduled sessions and leases of other daemons
(supervisor); the callbacks of the unreachable last resort of `runLoop`; wall clock
times, which become steps that may happen; the order of candidates by health and budget,
taken as equal. Of cron: the text of cron expressions, active hours, system events, the run
log, the retry policy that nothing calls, and failures of the disk while a subsession is
released. Of the workers: prompts, todos, model updates, bridged events, heartbeats and
the monitor's process list. Of permissions: the matching of wildcards and the mapping of
tools to permissions.
