----------------------------- MODULE TaskWorkers -----------------------------
(***************************************************************************)
(* Subagents: the worker pool of tool/task.ts, the worker process of        *)
(* cli/cmd/session.ts and the watchdog of a task call.  What becomes of the *)
(* tasks when the daemon dies is in TaskRegistry.                           *)
(*                                                                         *)
(* Daemon and worker talk through two pipes.  The daemon reads a worker's   *)
(* stdout line by line; every await in it lets other steps in.  Timeouts    *)
(* are steps that may happen at any time.  Heartbeats, bridged events,      *)
(* model updates and the supervisor's entries for the monitor are left out. *)
(***************************************************************************)
EXTENDS Naturals, FiniteSets, Sequences, SequencesExt

CONSTANTS
  Tasks,       \* calls of the task tool by one session
  None,        \* no task
  PoolMax,     \* WORKER_POOL_MAX
  MaxSpawns,   \* bound: worker processes; beyond it spawning fails
  MaxTrouble   \* bound: aborts and cancels, worker crashes, lost streams, silences and
               \* idle reaps

ASSUME TaskWorkersAssumption ==
  None \notin Tasks /\ PoolMax \in Nat \ {0} /\ {MaxSpawns, MaxTrouble} \subseteq Nat

Workers == 1..MaxSpawns

VARIABLES
  task,      \* [Tasks -> [at, on, kill]]: where the call is, its worker, and whether
             \* its watchdog is about to kill that
  done,      \* [Tasks -> "pending", "ok", "error"]: the promise of the run
  worker,    \* [Workers -> TaskWorker, and the process behind it]
  stdin,     \* [Workers -> Seq(commands)]
  stdout,    \* [Workers -> Seq(messages)]
  assigner,  \* who holds WORKER_ASSIGN_LOCK
  standby,   \* the worker ensureStandbyWorker waits for, or 0
  child,     \* SessionActiveChild of the parent: a task or None
  session,   \* [Tasks -> child session]: named after the task it was created for
  saved,     \* [Tasks -> what a child session is, on disk]: "running" by its workflow
             \* state, "stopped", or "finished" by its last message
  deaf,      \* workers whose stdout is no longer read
  aborted,   \* calls aborted before they returned, and tasks canceled afterwards
  trouble,
  cut,       \* history: tasks whose worker got a signal, or bounced, threw or died on
             \* them before they were settled
  stray,     \* history: tasks handed to a worker that had left the pool
  returned   \* history: tasks whose own run returned, not canceled, before they were settled

callVars == <<task, done, assigner, child, aborted>>
poolVars == <<worker, stdin, stdout, standby>>
history == <<cut, stray, returned>>
vars == <<callVars, poolVars, session, saved, deaf, trouble, history>>

NoWorker == [proc |-> "none", listed |-> FALSE, ready |-> FALSE, busy |-> FALSE,
             current |-> None, active |-> None, stop |-> FALSE]
Call(at, w) == [at |-> at, on |-> w, kill |-> FALSE]

Init ==
  /\ task = [t \in Tasks |-> Call("new", 0)]
  /\ done = [t \in Tasks |-> "pending"]
  /\ worker = [w \in Workers |-> NoWorker]
  /\ stdin = [w \in Workers |-> <<>>] /\ stdout = [w \in Workers |-> <<>>]
  /\ assigner = None /\ standby = 0
  /\ child = None
  /\ session = [t \in Tasks |-> None] /\ saved = [t \in Tasks |-> "new"]
  /\ deaf = {} /\ aborted = {} /\ trouble = 0
  /\ cut = {} /\ stray = {} /\ returned = {}

-----------------------------------------------------------------------------
(* The pool.                                                                *)

Trouble == trouble < MaxTrouble /\ trouble' = trouble + 1

First(S) == CHOOSE w \in S : \A v \in S : w <= v
Listed(ws) == {w \in Workers : ws[w].listed}
IdleReady(ws) == {w \in Listed(ws) : ~ws[w].busy /\ ws[w].ready}
Unspawned(ws) == {w \in Workers : ws[w].proc = "none"}

Spawned(ws) ==
  [ws EXCEPT ![First(Unspawned(ws))] = [NoWorker EXCEPT !.proc = "booting", !.listed = TRUE]]

\* ensureStandbyWorker once the workers are ws.
EnsureStandby(ws) ==
  IF IdleReady(ws) = {} /\ Cardinality(Listed(ws)) < PoolMax /\ standby = 0 /\ Unspawned(ws) # {}
    THEN worker' = Spawned(ws) /\ standby' = First(Unspawned(ws))
    ELSE worker' = ws /\ UNCHANGED standby

\* SIGTERM, and the tasks of a worker that are not settled.
Killed(w) == [worker[w] EXCEPT !.proc = IF @ \in {"booting", "alive"} THEN "dying" ELSE @]
Unsettled(w) == {t \in {worker[w].current, worker[w].active} \ {None} : done[t] = "pending"}

\* The standby worker is ready, or is given up.
StandbyEnds ==
  /\ standby # 0
  /\ standby' = 0
  /\ worker' = IF worker[standby].ready THEN worker
               ELSE [worker EXCEPT ![standby] = [Killed(standby) EXCEPT !.listed = FALSE]]
  /\ UNCHANGED <<callVars, stdin, stdout, session, saved, deaf, trouble, history>>

\* killIdleWorker, when the idle timer fires.
IdleReap(w) ==
  /\ w \in IdleReady(worker) /\ worker[w].current = None
  /\ Trouble
  /\ worker' = [worker EXCEPT ![w] = [Killed(w) EXCEPT !.listed = FALSE]]
  /\ UNCHANGED <<callVars, stdin, stdout, standby, session, saved, deaf, history>>

\* A command for the worker; a process that is ending does not read it.
Written(w, type, t) ==
  IF worker[w].proc \in {"booting", "alive"}
    THEN [stdin EXCEPT ![w] = Append(@, [type |-> type, task |-> t])] ELSE stdin

-----------------------------------------------------------------------------
(* The call: TaskTool.execute, dispatchToWorker, assignWorker, getReadyWorker. *)

\* getAuthoritativeActiveChildForDispatch: what the worker of the active child says.
Live(u) == u # None /\ worker[task[u].on].listed /\ worker[task[u].on].current = u

\* The child session: a new one, or one the call names that was interrupted.
ChildSessions(t) == {t} \cup {s \in Tasks : saved[s] = "running"}

\* A live child of the parent blocks the call; a stale one is forgotten.
CallTask(t) ==
  /\ task[t].at = "new"
  /\ \/ Live(child) /\ task' = [task EXCEPT ![t].at = "refused"] /\ UNCHANGED <<child, session>>
     \/ /\ ~Live(child)
        /\ task' = [task EXCEPT ![t].at = "called"] /\ child' = None
        /\ \E s \in ChildSessions(t) : session' = [session EXCEPT ![t] = s]
  /\ UNCHANGED <<done, assigner, aborted, poolVars, saved, deaf, trouble, history>>

\* A plausible bug: a call that throws keeps the lock.
FailsHolding(t) ==
  /\ task' = [task EXCEPT ![t] = Call("failed", 0)] /\ UNCHANGED assigner
  /\ UNCHANGED <<done, child, poolVars, stray>>

\* The call throws; the lock is disposed of with its scope.
Fails(t) ==
  /\ task' = [task EXCEPT ![t] = Call("failed", 0)] /\ assigner' = None
  /\ UNCHANGED <<done, child, poolVars, stray>>

\* The worker is taken, unless the call was aborted meanwhile.  What follows up to
\* the next await: the active child, a standby, the request, its entry in the
\* registry (see TaskRegistry) and the command.
Dispatch(t, w) ==
  \/ t \in aborted /\ Fails(t)
  \/ /\ t \notin aborted
     /\ task' = [task EXCEPT ![t] = Call("announcing", w)]
     /\ assigner' = None
     /\ child' = t
     /\ EnsureStandby([worker EXCEPT ![w].busy = TRUE, ![w].current = t])
     /\ stdin' = Written(w, "run", t)
     /\ stray' = IF worker[w].listed THEN stray ELSE stray \cup {t}
     /\ UNCHANGED <<done, stdout>>

Wait(t, at, w) ==
  /\ task' = [task EXCEPT ![t] = Call(at, w)]
  /\ assigner' = t
  /\ UNCHANGED <<done, child, stdin, stdout, stray>>

\* spawnWorker, or it throws.
SpawnAndWait(t) ==
  \/ Unspawned(worker) = {} /\ Fails(t)
  \/ /\ Unspawned(worker) # {}
     /\ Wait(t, "waitSpawned", First(Unspawned(worker)))
     /\ worker' = Spawned(worker) /\ UNCHANGED standby

\* The pool is at its cap: wait for one of the busy workers.
AtCap(t) ==
  IF Cardinality(Listed(worker)) >= PoolMax
       /\ \E w \in Listed(worker) : worker[w].busy /\ worker[w].current # None
    THEN Wait(t, "waitFreed", 0) /\ UNCHANGED <<worker, standby>>
    ELSE SpawnAndWait(t)

\* A plausible bug: the lock is not taken.
UnlockedAssign(t) == TRUE

\* WORKER_ASSIGN_LOCK is free.
MayAssign(t) == assigner = None

Assign(t) ==
  /\ task[t].at = "called" /\ MayAssign(t)
  /\ IF t \in aborted THEN Fails(t)
     ELSE IF IdleReady(worker) # {} THEN Dispatch(t, First(IdleReady(worker)))
     ELSE LET free == {w \in Listed(worker) : ~worker[w].busy}
          IN IF free # {} THEN Wait(t, "waitReady", First(free)) /\ UNCHANGED <<worker, standby>>
             ELSE AtCap(t)
  /\ UNCHANGED <<aborted, session, saved, deaf, trouble, cut, returned>>

\* The awaits of getReadyWorker end: `ready` outlives the worker's removal.
Assigned(t) ==
  /\ \/ task[t].at = "waitReady" /\ IF worker[task[t].on].ready THEN Dispatch(t, task[t].on) ELSE AtCap(t)
     \/ task[t].at = "waitFreed" /\ IF IdleReady(worker) # {} THEN Dispatch(t, First(IdleReady(worker)))
                                    ELSE SpawnAndWait(t)
     \/ task[t].at = "waitSpawned" /\ IF worker[task[t].on].ready THEN Dispatch(t, task[t].on) ELSE Fails(t)
  /\ UNCHANGED <<aborted, session, saved, deaf, trouble, cut, returned>>

\* TaskWorkerEvent.Assigned has been published.  worker.current! may be gone by
\* then, and the call throws.
Announced(t) ==
  /\ task[t].at = "announcing"
  /\ IF worker[task[t].on].current = None
       THEN task' = [task EXCEPT ![t] = Call("failed", 0)] /\ child' = None
       ELSE task' = [task EXCEPT ![t].at = "running"] /\ UNCHANGED child
  /\ UNCHANGED <<done, assigner, aborted, poolVars, session, saved, deaf, trouble, history>>

Canceling == <<task, done, assigner, stdout, standby, session, saved, deaf, stray, returned>>

\* The parent's turn is aborted; nobody listens any more once the call has returned.
Abort(t) ==
  /\ t \notin aborted /\ task[t].at \in {"called", "waitReady", "waitFreed", "waitSpawned", "announcing"}
  /\ aborted' = aborted \cup {t} /\ Trouble
  /\ stdin' = IF task[t].at = "announcing" THEN Written(task[t].on, "cancel", t) ELSE stdin
  /\ UNCHANGED <<Canceling, child, worker, cut>>

CancelByJobId(w) ==
  /\ w \in Listed(worker) /\ worker[w].current # None
  /\ aborted' = aborted \cup {worker[w].current} /\ Trouble
  /\ stdin' = Written(w, "cancel", worker[w].current)
  /\ UNCHANGED <<Canceling, child, worker, cut>>

\* The active child is canceled; a worker that is done with it is killed instead.
TerminateActiveChild ==
  LET w == task[child].on
  IN /\ child # None /\ Trouble
     /\ child' = None
     /\ IF ~worker[w].listed THEN UNCHANGED <<aborted, stdin, worker, cut>>
        ELSE IF worker[w].current # None
          THEN /\ aborted' = aborted \cup {child}
               /\ stdin' = Written(w, "cancel", child)
               /\ UNCHANGED <<worker, cut>>
          ELSE /\ worker' = [worker EXCEPT ![w] = Killed(w)]
               /\ cut' = cut \cup Unsettled(w)
               /\ UNCHANGED <<aborted, stdin>>
     /\ UNCHANGED Canceling

\* The emergency stop: every request is canceled.
TerminateAllActiveWorkers ==
  LET active == {w \in Listed(worker) : worker[w].current # None}
  IN /\ active # {} /\ Trouble
     /\ aborted' = aborted \cup {worker[w].current : w \in active}
     /\ stdin' = [w \in Workers |-> IF w \in active THEN Written(w, "cancel", worker[w].current)[w] ELSE stdin[w]]
     /\ child' = None
     /\ UNCHANGED <<Canceling, worker, cut>>

-----------------------------------------------------------------------------
(* The worker process.                                                      *)

Runs(w) == worker[w].proc \in {"alive", "dying"}
Say(w, type, t, ok) ==
  stdout' = IF w \in deaf THEN stdout
            ELSE [stdout EXCEPT ![w] = Append(@, [type |-> type, task |-> t, ok |-> ok])]
Process == <<callVars, standby, session, deaf, stray>>

\* What is saved once a run of t's session stops: its workflow state is waiting_user.
Stopped(t) == [saved EXCEPT ![session[t]] = IF @ = "running" THEN "stopped" ELSE @]

\* "ready" is sent, and read if anybody reads.
Boots(w) ==
  /\ worker[w].proc = "booting"
  /\ worker' = [worker EXCEPT ![w].proc = "alive", ![w].ready = w \notin deaf]
  /\ UNCHANGED <<Process, stdin, stdout, saved, cut, returned, trouble>>

\* A command: a run while another is active is bounced; a cancel goes by the session
\* and is confirmed at once, the run may take longer to end.
ReadsCommand(w) ==
  /\ worker[w].proc = "alive" /\ stdin[w] # <<>>
  /\ stdin' = [stdin EXCEPT ![w] = Tail(@)]
  /\ LET t == Head(stdin[w]).task  a == worker[w].active
     IN IF Head(stdin[w]).type = "run"
          THEN IF a # None THEN /\ Say(w, "error", t, FALSE)
                                /\ cut' = cut \cup ({t} \cap Unsettled(w)) /\ UNCHANGED <<worker, saved>>
               ELSE /\ worker' = [worker EXCEPT ![w].active = t, ![w].stop = FALSE]
                    /\ saved' = [saved EXCEPT ![session[t]] = "running"]
                    /\ UNCHANGED <<stdout, cut>>
          ELSE /\ worker' = [worker EXCEPT ![w].stop = @ \/ (a # None /\ session[a] = session[t])]
               /\ saved' = Stopped(t)
               /\ Say(w, "canceled", t, FALSE) /\ UNCHANGED cut
  /\ UNCHANGED <<Process, returned, trouble>>

\* The child's last message is written with its finish ...
Finishes(w) ==
  /\ Runs(w) /\ worker[w].active # None /\ saved[session[worker[w].active]] # "finished"
  /\ saved' = [saved EXCEPT ![session[worker[w].active]] = "finished"]
  /\ UNCHANGED <<Process, worker, stdin, stdout, cut, returned, trouble>>

\* ... and the loop returns, as it also does when the signal aborts it; or it throws.
\* Only a cancel makes the answer of a loop that returns other than ok.
LoopEnds(w) ==
  /\ Runs(w) /\ worker[w].active # None
  /\ LET t == worker[w].active
     IN \/ /\ Say(w, "done", t, ~worker[w].stop)
           /\ saved' = Stopped(t)
           /\ returned' = IF worker[w].stop THEN returned ELSE returned \cup ({t} \cap Unsettled(w))
           /\ UNCHANGED cut
        \/ /\ Say(w, "done", t, FALSE)
           /\ cut' = cut \cup ({t} \cap Unsettled(w))
           /\ UNCHANGED <<saved, returned>>
  /\ worker' = [worker EXCEPT ![w].active = None, ![w].stop = FALSE]
  /\ UNCHANGED <<Process, stdin, trouble>>

\* The process ends: by a signal, whose handler stops the session of the run, or by
\* a crash that may keep its last line from being written.
Dies(w) ==
  /\ \/ /\ worker[w].proc = "dying" /\ UNCHANGED trouble
        /\ saved' = IF worker[w].active = None THEN saved ELSE Stopped(worker[w].active)
     \/ worker[w].proc \in {"booting", "alive"} /\ Trouble /\ UNCHANGED saved
  /\ worker' = [worker EXCEPT ![w].proc = "dead", ![w].active = None, ![w].stop = FALSE]
  /\ cut' = cut \cup Unsettled(w)
  /\ stdin' = [stdin EXCEPT ![w] = <<>>]
  /\ \/ UNCHANGED stdout
     \/ worker[w].proc = "alive" /\ stdout[w] # <<>> /\ stdout' = [stdout EXCEPT ![w] = Front(@)]
  /\ UNCHANGED <<Process, returned>>

-----------------------------------------------------------------------------
(* The reader of a worker's stdout.                                         *)

Reader == <<task, assigner, child, aborted, stdin, session, saved, stray, returned>>

\* A plausible bug: whatever the worker says is taken for its current request.
AboutAny(w, m) == worker[w].current # None

\* The id of the message is that of the current request; "canceled" goes by the
\* session instead.
About(w, m) ==
  LET t == worker[w].current
  IN t # None /\ IF m.type = "canceled" THEN session[t] = session[m.task] ELSE t = m.task

\* The request is over: the worker is free again and the promise settled.
Free(w, ok) ==
  LET t == worker[w].current
  IN /\ done' = [done EXCEPT ![t] = IF ok THEN "ok" ELSE "error"]
     /\ EnsureStandby([worker EXCEPT ![w].current = None, ![w].busy = FALSE])

ReadsMessage(w) ==
  LET m == Head(stdout[w])
  IN /\ stdout[w] # <<>> /\ w \notin deaf
     /\ stdout' = [stdout EXCEPT ![w] = Tail(@)]
     /\ IF About(w, m) THEN Free(w, m.type = "done" /\ m.ok) ELSE UNCHANGED <<done, worker, standby>>
     /\ UNCHANGED <<Reader, deaf, trouble, cut>>

\* A plausible bug: the request of a worker that exits is forgotten.
RejectedNothing(w) == UNCHANGED done

\* The promise of the request the worker leaves behind.
Rejected(w) ==
  LET t == worker[w].current
  IN IF t = None THEN UNCHANGED done
     ELSE done' = [done EXCEPT ![t] = "error"]

\* End of the stream: the exit handler.
Exits(w) ==
  /\ worker[w].proc = "dead" /\ stdout[w] = <<>> /\ w \notin deaf
  /\ worker' = [worker EXCEPT ![w] = [NoWorker EXCEPT !.proc = "gone", !.ready = @ \/ worker[w].ready]]
  /\ Rejected(w)
  /\ cut' = cut \cup Unsettled(w)
  /\ UNCHANGED <<Reader, deaf, trouble, stdout, standby>>

\* The reader throws: the worker leaves the pool with its request, whose promise is
\* rejected; the process goes on unheard.
StreamFails(w) ==
  /\ worker[w].proc \notin {"none", "gone"} /\ w \notin deaf
  /\ Trouble
  /\ deaf' = deaf \cup {w}
  /\ worker' = [worker EXCEPT ![w].listed = FALSE]
  /\ stdout' = [stdout EXCEPT ![w] = <<>>]
  /\ Rejected(w)
  /\ cut' = cut \cup Unsettled(w)
  /\ UNCHANGED <<Reader, standby>>

-----------------------------------------------------------------------------
(* The watchdog and the detached completion of a task call.                 *)

\* run.done or the watchdog ends the race; the active child of the parent is
\* forgotten, whichever it is.
Outcome(t, kill) ==
  /\ task[t].at = "running"
  /\ task' = [task EXCEPT ![t] = [@ EXCEPT !.at = "settling", !.kill = kill]]
  /\ child' = None
  /\ UNCHANGED <<done, assigner, aborted, poolVars, session, saved, deaf, history>>

RunEnds(t) == done[t] # "pending" /\ Outcome(t, FALSE) /\ UNCHANGED trouble

Watched(t) == task[t].at = "running" /\ done[t] = "pending"

\* Watchdog A: the child's terminal finish has been on disk for the grace period.
DiskTerminal(t) ==
  /\ Watched(t) /\ saved[session[t]] = "finished"
  /\ Outcome(t, TRUE) /\ UNCHANGED trouble

\* Watchdog B: the process of a worker still in the pool has exited, or was killed.
WorkerDead(t) ==
  /\ Watched(t)
  /\ worker[task[t].on].listed /\ worker[task[t].on].proc \in {"dying", "dead"}
  /\ Outcome(t, FALSE) /\ UNCHANGED trouble

\* Watchdogs A2 and B3: no progress, or no sign of life.
SilentKill(t) == Watched(t) /\ Outcome(t, TRUE) /\ Trouble

\* After the await: the worker is killed, if it is still there, whatever it does
\* by now; the parent is told.
Reap(t) ==
  /\ task[t].at = "settling"
  /\ task' = [task EXCEPT ![t] = Call("notified", 0)]
  /\ IF task[t].kill /\ worker[task[t].on].listed
       THEN /\ worker' = [worker EXCEPT ![task[t].on] = Killed(task[t].on)]
            /\ cut' = cut \cup Unsettled(task[t].on)
       ELSE UNCHANGED <<worker, cut>>
  /\ UNCHANGED <<done, assigner, child, aborted, stdin, stdout, standby, session, saved, deaf, trouble,
                 stray, returned>>

-----------------------------------------------------------------------------
TaskStep(t) ==
  \/ Assign(t) \/ Assigned(t) \/ Announced(t)
  \/ RunEnds(t) \/ DiskTerminal(t) \/ WorkerDead(t) \/ Reap(t)

ProcessStep(w) == Boots(w) \/ ReadsCommand(w) \/ Finishes(w) \/ LoopEnds(w)
ReaderStep(w) == ReadsMessage(w) \/ Exits(w)

Next ==
  \/ \E t \in Tasks : CallTask(t) \/ TaskStep(t) \/ SilentKill(t) \/ Abort(t)
  \/ \E w \in Workers : ProcessStep(w) \/ ReaderStep(w) \/ StreamFails(w) \/ Dies(w)
                           \/ IdleReap(w) \/ CancelByJobId(w)
  \/ StandbyEnds \/ TerminateActiveChild \/ TerminateAllActiveWorkers

Spec == Init /\ [][Next]_vars

\* Timers fire, files are written, processes run and end when they are told to.
FairSpec ==
  /\ Spec
  /\ \A t \in Tasks : WF_vars(TaskStep(t))
  /\ \A w \in Workers :
       /\ WF_vars(ReaderStep(w)) /\ WF_vars(ProcessStep(w))
       /\ WF_vars(worker[w].proc = "dying" /\ Dies(w))

-----------------------------------------------------------------------------
\* A request that waits for its answer is the current one of its worker: no other
\* call overwrites it, and no freed, dying or reassigned worker drops it.
AwaitedIsCurrent ==
  \A t \in Tasks : task[t].at \in {"announcing", "running"} /\ done[t] = "pending" =>
     worker[task[t].on].current = t

\* A call of t's session was canceled.
Canceled(t) == \E u \in aborted : session[u] = session[t]

\* What the daemon makes of a request is what happened to it: it was answered "ok"
\* because its own run returned without having been canceled (aborted by a signal,
\* perhaps: the worker does not tell that from an end); it was rejected because a
\* call of its session was canceled, or its own run threw, was bounced or lost its
\* process or its reader.  Late messages of a canceled run never settle the next
\* request of that worker, unless that goes on with the same session.
SettledByOwnRun ==
  \A t \in Tasks :
     /\ done[t] = "ok" => t \in returned
     /\ done[t] = "error" => t \in cut \/ Canceled(t)

\* Every task handed to a worker of the pool comes to an end: its parent is told,
\* by the event or by the failure of the call.
DispatchedEnds ==
  \A t \in Tasks : task[t].at = "announcing" ~> (t \in stray \/ task[t].at \in {"notified", "failed"})

\* getReadyWorker always returns or throws, and the lock is passed on.
CallEnds ==
  \A t \in Tasks : task[t].at = "called" ~> (task[t].at # "called" /\ assigner # t)
=============================================================================
