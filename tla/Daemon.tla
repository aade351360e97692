------------------------------- MODULE Daemon -------------------------------
(***************************************************************************)
(* daemon/index.ts with restart.ts, drain.ts, signals.ts and its own side  *)
(* of gateway-lock.ts, composed with one workspace's command lane (Lanes). *)
(*                                                                         *)
(* Workspace lanes are made by the first enqueue().  start() itself only   *)
(* registers the default workspace, to which nothing is ever enqueued;     *)
(* what registering and unregistering a workspace with tasks does is       *)
(* action Registry.  acquire() and release() await between reading the     *)
(* lock file and writing or unlinking it, and other processes move then;   *)
(* module GatewayLock has those processes one by one.                      *)
(***************************************************************************)
EXTENDS Naturals, FiniteSets, Sequences

CONSTANTS
    Tasks,          \* as in Lanes
    MaxConcurrent,  \* as in Lanes
    MaxStarts,      \* bound on the Daemon.start() calls that pass the guard
    MaxSignals,     \* bound on SIGTERM / SIGINT / SIGUSR1 deliveries
    MaxForeign,     \* bound on what other processes do to the lock file
    MaxRegistry     \* bound on registerWorkspace() / unregisterWorkspace() calls

ASSUME MaxConcurrentAssumption == MaxConcurrent \in Nat \ {0}
ASSUME DaemonBoundsAssumption == {MaxStarts, MaxSignals, MaxForeign, MaxRegistry} \subseteq Nat

VARIABLES
    states, cur, promise, home, gen, id, counter, drain, resets, registry,
    preReset,      \* the lane, as in Lanes
    daemonState,   \* Daemon.daemonState
    at,            \* the await the lifecycle code is suspended in
    registered,    \* Signals.registered
    lockFile,      \* whose pid daemon.lock holds: none, self, a live or a dead process
    raced,         \* another process changed the file since acquire() or release() read it
    timedOut,      \* the last Drain.waitFor() gave up before the lanes were idle
    starts, signals, foreign

L == INSTANCE Lanes

laneVars == <<states, cur, promise, home, gen, id, counter, resets, registry,
              preReset>>
laneAndDrain == <<laneVars, drain>>
bounds == <<starts, signals, foreign>>
daemonVars == <<daemonState, at, registered, lockFile, raced, timedOut, bounds>>
vars == <<laneAndDrain, daemonVars>>

Init ==
    /\ L!Init
    /\ daemonState = "stopped"
    /\ at = "none"
    /\ registered = FALSE
    /\ lockFile \in {"none", "live", "dead"}
    /\ raced = FALSE
    /\ timedOut = FALSE
    /\ starts = 0 /\ signals = 0 /\ foreign = 0

-----------------------------------------------------------------------------
(* GatewayLock, as this process sees it.                                   *)

\* acquire() fails if the pid in the file runs - this process included.
AcquireOk == lockFile \in {"none", "dead"}

\* acquire(), up to the verdict on the pid it read.
AcquireReads(await, write) ==
    /\ at = await
    /\ AcquireOk
    /\ at' = write
    /\ raced' = FALSE
    /\ UNCHANGED <<laneAndDrain, daemonState, registered, lockFile, timedOut, bounds>>

\* acquire() ends without the lock: the pid runs, or mkdir or writeFile throws.
AcquireFails(await, write) == (at = await /\ ~AcquireOk) \/ at = write

\* release() goes on to the unlink only if the file names this process.
AnyLock == TRUE
OwnLock == lockFile = "self"

\* unlink, whatever the file holds by now.
UnlinkForgotten == lockFile' = lockFile
Unlink == lockFile' = "none"

\* Lanes.isIdle(): no active task in a registered lane.
IsIdle == cur # 0 => states[cur].active = {}

\* Drain.waitFor(isIdle, timeout) ends at any moment - the lanes are idle or
\* the time is up - and Drain.complete() follows.
DrainDone ==
    /\ timedOut' = ~IsIdle
    /\ L!DrainComplete

-----------------------------------------------------------------------------
(* Daemon.start()                                                          *)

StartCall ==
    /\ daemonState = "stopped" /\ at = "none"
    /\ starts < MaxStarts
    /\ starts' = starts + 1
    /\ daemonState' = "starting"
    /\ at' = "acquire"
    /\ UNCHANGED <<laneAndDrain, registered, lockFile, raced, timedOut, signals, foreign>>

StartRead == AcquireReads("acquire", "acquireWrite")

\* The lock is written and the signal handlers are registered before
\* Heartbeat.recoverSchedules() is awaited.
StartLocked ==
    /\ at = "acquireWrite"
    /\ lockFile' = "self"
    /\ registered' = TRUE
    /\ at' = "recover"
    /\ UNCHANGED <<laneAndDrain, daemonState, raced, timedOut, bounds>>

StartRefused ==
    /\ AcquireFails("acquire", "acquireWrite")
    /\ daemonState' = "stopped"
    /\ at' = "none"
    /\ UNCHANGED <<laneAndDrain, registered, lockFile, raced, timedOut, bounds>>

StartDone ==
    /\ at = "recover"
    /\ daemonState' = "running"
    /\ at' = "none"
    /\ UNCHANGED <<laneAndDrain, registered, lockFile, raced, timedOut, bounds>>

-----------------------------------------------------------------------------
(* shutdown() and restart(), called by the signal handlers.  Outside the   *)
(* running state both return at once.                                      *)

Signal == registered /\ signals < MaxSignals /\ signals' = signals + 1

BeginDrain(state, await) ==
    \/ /\ daemonState = "running"
       /\ daemonState' = state
       /\ at' = await
       /\ L!DrainEnter
    \/ /\ daemonState # "running"
       /\ UNCHANGED <<daemonState, at, drain>>

Shutdown ==
    /\ Signal
    /\ BeginDrain("draining", "shutdownWait")
    /\ UNCHANGED <<laneVars, registered, lockFile, raced, timedOut, starts, foreign>>

ShutdownDrained ==
    /\ at = "shutdownWait"
    /\ DrainDone
    /\ registered' = FALSE
    /\ at' = "release"
    /\ UNCHANGED <<laneVars, daemonState, lockFile, raced, bounds>>

\* release(), up to the check that the lock is ours.
ReleaseReads ==
    /\ at = "release"
    /\ OwnLock
    /\ at' = "unlink"
    /\ raced' = FALSE
    /\ UNCHANGED <<laneAndDrain, daemonState, registered, lockFile, timedOut, bounds>>

ShutdownReleased ==
    /\ \/ at = "release" /\ ~OwnLock /\ UNCHANGED lockFile
       \/ at = "unlink" /\ Unlink
    /\ daemonState' = "stopped"
    /\ at' = "none"
    /\ UNCHANGED <<laneAndDrain, registered, raced, timedOut, bounds>>

RestartSignal ==
    /\ Signal
    /\ BeginDrain("restarting", "restartWait")
    /\ UNCHANGED <<laneVars, registered, lockFile, raced, timedOut, starts, foreign>>

\* attemptRespawn() goes straight on to inProcessRestart(), which resets the
\* lanes before it awaits the lock.
RestartReset ==
    /\ at = "restartWait"
    /\ DrainDone
    /\ L!ResetAll
    /\ at' = "reacquire"
    /\ UNCHANGED <<daemonState, registered, lockFile, raced, bounds>>

RestartRead == AcquireReads("reacquire", "reacquireWrite")

RestartDone ==
    /\ at = "reacquireWrite"
    /\ lockFile' = "self"
    /\ L!DrainReset
    /\ daemonState' = "running"
    /\ at' = "none"
    /\ UNCHANGED <<laneVars, registered, raced, timedOut, bounds>>

\* "restart failed - shutting down": shutdown() finds the state not running
\* and returns.
RestartFailed ==
    /\ AcquireFails("reacquire", "reacquireWrite")
    /\ at' = "none"
    /\ UNCHANGED <<laneAndDrain, daemonState, registered, lockFile, raced, timedOut, bounds>>

-----------------------------------------------------------------------------
\* The lock file changes under the daemon: it is removed (or unreadable, which
\* readLock() takes for absent), another process takes a free or stale lock, or,
\* having read the file before this daemon wrote it, overwrites it (GatewayLock);
\* that process exits with or without releasing it.
OutsideLockChange ==
    /\ foreign < MaxForeign
    /\ foreign' = foreign + 1
    /\ \E change \in {<<"self", "none">>, <<"self", "live">>, <<"none", "live">>, <<"dead", "live">>,
                      <<"live", "none">>, <<"live", "dead">>} :
          lockFile = change[1] /\ lockFile' = change[2]
    /\ raced' = (at \in {"acquireWrite", "reacquireWrite", "unlink"})
    /\ UNCHANGED <<laneAndDrain, daemonState, at, registered, timedOut, starts, signals>>

\* The work of the daemon; lanes take tasks whatever daemonState says.
Work(t) ==
    /\ L!Enqueue(t) \/ L!Complete(t)
    /\ UNCHANGED daemonVars

\* Lanes.registerWorkspace() and unregisterWorkspace() of the lane's workspace.
Registry ==
    /\ registry < MaxRegistry
    /\ L!Register \/ L!Unregister
    /\ UNCHANGED <<drain, daemonVars>>

Lifecycle ==
    \/ StartRead \/ StartLocked \/ StartRefused \/ StartDone
    \/ ShutdownDrained \/ ReleaseReads \/ ShutdownReleased
    \/ RestartReset \/ RestartRead \/ RestartDone \/ RestartFailed

Next ==
    \/ StartCall \/ Shutdown \/ RestartSignal \/ Lifecycle
    \/ OutsideLockChange \/ Registry
    \/ \E t \in Tasks : Work(t)

Spec == Init /\ [][Next]_vars

\* Timers fire, file operations return, tasks end.
FairSpec ==
    /\ Spec
    /\ WF_vars(Lifecycle)
    /\ \A t \in Tasks : WF_vars(L!Complete(t) /\ UNCHANGED daemonVars)

-----------------------------------------------------------------------------
\* What Lanes promises, with the daemon's drains and resets around it.
CapPerGeneration == L!CapPerGeneration
Fifo == L!Fifo

\* A drain that did not time out leaves no accepted task of the registered lane
\* behind, queued ones included, although waitFor() only asks for active tasks.
GracefulDrain ==
    drain = "drained" /\ ~timedOut =>
        \A t \in Tasks : promise[t] \in L!Pending /\ home[t] = cur => t \in preReset

\* The daemon overwrites or unlinks the lock file of a live process only if the
\* file changed hands after acquire() or release() read it: never at a start or a
\* restart that found the lock held, nor at the shutdown of a daemon that had lost
\* its lock before.
ForeignLockKept == [][lockFile = "live" /\ at' # at /\ ~raced => lockFile' = "live"]_vars

\* As in Lanes, across shutdown and restart: a task accepted before the restart
\* never hands its result to its caller afterwards.
StaleNeverResolves == L!StaleNeverResolves

\* Whatever the daemon goes through, an accepted task is settled, unless its
\* LaneState is taken out of the map under it: nobody pumps a queue that
\* registerWorkspace() has replaced.
EveryTaskSettles == L!EveryTaskSettles

\* A shutdown that has begun comes to an end, with the lock given back.
ShutdownEnds ==
    daemonState = "draining" ~> daemonState = "stopped" /\ lockFile # "self"

\* restart.ts: drain, reset, reacquire the lock, resume; index.ts: or shut
\* down.  A restart comes to an end either way.
RestartEnds == daemonState = "restarting" ~> daemonState \in {"running", "stopped"}
=============================================================================
