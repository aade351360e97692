---------------------------- MODULE TaskRegistry ----------------------------
(***************************************************************************)
(* What becomes of subagents when the daemon dies: running-tasks.json, the  *)
(* registry tool/task.ts keeps of the tasks it waits for, the outcome and   *)
(* report (task.completed) of a task, and recoverOrphanTasks, which every   *)
(* InstanceBootstrap calls (project/bootstrap.ts).                          *)
(*                                                                         *)
(* The pool is abstracted to what TaskWorkers shows of it: a task handed to *)
(* a worker is attended to until the worker's answer or exit is read; its   *)
(* watchdog may give up on it before.  Registry calls are neither awaited   *)
(* nor serialised: a read and, later, a write, which may fail.  What a      *)
(* report says of the child is left out.                                    *)
(***************************************************************************)
EXTENDS Naturals, FiniteSets

CONSTANTS
  Tasks,       \* calls of the task tool
  Instances,   \* directories; each is bootstrapped by the first request for it
  MaxTroubles  \* bound: crashes of the daemon and failing reads, writes and reports

ASSUME TaskRegistryAssumption == MaxTroubles \in Nat

VARIABLES
  call,      \* [Tasks -> "new", "running", "settling", "notified", "lost"]
  attended,  \* tasks that are the current request of a worker in the pool
  gaveUp,    \* tasks whose outcome is a watchdog's
  registry,  \* running-tasks.json
  ops,       \* registryAdd and registryRemove calls under way
  instance,  \* [Instances -> [at, held]]: the bootstrap, and the entries it has yet to report
  reports,   \* [Tasks -> Nat]: the task.completed events published
  troubles,  \* how often the daemon died, or a read, a write or a report failed
  amiss,     \* history: tasks whose entry was not written or taken away when it should
             \* have been: nobody did, the access failed, or a crash cut it short
  skipped,   \* history: orphans a recovery gave up, as reporting them threw
  owed,      \* history: orphans of the daemon that died last, or still listed from before
  clean      \* history: no two accesses of the registry have overlapped, and no recovery
             \* has run beside live tasks

callVars == <<call, attended, gaveUp, reports>>
registryVars == <<callVars, registry, ops, instance, troubles, amiss, skipped, owed, clean>>

GoesWrong == troubles < MaxTroubles /\ troubles' = troubles + 1

Closed == [at |-> "closed", held |-> {}]

RegistryInit ==
  /\ call = [t \in Tasks |-> "new"]
  /\ attended = {} /\ gaveUp = {}
  /\ registry = {} /\ ops = {}
  /\ instance = [i \in Instances |-> Closed]
  /\ reports = [t \in Tasks |-> 0]
  /\ troubles = 0
  /\ amiss = {} /\ skipped = {} /\ owed = {} /\ clean = TRUE

-----------------------------------------------------------------------------
(* registryAdd and registryRemove.                                          *)

Opening == {i \in Instances : instance[i].at \in {"reading", "claimed"}}

Begin(t, kind) ==
  /\ ops' = ops \cup {[task |-> t, kind |-> kind, read |-> FALSE, seen |-> {}]}
  /\ clean' = (clean /\ ops = {} /\ Opening = {})

RegistryRead(op) ==
  /\ ~op.read
  /\ ops' = (ops \ {op}) \cup
       (IF op.kind = "remove" /\ op.task \notin registry THEN {}
        ELSE {[op EXCEPT !.read = TRUE, !.seen = registry]})
  /\ clean' = (clean /\ Opening = {})
  /\ UNCHANGED <<callVars, registry, instance, troubles, amiss, skipped, owed>>

\* A plausible bug: the entry of a task that is over is written back.
WrittenBack(op) == op.seen \cup {op.task}

Written(op) == IF op.kind = "add" THEN op.seen \cup {op.task} ELSE op.seen \ {op.task}

RegistryWrite(op) ==
  /\ op.read
  /\ registry' = Written(op)
  /\ ops' = ops \ {op}
  /\ clean' = (clean /\ Opening = {})
  /\ UNCHANGED <<callVars, instance, troubles, amiss, skipped, owed>>

\* The error is logged, or not even that.
RegistryWriteFails(op) ==
  /\ op.read /\ GoesWrong
  /\ ops' = ops \ {op}
  /\ amiss' = amiss \cup {op.task}
  /\ UNCHANGED <<callVars, registry, instance, skipped, owed, clean>>

-----------------------------------------------------------------------------
(* A task: dispatch, the answer, the watchdog and the report.               *)

Serving == \E i \in Instances : instance[i].at = "open"

Dispatch(t) ==
  /\ call[t] = "new" /\ Serving
  /\ call' = [call EXCEPT ![t] = "running"]
  /\ attended' = attended \cup {t}
  /\ Begin(t, "add")
  /\ UNCHANGED <<gaveUp, reports, registry, instance, troubles, amiss, skipped, owed>>

\* "done", "canceled", "error" or the end of the worker's stream is read.  Nobody
\* waits for the removal: the report may come before it.
Answered(t) ==
  /\ t \in attended
  /\ attended' = attended \ {t}
  /\ Begin(t, "remove")
  /\ UNCHANGED <<call, gaveUp, reports, registry, instance, troubles, amiss, skipped, owed>>

\* Reading the worker's stream throws: the task is rejected, its entry stays.
StreamThrows(t) ==
  /\ t \in attended /\ GoesWrong
  /\ attended' = attended \ {t}
  /\ amiss' = amiss \cup {t}
  /\ UNCHANGED <<call, gaveUp, reports, registry, ops, instance, skipped, owed, clean>>

\* The race ends with the answer, or with the watchdog (the child's finish is on
\* disk, the worker dead or silent): then the entry stays until the exit of the
\* worker is read.
Outcome(t) ==
  /\ call[t] = "running"
  /\ call' = [call EXCEPT ![t] = "settling"]
  /\ gaveUp' = gaveUp \cup ({t} \cap attended)
  /\ UNCHANGED <<attended, reports, registry, ops, instance, troubles, amiss, skipped, owed, clean>>

\* TaskCompletedEvent, unless routing the child's result throws before it.
Notify(t) ==
  /\ call[t] = "settling"
  /\ call' = [call EXCEPT ![t] = "notified"]
  /\ reports' \in {reports, [reports EXCEPT ![t] = @ + 1]}
  /\ UNCHANGED <<attended, gaveUp, registry, ops, instance, troubles, amiss, skipped, owed, clean>>

-----------------------------------------------------------------------------
(* The daemon dies; a directory's instance is bootstrapped.                 *)

\* A file that was being written may be left unreadable, which registryRead
\* takes for empty.
Crash ==
  /\ GoesWrong
  /\ call' = [t \in Tasks |-> IF call[t] \in {"new", "notified"} THEN call[t] ELSE "lost"]
  /\ attended' = {}
  /\ ops' = {}
  /\ instance' = [i \in Instances |-> Closed]
  /\ registry' \in {registry} \cup {{} : op \in {o \in ops : o.read}}
  /\ amiss' = amiss \cup {op.task : op \in {o \in ops : o.kind = "remove"}}
  /\ owed' = (owed \cap registry') \cup (IF clean /\ ops = {} THEN attended \ amiss ELSE {})
  /\ UNCHANGED <<gaveUp, reports, skipped, clean>>

OpenInstance(i) ==
  /\ instance[i].at = "closed"
  /\ instance' = [instance EXCEPT ![i].at = "reading"]
  /\ clean' = (clean /\ attended = {} /\ ops = {} /\ Opening = {})
  /\ UNCHANGED <<callVars, registry, ops, troubles, amiss, skipped, owed>>

\* recoverOrphanTasks reads the registry ...
RecoveryReads(i) ==
  /\ instance[i].at = "reading"
  /\ instance' = [instance EXCEPT ![i] =
       [at |-> IF registry = {} THEN "open" ELSE "claimed", held |-> registry]]
  /\ UNCHANGED <<callVars, registry, ops, troubles, amiss, skipped, owed, clean>>

\* ... deletes it up front ...
RecoveryUnlinks(i) ==
  /\ instance[i].at = "claimed"
  /\ instance' = [instance EXCEPT ![i].at = "reporting"]
  /\ registry' = {}
  /\ UNCHANGED <<callVars, ops, troubles, amiss, skipped, owed, clean>>

\* (the error of an unlink that fails is swallowed) ...
UnlinkFails(i) ==
  /\ instance[i].at = "claimed" /\ GoesWrong
  /\ instance' = [instance EXCEPT ![i].at = "reporting"]
  /\ amiss' = amiss \cup registry
  /\ UNCHANGED <<callVars, registry, ops, skipped, owed, clean>>

\* ... and goes through its tasks; after the last the instance serves requests.
TakesUp(i, t) ==
  /\ instance[i].at = "reporting" /\ t \in instance[i].held
  /\ instance' = [instance EXCEPT ![i] =
       [at |-> IF @.held = {t} THEN "open" ELSE "reporting", held |-> @.held \ {t}]]
  /\ UNCHANGED <<call, attended, gaveUp, registry, ops, amiss, owed, clean>>

\* A plausible bug: a task is passed over.
RefireSkips(i, t) == TakesUp(i, t) /\ UNCHANGED <<reports, skipped, troubles>>

\* A plausible bug: the first failure ends the recovery, with the other tasks in hand.
RefireAborts(i, t) ==
  /\ instance[i].at = "reporting" /\ t \in instance[i].held /\ GoesWrong
  /\ instance' = [instance EXCEPT ![i] = [at |-> "open", held |-> {}]]
  /\ skipped' = skipped \cup ({t} \cap owed)
  /\ UNCHANGED <<callVars, registry, ops, amiss, owed, clean>>

Refire(i, t) ==
  /\ TakesUp(i, t)
  /\ reports' = [reports EXCEPT ![t] = @ + 1]
  /\ UNCHANGED <<skipped, troubles>>

\* Reading the parent's messages, updating the part or announcing the orphan throws:
\* the error is logged, the task is not reported, its entry is gone.
RefireFails(i, t) ==
  /\ TakesUp(i, t) /\ GoesWrong
  /\ skipped' = skipped \cup ({t} \cap owed)
  /\ UNCHANGED reports

-----------------------------------------------------------------------------
RegistryStep == \E op \in ops : RegistryRead(op) \/ RegistryWrite(op) \/ RegistryWriteFails(op)
RecoveryStep(i) ==
  \/ RecoveryReads(i) \/ RecoveryUnlinks(i) \/ UnlinkFails(i)
  \/ \E t \in Tasks : Refire(i, t) \/ RefireFails(i, t)

RegistryNext ==
  \/ \E t \in Tasks : Dispatch(t) \/ Answered(t) \/ StreamThrows(t) \/ Outcome(t) \/ Notify(t)
  \/ RegistryStep
  \/ \E i \in Instances : OpenInstance(i) \/ RecoveryStep(i)
  \/ Crash

RegistrySpec == RegistryInit /\ [][RegistryNext]_registryVars

\* A bootstrap that has begun goes on, whatever fails in it.
FairRegistrySpec == RegistrySpec /\ \A i \in Instances : WF_registryVars(RecoveryStep(i))

-----------------------------------------------------------------------------
\* Calls, entries and instances have the values the code gives them.
TypeOK ==
  /\ call \in [Tasks -> {"new", "running", "settling", "notified", "lost"}]
  /\ {attended, gaveUp, registry, amiss, skipped, owed} \subseteq SUBSET Tasks
  /\ \A i \in Instances :
       /\ instance[i].at \in {"closed", "reading", "claimed", "reporting", "open"}
       /\ instance[i].held \subseteq Tasks
       /\ instance[i].at \in {"closed", "reading", "open"} => instance[i].held = {}

\* Between two accesses the registry lists exactly the tasks whose answer is still
\* awaited - dispatched ones that a crash would orphan - as long as accesses do not
\* overlap and no directory is opened beside live tasks; a write or unlink that fails
\* and a stream that cannot be read touch the entries concerned and no others.
RegistryExact ==
  clean /\ ops = {} /\ Opening = {} /\ Serving => registry \ amiss = attended \ amiss

Held == UNION {instance[i].held : i \in Instances}

\* No orphan is lost on its way from the registry to its parent: what was listed and
\* attended to when the daemon died, or still listed from an earlier death, is in the
\* file, in the hands of a bootstrap, or reported.  Two ways out are the code's own: an
\* orphan whose own report throws is dropped for good, its entry already deleted, but
\* the others are not lost with it; a daemon that dies drops what it had in hand.
OrphanAccountedFor ==
  \A t \in owed : t \in registry \cup Held \cup skipped \/ reports[t] > 0

\* A task is reported once, through crashes, drops and repeated recoveries, unless its
\* entry outlives its report: a watchdog's outcome leaves the entry to the worker's
\* exit, and a removal nobody waits for may fail or be cut short by a crash, after the
\* event was published.  Accesses that do not overlap are assumed.
ReportedOnce ==
  \A t \in Tasks : clean /\ t \notin gaveUp \cup amiss => reports[t] <= 1

\* Once a directory is being opened after the crash, every orphan is reported or its
\* own report has thrown, unless the daemon dies again.
OrphansReported ==
  \A t \in Tasks : t \in owed /\ (\E i \in Instances : instance[i].at # "closed")
                     ~> \/ reports[t] > 0 \/ t \in skipped \/ t \notin owed
                        \/ \A i \in Instances : instance[i].at = "closed"
=============================================================================
