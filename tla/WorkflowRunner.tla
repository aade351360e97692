--------------------------- MODULE WorkflowRunner ---------------------------
(***************************************************************************)
(* The autonomous supervisor of session/workflow-runner.ts: it resumes      *)
(* queued continuations through the workspace's command lane.               *)
(*                                                                         *)
(* Two callers may run resumePendingContinuations at once (the interval     *)
(* timer and a notice handler's nudge); RESUME_LOCK serialises them.  A     *)
(* pass scans the queue, then, after awaits in which anything may happen,   *)
(* launches what it picked.  Each launch is a job: it goes through          *)
(* daemon/lanes.ts (here only: a queued job starts, or is rejected when the *)
(* lanes are reset or the daemon drains; Lanes is the detailed model) and   *)
(* runs doResume.  Besides the resumes, a session has runs of its user's    *)
(* prompts.  Every session is in a workspace of its own, and is armed for   *)
(* autonomous work.  Wall clock limits become steps that may happen: the    *)
(* 5 min in-flight limit, the retry backoff, the kill switch's TTL.         *)
(***************************************************************************)
EXTENDS Naturals, FiniteSets, Sequences, SequencesExt

CONSTANTS Sessions,     \* sessions, each its own workspace
          Passes,       \* concurrent calls of resumePendingContinuations
          Jobs,         \* bound: launches (executeResumeInLane) under way at once
          NoPass,       \* RESUME_LOCK is free
          MaxFailures,  \* MAX_RESUME_FAILURES
          MaxEvents     \* bound: prompts, queued continuations, re-armings, cancels,
                        \* kill switches, drains, lane resets and expired marks
                        \* together

ASSUME LimitAssumption == MaxFailures \in Nat \ {0} /\ NoPass \notin Passes
ASSUME SessionsAssumption == IsFiniteSet(Sessions) /\ "none" \notin Sessions

VARIABLES
  pending,    \* [Sessions -> "none", "plain" or "task"]: the queued continuation,
              \* "task" when its trigger is task_completion or task_failure
  mark,       \* [Sessions -> "none", "fresh" or "stale"]: resumeInFlight
  wf,         \* [Sessions -> workflow state]: "ready" (idle, running or
              \* waiting_user for a resumable reason), "blocked" or "stopped"
              \* (waiting_user for a non-resumable reason, e.g. manual_interrupt)
  failures,   \* [Sessions -> consecutiveResumeFailures]
  backoff,    \* [Sessions -> retryAt is in the future]
  kill,       \* kill switch: "off", "global" or the workspace it covers
  recent,     \* sessions by workflow.lastRunAt, the longest idle first
  lock,       \* RESUME_LOCK's holder
  cand,       \* [Passes -> the sessions a pass found resumable]
  tasks,      \* [Passes -> those of them it found queued with a task trigger]
  job,        \* [Jobs -> [s, at, task, stale, lane]]: a launched resume
  users,      \* sessions in which the run of a user prompt is under way
  aborted,    \* sessions whose run was cancelled and has not ended yet
  drain,      \* Drain: "no", "entered", or "reset" (lanes reset, still draining)
  events,     \* events from outside so far
  clean,      \* history: no lane reset and no expired mark so far
  revived     \* history: sessions without failures left that a subagent's end or
              \* the user has called on since they were given up

vars == <<pending, mark, wf, failures, backoff, recent, kill, lock, cand, tasks, job,
          users, aborted, drain, events, clean, revived>>
sessionVars == <<pending, mark, wf, failures, backoff, recent>>
passVars == <<lock, cand, tasks>>
userVars == <<users, aborted, revived>>
bounds == <<events, clean>>

NoJob == [s |-> "none", at |-> "none", task |-> FALSE, stale |-> FALSE, lane |-> FALSE]

\* A bounded event; `intact` says whether launches stay paired with marks.
Event(intact) ==
  /\ events < MaxEvents
  /\ events' = events + 1
  /\ clean' = (clean /\ intact)

Init ==
  /\ pending = [s \in Sessions |-> "none"]
  /\ mark = [s \in Sessions |-> "none"]
  /\ wf = [s \in Sessions |-> "ready"]
  /\ failures = [s \in Sessions |-> 0]
  /\ backoff = [s \in Sessions |-> FALSE]
  /\ recent = CHOOSE order \in SetToSeqs(Sessions) : TRUE   \* sessions are alike
  /\ kill = "off"
  /\ lock = NoPass
  /\ cand = [p \in Passes |-> {}]
  /\ tasks = [p \in Passes |-> {}]
  /\ job = [j \in Jobs |-> NoJob]
  /\ users = {} /\ aborted = {} /\ revived = {}
  /\ drain = "no"
  /\ events = 0 /\ clean = TRUE

\* A session that was given up is called on.
Revived(s) == IF failures[s] >= MaxFailures THEN revived \cup {s} ELSE revived

Of(s) == {j \in Jobs : job[j].s = s}
Busy(s) == s \in users \/ \E j \in Of(s) : job[j].at = "loop"

-----------------------------------------------------------------------------
(* The kill switch: server/killswitch/service.ts.                           *)

\* assertSchedulingAllowed(workspaceId); ws = "none" is the call without one.
Allowed(ws) == kill = "off" \/ (kill # "global" /\ ws # "none" /\ ws # kill)

KillSwitch(scope) ==
  /\ kill = "off" /\ Event(TRUE)
  /\ kill' = scope
  /\ UNCHANGED <<sessionVars, passVars, job, userVars, drain>>

\* clearState(), by the operator or when the TTL has passed.
KillCleared ==
  /\ kill # "off"
  /\ kill' = "off"
  /\ UNCHANGED <<sessionVars, passVars, job, userVars, drain, bounds>>

-----------------------------------------------------------------------------
(* resumePendingContinuations.                                              *)

\* inspectPendingContinuationResumability for an armed session: the end of a
\* subagent may resume a session that is blocked or was stopped.
Resumable(s) ==
  /\ pending[s] # "none" /\ mark[s] # "fresh"
  /\ ~Busy(s)
  /\ pending[s] = "task" \/ wf[s] \notin {"blocked", "stopped"}
  /\ ~backoff[s]
  /\ Allowed(s)

\* A plausible bug: the pass does not take RESUME_LOCK.
LockFreeIgnored(p) == cand[p] = {}

LockFree(p) == lock = NoPass /\ cand[p] = {}

\* Under RESUME_LOCK: the global gate, then every queued session is inspected;
\* in-flight marks older than the limit are dropped.  Nothing found: it returns.
Scan(p) ==
  /\ LockFree(p)
  /\ Allowed("none")
  /\ lock' = IF \E s \in Sessions : Resumable(s) THEN p ELSE NoPass
  /\ cand' = [cand EXCEPT ![p] = {s \in Sessions : Resumable(s)}]
  /\ tasks' = [tasks EXCEPT ![p] = {s \in Sessions : Resumable(s) /\ pending[s] = "task"}]
  /\ mark' = [s \in Sessions |->
                IF pending[s] # "none" /\ mark[s] = "stale" THEN "none" ELSE mark[s]]
  /\ UNCHANGED <<pending, wf, failures, backoff, recent, kill, job, userVars, drain, bounds>>

\* pickPendingContinuationsForResume: fewest failures, then longest idle (the
\* health and budget ranks that come first are the same for all sessions here),
\* but the session a nudge asked for comes before them, if it is a candidate.
Picked(C, preferred) ==
  LET calm == {s \in C : \A t \in C : failures[s] <= failures[t]}
  IN  IF preferred # "none" THEN preferred ELSE recent[SelectInSeq(recent, LAMBDA s : s \in calm)]

\* maxCount = 1: one candidate is marked in flight, its workflow set running and
\* handed to executeResumeInLane, which a draining daemon's lane rejects.  The timer
\* prefers no session; a notice handler prefers its own, and when its call comes
\* to have the lock is left open.
Launch(p, preferred) ==
  /\ cand[p] # {}
  /\ \E j \in Jobs : job[j] = NoJob
  /\ LET s == Picked(cand[p], preferred)
         j == CHOOSE i \in Jobs : job[i] = NoJob
     IN
       /\ recent' = Append(RemoveFirst(recent, s), s)
       /\ mark' = [mark EXCEPT ![s] = "fresh"]
       /\ wf' = [wf EXCEPT ![s] = "ready"]
       /\ backoff' = [backoff EXCEPT ![s] = FALSE]
       /\ job' = [job EXCEPT ![j] = [s |-> s, at |-> IF drain = "no" THEN "queued" ELSE "check",
                                     task |-> s \in tasks[p], stale |-> FALSE,
                                     lane |-> drain = "no"]]
  /\ cand' = [cand EXCEPT ![p] = {}]
  /\ tasks' = [tasks EXCEPT ![p] = {}]
  /\ lock' = IF lock = p THEN NoPass ELSE lock
  /\ UNCHANGED <<pending, failures, kill, userVars, drain, bounds>>

-----------------------------------------------------------------------------
(* executeResumeInLane and doResume.                                        *)

\* The lane pumps the job: doResume begins.
LaneStarts(j) ==
  /\ job[j].at = "queued"
  /\ job' = [job EXCEPT ![j].at = "check"]
  /\ UNCHANGED <<sessionVars, kill, passVars, userVars, drain, bounds>>

\* A plausible bug: the finally block forgets the in-flight mark.
UnmarkedNever(s) == mark

Unmarked(s) == [mark EXCEPT ![s] = "none"]

\* doResume is over.  A lane whose generation has moved rejects the promise
\* and the catch runs doResume once more, directly.
Over(j) ==
  LET again == job[j].lane /\ job[j].stale
  IN job' = [job EXCEPT ![j] = IF again THEN [@ EXCEPT !.at = "check", !.lane = FALSE] ELSE NoJob]

\* Kill switch active, whatever its scope: the resume is dropped.
KilledBeforeLoop(j) ==
  /\ job[j].at = "check" /\ kill # "off"
  /\ pending' = [pending EXCEPT ![job[j].s] = "none"]
  /\ wf' = [wf EXCEPT ![job[j].s] = "blocked"]
  /\ backoff' = [backoff EXCEPT ![job[j].s] = FALSE]
  /\ mark' = Unmarked(job[j].s)
  /\ Over(j)
  /\ UNCHANGED <<failures, recent, kill, passVars, userVars, drain, bounds>>

\* SessionPrompt.loop: one run at a time per session (SessionRuntime has the slot).
LoopStarts(j) ==
  /\ job[j].at = "check" /\ kill = "off"
  /\ ~Busy(job[j].s)
  /\ job' = [job EXCEPT ![j].at = "loop"]
  /\ UNCHANGED <<sessionVars, kill, passVars, userVars, drain, bounds>>

\* The workflow states the end of a run may leave: that of its last turn (blocked by
\* a permission or question gate, parked for a reason that is not resumable, or
\* one that can go on), or that of a cancel between turns.
EndStates == {"ready", "blocked", "stopped"}

\* The loop returns.
LoopEnds(j) ==
  LET s == job[j].s
  IN /\ job[j].at = "loop"
     /\ \E end \in EndStates : wf' = [wf EXCEPT ![s] = end]
     /\ failures' = [failures EXCEPT ![s] = 0]
     /\ backoff' = [backoff EXCEPT ![s] = FALSE]
     /\ mark' = Unmarked(s)
     /\ aborted' = aborted \ {s}
     /\ revived' = revived \ {s}
     /\ Over(j)
     /\ UNCHANGED <<pending, recent, kill, passVars, users, drain, bounds>>

\* A plausible bug: the failure limit is off by one.
BlockedOneTooLate(n, fatal) == fatal \/ n > MaxFailures

\* classifyResumeFailure says fatal, or it is the last failure allowed.
Blocked(n, fatal) == fatal \/ n >= MaxFailures

\* The loop throws: give up, or queue the continuation again, with the trigger the
\* pass read, and a backoff.
LoopFails(j, fatal) ==
  LET s == job[j].s
      n == failures[s] + 1
      b == Blocked(n, fatal)
      again == IF job[j].task THEN "task" ELSE "plain"
  IN /\ job[j].at = "loop"
     /\ pending' = [pending EXCEPT ![s] = IF b THEN "none" ELSE again]
     /\ wf' = [wf EXCEPT ![s] = IF b THEN "blocked" ELSE "ready"]
     /\ failures' = [failures EXCEPT ![s] = n]
     /\ backoff' = [backoff EXCEPT ![s] = ~b]
     /\ mark' = Unmarked(s)
     /\ aborted' = aborted \ {s}
     /\ revived' = IF b THEN revived \ {s} ELSE revived
     /\ Over(j)
     /\ UNCHANGED <<recent, kill, passVars, users, drain, bounds>>

-----------------------------------------------------------------------------
(* A run, of a resume or of a user's prompt.                                *)

\* prompt() starts a run.  One that finds the slot taken waits for it or, to interrupt
\* an autonomous run, replaces that (SessionRuntime): here the other run ends first.
UserPrompt(s) ==
  /\ ~Busy(s) /\ Event(TRUE)
  /\ users' = users \cup {s}
  /\ revived' = Revived(s)
  /\ UNCHANGED <<sessionVars, kill, passVars, job, aborted, drain>>

\* An iteration's mailbox poll: the end of a subagent is consumed.
Collect(s) ==
  /\ Busy(s) /\ s \notin aborted /\ pending[s] = "task"
  /\ pending' = [pending EXCEPT ![s] = "none"]
  /\ UNCHANGED <<mark, wf, failures, backoff, recent, kill, passVars, job, userVars, drain, bounds>>

\* The model stream starts: the continuation is consumed.
StreamStart(s) ==
  /\ Busy(s) /\ s \notin aborted
  /\ pending[s] # "none" \/ wf[s] # "ready"
  /\ pending' = [pending EXCEPT ![s] = "none"]
  /\ wf' = [wf EXCEPT ![s] = "ready"]
  /\ UNCHANGED <<mark, failures, backoff, recent, kill, passVars, job, userVars, drain, bounds>>

\* The loop decides to go on and queues a continuation.
EnqueuePlain(s) ==
  /\ Busy(s) /\ Event(TRUE)
  /\ pending' = [pending EXCEPT ![s] = "plain"]
  /\ UNCHANGED <<mark, wf, failures, backoff, recent, kill, passVars, job, userVars, drain>>

\* The run of a prompt ends, or all its accounts are rate limited: then it leaves
\* a continuation to be resumed later.
UserEnds(s) ==
  /\ s \in users
  /\ users' = users \ {s}
  /\ aborted' = aborted \ {s}
  /\ \/ /\ \E end \in EndStates : wf' = [wf EXCEPT ![s] = end]
        /\ UNCHANGED <<pending, backoff>>
     \/ /\ pending' = [pending EXCEPT ![s] = "plain"]
        /\ wf' = [wf EXCEPT ![s] = "ready"]
        /\ backoff' = [backoff EXCEPT ![s] = TRUE]
  /\ UNCHANGED <<mark, failures, recent, kill, passVars, job, revived, drain, bounds>>

-----------------------------------------------------------------------------
(* The surroundings.                                                        *)

\* A subagent has ended: the notice handler queues a continuation with its trigger
\* and then nudges the supervisor.
EnqueueTask(s) ==
  /\ Event(TRUE)
  /\ pending' = [pending EXCEPT ![s] = "task"]
  /\ revived' = Revived(s)
  /\ UNCHANGED <<mark, wf, failures, backoff, recent, kill, passVars, job, users, aborted, drain>>

\* The user arms autonomous work again: the stop reason is cleared, and an idle
\* session gets a continuation.
Rearm(s) ==
  /\ Event(TRUE)
  /\ wf' = [wf EXCEPT ![s] = IF @ = "stopped" THEN "ready" ELSE @]
  /\ pending' = IF Busy(s) THEN pending ELSE [pending EXCEPT ![s] = "plain"]
  /\ revived' = Revived(s)
  /\ UNCHANGED <<mark, failures, backoff, recent, kill, passVars, job, users, aborted, drain>>

\* SessionPrompt.cancel by the user: the queue is cleared, the workflow parked
\* with manual_interrupt, a running loop is aborted and will end.
Cancel(s) ==
  /\ Event(TRUE)
  /\ pending' = [pending EXCEPT ![s] = "none"]
  /\ wf' = [wf EXCEPT ![s] = "stopped"]
  /\ aborted' = IF Busy(s) THEN aborted \cup {s} ELSE aborted
  /\ UNCHANGED <<mark, failures, backoff, recent, kill, passVars, job, users, revived, drain>>

\* retryAt passes.
BackoffEnds(s) ==
  /\ backoff[s]
  /\ backoff' = [backoff EXCEPT ![s] = FALSE]
  /\ UNCHANGED <<pending, mark, wf, failures, recent, kill, passVars, job, userVars, drain, bounds>>

\* RESUME_IN_FLIGHT_TIMEOUT_MS passes.
MarkExpires(s) ==
  /\ mark[s] = "fresh" /\ Event(FALSE)
  /\ mark' = [mark EXCEPT ![s] = "stale"]
  /\ UNCHANGED <<pending, wf, failures, backoff, recent, kill, passVars, job, userVars, drain>>

\* Drain.enter, for a shutdown or a restart: lanes reject new work from now on.
DrainEnters ==
  /\ drain = "no" /\ Event(TRUE)
  /\ drain' = "entered"
  /\ UNCHANGED <<sessionVars, kill, passVars, job, userVars>>

\* A restart's Lanes.resetAll: queued jobs are rejected, so their catch runs
\* doResume directly; running ones belong to an old generation.  Drain.reset
\* follows if the gateway lock is reacquired.
LanesReset ==
  /\ drain = "entered" /\ Event(FALSE)
  /\ drain' \in {"reset", "no"}
  /\ job' = [j \in Jobs |->
               IF job[j].at = "queued" THEN [job[j] EXCEPT !.at = "check", !.lane = FALSE]
               ELSE [job[j] EXCEPT !.stale = job[j].lane]]
  /\ UNCHANGED <<sessionVars, kill, passVars, userVars>>

\* The callers are alike: a scan is made by the first pass that has none in hand.
NextPass(p) == cand[p] = {} /\ p = CHOOSE q \in Passes : cand[q] = {}

PassStep(p) ==
  \/ \E preferred \in cand[p] \cup {"none"} : Launch(p, preferred)
  \/ NextPass(p) /\ Scan(p)

JobStep(j) ==
  \/ LaneStarts(j) \/ KilledBeforeLoop(j) \/ LoopStarts(j) \/ LoopEnds(j)
  \/ \E fatal \in BOOLEAN : LoopFails(j, fatal)

SessionStep(s) == Collect(s) \/ StreamStart(s) \/ EnqueuePlain(s) \/ UserEnds(s) \/ BackoffEnds(s)

Outside ==
  \/ \E s \in Sessions : UserPrompt(s) \/ EnqueueTask(s) \/ Rearm(s) \/ Cancel(s) \/ MarkExpires(s)
  \/ \E scope \in Sessions \cup {"global"} : KillSwitch(scope)
  \/ KillCleared \/ DrainEnters \/ LanesReset

Next ==
  \/ \E p \in Passes : PassStep(p)
  \/ \E j \in Jobs : JobStep(j)
  \/ \E s \in Sessions : SessionStep(s)
  \/ Outside

Spec == Init /\ [][Next]_vars

\* The 5 s timer keeps scanning, launched jobs run and end, time passes (backoff,
\* the kill switch's TTL).  A provider that is tried again and again answers, and
\* not every run it answers ends with an error.
FairSpec ==
  /\ Spec
  /\ WF_vars(\E p \in Passes : PassStep(p))
  /\ \A j \in Jobs : WF_vars(JobStep(j))
  /\ \A s \in Sessions : WF_vars(UserEnds(s)) /\ WF_vars(BackoffEnds(s)) /\ SF_vars(StreamStart(s))
  /\ \A s \in Sessions : SF_vars(\E j \in Of(s) : LoopEnds(j) /\ pending[s] = "none")
  /\ WF_vars(KillCleared)
-----------------------------------------------------------------------------
\* While the lanes keep their generation and nothing outlives the limit, a
\* session has at most one resume under way and resumeInFlight says exactly
\* that: two passes never launch the same continuation.
OneResumePerSession ==
  clean => \A s \in Sessions : Cardinality(Of(s)) <= 1 /\ (Of(s) # {} <=> mark[s] # "none")

\* While no lane reset repeats a resume and nothing outlives the limit, a session
\* that has used up its consecutive failures is left alone, until a subagent of it
\* ends or its user calls on it: no resume of it is under way, no retry is
\* scheduled, and its workflow is parked.  A subagent's end may resume it (its
\* trigger passes the workflow_blocked gate), and one more failure parks it again.
FailedSessionGivesUp ==
  clean => \A s \in Sessions : failures[s] >= MaxFailures =>
    s \in revived \/ (Of(s) = {} /\ ~backoff[s] /\ wf[s] \in {"blocked", "stopped"})

\* A queued continuation of an armed session is eventually consumed, dropped or
\* given up: resumePendingContinuations never skips it for ever.  Only one that no
\* subagent's end triggered may stay in the queue, of a session that is parked.
PendingSettles ==
  \A s \in Sessions : pending[s] # "none" ~>
    \/ pending[s] = "none"
    \/ pending[s] = "plain" /\ wf[s] \in {"blocked", "stopped"}
=============================================================================
