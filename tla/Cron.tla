-------------------------------- MODULE Cron --------------------------------
(***************************************************************************)
(* One scheduled task: cron/heartbeat.ts, store.ts, schedule.ts, session.ts,*)
(* the timer of scheduler/index.ts, the calls of tool/cron.ts and           *)
(* server/routes/cron.ts, and the dormant subsession that stands for it.    *)
(*                                                                         *)
(* A tick reads the store once and evaluates its jobs one after the other,  *)
(* so other jobs only delay this one: any time may pass between the read    *)
(* and the evaluation, and timer and run-now may start the next tick        *)
(* meanwhile.  Store operations are atomic (they hold the lock of RWLock).  *)
(* Nobody in the program enqueues a system event, configures active hours   *)
(* or sets deleteAfterRun, and no outcome has status "error".               *)
(***************************************************************************)
EXTENDS Naturals, FiniteSets

CONSTANTS
  Ticks,       \* bound: heartbeat ticks in flight at once
  Stale,       \* STALE_THRESHOLD_MS, in units of the clock
  Period,      \* longest distance between two occurrences of a recurring job
  MaxTime,     \* bound: the clock; at its end nobody calls and nothing crashes any more
  MaxCalls,    \* bound: calls of the tools and routes
  MaxCrashes   \* bound: crashes and stops of the daemon

ASSUME CronAssumption ==
  {Stale, Period, MaxTime, MaxCalls, MaxCrashes} \subseteq Nat /\ Period > 0 /\ MaxTime > 1

VARIABLES
  now,       \* the clock
  up,        \* the daemon runs (the API too); otherwise it has yet to recover
  job,       \* the record in jobs.json; exists = FALSE: not there
  sub,       \* the dormant subsession: "none", "scheduled" or "released"
  creating,  \* what cron_create has left to do: "nothing", "session", "link"
  tick,      \* [Ticks -> [at, now, job]]: at "idle", "read" or "run"; nowMs; the
             \* record listEnabled() returned, as far as a tick looks at it
  calls, crashes,
  clean,     \* history: no two ticks, and no tick and a call or the linking of the
             \* subsession, have overlapped, and no one-shot's run has ended without
             \* its final update; the rest of the history is kept so long:
  spent,     \* due times that were fired, or passed while the daemon was down,
             \* since a call last set the next run
  pushed,    \* that call was run-now
  bypassed,  \* a run of the linked job has not come to use its subsession
  refired,   \* a spent due time was fired
  early      \* a one-shot was fired before its timestamp

store == <<job, sub, creating>>
bounds == <<calls, crashes>>
history == <<clean, spent, pushed, bypassed, refired, early>>
vars == <<now, up, store, tick, bounds, history>>

Unset == 0
Timestamps == 2..(MaxTime - Stale - 1)  \* early enough to be missed before the clock stops
WakeModes == {"now", "next-heartbeat"}
\* What a run does of its own: take a turn in an isolated session; pass on the text
\* of a system event; nothing (an empty text or message, HEARTBEAT_OK, or the target
\* "main", which has no session).
Payloads == {"turn", "text", "mute"}
NoJob == [exists |-> FALSE, enabled |-> FALSE, kind |-> "at", at |-> Unset, wake |-> "now",
          payload |-> "turn", next |-> Unset, linked |-> FALSE, ran |-> FALSE]
Removed == [NoJob EXCEPT !.kind = "every"]  \* was there; its id is not used again
Idle == [at |-> "idle", now |-> Unset, job |-> NoJob]

Init ==
  /\ now = 2
  /\ up = TRUE
  /\ job = NoJob /\ sub = "none" /\ creating = "nothing"
  /\ tick = [k \in Ticks |-> Idle]
  /\ calls = 0 /\ crashes = 0
  /\ clean = TRUE /\ spent = {} /\ pushed = FALSE
  /\ bypassed = FALSE /\ refired = FALSE /\ early = FALSE

InFlight == \E k \in Ticks : tick[k].at # "idle"

\* What becomes of the history when something happens that keeps it or not.
Remember(keep, dues, push) ==
  /\ clean' = (clean /\ keep)
  /\ spent' = IF clean /\ keep THEN dues ELSE {}
  /\ pushed' = (clean /\ keep /\ push)
  /\ bypassed' = (clean /\ keep /\ bypassed)
  /\ UNCHANGED <<refired, early>>

-----------------------------------------------------------------------------
(* Schedule and CronStore.                                                  *)

\* computeNextRunAtMs with the stagger: strictly after t; a recurring schedule
\* may be anchored anywhere.
ComputeNext(j, t) ==
  IF j.kind = "at" THEN {IF j.at > t THEN j.at ELSE Unset} ELSE (t + 1) .. (t + Period)

\* A plausible bug: wakeMode "now" goes before the one-shot's timestamp.
SeededNowFirst(j) ==
  IF ~j.enabled THEN {Unset} ELSE IF j.wake = "now" THEN {now - 1} ELSE ComputeNext(j, now)

\* seededNextRunAtMs
Seeded(j) ==
  IF ~j.enabled THEN {Unset}
  ELSE IF j.kind # "at" /\ j.wake = "now" THEN {now - 1} ELSE ComputeNext(j, now)

\* A plausible bug: the subsession is left to itself.
ReleasedNever(j) == sub

\* CronSession.release of the subsession a job is linked to.
Released(j) == IF j.linked THEN "released" ELSE sub

\* update(): a job that has been removed stays so.
Update(changed) == job' = IF job.exists THEN changed ELSE job

-----------------------------------------------------------------------------
(* tool/cron.ts and server/routes/cron.ts.                                  *)

Call(dues, push) ==
  /\ up /\ calls < MaxCalls /\ now < MaxTime
  /\ calls' = calls + 1
  /\ Remember(~InFlight, dues, push)
  /\ UNCHANGED <<now, up, tick, crashes>>

\* cron_create, whose payload is a message (and POST /jobs, which takes any and
\* makes no subsession).
Create(j, tool) ==
  /\ job = NoJob
  /\ tool => j.wake = "now" /\ j.payload # "text"
  /\ Call({}, FALSE)
  /\ \E n \in Seeded(j) : job' = [j EXCEPT !.next = n]
  /\ creating' = IF tool THEN "session" ELSE "nothing"
  /\ UNCHANGED sub

\* CronSession.createDormant, then the update that links it to the job.
CreateDormant ==
  /\ creating = "session"
  /\ sub' = "scheduled"
  /\ creating' = "link"
  /\ UNCHANGED <<now, up, job, tick, bounds, history>>

LinkDormant ==
  /\ creating = "link"
  /\ Update([job EXCEPT !.linked = TRUE])
  /\ creating' = "nothing"
  /\ Remember(~InFlight, spent, pushed)
  /\ UNCHANGED <<now, up, sub, tick, bounds>>

\* cron_update with a new schedule: refused once a one-shot has run or is settled.
\* (With a new prompt it is a Patch of the payload.)
Reschedule(s) ==
  /\ job.exists
  /\ job.kind = "at" => ~job.ran /\ job.enabled
  /\ Call({}, FALSE)
  /\ LET j == [job EXCEPT !.kind = s.kind, !.at = s.at]
     IN \E n \in ComputeNext(j, now) : job' = [j EXCEPT !.next = n]
  /\ UNCHANGED <<sub, creating>>

\* PATCH /jobs/:id, with j the patched record: the next run is seeded anew if the
\* patch has a switch, a schedule or a wakeMode, and kept if it has only a payload
\* or a session target.
Patch(j, reseed) ==
  /\ job.exists
  /\ IF reseed THEN Call({}, FALSE) ELSE Call(spent, pushed)
  /\ \E n \in (IF reseed THEN Seeded(j) ELSE {job.next}) : job' = [j EXCEPT !.next = n]
  /\ UNCHANGED <<sub, creating>>

\* POST /jobs/:id/run; the tick it starts is one of the Ticks.
RunNow ==
  /\ job.exists
  /\ Call({}, TRUE)
  /\ job' = [job EXCEPT !.next = now - 1]
  /\ UNCHANGED <<sub, creating>>

\* cron_delete and DELETE /jobs/:id; cron_cancel also releases the subsession.
Remove(cancel) ==
  /\ job.exists
  /\ Call({}, FALSE)
  /\ job' = Removed
  /\ sub' = IF cancel THEN Released(job) ELSE sub
  /\ UNCHANGED creating

-----------------------------------------------------------------------------
(* Heartbeat.tick and evaluateJob.                                          *)

\* What a tick looks at in the record: not when the job last ran.
Snapshot(j) == [j EXCEPT !.ran = FALSE]

\* listEnabled(): a tick that finds no job has nothing to do.
TickStarts(k) ==
  /\ up
  /\ tick[k] = Idle
  /\ job.exists /\ job.enabled
  /\ tick' = [tick EXCEPT ![k] = [at |-> "read", now |-> now, job |-> Snapshot(job)]]
  /\ Remember(~InFlight /\ creating = "nothing", spent, pushed)
  /\ UNCHANGED <<now, up, store, bounds>>

Due(j, t) == j.next = Unset \/ j.next <= t
Missed(j, t) == j.next # Unset /\ t > j.next + Stale

\* updateState({nextRunAtMs}), if there is a next fire time.
AdvanceNext(j, t) ==
  \E n \in ComputeNext(j, t) : Update(IF n = Unset THEN job ELSE [job EXCEPT !.next = n])

\* Not due.
Skip(k) ==
  /\ tick[k].at = "read"
  /\ ~Due(tick[k].job, tick[k].now)
  /\ tick' = [tick EXCEPT ![k] = Idle]
  /\ UNCHANGED <<now, up, store, bounds, history>>

\* The staleness guard: skip to the next time, or settle a one-shot and
\* release its subsession.
SkipStale(k) ==
  LET j == tick[k].job  t == tick[k].now
  IN /\ tick[k].at = "read"
     /\ Missed(j, t)
     /\ tick' = [tick EXCEPT ![k] = Idle]
     /\ \E n \in ComputeNext(j, t) :
          IF n # Unset THEN Update([job EXCEPT !.next = n]) /\ UNCHANGED sub
          ELSE /\ Update([job EXCEPT !.enabled = FALSE, !.next = Unset, !.ran = TRUE])
               /\ sub' = Released(j)
     /\ UNCHANGED <<now, up, creating, bounds, history>>

\* wakeMode "next-heartbeat" without a system event only moves the schedule.
SkipNoEvents(k) ==
  LET j == tick[k].job  t == tick[k].now
  IN /\ tick[k].at = "read"
     /\ Due(j, t) /\ ~Missed(j, t) /\ j.wake # "now"
     /\ AdvanceNext(j, t)
     /\ tick' = [tick EXCEPT ![k] = Idle]
     /\ UNCHANGED <<now, up, sub, creating, bounds, history>>

\* executeJobRun begins.  Only a turn comes to CronSession.resolve, which releases
\* the linked subsession.  Of the record that was read the schedule and the payload
\* are used again.
Fire(k) ==
  LET j == tick[k].job  t == tick[k].now
  IN /\ tick[k].at = "read"
     /\ Due(j, t) /\ ~Missed(j, t) /\ j.wake = "now"
     /\ tick' = [tick EXCEPT ![k].at = "run",
                             ![k].job = [NoJob EXCEPT !.kind = j.kind, !.at = j.at,
                                                      !.payload = j.payload]]
     /\ sub' = IF j.payload = "turn" THEN Released(j) ELSE sub
     /\ bypassed' = (bypassed \/ (clean /\ j.linked /\ sub # "released" /\ j.payload # "turn"))
     /\ refired' = (refired \/ j.next \in spent)
     /\ spent' = IF clean THEN spent \cup {j.next} ELSE spent
     /\ early' = (early \/ (clean /\ j.kind = "at" /\ j.at > t /\ ~pushed))
     /\ UNCHANGED <<now, up, job, creating, bounds, clean, pushed>>

\* A plausible bug: a one-shot that has fired stays enabled.
FinalWithoutSettle(j, n) == [job EXCEPT !.next = n, !.ran = TRUE]

\* The last update of evaluateJob, made from the record read by the tick.
Final(j, n) ==
  [job EXCEPT !.enabled = @ /\ ~(n = Unset /\ j.kind = "at"), !.next = n, !.ran = TRUE]

\* The run had something to say, or its turn failed: deliver, log and update.
RunEnds(k) ==
  LET j == tick[k].job
  IN /\ tick[k].at = "run" /\ j.payload # "mute"
     /\ \E n \in ComputeNext(j, tick[k].now) : Update(Final(j, n))
     /\ tick' = [tick EXCEPT ![k] = Idle]
     /\ UNCHANGED <<now, up, sub, creating, bounds, history>>

\* HEARTBEAT_OK suppression, when there was nothing to say or no session could be
\* had, or the delivery or the log threw: only the next fire time is written, if
\* there is one, and after a suppression that the job has run.
RunUnsettled(k) ==
  LET j == tick[k].job
  IN /\ tick[k].at = "run"
     /\ \E n \in ComputeNext(j, tick[k].now), ran \in BOOLEAN :
          /\ j.payload = "mute" => ran
          /\ j.payload = "text" => ~ran
          /\ Update(IF n = Unset THEN job ELSE [job EXCEPT !.next = n, !.ran = @ \/ ran])
     /\ tick' = [tick EXCEPT ![k] = Idle]
     /\ Remember(j.kind # "at", spent, pushed)
     /\ UNCHANGED <<now, up, sub, creating, bounds>>

-----------------------------------------------------------------------------
(* The daemon stops and boots; recoverSchedules runs before the timer and the *)
(* API do.                                                                   *)

Crash ==
  /\ up /\ crashes < MaxCrashes /\ now < MaxTime
  /\ crashes' = crashes + 1
  /\ up' = FALSE
  /\ tick' = [k \in Ticks |-> Idle]
  /\ creating' = "nothing"
  /\ UNCHANGED <<now, job, sub, calls, history>>

\* A plausible bug: recovery only looks at jobs without a next run.
RecoveredUnsetOnly(n) ==
  IF job.next # Unset THEN job
  ELSE [job EXCEPT !.next = n, !.enabled = n # Unset \/ job.kind # "at"]

\* recoverJob, with n = computeNextRunAtMs: keep what is in the future, compute
\* what is unset, skip what is past; a one-shot without a future is disabled.
Recovered(n) ==
  IF job.next > now THEN job
  ELSE IF job.kind = "at" /\ (job.next # Unset \/ n = Unset)
         THEN [job EXCEPT !.enabled = FALSE, !.next = Unset]
         ELSE [job EXCEPT !.next = n]

Boot ==
  /\ ~up
  /\ up' = TRUE
  /\ \E n \in ComputeNext(job, now) : job' = IF job.enabled THEN Recovered(n) ELSE job
  /\ Remember(TRUE, spent \cup {d \in {job.next} : d # Unset /\ d <= now}, pushed)
  /\ UNCHANGED <<now, sub, creating, tick, bounds>>

TimePasses ==
  /\ now < MaxTime
  /\ now' = now + 1
  /\ UNCHANGED <<up, store, tick, bounds, history>>

Schedules == {[kind |-> "at", at |-> t] : t \in Timestamps} \cup {[kind |-> "every", at |-> Unset]}
Timed(j, s) == [j EXCEPT !.kind = s.kind, !.at = s.at]

\* What a call may make of one part of a record besides its schedule.
Switched(j) == {[j EXCEPT !.enabled = on] : on \in BOOLEAN} \cup {[j EXCEPT !.wake = w] : w \in WakeModes}
Replaced(j) == {[j EXCEPT !.payload = p] : p \in Payloads}

User ==
  \/ \E s \in Schedules, tool \in BOOLEAN :
       LET j == Timed([NoJob EXCEPT !.exists = TRUE, !.enabled = TRUE], s)
       IN \E d \in Switched(j) \cup Replaced(j) : Create(d, tool)
  \/ \E s \in Schedules : Reschedule(s) \/ Patch(Timed(job, s), TRUE)
  \/ \E j \in Switched(job) : Patch(j, TRUE)
  \/ \E j \in Replaced(job) : Patch(j, FALSE)
  \/ \E cancel \in BOOLEAN : Remove(cancel)
  \/ RunNow

TickStep(k) ==
  Skip(k) \/ SkipStale(k) \/ SkipNoEvents(k) \/ Fire(k) \/ RunEnds(k) \/ RunUnsettled(k)

Next ==
  \/ User \/ CreateDormant \/ LinkDormant
  \/ \E k \in Ticks : TickStarts(k) \/ TickStep(k)
  \/ Crash \/ Boot \/ TimePasses

Spec == Init /\ [][Next]_vars

\* The timer keeps ticking, ticks go on, time passes and a stopped daemon is started
\* again.  How a run ends is not promised.
FairSpec ==
  /\ Spec
  /\ WF_vars(\E k \in Ticks : TickStarts(k))
  /\ \A k \in Ticks : WF_vars(TickStep(k))
  /\ WF_vars(TimePasses) /\ WF_vars(Boot)

-----------------------------------------------------------------------------
\* While ticks and calls do not overlap and runs are settled, a due time is fired
\* at most once and, once it has passed with the daemon down, never (DD-13: no
\* catch-up): the settled one-shot, the advanced schedule, the staleness guard and
\* the boot recovery leave no gap between them, a crash during a run included.
FiresOncePerDue == ~refired

\* A one-shot does not fire before its timestamp, whatever is edited, switched off
\* and on, crashed and recovered, unless the user runs it now (store.ts: wakeMode
\* "now" must not override a specific scheduled time).
OneShotNotEarly == ~early

\* A task that has taken a turn, or that a tick has settled as missed, is no longer
\* announced by its dormant subsession (DD-4: it must not "sit `scheduled` forever"),
\* through edits, crashes and repeated runs, unless a tick overlapped the linking of
\* the two.  It does not speak of a task whose payload was made to need no session
\* before a run, nor of a one-shot disabled at boot, which records no run and keeps
\* its subsession.
RunReleasesSubsession == clean /\ ~bypassed /\ job.linked /\ job.ran => sub = "released"

\* A one-shot that a tick would fire at once, or at its time, does not stay enabled:
\* it fires and is settled, is skipped as missed, or is disabled at boot, even when
\* ticks overlap and its runs are suppressed or fail.  One exception is the code's: a
\* run that is due without a time, which no guard makes stale, may end unsettled for
\* ever.  The other is the clock's: a time too late to be missed before it stops.
OneShotPending == job.enabled /\ job.kind = "at" /\ job.wake = "now"
UnsettledForEver == []<><<(\E k \in Ticks : RunUnsettled(k)) /\ job.next = Unset>>_vars
OneShotSettles ==
  UnsettledForEver \/ (OneShotPending ~> (~OneShotPending \/ job.next >= MaxTime - Stale))
=============================================================================
