---------------------------- MODULE NoticeResume ----------------------------
(***************************************************************************)
(* How the results of background subagents reach their parent session.     *)
(* A finished job publishes task.completed; the subscriber in               *)
(* bus/subscribers/pending-notice-appender.ts appends a notice to the       *)
(* parent, claims the job in a ledger, queues a synthetic continuation and  *)
(* nudges the resume supervisor (session/workflow-runner.ts).  The parent's *)
(* run loop (session/prompt.ts) drains the notices into its next prompt.    *)
(* The handlers, the supervisor, user prompts and the run loop interleave   *)
(* at every await that touches shared state.                                *)
(*                                                                         *)
(* One parent session.  A run queue call is one step here (RunQueue models  *)
(* its interleavings), the parent's runtime slot is "run" (SessionRuntime), *)
(* and the text of notices and messages is left out.  The session is not    *)
(* armed for autonomous work (workflow.autonomous.enabled is false).  At    *)
(* most MaxStimuli things happen to it: events, user prompts, cancels, runs *)
(* or enqueues that throw, an operator who drops the queued continuation or *)
(* turns the kill switch.  Session.update does not fail.                    *)
(***************************************************************************)
EXTENDS Naturals, Sequences, SequencesExt

CONSTANTS Jobs,          \* background jobs (jobId)
          Refired,       \* jobs whose completion an orphan scan announces again
          MaxFires,      \* bound: task.completed events per refired job
          LedgerCap,     \* MAX_RESUMED_JOBIDS
          MaxFailures,   \* MAX_RESUME_FAILURES
          MaxStimuli     \* bound: events, user prompts and failures together

ASSUME RefiredAssumption == Refired \subseteq Jobs /\ MaxFires \in Nat

\* The deliveries of task.completed: <<jobId, how often it was announced>>.
Events == (Jobs \X {1}) \cup (Refired \X (2 .. MaxFires))

VARIABLES
  notices,    \* pendingSubagentNotices, by jobId
  ledger,     \* resumedSubagentJobIds
  pending,    \* the queued continuation: "none", "task" or "cont"
  userNewer,  \* the newest user message is newer than the newest reply
  finish,     \* the newest reply ends its run: "stop", or not: "tool-calls"
  handler,    \* [Events -> where the subscriber is]
  waiting,    \* a user prompt waits for the runtime slot
  inFlight,   \* resumeInFlight: "no", "picked", "running", or "failing" (doResume's catch)
  failures,   \* consecutiveResumeFailures
  backoff,    \* retryAt is in the future
  killed,     \* the kill switch is on
  run,        \* where the parent's run loop is, "off" when there is none
  aborted,    \* its abort signal
  snap,       \* the session record the run loop read when it began
  completion, \* hasSubagentCompletion of this iteration
  stimuli,    \* events, user prompts and failures so far
  rendered,   \* history: jobs whose notice was in a prompt whose stream started
  dropped,    \* history: jobs whose notice was in a prompt whose stream never started
  parked,     \* history: jobs whose claimed notice waited when its wake-up was dropped
  wakes       \* history: [Jobs -> continuations queued for the job]

shared == <<notices, ledger, pending, userNewer>>
outside == <<handler, waiting, wakes>>
supervisor == <<inFlight, failures, backoff, killed>>
loopVars == <<run, aborted, snap, completion, finish, rendered, dropped>>
mishaps == <<stimuli, parked>>
vars == <<shared, outside, supervisor, loopVars, mishaps>>

Init ==
  /\ notices = {} /\ ledger = <<>> /\ pending = "none"
  /\ userNewer = FALSE /\ finish = "stop"
  /\ handler = [e \in Events |-> "idle"]
  /\ waiting = FALSE
  /\ inFlight = "no" /\ failures = 0 /\ backoff = FALSE /\ killed = FALSE
  /\ run = "off" /\ aborted = FALSE /\ snap = {} /\ completion = FALSE
  /\ stimuli = 0
  /\ rendered = {} /\ dropped = {} /\ parked = {}
  /\ wakes = [j \in Jobs |-> 0]

Stimulus == stimuli < MaxStimuli /\ stimuli' = stimuli + 1

\* Notices on the list that no further event will announce: their jobs are claimed.
Claims == notices \cap ToSet(ledger)

-----------------------------------------------------------------------------
(* The subscriber: one handler per event, its steps separated by awaits.    *)

\* The bounded FIFO ledger with the jobs js added.
Claimed(js) ==
  LET merged == ledger \o SetToSeq(js \ ToSet(ledger))
      over   == IF Len(merged) > LedgerCap THEN Len(merged) - LedgerCap ELSE 0
  IN SubSeq(merged, over + 1, Len(merged))

\* task.completed arrives; Session.update appends the notice (latest wins).
Append_(e) ==
  /\ handler[e] = "idle"
  /\ \A f \in Events : f[1] = e[1] /\ f[2] < e[2] => handler[f] # "idle"
  /\ Stimulus
  /\ handler' = [handler EXCEPT ![e] = "claim"]
  /\ notices' = notices \cup {e[1]}
  /\ UNCHANGED <<ledger, pending, userNewer, waiting, wakes, loopVars, supervisor, parked>>

\* A plausible bug: the ledger is updated but not consulted.
ClaimUnchecked(e) ==
  /\ handler[e] = "claim"
  /\ handler' = [handler EXCEPT ![e] = "coalesce"]
  /\ ledger' = Claimed({e[1]})
  /\ UNCHANGED <<notices, pending, userNewer, waiting, wakes, loopVars, supervisor, mishaps>>

\* Session.update claims the jobId; a job already in the ledger stops here.
Claim(e) ==
  /\ handler[e] = "claim"
  /\ handler' = [handler EXCEPT ![e] = IF e[1] \in ToSet(ledger) THEN "done" ELSE "coalesce"]
  /\ ledger' = IF e[1] \in ToSet(ledger) THEN ledger ELSE Claimed({e[1]})
  /\ UNCHANGED <<notices, pending, userNewer, waiting, wakes, loopVars, supervisor, mishaps>>

\* getPendingContinuation: an entry already queued only gets a nudge.
Coalesce(e) ==
  /\ handler[e] = "coalesce"
  /\ handler' = [handler EXCEPT ![e] = IF pending # "none" THEN "nudge" ELSE "message"]
  /\ UNCHANGED <<shared, waiting, wakes, loopVars, supervisor, mishaps>>

\* enqueueAutonomousContinue writes the synthetic user message ...
SyntheticMessage(e) ==
  /\ handler[e] = "message"
  /\ handler' = [handler EXCEPT ![e] = "enqueue"]
  /\ userNewer' = TRUE
  /\ UNCHANGED <<notices, ledger, pending, waiting, wakes, loopVars, supervisor, mishaps>>

\* enqueueAutonomousContinue throws, which the subscriber logs.
EnqueueThrows(e) ==
  /\ handler[e] \in {"message", "enqueue"} /\ Stimulus
  /\ handler' = [handler EXCEPT ![e] = "done"]
  /\ parked' = parked \cup {e[1]}
  /\ UNCHANGED <<shared, waiting, wakes, loopVars, supervisor>>

\* ... and then queues the continuation with triggerType task_completion.
EnqueueTask(e) ==
  /\ handler[e] = "enqueue"
  /\ handler' = [handler EXCEPT ![e] = "nudge"]
  /\ pending' = "task"
  /\ wakes' = [wakes EXCEPT ![e[1]] = @ + 1]
  /\ UNCHANGED <<notices, ledger, userNewer, waiting, loopVars, supervisor, mishaps>>

-----------------------------------------------------------------------------
(* The resume supervisor, reduced to this session.                          *)

\* assertSchedulingAllowed and inspectPendingContinuationResumability: idle, not in
\* flight, no backoff, and a task trigger, which the workflow state does not hold
\* back (the session is not armed, so no other entry is resumed).
Resumable ==
  /\ ~killed
  /\ run = "off" /\ inFlight = "no"
  /\ pending = "task"
  /\ ~backoff

Picked == inFlight' = IF Resumable THEN "picked" ELSE inFlight

\* A handler's own nudge: resumePendingContinuations for the parent.
Nudge(e) ==
  /\ handler[e] = "nudge"
  /\ handler' = [handler EXCEPT ![e] = "done"]
  /\ Picked
  /\ UNCHANGED <<shared, waiting, wakes, loopVars, failures, backoff, killed, mishaps>>

\* The supervisor's 5 s tick.
Tick ==
  /\ Resumable
  /\ Picked
  /\ UNCHANGED <<shared, outside, loopVars, failures, backoff, killed, mishaps>>

\* doResume finds the kill switch on: the continuation is dropped.
KilledResume ==
  /\ inFlight = "picked" /\ killed
  /\ inFlight' = "no"
  /\ backoff' = FALSE
  /\ pending' = "none"
  /\ parked' = parked \cup Claims
  /\ UNCHANGED <<notices, ledger, userNewer, outside, loopVars, failures, killed, stimuli>>

\* doResume's catch: the continuation is queued again with a backoff, unless the
\* error is fatal or it was the last failure allowed.
ResumeFails(fatal) ==
  LET blocked == fatal \/ failures + 1 >= MaxFailures
  IN /\ inFlight = "failing"
     /\ inFlight' = "no"
     /\ failures' = failures + 1
     /\ backoff' = ~blocked
     /\ pending' = IF blocked THEN "none" ELSE "task"
     /\ parked' = IF blocked THEN parked \cup Claims ELSE parked
     /\ UNCHANGED <<notices, ledger, userNewer, outside, loopVars, killed, stimuli>>

\* retryAt passes.
BackoffEnds ==
  /\ backoff
  /\ backoff' = FALSE
  /\ UNCHANGED <<shared, outside, loopVars, inFlight, failures, killed, mishaps>>

KillSwitch ==
  /\ ~killed /\ Stimulus
  /\ killed' = TRUE
  /\ UNCHANGED <<shared, outside, loopVars, inFlight, failures, backoff, parked>>

\* The operator clears it, or its TTL passes.
KillCleared ==
  /\ killed
  /\ killed' = FALSE
  /\ UNCHANGED <<shared, outside, loopVars, inFlight, failures, backoff, mishaps>>

\* SessionPrompt.cancel: a run is aborted and the queue cleared.  The operator's
\* drop_pending, or switching autonomous work off, only clears the queue.
Cancel(abort) ==
  /\ Stimulus
  /\ aborted' = (aborted \/ (abort /\ run # "off"))
  /\ pending' = "none"
  /\ parked' = parked \cup Claims
  /\ UNCHANGED <<notices, ledger, userNewer, outside, supervisor, run, snap, completion, finish, rendered, dropped>>

\* A user prompt stores its message, then waits for the runtime slot.
Prompt ==
  /\ ~waiting /\ Stimulus
  /\ waiting' = TRUE
  /\ userNewer' = TRUE
  /\ UNCHANGED <<notices, ledger, pending, handler, wakes, loopVars, supervisor, parked>>

-----------------------------------------------------------------------------
(* The parent's run loop.                                                   *)

\* runLoop takes the slot, for a picked resume or for a waiting prompt.
Start(resumed) ==
  /\ run = "off"
  /\ IF resumed THEN inFlight = "picked" /\ ~killed /\ inFlight' = "running" /\ UNCHANGED waiting
     ELSE waiting /\ waiting' = FALSE /\ UNCHANGED inFlight
  /\ run' = "begin"
  /\ UNCHANGED <<shared, handler, wakes, failures, backoff, killed, aborted, snap, completion,
                 finish, rendered, dropped, mishaps>>

\* A step of the run loop that touches nothing outside it but, perhaps, `shared`.
InLoop == UNCHANGED <<outside, supervisor, aborted, mishaps>>

\* A plausible bug: the record comes from a cache that predates the notices.
SnapshotWithoutNotices ==
  /\ run = "begin"
  /\ snap' = {}
  /\ run' = "collect"
  /\ InLoop /\ UNCHANGED <<shared, completion, finish, rendered, dropped>>

\* Session.get, once, before the loop.
Snapshot ==
  /\ run = "begin"
  /\ snap' = notices
  /\ run' = "collect"
  /\ InLoop /\ UNCHANGED <<shared, completion, finish, rendered, dropped>>

\* An aborted run ends at the top of the loop; else collectCompletedSubagents
\* consumes a queued task continuation.
Collect ==
  /\ run = "collect"
  /\ run' = IF aborted THEN "exit" ELSE "read"
  /\ completion' = (~aborted /\ pending = "task")
  /\ pending' = IF ~aborted /\ pending = "task" THEN "none" ELSE pending
  /\ InLoop /\ UNCHANGED <<notices, ledger, userNewer, snap, finish, rendered, dropped>>

\* The message history is read; with nothing new to answer the loop exits.  This
\* is the last use of hasSubagentCompletion in the iteration.
ReadMessages ==
  /\ run = "read"
  /\ run' = IF finish = "stop" /\ ~userNewer /\ ~completion THEN "exit" ELSE "reply"
  /\ completion' = FALSE
  /\ InLoop /\ UNCHANGED <<shared, snap, finish, rendered, dropped>>

\* The assistant message of the turn is created, without a finish reason, which the
\* loop treats like tool-calls.
CreateReply ==
  /\ run = "reply"
  /\ userNewer' = FALSE
  /\ finish' = "tool-calls"
  /\ run' = "drain"
  /\ InLoop /\ UNCHANGED <<notices, ledger, pending, snap, completion, rendered, dropped>>

\* A plausible bug: the drain empties the list instead of removing what it read.
RemainingNothing == {}

\* Only the notices that were rendered leave the list.
Remaining == notices \ snap

\* The notices of the session record are rendered into the prompt and removed;
\* their jobs join the ledger.
Drain ==
  /\ run = "drain"
  /\ notices' = IF snap = {} THEN notices ELSE Remaining
  /\ ledger' = IF snap = {} THEN ledger ELSE Claimed(snap)
  /\ run' = "stream"
  /\ InLoop /\ UNCHANGED <<pending, userNewer, snap, completion, finish, rendered, dropped>>

\* The model stream's "start" clears the queued continuation: the provider has the
\* prompt, and with it the notices.
StreamStart ==
  /\ run = "stream" /\ ~aborted
  /\ pending' = "none"
  /\ rendered' = rendered \cup snap
  /\ run' = "turn"
  /\ InLoop /\ UNCHANGED <<notices, ledger, userNewer, snap, completion, finish, dropped>>

\* decideAutonomousContinuation: RunQueue.peek tells whether this turn was woken
\* by a subagent; if so the todo list decides, else an unarmed session stops.
MayContinue == pending = "task"

\* The provider fails, or the run is aborted, before the stream starts or in the
\* turn: process() returns "stop".  When every account is rate limited and the
\* session would go on, a continuation is queued with a backoff.
StreamFails ==
  /\ run \in {"stream", "turn"}
  /\ dropped' = IF run = "stream" THEN dropped \cup snap ELSE dropped
  /\ finish' \in {"stop", finish}
  /\ run' = "exit"
  /\ \/ UNCHANGED <<pending, userNewer, backoff>>
     \/ MayContinue /\ pending' = "cont" /\ userNewer' = TRUE /\ backoff' = TRUE
  /\ UNCHANGED <<notices, ledger, outside, inFlight, failures, killed, aborted, snap, completion,
                 rendered, mishaps>>

\* The turn ends in tool calls: the loop goes round.
ToolTurn ==
  /\ run = "turn"
  /\ finish' = "tool-calls"
  /\ run' = "collect"
  /\ InLoop /\ UNCHANGED <<shared, snap, completion, rendered, dropped>>

\* The turn ends cleanly: the loop decides whether the session goes on.
FinalTurn ==
  /\ run = "turn"
  /\ finish' = "stop"
  /\ run' = "decide"
  /\ InLoop /\ UNCHANGED <<shared, snap, completion, rendered, dropped>>

Decide ==
  /\ run = "decide"
  /\ run' \in {"exit"} \cup (IF MayContinue THEN {"continue"} ELSE {})
  /\ InLoop /\ UNCHANGED <<shared, snap, completion, finish, rendered, dropped>>

\* handleContinuationSideEffects: a synthetic message and a queued continuation.
Continue ==
  /\ run = "continue"
  /\ userNewer' = TRUE
  /\ pending' = "cont"
  /\ run' = "collect"
  /\ InLoop /\ UNCHANGED <<notices, ledger, snap, completion, finish, rendered, dropped>>

\* The loop's defer frees the slot.
Freed ==
  /\ run' = "off"
  /\ aborted' = FALSE /\ snap' = {} /\ completion' = FALSE

\* The run returns; doResume resets the supervisor's record, and its finally block
\* the in-flight mark.
Exit ==
  /\ run = "exit"
  /\ Freed
  /\ IF inFlight = "running"
     THEN inFlight' = "no" /\ failures' = 0 /\ backoff' = FALSE
     ELSE UNCHANGED <<inFlight, failures, backoff>>
  /\ UNCHANGED <<shared, outside, killed, finish, rendered, dropped, mishaps>>

\* The run throws.  A resumed one is left to doResume's catch; of a prompt's run
\* nobody queues the consumed continuation again.
LoopThrows ==
  /\ run \notin {"off", "exit"} /\ Stimulus
  /\ Freed
  /\ dropped' = IF run = "stream" THEN dropped \cup snap ELSE dropped
  /\ inFlight' = IF inFlight = "running" THEN "failing" ELSE inFlight
  /\ parked' = IF inFlight # "running" /\ pending # "task" THEN parked \cup Claims ELSE parked
  /\ UNCHANGED <<shared, outside, failures, backoff, killed, finish, rendered>>

HandlerStep(e) == Append_(e) \/ Claim(e) \/ Coalesce(e) \/ SyntheticMessage(e) \/ EnqueueTask(e) \/ Nudge(e)

LoopStep ==
  \/ Snapshot \/ Collect \/ ReadMessages \/ CreateReply \/ Drain
  \/ StreamStart \/ StreamFails \/ ToolTurn \/ FinalTurn \/ Decide \/ Continue \/ Exit

SupervisorStep ==
  \/ Tick \/ KilledResume \/ BackoffEnds \/ KillCleared
  \/ \E fatal \in BOOLEAN : ResumeFails(fatal)

Mishap ==
  \/ \E e \in Events : EnqueueThrows(e)
  \/ KillSwitch \/ LoopThrows
  \/ \E abort \in BOOLEAN : Cancel(abort)

StartRun == \E resumed \in BOOLEAN : Start(resumed)

Next ==
  \/ \E e \in Events : HandlerStep(e)
  \/ Prompt \/ StartRun
  \/ SupervisorStep \/ LoopStep \/ Mishap

Spec == Init /\ [][Next]_vars

\* Subscribers, the supervisor's interval timer and the run loop keep running, and
\* time passes (the backoff, the kill switch's TTL); nobody has to type a prompt and
\* no event has to arrive.
FairSpec ==
  /\ Spec
  /\ \A e \in Events : WF_vars(handler[e] # "idle" /\ HandlerStep(e))
  /\ WF_vars(Tick) /\ WF_vars(BackoffEnds) /\ WF_vars(KillCleared)
  /\ WF_vars(KilledResume) /\ WF_vars(\E fatal \in BOOLEAN : ResumeFails(fatal))
  /\ WF_vars(LoopStep)
  /\ WF_vars(Start(TRUE))
  /\ WF_vars(Start(FALSE))
-----------------------------------------------------------------------------
Appended(j) == \E e \in Events : e[1] = j /\ handler[e] # "idle"

\* The notices in the prompt of a turn whose stream has not started.
Carried == IF run = "stream" THEN snap ELSE {}

\* prompt.ts "new arrivals between read and write survive": a notice leaves the
\* parent's list only for the prompt of a turn, however the subscriber and the drain
\* interleave, and only a turn whose stream never starts takes it away unseen.
NoticeNeverLost ==
  \A j \in Jobs : Appended(j) => j \in notices \cup Carried \cup rendered \cup dropped

\* pending-notice-appender.ts "never a second turn": however often task.completed
\* is delivered for a job, at most one continuation is queued for it.
OneWakePerJob == \A j \in Jobs : wakes[j] <= 1

\* A job whose notice is on the list while no run of the parent is under way, and
\* which no subscriber has claimed yet, reaches the model without the user typing
\* anything, also when resumes fail and are tried again.  The exceptions: the stream of the
\* turn that took the notice never starts; the wake-up is dropped while the claimed
\* notice waits (an enqueue that throws, a cancel, an operator's drop, the kill switch
\* at a launch, a resume given up, a prompt's run that throws); and a plain
\* continuation sits in the queue of the idle session, which the completion was
\* coalesced into or replaced by, and which the supervisor does not resume.
IdleParentSeesNotice ==
  \A j \in Jobs : (j \in notices /\ j \notin ToSet(ledger) /\ run = "off")
                    ~> (j \in rendered \cup dropped \cup parked \/ (pending = "cont" /\ run = "off"))
=============================================================================
